---------------------------- MODULE EventStream ----------------------------
(***************************************************************************)
(* How a client learns that a session changed.  A commit of the ledger is  *)
(* announced after it, and outside of it, on the broadcast channel of the  *)
(* engine (latte-engine, lib.rs); a bridge copies the channel of every     *)
(* workspace to the channel of its SSE subscribers (latte-server,          *)
(* workspace.rs, http.rs); the command line observes one session through   *)
(* such a stream and refetches the snapshot on every event                 *)
(* (latte-code, server_client.rs).  Both channels have a capacity, drop    *)
(* their oldest event when it is exceeded and tell the reader so.          *)
(*                                                                         *)
(* A session is reduced to its phase: "orphan" is a turn whose owner is    *)
(* gone and whose lease has run out, "ended" every lifecycle but Running.  *)
(* An event is a wake-up: no reader uses the revision that it carries.     *)
(***************************************************************************)
EXTENDS Naturals, Sequences, SequencesExt

CONSTANTS Sessions,       \* the sessions in the shared database
          Workspaces,     \* the workspaces this server has opened
          HomeOf,         \* the workspace of each session
          Watched,        \* the session the command line observes
          EngineCapacity, \* capacity of EngineHandle::session_events
          StreamCapacity, \* capacity of the event channel of a workspace
          MaxUnsent,      \* bound: commits of a session not yet announced
          EventFaults     \* what may go wrong besides lag and interleaving:
                          \*   "sync"  a commit takes effect, its log does not
                          \*   "down"  a request of the client fails

ASSUME EventAssumption ==
    /\ HomeOf \in [Sessions -> Workspaces]
    /\ Watched \in Sessions
    /\ EngineCapacity \in Nat \ {0}
    /\ StreamCapacity \in Nat \ {0}
    /\ MaxUnsent \in Nat \ {0}
    /\ EventFaults \subseteq {"sync", "down"}

VARIABLES phase,       \* what the database says of each session
          unsent,      \* events that committing tasks have still to send
          engineLine,  \* what the bridge of each workspace has not read
          engineLag,   \* the bridge has lost events
          stream,      \* what the observer has not read
          streamLag,   \* the observer has lost events
          connected,   \* the observer's stream is open
          observer,    \* where observe_session is
          unheard      \* history: sessions whose end was announced to nobody

engineVars == <<engineLine, engineLag>>
streamVars == <<stream, streamLag, connected>>
eventVars == <<phase, unsent, engineVars, streamVars, observer, unheard>>

Phases == {"absent", "running", "orphan", "ended"}
Events == {"session_changed", "resync_required", "progress"}
Active == {"setup", "create", "pre", "open", "post", "wait", "check", "recheck",
           "cancelling"}
Finished == {"done", "cancelled", "failed"}

EventTypeOK ==
    /\ phase \in [Sessions -> Phases]
    /\ unsent \in [Sessions -> 0..MaxUnsent]
    /\ engineLine \in [Workspaces -> Seq(Sessions)]
    /\ \A w \in Workspaces : Len(engineLine[w]) <= EngineCapacity
    /\ engineLag \in [Workspaces -> BOOLEAN]
    /\ stream \in Seq(Events)
    /\ Len(stream) <= StreamCapacity
    /\ streamLag \in BOOLEAN
    /\ connected \in BOOLEAN
    /\ observer \in Active \cup Finished
    /\ unheard \subseteq Sessions

EventInit ==
    /\ phase = [s \in Sessions |-> IF s = Watched THEN "absent" ELSE "ended"]
    /\ unsent = [s \in Sessions |-> 0]
    /\ engineLine = [w \in Workspaces |-> <<>>]
    /\ engineLag = [w \in Workspaces |-> FALSE]
    /\ stream = <<>>
    /\ streamLag = FALSE
    /\ connected = FALSE
    /\ observer = "setup"
    /\ unheard = {}

-----------------------------------------------------------------------------
(* A broadcast channel (tokio, external): a full one drops its oldest event
   and the reader is told before it reads on. *)

Sent(line, e, capacity) ==
    IF Len(line) < capacity THEN Append(line, e) ELSE Append(Tail(line), e)

Overflows(line, capacity) == Len(line) >= capacity

(* Nothing reaches a channel without a subscriber. *)
ToStream(w, e) ==
    IF connected /\ w = HomeOf[Watched]
    THEN /\ stream' = Sent(stream, e, StreamCapacity)
         /\ streamLag' = (streamLag \/ Overflows(stream, StreamCapacity))
         /\ UNCHANGED connected
    ELSE UNCHANGED streamVars

-----------------------------------------------------------------------------
(* The owners of turns, and other clients. *)

(* finish_session_response: the commit first, the log, then the event.  An
   error of the log is returned to the caller and no event is sent. *)
Commit(s, next) ==
    /\ phase[s] = "running"
    /\ next \in {"running", "ended"}
    /\ unsent[s] < MaxUnsent
    /\ phase' = [phase EXCEPT ![s] = next]
    /\ \/ /\ unsent' = [unsent EXCEPT ![s] = @ + 1]
          /\ UNCHANGED unheard
       \/ /\ "sync" \in EventFaults
          /\ unheard' = IF next = "ended" THEN unheard \cup {s} ELSE unheard
          /\ UNCHANGED unsent
    /\ UNCHANGED <<engineVars, streamVars, observer>>

FollowUp(s) ==
    /\ s # Watched
    /\ phase[s] = "ended"
    /\ unsent[s] < MaxUnsent
    /\ phase' = [phase EXCEPT ![s] = "running"]
    /\ unsent' = [unsent EXCEPT ![s] = @ + 1]
    /\ unheard' = unheard \ {s}
    /\ UNCHANGED <<engineVars, streamVars, observer>>

(* Tasks send in any order; the session is all that a reader could use. *)
Announce(s) ==
    LET w == HomeOf[s] IN
    /\ unsent[s] > 0
    /\ unsent' = [unsent EXCEPT ![s] = @ - 1]
    /\ engineLine' = [engineLine EXCEPT ![w] = Sent(@, s, EngineCapacity)]
    /\ engineLag' = [engineLag EXCEPT
                        ![w] = @ \/ Overflows(engineLine[w], EngineCapacity)]
    /\ UNCHANGED <<phase, streamVars, observer, unheard>>

(* The progress sink of a workspace, and a handler that has accepted a command,
   write to the stream directly. *)
Direct(s, e) ==
    /\ phase[s] = "running"
    /\ ToStream(HomeOf[s], e)
    /\ UNCHANGED <<phase, unsent, engineVars, observer, unheard>>

(* The process that owns the turn dies, or its heartbeats fail, and the lease
   runs out. *)
LoseOwner(s) ==
    /\ phase[s] = "running"
    /\ phase' = [phase EXCEPT ![s] = "orphan"]
    /\ UNCHANGED <<unsent, engineVars, streamVars, observer, unheard>>

-----------------------------------------------------------------------------
(* The recovery sweep of one engine. *)

Orphans == {s \in Sessions : phase[s] = "orphan"}

(* A session of another workspace ends the loop, whatever the rows after it;
   the query gives the rows no order. *)
AnnouncedBySweep(w) ==
    LET local == {s \in Orphans : HomeOf[s] = w} IN
    IF local = Orphans THEN {Orphans} ELSE SUBSET local

Recovered == [s \in Sessions |-> IF s \in Orphans THEN "ended" ELSE phase[s]]

(* recover_expired_leases: one transaction recovers the sessions of every
   workspace; the loop after it needs each log to be of this workspace. *)
Sweep(w) ==
    /\ Orphans # {}
    /\ \A s \in Orphans : unsent[s] < MaxUnsent
    /\ phase' = Recovered
    /\ \E told \in AnnouncedBySweep(w) :
           /\ unsent' = [s \in Sessions |->
                            IF s \in told THEN unsent[s] + 1 ELSE unsent[s]]
           /\ unheard' = unheard \cup (Orphans \ told)
    /\ UNCHANGED <<engineVars, streamVars, observer>>

(* Storage::open: whoever opens the database, in this process for another
   workspace or in another process, recovers first and announces nothing. *)
RecoveredByOpening ==
    /\ Orphans # {}
    /\ phase' = Recovered
    /\ unheard' = unheard \cup Orphans
    /\ UNCHANGED <<unsent, engineVars, streamVars, observer>>

-----------------------------------------------------------------------------
(* The bridge between the channels of a workspace. *)

Bridge(w) ==
    /\ \/ /\ engineLag[w]
          /\ engineLag' = [engineLag EXCEPT ![w] = FALSE]
          /\ ToStream(w, "resync_required")
          /\ UNCHANGED engineLine
       \/ /\ ~engineLag[w]
          /\ engineLine[w] # <<>>
          /\ engineLine' = [engineLine EXCEPT ![w] = Tail(@)]
          /\ ToStream(w, "session_changed")
          /\ UNCHANGED engineLag
    /\ UNCHANGED <<phase, unsent, observer, unheard>>

-----------------------------------------------------------------------------
(* run_session and observe_session. *)

(* resolve_workspace and default_binding. *)
Setup ==
    /\ observer = "setup"
    /\ observer' = "create"
    /\ UNCHANGED <<phase, unsent, engineVars, streamVars, unheard>>

Created ==
    /\ phase' = [phase EXCEPT ![Watched] = "running"]
    /\ unsent' = [unsent EXCEPT ![Watched] = @ + 1]

CreateSession ==
    /\ observer = "create"
    /\ Created
    /\ observer' = "pre"
    /\ UNCHANGED <<engineVars, streamVars, unheard>>

(* classify: nothing while the session runs, an outcome otherwise; a turn
   whose owner is gone still runs for all that the snapshot says. *)
Classifies(s) == phase[s] = "ended"

AfterCheck == [pre |-> "open", recheck |-> "open", post |-> "wait", check |-> "wait"]

CheckTerminal ==
    /\ observer \in DOMAIN AfterCheck
    /\ observer' = IF Classifies(Watched) THEN "done" ELSE AfterCheck[observer]
    /\ UNCHANGED <<phase, unsent, engineVars, streamVars, unheard>>

(* A fault, for comparison: the stream is opened and trusted at once. *)
OpenWithoutResync ==
    /\ observer = "open"
    /\ stream' = <<>>
    /\ streamLag' = FALSE
    /\ connected' = TRUE
    /\ observer' = "wait"
    /\ UNCHANGED <<phase, unsent, engineVars, unheard>>

OpenEvents ==
    /\ observer = "open"
    /\ stream' = <<>>
    /\ streamLag' = FALSE
    /\ connected' = TRUE
    /\ observer' = "post"
    /\ UNCHANGED <<phase, unsent, engineVars, unheard>>

(* The stream ends: by the server, the network or 30 s without a byte. *)
StreamEnds ==
    /\ connected
    /\ stream' = <<>>
    /\ streamLag' = FALSE
    /\ connected' = FALSE
    /\ UNCHANGED <<phase, unsent, engineVars, observer, unheard>>

NextEvent ==
    /\ observer = "wait"
    /\ \/ /\ ~connected
          /\ observer' = "recheck"
          /\ UNCHANGED streamVars
       \/ /\ connected
          /\ streamLag
          /\ streamLag' = FALSE
          /\ observer' = "check"
          /\ UNCHANGED <<stream, connected>>
       \/ /\ connected
          /\ ~streamLag
          /\ stream # <<>>
          /\ stream' = Tail(stream)
          /\ observer' = IF Head(stream) = "progress" THEN "wait" ELSE "check"
          /\ UNCHANGED <<streamLag, connected>>
    /\ UNCHANGED <<phase, unsent, engineVars, unheard>>

(* Control-C, polled in every await: before the session is asked for there is
   nothing to cancel; while it is asked for it may or may not be created. *)
Interrupt ==
    /\ observer \in Active \ {"cancelling"}
    /\ observer' = IF observer = "setup" THEN "cancelled" ELSE "cancelling"
    /\ \/ UNCHANGED <<phase, unsent>>
       \/ observer = "create" /\ Created
    /\ UNCHANGED <<engineVars, streamVars, unheard>>

(* cancel_session: the server refuses a revision that is no longer current,
   and the client does not ask. *)
CancelSession ==
    /\ observer = "cancelling"
    /\ observer' = "cancelled"
    /\ \/ UNCHANGED <<phase, unsent>>
       \/ /\ phase[Watched] = "running"
          /\ unsent[Watched] < MaxUnsent
          /\ phase' = [phase EXCEPT ![Watched] = "ended"]
          /\ unsent' = [unsent EXCEPT ![Watched] = @ + 1]
    /\ UNCHANGED <<engineVars, streamVars, unheard>>

RequestFails ==
    /\ "down" \in EventFaults
    /\ observer \in {"setup", "create", "open"} \cup DOMAIN AfterCheck
    /\ observer' = "failed"
    /\ UNCHANGED <<phase, unsent, engineVars, streamVars, unheard>>

ObserverStep == Setup \/ CreateSession \/ CheckTerminal \/ OpenEvents \/ NextEvent \/ CancelSession

EventNext ==
    \/ \E s \in Sessions :
          \/ \E next \in {"running", "ended"} : Commit(s, next)
          \/ FollowUp(s)
          \/ Announce(s)
          \/ \E e \in {"progress", "session_changed"} : Direct(s, e)
          \/ LoseOwner(s)
    \/ \E w \in Workspaces : Sweep(w) \/ Bridge(w)
    \/ RecoveredByOpening
    \/ ObserverStep
    \/ StreamEnds
    \/ Interrupt
    \/ RequestFails

EventSpec == EventInit /\ [][EventNext]_eventVars

(* The client's loop, the sweeper, the forwarding task and the tail of a commit
   are scheduled; nobody has to start or end a turn. *)
FairEvents ==
    /\ EventSpec
    /\ WF_eventVars(ObserverStep)
    /\ \A w \in Workspaces : WF_eventVars(Sweep(w)) /\ WF_eventVars(Bridge(w))
    /\ \A s \in Sessions : WF_eventVars(Announce(s))

-----------------------------------------------------------------------------
(* A client that waits for events is never left behind: when its session has
   ended, an event, the report of a lag or the end of the stream is still
   under way to it (observe_session sleeps in next_event until one arrives),
   unless the end was announced to nobody: a log that could not be written, a
   sweep that met another workspace, a recovery by Storage::open. *)
NoLostWakeup ==
    (observer = "wait" /\ phase[Watched] = "ended" /\ Watched \notin unheard) =>
        \/ ~connected
        \/ streamLag
        \/ \E i \in DOMAIN stream : stream[i] # "progress"
        \/ engineLag[HomeOf[Watched]]
        \/ engineLine[HomeOf[Watched]] # <<>>
        \/ \E s \in Sessions : HomeOf[s] = HomeOf[Watched] /\ unsent[s] > 0

(* The command line returns once its session is over, whatever is lost, late
   or reordered on the way and however often the stream has to be reopened
   (observe_session), unless the end was announced to nobody; a turn whose
   owner died counts, since the sweep ends it. *)
OverButObserved == observer \in Active /\ phase[Watched] \in {"orphan", "ended"}
ObserverFinishes == OverButObserved ~> (observer \in Finished \/ Watched \in unheard)

(* The invariants of the event stream together. *)
EventStreamCorrect == EventTypeOK /\ NoLostWakeup
=============================================================================
