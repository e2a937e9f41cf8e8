--------------------------- MODULE CommandService ---------------------------
(***************************************************************************)
(* How a command of a client takes effect once.  A server keeps, in        *)
(* memory, a ledger of idempotency keys (latte-server, http.rs), its open  *)
(* workspaces and an index of sessions (workspace.rs); the runtime keeps   *)
(* one runner per session (latte-headless, session.rs); the database that  *)
(* every server of the user shares keeps the lease and a record of each    *)
(* accepted command (latte-engine, storage.rs).  A client repeats a        *)
(* command, to the same server or to another one, with the same or with    *)
(* another payload; a handler is dropped when its client goes away, its    *)
(* task goes on; a server dies and comes back empty.                       *)
(*                                                                         *)
(* One session in one workspace.  A command is the creation of the session *)
(* or a follow-up to it; a payload stands for everything the two digests   *)
(* cover, the expected revision of a follow-up included.                   *)
(***************************************************************************)
EXTENDS Naturals, FiniteSets

CONSTANTS Servers,     \* processes that serve the same database
          Attempts,    \* requests of clients, each sent once
          Creation,    \* the command that creates the session
          FollowUps,   \* the commands that follow it up
          MaxExpected, \* bound: revisions a client expects
          MaxCrashes   \* bound: crashes of a server

ASSUME ServiceAssumption ==
    /\ Creation \notin FollowUps
    /\ MaxExpected \in Nat
    /\ MaxCrashes \in Nat

Commands == {Creation} \cup FollowUps

(* The payload of a follow-up is the revision that it expects. *)
Payloads == 0..MaxExpected

Nobody == "nobody"
Dead == "dead"

VARIABLES db,        \* the session, its lease and the accepted commands
          ledger,    \* idempotency keys of each server
          opened,      \* workspaces each server has built
          index,     \* servers whose index holds the session
          runner,    \* the task each server's runner belongs to
          attempt,   \* requests, by their handler
          job,      \* what a handler has spawned
          accept,    \* the acceptance signal of each task
          turns,     \* history: what was started, and for which command
          answers,   \* history: what clients were told
          crashes

serviceVars == <<db, ledger, opened, index, runner, attempt, job, accept, turns,
                 answers, crashes>>

Slots == {[state |-> "none", payload |-> 0, revision |-> 0]}
            \cup [state: {"pending", "done"}, payload: Payloads, revision: Nat]

NoSlot == [state |-> "none", payload |-> 0, revision |-> 0]

NoRecord == [payload |-> 0, revision |-> 0, accepted |-> FALSE]

HandlerStages == {"unused", "route", "await", "answered", "dropped"}
TaskStages == {"none", "begin", "lookup", "acquire", "create", "turn", "guard",
               "drain", "ended"}
Signals == {"none", "created", "replayed", "mismatch", "conflict", "failed"}

ServiceTypeOK ==
    /\ db \in [exists: BOOLEAN, revision: Nat, life: {"ready", "running", "over"},
               lease: Servers \cup {Nobody, Dead},
               record: [Commands -> [payload: Payloads, revision: Nat,
                                     accepted: BOOLEAN]]]
    /\ ledger \in [Servers -> [Commands -> Slots]]
    /\ opened \in [Servers -> Nat]
    /\ index \subseteq Servers
    /\ runner \in [Servers -> Attempts \cup {Nobody}]
    /\ attempt \in [Attempts -> [stage: HandlerStages, server: Servers \cup {Nobody},
                                 command: Commands, payload: Payloads]]
    /\ job \in [Attempts -> TaskStages]
    /\ accept \in [Attempts -> [signal: Signals, revision: Nat]]
    /\ crashes \in 0..MaxCrashes

NoSession == [exists |-> FALSE, revision |-> 0, life |-> "over", lease |-> Nobody,
              record |-> [c \in Commands |-> NoRecord]]

(* What an earlier server may have left: the session after its first turn. *)
EarlierSession ==
    [exists |-> TRUE, revision |-> 2, life |-> "ready", lease |-> Nobody,
     record |-> [c \in Commands |->
                    IF c = Creation
                    THEN [payload |-> 0, revision |-> 1, accepted |-> TRUE]
                    ELSE NoRecord]]

ServiceInit ==
    /\ db \in {NoSession, EarlierSession}
    /\ ledger = [s \in Servers |-> [c \in Commands |-> NoSlot]]
    /\ opened = [s \in Servers |-> 0]
    /\ index = {}
    /\ runner = [s \in Servers |-> Nobody]
    /\ attempt = [a \in Attempts |-> [stage |-> "unused", server |-> Nobody,
                                      command |-> Creation, payload |-> 0]]
    /\ job = [a \in Attempts |-> "none"]
    /\ accept = [a \in Attempts |-> [signal |-> "none", revision |-> 0]]
    /\ turns = {}
    /\ answers = {}
    /\ crashes = 0

ServerOf(a) == attempt[a].server
CommandOf(a) == attempt[a].command
PayloadOf(a) == attempt[a].payload

-----------------------------------------------------------------------------
(* The ledger of idempotency keys. *)

Claim(slot, payload) ==
    CASE slot.state = "none" -> "owner"
      [] slot.state # "none" /\ slot.payload # payload -> "mismatch"
      [] slot.state = "pending" /\ slot.payload = payload -> "in_flight"
      [] slot.state = "done" /\ slot.payload = payload -> "replay"

Tell(a, status, revision) ==
    answers' = answers \cup {[command |-> CommandOf(a), payload |-> PayloadOf(a),
                              status |-> status, revision |-> revision]}

(* idempotency_release: a reservation, never a result. *)
Released(slot) == IF slot.state = "pending" THEN NoSlot ELSE slot

(* create_session and follow_up, up to their first await. *)
Request(a, s, c, p) ==
    LET slot == ledger[s][c]
        claim == Claim(slot, p)
        stage == IF claim = "owner" THEN "route" ELSE "answered"
    IN
    /\ attempt[a].stage = "unused"
    /\ attempt' = [attempt EXCEPT ![a] = [stage |-> stage, server |-> s,
                                          command |-> c, payload |-> p]]
    /\ ledger' = [ledger EXCEPT ![s][c] =
                     IF claim = "owner"
                     THEN [state |-> "pending", payload |-> p, revision |-> 0] ELSE @]
    /\ answers' = IF claim = "owner" THEN answers
                  ELSE answers \cup {[command |-> c, payload |-> p,
                                      status |-> IF claim = "replay" THEN "ok" ELSE claim,
                                      revision |-> slot.revision]}
    /\ UNCHANGED <<db, opened, index, runner, job, accept, turns, crashes>>

-----------------------------------------------------------------------------
(* Workspaces. *)

(* get_or_create: an instance that appeared while this caller waited for the
   write lock is taken. *)
Built(built) == IF built = 0 THEN 1 ELSE built

(* create_workspace, from the write lock on: the caller saw no instance when it
   held the read lock, at any time before. *)
OpenWorkspace(s) ==
    /\ opened' = [opened EXCEPT ![s] = Built(@)]
    /\ UNCHANGED <<db, ledger, index, runner, attempt, job, accept, turns,
                   answers, crashes>>

(* get_session_workspace: the index, or else the catalog, which fills it. *)
Located(s) == s \in index \/ db.exists

Refuse(a, status) ==
    /\ attempt' = [attempt EXCEPT ![a].stage = "answered"]
    /\ ledger' = [ledger EXCEPT ![ServerOf(a)][CommandOf(a)] = Released(@)]
    /\ Tell(a, status, 0)

(* create_session_owned, follow_up_owned: find the workspace, spawn the task. *)
Route(a) ==
    LET s == ServerOf(a)
        create == CommandOf(a) = Creation
        found == IF create THEN opened[s] > 0 ELSE Located(s)
    IN
    /\ attempt[a].stage = "route"
    /\ IF found
       THEN /\ attempt' = [attempt EXCEPT ![a].stage = "await"]
            /\ job' = [job EXCEPT ![a] = "begin"]
            /\ index' = IF create THEN index ELSE index \cup {s}
            /\ opened' = [opened EXCEPT ![s] = IF create THEN @ ELSE Built(@)]
            /\ UNCHANGED <<ledger, answers>>
       ELSE /\ Refuse(a, "not_found")
            /\ UNCHANGED <<job, index, opened>>
    /\ UNCHANGED <<db, runner, accept, turns, crashes>>

-----------------------------------------------------------------------------
(* The task: start_accepted, follow_up_accepted. *)

(* signal_accept, and the guard of the runner, which is dropped. *)
Stop(a, signal, revision) ==
    /\ accept' = [accept EXCEPT ![a] = [signal |-> signal, revision |-> revision]]
    /\ job' = [job EXCEPT ![a] = "ended"]
    /\ runner' = [runner EXCEPT ![ServerOf(a)] = IF @ = a THEN Nobody ELSE @]

(* begin_runner, begin_runner_when_settled: a follow-up waits for the residue
   of a turn that has ended. *)
BeginTask(a) ==
    LET s == ServerOf(a) IN
    /\ job[a] = "begin"
    /\ \/ /\ runner[s] = Nobody
          /\ runner' = [runner EXCEPT ![s] = a]
          /\ job' = [job EXCEPT ![a] = "lookup"]
          /\ UNCHANGED accept
       \/ /\ runner[s] # Nobody
          /\ CommandOf(a) = Creation \/ db.life # "ready"
          /\ Stop(a, IF CommandOf(a) = Creation THEN "failed" ELSE "conflict", 0)
    /\ UNCHANGED <<db, ledger, opened, index, attempt, turns, answers, crashes>>

(* What the record of a command says to another request for it. *)
Replay(c, payload) ==
    IF db.record[c].payload = payload THEN "replayed" ELSE "mismatch"

(* preflight_first_turn, lookup_create_replay and lookup_follow_up_replay,
   before the revision is looked at and before a lease is asked for. *)
Lookup(a) ==
    LET c == CommandOf(a)
        stale == c # Creation /\ (db.revision # PayloadOf(a) \/ db.life # "ready")
    IN
    /\ job[a] = "lookup"
    /\ \/ /\ db.record[c].accepted
          /\ Stop(a, Replay(c, PayloadOf(a)), db.record[c].revision)
       \/ /\ ~db.record[c].accepted
          /\ stale
          /\ Stop(a, "conflict", 0)
       \/ /\ ~db.record[c].accepted
          /\ ~stale
          /\ job' = [job EXCEPT ![a] = "acquire"]
          /\ UNCHANGED <<accept, runner>>
       \/ Stop(a, "failed", 0)
    /\ UNCHANGED <<db, ledger, opened, index, attempt, turns, answers, crashes>>

AcquireSessionLease(a) ==
    /\ job[a] = "acquire"
    /\ \/ /\ db.lease = Nobody
          /\ db' = [db EXCEPT !.lease = ServerOf(a)]
          /\ job' = [job EXCEPT ![a] = "create"]
          /\ UNCHANGED <<accept, runner>>
       \/ /\ db.lease # Nobody
          /\ Stop(a, IF CommandOf(a) = Creation THEN "failed" ELSE "conflict", 0)
          /\ UNCHANGED db
    /\ UNCHANGED <<ledger, opened, index, attempt, turns, answers, crashes>>

Accepted(a) ==
    LET revision == IF CommandOf(a) = Creation THEN 1 ELSE db.revision + 1 IN
    /\ db' = [db EXCEPT !.exists = TRUE, !.revision = revision, !.life = "running",
                        !.record[CommandOf(a)] = [payload |-> PayloadOf(a),
                                                  revision |-> revision,
                                                  accepted |-> TRUE]]
    /\ accept' = [accept EXCEPT ![a] = [signal |-> "created", revision |-> revision]]
    /\ job' = [job EXCEPT ![a] = "turn"]
    /\ turns' = turns \cup {[command |-> CommandOf(a), attempt |-> a]}
    /\ UNCHANGED runner

(* The lease is released when its guard is dropped. *)
Rejected(a, signal, revision) ==
    /\ Stop(a, signal, revision)
    /\ db' = [db EXCEPT !.lease = Nobody]
    /\ UNCHANGED turns

(* A fault, for comparison: what the first look found is relied upon. *)
CreateWithoutRecheck(a) ==
    /\ job[a] = "create"
    /\ Accepted(a)
    /\ UNCHANGED <<ledger, opened, index, attempt, answers, crashes>>

(* create_started_session_v2, create_started_session_follow_up_v2: one write
   transaction, which looks at the record again. *)
CreateStarted(a) ==
    LET c == CommandOf(a) IN
    /\ job[a] = "create"
    /\ \/ /\ db.record[c].accepted
          /\ Rejected(a, Replay(c, PayloadOf(a)), db.record[c].revision)
       \/ /\ ~db.record[c].accepted
          /\ IF c = Creation THEN db.exists
             ELSE db.revision # PayloadOf(a) \/ db.life # "ready"
          /\ Rejected(a, "conflict", 0)
       \/ /\ ~db.record[c].accepted
          /\ IF c = Creation THEN ~db.exists
             ELSE db.revision = PayloadOf(a) /\ db.life = "ready"
          /\ Accepted(a)
    /\ UNCHANGED <<ledger, opened, index, attempt, answers, crashes>>

(* The last commit of the turn; the lease is released after it, and the runner
   after that (drain_mailbox). *)
TurnCommits(a, life) ==
    /\ job[a] = "turn"
    /\ db' = [db EXCEPT !.revision = @ + 1, !.life = life]
    /\ job' = [job EXCEPT ![a] = "guard"]
    /\ UNCHANGED <<ledger, opened, index, runner, attempt, accept, turns, answers,
                   crashes>>

LeaseGuardDropped(a) ==
    /\ job[a] = "guard"
    /\ db' = [db EXCEPT !.lease = Nobody]
    /\ job' = [job EXCEPT ![a] = "drain"]
    /\ UNCHANGED <<ledger, opened, index, runner, attempt, accept, turns, answers,
                   crashes>>

RunnerGuardDropped(a) ==
    /\ job[a] = "drain"
    /\ job' = [job EXCEPT ![a] = "ended"]
    /\ runner' = [runner EXCEPT ![ServerOf(a)] = Nobody]
    /\ UNCHANGED <<db, ledger, opened, index, attempt, accept, turns, answers,
                   crashes>>

-----------------------------------------------------------------------------
(* The handler again. *)

(* The signal has come: the result is recorded, or the key is given back. *)
Answer(a) ==
    LET s == ServerOf(a)
        c == CommandOf(a)
        signal == accept[a].signal
    IN
    /\ attempt[a].stage = "await"
    /\ signal # "none"
    /\ IF signal \in {"created", "replayed"}
       THEN /\ attempt' = [attempt EXCEPT ![a].stage = "answered"]
            /\ ledger' = [ledger EXCEPT ![s][c] =
                             [state |-> "done", payload |-> PayloadOf(a),
                              revision |-> accept[a].revision]]
            /\ index' = IF c = Creation THEN index \cup {s} ELSE index
            /\ Tell(a, "ok", accept[a].revision)
       ELSE /\ Refuse(a, signal)
            /\ UNCHANGED index
    /\ UNCHANGED <<db, opened, runner, job, accept, turns, crashes>>

(* The client gives up and its connection goes: the handler is dropped at the
   await it has reached, its task is not. *)
ClientGone(a) ==
    /\ attempt[a].stage \in {"route", "await"}
    /\ attempt' = [attempt EXCEPT ![a].stage = "dropped"]
    /\ UNCHANGED <<db, ledger, opened, index, runner, job, accept, turns, answers,
                   crashes>>

-----------------------------------------------------------------------------
(* A server dies; what it kept in memory is gone, its lease runs out and the
   sweep of any server ends the turn. *)

Lost(a, s) == attempt[a].stage # "unused" /\ ServerOf(a) = s

Crash(s) ==
    /\ crashes < MaxCrashes
    /\ crashes' = crashes + 1
    /\ ledger' = [ledger EXCEPT ![s] = [c \in Commands |-> NoSlot]]
    /\ opened' = [opened EXCEPT ![s] = 0]
    /\ index' = index \ {s}
    /\ runner' = [runner EXCEPT ![s] = Nobody]
    /\ attempt' = [a \in Attempts |->
                      IF Lost(a, s) /\ attempt[a].stage \in {"route", "await"}
                      THEN [attempt[a] EXCEPT !.stage = "dropped"] ELSE attempt[a]]
    /\ job' = [a \in Attempts |->
                   IF Lost(a, s) /\ job[a] # "none" THEN "ended" ELSE job[a]]
    /\ db' = [db EXCEPT !.lease = IF @ = s THEN Dead ELSE @]
    /\ UNCHANGED <<accept, turns, answers>>

SweepLease ==
    /\ db.lease = Dead
    /\ db' = [db EXCEPT !.lease = Nobody,
                        !.life = IF @ = "running" THEN "over" ELSE @,
                        !.revision = IF db.life = "running" THEN @ + 1 ELSE @]
    /\ UNCHANGED <<ledger, opened, index, runner, attempt, job, accept, turns,
                   answers, crashes>>

ServiceNext ==
    \/ \E a \in Attempts :
          \/ \E s \in Servers, c \in Commands, p \in Payloads : Request(a, s, c, p)
          \/ Route(a) \/ Answer(a) \/ ClientGone(a)
          \/ BeginTask(a) \/ Lookup(a) \/ AcquireSessionLease(a) \/ CreateStarted(a)
          \/ \E life \in {"ready", "over"} : TurnCommits(a, life)
          \/ LeaseGuardDropped(a) \/ RunnerGuardDropped(a)
    \/ \E s \in Servers : Crash(s) \/ OpenWorkspace(s)
    \/ SweepLease

ServiceSpec == ServiceInit /\ [][ServiceNext]_serviceVars

-----------------------------------------------------------------------------
(* A command starts at most one turn, however often and wherever it is sent
   again ("instead of starting a second session or duplicating provider/effect
   work", ServerState; create_session_v2_inner). *)
EffectOnce ==
    \A x, y \in turns : x.command = y.command => x = y

(* Whoever asks for the same command is told the same: the revision at which
   it was accepted; and a client whose payload was not the accepted one is
   never told that it was (idempotency_claim, SessionCommandReplayMismatch). *)
AnswersAgree ==
    \A x \in answers : x.status = "ok" =>
        /\ db.record[x.command].accepted
        /\ x.payload = db.record[x.command].payload
        /\ x.revision = db.record[x.command].revision

(* The handlers of a server that are at work on a command. *)
Handling(s, c) ==
    {a \in Attempts : attempt[a].stage \in {"route", "await"} /\ ServerOf(a) = s /\ CommandOf(a) = c}

(* While a handler is at work its key is in flight, for its payload, and no
   other handler of the server is at work on it; and a key in flight that no
   handler works on was abandoned by one that its client left: idempotency_claim
   refuses every repetition at that server from then on. *)
KeysAreHeld ==
    \A s \in Servers, c \in Commands :
        /\ \A a, b \in Handling(s, c) : a = b
        /\ \A a \in Handling(s, c) :
              ledger[s][c].state = "pending" /\ ledger[s][c].payload = PayloadOf(a)
        /\ ledger[s][c].state = "pending" =>
              \/ Handling(s, c) # {}
              \/ \E a \in Attempts : /\ attempt[a].stage = "dropped"
                                     /\ ServerOf(a) = s /\ CommandOf(a) = c

(* The invariants of the command service together. *)
CommandServiceCorrect == ServiceTypeOK /\ EffectOnce /\ AnswersAgree /\ KeysAreHeld
=============================================================================
