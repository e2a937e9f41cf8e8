------------------------- MODULE ProcessSupervisor -------------------------
(***************************************************************************)
(* The supervision of one command (latte-engine, process.rs): its leader   *)
(* and what it forks, the group they form, the pipes they hold, and the    *)
(* supervisor that waits for the leader, for a cancellation and for a      *)
(* deadline at once, ends the group and says what it is sure of.  What it  *)
(* says becomes the outcome of an effect in the ledger: "observed" only    *)
(* when it is certain, "unknown" otherwise.                                *)
(*                                                                         *)
(* Timers are left untimed: a deadline may pass at any moment after it was *)
(* set.  Processes are the kernel's and are modelled from how the code     *)
(* uses them: a process that has ended is a zombie until it is reaped, a   *)
(* killed one may take its time, one that was forked may leave the group   *)
(* or close the pipes.                                                     *)
(***************************************************************************)
EXTENDS Naturals, FiniteSets

CONSTANTS Leader,      \* the process that is spawned
          Forks,       \* processes that it, or they, may fork
          TermImmune,  \* processes that ignore SIGTERM
          Foreign      \* processes of another user: a probe answers EPERM

Members == {Leader} \cup Forks

ASSUME SupervisorAssumption ==
    /\ Leader \notin Forks
    /\ TermImmune \subseteq Members
    /\ Foreign \subseteq Forks

VARIABLES process,   \* each process: its state, its group, its pipes
          stage,     \* where the supervisor is
          cause,     \* why the command ended
          cancelToken,     \* the cancellation token
          effect     \* what the ledger says of the effect

supervisorVars == <<process, stage, cause, cancelToken, effect>>

Alive == {"running", "killed"}

Stages == {"check", "spawn", "poll", "select", "exited", "shutdown", "term",
           "reap", "probe", "settle", "drain", "end"}

SupervisorTypeOK ==
    /\ process \in [Members -> [state: {"unborn", "zombie", "gone"} \cup Alive,
                                grouped: BOOLEAN, piped: BOOLEAN]]
    /\ stage \in Stages
    /\ cause \in {"none", "exited", "cancelled", "timed_out"}
    /\ cancelToken \in [cancelled: BOOLEAN, woken: BOOLEAN]
    /\ effect \in {"started", "observed", "unknown"}

SupervisorInit ==
    /\ process = [m \in Members |-> [state |-> "unborn", grouped |-> TRUE, piped |-> TRUE]]
    /\ stage = "check"
    /\ cause = "none"
    /\ cancelToken = [cancelled |-> FALSE, woken |-> FALSE]
    /\ effect = "started"

-----------------------------------------------------------------------------
(* The kernel. *)

Group == {m \in Members : process[m].grouped
                          /\ process[m].state \in Alive \cup {"zombie"}}

Fork(parent, m) ==
    /\ process[parent].state = "running"
    /\ m \in Forks
    /\ process[m].state = "unborn"
    /\ process' = [process EXCEPT ![m] = [state |-> "running",
                                          grouped |-> process[parent].grouped,
                                          piped |-> process[parent].piped]]
    /\ UNCHANGED <<stage, cause, cancelToken, effect>>

LeaveGroup(m) ==
    /\ m \in Forks
    /\ process[m].state = "running"
    /\ process[m].grouped
    /\ process' = [process EXCEPT ![m].grouped = FALSE]
    /\ UNCHANGED <<stage, cause, cancelToken, effect>>

ClosePipes(m) ==
    /\ m \in Forks
    /\ process[m].state = "running"
    /\ process[m].piped
    /\ process' = [process EXCEPT ![m].piped = FALSE]
    /\ UNCHANGED <<stage, cause, cancelToken, effect>>

Exit(m) ==
    /\ process[m].state \in Alive
    /\ process' = [process EXCEPT ![m].state = "zombie"]
    /\ UNCHANGED <<stage, cause, cancelToken, effect>>

(* A parent, or init, reaps what is not the leader. *)
Reap(m) ==
    /\ m \in Forks
    /\ process[m].state = "zombie"
    /\ process' = [process EXCEPT ![m].state = "gone"]
    /\ UNCHANGED <<stage, cause, cancelToken, effect>>

(* killpg: every process of the group that it may signal and that the signal
   ends. *)
Signalled(spared) ==
    [m \in Members |-> IF /\ m \in Group \ (spared \cup Foreign)
                          /\ process[m].state = "running"
                       THEN [process[m] EXCEPT !.state = "killed"] ELSE process[m]]

Terminated == Signalled(TermImmune)
Killed == Signalled({})

(* group_probe: ESRCH, success, or EPERM when no process of it may be
   signalled. *)
Probe ==
    CASE Group = {} -> "absent"
      [] Group # {} /\ Group \subseteq Foreign -> "uncertain"
      [] OTHER -> "present"

-----------------------------------------------------------------------------
(* CancellationToken::cancel: the flag, and whoever waits already. *)
CancelToken ==
    /\ ~cancelToken.cancelled
    /\ cancelToken' = [cancelled |-> TRUE, woken |-> stage = "select"]
    /\ UNCHANGED <<process, stage, cause, effect>>

-----------------------------------------------------------------------------
(* supervise. *)

Settle(outcome) ==
    /\ stage' = "end"
    /\ effect' = outcome

GoOn(next) == stage' = next /\ UNCHANGED effect

(* A cancellation that came first, or a command that cannot be spawned. *)
Check ==
    /\ stage = "check"
    /\ IF cancelToken.cancelled THEN Settle("unknown") ELSE GoOn("spawn")
    /\ UNCHANGED <<process, cause, cancelToken>>

Spawn ==
    /\ stage = "spawn"
    /\ \/ Settle("unknown") /\ UNCHANGED process
       \/ /\ GoOn("poll")
          /\ process' = [process EXCEPT ![Leader].state = "running"]
    /\ UNCHANGED <<cause, cancelToken>>

(* The first poll of the select: CancellationToken::cancelled reads the flag,
   and only then becomes a waiter. *)
PollToken ==
    /\ stage = "poll"
    /\ GoOn("select")
    /\ cancelToken' = [cancelToken EXCEPT !.woken = cancelToken.cancelled]
    /\ UNCHANGED <<process, cause>>

(* The thread that cancels may run between the two. *)
PollTokenRaced ==
    /\ stage = "poll"
    /\ ~cancelToken.cancelled
    /\ GoOn("select")
    /\ cancelToken' = [cancelled |-> TRUE, woken |-> FALSE]
    /\ UNCHANGED <<process, cause>>

LeaderDone == process[Leader].state = "zombie"

WithoutLeader == [process EXCEPT ![Leader].state = "gone"]

(* The select is biased: the leader first, then the token, then the deadline. *)
LeaderExited ==
    /\ stage = "select"
    /\ LeaderDone
    /\ process' = WithoutLeader
    /\ cause' = "exited"
    /\ GoOn("exited")
    /\ UNCHANGED cancelToken

CancelNoticed ==
    /\ stage = "select"
    /\ ~LeaderDone
    /\ cancelToken.woken
    /\ process' = Terminated
    /\ cause' = "cancelled"
    /\ GoOn("term")
    /\ UNCHANGED cancelToken

DeadlinePassed ==
    /\ stage = "select"
    /\ ~LeaderDone
    /\ ~cancelToken.woken
    /\ process' = Terminated
    /\ cause' = "timed_out"
    /\ GoOn("term")
    /\ UNCHANGED cancelToken

(* The leader is gone: whoever is left of the group gets SIGTERM. *)
AfterExit ==
    /\ stage = "exited"
    /\ CASE Probe = "absent" -> GoOn("drain") /\ UNCHANGED process
         [] Probe = "present" -> GoOn("shutdown") /\ process' = Terminated
         [] Probe = "uncertain" -> Settle("unknown") /\ UNCHANGED process
    /\ UNCHANGED <<cause, cancelToken>>

(* shutdown_group, after its grace or as soon as the group is not there. *)
ShutdownGroup ==
    /\ stage = "shutdown"
    /\ CASE Probe = "absent" -> GoOn("drain") /\ UNCHANGED process
         [] Probe = "present" -> GoOn("settle") /\ process' = Killed
         [] Probe = "uncertain" -> Settle("unknown") /\ UNCHANGED process
    /\ UNCHANGED <<cause, cancelToken>>

(* terminate_and_reap: the leader within the grace, or SIGKILL. *)
LeaderTerminated ==
    /\ stage \in {"term", "reap"}
    /\ LeaderDone
    /\ process' = WithoutLeader
    /\ GoOn("probe")
    /\ UNCHANGED <<cause, cancelToken>>

(* A fault, for comparison: SIGTERM is relied upon. *)
GraceOverWithoutKill ==
    /\ stage = "term"
    /\ GoOn("reap")
    /\ UNCHANGED <<process, cause, cancelToken>>

GraceOver ==
    /\ stage = "term"
    /\ process' = Killed
    /\ GoOn("reap")
    /\ UNCHANGED <<cause, cancelToken>>

(* A fault, for comparison: the end of the leader is taken for the end of the
   group. *)
ProbeNothing ==
    /\ stage = "probe"
    /\ GoOn("drain")
    /\ UNCHANGED <<process, cause, cancelToken>>

ProbeGroup ==
    /\ stage = "probe"
    /\ CASE Probe = "absent" -> GoOn("drain") /\ UNCHANGED process
         [] Probe = "present" -> GoOn("settle") /\ process' = Killed
         [] Probe = "uncertain" -> Settle("unknown") /\ UNCHANGED process
    /\ UNCHANGED <<cause, cancelToken>>

(* await_group_absent: until it is absent or its own deadline passes. *)
GroupAbsent ==
    /\ stage = "settle"
    /\ Probe = "absent"
    /\ GoOn("drain")
    /\ UNCHANGED <<process, cause, cancelToken>>

GroupSurvives ==
    /\ stage = "settle"
    /\ Probe # "absent"
    /\ Settle("unknown")
    /\ UNCHANGED <<process, cause, cancelToken>>

PipeHolders == {m \in Members : process[m].piped /\ process[m].state \in Alive}

(* Both pipes reach their end, and execute_started_session_process decides:
   after a cancellation nothing is certain. *)
DrainPipes ==
    /\ stage = "drain"
    /\ PipeHolders = {}
    /\ Settle(IF cause = "cancelled" THEN "unknown" ELSE "observed")
    /\ UNCHANGED <<process, cause, cancelToken>>

DrainTimesOut ==
    /\ stage = "drain"
    /\ PipeHolders # {}
    /\ Settle("unknown")
    /\ UNCHANGED <<process, cause, cancelToken>>

Supervise ==
    \/ Check \/ Spawn \/ PollToken \/ LeaderExited \/ CancelNoticed
    \/ DeadlinePassed \/ AfterExit \/ ShutdownGroup \/ LeaderTerminated
    \/ GraceOver \/ ProbeGroup \/ GroupAbsent \/ GroupSurvives
    \/ DrainPipes \/ DrainTimesOut

(* What SIGKILL or SIGTERM has reached ends. *)
Die == \E m \in Members : process[m].state = "killed" /\ Exit(m)

SupervisorNext ==
    \/ Supervise
    \/ PollTokenRaced
    \/ CancelToken
    \/ \E m \in Members :
          \/ \E p \in Members : Fork(p, m)
          \/ LeaveGroup(m) \/ ClosePipes(m) \/ Exit(m) \/ Reap(m)

SupervisorSpec == SupervisorInit /\ [][SupervisorNext]_supervisorVars

(* The supervisor is scheduled and its timers fire; a killed process ends. *)
FairSupervisor ==
    SupervisorSpec /\ WF_supervisorVars(Supervise) /\ WF_supervisorVars(Die)

-----------------------------------------------------------------------------
(* An effect that is recorded as observed is over: nothing of its group runs
   any more, nobody who could still write to its output is alive, its leader
   has been reaped, and it was not cancelled (execute_started_session_process:
   "process cancelled after its external outcome may have happened"). *)
ObservedIsOver ==
    effect = "observed" =>
        /\ \A m \in Members : process[m].state \in Alive =>
               ~process[m].grouped /\ ~process[m].piped
        /\ process[Leader].state = "gone"
        /\ cause \in {"exited", "timed_out"}

(* The supervisor never waits for ever, whoever ignores signals, leaves the
   group or keeps a pipe open: a child that is killed ends, and every other
   wait has a deadline (terminate_and_reap, await_group_absent, supervise). *)
SupervisionEnds ==
    (stage = "spawn") ~> (stage = "end")

(* The invariants of the supervisor together. *)
ProcessSupervisorCorrect == SupervisorTypeOK /\ ObservedIsOver
=============================================================================
