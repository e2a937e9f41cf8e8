--------------------------- MODULE ProcessProofs ---------------------------
(***************************************************************************)
(* Proofs about processes and effects: the command that a turn runs        *)
(* (ProcessSupervisor), the guard that gives the terminal back             *)
(* (TerminalGuard), the servers and the command line (ServerProcess), the  *)
(* tool calls of a turn (ToolRounds) and what it must show before it       *)
(* completes (Verification).                                               *)
(***************************************************************************)
EXTENDS ProcessSupervisor, TerminalGuard, ServerProcess, ToolRounds, Verification, TLAPS

-----------------------------------------------------------------------------
(* The supervised command *)

(* No process of the group is alive.  It stays so: what is forked is in the
   group only if its parent is. *)
GroupOver == \A m \in Members : process[m].state \in Alive => ~process[m].grouped

(* What the supervisor knows at each of its stages. *)
SupervisorInv ==
    /\ SupervisorTypeOK
    /\ process[Leader].grouped /\ process[Leader].piped
    /\ stage \in {"check", "spawn"} => \A m \in Members : process[m].state = "unborn"
    /\ stage \in {"exited", "shutdown", "probe", "settle", "drain"} =>
          process[Leader].state = "gone" /\ cause # "none"
    /\ stage \in {"term", "reap"} => cause # "none"
    /\ stage = "drain" => GroupOver
    /\ effect = "observed" => stage = "end"
    /\ ObservedIsOver

(* A process changes but no other one, and the supervisor does not move: what
   it knows stays true if the process comes from a running one or is on its
   way out. *)
LEMMA KernelStep ==
    ASSUME SupervisorInv, UNCHANGED <<stage, cause, cancelToken, effect>>,
           NEW m \in Members,
           NEW r \in [state: {"unborn", "zombie", "gone"} \cup Alive,
                      grouped: BOOLEAN, piped: BOOLEAN],
           process' = [process EXCEPT ![m] = r],
           m = Leader => r.grouped /\ r.piped,
           process[m].state = "gone" => r.state = "gone",
           stage \notin {"check", "spawn"},
           r.state \in Alive =>
               \E p \in Members : /\ process[p].state \in Alive
                                  /\ r.grouped => process[p].grouped
                                  /\ r.piped => process[p].piped
    PROVE  SupervisorInv'
<1>1. /\ process' \in [Members -> [state: {"unborn", "zombie", "gone"} \cup Alive,
                                   grouped: BOOLEAN, piped: BOOLEAN]]
      /\ process'[m] = r
      /\ \A q \in Members : q # m => process'[q] = process[q]
      /\ Leader \in Members
  BY DEF SupervisorInv, SupervisorTypeOK, Members
<1>2. SupervisorTypeOK'
  BY <1>1 DEF SupervisorInv, SupervisorTypeOK
<1>3. process'[Leader].grouped /\ process'[Leader].piped
  BY <1>1 DEF SupervisorInv
<1>4. process[Leader].state = "gone" => process'[Leader].state = "gone"
  BY <1>1
<1>5. GroupOver => GroupOver'
  BY <1>1 DEF GroupOver
<1>6. ObservedIsOver'
  BY <1>1, <1>4 DEF SupervisorInv, ObservedIsOver
<1> QED BY <1>2, <1>3, <1>4, <1>5, <1>6 DEF SupervisorInv

(* A process that runs was spawned, so the supervisor is past its beginning. *)
LEMMA Spawned ==
    ASSUME SupervisorInv, NEW m \in Members, process[m].state # "unborn"
    PROVE  stage \notin {"check", "spawn"}
BY DEF SupervisorInv

(* What the kernel and the processes do. *)
LEMMA KernelSteps ==
    ASSUME SupervisorInv, NEW m \in Members,
           \/ \E p \in Members : Fork(p, m)
           \/ LeaveGroup(m) \/ ClosePipes(m) \/ Exit(m) \/ Reap(m)
    PROVE  SupervisorInv'
<1>0. /\ \A p \in Members : process[p] \in
            [state: {"unborn", "zombie", "gone"} \cup Alive, grouped: BOOLEAN, piped: BOOLEAN]
      /\ Leader \notin Forks /\ process[Leader].grouped /\ process[Leader].piped
  BY SupervisorAssumption DEF SupervisorInv, SupervisorTypeOK
<1>1. ASSUME NEW p \in Members, Fork(p, m) PROVE SupervisorInv'
  <2> DEFINE r == [state |-> "running", grouped |-> process[p].grouped,
                   piped |-> process[p].piped]
  <2>1. /\ process' = [process EXCEPT ![m] = r] /\ process[p].state \in Alive
        /\ UNCHANGED <<stage, cause, cancelToken, effect>>
        /\ m # Leader /\ process[m].state = "unborn" /\ process[p].state # "unborn"
    BY <1>0, <1>1 DEF Fork, Alive
  <2>2. /\ r \in [state: {"unborn", "zombie", "gone"} \cup Alive, grouped: BOOLEAN, piped: BOOLEAN]
        /\ r.grouped => process[p].grouped
        /\ r.piped => process[p].piped
    BY <1>0 DEF Alive
  <2> HIDE DEF r
  <2> QED BY <2>1, <2>2, KernelStep, Spawned
<1>2. CASE LeaveGroup(m)
  <2> DEFINE r == [process[m] EXCEPT !.grouped = FALSE]
  <2>1. /\ process' = [process EXCEPT ![m] = r] /\ process[m].state \in Alive
        /\ UNCHANGED <<stage, cause, cancelToken, effect>> /\ m # Leader
        /\ process[m].state # "gone" /\ process[m].state # "unborn"
    BY <1>0, <1>2 DEF LeaveGroup, Alive
  <2>2. /\ r \in [state: {"unborn", "zombie", "gone"} \cup Alive, grouped: BOOLEAN, piped: BOOLEAN]
        /\ ~r.grouped /\ r.piped = process[m].piped
    BY <1>0
  <2> HIDE DEF r
  <2> QED BY <2>1, <2>2, KernelStep, Spawned
<1>3. CASE ClosePipes(m)
  <2> DEFINE r == [process[m] EXCEPT !.piped = FALSE]
  <2>1. /\ process' = [process EXCEPT ![m] = r] /\ process[m].state \in Alive
        /\ UNCHANGED <<stage, cause, cancelToken, effect>> /\ m # Leader
        /\ process[m].state # "gone" /\ process[m].state # "unborn"
    BY <1>0, <1>3 DEF ClosePipes, Alive
  <2>2. /\ r \in [state: {"unborn", "zombie", "gone"} \cup Alive, grouped: BOOLEAN, piped: BOOLEAN]
        /\ ~r.piped /\ r.grouped = process[m].grouped
    BY <1>0
  <2> HIDE DEF r
  <2> QED BY <2>1, <2>2, KernelStep, Spawned
<1>4. CASE Exit(m) \/ Reap(m)
  <2>1. PICK z \in {"zombie", "gone"} :
          /\ process' = [process EXCEPT ![m] = [process[m] EXCEPT !.state = z]]
          /\ UNCHANGED <<stage, cause, cancelToken, effect>>
          /\ process[m].state # "gone" /\ process[m].state # "unborn"
    BY <1>0, <1>4 DEF Exit, Reap, Alive
  <2> DEFINE r == [process[m] EXCEPT !.state = z]
  <2>2. /\ r \in [state: {"unborn", "zombie", "gone"} \cup Alive, grouped: BOOLEAN, piped: BOOLEAN]
        /\ r.state \notin Alive /\ r.grouped = process[m].grouped /\ r.piped = process[m].piped
    BY <1>0 DEF Alive
  <2>3. process' = [process EXCEPT ![m] = r]
    BY <2>1
  <2> HIDE DEF r
  <2> QED BY <1>0, <2>1, <2>2, <2>3, KernelStep, Spawned
<1> QED BY <1>1, <1>2, <1>3, <1>4

(* A signal ends processes or does nothing: it brings none back and changes
   neither groups nor pipes. *)
LEMMA SignalKeeps ==
    ASSUME SupervisorTypeOK, NEW spared, process' = Signalled(spared)
    PROVE  /\ process' \in [Members -> [state: {"unborn", "zombie", "gone"} \cup Alive,
                                        grouped: BOOLEAN, piped: BOOLEAN]]
           /\ \A m \in Members : /\ process'[m].grouped = process[m].grouped
                                 /\ process'[m].piped = process[m].piped
                                 /\ process[m].state = "gone" => process'[m].state = "gone"
<1> SUFFICES ASSUME NEW m \in Members
             PROVE  /\ process'[m] \in [state: {"unborn", "zombie", "gone"} \cup Alive,
                                        grouped: BOOLEAN, piped: BOOLEAN]
                    /\ process'[m].grouped = process[m].grouped
                    /\ process'[m].piped = process[m].piped
                    /\ process[m].state = "gone" => process'[m].state = "gone"
  BY DEF Signalled
<1>1. process[m] \in [state: {"unborn", "zombie", "gone"} \cup Alive,
                      grouped: BOOLEAN, piped: BOOLEAN]
  BY DEF SupervisorTypeOK
<1>2. \/ process'[m] = process[m]
      \/ process'[m] = [process[m] EXCEPT !.state = "killed"] /\ process[m].state = "running"
  BY DEF Signalled
<1> QED BY <1>1, <1>2 DEF Alive

(* An absent group is over. *)
LEMMA AbsentIsOver == Probe = "absent" => GroupOver
BY DEF Probe, GroupOver, Group

(* A step of the supervisor that leaves every process where it is, or reaps
   the leader, or signals the group. *)
LEMMA SupervisorMoves ==
    ASSUME SupervisorInv,
           process' \in [Members -> [state: {"unborn", "zombie", "gone"} \cup Alive,
                                     grouped: BOOLEAN, piped: BOOLEAN]],
           \A m \in Members : /\ process'[m].grouped = process[m].grouped
                              /\ process'[m].piped = process[m].piped,
           process'[Leader].state = "gone" \/ stage' \in {"poll", "select", "term", "reap", "end"},
           stage' \in Stages \ {"check", "spawn"}, stage # "end",
           cause' \in {"none", "exited", "cancelled", "timed_out"},
           stage' \notin {"poll", "select", "end"} => cause' # "none",
           cancelToken' \in [cancelled: BOOLEAN, woken: BOOLEAN],
           stage' = "drain" => GroupOver',
           effect' \in {effect, "unknown"}
    PROVE  SupervisorInv'
<1>1. effect' \in {"started", "unknown"}
  BY DEF SupervisorInv, SupervisorTypeOK
<1>2. SupervisorTypeOK'
  BY <1>1 DEF SupervisorTypeOK
<1>3. process'[Leader].grouped /\ process'[Leader].piped
  BY DEF SupervisorInv, Members
<1>4. ObservedIsOver'
  BY <1>1 DEF ObservedIsOver
<1> QED BY <1>1, <1>2, <1>3, <1>4 DEF SupervisorInv

(* Reaping the leader takes it, and only it, away. *)
LEMMA LeaderReaped ==
    ASSUME SupervisorTypeOK, process' = WithoutLeader
    PROVE  /\ process' \in [Members -> [state: {"unborn", "zombie", "gone"} \cup Alive,
                                        grouped: BOOLEAN, piped: BOOLEAN]]
           /\ \A m \in Members : /\ process'[m].grouped = process[m].grouped
                                 /\ process'[m].piped = process[m].piped
           /\ process'[Leader].state = "gone"
<1>1. Leader \in Members /\ process[Leader] \in
         [state: {"unborn", "zombie", "gone"} \cup Alive, grouped: BOOLEAN, piped: BOOLEAN]
  BY DEF SupervisorTypeOK, Members
<1>2. /\ process'[Leader] = [process[Leader] EXCEPT !.state = "gone"]
      /\ \A m \in Members : m # Leader => process'[m] = process[m]
      /\ process' = [process EXCEPT ![Leader] = [process[Leader] EXCEPT !.state = "gone"]]
  BY <1>1 DEF WithoutLeader, SupervisorTypeOK
<1> QED BY <1>1, <1>2 DEF SupervisorTypeOK

(* supervise, up to the end of the leader. *)
LEMMA WaitingSteps ==
    ASSUME SupervisorInv,
           \/ Check \/ Spawn \/ PollToken \/ PollTokenRaced \/ CancelToken
           \/ LeaderExited \/ CancelNoticed \/ DeadlinePassed
    PROVE  SupervisorInv'
<1>0. SupervisorTypeOK /\ Leader \in Members
  BY DEF SupervisorInv, Members
<1>1. CASE Check
  BY <1>0, <1>1 DEF Check, Settle, GoOn, SupervisorInv, SupervisorTypeOK, ObservedIsOver,
     Stages, Alive
<1>2. CASE Spawn
  <2>1. CASE UNCHANGED process
    BY <1>0, <1>2, <2>1, SupervisorMoves DEF Spawn, Settle, GoOn, SupervisorTypeOK, Stages, SupervisorInv, Alive
  <2>2. CASE GoOn("poll") /\ process' = [process EXCEPT ![Leader].state = "running"]
    <3>1. process' \in [Members -> [state: {"unborn", "zombie", "gone"} \cup Alive,
                                    grouped: BOOLEAN, piped: BOOLEAN]]
          /\ \A m \in Members : /\ process'[m].grouped = process[m].grouped
                                /\ process'[m].piped = process[m].piped
      BY <1>0, <2>2 DEF SupervisorTypeOK, Alive
    <3> QED BY <1>0, <1>2, <2>2, <3>1, SupervisorMoves DEF Spawn, GoOn, SupervisorTypeOK, Stages
  <2> QED BY <1>2, <2>1, <2>2 DEF Spawn
<1>3. CASE PollToken \/ PollTokenRaced
  <2>1. cancelToken' \in [cancelled: BOOLEAN, woken: BOOLEAN]
    <3>1. cancelToken \in [cancelled: BOOLEAN, woken: BOOLEAN]
      BY <1>0 DEF SupervisorTypeOK
    <3>2. CASE PollToken
      BY <3>1, <3>2, Zenon DEF PollToken
    <3>3. CASE PollTokenRaced
      BY <3>3 DEF PollTokenRaced
    <3> QED BY <1>3, <3>2, <3>3
  <2>2. stage = "poll" /\ stage' = "select" /\ UNCHANGED <<process, cause, effect>>
    BY <1>3 DEF PollToken, PollTokenRaced, GoOn
  <2> QED BY <1>0, <2>1, <2>2, SupervisorMoves DEF SupervisorTypeOK, Stages
<1>4. CASE CancelToken
  BY <1>0, <1>4 DEF CancelToken, SupervisorInv, SupervisorTypeOK, GroupOver, ObservedIsOver
<1>5. CASE LeaderExited
  BY <1>0, <1>5, LeaderReaped, SupervisorMoves DEF LeaderExited, GoOn, SupervisorTypeOK, Stages
<1>6. CASE CancelNoticed \/ DeadlinePassed
  BY <1>0, <1>6, SignalKeeps, SupervisorMoves
     DEF CancelNoticed, DeadlinePassed, Terminated, GoOn, SupervisorTypeOK, Stages
<1> QED BY <1>1, <1>2, <1>3, <1>4, <1>5, <1>6

(* shutdown_group, terminate_and_reap, await_group_absent: the pipes are
   drained only when the group is over. *)
LEMMA EndingSteps ==
    ASSUME SupervisorInv,
           \/ AfterExit \/ ShutdownGroup \/ LeaderTerminated \/ GraceOver
           \/ ProbeGroup \/ GroupAbsent \/ GroupSurvives \/ DrainTimesOut
    PROVE  SupervisorInv'
<1>0. SupervisorTypeOK /\ Leader \in Members
  BY DEF SupervisorInv, Members
<1>1. CASE AfterExit \/ ShutdownGroup \/ ProbeGroup
  <2>1. PICK next \in {"drain", "shutdown", "settle", "end"} :
          /\ stage' = next /\ effect' \in {effect, "unknown"}
          /\ UNCHANGED <<cause, cancelToken>>
          /\ next = "drain" => Probe = "absent" /\ UNCHANGED process
          /\ next \in {"drain", "end"} => UNCHANGED process
          /\ next \in {"shutdown", "settle"} => process' = Terminated \/ process' = Killed
          /\ stage \in {"exited", "shutdown", "probe"}
    BY <1>1 DEF AfterExit, ShutdownGroup, ProbeGroup, GoOn, Settle, Probe
  <2>2. CASE UNCHANGED process
    <3>1. next = "drain" => GroupOver'
      BY <2>1, <2>2, AbsentIsOver DEF GroupOver
    <3> QED BY <1>0, <2>1, <2>2, <3>1, SupervisorMoves DEF SupervisorInv, SupervisorTypeOK, Stages
  <2>3. CASE process' = Terminated \/ process' = Killed
    <3>1. next # "drain" \/ UNCHANGED process
      BY <2>1
    <3> QED BY <1>0, <2>1, <2>2, <2>3, <3>1, SignalKeeps, SupervisorMoves
               DEF SupervisorInv, SupervisorTypeOK, Stages, Terminated, Killed
  <2> QED BY <2>1, <2>2, <2>3
<1>2. CASE LeaderTerminated
  <2>1. cause # "none"
    BY <1>2 DEF SupervisorInv, LeaderTerminated
  <2> QED BY <1>0, <1>2, <2>1, LeaderReaped, SupervisorMoves
           DEF LeaderTerminated, GoOn, SupervisorTypeOK, Stages
<1>3. CASE GraceOver
  <2>1. cause # "none"
    BY <1>3 DEF SupervisorInv, GraceOver
  <2> QED BY <1>0, <1>3, <2>1, SignalKeeps, SupervisorMoves
           DEF GraceOver, Killed, GoOn, SupervisorTypeOK, Stages
<1>4. CASE GroupAbsent
  <2>1. GroupOver'
    BY <1>4, AbsentIsOver DEF GroupAbsent, GroupOver
  <2> QED BY <1>0, <1>4, <2>1, SupervisorMoves
           DEF GroupAbsent, GoOn, SupervisorInv, SupervisorTypeOK, Stages
<1>5. CASE GroupSurvives \/ DrainTimesOut
  BY <1>0, <1>5, SupervisorMoves
     DEF GroupSurvives, DrainTimesOut, Settle, SupervisorInv, SupervisorTypeOK, Stages
<1> QED BY <1>1, <1>2, <1>3, <1>4, <1>5

(* Both pipes are at their end and the group is over: nobody is left. *)
LEMMA DrainStep ==
    ASSUME SupervisorInv, DrainPipes
    PROVE  SupervisorInv'
<1>1. /\ stage = "drain" /\ PipeHolders = {} /\ stage' = "end"
      /\ effect' = (IF cause = "cancelled" THEN "unknown" ELSE "observed")
      /\ UNCHANGED <<process, cause, cancelToken>>
  BY DEF DrainPipes, Settle
<1>2. SupervisorTypeOK'
  BY <1>1 DEF SupervisorInv, SupervisorTypeOK, Stages
<1>3. ObservedIsOver'
  <2>1. GroupOver /\ process[Leader].state = "gone" /\ cause # "none"
    BY <1>1 DEF SupervisorInv
  <2>2. \A m \in Members : process[m].state \in Alive => ~process[m].piped
    BY <1>1 DEF PipeHolders
  <2> QED BY <1>1, <2>1, <2>2 DEF ObservedIsOver, GroupOver, SupervisorInv, SupervisorTypeOK
<1> QED BY <1>1, <1>2, <1>3 DEF SupervisorInv

(* Every step keeps what the supervisor knows. *)
LEMMA SupervisorStep ==
    ASSUME SupervisorInv, [SupervisorNext]_supervisorVars
    PROVE  SupervisorInv'
<1>1. CASE UNCHANGED supervisorVars
  BY <1>1 DEF supervisorVars, SupervisorInv, SupervisorTypeOK, GroupOver, ObservedIsOver
<1>2. CASE Supervise
  BY <1>2, WaitingSteps, EndingSteps, DrainStep DEF Supervise
<1>3. CASE PollTokenRaced \/ CancelToken
  BY <1>3, WaitingSteps
<1>4. ASSUME NEW m \in Members,
             \/ \E p \in Members : Fork(p, m)
             \/ LeaveGroup(m) \/ ClosePipes(m) \/ Exit(m) \/ Reap(m)
      PROVE  SupervisorInv'
  BY <1>4, KernelSteps
<1> QED BY <1>1, <1>2, <1>3, <1>4 DEF SupervisorNext

(* Whatever the command forks, whoever ignores signals, leaves the group or
   keeps a pipe, and whenever it is cancelled: an effect that the ledger calls
   observed is over (execute_started_session_process, supervise). *)
THEOREM SupervisorSafety == SupervisorSpec => []ProcessSupervisorCorrect
<1>1. SupervisorInit => SupervisorInv
  <2> SUFFICES ASSUME SupervisorInit PROVE SupervisorInv
    OBVIOUS
  <2>1. Leader \in Members
    BY DEF Members
  <2> QED BY <2>1 DEF SupervisorInit, SupervisorInv, SupervisorTypeOK, ObservedIsOver, Stages, Alive
<1>2. SupervisorInv /\ [SupervisorNext]_supervisorVars => SupervisorInv'
  BY SupervisorStep
<1>3. SupervisorInv => ProcessSupervisorCorrect
  BY DEF SupervisorInv, ProcessSupervisorCorrect
<1> QED BY <1>1, <1>2, <1>3, PTL DEF SupervisorSpec

-----------------------------------------------------------------------------
(* The guard of the terminal *)

Modes == {"raw", "keyboard", "alternate", "mouse", "paste"}

(* The guard is still on its way in, and nothing has looked back yet. *)
Entering == {"begin", "check", "enable", "hook"}

Restoring == [by : Threads \cup {Interface}, at : 0 .. 5]

GuardPlain ==
    /\ guard \in [pc : Entering \cup {"running", "panic", "drop", "gone"},
                  at : 1 .. 6,
                  outcome : {"none", "error", "interrupted", "ended", "panicked"}]
    /\ restorer = NoRestorer \/ restorer \in Restoring
    /\ stages \subseteq Modes /\ modes \subseteq Modes /\ faulty \subseteq Modes
    /\ restored \in BOOLEAN /\ hooked \in BOOLEAN
    /\ signal \in [registered : BOOLEAN, flag : BOOLEAN, arrived : BOOLEAN, noticed : BOOLEAN]

(* Restoration has not come to the i-th stage. *)
Untouched(i) == ~restored /\ (restorer # NoRestorer => i <= restorer.at)

(* What was committed and not yet undone is recorded, whatever else is on has
   failed. *)
Recorded ==
    /\ stages \subseteq modes
    /\ \A i \in 1 .. 5 :
          /\ TerminalStage[i] \in modes \ faulty =>
                i < guard.at /\ Untouched(i)
          /\ i < guard.at /\ Untouched(i) /\ TerminalStage[i] # "keyboard" =>
                TerminalStage[i] \in stages
          /\ TerminalStage[i] \in stages => Untouched(i)
    /\ modes \subseteq stages \cup faulty

(* Which way the guard goes. *)
OneWay ==
    /\ guard.pc = "enable" => guard.at <= 5
    /\ guard.pc \in Entering =>
          /\ ~hooked /\ ~restored /\ restorer = NoRestorer /\ panicked = {}
          /\ guard.outcome = "none"
    /\ guard.outcome = "interrupted" => ~hooked /\ signal.arrived
    /\ guard.outcome = "interrupted" => guard.pc \in {"drop", "gone"}
    /\ panicked # {} => guard.pc \in {"running", "panic", "drop", "gone"}
    /\ guard.pc = "gone" => restored /\ restorer = NoRestorer /\ ~hooked /\ ~signal.registered
    /\ signal.flag => signal.arrived
    /\ signal.arrived => signal.flag \/ signal.noticed

GuardInv == GuardPlain /\ Recorded /\ OneWay

(* The five stages are five modes. *)
LEMMA StagesDiffer ==
    /\ Len(TerminalStage) = 5 /\ DOMAIN TerminalStage = 1 .. 5
    /\ \A i \in 1 .. 5 : TerminalStage[i] \in Modes
    /\ \A m \in Modes : \E i \in 1 .. 5 : TerminalStage[i] = m
    /\ \A i, j \in 1 .. 5 : TerminalStage[i] = TerminalStage[j] => i = j
<1>1. Len(TerminalStage) = 5 /\ DOMAIN TerminalStage = 1 .. 5
  BY DEF TerminalStage
<1>2. /\ TerminalStage[1] = "raw" /\ TerminalStage[2] = "keyboard"
      /\ TerminalStage[3] = "alternate" /\ TerminalStage[4] = "mouse"
      /\ TerminalStage[5] = "paste"
  BY DEF TerminalStage
<1>3. \A i \in 1 .. 5 : i = 1 \/ i = 2 \/ i = 3 \/ i = 4 \/ i = 5
  OBVIOUS
<1> QED BY <1>1, <1>2, <1>3 DEF Modes

(* Nobody is not a thread. *)
LEMMA SomebodyRestores == \A r \in Restoring : r # NoRestorer
BY GuardAssumption DEF Restoring, NoRestorer, Interface

(* The terminal is as it should be in every state the invariant allows: when
   the j-th stage is on and did not fail, the guard has got past it and
   restoration has not come to it, so every earlier one is on too. *)
LEMMA GuardImplies == GuardInv => TerminalIsReturned
<1> SUFFICES ASSUME GuardInv PROVE TerminalIsReturned
  OBVIOUS
<1>1. guard.pc = "gone" => modes \subseteq faulty /\ ~hooked /\ ~signal.registered
  <2>1. guard.pc = "gone" => stages = {}
    <3> SUFFICES ASSUME guard.pc = "gone", NEW m \in stages PROVE FALSE
      OBVIOUS
    <3>1. PICK i \in 1 .. 5 : TerminalStage[i] = m
      BY StagesDiffer DEF GuardInv, GuardPlain
    <3> QED BY <3>1 DEF GuardInv, Recorded, OneWay, Untouched
  <2> QED BY <2>1 DEF GuardInv, Recorded, OneWay
<1>2. ASSUME NEW i \in 1 .. 5, NEW j \in 1 .. 5, i < j, TerminalStage[i] # "keyboard",
             TerminalStage[j] \in modes \ faulty
      PROVE  TerminalStage[i] \in modes \cup faulty
  <2>1. j < guard.at /\ Untouched(j)
    BY <1>2 DEF GuardInv, Recorded
  <2>2. i < guard.at
    BY <1>2, <2>1 DEF GuardInv, GuardPlain
  <2>3. Untouched(i)
    BY <1>2, <2>1 DEF Untouched, GuardInv, GuardPlain, Restoring
  <2> QED BY <1>2, <2>2, <2>3 DEF GuardInv, Recorded
<1> QED BY <1>1, <1>2, StagesDiffer DEF GuardInv, OneWay, TerminalIsReturned

(* The way in: a mode that is switched on is recorded at once, one whose
   operation failed is known to be doubtful. *)
LEMMA EnableStep ==
    ASSUME GuardInv, EnableStage
    PROVE  GuardInv'
<1> DEFINE s == TerminalStage[guard.at]
<1>0. /\ guard.pc = "enable" /\ guard.at \in 1 .. 5 /\ s \in Modes
      /\ ~hooked /\ ~restored /\ restorer = NoRestorer /\ panicked = {}
      /\ guard.outcome = "none"
      /\ UNCHANGED <<restorer, restored, hooked, signal, panicked>>
      /\ \A i \in 1 .. 5 : Untouched(i) /\ Untouched(i)'
  BY StagesDiffer DEF GuardInv, GuardPlain, OneWay, Entering, EnableStage, Untouched
<1>1. \A i \in 1 .. 5 : TerminalStage[i] = s => i = guard.at
  BY <1>0, StagesDiffer
<1>2. \A i \in 1 .. 5 : i < guard.at + 1 => i < guard.at \/ i = guard.at
  BY <1>0
<1> HIDE DEF s
<1>3. CASE StageOn(s)
  <2>1. /\ modes' = modes \cup {s} /\ stages' = stages \cup {s} /\ faulty' = faulty
        /\ guard' = [guard EXCEPT !.pc = "check", !.at = guard.at + 1]
    BY <1>3 DEF StageOn
  <2>2. guard'.pc = "check" /\ guard'.at = guard.at + 1 /\ guard'.outcome = "none"
        /\ guard'.at \in 1 .. 6
    BY <1>0, <2>1 DEF GuardInv, GuardPlain
  <2>3. GuardPlain'
    BY <1>0, <2>1, <2>2 DEF GuardInv, GuardPlain, Entering
  <2>4. Recorded'
    <3>1. stages' \subseteq modes' /\ modes' \subseteq stages' \cup faulty'
      BY <2>1 DEF GuardInv, Recorded
    <3> SUFFICES ASSUME NEW i \in 1 .. 5
                 PROVE  /\ TerminalStage[i] \in modes' \ faulty' => i < guard'.at
                        /\ i < guard'.at /\ TerminalStage[i] # "keyboard" =>
                              TerminalStage[i] \in stages'
      BY <1>0, <3>1 DEF Recorded
    <3>2. CASE i = guard.at
      BY <1>0, <2>1, <2>2, <3>2 DEF s
    <3>3. CASE i # guard.at
      <4>1. TerminalStage[i] # s
        BY <1>1, <3>3
      <4>2. i < guard'.at <=> i < guard.at
        BY <1>0, <1>2, <2>2, <3>3
      <4> QED BY <1>0, <2>1, <4>1, <4>2 DEF GuardInv, Recorded
    <3> QED BY <3>2, <3>3
  <2>5. OneWay'
    BY <1>0, <2>2 DEF GuardInv, OneWay, Entering
  <2> QED BY <2>3, <2>4, <2>5 DEF GuardInv
<1>4. CASE /\ modes' \in {modes, modes \cup {s}}
           /\ faulty' = faulty \cup {s}
           /\ LeaveWith("error")
           /\ UNCHANGED stages
  <2>1. guard'.pc = "drop" /\ guard'.at = guard.at /\ guard'.outcome = "error"
    BY <1>4 DEF LeaveWith, GuardInv, GuardPlain
  <2>2. GuardPlain'
    BY <1>0, <1>4 DEF GuardInv, GuardPlain, LeaveWith
  <2>3. Recorded'
    BY <1>0, <1>4, <2>1 DEF GuardInv, Recorded
  <2>4. OneWay'
    BY <1>0, <2>1 DEF GuardInv, OneWay, Entering
  <2> QED BY <2>2, <2>3, <2>4 DEF GuardInv
<1>5. CASE /\ s = "keyboard"
           /\ guard' = [guard EXCEPT !.at = guard.at + 1]
           /\ UNCHANGED <<modes, stages, faulty>>
  <2>1. guard'.pc = "enable" /\ guard'.at = guard.at + 1 /\ guard'.outcome = "none"
    BY <1>0, <1>5 DEF GuardInv, GuardPlain
  <2>2. guard.at = 2
    BY <1>0, <1>5 DEF s, TerminalStage
  <2>3. GuardPlain'
    BY <1>0, <1>5, <2>2 DEF GuardInv, GuardPlain
  <2>4. Recorded'
    <3> SUFFICES ASSUME NEW i \in 1 .. 5
                 PROVE  /\ TerminalStage[i] \in modes \ faulty => i < guard'.at
                        /\ i < guard'.at /\ TerminalStage[i] # "keyboard" =>
                              TerminalStage[i] \in stages
      BY <1>0, <1>5 DEF Recorded, GuardInv
    <3> QED BY <1>0, <1>2, <1>5, <2>1 DEF s, GuardInv, Recorded
  <2>5. OneWay'
    BY <1>0, <1>5, <2>1, <2>2 DEF GuardInv, OneWay, Entering
  <2> QED BY <2>3, <2>4, <2>5 DEF GuardInv
<1> QED BY <1>3, <1>4, <1>5 DEF EnableStage, s

(* Steps that move the guard or the signal, and touch no mode. *)
LEMMA GuardMoves ==
    ASSUME GuardInv,
           \/ RegisterSignal \/ CheckInterrupted \/ InstallHook \/ TakeInterrupted
           \/ EndLoop \/ PanicInterface \/ Unwind \/ DropGuard \/ Sigint
    PROVE  GuardInv'
<1>0. /\ UNCHANGED <<restorer, stages, restored, modes, faulty, panicked>>
      /\ guard.at \in 1 .. 6 /\ Len(TerminalStage) = 5
  BY StagesDiffer DEF RegisterSignal, CheckInterrupted, InstallHook, TakeInterrupted, EndLoop,
     PanicInterface, Unwind, DropGuard, Sigint, GuardInv, GuardPlain
<1>1. guard'.at = guard.at
  BY DEF RegisterSignal, CheckInterrupted, InstallHook, TakeInterrupted, EndLoop,
     PanicInterface, Unwind, DropGuard, Sigint, GuardInv, GuardPlain, LeaveWith
<1>2. Recorded'
  BY <1>0, <1>1 DEF GuardInv, Recorded, Untouched
<1>3. guard' \in [pc : Entering \cup {"running", "panic", "drop", "gone"},
                  at : 1 .. 6,
                  outcome : {"none", "error", "interrupted", "ended", "panicked"}]
  BY <1>0 DEF RegisterSignal, CheckInterrupted, InstallHook, TakeInterrupted, EndLoop,
     PanicInterface, Unwind, DropGuard, Sigint, GuardInv, GuardPlain, LeaveWith, Entering
<1>4. /\ signal' \in [registered : BOOLEAN, flag : BOOLEAN, arrived : BOOLEAN, noticed : BOOLEAN]
      /\ signal'.flag => signal'.arrived
      /\ signal'.arrived => signal'.flag \/ signal'.noticed
      /\ signal.arrived => signal'.arrived
  BY DEF RegisterSignal, CheckInterrupted, InstallHook, TakeInterrupted, EndLoop,
     PanicInterface, Unwind, DropGuard, Sigint, GuardInv, GuardPlain, OneWay
<1>5. hooked' \in BOOLEAN
  BY DEF RegisterSignal, CheckInterrupted, InstallHook, TakeInterrupted, EndLoop,
     PanicInterface, Unwind, DropGuard, Sigint, GuardInv, GuardPlain
<1>6. GuardPlain'
  BY <1>0, <1>3, <1>4, <1>5 DEF GuardInv, GuardPlain
<1>7. OneWay'
  <2>1. CASE RegisterSignal
    <3>1. guard.pc = "begin" /\ UNCHANGED hooked
          /\ \/ guard'.pc = "check" /\ guard'.outcome = guard.outcome
             \/ guard'.pc = "drop" /\ guard'.outcome = "error"
      BY <2>1 DEF RegisterSignal, LeaveWith, GuardInv, GuardPlain
    <3> QED BY <1>0, <1>4, <3>1 DEF GuardInv, OneWay, Entering
  <2>2. CASE CheckInterrupted
    <3>1. guard.pc = "check" /\ UNCHANGED hooked
          /\ \/ /\ guard'.pc = "drop" /\ guard'.outcome = "interrupted" /\ signal.flag
             \/ /\ guard'.pc = IF guard.at > Len(TerminalStage) THEN "hook" ELSE "enable"
                /\ guard'.outcome = guard.outcome
      BY <2>2 DEF CheckInterrupted, LeaveWith, GuardInv, GuardPlain
    <3> QED BY <1>0, <1>1, <1>4, <3>1 DEF GuardInv, OneWay, Entering
  <2>3. CASE InstallHook
    BY <1>0, <1>4, <2>3 DEF InstallHook, GuardInv, GuardPlain, OneWay, Entering
  <2>4. CASE TakeInterrupted \/ EndLoop \/ PanicInterface
    BY <1>0, <1>4, <2>4 DEF TakeInterrupted, EndLoop, PanicInterface, LeaveWith,
       GuardInv, GuardPlain, OneWay, Entering
  <2>5. CASE Unwind \/ DropGuard
    BY <1>0, <1>4, <2>5 DEF Unwind, DropGuard, GuardInv, GuardPlain, OneWay, Entering
  <2>6. CASE Sigint
    BY <1>0, <1>4, <2>6 DEF Sigint, GuardInv, GuardPlain, OneWay, Entering
  <2> QED BY <2>1, <2>2, <2>3, <2>4, <2>5, <2>6
<1> QED BY <1>2, <1>6, <1>7 DEF GuardInv

(* Another thread panics. *)
LEMMA PanicStep ==
    ASSUME GuardInv, NEW t \in Threads, PanicThread(t)
    PROVE  GuardInv'
<1>1. guard.pc \in {"running", "panic", "drop", "gone"}
  BY DEF GuardInv, GuardPlain, OneWay, PanicThread, Entering
<1>2. UNCHANGED <<guard, restorer, stages, restored, modes, faulty, hooked, signal>>
  BY DEF PanicThread
<1> QED BY <1>1, <1>2 DEF GuardInv, GuardPlain, Recorded, Untouched, OneWay, Entering

(* restore_once begins: every stage that was committed is before it. *)
LEMMA BeginRestoreStep ==
    ASSUME GuardInv, NEW r \in Threads \cup {Interface}, BeginRestore(r)
    PROVE  GuardInv'
<1>1. /\ restorer = NoRestorer /\ ~restored /\ restorer' = [by |-> r, at |-> 5]
      /\ UNCHANGED <<guard, stages, restored, modes, faulty, hooked, signal, panicked>>
  BY StagesDiffer DEF BeginRestore
<1>2. restorer' \in Restoring /\ restorer' # NoRestorer /\ restorer'.at = 5
  <2>1. restorer' \in Restoring /\ restorer'.at = 5
    BY <1>1 DEF Restoring
  <2> QED BY <2>1, SomebodyRestores
<1>3. GuardPlain'
  BY <1>1, <1>2 DEF GuardInv, GuardPlain
<1>4. \A i \in 1 .. 5 : Untouched(i) /\ Untouched(i)'
  BY <1>1, <1>2 DEF Untouched
<1>5. Recorded'
  BY <1>1, <1>4 DEF GuardInv, Recorded
<1>6. guard.pc \in {"running", "panic", "drop"}
  BY <1>1 DEF BeginRestore, Wanting, GuardInv, OneWay
<1>7. OneWay'
  BY <1>1, <1>6 DEF GuardInv, OneWay, Entering
<1> QED BY <1>3, <1>5, <1>7 DEF GuardInv

(* One stage is undone, or its operation fails and the mode is doubtful. *)
LEMMA UndoStep ==
    ASSUME GuardInv, UndoStage
    PROVE  GuardInv'
<1> DEFINE k == restorer.at
           s == TerminalStage[restorer.at]
<1>1. /\ restorer # NoRestorer /\ restorer \in Restoring /\ k \in 1 .. 5
      /\ restorer' = [restorer EXCEPT !.at = k - 1]
      /\ UNCHANGED <<guard, restored, hooked, signal, panicked>>
      /\ guard.pc \notin Entering /\ guard.pc # "gone"
  BY DEF UndoStage, GuardInv, GuardPlain, OneWay, Restoring
<1>2. restorer' \in Restoring /\ restorer'.at = k - 1
  BY <1>1 DEF Restoring
<1>3. restorer' # NoRestorer
  BY <1>2, SomebodyRestores
<1>4. \A i \in 1 .. 5 : Untouched(i) <=> ~restored /\ i <= k
  BY <1>1 DEF Untouched
<1>5. \A i \in 1 .. 5 : Untouched(i)' <=> ~restored /\ i <= k - 1
  BY <1>1, <1>2, <1>3 DEF Untouched
<1>6. s \in Modes /\ \A i \in 1 .. 5 : TerminalStage[i] = s <=> i = k
  BY <1>1, StagesDiffer
<1>7. PICK m \in SUBSET Modes, f \in SUBSET Modes :
         /\ modes' = m /\ faulty' = f /\ stages' = stages \ {s}
         /\ s \in stages => \/ m = modes \ {s} /\ f = faulty
                            \/ m = modes /\ f = faulty \cup {s}
         /\ s \notin stages => m = modes /\ f = faulty
  <2>1. CASE s \in stages
    BY <1>1, <1>6, <2>1 DEF UndoStage, GuardInv, GuardPlain
  <2>2. CASE s \notin stages
    BY <1>1, <2>2 DEF UndoStage, GuardInv, GuardPlain
  <2> QED BY <2>1, <2>2
<1> HIDE DEF k, s
<1>8. GuardPlain'
  BY <1>1, <1>2, <1>7 DEF GuardInv, GuardPlain
<1>9. s \in modes' => s \in faulty'
  <2>1. CASE s \in stages
    BY <1>7, <2>1
  <2>2. CASE s \notin stages
    BY <1>7, <2>2 DEF GuardInv, Recorded
  <2> QED BY <2>1, <2>2
<1>10. Recorded'
  <2>1. stages' \subseteq modes' /\ modes' \subseteq stages' \cup faulty'
    BY <1>7, <1>9 DEF GuardInv, Recorded
  <2> SUFFICES ASSUME NEW i \in 1 .. 5
               PROVE  /\ TerminalStage[i] \in modes' \ faulty' =>
                            i < guard.at /\ Untouched(i)'
                      /\ i < guard.at /\ Untouched(i)' /\ TerminalStage[i] # "keyboard" =>
                            TerminalStage[i] \in stages'
                      /\ TerminalStage[i] \in stages' => Untouched(i)'
    BY <1>1, <2>1 DEF Recorded
  <2>2. CASE i = k
    BY <1>1, <1>5, <1>6, <1>7, <1>9, <2>2
  <2>3. CASE i # k
    <3>1. TerminalStage[i] # s /\ (Untouched(i)' <=> Untouched(i))
      BY <1>1, <1>4, <1>5, <1>6, <2>3
    <3> QED BY <1>7, <3>1 DEF GuardInv, Recorded
  <2> QED BY <2>2, <2>3
<1>11. OneWay'
  BY <1>1 DEF GuardInv, OneWay
<1> QED BY <1>8, <1>10, <1>11 DEF GuardInv

(* The last stage is undone: nothing is recorded any more. *)
LEMMA EndRestoreStep ==
    ASSUME GuardInv, EndRestore
    PROVE  GuardInv'
<1>1. /\ restorer # NoRestorer /\ restorer.at = 0 /\ restored' = TRUE
      /\ restorer' = NoRestorer
      /\ UNCHANGED <<guard, stages, modes, faulty, hooked, signal, panicked>>
  BY DEF EndRestore
<1>2. \A i \in 1 .. 5 : ~Untouched(i) /\ ~Untouched(i)'
  BY <1>1 DEF Untouched
<1>3. GuardPlain'
  BY <1>1 DEF GuardInv, GuardPlain
<1>4. Recorded'
  BY <1>1, <1>2 DEF GuardInv, Recorded
<1>5. OneWay'
  BY <1>1 DEF GuardInv, OneWay
<1> QED BY <1>3, <1>4, <1>5 DEF GuardInv

(* Every step of the guard keeps the invariant. *)
LEMMA GuardStep ==
    ASSUME GuardInv, [GuardNext]_guardVars
    PROVE  GuardInv'
<1>1. CASE UNCHANGED guardVars
  BY <1>1 DEF guardVars, GuardInv, GuardPlain, Recorded, Untouched, OneWay
<1>2. CASE GuardNext
  BY <1>2, GuardMoves, EnableStep, PanicStep, BeginRestoreStep, UndoStep, EndRestoreStep
     DEF GuardNext
<1> QED BY <1>1, <1>2

(* However entry, the loop or another thread ends, the guard gives the
   terminal back (TerminalGuard::enter, restore_once_with_hook, Drop). *)
THEOREM GuardSafety == GuardSpec => []TerminalIsReturned
<1>1. GuardInit => GuardInv
  <2> SUFFICES ASSUME GuardInit PROVE GuardInv
    OBVIOUS
  <2>1. GuardPlain
    <3>1. guard \in [pc : Entering \cup {"running", "panic", "drop", "gone"},
                     at : 1 .. 6,
                     outcome : {"none", "error", "interrupted", "ended", "panicked"}]
      BY DEF GuardInit, Entering
    <3>2. signal \in [registered : BOOLEAN, flag : BOOLEAN, arrived : BOOLEAN,
                      noticed : BOOLEAN]
      BY Zenon DEF GuardInit
    <3> QED BY <3>1, <3>2 DEF GuardInit, GuardPlain
  <2>2. OneWay
    <3>1. /\ guard.pc = "begin" /\ guard.outcome = "none"
          /\ ~signal.flag /\ ~signal.arrived
      BY DEF GuardInit
    <3> QED BY <3>1 DEF GuardInit, OneWay, Entering
  <2>3. Recorded
    <3>1. guard.at = 1 /\ stages = {} /\ modes = {}
      BY DEF GuardInit
    <3>2. \A i \in 1 .. 5 : ~(i < guard.at)
      BY <3>1
    <3> QED BY <3>1, <3>2 DEF Recorded
  <2> QED BY <2>1, <2>2, <2>3 DEF GuardInv
<1>2. GuardInv /\ [GuardNext]_guardVars => GuardInv'
  BY GuardStep
<1>3. GuardInv => TerminalIsReturned
  BY GuardImplies
<1> QED BY <1>1, <1>2, <1>3, PTL DEF GuardSpec

-----------------------------------------------------------------------------
(* Server processes and the command line *)

Exits == SettledStatus \cup
         {"none", "usage", "internal", "unreachable", "unauthorized"}

Places == {"off", "connecting", "token", "connected", "resolved", "asking", "observing",
           "watching", "cancelling", "finishing", "dropped", "waiting", "gone"}

(* Where the command is in the life of its turn: it observes only a turn that
   was accepted. *)
CommandInv ==
    /\ cli \in [command : {"none", "turn", "list", "tui"},
                mode : {"none", "embedded", "remote"},
                at : Places, token : Nat, exit : Exits]
    /\ minted \in Nat /\ tokenFile \in Nat
    /\ cli.command = "turn" /\ cli.at \in {"observing", "watching"} => request = "accepted"
    /\ ExitTellsOutcome

ServeRow == [at : {"down", "prepared", "bound", "serving"}, port : Nat, token : Nat]

(* The processes: a port has one listener. *)
ServersInv ==
    /\ servers \in [ServeSlots -> ServeRow]
    /\ minted \in Nat /\ tokenFile \in Nat
    /\ \A s \in ServeSlots : Listening(s) => servers[s].port # NoPort
    /\ \A s, t \in ServeSlots :
          Listening(s) /\ Listening(t) /\ servers[s].port = servers[t].port => s = t

(* The command goes to place p with exit code x. *)
Goes(p, x) ==
    /\ cli' \in [command : {"none", "turn", "list", "tui"},
                 mode : {"none", "embedded", "remote"},
                 at : Places, token : Nat, exit : Exits]
    /\ cli'.command = cli.command /\ cli'.at = p /\ cli'.exit = x

(* The ways in which the program writes the command's record. *)
LEMMA CommandGoes ==
    ASSUME CommandInv, NEW p \in Places
    PROVE  /\ cli' = [cli EXCEPT !.at = p] => Goes(p, cli.exit)
           /\ \A x \in Exits : cli' = [cli EXCEPT !.at = p, !.exit = x] => Goes(p, x)
           /\ \A k \in Nat : cli' = [cli EXCEPT !.at = p, !.token = k] => Goes(p, cli.exit)
BY DEF CommandInv, Goes

(* A step that changes neither the request nor the latest turn, and takes the
   command somewhere without an exit code that classifies a turn, or with the
   right one. *)
LEMMA CommandMoves ==
    ASSUME CommandInv, UNCHANGED <<request, latest>>, minted' \in Nat, tokenFile' \in Nat,
           NEW p, NEW x, Goes(p, x),
           cli.command = "turn" /\ p \in {"observing", "watching"} => request = "accepted",
           \/ cli.command # "turn"
           \/ x \notin SettledStatus \ {"interrupted"}
           \/ p \notin {"finishing", "dropped", "waiting", "gone"}
           \/ request = "accepted" /\ latest = x
           \/ request \in {"refused", "lost"} /\ x = "failed"
    PROVE  CommandInv'
BY DEF CommandInv, ExitTellsOutcome, Goes

(* The command connects. *)
LEMMA ConnectSteps ==
    ASSUME CommandInv, StartEmbedded \/ ResolveToken \/ HealthCheck
    PROVE  CommandInv'
<1>0. cli.at \in Places /\ minted \in Nat /\ tokenFile \in Nat
      /\ UNCHANGED <<request, latest>>
  BY DEF CommandInv, StartEmbedded, ResolveToken, HealthCheck
<1>1. ASSUME NEW x \in {"usage", "internal", "unreachable"}, Leave(x),
             minted' \in Nat, tokenFile' \in Nat
      PROVE  CommandInv'
  <2>1. Goes("gone", x)
    BY <1>1, CommandGoes DEF Leave, Places, Exits
  <2> QED BY <1>0, <1>1, <2>1, CommandMoves DEF SettledStatus
<1>2. ASSUME NEW k \in Nat, NEW p \in {"connected", "token"},
             \/ cli' = [cli EXCEPT !.at = p, !.token = k]
             \/ cli' = [cli EXCEPT !.at = p],
             minted' \in Nat, tokenFile' \in Nat
      PROVE  CommandInv'
  <2>1. Goes(p, cli.exit)
    BY <1>2, CommandGoes DEF Places
  <2> QED BY <1>0, <1>2, <2>1, CommandMoves
<1>3. CASE StartEmbedded
  <2>1. CASE /\ minted' = minted + 1
             /\ cli' = [cli EXCEPT !.at = "connected", !.token = minted + 1]
    <3>1. minted + 1 \in Nat /\ minted' \in Nat /\ tokenFile' \in Nat
      BY <1>0, <1>3, <2>1 DEF StartEmbedded
    <3> QED BY <1>2, <2>1, <3>1
  <2>2. CASE \E x \in {"usage", "internal"} : Leave(x) /\ UNCHANGED minted
    BY <1>0, <1>1, <1>3, <2>2 DEF StartEmbedded
  <2> QED BY <1>3, <2>1, <2>2 DEF StartEmbedded
<1>4. CASE ResolveToken
  BY <1>0, <1>1, <1>2, <1>4 DEF ResolveToken
<1>5. CASE HealthCheck
  BY <1>0, <1>1, <1>2, <1>5 DEF HealthCheck
<1> QED BY <1>3, <1>4, <1>5

(* The command works and leaves: it observes only an accepted turn, and ends
   with the status of that turn or with one that says nothing about it. *)
LEMMA WorkSteps ==
    ASSUME CommandInv,
           \/ Resolve \/ SetupFails \/ Answered \/ Observe \/ Interrupted \/ QuitUi
           \/ SignalShutdown \/ ExitCommand
    PROVE  CommandInv'
<1>0. /\ cli.at \in Places /\ cli.exit \in Exits /\ minted \in Nat /\ tokenFile \in Nat
      /\ UNCHANGED <<request, latest>> /\ minted' \in Nat /\ tokenFile' \in Nat
      /\ Denial \in {"unauthorized", "unreachable"}
  BY DEF CommandInv, Resolve, SetupFails, Answered, Observe, Interrupted, QuitUi,
         SignalShutdown, ExitCommand, Denial
<1>1. ASSUME NEW x \in Exits, Finish(x) \/ Leave(x),
             \/ cli.command # "turn"
             \/ x \notin SettledStatus \ {"interrupted"}
             \/ request = "accepted" /\ latest = x
             \/ request \in {"refused", "lost"} /\ x = "failed"
      PROVE  CommandInv'
  <2>1. Goes("finishing", x) \/ Goes("gone", x)
    BY <1>1, CommandGoes DEF Finish, Leave, Places
  <2> QED BY <1>0, <1>1, <2>1, CommandMoves
<1>2. ASSUME NEW p \in Places, cli' = [cli EXCEPT !.at = p],
             p \in {"observing", "watching"} /\ cli.command = "turn" => request = "accepted",
             p \in {"finishing", "dropped", "waiting", "gone"} =>
                 cli.at \in {"finishing", "dropped", "waiting", "gone"}
      PROVE  CommandInv'
  <2>1. Goes(p, cli.exit)
    BY <1>2, CommandGoes
  <2> QED BY <1>0, <1>2, <2>1, CommandMoves DEF CommandInv, ExitTellsOutcome
<1>3. CASE Resolve
  <2>1. \/ Finish(Denial)
        \/ cli.command = "list" /\ Finish("completed")
        \/ cli.command = "tui" /\ cli' = [cli EXCEPT !.at = "watching"]
        \/ cli' = [cli EXCEPT !.at = "resolved"]
    BY <1>3 DEF Resolve
  <2> QED BY <1>0, <1>1, <1>2, <2>1 DEF Places, Exits, SettledStatus
<1>4. CASE SetupFails
  BY <1>1, <1>4 DEF SetupFails, Exits, SettledStatus
<1>5. CASE Answered
  BY <1>1, <1>2, <1>5 DEF Answered, Places, Exits, SettledStatus
<1>6. CASE Observe
  <2>1. \/ Finish(Denial)
        \/ latest \in SettledStatus /\ Finish(latest)
        \/ cli' = [cli EXCEPT !.at = "watching"]
    BY <1>6 DEF Observe, ExitOf
  <2>2. cli.command = "turn" => request = "accepted"
    BY <1>6 DEF Observe, CommandInv
  <2>3. cli.command \in {"none", "turn", "list", "tui"}
    BY DEF CommandInv
  <2> QED BY <1>0, <1>1, <1>2, <2>1, <2>2 DEF Places, Exits, SettledStatus
<1>7. CASE Interrupted
  <2>1. \/ Leave("interrupted") \/ Finish("interrupted")
        \/ cli' = [cli EXCEPT !.at = "cancelling"]
    BY <1>7 DEF Interrupted
  <2> QED BY <1>1, <1>2, <2>1 DEF Places, Exits, SettledStatus
<1>8. CASE QuitUi
  BY <1>1, <1>8 DEF QuitUi, Exits, SettledStatus
<1>9. CASE SignalShutdown \/ ExitCommand
  <2>1. PICK p \in {"gone", "waiting"} : cli' = [cli EXCEPT !.at = p]
    BY <1>9 DEF SignalShutdown, ExitCommand
  <2> QED BY <1>2, <1>9, <2>1 DEF SignalShutdown, ExitCommand, Places
<1> QED BY <1>3, <1>4, <1>5, <1>6, <1>7, <1>8, <1>9

(* The request and the turn: an answer comes to a request that is under way,
   and a settled turn stays as it is. *)
LEMMA TurnSteps ==
    ASSUME CommandInv,
           \/ \E name \in {"turn", "list", "tui"}, mode \in {"embedded", "remote"} :
                 StartCommand(name, mode)
           \/ SendTurn \/ AcceptTurn \/ AnswerLost \/ TurnSettles \/ CancelTurn \/ DropClient
    PROVE  CommandInv'
<1>0. /\ minted \in Nat /\ tokenFile \in Nat /\ minted' \in Nat /\ tokenFile' \in Nat
      /\ Denial \in {"unauthorized", "unreachable"}
  BY DEF CommandInv, StartCommand, SendTurn, AcceptTurn, AnswerLost, TurnSettles, CancelTurn,
         DropClient, Denial
<1>1. CASE \E name \in {"turn", "list", "tui"}, mode \in {"embedded", "remote"} :
              StartCommand(name, mode)
  <2>1. PICK name \in {"turn", "list", "tui"}, mode \in {"embedded", "remote"} :
          cli' = [cli EXCEPT !.command = name, !.mode = mode, !.at = "connecting"]
    BY <1>1 DEF StartCommand
  <2>2. /\ cli' \in [command : {"none", "turn", "list", "tui"},
                     mode : {"none", "embedded", "remote"},
                     at : Places, token : Nat, exit : Exits]
        /\ cli'.at = "connecting"
    BY <2>1 DEF CommandInv, Places
  <2> QED BY <1>0, <2>2 DEF CommandInv, ExitTellsOutcome
<1>2. CASE SendTurn
  <2>1. cli.at = "resolved" /\ UNCHANGED latest
        /\ \/ cli' = [cli EXCEPT !.at = "asking"]
           \/ Finish(Denial) /\ UNCHANGED request
    BY <1>2 DEF SendTurn
  <2>2. Goes("asking", cli.exit) \/ (UNCHANGED request /\ Goes("finishing", Denial))
    BY <1>0, <2>1, CommandGoes DEF Finish, Places, Exits
  <2> QED BY <1>0, <2>1, <2>2 DEF CommandInv, ExitTellsOutcome, Goes, SettledStatus
<1>3. CASE AcceptTurn
  BY <1>0, <1>3 DEF AcceptTurn, CommandInv, ExitTellsOutcome
<1>4. CASE AnswerLost
  <2>1. Goes("finishing", "unreachable")
    BY <1>4, CommandGoes DEF AnswerLost, Finish, Places, Exits
  <2> QED BY <1>0, <2>1 DEF CommandInv, ExitTellsOutcome, Goes, SettledStatus
<1>5. CASE TurnSettles
  BY <1>0, <1>5 DEF TurnSettles, CommandInv, ExitTellsOutcome, SettledStatus
<1>6. CASE CancelTurn
  <2>1. Goes("finishing", "interrupted") /\ UNCHANGED request
    BY <1>6, CommandGoes DEF CancelTurn, Finish, Places, Exits, SettledStatus
  <2> QED BY <1>0, <2>1 DEF CommandInv, ExitTellsOutcome, Goes
<1>7. CASE DropClient
  <2>1. Goes("dropped", cli.exit) /\ cli.at = "finishing" /\ UNCHANGED latest
        /\ (request = "sent" \/ UNCHANGED request)
    BY <1>7, CommandGoes DEF DropClient, Places
  <2> QED BY <1>0, <2>1 DEF CommandInv, ExitTellsOutcome, Goes
<1> QED BY <1>1, <1>2, <1>3, <1>4, <1>5, <1>6, <1>7

(* Servers start and stop without the command. *)
LEMMA CommandApart ==
    ASSUME CommandInv, UNCHANGED <<cli, request, latest>>, minted' \in Nat, tokenFile' \in Nat
    PROVE  CommandInv'
BY DEF CommandInv, ExitTellsOutcome

(* A slot's process changes: one listener per port stays one. *)
LEMMA ServerMoves ==
    ASSUME ServersInv, NEW s \in ServeSlots, NEW r \in ServeRow,
           servers' = [servers EXCEPT ![s] = r],
           minted' \in Nat, tokenFile' \in Nat,
           r.at \in {"bound", "serving"} =>
               r.port # NoPort /\ \A t \in Listener(r.port) : t = s
    PROVE  ServersInv' /\ servers'[s] = r /\ \A t \in ServeSlots : t # s => servers'[t] = servers[t]
<1>1. /\ servers'[s] = r
      /\ \A t \in ServeSlots : t # s => servers'[t] = servers[t]
      /\ servers' \in [ServeSlots -> ServeRow]
  BY DEF ServersInv
<1>2. ASSUME NEW t \in ServeSlots, NEW u \in ServeSlots,
             Listening(t)', Listening(u)', servers'[t].port = servers'[u].port
      PROVE  t = u
  <2>1. ASSUME NEW v \in ServeSlots, v # s, Listening(v)', Listening(s)',
               servers'[v].port = servers'[s].port
        PROVE  FALSE
    <3>1. Listening(v) /\ servers[v].port = r.port
      BY <1>1, <2>1 DEF Listening
    <3> QED BY <1>1, <2>1, <3>1 DEF Listening, Listener
  <2>2. CASE t # s /\ u # s
    BY <1>1, <1>2, <2>2 DEF Listening, ServersInv
  <2> QED BY <1>2, <2>1, <2>2
<1>3. \A t \in ServeSlots : Listening(t)' => servers'[t].port # NoPort
  BY <1>1 DEF Listening, ServersInv
<1> QED BY <1>1, <1>2, <1>3 DEF ServersInv

(* What one server process does: it listens only where nobody else does, and
   writes the token file only while it listens. *)
LEMMA ServerSteps ==
    ASSUME ServersInv, NEW s \in ServeSlots,
           PrepareServer(s) \/ BindListener(s) \/ PublishToken(s) \/ ServerStops(s)
    PROVE  /\ ServersInv'
           /\ \A t \in ServeSlots : t # s => servers'[t] = servers[t]
           /\ \/ servers'[s].at # "serving" /\ UNCHANGED <<tokenFile, announcer>>
              \/ /\ Listening(s) /\ servers'[s].at = "serving"
                 /\ tokenFile' = servers'[s].token
                 /\ announcer' = servers[s].port
<1>0. servers[s] \in ServeRow /\ minted \in Nat /\ tokenFile \in Nat
  BY DEF ServersInv
<1>s. Stopped(s) \in ServeRow /\ Stopped(s).at = "down"
  BY <1>0 DEF Stopped, ServeRow, NoPort
<1>1. CASE PrepareServer(s)
  <2> DEFINE r == [at |-> "prepared", port |-> NoPort, token |-> minted + 1]
  <2>1. r \in ServeRow /\ r.at = "prepared"
    BY <1>0 DEF ServeRow, NoPort
  <2>2. /\ servers' = [servers EXCEPT ![s] = r] /\ minted' \in Nat
        /\ UNCHANGED <<tokenFile, announcer>>
    BY <1>0, <1>1 DEF PrepareServer
  <2> HIDE DEF r
  <2> QED BY <1>0, <2>1, <2>2, ServerMoves
<1>2. CASE BindListener(s)
  <2>1. PICK p \in IF PortOf[s] = 0 THEN FreePorts ELSE {PortOf[s]} :
          servers' = [servers EXCEPT ![s] =
                         IF Listener(p) = {}
                         THEN [at |-> "bound", port |-> p, token |-> servers[s].token]
                         ELSE Stopped(s)]
    BY <1>2 DEF BindListener
  <2>2. p \in Nat /\ p # NoPort
    BY ServeAssumption DEF NoPort
  <2> DEFINE r == IF Listener(p) = {}
                  THEN [at |-> "bound", port |-> p, token |-> servers[s].token]
                  ELSE Stopped(s)
  <2>3. /\ r \in ServeRow /\ r.at \in {"bound", "down"}
        /\ r.at = "bound" => r.port # NoPort /\ Listener(r.port) = {}
    BY <1>0, <1>s, <2>2 DEF ServeRow
  <2>4. servers' = [servers EXCEPT ![s] = r] /\ UNCHANGED <<minted, tokenFile, announcer>>
    BY <1>2, <2>1 DEF BindListener
  <2> HIDE DEF r
  <2>5. /\ ServersInv' /\ servers'[s] = r
        /\ \A t \in ServeSlots : t # s => servers'[t] = servers[t]
    BY <1>0, <2>3, <2>4, ServerMoves
  <2> QED BY <2>3, <2>4, <2>5
<1>3. CASE PublishToken(s)
  <2> DEFINE r == [servers[s] EXCEPT !.at = "serving"]
  <2>1. /\ r \in ServeRow /\ r.at = "serving" /\ r.token = servers[s].token
        /\ r.port = servers[s].port
    BY <1>0 DEF ServeRow
  <2>2. /\ servers' = [servers EXCEPT ![s] = r] /\ UNCHANGED minted /\ Listening(s)
        /\ tokenFile' = servers[s].token /\ announcer' = servers[s].port
    BY <1>3 DEF PublishToken, Listening
  <2> HIDE DEF r
  <2>3. r.port # NoPort /\ \A t \in Listener(r.port) : t = s
    BY <2>1, <2>2 DEF ServersInv, Listener
  <2>4. tokenFile' \in Nat
    BY <1>0, <2>2 DEF ServeRow
  <2> QED BY <1>0, <2>1, <2>2, <2>3, <2>4, ServerMoves
<1>4. CASE ServerStops(s)
  <2>1. /\ servers' = [servers EXCEPT ![s] = Stopped(s)]
        /\ UNCHANGED <<minted, tokenFile, announcer>>
    BY <1>4 DEF ServerStops
  <2> QED BY <1>0, <1>s, <2>1, ServerMoves
<1> QED BY <1>1, <1>2, <1>3, <1>4

(* No step of the command touches a server process or the token file. *)
LEMMA ServersApart ==
    ASSUME ClientStep \/ QuitUi \/ AcceptTurn \/ TurnSettles \/ Interrupted \/ Drained
           \/ \E name \in {"turn", "list", "tui"}, mode \in {"embedded", "remote"} :
                 StartCommand(name, mode)
    PROVE  UNCHANGED <<servers, tokenFile, announcer>> /\ (minted \in Nat => minted' \in Nat)
BY DEF ClientStep, StartEmbedded, ResolveToken, HealthCheck, Resolve, SetupFails, SendTurn,
       Answered, AnswerLost, Observe, CancelTurn, DropClient, SignalShutdown, ExitCommand,
       QuitUi, AcceptTurn, TurnSettles, Interrupted, Drained, StartCommand

(* Every step keeps what the command knows of its turn. *)
LEMMA CommandStep ==
    ASSUME CommandInv, ServersInv, [ServeNext]_serveVars
    PROVE  CommandInv'
<1>1. CASE UNCHANGED serveVars
  BY <1>1 DEF serveVars, CommandInv, ExitTellsOutcome
<1>2. ASSUME NEW s \in ServeSlots,
             PrepareServer(s) \/ BindListener(s) \/ PublishToken(s) \/ ServerStops(s)
      PROVE  CommandInv'
  <2>1. ServersInv' /\ UNCHANGED <<cli, request, latest>>
    BY <1>2, ServerSteps DEF PrepareServer, BindListener, PublishToken, ServerStops
  <2>2. minted' \in Nat /\ tokenFile' \in Nat
    BY <2>1 DEF ServersInv
  <2> QED BY <2>1, <2>2, CommandApart
<1>3. CASE Drained
  BY <1>3, CommandApart DEF Drained, CommandInv
<1>4. CASE \/ \E name \in {"turn", "list", "tui"}, mode \in {"embedded", "remote"} :
                 StartCommand(name, mode)
           \/ ClientStep \/ QuitUi \/ AcceptTurn \/ TurnSettles \/ Interrupted
  BY <1>4, ConnectSteps, WorkSteps, TurnSteps DEF ClientStep
<1> QED BY <1>1, <1>2, <1>3, <1>4 DEF ServeNext

(* Every step keeps one listener per port. *)
LEMMA ServersStep ==
    ASSUME ServersInv, [ServeNext]_serveVars
    PROVE  ServersInv'
<1>1. CASE UNCHANGED serveVars
  BY <1>1 DEF serveVars, ServersInv, Listening
<1>2. CASE \E s \in ServeSlots :
              PrepareServer(s) \/ BindListener(s) \/ PublishToken(s) \/ ServerStops(s)
  BY <1>2, ServerSteps
<1>3. CASE UNCHANGED <<servers, tokenFile>> /\ minted' \in Nat
  BY <1>3 DEF ServersInv, Listening
<1> QED BY <1>1, <1>2, <1>3, ServersApart DEF ServeNext, ServersInv

(* Initially nothing runs. *)
LEMMA ServeInitially == ServeInit => CommandInv /\ ServersInv
<1> SUFFICES ASSUME ServeInit PROVE CommandInv /\ ServersInv
  OBVIOUS
<1>1. CommandInv
  BY DEF ServeInit, CommandInv, ExitTellsOutcome, Places, Exits, SettledStatus, NoToken
<1>2. ServersInv
  BY DEF ServeInit, ServersInv, ServeRow, Listening, NoToken, NoPort
<1> QED BY <1>1, <1>2

(* The exit code of run and resume is the outcome of the turn that the command
   submitted, whatever servers do and whenever the user interrupts
   (check_terminal, run_session, resume_session). *)
THEOREM ExitSafety == ServeSpec => []ExitTellsOutcome
<1>1. CommandInv /\ ServersInv /\ [ServeNext]_serveVars => CommandInv' /\ ServersInv'
  BY CommandStep, ServersStep
<1>2. CommandInv => ExitTellsOutcome
  BY DEF CommandInv
<1> QED BY <1>1, <1>2, ServeInitially, PTL DEF ServeSpec

(* Whatever ports the servers are given, and whichever of them start, fail and stop, the
   token in the file opens the server that announced itself, unless a server on another
   port has announced itself since: one on the same port never displaces it
   (serve_bound). *)
THEOREM ServerSafety == ServeSpec => []ServerProcessCorrect
<1>1. ServeInit => AnnouncedTokenOpens
  BY DEF ServeInit, AnnouncedTokenOpens
<1>2. ASSUME ServersInv, AnnouncedTokenOpens, [ServeNext]_serveVars
      PROVE  AnnouncedTokenOpens'
  <2>1. ASSUME NEW s \in ServeSlots,
               PrepareServer(s) \/ BindListener(s) \/ PublishToken(s) \/ ServerStops(s)
        PROVE  AnnouncedTokenOpens'
    <3>1. /\ \A t \in ServeSlots : t # s => servers'[t] = servers[t]
          /\ \/ servers'[s].at # "serving" /\ UNCHANGED <<tokenFile, announcer>>
             \/ /\ Listening(s) /\ servers'[s].at = "serving"
                /\ tokenFile' = servers'[s].token /\ announcer' = servers[s].port
      BY <1>2, <2>1, ServerSteps
    <3> SUFFICES ASSUME NEW t \in ServeSlots, servers'[t].at = "serving",
                        announcer' \in {NoPort, servers'[t].port}
                 PROVE  tokenFile' = servers'[t].token
      BY DEF AnnouncedTokenOpens
    <3>2. CASE t = s
      BY <3>1, <3>2
    <3>3. CASE t # s
      <4>1. servers[t].at = "serving" /\ servers'[t] = servers[t] /\ Listening(t)
        BY <3>1, <3>3 DEF Listening
      <4>2. ~(Listening(s) /\ announcer' = servers[s].port)
        BY <1>2, <3>3, <4>1 DEF ServersInv
      <4> QED BY <1>2, <3>1, <4>1, <4>2 DEF AnnouncedTokenOpens
    <3> QED BY <3>2, <3>3
  <2>2. CASE UNCHANGED <<servers, tokenFile, announcer>>
    BY <1>2, <2>2 DEF AnnouncedTokenOpens
  <2> QED BY <1>2, <2>1, <2>2, ServersApart DEF ServeNext, serveVars
<1>3. CommandInv /\ ServersInv /\ [ServeNext]_serveVars => CommandInv' /\ ServersInv'
  BY CommandStep, ServersStep
<1>4. CommandInv /\ AnnouncedTokenOpens => ServerProcessCorrect
  BY DEF CommandInv, ServerProcessCorrect
<1>5. ServersInv /\ AnnouncedTokenOpens /\ [ServeNext]_serveVars => AnnouncedTokenOpens'
  BY <1>2
<1> QED BY <1>1, <1>3, <1>4, <1>5, ServeInitially, PTL DEF ServeSpec
-----------------------------------------------------------------------------
(* The tool rounds of a turn *)

Rounds == 1 .. MaxReplies
Ordinals == 1 .. MaxBatch

(* The fates of a call. *)
Fates == {"none", "prepared", "started", "observed"}

(* Where a coordinator has a call in hand. *)
InHand == {"prepare", "start", "run", "observe"}

(* What a coordinator has in memory. *)
Hands == [pc : {"none", "ask"} \cup InHand, calls : Seq(CallIds), round : Nat, ordinal : Nat]

RoundsPlain ==
    /\ roundCards \in Seq(Batches)
    /\ counter = Len(roundCards)
    /\ counter <= replies /\ counter <= MaxToolRounds
    /\ replies \in 0 .. MaxReplies
    /\ effects \in [Place -> Fates]
    /\ life \in {"running", "permission", "input", "ready", "failed", "interrupted"}
    /\ work \in Hands
    /\ work.pc # "none" => life = "running"
    /\ callsRun \in Seq(Rounds \X Ordinals)

(* The reply of this round made a call at this place. *)
IsCall(cards, r, o) == r <= Len(cards) /\ o <= Len(cards[r])

Earlier(r, o, q, n) == r < q \/ (r = q /\ o < n)

(* Every call before this place has its result, and none after it was prepared. *)
Settled(cards, fate, q, n) ==
    \A r \in Rounds, o \in Ordinals :
        /\ IsCall(cards, r, o) /\ Earlier(r, o, q, n) => fate[<<r, o>>] = "observed"
        /\ Earlier(q, n, r, o) => fate[<<r, o>>] = "none"

(* Nothing was executed from this place on. *)
RanBefore(run, q, n) ==
    \A i \in DOMAIN run : Earlier(run[i][1], run[i][2], q, n)

(* The call in hand is one of the newest card. *)
HandFits ==
    work.pc \in InHand =>
        /\ work.round = Len(roundCards) /\ work.round > 0
        /\ work.calls = roundCards[work.round]
        /\ work.ordinal \in 1 .. Len(work.calls)

(* How far the turn has come, by where its coordinator, or its user, is. *)
Progress ==
    /\ work.pc = "ask" \/ life = "input" =>
          Settled(roundCards, effects, Len(roundCards) + 1, 0) /\ RanBefore(callsRun, Len(roundCards) + 1, 0)
    /\ work.pc \in InHand =>
          /\ Settled(roundCards, effects, work.round, work.ordinal)
          /\ RanBefore(callsRun, work.round, IF work.pc = "observe" THEN work.ordinal + 1
                                                          ELSE work.ordinal)
          /\ effects[Here] = CASE work.pc = "prepare" -> "none"
                               [] work.pc = "start"   -> "prepared"
                               [] OTHER               -> "started"
    /\ life = "permission" =>
          \E o \in Ordinals :
             /\ roundCards # <<>> /\ IsCall(roundCards, Len(roundCards), o)
             /\ effects[<<Len(roundCards), o>>] = "prepared"
             /\ Settled(roundCards, effects, Len(roundCards), o) /\ RanBefore(callsRun, Len(roundCards), o)

(* Only calls have effects, and only calls of the cards there are were executed. *)
CallsOnly ==
    /\ \A r \in Rounds, o \in Ordinals :
          ~IsCall(roundCards, r, o) => effects[<<r, o>>] = "none"
    /\ \A i \in DOMAIN callsRun : callsRun[i][1] <= counter

RoundsInv ==
    RoundsPlain /\ HandFits /\ Progress /\ CallsOnly /\ CallsRunInOrder

(* Batches are short sequences of different calls. *)
LEMMA BatchFields ==
    ASSUME NEW b \in Batches
    PROVE  /\ b \in Seq(CallIds) /\ Len(b) \in 1 .. MaxBatch
           /\ \A i, j \in 1 .. Len(b) : b[i] = b[j] => i = j
<1>1. b # <<>> /\ IsInjective(b) /\ \E m \in 0 .. MaxBatch : b \in [1 .. m -> CallIds]
  BY DEF Batches, SeqOf
<1>2. MaxBatch \in Nat
  BY RoundsAssumption
<1>3. PICK m \in 0 .. MaxBatch : b \in [1 .. m -> CallIds]
  BY <1>1
<1>4. b \in Seq(CallIds) /\ Len(b) = m
  BY <1>2, <1>3
<1>5. m # 0
  BY <1>1, <1>4
<1> QED BY <1>1, <1>2, <1>3, <1>4, <1>5 DEF IsInjective

(* The properties follow. *)
LEMMA RoundsImply == RoundsInv => ToolRoundsCorrect
<1> SUFFICES ASSUME RoundsInv PROVE ToolRoundsCorrect
  OBVIOUS
<1>1. RoundsTypeOK
  BY DEF RoundsInv, RoundsPlain, RoundsTypeOK, Place, Rounds, Ordinals, Fates, Hands, InHand
<1>2. RoundsBounded
  <2> SUFFICES ASSUME NEW i \in DOMAIN callsRun PROVE callsRun[i][1] <= MaxToolRounds
    BY DEF RoundsBounded
  <2>1. callsRun[i] \in Rounds \X Ordinals
    BY DEF RoundsInv, RoundsPlain
  <2>2. callsRun[i][1] \in Nat
    BY <2>1 DEF Rounds
  <2> QED BY <2>2, RoundsAssumption DEF RoundsInv, RoundsPlain, CallsOnly
<1>3. CallsAreAnswered
  <2> SUFFICES ASSUME work.pc = "ask", NEW r \in DOMAIN roundCards,
                      NEW o \in 1 .. MaxBatch, o <= Len(roundCards[r])
               PROVE  effects[<<r, o>>] = "observed"
    BY DEF CallsAreAnswered
  <2>1. r \in Rounds /\ r <= Len(roundCards) /\ Len(roundCards) \in Nat
    BY RoundsAssumption DEF RoundsInv, RoundsPlain, Rounds
  <2>2. Settled(roundCards, effects, Len(roundCards) + 1, 0)
    BY DEF RoundsInv, Progress
  <2> QED BY <2>1, <2>2 DEF Settled, IsCall, Earlier, Ordinals
<1> QED BY <1>1, <1>2, <1>3 DEF ToolRoundsCorrect, RoundsInv

(* Empty hands are hands. *)
LEMMA AskingHands == NoWork \in Hands /\ [NoWork EXCEPT !.pc = "ask"] \in Hands
<1>1. NoWork \in Hands
  BY DEF NoWork, Hands
<1>2. [NoWork EXCEPT !.pc = "ask"] = [pc |-> "ask", calls |-> <<>>, round |-> 0, ordinal |-> 0]
  BY DEF NoWork
<1>3. [pc |-> "ask", calls |-> <<>>, round |-> 0, ordinal |-> 0] \in Hands
  BY DEF Hands
<1> QED BY <1>1, <1>2, <1>3

(* Initially nothing was called. *)
LEMMA RoundsInitially == RoundsInit => RoundsInv
<1> SUFFICES ASSUME RoundsInit PROVE RoundsInv
  OBVIOUS
<1> USE RoundsAssumption DEF RoundsInit
<1>1. work = [pc |-> "ask", calls |-> <<>>, round |-> 0, ordinal |-> 0]
  BY DEF NoWork
<1>2. RoundsPlain
  <2>1. callsRun \in Seq(Rounds \X Ordinals)
    OBVIOUS
  <2>2. roundCards \in Seq(Batches) /\ Len(roundCards) = 0
    OBVIOUS
  <2>3. effects \in [Place -> Fates]
    BY DEF Fates
  <2>4. work \in Hands
    BY AskingHands
  <2> QED BY <2>1, <2>2, <2>3, <2>4, <1>1 DEF RoundsPlain
<1>3. HandFits /\ Progress /\ CallsOnly /\ CallsRunInOrder
  BY <1>1 DEF HandFits, Progress, CallsOnly, CallsRunInOrder, InHand, Settled, RanBefore,
              Place, Rounds, Ordinals, IsCall, Earlier
<1> QED BY <1>2, <1>3 DEF RoundsInv

(* The coordinator is gone, and the turn over or waiting for an answer. *)
LEMMA RoundsStop ==
    ASSUME RoundsInv, work' = NoWork, UNCHANGED <<roundCards, counter, effects, callsRun>>,
           replies' \in replies .. MaxReplies,
           \/ life' \in {"ready", "failed", "interrupted"}
           \/ life' = "input" /\ work.pc = "ask"
    PROVE  RoundsInv'
<1>1. NoWork \in Hands
  BY AskingHands
<1>2. RoundsPlain'
  BY <1>1, RoundsAssumption DEF RoundsInv, RoundsPlain, NoWork
<1>3. HandFits' /\ CallsOnly' /\ CallsRunInOrder'
  BY DEF RoundsInv, HandFits, CallsOnly, CallsRunInOrder, IsCall, Before, NoWork, InHand
<1>4. Progress'
  BY DEF RoundsInv, Progress, Settled, RanBefore, IsCall, NoWork, InHand
<1> QED BY <1>2, <1>3, <1>4 DEF RoundsInv

(* The call in hand has a place. *)
LEMMA HandPlace ==
    ASSUME RoundsInv, work.pc \in InHand
    PROVE  /\ work.round \in Rounds /\ work.ordinal \in Ordinals
           /\ work.round = Len(roundCards) /\ IsCall(roundCards, work.round, work.ordinal)
           /\ work.calls \in Batches /\ work.calls = roundCards[work.round]
           /\ work.ordinal \in 1 .. Len(work.calls)
           /\ life = "running"
<1>1. /\ work.round = Len(roundCards) /\ work.round > 0
      /\ work.calls = roundCards[work.round]
      /\ work.ordinal \in 1 .. Len(work.calls)
  BY DEF RoundsInv, HandFits
<1>2. work.round \in Rounds
  BY <1>1, RoundsAssumption DEF RoundsInv, RoundsPlain, Rounds
<1>3. work.calls \in Batches
  BY <1>1 DEF RoundsInv, RoundsPlain
<1>4. Len(work.calls) \in 1 .. MaxBatch
  BY <1>3, BatchFields
<1>5. work.ordinal \in Ordinals
  BY <1>1, <1>4, RoundsAssumption DEF Ordinals
<1> QED BY <1>1, <1>2, <1>3, <1>4, <1>5 DEF RoundsInv, RoundsPlain, IsCall, InHand

(* A step on the call in hand changes its effect only. *)
LEMMA HandStep ==
    ASSUME RoundsInv, work.pc \in InHand, roundCards' = roundCards,
           \E f \in Fates : effects' = [effects EXCEPT ![Here] = f]
    PROVE  /\ effects' \in [Place -> Fates]
           /\ Settled(roundCards', effects', work.round, work.ordinal)
           /\ \A r \in Rounds, o \in Ordinals :
                 ~IsCall(roundCards', r, o) => effects'[<<r, o>>] = "none"
<1>1. PICK f \in Fates : effects' = [effects EXCEPT ![Here] = f]
  OBVIOUS
<1>2. PICK q \in Rounds, n \in Ordinals : q = work.round /\ n = work.ordinal
  BY HandPlace
<1>3. effects \in [Place -> Fates] /\ Place = Rounds \X Ordinals /\ Here = <<q, n>>
  BY <1>2 DEF RoundsInv, RoundsPlain, Place, Rounds, Ordinals, Here
<1>4. /\ effects' \in [Place -> Fates]
      /\ \A r \in Rounds, o \in Ordinals :
            (r # q \/ o # n) => effects'[<<r, o>>] = effects[<<r, o>>]
  BY <1>1, <1>2, <1>3
<1>5. Settled(roundCards, effects, q, n) /\ IsCall(roundCards, q, n)
  BY <1>2, HandPlace DEF RoundsInv, Progress
<1>6. Settled(roundCards', effects', q, n)
  <2> SUFFICES ASSUME NEW r \in Rounds, NEW o \in Ordinals
               PROVE  /\ IsCall(roundCards, r, o) /\ Earlier(r, o, q, n)
                            => effects'[<<r, o>>] = "observed"
                      /\ Earlier(q, n, r, o) => effects'[<<r, o>>] = "none"
    BY DEF Settled
  <2>1. q \in Nat /\ n \in Nat /\ r \in Nat /\ o \in Nat
    BY RoundsAssumption DEF Rounds, Ordinals
  <2>2. /\ IsCall(roundCards, r, o) /\ Earlier(r, o, q, n) => effects[<<r, o>>] = "observed"
        /\ Earlier(q, n, r, o) => effects[<<r, o>>] = "none"
    BY <1>5 DEF Settled
  <2>3. Earlier(r, o, q, n) \/ Earlier(q, n, r, o) => r # q \/ o # n
    BY <2>1 DEF Earlier
  <2> QED BY <1>4, <2>2, <2>3
<1> QED BY <1>2, <1>4, <1>5, <1>6 DEF RoundsInv, CallsOnly

(* It is the call in hand whose effect it is. *)
LEMMA HandEffect ==
    ASSUME RoundsInv, work.pc \in InHand
    PROVE  \A f : effects' = [effects EXCEPT ![Here] = f] =>
                effects'[<<work.round, work.ordinal>>] = f
<1>1. Here \in Place /\ Here = <<work.round, work.ordinal>>
  BY HandPlace DEF Here, Place, Rounds, Ordinals
<1> QED BY <1>1 DEF RoundsInv, RoundsPlain

(* prepare_session_effect. *)
LEMMA PrepareCallStep ==
    ASSUME RoundsInv, NEW ask \in BOOLEAN, PrepareCall(ask) PROVE RoundsInv'
<1>1. CASE <<"prepare", CallId, work.ordinal>> \in sources
  BY <1>1, RoundsStop, RoundsAssumption DEF PrepareCall, Source, RoundsInv, RoundsPlain
<1>2. CASE <<"prepare", CallId, work.ordinal>> \notin sources
  <2>1. /\ work.pc = "prepare" /\ UNCHANGED <<roundCards, counter, callsRun, replies>>
        /\ effects' = [effects EXCEPT ![Here] = "prepared"]
        /\ work' = IF ask THEN NoWork ELSE [work EXCEPT !.pc = "start"]
        /\ life' = IF ask THEN "permission" ELSE life
    BY <1>2 DEF PrepareCall, Source
  <2>2. work.pc \in InHand /\ "prepared" \in Fates
    BY <2>1 DEF InHand, Fates
  <2>3. PICK q \in Rounds, n \in Ordinals : q = work.round /\ n = work.ordinal
    BY <2>2, HandPlace
  <2>4. /\ effects' \in [Place -> Fates] /\ effects'[<<q, n>>] = "prepared"
        /\ Settled(roundCards', effects', q, n)
        /\ \A r \in Rounds, o \in Ordinals :
              ~IsCall(roundCards', r, o) => effects'[<<r, o>>] = "none"
    BY <2>1, <2>2, <2>3, HandStep, HandEffect
  <2>5. RanBefore(callsRun', q, n)
    BY <2>1, <2>2, <2>3 DEF RoundsInv, Progress, RanBefore
  <2>6. q = Len(roundCards') /\ IsCall(roundCards', q, n) /\ roundCards' # <<>>
    BY <2>1, <2>2, <2>3, HandPlace DEF IsCall, Rounds
  <2>7. CallsOnly' /\ CallsRunInOrder'
    BY <2>1, <2>4 DEF RoundsInv, CallsOnly, CallsRunInOrder, Before
  <2>8. CASE ask
    <3>1. work' = NoWork /\ life' = "permission"
      BY <2>1, <2>8
    <3>2. RoundsPlain'
      <4>1. work' \in Hands /\ work'.pc = "none"
        BY <3>1, AskingHands DEF NoWork
      <4> QED BY <2>1, <2>4, <3>1, <4>1 DEF RoundsInv, RoundsPlain
    <3>3. HandFits' /\ Progress'
      BY <2>4, <2>5, <2>6, <3>1 DEF HandFits, Progress, NoWork, InHand
    <3> QED BY <2>7, <3>2, <3>3 DEF RoundsInv
  <2>9. CASE ~ask
    <3>1. /\ work' = [work EXCEPT !.pc = "start"] /\ life' = "running"
          /\ work' \in Hands
          /\ work'.pc = "start" /\ work'.round = q /\ work'.ordinal = n
          /\ work'.calls = work.calls
      BY <2>1, <2>2, <2>3, <2>9, HandPlace DEF RoundsInv, RoundsPlain, InHand, Hands
    <3>2. RoundsPlain'
      BY <2>1, <2>4, <3>1 DEF RoundsInv, RoundsPlain
    <3>3. HandFits'
      BY <2>1, <2>2, <2>3, <3>1, HandPlace DEF HandFits, Rounds
    <3>4. Progress'
      BY <2>4, <2>5, <3>1 DEF Progress, Here
    <3> QED BY <2>7, <3>2, <3>3, <3>4 DEF RoundsInv
  <2> QED BY <2>8, <2>9
<1> QED BY <1>1, <1>2

(* A step that goes on with the call in hand. *)
LEMMA HandGoes ==
    ASSUME RoundsInv, work.pc \in InHand, NEW f \in Fates,
           UNCHANGED <<roundCards, counter, replies, callsRun, life>>,
           effects' = [effects EXCEPT ![Here] = f],
           NEW p \in {"start", "run"}, work' = [work EXCEPT !.pc = p],
           work.pc # "observe",
           f = IF p = "start" THEN "prepared" ELSE "started"
    PROVE  RoundsInv'
<1>1. PICK q \in Rounds, n \in Ordinals : q = work.round /\ n = work.ordinal
  BY HandPlace
<1>2. roundCards' = roundCards
  OBVIOUS
<1>3. /\ effects' \in [Place -> Fates] /\ effects'[<<q, n>>] = f
      /\ Settled(roundCards', effects', q, n)
      /\ \A r \in Rounds, o \in Ordinals :
            ~IsCall(roundCards', r, o) => effects'[<<r, o>>] = "none"
  BY <1>1, <1>2, HandStep, HandEffect
<1>4. RanBefore(callsRun', q, n)
  BY <1>1 DEF RoundsInv, Progress
<1>5. /\ work' \in Hands /\ work'.pc = p
      /\ work'.round = q /\ work'.ordinal = n /\ work'.calls = work.calls
  BY <1>1 DEF RoundsInv, RoundsPlain, Hands, InHand
<1>6. life' = "running"
  BY HandPlace
<1>7. RoundsPlain'
  BY <1>3, <1>5, <1>6 DEF RoundsInv, RoundsPlain
<1>8. HandFits'
  BY <1>1, <1>5, HandPlace DEF HandFits, Rounds
<1>9. Progress'
  BY <1>3, <1>4, <1>5, <1>6 DEF Progress, Here
<1>10. CallsOnly' /\ CallsRunInOrder'
  BY <1>3 DEF RoundsInv, CallsOnly, CallsRunInOrder, Before
<1> QED BY <1>7, <1>8, <1>9, <1>10 DEF RoundsInv

(* SessionCommand::StartEffect. *)
LEMMA StartCallStep == ASSUME RoundsInv, StartCall PROVE RoundsInv'
<1>1. CASE <<"start", CallId, work.ordinal>> \in sources
  BY <1>1, RoundsStop, RoundsAssumption DEF StartCall, Source, RoundsInv, RoundsPlain
<1>2. CASE <<"start", CallId, work.ordinal>> \notin sources
  <2>1. /\ UNCHANGED <<roundCards, counter, replies, callsRun, life>>
        /\ effects' = [effects EXCEPT ![Here] = "started"]
        /\ work' = [work EXCEPT !.pc = "run"] /\ work.pc = "start"
    BY <1>2 DEF StartCall, Source
  <2> QED BY <2>1, HandGoes DEF Fates, InHand
<1> QED BY <1>1, <1>2

(* An execution comes after all others. *)
LEMMA RunCallStep == ASSUME RoundsInv, RunCall PROVE RoundsInv'
<1>1. /\ work.pc = "run" /\ work.pc \in InHand
      /\ UNCHANGED <<roundCards, counter, effects, replies, life>>
      /\ callsRun' = Append(callsRun, Here)
      /\ work' = [work EXCEPT !.pc = "observe"]
  BY DEF RunCall, durable, InHand
<1>2. PICK q \in Rounds, n \in Ordinals : q = work.round /\ n = work.ordinal
  BY <1>1, HandPlace
<1>3. /\ callsRun \in Seq(Rounds \X Ordinals) /\ callsRun' = Append(callsRun, <<q, n>>)
      /\ q \in Nat /\ n \in Nat /\ q = counter
  BY <1>1, <1>2, HandPlace DEF RoundsInv, RoundsPlain, Here, Rounds, Ordinals
<1>4. /\ callsRun' \in Seq(Rounds \X Ordinals) /\ Len(callsRun) \in Nat
      /\ Len(callsRun') = Len(callsRun) + 1
      /\ callsRun'[Len(callsRun) + 1] = <<q, n>>
      /\ \A i \in 1 .. Len(callsRun) : callsRun'[i] = callsRun[i]
  <2>1. <<q, n>> \in Rounds \X Ordinals
    BY <1>2
  <2> QED BY <1>3, <2>1
<1>5. \A i \in 1 .. Len(callsRun) :
          /\ callsRun[i][1] \in Nat /\ callsRun[i][2] \in Nat
          /\ Earlier(callsRun[i][1], callsRun[i][2], q, n)
  <2>1. RanBefore(callsRun, q, n)
    BY <1>1, <1>2 DEF RoundsInv, Progress
  <2> QED BY <1>3, <2>1 DEF RanBefore, Rounds, Ordinals
<1>6. RanBefore(callsRun', q, n + 1)
  <2> SUFFICES ASSUME NEW i \in 1 .. Len(callsRun) + 1
               PROVE  Earlier(callsRun'[i][1], callsRun'[i][2], q, n + 1)
    BY <1>4 DEF RanBefore
  <2>1. CASE i = Len(callsRun) + 1
    BY <1>3, <1>4, <2>1 DEF Earlier
  <2>2. CASE i \in 1 .. Len(callsRun)
    BY <1>3, <1>4, <1>5, <2>2 DEF Earlier
  <2> QED BY <1>4, <2>1, <2>2
<1>7. /\ work' \in Hands /\ work'.pc = "observe"
      /\ work'.round = q /\ work'.ordinal = n /\ work'.calls = work.calls
  BY <1>1, <1>2 DEF RoundsInv, RoundsPlain, Hands, InHand
<1>8. RoundsPlain'
  <2>1. life' = "running"
    BY <1>1, HandPlace
  <2> QED BY <1>1, <1>4, <1>7, <2>1 DEF RoundsInv, RoundsPlain
<1>9. HandFits'
  BY <1>1, <1>2, <1>7, HandPlace DEF HandFits, Rounds
<1>10. Progress'
  <2>1. life' = "running"
    BY <1>1, HandPlace
  <2>2. Settled(roundCards', effects', q, n) /\ effects'[<<q, n>>] = "started"
    BY <1>1, <1>2 DEF RoundsInv, Progress, Here
  <2> QED BY <1>6, <1>7, <2>1, <2>2 DEF Progress, Here
<1>11. CallsOnly'
  <2>1. \A i \in 1 .. Len(callsRun) : callsRun'[i][1] <= counter
    BY <1>3, <1>4 DEF RoundsInv, CallsOnly
  <2>2. callsRun'[Len(callsRun) + 1][1] <= counter
    BY <1>3, <1>4
  <2>3. \A i \in DOMAIN callsRun' : callsRun'[i][1] <= counter'
    BY <1>1, <1>4, <2>1, <2>2
  <2> QED BY <1>1, <2>3 DEF RoundsInv, CallsOnly
<1>12. CallsRunInOrder'
  <2> SUFFICES ASSUME NEW i \in 1 .. Len(callsRun) + 1, NEW j \in 1 .. Len(callsRun) + 1, i < j
               PROVE  Before(callsRun'[i], callsRun'[j])
    BY <1>4 DEF CallsRunInOrder
  <2>1. CASE j = Len(callsRun) + 1
    <3>1. callsRun'[i] = callsRun[i] /\ i \in 1 .. Len(callsRun)
      BY <1>4, <2>1
    <3> QED BY <1>4, <1>5, <2>1, <3>1 DEF Before, Earlier
  <2>2. CASE j \in 1 .. Len(callsRun)
    <3>1. i \in 1 .. Len(callsRun)
      BY <1>4, <2>2
    <3> QED BY <1>4, <2>2, <3>1 DEF RoundsInv, CallsRunInOrder
  <2> QED BY <1>4, <2>1, <2>2
<1> QED BY <1>8, <1>9, <1>10, <1>11, <1>12 DEF RoundsInv

(* AfterCall: the next call of the batch, or the next request. *)
LEMMA ObserveCallStep == ASSUME RoundsInv, ObserveCall PROVE RoundsInv'
<1>1. /\ work.pc = "observe" /\ work.pc \in InHand
      /\ UNCHANGED <<roundCards, counter, callsRun, replies, life>>
      /\ effects' = [effects EXCEPT ![Here] = "observed"]
      /\ work' = AfterCall(work)
  BY DEF ObserveCall, InHand
<1>2. PICK q \in Rounds, n \in Ordinals : q = work.round /\ n = work.ordinal
  BY <1>1, HandPlace
<1>3. /\ effects' \in [Place -> Fates] /\ effects'[<<q, n>>] = "observed"
      /\ Settled(roundCards', effects', q, n)
      /\ \A r \in Rounds, o \in Ordinals :
            ~IsCall(roundCards', r, o) => effects'[<<r, o>>] = "none"
  BY <1>1, <1>2, HandStep, HandEffect DEF Fates
<1>4. RanBefore(callsRun', q, n + 1) /\ life' = "running"
  BY <1>1, <1>2, HandPlace DEF RoundsInv, Progress
<1>5. /\ q = Len(roundCards) /\ q \in Nat /\ n \in Nat /\ Len(work.calls) \in 1 .. MaxBatch
      /\ work.calls = roundCards[q] /\ n \in 1 .. Len(work.calls) /\ MaxBatch \in Nat
      /\ work \in Hands
  BY <1>1, <1>2, HandPlace, BatchFields, RoundsAssumption
     DEF Rounds, Ordinals, RoundsInv, RoundsPlain
<1>6. CallsOnly' /\ CallsRunInOrder'
  BY <1>1, <1>3 DEF RoundsInv, CallsOnly, CallsRunInOrder, Before
<1>7. CASE n < Len(work.calls)
  <2>0. work' = [work EXCEPT !.pc = "prepare", !.ordinal = @ + 1]
    BY <1>1, <1>2, <1>7 DEF AfterCall
  <2>1. /\ work' \in Hands /\ work'.pc = "prepare" /\ work'.round = q
        /\ work'.ordinal = n + 1 /\ work'.calls = work.calls
    <3> DEFINE w == [work EXCEPT !.pc = "prepare"]
    <3>1. /\ w \in Hands /\ w.pc = "prepare" /\ w.round = q /\ w.ordinal = n
          /\ w.calls = work.calls
      BY <1>2, <1>5 DEF Hands, InHand
    <3>2. work' = [w EXCEPT !.ordinal = n + 1]
      BY <1>2, <2>0
    <3> HIDE DEF w
    <3> QED BY <1>5, <3>1, <3>2 DEF Hands
  <2>2. n + 1 \in Ordinals
    BY <1>5, <1>7 DEF Ordinals
  <2>3. Settled(roundCards', effects', q, n + 1)
    <3> SUFFICES ASSUME NEW r \in Rounds, NEW o \in Ordinals
                 PROVE  /\ IsCall(roundCards', r, o) /\ Earlier(r, o, q, n + 1)
                              => effects'[<<r, o>>] = "observed"
                        /\ Earlier(q, n + 1, r, o) => effects'[<<r, o>>] = "none"
      BY DEF Settled
    <3>1. r \in Nat /\ o \in Nat
      BY DEF Rounds, Ordinals
    <3>2. /\ Earlier(r, o, q, n + 1) => Earlier(r, o, q, n) \/ (r = q /\ o = n)
          /\ Earlier(q, n + 1, r, o) => Earlier(q, n, r, o)
      BY <1>5, <3>1 DEF Earlier
    <3> QED BY <1>3, <3>2 DEF Settled
  <2>4. effects'[<<q, n + 1>>] = "none"
    BY <1>3, <1>5, <2>2 DEF Settled, Earlier
  <2>5. RoundsPlain' /\ HandFits'
    BY <1>1, <1>3, <1>4, <1>5, <1>7, <2>1 DEF RoundsInv, RoundsPlain, HandFits, Rounds
  <2>6. Progress'
    BY <1>4, <2>1, <2>3, <2>4 DEF Progress, Here
  <2> QED BY <1>6, <2>5, <2>6 DEF RoundsInv
<1>8. CASE ~(n < Len(work.calls))
  <2>1. work' = [work EXCEPT !.pc = "ask"] /\ work' \in Hands /\ work'.pc = "ask"
    BY <1>1, <1>2, <1>5, <1>8 DEF AfterCall, Hands, InHand
  <2>2. n = Len(roundCards[q])
    BY <1>5, <1>8
  <2>3. Settled(roundCards', effects', q + 1, 0)
    <3> SUFFICES ASSUME NEW r \in Rounds, NEW o \in Ordinals
                 PROVE  /\ IsCall(roundCards', r, o) /\ Earlier(r, o, q + 1, 0)
                              => effects'[<<r, o>>] = "observed"
                        /\ Earlier(q + 1, 0, r, o) => effects'[<<r, o>>] = "none"
      BY DEF Settled
    <3>1. r \in Nat /\ o \in Nat
      BY DEF Rounds, Ordinals
    <3>2. Earlier(q + 1, 0, r, o) => Earlier(q, n, r, o)
      BY <1>5, <3>1 DEF Earlier
    <3>3. IsCall(roundCards', r, o) /\ Earlier(r, o, q + 1, 0) =>
             Earlier(r, o, q, n) \/ (r = q /\ o = n)
      BY <1>1, <1>5, <2>2, <3>1 DEF Earlier, IsCall
    <3> QED BY <1>3, <3>2, <3>3 DEF Settled
  <2>4. RanBefore(callsRun', q + 1, 0)
    <3> SUFFICES ASSUME NEW i \in DOMAIN callsRun
                 PROVE  Earlier(callsRun[i][1], callsRun[i][2], q + 1, 0)
      BY <1>1 DEF RanBefore
    <3>1. callsRun[i][1] \in Nat /\ callsRun[i][2] \in Nat
      BY DEF RoundsInv, RoundsPlain, Rounds, Ordinals
    <3>2. Earlier(callsRun[i][1], callsRun[i][2], q, n + 1)
      BY <1>1, <1>4 DEF RanBefore
    <3> QED BY <1>5, <3>1, <3>2 DEF Earlier
  <2>5. RoundsPlain' /\ HandFits'
    BY <1>1, <1>3, <1>4, <2>1 DEF RoundsInv, RoundsPlain, HandFits, InHand
  <2>6. Progress'
    BY <1>1, <1>4, <1>5, <2>1, <2>3, <2>4 DEF Progress, InHand
  <2> QED BY <1>6, <2>5, <2>6 DEF RoundsInv
<1> QED BY <1>7, <1>8

(* A reply becomes the newest card, or stops the turn at the bound. *)
LEMMA ReplyToolsStep ==
    ASSUME RoundsInv, NEW calls \in Batches, ReplyTools(calls) PROVE RoundsInv'
<1>1. /\ work.pc = "ask" /\ replies < MaxReplies /\ replies' = replies + 1
      /\ UNCHANGED callsRun /\ replies \in Nat /\ MaxReplies \in Nat
  BY RoundsAssumption DEF ReplyTools, RoundsInv, RoundsPlain
<1>2. CASE RoundsTaken >= MaxToolRounds \/ <<"round", calls[1], 0>> \in sources
  <2>1. /\ work' = NoWork /\ UNCHANGED <<roundCards, counter, effects>>
        /\ life' \in {"ready", "interrupted"}
    BY <1>2, RoundsAssumption DEF ReplyTools, Source, durable, RoundsTaken, RoundsInv, RoundsPlain
  <2>2. replies' \in replies .. MaxReplies
    BY <1>1
  <2> QED BY <1>1, <2>1, <2>2, RoundsStop
<1>3. CASE ~(RoundsTaken >= MaxToolRounds \/ <<"round", calls[1], 0>> \in sources)
  <2> DEFINE L == Len(roundCards) + 1
  <2>1. /\ roundCards' = Append(roundCards, calls) /\ counter' = counter + 1
        /\ work' = [pc |-> "prepare", calls |-> calls, round |-> L, ordinal |-> 1]
        /\ UNCHANGED <<life, effects>> /\ counter < MaxToolRounds
    BY <1>3, RoundsAssumption DEF ReplyTools, Source, RoundsTaken, RoundsInv, RoundsPlain
  <2>2. /\ roundCards \in Seq(Batches) /\ L \in Rounds /\ L \in Nat /\ 1 \in Ordinals
        /\ calls \in Seq(CallIds) /\ Len(calls) \in 1 .. MaxBatch /\ counter + 1 = L
        /\ counter <= replies
    BY <1>1, BatchFields, RoundsAssumption DEF RoundsInv, RoundsPlain, Rounds, Ordinals
  <2>3. /\ roundCards' \in Seq(Batches) /\ Len(roundCards') = L /\ roundCards'[L] = calls
        /\ \A r \in 1 .. L - 1 : roundCards'[r] = roundCards[r]
    BY <2>1, <2>2
  <2>4. /\ work' \in Hands /\ work'.pc = "prepare" /\ work'.round = L
        /\ work'.ordinal = 1 /\ work'.calls = calls /\ life' = "running"
    BY <1>1, <2>1, <2>2 DEF Hands, InHand, RoundsInv, RoundsPlain
  <2>5. RoundsPlain'
    <3>1. counter' = Len(roundCards') /\ counter' <= replies' /\ counter' <= MaxToolRounds
      BY <1>1, <2>1, <2>2, <2>3, RoundsAssumption DEF RoundsInv, RoundsPlain
    <3>2. replies' \in 0 .. MaxReplies
      BY <1>1
    <3> QED BY <1>1, <2>1, <2>3, <2>4, <3>1, <3>2 DEF RoundsInv, RoundsPlain
  <2>6. HandFits'
    BY <2>2, <2>3, <2>4 DEF HandFits, InHand
  <2>7. \A r \in Rounds, o \in Ordinals :
           /\ r \in Nat /\ o \in Nat /\ o > 0
           /\ r < L => (IsCall(roundCards', r, o) <=> IsCall(roundCards, r, o))
           /\ IsCall(roundCards', r, o) => r <= L
    BY <2>2, <2>3 DEF IsCall, Rounds, Ordinals
  <2>8. Settled(roundCards, effects, L, 0) /\ RanBefore(callsRun, L, 0)
    BY <1>1 DEF RoundsInv, Progress
  <2>9. Settled(roundCards', effects', L, 1)
    <3> SUFFICES ASSUME NEW r \in Rounds, NEW o \in Ordinals
                 PROVE  /\ IsCall(roundCards', r, o) /\ Earlier(r, o, L, 1)
                              => effects[<<r, o>>] = "observed"
                        /\ Earlier(L, 1, r, o) => effects[<<r, o>>] = "none"
      BY <2>1 DEF Settled
    <3>1. /\ Earlier(r, o, L, 1) => r < L /\ Earlier(r, o, L, 0)
          /\ Earlier(L, 1, r, o) => Earlier(L, 0, r, o)
      BY <2>2, <2>7 DEF Earlier
    <3> QED BY <2>7, <2>8, <3>1 DEF Settled
  <2>10. effects'[<<L, 1>>] = "none"
    BY <2>1, <2>2, <2>8 DEF Settled, Earlier
  <2>11. RanBefore(callsRun', L, 1)
    <3> SUFFICES ASSUME NEW i \in DOMAIN callsRun
                 PROVE  Earlier(callsRun[i][1], callsRun[i][2], L, 1)
      BY <1>1 DEF RanBefore
    <3>1. callsRun[i][1] \in Nat /\ callsRun[i][2] \in Nat
      BY DEF RoundsInv, RoundsPlain, Rounds, Ordinals
    <3> QED BY <2>2, <2>8, <3>1 DEF RanBefore, Earlier
  <2>12. Progress'
    BY <2>4, <2>9, <2>10, <2>11 DEF Progress, Here
  <2>13. CallsOnly'
    <3>1. \A r \in Rounds, o \in Ordinals :
             ~IsCall(roundCards', r, o) => effects[<<r, o>>] = "none"
      <4> SUFFICES ASSUME NEW r \in Rounds, NEW o \in Ordinals, ~IsCall(roundCards', r, o)
                   PROVE  effects[<<r, o>>] = "none"
        OBVIOUS
      <4>1. CASE r < L
        BY <2>7, <4>1 DEF RoundsInv, CallsOnly
      <4>2. CASE ~(r < L)
        BY <2>2, <2>7, <2>8, <4>2 DEF Settled, Earlier
      <4> QED BY <4>1, <4>2
    <3>2. \A i \in DOMAIN callsRun : callsRun[i][1] <= counter + 1
      <4> SUFFICES ASSUME NEW i \in DOMAIN callsRun PROVE callsRun[i][1] <= counter + 1
        OBVIOUS
      <4>1. callsRun[i][1] \in Nat /\ callsRun[i][1] <= counter /\ counter \in Nat
        BY DEF RoundsInv, RoundsPlain, CallsOnly, Rounds
      <4> QED BY <4>1
    <3> QED BY <1>1, <2>1, <3>1, <3>2 DEF CallsOnly
  <2>14. CallsRunInOrder'
    BY <1>1 DEF RoundsInv, CallsRunInOrder, Before
  <2> QED BY <2>5, <2>6, <2>12, <2>13, <2>14 DEF RoundsInv
<1> QED BY <1>2, <1>3

(* While the user is asked there is one prepared call, of the newest card. *)
LEMMA OnePrepared ==
    ASSUME RoundsInv, life = "permission"
    PROVE  \E o \in Ordinals :
             /\ Prepared = <<Len(roundCards), o>> /\ Len(roundCards) \in Rounds
             /\ IsCall(roundCards, Len(roundCards), o)
             /\ Settled(roundCards, effects, Len(roundCards), o)
             /\ RanBefore(callsRun, Len(roundCards), o)
<1>1. PICK o \in Ordinals :
        /\ roundCards # <<>> /\ IsCall(roundCards, Len(roundCards), o)
        /\ effects[<<Len(roundCards), o>>] = "prepared"
        /\ Settled(roundCards, effects, Len(roundCards), o)
        /\ RanBefore(callsRun, Len(roundCards), o)
  BY DEF RoundsInv, Progress
<1> DEFINE L == Len(roundCards)
<1>2. L \in Rounds /\ L \in Nat /\ o \in Nat
  BY <1>1, RoundsAssumption DEF RoundsInv, RoundsPlain, Rounds, Ordinals
<1>3. Place = Rounds \X Ordinals
  BY DEF Place, Rounds, Ordinals
<1>4. ASSUME NEW r \in Rounds, NEW n \in Ordinals, effects[<<r, n>>] = "prepared"
      PROVE  r = L /\ n = o
  <2>1. r \in Nat /\ n \in Nat
    BY DEF Rounds, Ordinals
  <2>2. IsCall(roundCards, r, n)
    BY <1>4 DEF RoundsInv, CallsOnly
  <2>3. ~Earlier(r, n, L, o) /\ ~Earlier(L, o, r, n)
    BY <1>1, <1>4, <2>2 DEF Settled
  <2> QED BY <1>2, <2>1, <2>3 DEF Earlier
<1>5. \A p \in Place : effects[p] = "prepared" <=> p = <<L, o>>
  <2>1. \A p \in Place : \E r \in Rounds, n \in Ordinals : p = <<r, n>>
    BY <1>3
  <2> QED BY <1>1, <1>4, <2>1
<1>6. <<L, o>> \in Place
  BY <1>2, <1>3
<1>7. Prepared = <<L, o>>
  BY <1>5, <1>6 DEF Prepared
<1> QED BY <1>1, <1>2, <1>7

(* tool_round_for_call finds the card and the place of a call of the newest card. *)
LEMMA RoundOfCall ==
    ASSUME RoundsInv, NEW o \in Ordinals, IsCall(roundCards, Len(roundCards), o),
           Len(roundCards) \in Rounds
    PROVE  ToolRoundForCall(roundCards[Len(roundCards)][o]) =
             [pc |-> "run", calls |-> roundCards[Len(roundCards)],
              round |-> Len(roundCards), ordinal |-> o]
<1> DEFINE L == Len(roundCards)
           b == roundCards[L]
           S == {r \in DOMAIN roundCards : b[o] \in ToSet(roundCards[r])}
<1>1. /\ L \in Nat /\ L > 0 /\ roundCards \in Seq(Batches) /\ b \in Batches
      /\ DOMAIN roundCards = 1 .. L
  BY DEF Rounds, RoundsInv, RoundsPlain
<1>2. /\ DOMAIN b = 1 .. Len(b) /\ o \in 1 .. Len(b)
      /\ \A i, j \in 1 .. Len(b) : b[i] = b[j] => i = j
  BY <1>1, BatchFields DEF IsCall, Ordinals
<1>3. L \in S
  BY <1>1, <1>2 DEF ToSet
<1>4. \A r \in S : r \in Nat /\ L >= r
  BY <1>1
<1>5. Max(S) = L
  <2>1. \A x \in S : (\A y \in S : x >= y) <=> x = L
    BY <1>1, <1>3, <1>4
  <2> QED BY <1>3, <2>1 DEF Max
<1>6. (CHOOSE n \in DOMAIN b : b[n] = b[o]) = o
  BY <1>2
<1> QED BY <1>5, <1>6 DEF ToolRoundForCall

(* resolve_permission: the call that was allowed goes on, whoever allows it. *)
LEMMA ResolveAllowStep == ASSUME RoundsInv, ResolveAllow PROVE RoundsInv'
<1> DEFINE L == Len(roundCards)
<1>1. PICK o \in Ordinals :
        /\ Prepared = <<L, o>> /\ L \in Rounds
        /\ IsCall(roundCards, L, o)
        /\ Settled(roundCards, effects, L, o) /\ RanBefore(callsRun, L, o)
  BY OnePrepared DEF ResolveAllow
<1>2. /\ life' = "running" /\ UNCHANGED <<roundCards, counter, callsRun, replies>>
      /\ effects' = [effects EXCEPT ![<<L, o>>] = "started"]
      /\ work' = ToolRoundForCall(roundCards[L][o])
  BY <1>1 DEF ResolveAllow
<1>3. work' = [pc |-> "run", calls |-> roundCards[L], round |-> L, ordinal |-> o]
  BY <1>1, <1>2, RoundOfCall
<1>4. roundCards[L] \in Batches /\ L \in Nat /\ L > 0 /\ o \in Nat /\ o > 0
  BY <1>1 DEF Rounds, Ordinals, RoundsInv, RoundsPlain
<1>5. roundCards[L] \in Seq(CallIds) /\ Len(roundCards[L]) \in Nat /\ o <= Len(roundCards[L])
  BY <1>1, <1>4, BatchFields, RoundsAssumption DEF IsCall
<1>6. /\ work' \in Hands /\ work'.pc = "run" /\ work'.round = L /\ work'.ordinal = o
      /\ work'.calls = roundCards[L]
  BY <1>3, <1>4, <1>5 DEF Hands, InHand
<1>7. /\ effects' \in [Place -> Fates] /\ effects'[<<L, o>>] = "started"
      /\ \A r \in Rounds, n \in Ordinals :
            (r # L \/ n # o) => effects'[<<r, n>>] = effects[<<r, n>>]
  <2>1. effects \in [Place -> Fates] /\ Place = Rounds \X Ordinals /\ "started" \in Fates
    BY DEF RoundsInv, RoundsPlain, Place, Rounds, Ordinals, Fates
  <2> QED BY <1>1, <1>2, <2>1
<1>8. Settled(roundCards', effects', L, o)
  <2> SUFFICES ASSUME NEW r \in Rounds, NEW n \in Ordinals
               PROVE  /\ IsCall(roundCards, r, n) /\ Earlier(r, n, L, o)
                            => effects'[<<r, n>>] = "observed"
                      /\ Earlier(L, o, r, n) => effects'[<<r, n>>] = "none"
    BY <1>2 DEF Settled
  <2>1. r \in Nat /\ n \in Nat
    BY DEF Rounds, Ordinals
  <2>2. Earlier(r, n, L, o) \/ Earlier(L, o, r, n) => r # L \/ n # o
    BY <1>4, <2>1 DEF Earlier
  <2> QED BY <1>1, <1>7, <2>2 DEF Settled
<1>9. RoundsPlain'
  BY <1>2, <1>6, <1>7 DEF RoundsInv, RoundsPlain
<1>10. HandFits'
  BY <1>2, <1>4, <1>5, <1>6 DEF HandFits
<1>11. Progress'
  BY <1>1, <1>2, <1>6, <1>7, <1>8 DEF Progress, Here
<1>12. CallsOnly' /\ CallsRunInOrder'
  <2>1. \A r \in Rounds, n \in Ordinals :
           ~IsCall(roundCards', r, n) => effects'[<<r, n>>] = "none"
    BY <1>1, <1>2, <1>7 DEF RoundsInv, CallsOnly
  <2> QED BY <1>2, <2>1 DEF RoundsInv, CallsOnly, CallsRunInOrder, Before
<1> QED BY <1>9, <1>10, <1>11, <1>12 DEF RoundsInv

(* A denied call leaves no effect, and the turn is over. *)
LEMMA ResolveDenyStep == ASSUME RoundsInv, ResolveDeny PROVE RoundsInv'
<1>1. /\ life = "permission" /\ life' = "ready"
      /\ UNCHANGED <<roundCards, counter, work, callsRun, replies>>
      /\ effects' = [effects EXCEPT ![Prepared] = "none"]
  BY DEF ResolveDeny
<1>2. work.pc = "none" /\ "none" \in Fates
  BY <1>1 DEF RoundsInv, RoundsPlain, Fates
<1>3. /\ effects' \in [Place -> Fates]
      /\ \A p \in Place : effects[p] = "none" => effects'[p] = "none"
  BY <1>1, <1>2 DEF RoundsInv, RoundsPlain
<1>4. RoundsPlain' /\ HandFits' /\ Progress'
  BY <1>1, <1>2, <1>3 DEF RoundsInv, RoundsPlain, HandFits, Progress, InHand
<1>5. CallsOnly' /\ CallsRunInOrder'
  <2>1. \A r \in Rounds, n \in Ordinals : <<r, n>> \in Place
    BY DEF Place, Rounds, Ordinals
  <2> QED BY <1>1, <1>3, <2>1 DEF RoundsInv, CallsOnly, CallsRunInOrder, Before
<1> QED BY <1>4, <1>5 DEF RoundsInv

(* The answer of the user is the last thing before the next request. *)
LEMMA ProvideInputAnswerStep == ASSUME RoundsInv, ProvideInputAnswer PROVE RoundsInv'
<1>1. /\ life = "input" /\ life' = "running" /\ work' = [NoWork EXCEPT !.pc = "ask"]
      /\ UNCHANGED <<roundCards, counter, effects, callsRun, replies>>
  BY DEF ProvideInputAnswer, durable
<1>2. work' \in Hands /\ work'.pc = "ask"
  BY <1>1, AskingHands DEF NoWork
<1>3. RoundsPlain' /\ HandFits' /\ Progress'
  BY <1>1, <1>2 DEF RoundsInv, RoundsPlain, HandFits, Progress, InHand
<1>4. CallsOnly' /\ CallsRunInOrder'
  BY <1>1 DEF RoundsInv, CallsOnly, CallsRunInOrder, Before
<1> QED BY <1>3, <1>4 DEF RoundsInv

(* However often the turn is parked, resumed, refused or recovered, its calls run once
   and in order, no call of a round past the bound runs, and the provider is asked
   again only with every result (run_provider_turn, execute_tool_batch,
   resolve_permission). *)
THEOREM RoundsSafety == RoundsSpec => []ToolRoundsCorrect
<1>1. RoundsInv /\ [RoundsNext]_roundsVars => RoundsInv'
  <2> SUFFICES ASSUME RoundsInv, [RoundsNext]_roundsVars PROVE RoundsInv'
    OBVIOUS
  <2>1. CASE UNCHANGED roundsVars
    BY <2>1 DEF roundsVars, RoundsInv, RoundsPlain, HandFits, Progress, CallsOnly,
                CallsRunInOrder, Before, Here
  <2>2. ASSUME NEW next \in {"ready", "failed", "input", "interrupted"}, ReplyOther(next)
        PROVE  RoundsInv'
    <3>1. /\ work.pc = "ask" /\ work' = NoWork /\ life' = next
          /\ UNCHANGED <<roundCards, counter, effects, callsRun>>
          /\ replies' \in replies .. MaxReplies
      BY <2>2, RoundsAssumption DEF ReplyOther, durable, RoundsInv, RoundsPlain
    <3> QED BY <3>1, RoundsStop
  <2>3. ASSUME CoordinatorDies PROVE RoundsInv'
    BY <2>3, RoundsStop, RoundsAssumption DEF CoordinatorDies, durable, RoundsInv, RoundsPlain
  <2> QED BY <2>1, <2>2, <2>3, ReplyToolsStep, PrepareCallStep, StartCallStep, RunCallStep,
             ObserveCallStep, ResolveAllowStep, ResolveDenyStep, ProvideInputAnswerStep
          DEF RoundsNext
<1> QED BY <1>1, RoundsInitially, RoundsImply, PTL DEF RoundsSpec

-----------------------------------------------------------------------------
(* What a turn shows before it completes *)

(* What was read so far of the workspace. *)
Reads == UNION {[S -> 0 .. MaxEdits] : S \in SUBSET Tracked}

Scans == [pc : {"none", "tools", "run", "record", "certify"} \cup Scanning,
          read : Reads, first : Reads, tries : Nat, passed : BOOLEAN]

Ledgers == [life : {"running", "permission", "completed", "failed", "interrupted", "denied"},
            revision : Nat, epoch : Nat, baseline : Trees,
            evidence : Seq(Evidences), certified : Seq(Trees)]

VerificationPlain ==
    /\ tree \in Trees /\ edits \in 0 .. MaxEdits
    /\ ledger \in Ledgers
    /\ Len(ledger.evidence) <= 1 /\ Len(ledger.certified) <= 1
    /\ scan \in Scans /\ scan.tries < MaxSamples
    /\ own \subseteq Tracked \cup Skipped /\ steady \in BOOLEAN

(* Versions only grow: nothing that was seen or read is newer than the tree. *)
Growing ==
    /\ seen \subseteq Trees /\ tree \in seen
    /\ \A f \in Tracked : tree[f] <= edits /\ ledger.baseline[f] <= tree[f]
    /\ \A s \in seen, f \in Tracked : s[f] <= tree[f]
    /\ \A f \in DOMAIN scan.read : scan.read[f] <= tree[f]

(* Where the coordinator is, and what the ledger has there. *)
PlacesFit ==
    /\ ledger.life = "permission" => scan = Idle /\ ledger.evidence = <<>>
    /\ scan.pc = "none" => ledger.life # "running"
    /\ scan.pc = "tools" => scan.read = Nowhere
    /\ scan.pc \in {"record", "certify"} => scan.read \in Trees
    /\ scan.pc \in {"evidence2", "certify2"} => scan.first \in Trees
    /\ scan.pc \in {"certify1", "certify2", "certify"} => Len(ledger.evidence) = 1
    /\ scan.pc \notin {"certify1", "certify2", "certify", "none"} => ledger.evidence = <<>>
    /\ ledger.certified # <<>> =>
          /\ scan.pc = "none" /\ ledger.life = "completed" /\ steady
          /\ Len(ledger.evidence) = 1
          /\ ledger.evidence[1].digest = ledger.certified[1]

(* What two equal reads agree on was there when the second one began. *)
Sampled ==
    /\ \A i \in DOMAIN ledger.evidence : ledger.evidence[i].digest \in seen
    /\ scan.pc = "evidence2" =>
          \E s \in seen : \A f \in Tracked :
             /\ scan.first[f] <= s[f]
             /\ f \in DOMAIN scan.read => s[f] <= scan.read[f]
    /\ scan.pc = "record" => scan.read \in seen

(* Somebody wrote a file of which the completion reads a newer version. *)
Spoilt ==
    /\ scan.pc = "record" => \E f \in Tracked : tree[f] > scan.read[f]
    /\ scan.pc = "certify1" => \E f \in Tracked : tree[f] > ledger.evidence[1].digest[f]
    /\ scan.pc \in {"certify2", "certify"} =>
          \E f \in Tracked :
             IF f \in DOMAIN scan.read THEN scan.read[f] > ledger.evidence[1].digest[f]
                                       ELSE tree[f] > ledger.evidence[1].digest[f]

(* An edit of the turn differs from the baseline, for whoever reads it. *)
OwnDiffers ==
    /\ \A f \in own \cap Tracked : tree[f] > ledger.baseline[f]
    /\ scan.pc = "changed" =>
          \A f \in own \cap DOMAIN scan.read : scan.read[f] > ledger.baseline[f]

VerificationInv ==
    /\ VerificationPlain /\ Growing /\ PlacesFit /\ Sampled
    /\ scan.pc \in {"evidence1", "evidence2"} => steady
    /\ ~steady => Spoilt
    /\ OwnDiffers /\ NoUnverifiedEdit

(* Only the workspace moved, or nothing did: what others may do at any time. *)
WorldMoves ==
    /\ tree' \in Trees /\ edits' \in 0 .. MaxEdits /\ edits <= edits'
    /\ seen' \subseteq Trees /\ seen \subseteq seen' /\ tree' \in seen'
    /\ \A f \in Tracked : tree'[f] <= edits' /\ tree[f] <= tree'[f]
    /\ \A s \in seen', f \in Tracked : s[f] <= tree'[f]
    /\ steady' \in BOOLEAN
    /\ steady' = steady \/ \E f \in Tracked : tree'[f] > edits

LEMMA WorldStays ==
    ASSUME VerificationInv, UNCHANGED <<tree, edits, seen, steady>> PROVE WorldMoves
<1>1. \A f \in Tracked : tree[f] \in Nat
  BY VerificationAssumption DEF VerificationInv, VerificationPlain, Trees
<1> QED BY <1>1, VerificationAssumption
     DEF VerificationInv, VerificationPlain, Growing, WorldMoves

LEMMA WorldWritten ==
    ASSUME VerificationInv, NEW f \in Tracked, Write(f)
    PROVE  /\ WorldMoves /\ tree'[f] = edits + 1 /\ steady' = (steady /\ ~ToBeRead(f))
           /\ \A g \in Tracked : g # f => tree'[g] = tree[g]
<1>1. /\ tree \in [Tracked -> 0 .. MaxEdits] /\ edits \in 0 .. MaxEdits /\ edits < MaxEdits
      /\ MaxEdits \in Nat /\ edits' = edits + 1 /\ steady \in BOOLEAN
      /\ tree' = [tree EXCEPT ![f] = edits + 1] /\ seen' = seen \cup {tree'}
      /\ steady' = (steady /\ ~ToBeRead(f))
  BY VerificationAssumption DEF VerificationInv, VerificationPlain, Trees, Write
<1>2. /\ tree' \in [Tracked -> 0 .. MaxEdits] /\ tree'[f] = edits + 1
      /\ \A g \in Tracked : g # f => tree'[g] = tree[g]
      /\ edits' \in 0 .. MaxEdits /\ edits <= edits'
  BY <1>1
<1>3. \A g \in Tracked : tree[g] \in Nat /\ tree[g] <= edits
  BY <1>1 DEF VerificationInv, Growing
<1>4. \A g \in Tracked : tree'[g] <= edits' /\ tree[g] <= tree'[g] /\ tree'[g] \in Nat
  BY <1>1, <1>2, <1>3
<1>5. \A s \in seen, g \in Tracked : s[g] <= tree[g] /\ s[g] \in Nat
  BY <1>1 DEF VerificationInv, Growing, Trees
<1>6. \A s \in seen', g \in Tracked : s[g] <= tree'[g]
  <2> SUFFICES ASSUME NEW s \in seen', NEW g \in Tracked PROVE s[g] <= tree'[g]
    OBVIOUS
  <2>1. CASE s = tree'
    BY <1>4, <2>1
  <2>2. CASE s \in seen
    BY <1>3, <1>4, <1>5, <2>2
  <2> QED BY <1>1, <2>1, <2>2
<1>7. seen' \subseteq Trees /\ seen \subseteq seen' /\ tree' \in seen'
  BY <1>1, <1>2 DEF VerificationInv, Growing, Trees
<1>8. steady' \in BOOLEAN /\ (steady' = steady \/ tree'[f] > edits)
  BY <1>1, <1>2
<1>9. WorldMoves
  BY <1>2, <1>4, <1>6, <1>7, <1>8 DEF WorldMoves, Trees
<1> QED BY <1>1, <1>2, <1>9

(* The fields of what a coordinator has. *)
LEMMA IdleScans == Idle \in Scans /\ Idle.pc = "none" /\ Idle.tries = 0 /\ Idle.read = Nowhere
<1>1. Nowhere \in [{} -> 0 .. MaxEdits]
  BY DEF Nowhere
<1>2. Nowhere \in Reads
  BY <1>1 DEF Reads
<1> QED BY <1>2 DEF Idle, Scans

(* A write of one field of the ledger leaves the others. *)
SameLedger(l, m) ==
    l.baseline = m.baseline /\ l.evidence = m.evidence /\ l.certified = m.certified

LEMMA LedgerFields ==
    ASSUME NEW l \in Ledgers
    PROVE  /\ \A n \in Nat : LET m == [l EXCEPT !.revision = n] IN
              m \in Ledgers /\ SameLedger(l, m) /\ m.life = l.life /\ m.epoch = l.epoch
           /\ \A n \in Nat : LET m == [l EXCEPT !.epoch = n] IN
              /\ m \in Ledgers /\ SameLedger(l, m) /\ m.life = l.life
              /\ m.revision = l.revision
           /\ \A n \in {"running", "permission", "completed", "failed", "interrupted", "denied"} :
              LET m == [l EXCEPT !.life = n] IN
              /\ m \in Ledgers /\ SameLedger(l, m) /\ m.life = n
              /\ m.revision = l.revision /\ m.epoch = l.epoch
BY DEF Ledgers, SameLedger

(* A read that is over is a tree. *)
LEMMA WholeIsTree ==
    ASSUME NEW r \in Reads, DOMAIN r = Tracked PROVE r \in Trees
BY DEF Reads, Trees

LEMMA ReadsAre ==
    ASSUME NEW r \in Reads
    PROVE  DOMAIN r \subseteq Tracked /\ \A f \in DOMAIN r : r[f] \in 0 .. MaxEdits
BY DEF Reads

(* Nothing was read yet. *)
LEMMA NowhereRead == Nowhere \in Reads /\ DOMAIN Nowhere = {}
<1>1. Nowhere \in [{} -> 0 .. MaxEdits]
  BY DEF Nowhere
<1> QED BY <1>1 DEF Reads

(* The workspace moves on under whoever looks at it. *)
LEMMA WorldKeeps ==
    ASSUME VerificationInv, WorldMoves
    PROVE  /\ \A f \in Tracked : /\ tree[f] \in Nat /\ tree'[f] \in Nat
                              /\ ledger.baseline[f] \in Nat
                              /\ ledger.baseline[f] <= tree'[f]
           /\ \A f \in own \cap Tracked : tree'[f] > ledger.baseline[f]
           /\ \A f \in DOMAIN scan.read : /\ f \in Tracked /\ scan.read[f] \in Nat
                                         /\ scan.read[f] <= tree'[f]
           /\ \A i \in DOMAIN ledger.evidence :
                 /\ ledger.evidence[i].digest \in seen'
                 /\ \A f \in Tracked : /\ ledger.evidence[i].digest[f] \in Nat
                                    /\ ledger.evidence[i].digest[f] <= tree[f]
<1>1. /\ tree \in Trees /\ tree' \in Trees /\ ledger.baseline \in Trees /\ scan.read \in Reads
  BY DEF VerificationInv, VerificationPlain, WorldMoves, Ledgers, Scans
<1>2. \A f \in Tracked : tree[f] \in Nat /\ tree'[f] \in Nat /\ ledger.baseline[f] \in Nat
  BY <1>1, VerificationAssumption DEF Trees
<1>3. \A f \in Tracked : tree[f] <= tree'[f] /\ ledger.baseline[f] <= tree[f]
  BY DEF VerificationInv, Growing, WorldMoves
<1>4. \A f \in own \cap Tracked : tree[f] > ledger.baseline[f]
  BY <1>1 DEF VerificationInv, OwnDiffers
<1>5. \A f \in DOMAIN scan.read : /\ f \in Tracked /\ scan.read[f] \in Nat
                                /\ scan.read[f] <= tree[f]
  BY <1>1, ReadsAre, VerificationAssumption DEF VerificationInv, Growing
<1>6. \A i \in DOMAIN ledger.evidence :
         /\ ledger.evidence[i].digest \in seen' /\ ledger.evidence[i].digest \in seen
  BY DEF VerificationInv, Sampled, WorldMoves
<1>7. \A s \in seen, f \in Tracked : s[f] \in Nat /\ s[f] <= tree[f]
  BY VerificationAssumption DEF VerificationInv, Growing, Trees
<1>8. \A f \in DOMAIN scan.read : scan.read[f] <= tree'[f]
  BY <1>2, <1>3, <1>5
<1>9. \A f \in Tracked : ledger.baseline[f] <= tree'[f]
  BY <1>2, <1>3
<1>10. \A f \in own \cap Tracked : tree'[f] > ledger.baseline[f]
  BY <1>2, <1>3, <1>4
<1> QED BY <1>2, <1>4, <1>5, <1>6, <1>7, <1>8, <1>9, <1>10

(* Others write: what was seen stays, and what is spoilt is known. *)
LEMMA OutsideEditStep ==
    ASSUME VerificationInv, NEW f \in Tracked, OutsideEdit(f) PROVE VerificationInv'
<1>1. /\ WorldMoves /\ tree'[f] = edits + 1 /\ steady' = (steady /\ ~ToBeRead(f))
      /\ UNCHANGED <<ledger, scan, own>>
  BY WorldWritten DEF OutsideEdit
<1>2. VerificationPlain' /\ Growing'
  BY <1>1, WorldKeeps DEF VerificationInv, VerificationPlain, Growing, WorldMoves
<1>3. PlacesFit'
  <2>1. scan.pc = "none" => steady' = steady
    BY <1>1 DEF ToBeRead, VerificationInv, VerificationPlain
  <2> QED BY <1>1, <2>1 DEF VerificationInv, PlacesFit
<1>4. Sampled'
  BY <1>1 DEF VerificationInv, Sampled, WorldMoves
<1>5. scan'.pc \in {"evidence1", "evidence2"} => steady'
  BY <1>1 DEF VerificationInv, ToBeRead
<1>6. ~steady' => Spoilt'
  <2> SUFFICES ASSUME ~steady' PROVE Spoilt'
    OBVIOUS
  <2>0. /\ \A g \in Tracked : tree[g] \in Nat /\ tree'[g] \in Nat /\ tree[g] <= tree'[g]
        /\ edits \in Nat /\ \A g \in Tracked : tree[g] <= edits
    BY <1>1, WorldKeeps DEF WorldMoves, VerificationInv, VerificationPlain, Growing
  <2>00. scan.pc \in {"certify1", "certify2", "certify"} =>
            \A g \in Tracked : /\ ledger.evidence[1].digest[g] \in Nat
                             /\ ledger.evidence[1].digest[g] <= tree[g]
    BY <1>1, WorldKeeps DEF VerificationInv, PlacesFit
  <2>1. CASE ~steady
    <3>1. Spoilt
      BY <2>1 DEF VerificationInv
    <3>2. scan.pc = "record" => \E g \in Tracked : tree'[g] > scan.read[g]
      <4>1. \A g \in DOMAIN scan.read : scan.read[g] \in Nat
        BY <1>1, WorldKeeps
      <4>2. scan.pc = "record" => DOMAIN scan.read = Tracked
        BY DEF VerificationInv, PlacesFit, Trees
      <4> QED BY <2>0, <3>1, <4>1, <4>2 DEF Spoilt
    <3>3. scan.pc = "certify1" => \E g \in Tracked : tree'[g] > ledger.evidence[1].digest[g]
      BY <2>0, <2>00, <3>1 DEF Spoilt
    <3>4. scan.pc \in {"certify2", "certify"} =>
            \E g \in Tracked :
               IF g \in DOMAIN scan.read THEN scan.read[g] > ledger.evidence[1].digest[g]
                                         ELSE tree'[g] > ledger.evidence[1].digest[g]
      BY <2>0, <2>00, <3>1 DEF Spoilt
    <3> QED BY <1>1, <3>2, <3>3, <3>4 DEF Spoilt
  <2>2. CASE steady
    <3>1. ToBeRead(f)
      BY <1>1, <2>2
    <3>2. CASE scan.pc = "record"
      <4>1. scan.read[f] \in Nat /\ scan.read[f] <= tree[f]
        BY <1>1, <3>2, WorldKeeps DEF VerificationInv, PlacesFit, Trees, Growing
      <4> QED BY <1>1, <2>0, <3>2, <4>1 DEF Spoilt
    <3>3. CASE scan.pc = "certify1"
      <4>1. tree'[f] > ledger.evidence[1].digest[f]
        BY <1>1, <2>0, <2>00, <3>3
      <4> QED BY <1>1, <3>3, <4>1 DEF Spoilt
    <3>4. CASE scan.pc = "certify2" /\ f \notin DOMAIN scan.read
      <4>1. tree'[f] > ledger.evidence[1].digest[f]
        BY <1>1, <2>0, <2>00, <3>4
      <4> QED BY <1>1, <3>4, <4>1 DEF Spoilt
    <3> QED BY <3>1, <3>2, <3>3, <3>4 DEF ToBeRead
  <2> QED BY <2>1, <2>2
<1>7. OwnDiffers' /\ NoUnverifiedEdit'
  BY <1>1, WorldKeeps DEF VerificationInv, OwnDiffers, NoUnverifiedEdit
<1> QED BY <1>2, <1>3, <1>4, <1>5, <1>6, <1>7 DEF VerificationInv

(* The coordinator stops: the turn is over, for one reason or another. *)
LEMMA StopStep ==
    ASSUME VerificationInv, WorldMoves, UNCHANGED own, scan.pc # "none",
           NEW outcome \in {"interrupted", "completed"}, Stop(outcome),
           outcome = "completed" => own \subseteq Skipped
    PROVE  VerificationInv'
<1>1. /\ scan' = Idle /\ ledger' = [ledger EXCEPT !.life = IF @ = "running" THEN outcome ELSE @]
      /\ ledger \in Ledgers
  BY DEF Stop, VerificationInv, VerificationPlain
<1>2. /\ ledger' \in Ledgers /\ ledger'.evidence = ledger.evidence
      /\ ledger'.certified = ledger.certified /\ ledger'.baseline = ledger.baseline
      /\ ledger'.life = IF ledger.life = "running" THEN outcome ELSE ledger.life
  BY <1>1 DEF Ledgers
<1>3. ledger.life # "permission" /\ ledger.certified = <<>>
  BY IdleScans DEF VerificationInv, PlacesFit
<1>4. VerificationPlain'
  BY <1>1, <1>2, IdleScans, VerificationAssumption DEF VerificationInv, VerificationPlain, WorldMoves
<1>5. Growing'
  BY <1>1, <1>2, IdleScans, NowhereRead, WorldKeeps DEF VerificationInv, Growing, WorldMoves
<1>6. PlacesFit' /\ Sampled'
  BY <1>1, <1>2, <1>3, IdleScans, WorldKeeps DEF VerificationInv, PlacesFit, Sampled, Scanning
<1>7. scan'.pc = "none" /\ Spoilt'
  BY <1>1, IdleScans DEF Spoilt
<1>8. OwnDiffers' /\ NoUnverifiedEdit'
  BY <1>1, <1>2, <1>3, IdleScans, WorldKeeps DEF VerificationInv, OwnDiffers, NoUnverifiedEdit
<1> QED BY <1>4, <1>5, <1>6, <1>7, <1>8 DEF VerificationInv

(* Another round of sampling, or the end of it. *)
LEMMA NextSampleStep ==
    ASSUME VerificationInv, WorldMoves, UNCHANGED own,
           scan.pc \in {"evidence1", "evidence2", "certify1", "certify2"},
           NextSample(FirstRead(scan.pc)),
           scan.pc \in {"evidence1", "evidence2"} => steady' = steady
    PROVE  VerificationInv'
<1> DEFINE phase == FirstRead(scan.pc)
<1>0. phase = IF scan.pc \in {"evidence1", "evidence2"} THEN "evidence1" ELSE "certify1"
  BY DEF FirstRead
<1>1. CASE scan.tries + 1 >= MaxSamples
  <2>1. Stop("interrupted")
    BY <1>1 DEF NextSample
  <2> QED BY <2>1, StopStep
<1>2. CASE ~(scan.tries + 1 >= MaxSamples)
  <2>1. /\ scan' = [scan EXCEPT !.pc = phase, !.read = Nowhere, !.first = Nowhere,
                               !.tries = scan.tries + 1]
        /\ UNCHANGED ledger
    BY <1>2 DEF NextSample
  <2>2. /\ scan' \in Scans /\ scan'.pc = phase /\ scan'.read = Nowhere
        /\ scan'.tries = scan.tries + 1
    <3>1. phase \in Scanning
      BY <1>0 DEF Scanning
    <3>2. scan \in Scans
      BY DEF VerificationInv, VerificationPlain
    <3> HIDE DEF phase
    <3>3. scan.tries + 1 \in Nat /\ Nowhere \in Reads
      BY <3>2, NowhereRead DEF Scans
    <3> QED BY <2>1, <3>1, <3>2, <3>3 DEF Scans
  <2>3. VerificationPlain'
    <3>1. scan'.tries < MaxSamples
      BY <1>2, <2>2, VerificationAssumption DEF VerificationInv, VerificationPlain, Scans
    <3> QED BY <2>1, <2>2, <3>1 DEF VerificationInv, VerificationPlain, WorldMoves
  <2>4. Growing'
    BY <2>1, <2>2, NowhereRead, WorldKeeps DEF VerificationInv, Growing, WorldMoves
  <2>5. PlacesFit'
    <3>1. ledger.life # "permission" /\ ledger.certified = <<>>
      BY IdleScans DEF VerificationInv, PlacesFit
    <3> QED BY <1>0, <2>1, <2>2, <3>1 DEF VerificationInv, PlacesFit
  <2>6. Sampled'
    BY <1>0, <2>1, <2>2, WorldKeeps DEF Sampled
  <2>7. scan'.pc \in {"evidence1", "evidence2"} => steady'
    BY <1>0, <2>2 DEF VerificationInv
  <2>8. ~steady' => Spoilt'
    <3> SUFFICES ASSUME ~steady', phase = "certify1"
                 PROVE  \E g \in Tracked : tree'[g] > ledger.evidence[1].digest[g]
      BY <1>0, <2>1, <2>2, <2>7 DEF Spoilt
    <3>0. scan.pc \in {"certify1", "certify2"} /\ 1 \in DOMAIN ledger.evidence
      BY <1>0 DEF VerificationInv, PlacesFit
    <3>1. /\ \A g \in Tracked : /\ tree[g] \in Nat /\ tree'[g] \in Nat /\ tree[g] <= tree'[g]
                              /\ tree[g] <= edits
                              /\ ledger.evidence[1].digest[g] \in Nat
                              /\ ledger.evidence[1].digest[g] <= tree[g]
          /\ edits \in Nat
          /\ \A g \in DOMAIN scan.read : /\ g \in Tracked /\ scan.read[g] \in Nat
                                        /\ scan.read[g] <= tree'[g]
      BY <3>0, WorldKeeps DEF WorldMoves, VerificationInv, VerificationPlain, Growing
    <3>2. CASE steady' = steady
      <4>1. Spoilt
        BY <3>2 DEF VerificationInv
      <4>2. CASE scan.pc = "certify1"
        BY <3>1, <4>1, <4>2 DEF Spoilt
      <4>3. CASE scan.pc = "certify2"
        <5>1. PICK g \in Tracked :
                 IF g \in DOMAIN scan.read THEN scan.read[g] > ledger.evidence[1].digest[g]
                                           ELSE tree[g] > ledger.evidence[1].digest[g]
          BY <4>1, <4>3 DEF Spoilt
        <5> QED BY <3>1, <5>1
      <4> QED BY <3>0, <4>2, <4>3
    <3>3. CASE \E g \in Tracked : tree'[g] > edits
      BY <3>1, <3>3
    <3> QED BY <3>2, <3>3 DEF WorldMoves
  <2>9. OwnDiffers' /\ NoUnverifiedEdit'
    BY <1>0, <2>1, <2>2, WorldKeeps DEF VerificationInv, OwnDiffers, NoUnverifiedEdit
  <2> QED BY <2>3, <2>4, <2>5, <2>6, <2>7, <2>8, <2>9 DEF VerificationInv
<1> QED BY <1>1, <1>2

(* An effect of the turn writes while its tools run. *)
LEMMA OwnEditStep ==
    ASSUME VerificationInv, WorldMoves, NEW f \in Tracked \cup Skipped,
           f \in Tracked => tree'[f] = edits + 1,
           scan.pc = "tools", ledger.life = "running", own' = own \cup {f},
           ledger' = [ledger EXCEPT !.epoch = @ + 1, !.revision = @ + 1],
           UNCHANGED scan
    PROVE  VerificationInv'
<1>1. ledger' = [ledger EXCEPT !.epoch = ledger.epoch + 1, !.revision = ledger.revision + 1]
  OBVIOUS
<1>2. /\ ledger' \in Ledgers
      /\ UNCHANGED <<ledger.life, ledger.baseline, ledger.evidence, ledger.certified>>
  <2> DEFINE l == [ledger EXCEPT !.epoch = ledger.epoch + 1]
  <2>1. /\ ledger \in Ledgers /\ ledger.epoch + 1 \in Nat /\ ledger.revision + 1 \in Nat
    BY DEF VerificationInv, VerificationPlain, Ledgers
  <2>2. l \in Ledgers /\ SameLedger(ledger, l) /\ l.life = ledger.life
    BY <2>1, LedgerFields
  <2>3. ledger' = [l EXCEPT !.revision = ledger.revision + 1]
    BY <1>1
  <2> HIDE DEF l
  <2>4. ledger' \in Ledgers /\ SameLedger(l, ledger') /\ ledger'.life = l.life
    <3> DEFINE n == ledger.revision + 1
    <3>1. n \in Nat /\ l \in Ledgers /\ ledger' = [l EXCEPT !.revision = n]
      BY <2>1, <2>2, <2>3
    <3> HIDE DEF n
    <3> QED BY <3>1 DEF Ledgers, SameLedger
  <2> QED BY <2>2, <2>4 DEF SameLedger
<1>3. VerificationPlain' /\ Growing'
  BY <1>1, <1>2, WorldKeeps DEF VerificationInv, VerificationPlain, Growing, WorldMoves
<1>4. PlacesFit' /\ Sampled'
  BY <1>1, <1>2, WorldKeeps DEF VerificationInv, PlacesFit, Sampled
<1>5. Spoilt' /\ NoUnverifiedEdit'
  BY <1>1, <1>2 DEF Spoilt, NoUnverifiedEdit
<1>6. OwnDiffers'
  <2>1. f \in Tracked => tree'[f] > ledger.baseline[f]
    BY <1>1, WorldKeeps DEF VerificationInv, VerificationPlain, Growing
  <2> QED BY <1>1, <1>2, <2>1, WorldKeeps DEF OwnDiffers
<1> QED BY <1>1, <1>3, <1>4, <1>5, <1>6 DEF VerificationInv

LEMMA ToolEditStep ==
    ASSUME VerificationInv, NEW f \in Tracked, ToolEdit(f) PROVE VerificationInv'
BY WorldWritten, OwnEditStep DEF ToolEdit

LEMMA SkippedEditStep ==
    ASSUME VerificationInv, NEW f \in Skipped, SkippedEdit(f) PROVE VerificationInv'
<1>1. edits \in 0 .. MaxEdits /\ edits < MaxEdits /\ f \notin Tracked
  BY VerificationAssumption DEF VerificationInv, VerificationPlain, SkippedEdit
<1>2. edits' \in 0 .. MaxEdits /\ edits <= edits'
  BY <1>1, VerificationAssumption DEF SkippedEdit
<1>3. \A g \in Tracked : tree[g] \in Nat /\ tree[g] <= edits'
  <2>1. \A g \in Tracked : tree[g] \in Nat /\ tree[g] <= edits
    BY VerificationAssumption DEF VerificationInv, VerificationPlain, Growing, Trees
  <2> QED BY <1>1, <1>2, <2>1
<1>4. WorldMoves
  BY <1>2, <1>3 DEF VerificationInv, VerificationPlain, Growing, WorldMoves, SkippedEdit
<1> QED BY <1>1, <1>4, OwnEditStep DEF SkippedEdit

(* The coordinator alone moves, without ledger and workspace. *)
LEMMA FinalTextStep == ASSUME VerificationInv, FinalText PROVE VerificationInv'
<1>1. /\ scan.pc = "tools" /\ scan' = [scan EXCEPT !.pc = "changed"] /\ scan.read = Nowhere
      /\ UNCHANGED <<tree, edits, ledger, own, seen, steady>> /\ scan \in Scans
  BY DEF FinalText, VerificationInv, VerificationPlain, PlacesFit
<1>2. scan' \in Scans /\ scan'.pc = "changed" /\ scan'.read = Nowhere /\ scan'.tries = scan.tries
  BY <1>1 DEF Scans, Scanning
<1>3. VerificationPlain' /\ Growing'
  BY <1>1, <1>2, NowhereRead DEF VerificationInv, VerificationPlain, Growing
<1>4. PlacesFit' /\ Sampled' /\ Spoilt' /\ NoUnverifiedEdit'
  BY <1>1, <1>2, IdleScans DEF VerificationInv, PlacesFit, Sampled, Spoilt, NoUnverifiedEdit
<1>5. OwnDiffers'
  BY <1>1, <1>2, NowhereRead DEF VerificationInv, OwnDiffers
<1> QED BY <1>2, <1>3, <1>4, <1>5 DEF VerificationInv

(* A file is read: what was read of it is what it is. *)
LEMMA ReadFileStep ==
    ASSUME VerificationInv, NEW f \in Tracked, ReadFile(f) PROVE VerificationInv'
<1> DEFINE r == [g \in DOMAIN scan.read \cup {f} |-> IF g = f THEN tree[f] ELSE scan.read[g]]
<1>1. /\ scan.pc \in Scanning /\ f \notin DOMAIN scan.read
      /\ scan' = [scan EXCEPT !.read = r]
      /\ UNCHANGED <<tree, edits, ledger, own, seen, steady>> /\ scan \in Scans
      /\ scan.read \in Reads
  BY DEF ReadFile, VerificationInv, VerificationPlain, Scans
<1>2. /\ r \in Reads /\ DOMAIN r = DOMAIN scan.read \cup {f} /\ r[f] = tree[f]
      /\ \A g \in DOMAIN scan.read : r[g] = scan.read[g]
  <2>1. DOMAIN scan.read \in SUBSET Tracked /\ \A g \in DOMAIN scan.read : scan.read[g] \in 0 .. MaxEdits
    BY <1>1, ReadsAre
  <2>2. tree[f] \in 0 .. MaxEdits
    BY DEF VerificationInv, VerificationPlain, Trees
  <2>3. r \in [DOMAIN scan.read \cup {f} -> 0 .. MaxEdits]
    BY <2>1, <2>2
  <2>4. DOMAIN scan.read \cup {f} \in SUBSET Tracked
    BY <2>1
  <2> QED BY <1>1, <2>3, <2>4 DEF Reads
<1> HIDE DEF r
<1>3. /\ scan' \in Scans /\ scan'.pc = scan.pc /\ scan'.read = r
      /\ scan'.first = scan.first /\ scan'.tries = scan.tries
  BY <1>1, <1>2 DEF Scans
<1>4. \A g \in Tracked : tree[g] \in Nat /\ tree[g] <= tree[g]
  BY VerificationAssumption DEF VerificationInv, VerificationPlain, Trees
<1>5. VerificationPlain' /\ Growing'
  BY <1>1, <1>2, <1>3, <1>4 DEF VerificationInv, VerificationPlain, Growing
<1>6. PlacesFit'
  <2>1. /\ scan.pc \notin {"none", "tools", "record", "certify"} /\ ledger.life # "permission"
        /\ ledger.certified = <<>>
    BY <1>1, IdleScans DEF Scanning, VerificationInv, PlacesFit
  <2> QED BY <1>1, <1>3, <2>1 DEF VerificationInv, PlacesFit
<1>7. Sampled'
  <2>1. scan.pc # "record" /\ \A i \in DOMAIN ledger.evidence : ledger.evidence[i].digest \in seen
    BY <1>1 DEF Scanning, VerificationInv, Sampled
  <2>2. ASSUME scan.pc = "evidence2"
        PROVE  \E s \in seen : \A g \in Tracked :
                  /\ scan.first[g] <= s[g] /\ (g \in DOMAIN r => s[g] <= r[g])
    <3>1. PICK s \in seen : \A g \in Tracked :
             /\ scan.first[g] <= s[g] /\ (g \in DOMAIN scan.read => s[g] <= scan.read[g])
      BY <2>2 DEF VerificationInv, Sampled
    <3>2. s[f] <= tree[f]
      BY DEF VerificationInv, Growing
    <3> QED BY <1>2, <3>1, <3>2
  <2> QED BY <1>1, <1>3, <2>1, <2>2 DEF Sampled
<1>8. ~steady' => Spoilt'
  <2> SUFFICES ASSUME ~steady PROVE Spoilt'
    BY <1>1
  <2>1. Spoilt /\ scan.pc \notin {"record", "certify"}
    BY <1>1 DEF Scanning, VerificationInv
  <2>2. ASSUME scan.pc = "certify2"
        PROVE  \E g \in Tracked : IF g \in DOMAIN r THEN r[g] > ledger.evidence[1].digest[g]
                                                  ELSE tree[g] > ledger.evidence[1].digest[g]
    BY <1>2, <2>1, <2>2 DEF Spoilt
  <2> QED BY <1>1, <1>3, <2>1, <2>2 DEF Spoilt
<1>9. scan'.pc \in {"evidence1", "evidence2"} => steady'
  BY <1>1, <1>3 DEF VerificationInv
<1>10. OwnDiffers' /\ NoUnverifiedEdit'
  BY <1>1, <1>2, <1>3 DEF VerificationInv, OwnDiffers, NoUnverifiedEdit
<1> QED BY <1>5, <1>6, <1>7, <1>8, <1>9, <1>10 DEF VerificationInv

(* A file is written under the read. *)
LEMMA UnstableFileStep ==
    ASSUME VerificationInv, NEW f \in Tracked, UnstableFile(f) PROVE VerificationInv'
<1>1. /\ scan.pc \in Scanning /\ UNCHANGED own /\ WorldMoves
      /\ steady' = (steady /\ ~ToBeRead(f))
  BY WorldWritten DEF UnstableFile
<1>2. CASE scan.pc = "changed"
  BY <1>1, <1>2, StopStep DEF UnstableFile
<1>3. CASE scan.pc # "changed"
  <2>1. scan.pc \in {"evidence1", "evidence2"} => steady' = steady
    BY <1>1 DEF ToBeRead, VerificationInv
  <2> QED BY <1>1, <1>3, <2>1, NextSampleStep DEF UnstableFile, Scanning
<1> QED BY <1>2, <1>3

(* The first of two reads is over: the tree as it is comes after all of it. *)
LEMMA FirstReadDoneStep == ASSUME VerificationInv, FirstReadDone PROVE VerificationInv'
<1>1. /\ scan.pc \in {"evidence1", "certify1"} /\ Whole /\ scan \in Scans /\ scan.read \in Reads
      /\ scan' = [scan EXCEPT !.pc = IF scan.pc = "evidence1" THEN "evidence2" ELSE "certify2",
                              !.first = scan.read, !.read = Nowhere]
      /\ UNCHANGED <<tree, edits, ledger, own, seen, steady>>
  BY DEF FirstReadDone, VerificationInv, VerificationPlain, Scans
<1>2. /\ scan' \in Scans /\ scan'.first = scan.read /\ scan'.read = Nowhere
      /\ scan'.tries = scan.tries
      /\ scan'.pc = IF scan.pc = "evidence1" THEN "evidence2" ELSE "certify2"
  <2>1. (IF scan.pc = "evidence1" THEN "evidence2" ELSE "certify2") \in Scanning
    BY DEF Scanning
  <2> QED BY <1>1, <2>1, NowhereRead DEF Scans
<1>3. scan.read \in Trees
  BY <1>1, WholeIsTree DEF Whole
<1>4. VerificationPlain' /\ Growing'
  BY <1>1, <1>2, NowhereRead DEF VerificationInv, VerificationPlain, Growing
<1>5. PlacesFit'
  <2>1. ledger.life # "permission" /\ ledger.certified = <<>>
    BY <1>1, IdleScans DEF VerificationInv, PlacesFit
  <2> QED BY <1>1, <1>2, <1>3, <2>1 DEF VerificationInv, PlacesFit
<1>6. Sampled'
  <2>1. tree \in seen /\ \A f \in Tracked : scan.read[f] <= tree[f]
    BY <1>1 DEF VerificationInv, Growing, Whole
  <2>2. \A i \in DOMAIN ledger.evidence : ledger.evidence[i].digest \in seen
    BY DEF VerificationInv, Sampled
  <2> QED BY <1>1, <1>2, <2>1, <2>2, NowhereRead DEF Sampled
<1>7. ~steady' => Spoilt'
  BY <1>1, <1>2, NowhereRead DEF VerificationInv, Spoilt
<1>8. scan'.pc \in {"evidence1", "evidence2"} => steady'
  BY <1>1, <1>2 DEF VerificationInv
<1>9. OwnDiffers' /\ NoUnverifiedEdit'
  BY <1>1, <1>2 DEF VerificationInv, OwnDiffers, NoUnverifiedEdit
<1> QED BY <1>4, <1>5, <1>6, <1>7, <1>8, <1>9 DEF VerificationInv

(* Two equal reads: what they agree on was all there at the instant between them. *)
LEMMA SecondReadDoneStep == ASSUME VerificationInv, SecondReadDone PROVE VerificationInv'
<1>1. /\ scan.pc \in {"evidence2", "certify2"} /\ Whole /\ scan \in Scans /\ scan.read \in Reads
      /\ UNCHANGED <<tree, edits, own, seen, steady>>
  BY DEF SecondReadDone, VerificationInv, VerificationPlain, Scans
<1>2. CASE scan.read # scan.first
  <2>1. WorldMoves
    BY <1>1, WorldStays
  <2> QED BY <1>1, <1>2, <2>1, NextSampleStep DEF SecondReadDone
<1>3. CASE scan.read = scan.first
  <2>1. /\ scan' = [scan EXCEPT !.pc = IF scan.pc = "evidence2" THEN "record" ELSE "certify"]
        /\ UNCHANGED ledger
    BY <1>3 DEF SecondReadDone
  <2>2. /\ scan' \in Scans /\ scan'.read = scan.read /\ scan'.tries = scan.tries
        /\ scan'.pc = IF scan.pc = "evidence2" THEN "record" ELSE "certify"
    BY <1>1, <2>1 DEF Scans
  <2>3. scan.read \in Trees
    BY <1>1, WholeIsTree DEF Whole
  <2>4. VerificationPlain' /\ Growing'
    BY <1>1, <2>1, <2>2 DEF VerificationInv, VerificationPlain, Growing
  <2>5. PlacesFit'
    <3>1. ledger.life # "permission" /\ ledger.certified = <<>>
      BY <1>1, IdleScans DEF VerificationInv, PlacesFit
    <3> QED BY <1>1, <2>1, <2>2, <2>3, <3>1 DEF VerificationInv, PlacesFit
  <2>6. scan.pc = "evidence2" => scan.read \in seen
    <3> SUFFICES ASSUME scan.pc = "evidence2" PROVE scan.read \in seen
      OBVIOUS
    <3>1. PICK s \in seen : \A f \in Tracked :
             scan.first[f] <= s[f] /\ (f \in DOMAIN scan.read => s[f] <= scan.read[f])
      BY DEF VerificationInv, Sampled
    <3>2. s \in Trees
      BY DEF VerificationInv, Growing
    <3>3. ASSUME NEW f \in Tracked PROVE s[f] = scan.read[f]
      <4>1. s[f] \in Nat /\ scan.read[f] \in Nat
        BY <2>3, <3>2, VerificationAssumption DEF Trees
      <4>2. scan.read[f] <= s[f] /\ s[f] <= scan.read[f]
        BY <1>1, <1>3, <3>1 DEF Whole
      <4> QED BY <4>1, <4>2
    <3>4. s = scan.read
      BY <2>3, <3>2, <3>3 DEF Trees
    <3> QED BY <3>4
  <2>7. Sampled'
    BY <1>1, <2>1, <2>2, <2>6 DEF VerificationInv, Sampled
  <2>8. ~steady' => Spoilt'
    BY <1>1, <2>1, <2>2 DEF VerificationInv, Spoilt
  <2>9. OwnDiffers' /\ NoUnverifiedEdit'
    BY <1>1, <2>1, <2>2 DEF VerificationInv, OwnDiffers, NoUnverifiedEdit
  <2> QED BY <1>1, <2>2, <2>4, <2>5, <2>7, <2>8, <2>9 DEF VerificationInv
<1> QED BY <1>2, <1>3

(* The comparison with the baseline ends the turn, or asks for a check. *)
LEMMA ChangedSteps ==
    ASSUME VerificationInv, CompleteUnchanged \/ NoPlan PROVE VerificationInv'
<1>1. /\ scan.pc = "changed" /\ Whole /\ UNCHANGED <<tree, edits, own, seen, steady>>
  BY DEF CompleteUnchanged, NoPlan
<1>2. WorldMoves
  BY <1>1, WorldStays
<1>3. CASE CompleteUnchanged
  <2>1. own \subseteq Skipped
    <3> SUFFICES ASSUME NEW f \in own \cap Tracked PROVE FALSE
      BY DEF VerificationInv, VerificationPlain
    <3>1. f \in Tracked /\ f \in DOMAIN scan.read /\ scan.read[f] > ledger.baseline[f]
      BY <1>1 DEF VerificationInv, VerificationPlain, OwnDiffers, Whole
    <3>2. scan.read[f] = ledger.baseline[f]
      BY <1>3, <3>1 DEF CompleteUnchanged, ChangedFiles
    <3>3. ledger.baseline[f] \in Nat
      BY <1>2, <3>1, WorldKeeps
    <3> QED BY <3>1, <3>2, <3>3
  <2> QED BY <1>1, <1>2, <1>3, <2>1, StopStep DEF CompleteUnchanged
<1>4. CASE NoPlan
  BY <1>1, <1>2, <1>4, StopStep DEF NoPlan
<1> QED BY <1>3, <1>4

(* The ledger and the coordinator go somewhere where there is no evidence yet, and the
   workspace stays. *)
LEMMA BeforeEvidence ==
    ASSUME VerificationInv, UNCHANGED <<tree, edits, own, seen, steady>>,
           ledger.evidence = <<>>, ledger.certified = <<>>,
           ledger' \in Ledgers, ledger'.life \in {"running", "permission", "denied"},
           UNCHANGED <<ledger.baseline, ledger.evidence, ledger.certified>>,
           scan' \in Scans, scan'.read = Nowhere, scan'.tries = 0,
           \/ scan'.pc = "run" /\ ledger'.life = "running"
           \/ scan' = Idle /\ ledger'.life # "running"
    PROVE  VerificationInv'
<1>1. Idle.pc = "none" /\ scan'.pc \in {"run", "none"}
  BY IdleScans
<1>2. VerificationPlain' /\ Growing'
  BY NowhereRead, VerificationAssumption DEF VerificationInv, VerificationPlain, Growing
<1>3. PlacesFit' /\ Sampled' /\ Spoilt'
  BY <1>1, IdleScans DEF VerificationInv, PlacesFit, Sampled, Spoilt
<1>4. OwnDiffers' /\ NoUnverifiedEdit'
  BY <1>1 DEF VerificationInv, OwnDiffers, NoUnverifiedEdit
<1> QED BY <1>1, <1>2, <1>3, <1>4 DEF VerificationInv

LEMMA BeginSteps ==
    ASSUME VerificationInv, BeginVerification \/ ResolveVerification PROVE VerificationInv'
<1>1. /\ UNCHANGED <<tree, edits, own, seen, steady>> /\ ledger \in Ledgers /\ ledger.evidence = <<>>
      /\ ledger.certified = <<>> /\ (ledger.life = "permission" => scan = Idle)
  BY DEF BeginVerification, ResolveVerification, VerificationInv, VerificationPlain, PlacesFit
<1>2. CASE StartCheck
  <2>1. /\ scan' \in Scans /\ scan'.pc = "run" /\ scan'.read = Nowhere /\ scan'.tries = 0
    BY <1>2, IdleScans DEF StartCheck, Scans
  <2>2. /\ ledger' \in Ledgers /\ ledger'.life = "running"
        /\ UNCHANGED <<ledger.baseline, ledger.evidence, ledger.certified>>
    <3> DEFINE l == [ledger EXCEPT !.life = "running"]
               m == [l EXCEPT !.epoch = ledger.epoch + 1]
    <3>1. ledger.epoch + 1 \in Nat /\ ledger.revision + 2 \in Nat
      BY <1>1 DEF Ledgers
    <3>2. l \in Ledgers /\ SameLedger(ledger, l) /\ l.life = "running"
      BY <1>1, LedgerFields
    <3>3. ledger' = [m EXCEPT !.revision = ledger.revision + 2]
      BY <1>2 DEF StartCheck
    <3> HIDE DEF l
    <3>4. m \in Ledgers /\ SameLedger(l, m) /\ m.life = "running"
      BY <3>1, <3>2, LedgerFields
    <3> HIDE DEF m
    <3>5. ledger' \in Ledgers /\ SameLedger(m, ledger') /\ ledger'.life = "running"
      BY <3>1, <3>3, <3>4, LedgerFields
    <3> QED BY <3>2, <3>4, <3>5 DEF SameLedger
  <2> QED BY <1>1, <2>1, <2>2, BeforeEvidence
<1>3. CASE /\ ledger' = [ledger EXCEPT !.life = "permission", !.revision = @ + 1]
           /\ scan' = Idle
  <2>1. /\ ledger' \in Ledgers /\ ledger'.life = "permission"
        /\ UNCHANGED <<ledger.baseline, ledger.evidence, ledger.certified>>
    <3> DEFINE l == [ledger EXCEPT !.life = "permission"]
    <3>1. ledger.revision + 1 \in Nat
      BY <1>1 DEF Ledgers
    <3>2. l \in Ledgers /\ SameLedger(ledger, l) /\ l.life = "permission"
      BY <1>1, LedgerFields
    <3>3. ledger' = [l EXCEPT !.revision = ledger.revision + 1]
      BY <1>3
    <3> HIDE DEF l
    <3>4. ledger' \in Ledgers /\ SameLedger(l, ledger') /\ ledger'.life = "permission"
      BY <3>1, <3>2, <3>3, LedgerFields
    <3> QED BY <3>2, <3>4 DEF SameLedger
  <2> QED BY <1>1, <1>3, <2>1, IdleScans, BeforeEvidence
<1>4. CASE /\ ledger' = [ledger EXCEPT !.life = "denied"] /\ scan' = Idle
  <2>1. /\ ledger' \in Ledgers /\ ledger'.life = "denied"
        /\ UNCHANGED <<ledger.baseline, ledger.evidence, ledger.certified>>
    BY <1>1, <1>4 DEF Ledgers
  <2> QED BY <1>1, <1>4, <2>1, IdleScans, BeforeEvidence
<1> QED BY <1>1, <1>2, <1>3, <1>4 DEF BeginVerification, ResolveVerification

(* The check ends, and what is seen from now on counts. *)
LEMMA CheckEndsStep == ASSUME VerificationInv, CheckEnds PROVE VerificationInv'
<1>1. PICK passed \in BOOLEAN : scan' = [scan EXCEPT !.pc = "evidence1", !.passed = passed]
  BY DEF CheckEnds
<1>2. /\ scan.pc = "run" /\ ledger.life = "running" /\ seen' = {tree} /\ steady' = TRUE
      /\ ledger' = [ledger EXCEPT !.revision = ledger.revision + 1]
      /\ UNCHANGED <<tree, edits, own>> /\ ledger \in Ledgers /\ scan \in Scans
      /\ ledger.evidence = <<>> /\ ledger.certified = <<>>
  BY DEF CheckEnds, VerificationInv, VerificationPlain, PlacesFit
<1>3. /\ scan' \in Scans /\ scan'.pc = "evidence1" /\ scan'.read = scan.read
      /\ scan'.tries = scan.tries
  BY <1>1, <1>2 DEF Scans, Scanning
<1>4. /\ ledger' \in Ledgers /\ ledger'.life = "running"
      /\ UNCHANGED <<ledger.baseline, ledger.evidence, ledger.certified>>
  <2>1. ledger.revision + 1 \in Nat
    BY <1>2 DEF Ledgers
  <2>2. ledger' \in Ledgers /\ SameLedger(ledger, ledger') /\ ledger'.life = ledger.life
    BY <1>2, <2>1, LedgerFields
  <2> QED BY <1>2, <2>2 DEF SameLedger
<1>5. \A f \in Tracked : tree[f] \in Nat
  BY VerificationAssumption DEF VerificationInv, VerificationPlain, Trees
<1>6. VerificationPlain' /\ Growing'
  BY <1>2, <1>3, <1>4, <1>5 DEF VerificationInv, VerificationPlain, Growing
<1>7. PlacesFit' /\ Sampled' /\ NoUnverifiedEdit' /\ OwnDiffers'
  BY <1>2, <1>3, <1>4 DEF VerificationInv, PlacesFit, Sampled, NoUnverifiedEdit, OwnDiffers
<1> QED BY <1>2, <1>3, <1>6, <1>7 DEF VerificationInv

(* The evidence is recorded, of a tree that was there. *)
LEMMA RecordEvidenceStep == ASSUME VerificationInv, RecordEvidence PROVE VerificationInv'
<1>1. /\ scan.pc = "record" /\ UNCHANGED <<tree, edits, own, seen, steady>> /\ ledger \in Ledgers
      /\ scan \in Scans /\ scan.read \in Trees /\ scan.read \in seen
      /\ ledger.evidence = <<>> /\ ledger.certified = <<>>
  BY DEF RecordEvidence, VerificationInv, VerificationPlain, PlacesFit, Sampled
<1>2. CASE ledger.life # "running"
  <2>1. Stop("interrupted") /\ WorldMoves
    BY <1>1, <1>2, WorldStays DEF RecordEvidence
  <2> QED BY <1>1, <2>1, StopStep
<1>3. CASE ledger.life = "running"
  <2> DEFINE e == [revision |-> ledger.revision, epoch |-> ledger.epoch,
                   passed |-> scan.passed, digest |-> scan.read]
             outcome == IF scan.passed THEN "running" ELSE "failed"
  <2>1. /\ ledger' = [ledger EXCEPT !.evidence = <<e>>, !.life = outcome]
        /\ scan' = IF scan.passed THEN [Idle EXCEPT !.pc = "certify1", !.passed = TRUE] ELSE Idle
    BY <1>3 DEF RecordEvidence
  <2>2. e \in Evidences /\ e.digest = scan.read
    <3>1. ledger.revision \in Nat /\ ledger.epoch \in Nat /\ scan.passed \in BOOLEAN
      BY <1>1 DEF Ledgers, Scans
    <3> QED BY <1>1, <3>1 DEF Evidences
  <2> HIDE DEF e
  <2>3. /\ ledger' \in Ledgers /\ ledger'.life = outcome /\ ledger'.evidence = <<e>>
        /\ UNCHANGED <<ledger.baseline, ledger.certified>>
    <3> DEFINE l == [ledger EXCEPT !.evidence = <<e>>]
    <3>1. /\ l \in Ledgers /\ l.evidence = <<e>> /\ l.baseline = ledger.baseline
          /\ l.certified = ledger.certified
      <4>1. <<e>> \in Seq(Evidences)
        BY <2>2
      <4> HIDE DEF outcome
      <4> QED BY <1>1, <4>1 DEF Ledgers
    <3>2. outcome \in {"running", "failed"}
      OBVIOUS
    <3>3. ledger' = [l EXCEPT !.life = outcome]
      BY <2>1
    <3> HIDE DEF l, outcome
    <3>4. ledger' \in Ledgers /\ SameLedger(l, ledger') /\ ledger'.life = outcome
      BY <3>1, <3>2, <3>3 DEF Ledgers, SameLedger
    <3> QED BY <3>1, <3>4 DEF SameLedger
  <2>4. /\ scan' \in Scans /\ scan'.read = Nowhere /\ scan'.tries = 0
        /\ scan.passed => scan'.pc = "certify1"
        /\ ~scan.passed => scan' = Idle
    <3>1. [Idle EXCEPT !.pc = "certify1"] \in Scans
      BY IdleScans DEF Scans, Scanning
    <3> QED BY <2>1, <3>1, IdleScans DEF Scans
  <2>5. /\ Len(ledger'.evidence) = 1 /\ DOMAIN ledger'.evidence = {1}
        /\ ledger'.evidence[1].digest = scan.read
    BY <2>2, <2>3
  <2>6. VerificationPlain' /\ Growing'
    BY <1>1, <2>3, <2>4, <2>5, NowhereRead, VerificationAssumption
       DEF VerificationInv, VerificationPlain, Growing
  <2>7. PlacesFit'
    BY <1>1, <2>3, <2>4, <2>5, IdleScans DEF PlacesFit
  <2>8. Sampled'
    BY <1>1, <2>4, <2>5, IdleScans DEF Sampled
  <2>9. ~steady' => Spoilt'
    BY <1>1, <2>4, <2>5, IdleScans DEF VerificationInv, Spoilt
  <2>10. OwnDiffers' /\ NoUnverifiedEdit'
    BY <1>1, <2>3, <2>4, IdleScans DEF VerificationInv, OwnDiffers, NoUnverifiedEdit
  <2>11. scan'.pc \notin {"evidence1", "evidence2"}
    BY <2>4, IdleScans
  <2> QED BY <2>6, <2>7, <2>8, <2>9, <2>10, <2>11 DEF VerificationInv
<1> QED BY <1>2, <1>3

(* The turn completes with evidence of what was just read, or stops. *)
LEMMA CompleteVerifiedStep == ASSUME VerificationInv, CompleteVerified PROVE VerificationInv'
<1>1. /\ scan.pc = "certify" /\ UNCHANGED <<tree, edits, own, seen, steady>> /\ ledger \in Ledgers
      /\ scan \in Scans /\ scan.read \in Trees /\ Len(ledger.evidence) = 1
      /\ ledger.certified = <<>>
  BY IdleScans DEF CompleteVerified, VerificationInv, VerificationPlain, PlacesFit
<1> DEFINE current == /\ ledger.life = "running"
                      /\ \E i \in DOMAIN ledger.evidence : CurrentEvidence(ledger.evidence[i])
<1>2. CASE ~current
  <2>1. Stop("interrupted") /\ WorldMoves
    BY <1>1, <1>2, WorldStays DEF CompleteVerified
  <2> QED BY <1>1, <2>1, StopStep
<1>3. CASE current
  <2>1. /\ ledger' = [ledger EXCEPT !.life = "completed", !.certified = <<scan.read>>]
        /\ scan' = Idle
    BY <1>3 DEF CompleteVerified
  <2>2. DOMAIN ledger.evidence = {1} /\ ledger.evidence[1].digest = scan.read
    <3>1. DOMAIN ledger.evidence = {1}
      <4>1. ledger.evidence \in Seq(Evidences)
        BY <1>1 DEF Ledgers
      <4> QED BY <1>1, <4>1
    <3> QED BY <1>3, <3>1 DEF CurrentEvidence
  <2>3. steady
    <3> SUFFICES ASSUME ~steady PROVE FALSE
      OBVIOUS
    <3>1. PICK f \in Tracked :
             IF f \in DOMAIN scan.read THEN scan.read[f] > ledger.evidence[1].digest[f]
                                       ELSE tree[f] > ledger.evidence[1].digest[f]
      BY <1>1 DEF VerificationInv, Spoilt
    <3>2. f \in DOMAIN scan.read /\ scan.read[f] \in Nat
      BY <1>1, VerificationAssumption DEF Trees
    <3> QED BY <2>2, <3>1, <3>2
  <2>4. /\ ledger' \in Ledgers /\ ledger'.life = "completed"
        /\ ledger'.certified = <<scan.read>>
        /\ UNCHANGED <<ledger.baseline, ledger.evidence>>
    <3>1. <<scan.read>> \in Seq(Trees)
      BY <1>1
    <3> DEFINE c == <<scan.read>>
    <3>2. c \in Seq(Trees) /\ c = <<scan.read>>
          /\ ledger' = [ledger EXCEPT !.life = "completed", !.certified = c]
      BY <2>1, <3>1
    <3> HIDE DEF c
    <3>3. /\ ledger' \in Ledgers /\ ledger'.life = "completed" /\ ledger'.certified = c
          /\ UNCHANGED <<ledger.baseline, ledger.evidence>>
      BY <1>1, <3>2 DEF Ledgers
    <3> QED BY <3>2, <3>3
  <2>5. /\ Len(ledger'.certified) = 1 /\ ledger'.certified[1] = scan.read
        /\ ledger'.certified # <<>>
    BY <2>4
  <2>6. VerificationPlain' /\ Growing'
    <3>1. /\ scan' \in Scans /\ scan'.tries = 0 /\ scan'.read = Nowhere
          /\ DOMAIN scan'.read = {} /\ 0 < MaxSamples
      BY <2>1, IdleScans, NowhereRead, VerificationAssumption
    <3>2. VerificationPlain'
      BY <1>1, <2>4, <2>5, <3>1 DEF VerificationInv, VerificationPlain
    <3>3. Growing'
      BY <1>1, <2>4, <3>1 DEF VerificationInv, Growing
    <3> QED BY <3>2, <3>3
  <2>7. PlacesFit'
    <3>1. scan'.pc = "none" /\ steady' /\ Len(ledger'.evidence) = 1
          /\ ledger'.evidence[1].digest = ledger'.certified[1]
      BY <1>1, <2>1, <2>2, <2>3, <2>4, <2>5, IdleScans
    <3> QED BY <2>4, <3>1 DEF PlacesFit, Scanning
  <2>8. Sampled' /\ Spoilt'
    BY <1>1, <2>1, <2>4, IdleScans DEF VerificationInv, Sampled, Spoilt
  <2>9. OwnDiffers' /\ NoUnverifiedEdit'
    BY <1>1, <2>1, <2>4, <2>5, IdleScans DEF VerificationInv, OwnDiffers, NoUnverifiedEdit
  <2> QED BY <2>1, <2>6, <2>7, <2>8, <2>9, IdleScans DEF VerificationInv
<1> QED BY <1>2, <1>3

(* Another process takes the turn from under whoever has it. *)
LEMMA RecoveredStep == ASSUME VerificationInv, Recovered PROVE VerificationInv'
<1>1. /\ ledger.life = "running" /\ UNCHANGED <<tree, edits, scan, own, seen, steady>>
      /\ ledger \in Ledgers
      /\ ledger' = [ledger EXCEPT !.life = "interrupted", !.revision = ledger.revision + 1]
  BY DEF Recovered, VerificationInv, VerificationPlain
<1>2. /\ ledger' \in Ledgers /\ ledger'.life = "interrupted"
      /\ UNCHANGED <<ledger.baseline, ledger.evidence, ledger.certified>>
  <2> DEFINE n == ledger.revision + 1
  <2>1. n \in Nat /\ ledger' = [ledger EXCEPT !.life = "interrupted", !.revision = n]
    BY <1>1 DEF Ledgers
  <2> HIDE DEF n
  <2> QED BY <1>1, <2>1 DEF Ledgers
<1>3. ledger.certified = <<>>
  BY <1>1 DEF VerificationInv, PlacesFit
<1>4. VerificationPlain' /\ Growing'
  BY <1>1, <1>2 DEF VerificationInv, VerificationPlain, Growing
<1>5. PlacesFit' /\ Sampled'
  BY <1>1, <1>2, <1>3 DEF VerificationInv, PlacesFit, Sampled
<1>6. ~steady' => Spoilt'
  BY <1>1, <1>2 DEF VerificationInv, Spoilt
<1>7. OwnDiffers' /\ NoUnverifiedEdit'
  BY <1>1, <1>2 DEF VerificationInv, OwnDiffers, NoUnverifiedEdit
<1> QED BY <1>1, <1>4, <1>5, <1>6, <1>7 DEF VerificationInv

LEMMA VerificationInitially == ASSUME VerificationInit PROVE VerificationInv
<1>1. /\ tree \in Trees /\ edits = 0 /\ own = {} /\ seen = {tree} /\ steady = TRUE
      /\ \A f \in Tracked : tree[f] = 0
  BY VerificationAssumption DEF VerificationInit, Trees
<1>2. /\ ledger.life = "running" /\ ledger.baseline = tree /\ ledger.evidence = <<>>
      /\ ledger.certified = <<>> /\ ledger \in Ledgers
  BY <1>1 DEF VerificationInit, Ledgers
<1>3. scan \in Scans /\ scan.pc = "tools" /\ scan.read = Nowhere /\ scan.tries = 0
  BY IdleScans DEF VerificationInit, Scans
<1>4. VerificationPlain /\ Growing
  BY <1>1, <1>2, <1>3, NowhereRead, VerificationAssumption
     DEF VerificationPlain, Growing
<1> QED BY <1>1, <1>2, <1>3, <1>4
        DEF VerificationInv, PlacesFit, Sampled, Spoilt, OwnDiffers, NoUnverifiedEdit

(* A turn of Verification completes on evidence only if every listed file it wrote was
   checked after its last write: the digest of the evidence is one tree that really was there
   after the command ended (EvidenceIsReal), nothing was written between the sample of the
   evidence and the sample of the completion (EvidenceIsCurrent), and a turn that
   completes without evidence wrote no file that the manifest lists (NoUnverifiedEdit). *)
THEOREM VerificationSafety == VerificationSpec => []VerificationCorrect
<1>1. VerificationInit => VerificationInv
  BY VerificationInitially
<1>2. VerificationInv /\ [VerificationNext]_verificationVars => VerificationInv'
  <2> SUFFICES ASSUME VerificationInv, [VerificationNext]_verificationVars
               PROVE  VerificationInv'
    OBVIOUS
  <2>1. CASE \E f \in Tracked : OutsideEdit(f) \/ ToolEdit(f) \/ ReadFile(f) \/ UnstableFile(f)
    BY <2>1, OutsideEditStep, ToolEditStep, ReadFileStep, UnstableFileStep
  <2>7. CASE \E f \in Skipped : SkippedEdit(f)
    BY <2>7, SkippedEditStep
  <2>2. CASE FinalText \/ FirstReadDone \/ SecondReadDone
    BY <2>2, FinalTextStep, FirstReadDoneStep, SecondReadDoneStep
  <2>3. CASE CompleteUnchanged \/ NoPlan
    BY <2>3, ChangedSteps
  <2>4. CASE BeginVerification \/ ResolveVerification \/ CheckEnds
    BY <2>4, BeginSteps, CheckEndsStep
  <2>5. CASE RecordEvidence \/ CompleteVerified \/ Recovered
    BY <2>5, RecordEvidenceStep, CompleteVerifiedStep, RecoveredStep
  <2>6. CASE UNCHANGED verificationVars
    BY <2>6 DEF verificationVars, VerificationInv, VerificationPlain, Growing, PlacesFit, Sampled,
                Spoilt, OwnDiffers, NoUnverifiedEdit
  <2> QED BY <2>1, <2>2, <2>3, <2>4, <2>5, <2>6, <2>7 DEF VerificationNext
<1>3. VerificationInv => VerificationCorrect
  <2> SUFFICES ASSUME VerificationInv PROVE VerificationCorrect
    OBVIOUS
  <2>1. VerificationTypeOK
    <3>1. \A i \in DOMAIN ledger.evidence : ledger.evidence[i] \in Evidences
      <4>1. ledger.evidence \in Seq(Evidences)
        BY DEF VerificationInv, VerificationPlain, Ledgers
      <4> QED BY <4>1
    <3> QED BY <3>1 DEF VerificationInv, VerificationPlain, VerificationTypeOK, PlacesFit, Ledgers
  <2>2. EvidenceIsCurrent
    <3> SUFFICES ASSUME NEW i \in DOMAIN ledger.certified
                 PROVE  steady /\ ledger.evidence[i].digest = ledger.certified[i]
      BY DEF EvidenceIsCurrent
    <3>1. ledger.certified \in Seq(Trees) /\ Len(ledger.certified) <= 1
      BY DEF VerificationInv, VerificationPlain, Ledgers
    <3>2. i = 1 /\ ledger.certified # <<>>
      BY <3>1
    <3> QED BY <3>2 DEF VerificationInv, PlacesFit
  <2> QED BY <2>1, <2>2
          DEF VerificationCorrect, EvidenceIsReal, VerificationInv, Sampled
<1> QED BY <1>1, <1>2, <1>3, PTL DEF VerificationSpec
=============================================================================
