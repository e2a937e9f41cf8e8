----------------------------- MODULE MCProgress -----------------------------
(***************************************************************************)
(* The components that wait for each other or for the world, for TLC: the  *)
(* event stream, the terminal UI's session, the server processes and the   *)
(* command line, the UI's controls, the process supervisor, the provider   *)
(* client and the conversation log.  They share no variable, so their      *)
(* interleavings would add nothing: in each behaviour one of them moves,   *)
(* which one is the choice of Init, and the others stay where they began.  *)
(***************************************************************************)
EXTENDS EventStream, TuiSession, ServerProcess, TuiControls,
        ProcessSupervisor, ProviderClient, ConversationLog, TLC

CONSTANTS s1, s2, w1, w2, v1, v2, text1, text2, args1, args2, call1, call2, d1, d2

VARIABLE focus

(* Two workspaces with a session each; a serve on a fixed port and one on a
   port that the system chooses. *)
MCHomeOf == (s1 :> w1) @@ (s2 :> w2)
MCPortOf == (v1 :> RemotePort) @@ (v2 :> 0)

(* The sessions and the drainers in pairs, to state the fairness of one of each
   at once. *)
Runners == {[session |-> s1, drainer |-> d1], [session |-> s2, drainer |-> d2]}

(* Streams of the provider: text; text and two calls whose pieces interleave,
   with something after the end mark; a call after the end mark; a call whose
   index is out of order; a call whose id changes. *)
TextDelta(p) == [kind |-> "text", index |-> 0, id |-> NoId, piece |-> p]
CallDelta(i, id, p) == [kind |-> "call", index |-> i, id |-> id, piece |-> p]
EndMark == [kind |-> "done", index |-> 0, id |-> NoId, piece |-> NoId]
MCStreams ==
    {<<TextDelta(text1), TextDelta(text2), EndMark>>,
     <<TextDelta(text1), CallDelta(1, call1, args1), CallDelta(2, call2, args1),
       CallDelta(1, NoId, args2), EndMark, TextDelta(text2)>>,
     <<TextDelta(text2), EndMark, CallDelta(1, call1, args1)>>,
     <<CallDelta(2, call1, args1), EndMark>>,
     <<CallDelta(1, call1, args1), CallDelta(1, call2, args2), EndMark>>}

progressVars == <<focus, eventVars, tuiVars, serveVars, controlsVars,
                  supervisorVars, providerVars, logVars>>

ProgressInit ==
    /\ focus \in {"events", "session", "serve", "controls", "process",
                  "provider", "log"}
    /\ EventInit /\ TuiInit /\ ServeInit /\ ControlsInit
    /\ SupervisorInit /\ ProviderInit /\ LogInit
    /\ focus # "serve" => latest = "none"
    /\ focus # "controls" => ~hosted["first"].exists

(* The components other than the chosen one. *)
Still ==
    /\ UNCHANGED focus
    /\ focus # "events" => UNCHANGED eventVars
    /\ focus # "session" => UNCHANGED tuiVars
    /\ focus # "serve" => UNCHANGED serveVars
    /\ focus # "controls" => UNCHANGED controlsVars
    /\ focus # "process" => UNCHANGED supervisorVars
    /\ focus # "provider" => UNCHANGED providerVars
    /\ focus # "log" => UNCHANGED logVars

ProgressNext ==
    /\ \/ focus = "events" /\ EventNext
       \/ focus = "session" /\ TuiNext
       \/ focus = "serve" /\ ServeNext
       \/ focus = "controls" /\ ControlsNext
       \/ focus = "process" /\ SupervisorNext
       \/ focus = "provider" /\ ProviderNext
       \/ focus = "log" /\ LogNext
    /\ Still

(* What the scheduling of the chosen component grants (FairEvents, FairTui,
   ServeFairness, ControlsFairness, FairSupervisor, FairProvider, FairLog;
   of FairEvents only the sweep and the bridge that the
   watched session needs).  One formula
   serves a step of several of them, since only one moves. *)
FairStep(events, session, serve, controls, process_, provider) ==
    /\ \/ focus = "events" /\ events
       \/ focus = "session" /\ session
       \/ focus = "serve" /\ serve
       \/ focus = "controls" /\ controls
       \/ focus = "process" /\ process_
       \/ focus = "provider" /\ provider
    /\ Still

ProgressFairness ==
    /\ WF_progressVars(FairStep(ObserverStep, UiLoop, ClientStep, Wakes, Supervise, Drive))
    /\ WF_progressVars(FairStep(Sweep(HomeOf[Watched]), \E r \in requests : Serve(r),
                                AcceptTurn, \E r \in asked : ServeAsked(r), Die, GiveUp))
    /\ WF_progressVars(FairStep(Bridge(HomeOf[Watched]), TurnEnds, TurnSettles,
                                \E a \in told : Hears(a), FALSE, Elapse))
    /\ WF_progressVars(FairStep(FALSE, FALSE, Drained, FALSE, FALSE, FALSE))
    /\ \A r \in Runners :
           /\ WF_progressVars(Still /\ \/ focus = "events" /\ Announce(r.session)
                                       \/ focus = "log" /\ Drain(r.drainer))
           /\ SF_progressVars(focus = "log" /\ Lock(r.drainer) /\ Still)

ProgressSpec == ProgressInit /\ [][ProgressNext]_progressVars /\ ProgressFairness

(* Nothing waits for ever: ObserverFinishes, SettledSubmissionUnlocks,
   CommandEnds, SwitchLockEnds, SupervisionEnds, CallReturns and
   CardsReachDiskOrRefused, each of the component that moves. *)
EveryWaitEnds ==
    (\/ focus = "events" /\ OverButObserved
     \/ focus = "session" /\ SubmissionIsSettled
     \/ focus = "serve" /\ CommandMustEnd
     \/ focus = "controls" /\ SwitchLocks
     \/ focus = "process" /\ stage = "spawn"
     \/ focus = "provider" /\ call.stage # "done"
     \/ focus = "log" /\ ~OnDisk)
    ~> (\/ focus = "events" /\ (observer \in Finished \/ Watched \in unheard)
        \/ focus = "session" /\ ComposerIsFree
        \/ focus = "serve" /\ cli.at = "gone"
        \/ focus = "controls" /\ (~SwitchLocks \/ used.rivals > 0 \/ TakenAway(panel.lock.chat))
        \/ focus = "process" /\ stage = "end"
        \/ focus = "provider" /\ call.stage = "done"
        \/ focus = "log" /\ (OnDisk \/ RefusedForGood))
=============================================================================
