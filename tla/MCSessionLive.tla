--------------------------- MODULE MCSessionLive ---------------------------
(***************************************************************************)
(* What a session owes its users in the end, for TLC: its turns come to    *)
(* rest (SessionRuntime) and the prompts accepted into its mailbox are run *)
(* (SessionMailbox, which has a ledger of its own, reduced to what the     *)
(* mailbox reads of it).  In each behaviour one of the two moves, which    *)
(* one is the choice of Init.                                              *)
(***************************************************************************)
EXTENDS SessionRuntime, SequencesExt

CONSTANTS Tasks, Prompts, Capacity, MaxMailRevision, Faults

VARIABLES mLife, mRev, mOwner, mOpen, mQueue, mTask, mAsked, mAccepted, mRan,
          mDiscarded, mDisturbed,
          focus

mailVars == <<mLife, mRev, mOwner, mOpen, mQueue, mTask, mAsked, mAccepted,
              mRan, mDiscarded, mDisturbed>>
liveVars == <<focus, allVars, mailVars>>

Mailbox == INSTANCE SessionMailbox
             WITH life <- mLife, rev <- mRev, owner <- mOwner, open <- mOpen,
                  queue <- mQueue, task <- mTask, asked <- mAsked,
                  accepted <- mAccepted, ran <- mRan, discarded <- mDiscarded,
                  disturbed <- mDisturbed, MaxRevision <- MaxMailRevision

LiveInit ==
    /\ focus \in {"turns", "mailbox"}
    /\ RuntimeInit
    /\ Mailbox!MailboxInit

TurnsMove(step) == focus = "turns" /\ step /\ UNCHANGED <<mailVars, focus>>
MailMoves(step) == focus = "mailbox" /\ step /\ UNCHANGED <<allVars, focus>>

LiveNext == TurnsMove(RuntimeNext) \/ MailMoves(Mailbox!MailboxNext)

(* FairRuntime and FairMailbox. *)
LiveFairness ==
    /\ \A c \in Coords : WF_liveVars(TurnsMove(Step(c)))
    /\ \A e \in Effects : WF_liveVars(TurnsMove(ExecutorEnds(e)))
    /\ WF_liveVars(TurnsMove(TimeoutOfDeadOwner))
    /\ WF_liveVars(TurnsMove(Sweep))
    /\ \A c \in Tasks :
           WF_liveVars(MailMoves(Mailbox!Progress(c) /\ UNCHANGED mDisturbed))

LiveSpec == LiveInit /\ [][LiveNext]_liveVars /\ LiveFairness

(* The invariants of the mailbox (MailboxCorrect). *)
MailboxIsCorrect == Mailbox!MailboxCorrect

(* Every accepted prompt is run or discarded in the end, unless the session
   waits for the user (AcceptedPromptsRun of the mailbox). *)
PromptsRunInTheEnd == Mailbox!AcceptedPromptsRun
=============================================================================
