-------------------------- MODULE ContentionProofs --------------------------
(***************************************************************************)
(* Proofs about the components where calls, processes or handlers contend  *)
(* for the same rows or files, in the order of the sections below.         *)
(*                                                                         *)
(* The follow-up mailbox: the order in which its prompts are run, whatever *)
(* goes wrong, rests on OrderInv: the prompts that were run, the prompt in *)
(* the hands of the drain that may still run it, and the queue follow one  *)
(* another in the order of acceptance.  A stale drain may hold a prompt    *)
(* out of order, but the revision of its snapshot keeps it from running    *)
(* it, so the order is only promised for the drain at the revision of the  *)
(* session, and two drains never have the same revision.  That nothing is  *)
(* lost rests on DutyInv: at most one call at a time is responsible for    *)
(* the session, and the lifecycle says which.                              *)
(*                                                                         *)
(* The reminder: OnePlace, NewestWaits.  As long as no two calls hold one, *)
(* what waits in the slot is the newest that was armed.                    *)
(*                                                                         *)
(* The commands of the HTTP service: ServiceInv.  Whoever remembers a      *)
(* command - a slot of the ledger, an acceptance, an answer, a turn -      *)
(* agrees with its durable record, which never changes once accepted.      *)
(*                                                                         *)
(* The file tools: FileInv.  In the window between the freshness check and *)
(* the rename, the file has the content compared or one written since.     *)
(*                                                                         *)
(* The session catalogue: CatalogInv.  Nothing a listing got lies below    *)
(* its cursor, and commits only move a row up, because the order of the    *)
(* keys is total and the cursor is the key of the last row returned.       *)
(*                                                                         *)
(* The direct turns: DirectInv.  As long as the lease of an execution is   *)
(* in force nothing was started after it, and every effect is carried out  *)
(* once and with the binding it has.                                       *)
(*                                                                         *)
(* The last section carries the theorems over to the specification that    *)
(* composes these components for TLC.                                      *)
(***************************************************************************)
EXTENDS MCContention, SequenceTheorems, FiniteSetTheorems, TLAPS

-----------------------------------------------------------------------------
(* Types *)

(* What ToSet collects is what the indices name. *)
LEMMA InSequence ==
    ASSUME NEW S, NEW s \in Seq(S), NEW x
    PROVE  x \in ToSet(s) <=> \E i \in 1 .. Len(s) : s[i] = x
BY DEF ToSet

(* The idle task is a task. *)
LEMMA IdleTyped == IdleTask \in Task
BY MailboxAssumption DEF IdleTask, Task, PC

(* The types of the sequences, and of everything else. *)
Sequenced ==
    /\ queue \in Seq(Prompts)
    /\ Len(queue) <= Capacity
    /\ accepted \in Seq(Prompts)
    /\ ran \in Seq(Prompts)

Plain ==
    /\ life \in {"absent", "ready", "running", "waiting", "failed",
                 "reconciliation"}
    /\ rev \in Nat
    /\ owner \in Tasks \cup {None}
    /\ open \in BOOLEAN
    /\ task \in [Tasks -> Task]
    /\ asked \in [Prompts -> {"new", "checked", "refused", "accepted"}]
    /\ discarded \subseteq Prompts
    /\ disturbed \in BOOLEAN

(* The two make up the type invariant. *)
LEMMA TypesTogether == MailboxTypeOK <=> Sequenced /\ Plain
BY DEF MailboxTypeOK, Sequenced, Plain

(* Initially every variable has its type. *)
LEMMA TypesInit == MailboxInit => MailboxTypeOK
<1> SUFFICES ASSUME MailboxInit PROVE MailboxTypeOK
  OBVIOUS
<1> USE DEF MailboxInit
<1>1. queue \in Seq(Prompts) /\ accepted \in Seq(Prompts) /\ ran \in Seq(Prompts)
  OBVIOUS
<1>2. Len(queue) <= Capacity
  BY MailboxAssumption
<1>3. task \in [Tasks -> Task]
  BY IdleTyped
<1>4. open \in BOOLEAN /\ disturbed \in BOOLEAN
  OBVIOUS
<1>5. asked \in [Prompts -> {"new", "checked", "refused", "accepted"}]
  OBVIOUS
<1> QED BY <1>1, <1>2, <1>3, <1>4, <1>5 DEF MailboxTypeOK

(* The steps that queue a prompt keep the types. *)
LEMMA TypesQueue ==
    ASSUME Sequenced, Plain, UNCHANGED disturbed, NEW p \in Prompts,
           QueueCheck(p) \/ QueuePush(p)
    PROVE  Sequenced' /\ Plain'
<1>1. CASE QueueCheck(p)
  <2>1. Sequenced'
    BY <1>1 DEF Sequenced, QueueCheck
  <2>2. Plain'
    BY <1>1 DEF Plain, QueueCheck, session
  <2> QED BY <2>1, <2>2
<1>2. CASE QueuePush(p)
  <2>0. /\ Append(accepted, p) \in Seq(Prompts)
        /\ Append(queue, p) \in Seq(Prompts)
        /\ Len(queue) < Capacity => Len(Append(queue, p)) <= Capacity
    BY MailboxAssumption DEF Sequenced
  <2>1. Sequenced'
    BY <1>2, <2>0, MailboxAssumption DEF Sequenced, QueuePush
  <2>2. Plain'
    BY <1>2 DEF Plain, QueuePush, session
  <2> QED BY <2>1, <2>2
<1> QED BY <1>1, <1>2

(* The steps of a call on the way to its turn and through it keep the types. *)
LEMMA TypesTurn ==
    ASSUME Sequenced, Plain, UNCHANGED disturbed, NEW c \in Tasks,
           \/ BeginRunner(c) \/ CreateTurn(c) \/ CreateRefused(c)
           \/ EndTurn(c) \/ Dropped(c)
    PROVE  Sequenced' /\ Plain'
<1> USE IdleTyped DEF At, Set, Err, RemoveEntry, session, intake
<1>0. IdleTask \in Task /\ task[c] \in Task /\ rev \in Nat
  BY DEF Plain
<1>1. CASE BeginRunner(c)
  <2>1. [IdleTask EXCEPT !.pc = "begun", !.guard = "open", !.rv = rev] \in Task
    BY <1>0 DEF Task, PC
  <2>2. Sequenced'
    BY <1>1, <2>1, MailboxAssumption DEF Sequenced, BeginRunner
  <2>3. Plain'
    BY <1>1, <2>1, MailboxAssumption DEF Plain, BeginRunner
  <2> QED BY <2>2, <2>3
<1>2. CASE CreateTurn(c)
  <2>1. [task[c] EXCEPT !.pc = "turn", !.p = None] \in Task
    BY <1>0 DEF Task, PC
  <2>2. task[c].p = None \/ task[c].p \in Prompts
    BY <1>0 DEF Task
  <2>3. ran' \in Seq(Prompts)
    BY <1>2, <2>2 DEF CreateTurn, Sequenced
  <2>4. Sequenced'
    BY <1>2, <2>1, <2>3 DEF Sequenced, CreateTurn
  <2>5. Plain'
    BY <1>2, <2>1, <2>3 DEF Plain, CreateTurn
  <2> QED BY <2>4, <2>5
<1>3. CASE CreateRefused(c)
  <2>1. [task[c] EXCEPT !.pc = "dropping"] \in Task
    BY <1>0 DEF Task, PC
  <2>2. Sequenced'
    BY <1>3, <2>1 DEF Sequenced, CreateRefused
  <2>3. Plain'
    BY <1>3, <2>1 DEF Plain, CreateRefused
  <2> QED BY <2>2, <2>3
<1>4. CASE EndTurn(c)
  <2>1. [task[c] EXCEPT !.pc = "dropping"] \in Task
    BY <1>0 DEF Task, PC
  <2>2. ASSUME NEW l \in {"ready", "failed", "waiting", "reconciliation"}
        PROVE  [task[c] EXCEPT !.pc = "drain", !.seen = l, !.rv = rev + 1] \in Task
    <3>1. rev + 1 \in Nat
      BY <1>0
    <3> QED BY <1>0, <3>1 DEF Task, PC
  <2>3. Sequenced'
    BY <1>4, <2>1, <2>2 DEF Sequenced, EndTurn
  <2>4. Plain'
    <3>1. PICK l \in {"ready", "failed", "waiting", "reconciliation"} :
             /\ life' = l
             /\ rev' = rev + 1
             /\ owner' = None
             /\ \/ Set(c, [task[c] EXCEPT !.pc = "drain", !.seen = l,
                                          !.rv = rev + 1])
                \/ Err(c)
      BY <1>4 DEF EndTurn
    <3>2. task' \in [Tasks -> Task]
      BY <3>1, <2>1, <2>2 DEF Plain
    <3> QED BY <1>4, <3>1, <3>2 DEF Plain, EndTurn
  <2> QED BY <2>3, <2>4
<1>5. CASE Dropped(c)
  <2>0. /\ queue' = queue \/ queue' = <<>>
        /\ accepted' = accepted /\ ran' = ran
    BY <1>5 DEF Dropped
  <2>1. Sequenced'
    <3>1. CASE queue' = queue
      BY <2>0, <3>1 DEF Sequenced
    <3>2. CASE queue' = <<>>
      BY <2>0, <3>2, MailboxAssumption DEF Sequenced
    <3> QED BY <2>0, <3>1, <3>2
  <2>2. Plain'
    BY <1>5, MailboxAssumption DEF Plain, Dropped
  <2> QED BY <2>1, <2>2
<1> QED BY <1>1, <1>2, <1>3, <1>4, <1>5

(* The steps that settle a wait keep the types. *)
LEMMA TypesAnswer ==
    ASSUME Sequenced, Plain, UNCHANGED disturbed, NEW c \in Tasks,
           \/ LoadWaiting(c) \/ EnsureRunner(c) \/ AcquireRefused(c)
           \/ ResumeTurn(c) \/ ResumeRefused(c) \/ Terminate(c) \/ Evict(c)
    PROVE  Sequenced' /\ Plain'
<1> USE IdleTyped DEF At, Set, Err, RemoveEntry, session, intake
<1>0. IdleTask \in Task /\ task[c] \in Task /\ rev \in Nat
  BY DEF Plain
<1>1. CASE LoadWaiting(c)
  <2>1. [IdleTask EXCEPT !.pc = "loaded", !.rv = rev] \in Task
    BY <1>0 DEF Task, PC
  <2>2. Sequenced'
    BY <1>1, <2>1 DEF Sequenced, LoadWaiting
  <2>3. Plain'
    BY <1>1, <2>1 DEF Plain, LoadWaiting
  <2> QED BY <2>2, <2>3
<1>2. CASE EnsureRunner(c)
  <2>1. [task[c] EXCEPT !.pc = "leased", !.guard = "open", !.resume = TRUE] \in Task
    BY <1>0 DEF Task, PC
  <2>2. Sequenced'
    BY <1>2, <2>1 DEF Sequenced, EnsureRunner
  <2>3. Plain'
    BY <1>2, <2>1 DEF Plain, EnsureRunner
  <2> QED BY <2>2, <2>3
<1>3. CASE AcquireRefused(c)
  <2>1. Sequenced'
    BY <1>3 DEF Sequenced, AcquireRefused
  <2>2. Plain'
    BY <1>3 DEF Plain, AcquireRefused
  <2> QED BY <2>1, <2>2
<1>4. CASE ResumeTurn(c)
  <2>1. [task[c] EXCEPT !.pc = "turn"] \in Task
    BY <1>0 DEF Task, PC
  <2>2. [task[c] EXCEPT !.pc = "drain", !.seen = "ready", !.rv = rev + 1] \in Task
    <3>1. rev + 1 \in Nat
      BY <1>0
    <3> QED BY <1>0, <3>1 DEF Task, PC
  <2>3. Sequenced'
    BY <1>4, <2>1, <2>2 DEF Sequenced, ResumeTurn
  <2>4. Plain'
    BY <1>4, <2>1, <2>2 DEF Plain, ResumeTurn
  <2> QED BY <2>3, <2>4
<1>5. CASE ResumeRefused(c)
  <2>1. [task[c] EXCEPT !.pc = "dropping"] \in Task
    BY <1>0 DEF Task, PC
  <2>2. Sequenced'
    BY <1>5, <2>1 DEF Sequenced, ResumeRefused
  <2>3. Plain'
    BY <1>5, <2>1 DEF Plain, ResumeRefused
  <2> QED BY <2>2, <2>3
<1>6. CASE Terminate(c)
  <2>1. [IdleTask EXCEPT !.pc = "evicting"] \in Task
    BY <1>0 DEF Task, PC
  <2>2. Sequenced'
    BY <1>6, <2>1 DEF Sequenced, Terminate
  <2>3. Plain'
    BY <1>6, <2>1 DEF Plain, Terminate
  <2> QED BY <2>2, <2>3
<1>7. CASE Evict(c)
  <2>1. Sequenced'
    BY <1>7, InSequence, MailboxAssumption DEF Sequenced, Evict
  <2>0. ToSet(queue) \subseteq Prompts
    BY InSequence DEF Sequenced
  <2>2. Plain'
    BY <1>7, <2>0 DEF Plain, Evict
  <2> QED BY <2>1, <2>2
<1> QED BY <1>1, <1>2, <1>3, <1>4, <1>5, <1>6, <1>7

(* The steps of the drain keep the types. *)
LEMMA TypesDrain ==
    ASSUME Sequenced, Plain, UNCHANGED disturbed, NEW c \in Tasks,
           \/ DrainParked(c) \/ DrainPop(c) \/ DrainDone(c)
           \/ DrainMissing(c) \/ DrainTerminal(c)
    PROVE  Sequenced' /\ Plain'
<1> USE IdleTyped DEF At, Set, RemoveEntry, session, intake
<1>0. IdleTask \in Task /\ task[c] \in Task /\ rev \in Nat
  BY DEF Plain
<1>1. CASE DrainParked(c)
  <2>1. Sequenced'
    BY <1>1 DEF Sequenced, DrainParked
  <2>2. Plain'
    BY <1>1 DEF Plain, DrainParked
  <2> QED BY <2>1, <2>2
<1>2. CASE DrainPop(c)
  <2>1. Head(queue) \in Prompts /\ Tail(queue) \in Seq(Prompts)
        /\ Len(Tail(queue)) <= Capacity
    BY <1>2, MailboxAssumption DEF DrainPop, Sequenced
  <2>2. [task[c] EXCEPT !.pc = "popped", !.p = Head(queue), !.resume = FALSE] \in Task
    BY <1>0, <2>1 DEF Task, PC
  <2>3. Sequenced'
    BY <1>2, <2>1, <2>2 DEF Sequenced, DrainPop
  <2>4. Plain'
    BY <1>2, <2>1, <2>2 DEF Plain, DrainPop
  <2> QED BY <2>3, <2>4
<1>3. CASE DrainDone(c)
  <2>1. Sequenced'
    BY <1>3, MailboxAssumption DEF Sequenced, DrainDone
  <2>2. Plain'
    BY <1>3, MailboxAssumption DEF Plain, DrainDone
  <2> QED BY <2>1, <2>2
<1>4. CASE DrainMissing(c)
  <2>1. [task[c] EXCEPT !.pc = "dropping", !.resume = FALSE] \in Task
    BY <1>0 DEF Task, PC
  <2>2. Sequenced'
    BY <1>4, <2>1 DEF Sequenced, DrainMissing
  <2>3. Plain'
    BY <1>4, <2>1 DEF Plain, DrainMissing
  <2> QED BY <2>2, <2>3
<1>5. CASE DrainTerminal(c)
  <2>1. Sequenced'
    BY <1>5, InSequence, MailboxAssumption DEF Sequenced, DrainTerminal
  <2>0. ToSet(queue) \subseteq Prompts
    BY InSequence DEF Sequenced
  <2>2. Plain'
    BY <1>5, <2>0 DEF Plain, DrainTerminal
  <2> QED BY <2>1, <2>2
<1> QED BY <1>1, <1>2, <1>3, <1>4, <1>5

(* The switch of the model keeps the types. *)
LEMMA TypesSwitch ==
    ASSUME Sequenced, Plain, UNCHANGED disturbed, SwitchModel
    PROVE  Sequenced' /\ Plain'
<1>1. Sequenced'
  BY DEF SwitchModel, Sequenced, intake
<1>2. Plain'
  BY DEF SwitchModel, Plain, intake
<1> QED BY <1>1, <1>2

(* Every step keeps the types. *)
LEMMA TypesNext ==
    ASSUME MailboxTypeOK, [MailboxNext]_mailboxVars
    PROVE  MailboxTypeOK'
<1> SUFFICES Sequenced' /\ Plain'
  BY TypesTogether DEF MailboxTypeOK, Sequenced, Plain
<1>0. Sequenced /\ Plain
  BY TypesTogether
<1>1. CASE UNCHANGED mailboxVars
  BY <1>0, <1>1 DEF mailboxVars, session, intake, Sequenced, Plain
<1>2. CASE MailboxNext
  BY <1>0, <1>2, TypesQueue, TypesTurn, TypesAnswer, TypesDrain, TypesSwitch
     DEF MailboxNext, Progress
<1> QED BY <1>1, <1>2

-----------------------------------------------------------------------------
(* Order *)

(* p was accepted before q. *)
Before(p, q) ==
    \E m, n \in 1 .. Len(accepted) : m < n /\ accepted[m] = p /\ accepted[n] = q

(* Only a call that has popped a prompt, or has failed since, holds one. *)
HandsAreFull ==
    \A c \in Tasks :
        /\ task[c].p # None => task[c].pc \in {"popped", "dropping"}
        /\ task[c].pc = "popped" => task[c].p \in ToSet(accepted)

(* The queue and the turns come from the prompts that were accepted. *)
AllAccepted ==
    /\ \A j \in 1 .. Len(queue) : queue[j] \in ToSet(accepted)
    /\ \A i \in 1 .. Len(ran) : ran[i] \in ToSet(accepted)

(* No snapshot is ahead of the session, and no two drains have the same one. *)
DrainsDiffer ==
    /\ \A c \in Tasks : task[c].rv <= rev
    /\ \A c, d \in Tasks :
          /\ task[c].pc \in {"drain", "popped"}
          /\ task[d].pc \in {"drain", "popped"}
          /\ task[c].rv = task[d].rv
          => c = d

QueueInOrder ==
    \A i, j \in 1 .. Len(queue) : i < j => Before(queue[i], queue[j])

HandBeforeQueue ==
    \A c \in Tasks, j \in 1 .. Len(queue) :
        task[c].pc = "popped" => Before(task[c].p, queue[j])

RanBeforeQueue ==
    \A i \in 1 .. Len(ran), j \in 1 .. Len(queue) : Before(ran[i], queue[j])

RanBeforeHand ==
    \A i \in 1 .. Len(ran), c \in Tasks :
        task[c].pc = "popped" /\ task[c].rv = rev => Before(ran[i], task[c].p)

RanInOrder ==
    \A i, j \in 1 .. Len(ran) : i < j => Before(ran[i], ran[j])

OrderInv ==
    /\ HandsAreFull /\ AllAccepted /\ DrainsDiffer
    /\ QueueInOrder /\ HandBeforeQueue /\ RanBeforeQueue
    /\ RanBeforeHand /\ RanInOrder

(* Initially there is nothing to put in order. *)
LEMMA OrderInit == MailboxInit => OrderInv
BY DEF MailboxInit, OrderInv, HandsAreFull, AllAccepted, DrainsDiffer,
       QueueInOrder, HandBeforeQueue, RanBeforeQueue, RanBeforeHand,
       RanInOrder, IdleTask

(* A call that takes nothing from the queue, may empty it, and has taken no
   snapshot of a turn but of the one it just ended, leaves the order alone. *)
LEMMA OrderQuiet ==
    ASSUME Sequenced, Plain, OrderInv, NEW c \in Tasks, NEW r \in Task,
           task' = [task EXCEPT ![c] = r],
           accepted' = accepted, ran' = ran,
           queue' = queue \/ queue' = <<>>,
           rev' = rev \/ rev' = rev + 1,
           r.pc # "popped",
           r.p # None => r.pc = "dropping",
           r.rv <= rev',
           r.pc = "drain" => rev' = rev + 1 /\ r.rv = rev'
    PROVE  OrderInv'
<1>1. /\ task'[c] = r
      /\ \A d \in Tasks : d # c => task'[d] = task[d]
  BY DEF Plain
<1>2. \A d \in Tasks : task'[d].pc = "popped" => task'[d] = task[d]
  BY <1>1
<1>3. \/ Len(queue') = Len(queue) /\ queue' = queue
      \/ Len(queue') = 0
  OBVIOUS
<1>4. rev \in Nat /\ \A d \in Tasks : task[d].rv \in Nat /\ task[d].rv <= rev
  BY DEF Plain, Task, OrderInv, DrainsDiffer
<1>5. ASSUME NEW p, NEW q PROVE Before(p, q)' <=> Before(p, q)
  BY DEF Before
<1>6. HandsAreFull'
  BY <1>1 DEF OrderInv, HandsAreFull
<1>7. AllAccepted'
  BY <1>3 DEF OrderInv, AllAccepted
<1>8. DrainsDiffer'
  <2>1. \A d \in Tasks : task'[d].rv <= rev'
    BY <1>1, <1>4
  <2>2. ASSUME NEW d \in Tasks, NEW e \in Tasks,
               task'[d].pc \in {"drain", "popped"},
               task'[e].pc \in {"drain", "popped"},
               task'[d].rv = task'[e].rv
        PROVE  d = e
    BY <1>1, <1>4, <2>2 DEF OrderInv, DrainsDiffer
  <2> QED BY <2>1, <2>2 DEF DrainsDiffer
<1>9. QueueInOrder'
  BY <1>3, <1>5 DEF OrderInv, QueueInOrder
<1>10. HandBeforeQueue'
  BY <1>2, <1>3, <1>5 DEF OrderInv, HandBeforeQueue
<1>11. RanBeforeQueue'
  BY <1>3, <1>5 DEF OrderInv, RanBeforeQueue
<1>12. RanBeforeHand'
  BY <1>2, <1>4, <1>5 DEF OrderInv, RanBeforeHand
<1>13. RanInOrder'
  BY <1>5 DEF OrderInv, RanInOrder
<1> QED BY <1>6, <1>7, <1>8, <1>9, <1>10, <1>11, <1>12, <1>13 DEF OrderInv

(* Acceptance is the end of the order: what was before stays before, and every
   prompt accepted so far is before the new one. *)
LEMMA AcceptedLast ==
    ASSUME Sequenced, NEW p \in Prompts, accepted' = Append(accepted, p)
    PROVE  /\ \A a, b : Before(a, b) => Before(a, b)'
           /\ \A a \in ToSet(accepted) : Before(a, p)'
           /\ ToSet(accepted) \subseteq ToSet(accepted)'
           /\ p \in ToSet(accepted)'
<1>1. /\ Len(accepted') = Len(accepted) + 1 /\ Len(accepted) \in Nat
      /\ accepted'[Len(accepted) + 1] = p
      /\ \A m \in 1 .. Len(accepted) : accepted'[m] = accepted[m]
      /\ accepted' \in Seq(Prompts)
  BY DEF Sequenced
<1>2. 1 .. Len(accepted) \subseteq 1 .. Len(accepted')
      /\ Len(accepted) + 1 \in 1 .. Len(accepted')
  BY <1>1
<1>3. ASSUME NEW a, NEW b, Before(a, b) PROVE Before(a, b)'
  BY <1>1, <1>2, <1>3 DEF Before
<1>4. ASSUME NEW a \in ToSet(accepted) PROVE Before(a, p)'
  <2>1. PICK m \in 1 .. Len(accepted) : accepted[m] = a
    BY InSequence DEF Sequenced
  <2> QED BY <1>1, <1>2, <2>1 DEF Before
<1>5. ASSUME NEW x \in ToSet(accepted) PROVE x \in ToSet(accepted')
  <2>1. PICK m \in 1 .. Len(accepted) : accepted[m] = x
    BY InSequence DEF Sequenced
  <2>2. m \in 1 .. Len(accepted') /\ accepted'[m] = x
    BY <1>1, <1>2, <2>1
  <2> QED BY <1>1, <2>2, InSequence
<1>6. p \in ToSet(accepted')
  BY <1>1, <1>2, InSequence
<1> QED BY <1>3, <1>4, <1>5, <1>6

(* A prompt that is accepted goes behind all the others. *)
LEMMA OrderPush ==
    ASSUME Sequenced, Plain, OrderInv, NEW p \in Prompts,
           accepted' = Append(accepted, p), queue' = Append(queue, p),
           UNCHANGED <<rev, task, ran>>
    PROVE  OrderInv'
<1>1. /\ Len(queue') = Len(queue) + 1 /\ Len(queue) \in Nat
      /\ queue'[Len(queue) + 1] = p
      /\ \A j \in 1 .. Len(queue) : queue'[j] = queue[j]
  BY DEF Sequenced
<1>2. \A j \in 1 .. Len(queue') :
          j \in 1 .. Len(queue) \/ j = Len(queue) + 1
  BY <1>1
<1>3. HandsAreFull'
  BY AcceptedLast DEF OrderInv, HandsAreFull
<1>4. AllAccepted'
  <2>1. ASSUME NEW j \in 1 .. Len(queue')
        PROVE  queue'[j] \in ToSet(accepted)'
    <3>1. CASE j \in 1 .. Len(queue)
      BY <1>1, <3>1, AcceptedLast DEF OrderInv, AllAccepted
    <3>2. CASE j = Len(queue) + 1
      BY <1>1, <3>2, AcceptedLast
    <3> QED BY <1>2, <3>1, <3>2
  <2>2. \A i \in 1 .. Len(ran) : ran[i] \in ToSet(accepted)'
    BY AcceptedLast DEF OrderInv, AllAccepted
  <2> QED BY <2>1, <2>2 DEF AllAccepted
<1>5. DrainsDiffer'
  BY DEF OrderInv, DrainsDiffer
<1>6. QueueInOrder'
  <2> SUFFICES ASSUME NEW i \in 1 .. Len(queue'), NEW j \in 1 .. Len(queue'), i < j
               PROVE  Before(queue[i], queue[j])'
    BY DEF QueueInOrder
  <2>1. i \in 1 .. Len(queue)
    BY <1>1
  <2>2. CASE j \in 1 .. Len(queue)
    BY <1>1, <2>1, <2>2, AcceptedLast DEF OrderInv, QueueInOrder
  <2>3. CASE j = Len(queue) + 1
    BY <1>1, <2>1, <2>3, AcceptedLast DEF OrderInv, AllAccepted
  <2> QED BY <1>2, <2>2, <2>3
<1>7. HandBeforeQueue'
  <2> SUFFICES ASSUME NEW c \in Tasks, NEW j \in 1 .. Len(queue'),
                      task[c].pc = "popped"
               PROVE  Before(task[c].p, queue[j])'
    BY DEF HandBeforeQueue
  <2>1. CASE j \in 1 .. Len(queue)
    BY <1>1, <2>1, AcceptedLast DEF OrderInv, HandBeforeQueue
  <2>2. CASE j = Len(queue) + 1
    BY <1>1, <2>2, AcceptedLast DEF OrderInv, HandsAreFull
  <2> QED BY <1>2, <2>1, <2>2
<1>8. RanBeforeQueue'
  <2> SUFFICES ASSUME NEW i \in 1 .. Len(ran), NEW j \in 1 .. Len(queue')
               PROVE  Before(ran[i], queue[j])'
    BY DEF RanBeforeQueue
  <2>1. CASE j \in 1 .. Len(queue)
    BY <1>1, <2>1, AcceptedLast DEF OrderInv, RanBeforeQueue
  <2>2. CASE j = Len(queue) + 1
    BY <1>1, <2>2, AcceptedLast DEF OrderInv, AllAccepted
  <2> QED BY <1>2, <2>1, <2>2
<1>9. RanBeforeHand'
  BY AcceptedLast DEF OrderInv, RanBeforeHand
<1>10. RanInOrder'
  BY AcceptedLast DEF OrderInv, RanInOrder
<1> QED BY <1>3, <1>4, <1>5, <1>6, <1>7, <1>8, <1>9, <1>10 DEF OrderInv

(* The drain takes the prompt before all the others of the queue. *)
LEMMA OrderPop ==
    ASSUME Sequenced, Plain, OrderInv, NEW c \in Tasks, DrainPop(c)
    PROVE  OrderInv'
<1> DEFINE r == [task[c] EXCEPT !.pc = "popped", !.p = Head(queue), !.resume = FALSE]
<1>1. /\ queue # <<>> /\ queue' = Tail(queue) /\ task' = [task EXCEPT ![c] = r]
      /\ accepted' = accepted /\ ran' = ran /\ rev' = rev
      /\ task[c].pc = "drain"
  BY DEF DrainPop, Set, At, intake, session
<1>2. /\ Len(queue) \in Nat \ {0} /\ Len(queue') = Len(queue) - 1
      /\ \A j \in 1 .. Len(queue') : queue'[j] = queue[j + 1]
      /\ Head(queue) = queue[1] /\ queue[1] \in Prompts
  BY <1>1 DEF Sequenced
<1>3. /\ 1 \in 1 .. Len(queue)
      /\ \A j \in 1 .. Len(queue') : j + 1 \in 1 .. Len(queue) /\ 1 < j + 1
  BY <1>2
<1>4. task[c] \in Task /\ task \in [Tasks -> Task]
  BY DEF Plain
<1>5. r.pc = "popped" /\ r.p = queue[1] /\ r.rv = task[c].rv
  BY <1>2, <1>4 DEF Task
<1>6. /\ task'[c] = r
      /\ \A d \in Tasks : d # c => task'[d] = task[d]
  BY <1>1, <1>4
<1> HIDE DEF r
<1>7. ASSUME NEW p, NEW q PROVE Before(p, q)' <=> Before(p, q)
  BY <1>1 DEF Before
<1>8. HandsAreFull'
  <2>1. queue[1] \in ToSet(accepted)
    BY <1>3 DEF OrderInv, AllAccepted
  <2> QED BY <1>1, <1>5, <1>6, <2>1 DEF OrderInv, HandsAreFull
<1>9. AllAccepted'
  BY <1>1, <1>2, <1>3 DEF OrderInv, AllAccepted
<1>10. DrainsDiffer'
  BY <1>1, <1>5, <1>6 DEF OrderInv, DrainsDiffer
<1>11. QueueInOrder'
  <2> SUFFICES ASSUME NEW i \in 1 .. Len(queue'), NEW j \in 1 .. Len(queue'), i < j
               PROVE  Before(queue[i], queue[j])'
    BY DEF QueueInOrder
  <2>1. i + 1 < j + 1
    BY <1>2
  <2>2. Before(queue[i + 1], queue[j + 1])
    BY <1>3, <2>1 DEF OrderInv, QueueInOrder
  <2> QED BY <1>2, <1>7, <2>2
<1>12. HandBeforeQueue'
  <2> SUFFICES ASSUME NEW d \in Tasks, NEW j \in 1 .. Len(queue'),
                      task'[d].pc = "popped"
               PROVE  Before(task[d].p, queue[j])'
    BY DEF HandBeforeQueue
  <2>1. CASE d = c
    <3>1. Before(queue[1], queue[j + 1])
      BY <1>3 DEF OrderInv, QueueInOrder
    <3> QED BY <1>2, <1>5, <1>6, <1>7, <2>1, <3>1
  <2>2. CASE d # c
    <3>1. Before(task[d].p, queue[j + 1])
      BY <1>3, <1>6, <2>2 DEF OrderInv, HandBeforeQueue
    <3> QED BY <1>2, <1>6, <1>7, <2>2, <3>1
  <2> QED BY <2>1, <2>2
<1>13. RanBeforeQueue'
  <2> SUFFICES ASSUME NEW i \in 1 .. Len(ran), NEW j \in 1 .. Len(queue')
               PROVE  Before(ran[i], queue[j])'
    BY <1>1 DEF RanBeforeQueue
  <2>1. Before(ran[i], queue[j + 1])
    BY <1>3 DEF OrderInv, RanBeforeQueue
  <2> QED BY <1>1, <1>2, <1>7, <2>1
<1>14. RanBeforeHand'
  <2> SUFFICES ASSUME NEW i \in 1 .. Len(ran), NEW d \in Tasks,
                      task'[d].pc = "popped", task'[d].rv = rev
               PROVE  Before(ran[i], task[d].p)'
    BY <1>1 DEF RanBeforeHand
  <2>1. CASE d = c
    <3>1. Before(ran[i], queue[1])
      BY <1>3 DEF OrderInv, RanBeforeQueue
    <3> QED BY <1>1, <1>5, <1>6, <1>7, <2>1, <3>1
  <2>2. CASE d # c
    BY <1>1, <1>6, <1>7, <2>2 DEF OrderInv, RanBeforeHand
  <2> QED BY <2>1, <2>2
<1>15. RanInOrder'
  BY <1>1, <1>7 DEF OrderInv, RanInOrder
<1> QED BY <1>8, <1>9, <1>10, <1>11, <1>12, <1>13, <1>14, <1>15 DEF OrderInv

(* A prompt becomes a turn only at the revision of the session: after every
   prompt that ran, before every prompt that waits, and it makes every other
   drain stale. *)
LEMMA OrderRun ==
    ASSUME Sequenced, Plain, OrderInv, NEW c \in Tasks, CreateTurn(c)
    PROVE  OrderInv'
<1> DEFINE p == task[c].p
           r == [task[c] EXCEPT !.pc = "turn", !.p = None]
<1>1. /\ queue' = queue /\ accepted' = accepted /\ rev' = rev + 1
      /\ task' = [task EXCEPT ![c] = r]
      /\ task[c].rv = rev /\ task[c].pc \in {"begun", "popped"}
      /\ ran' = IF p = None THEN ran ELSE Append(ran, p)
  BY DEF CreateTurn, Set, intake
<1>2. task[c] \in Task /\ task \in [Tasks -> Task] /\ rev \in Nat
  BY DEF Plain
<1>3. r \in Task /\ r.pc = "turn" /\ r.p = None /\ r.rv = rev
  BY <1>1, <1>2 DEF Task, PC
<1>4. CASE p = None
  <2>1. ran' = ran /\ r.rv <= rev'
    BY <1>1, <1>2, <1>3, <1>4
  <2> HIDE DEF r
  <2> QED BY <1>1, <1>3, <2>1, OrderQuiet
<1>5. CASE p # None
  <2>1. /\ ran' = Append(ran, p) /\ p \in Prompts
        /\ task[c].pc = "popped" /\ p \in ToSet(accepted)
    BY <1>1, <1>2, <1>5 DEF Task, OrderInv, HandsAreFull
  <2>2. /\ Len(ran') = Len(ran) + 1 /\ Len(ran) \in Nat
        /\ ran'[Len(ran) + 1] = p
        /\ \A i \in 1 .. Len(ran) : ran'[i] = ran[i]
    BY <2>1 DEF Sequenced
  <2>3. \A i \in 1 .. Len(ran') : i \in 1 .. Len(ran) \/ i = Len(ran) + 1
    BY <2>2
  <2>4. /\ task'[c] = r
        /\ \A d \in Tasks : d # c => task'[d] = task[d]
    BY <1>1, <1>2
  <2>5. ASSUME NEW a, NEW b PROVE Before(a, b)' <=> Before(a, b)
    BY <1>1 DEF Before
  <2>6. \A d \in Tasks : task[d].rv \in Nat /\ task[d].rv <= rev
    BY <1>2 DEF Task, OrderInv, DrainsDiffer
  <2> HIDE DEF r
  <2>7. HandsAreFull'
    BY <1>1, <1>3, <2>4 DEF OrderInv, HandsAreFull
  <2>8. AllAccepted'
    BY <1>1, <2>1, <2>2, <2>3 DEF OrderInv, AllAccepted
  <2>9. DrainsDiffer'
    BY <1>1, <1>2, <1>3, <2>4, <2>6 DEF OrderInv, DrainsDiffer
  <2>10. QueueInOrder'
    BY <1>1, <2>5 DEF OrderInv, QueueInOrder
  <2>11. HandBeforeQueue'
    BY <1>1, <1>3, <2>4, <2>5 DEF OrderInv, HandBeforeQueue
  <2>12. RanBeforeQueue'
    <3> SUFFICES ASSUME NEW i \in 1 .. Len(ran'), NEW j \in 1 .. Len(queue)
                 PROVE  Before(ran[i], queue[j])'
      BY <1>1 DEF RanBeforeQueue
    <3>1. CASE i \in 1 .. Len(ran)
      BY <1>1, <2>2, <2>5, <3>1 DEF OrderInv, RanBeforeQueue
    <3>2. CASE i = Len(ran) + 1
      BY <1>1, <2>1, <2>2, <2>5, <3>2 DEF OrderInv, HandBeforeQueue
    <3> QED BY <2>3, <3>1, <3>2
  <2>13. RanBeforeHand'
    <3>1. \A d \in Tasks : ~(task'[d].pc = "popped" /\ task'[d].rv = rev')
      BY <1>1, <1>2, <1>3, <2>4, <2>6
    <3> QED BY <3>1 DEF RanBeforeHand
  <2>14. RanInOrder'
    <3> SUFFICES ASSUME NEW i \in 1 .. Len(ran'), NEW j \in 1 .. Len(ran'), i < j
                 PROVE  Before(ran[i], ran[j])'
      BY DEF RanInOrder
    <3>1. i \in 1 .. Len(ran)
      BY <2>2
    <3>2. CASE j \in 1 .. Len(ran)
      BY <2>2, <2>5, <3>1, <3>2 DEF OrderInv, RanInOrder
    <3>3. CASE j = Len(ran) + 1
      BY <1>1, <2>1, <2>2, <2>5, <3>1, <3>3 DEF OrderInv, RanBeforeHand
    <3> QED BY <2>3, <3>2, <3>3
  <2> QED BY <2>7, <2>8, <2>9, <2>10, <2>11, <2>12, <2>13, <2>14 DEF OrderInv
<1> QED BY <1>4, <1>5

(* The calls that leave the order alone. *)
LEMMA OrderStill ==
    ASSUME Sequenced, Plain, OrderInv, NEW c \in Tasks,
           \/ BeginRunner(c) \/ CreateRefused(c) \/ Dropped(c)
           \/ LoadWaiting(c) \/ EnsureRunner(c) \/ AcquireRefused(c)
           \/ ResumeRefused(c) \/ DrainParked(c) \/ DrainDone(c)
           \/ DrainMissing(c) \/ DrainTerminal(c) \/ Terminate(c) \/ Evict(c)
    PROVE  OrderInv'
<1> USE DEF At, Set, Err, RemoveEntry, session, intake
<1>0. /\ IdleTask \in Task /\ IdleTask.p = None /\ IdleTask.rv = 0
      /\ IdleTask.pc = "idle"
      /\ task[c] \in Task /\ rev \in Nat /\ 0 <= rev
      /\ task[c].rv \in Nat /\ task[c].rv <= rev /\ rev <= rev /\ 0 <= rev + 1
      /\ task[c].p # None => task[c].pc \in {"popped", "dropping"}
  BY IdleTyped DEF IdleTask, Task, Plain, OrderInv, DrainsDiffer, HandsAreFull
<1>1. CASE BeginRunner(c)
  <2> DEFINE r == [IdleTask EXCEPT !.pc = "begun", !.guard = "open", !.rv = rev]
  <2>1. /\ task' = [task EXCEPT ![c] = r]
        /\ accepted' = accepted /\ ran' = ran
        /\ rev' = rev
        /\ queue' = queue \/ queue' = <<>>
    BY <1>1 DEF BeginRunner
  <2>2. r \in Task /\ r.pc = "begun" /\ r.rv = rev /\ r.p = IdleTask.p
    BY <1>0 DEF Task, PC
  <2> HIDE DEF r
  <2> QED BY <1>0, <2>1, <2>2, OrderQuiet
<1>2. CASE CreateRefused(c)
  <2> DEFINE r == [task[c] EXCEPT !.pc = "dropping"]
  <2>1. /\ task' = [task EXCEPT ![c] = r]
        /\ accepted' = accepted /\ ran' = ran
        /\ rev' = rev
        /\ queue' = queue \/ queue' = <<>>
    BY <1>2 DEF CreateRefused
  <2>2. r \in Task /\ r.pc = "dropping" /\ r.rv = task[c].rv /\ r.p = task[c].p
    BY <1>0 DEF Task, PC
  <2> HIDE DEF r
  <2> QED BY <1>0, <2>1, <2>2, OrderQuiet
<1>3. CASE Dropped(c)
  <2>1. /\ task' = [task EXCEPT ![c] = IdleTask]
        /\ accepted' = accepted /\ ran' = ran /\ rev' = rev
        /\ queue' = queue \/ queue' = <<>>
    BY <1>3 DEF Dropped
  <2> QED BY <1>0, <2>1, OrderQuiet
<1>4. CASE LoadWaiting(c)
  <2> DEFINE r == [IdleTask EXCEPT !.pc = "loaded", !.rv = rev]
  <2>1. /\ task' = [task EXCEPT ![c] = r]
        /\ accepted' = accepted /\ ran' = ran
        /\ rev' = rev
        /\ queue' = queue \/ queue' = <<>>
    BY <1>4 DEF LoadWaiting
  <2>2. r \in Task /\ r.pc = "loaded" /\ r.rv = rev /\ r.p = IdleTask.p
    BY <1>0 DEF Task, PC
  <2> HIDE DEF r
  <2> QED BY <1>0, <2>1, <2>2, OrderQuiet
<1>5. CASE EnsureRunner(c)
  <2> DEFINE r == [task[c] EXCEPT !.pc = "leased", !.guard = "open",
                                     !.resume = TRUE]
  <2>1. /\ task' = [task EXCEPT ![c] = r]
        /\ accepted' = accepted /\ ran' = ran
        /\ rev' = rev
        /\ queue' = queue \/ queue' = <<>>
    BY <1>5 DEF EnsureRunner
  <2>2. r \in Task /\ r.pc = "leased" /\ r.rv = task[c].rv /\ r.p = task[c].p
    BY <1>0 DEF Task, PC
  <2> HIDE DEF r
  <2>3. task[c].pc = "loaded"
    BY <1>5 DEF EnsureRunner
  <2> QED BY <1>0, <2>1, <2>2, <2>3, OrderQuiet
<1>6. CASE AcquireRefused(c)
  <2>1. /\ task' = [task EXCEPT ![c] = IdleTask]
        /\ accepted' = accepted /\ ran' = ran /\ rev' = rev
        /\ queue' = queue \/ queue' = <<>>
    BY <1>6 DEF AcquireRefused
  <2> QED BY <1>0, <2>1, OrderQuiet
<1>7. CASE ResumeRefused(c)
  <2> DEFINE r == [task[c] EXCEPT !.pc = "dropping"]
  <2>1. /\ task' = [task EXCEPT ![c] = r]
        /\ accepted' = accepted /\ ran' = ran
        /\ rev' = rev
        /\ queue' = queue \/ queue' = <<>>
    BY <1>7 DEF ResumeRefused
  <2>2. r \in Task /\ r.pc = "dropping" /\ r.rv = task[c].rv /\ r.p = task[c].p
    BY <1>0 DEF Task, PC
  <2> HIDE DEF r
  <2> QED BY <1>0, <2>1, <2>2, OrderQuiet
<1>8. CASE DrainParked(c)
  <2>1. /\ task' = [task EXCEPT ![c] = IdleTask]
        /\ accepted' = accepted /\ ran' = ran /\ rev' = rev
        /\ queue' = queue \/ queue' = <<>>
    BY <1>8 DEF DrainParked
  <2> QED BY <1>0, <2>1, OrderQuiet
<1>9. CASE DrainDone(c)
  <2>1. /\ task' = [task EXCEPT ![c] = IdleTask]
        /\ accepted' = accepted /\ ran' = ran /\ rev' = rev
        /\ queue' = queue \/ queue' = <<>>
    BY <1>9 DEF DrainDone
  <2> QED BY <1>0, <2>1, OrderQuiet
<1>10. CASE DrainMissing(c)
  <2> DEFINE r == [task[c] EXCEPT !.pc = "dropping", !.resume = FALSE]
  <2>1. /\ task' = [task EXCEPT ![c] = r]
        /\ accepted' = accepted /\ ran' = ran
        /\ rev' = rev
        /\ queue' = queue \/ queue' = <<>>
    BY <1>10 DEF DrainMissing
  <2>2. r \in Task /\ r.pc = "dropping" /\ r.rv = task[c].rv /\ r.p = task[c].p
    BY <1>0 DEF Task, PC
  <2> HIDE DEF r
  <2> QED BY <1>0, <2>1, <2>2, OrderQuiet
<1>11. CASE DrainTerminal(c)
  <2>1. /\ task' = [task EXCEPT ![c] = IdleTask]
        /\ accepted' = accepted /\ ran' = ran /\ rev' = rev
        /\ queue' = queue \/ queue' = <<>>
    BY <1>11 DEF DrainTerminal
  <2> QED BY <1>0, <2>1, OrderQuiet
<1>12. CASE Terminate(c)
  <2> DEFINE r == [IdleTask EXCEPT !.pc = "evicting"]
  <2>1. /\ task' = [task EXCEPT ![c] = r]
        /\ accepted' = accepted /\ ran' = ran
        /\ rev' = rev \/ rev' = rev + 1
        /\ queue' = queue \/ queue' = <<>>
    BY <1>12 DEF Terminate
  <2>2. r \in Task /\ r.pc = "evicting" /\ r.rv = IdleTask.rv /\ r.p = IdleTask.p
    BY <1>0 DEF Task, PC
  <2> HIDE DEF r
  <2> QED BY <1>0, <2>1, <2>2, OrderQuiet
<1>13. CASE Evict(c)
  <2>1. /\ task' = [task EXCEPT ![c] = IdleTask]
        /\ accepted' = accepted /\ ran' = ran /\ rev' = rev
        /\ queue' = queue \/ queue' = <<>>
    BY <1>13 DEF Evict
  <2> QED BY <1>0, <2>1, OrderQuiet
<1> QED BY <1>1, <1>2, <1>3, <1>4, <1>5, <1>6, <1>7, <1>8, <1>9, <1>10, <1>11, <1>12, <1>13

(* The end of a turn and of a wait takes a new snapshot. *)
LEMMA OrderSnapshot ==
    ASSUME Sequenced, Plain, OrderInv, NEW c \in Tasks,
           EndTurn(c) \/ ResumeTurn(c)
    PROVE  OrderInv'
<1> DEFINE r(l) == [task[c] EXCEPT !.pc = "drain", !.seen = l, !.rv = rev + 1]
           d == [task[c] EXCEPT !.pc = "dropping"]
           t == [task[c] EXCEPT !.pc = "turn"]
           Seen == {"ready", "failed", "waiting", "reconciliation"}
<1>1. /\ accepted' = accepted /\ ran' = ran /\ rev' = rev + 1 /\ queue' = queue
      /\ \/ \E l \in Seen : task' = [task EXCEPT ![c] = r(l)]
         \/ task' = [task EXCEPT ![c] = d]
         \/ task' = [task EXCEPT ![c] = t]
  BY DEF EndTurn, ResumeTurn, Set, Err, intake
<1>2. /\ task[c] \in Task /\ rev \in Nat /\ task[c].p = None
      /\ task[c].rv \in Nat /\ task[c].rv <= rev
  BY DEF EndTurn, ResumeTurn, At, Plain, Task, OrderInv, HandsAreFull,
         DrainsDiffer
<1>3. ASSUME NEW l \in Seen
      PROVE  r(l) \in Task /\ r(l).pc = "drain" /\ r(l).p = None /\ r(l).rv = rev + 1
  <2>1. rev + 1 \in Nat
    BY <1>2
  <2> QED BY <1>2, <2>1 DEF Task, PC
<1>4. d \in Task /\ d.pc = "dropping" /\ d.p = None /\ d.rv <= rev + 1
  BY <1>2 DEF Task, PC
<1>5. t \in Task /\ t.pc = "turn" /\ t.p = None /\ t.rv <= rev + 1
  BY <1>2 DEF Task, PC
<1>6. rev + 1 <= rev + 1
  BY <1>2
<1> HIDE DEF r, d, t, Seen
<1>7. CASE \E l \in Seen : task' = [task EXCEPT ![c] = r(l)]
  <2>1. PICK l \in Seen : task' = [task EXCEPT ![c] = r(l)]
    BY <1>7
  <2> QED BY <1>1, <1>3, <1>6, <2>1, OrderQuiet
<1>8. CASE task' = [task EXCEPT ![c] = d]
  BY <1>1, <1>4, <1>8, OrderQuiet
<1>9. CASE task' = [task EXCEPT ![c] = t]
  BY <1>1, <1>5, <1>9, OrderQuiet
<1> QED BY <1>1, <1>7, <1>8, <1>9

(* The switch of the model only moves the revision on. *)
LEMMA OrderSwitch ==
    ASSUME Sequenced, Plain, OrderInv, UNCHANGED <<task, accepted, ran, queue>>,
           rev' = rev \/ rev' = rev + 1
    PROVE  OrderInv'
<1>1. ASSUME NEW p, NEW q PROVE Before(p, q)' <=> Before(p, q)
  BY DEF Before
<1>2. rev \in Nat /\ \A c \in Tasks : task[c].rv \in Nat /\ task[c].rv <= rev
  BY DEF Plain, Task, OrderInv, DrainsDiffer
<1>3. HandsAreFull' /\ AllAccepted'
  BY DEF OrderInv, HandsAreFull, AllAccepted
<1>4. DrainsDiffer'
  BY <1>2 DEF OrderInv, DrainsDiffer
<1>5. QueueInOrder' /\ HandBeforeQueue' /\ RanBeforeQueue' /\ RanInOrder'
  BY <1>1 DEF OrderInv, QueueInOrder, HandBeforeQueue, RanBeforeQueue, RanInOrder
<1>6. RanBeforeHand'
  BY <1>1, <1>2 DEF OrderInv, RanBeforeHand
<1> QED BY <1>3, <1>4, <1>5, <1>6 DEF OrderInv

(* Every step keeps the order. *)
LEMMA OrderNext ==
    ASSUME MailboxTypeOK, OrderInv, [MailboxNext]_mailboxVars
    PROVE  OrderInv'
<1>0. Sequenced /\ Plain
  BY TypesTogether
<1>1. CASE UNCHANGED mailboxVars
  BY <1>0, <1>1, OrderSwitch DEF mailboxVars, session, intake
<1>2. ASSUME NEW p \in Prompts, QueueCheck(p) PROVE OrderInv'
  BY <1>0, <1>2, OrderSwitch DEF QueueCheck, session
<1>3. ASSUME NEW p \in Prompts, QueuePush(p) PROVE OrderInv'
  BY <1>0, <1>3, OrderSwitch, OrderPush DEF QueuePush, session
<1>4. ASSUME NEW c \in Tasks,
             Progress(c) \/ BeginRunner(c) \/ LoadWaiting(c) \/ Terminate(c)
      PROVE  OrderInv'
  BY <1>0, <1>4, OrderStill, OrderSnapshot, OrderPop, OrderRun DEF Progress
<1>5. ASSUME SwitchModel PROVE OrderInv'
  BY <1>0, <1>5, OrderSwitch DEF SwitchModel, intake
<1> QED BY <1>1, <1>2, <1>3, <1>4, <1>5 DEF MailboxNext

-----------------------------------------------------------------------------
(* Responsibility, when nothing disturbs the mailbox *)

(* The call will still decide what becomes of the session; a drain that saw a
   park has nothing left to decide. *)
Active(c) ==
    \/ task[c].pc \in {"begun", "loaded", "leased", "turn", "popped", "evicting"}
    \/ task[c].pc = "drain" /\ task[c].seen \in {"ready", "failed"}

(* No call is on an error path. *)
Sound(c) ==
    /\ task[c].pc # "dropping"
    /\ task[c].pc = "drain" => task[c].seen # "none"

(* What the session looks like while the call is responsible for it. *)
Fits(c) ==
    /\ task[c].pc = "begun" => life \in {"absent", "ready"}
    /\ task[c].pc = "popped" => life = "ready"
    /\ task[c].pc \in {"loaded", "leased"} => life = "waiting"
    /\ task[c].pc = "turn" => life = "running"
    /\ task[c].pc = "evicting" => life = "failed"
    /\ task[c].pc = "drain" => life = task[c].seen
    /\ task[c].pc \notin {"turn", "evicting"} => task[c].rv = rev
    /\ task[c].pc \in {"turn", "leased"} => owner = c
    /\ task[c].pc \notin {"evicting", "loaded"} => open /\ task[c].guard = "open"

(* The invariant: one call is responsible at a time, an entry of a session
   that waits for nobody has such a call, and so has the lease. *)
DutyInv ==
    /\ \A c, d \in Tasks : Active(c) /\ Active(d) => c = d
    /\ \A c \in Tasks : Sound(c) /\ (Active(c) => Fits(c))
    /\ open /\ life \in {"absent", "ready"} => \E c \in Tasks : Active(c)
    /\ ~open => queue = <<>>
    /\ owner # None => \E c \in Tasks : owner = c /\ task[c].pc \in {"turn", "leased"}

(* Initially nobody is responsible and nothing is open. *)
LEMMA DutyInit == MailboxInit => DutyInv
BY DEF MailboxInit, DutyInv, Active, Sound, Fits, IdleTask

(* A call that is the only one responsible, before or after its step, keeps
   the invariant if the session fits it afterwards. *)
LEMMA DutyStep ==
    ASSUME Plain, DutyInv, NEW c \in Tasks, NEW r,
           task' = [task EXCEPT ![c] = r],
           \A d \in Tasks : d # c => ~Active(d),
           Sound(c)', Active(c)' => Fits(c)',
           open' /\ life' \in {"absent", "ready"} => Active(c)',
           ~open' => queue' = <<>>,
           owner' # None => owner' = c /\ task'[c].pc \in {"turn", "leased"}
    PROVE  DutyInv'
<1>1. \A d \in Tasks : d # c => task'[d] = task[d]
  BY DEF Plain
<1>2. ASSUME NEW d \in Tasks, d # c PROVE ~Active(d)' /\ Sound(d)'
  BY <1>1, <1>2 DEF DutyInv, Active, Sound
<1>3. \A d, e \in Tasks : Active(d)' /\ Active(e)' => d = e
  BY <1>2
<1>4. \A d \in Tasks : Sound(d)' /\ (Active(d)' => Fits(d)')
  BY <1>2
<1> QED BY <1>3, <1>4 DEF DutyInv

(* Whoever is responsible is the only one; nobody is while the session waits
   and no answer is under way, nor while it has no entry and has not failed. *)
LEMMA Alone ==
    ASSUME DutyInv, NEW c \in Tasks, Active(c)
    PROVE  /\ \A d \in Tasks : d # c => ~Active(d)
           /\ Fits(c)
           /\ owner # None => owner = c /\ task[c].pc \in {"turn", "leased"}
<1>1. ASSUME NEW d \in Tasks, task[d].pc \in {"turn", "leased"} PROVE Active(d)
  BY <1>1 DEF Active
<1> QED BY <1>1 DEF DutyInv

(* A call begins on a session that nobody is responsible for. *)
LEMMA DutyBegin ==
    ASSUME Plain, DutyInv, ~disturbed, NEW c \in Tasks, BeginRunner(c)
    PROVE  DutyInv'
<1> DEFINE r == [IdleTask EXCEPT !.pc = "begun", !.guard = "open", !.rv = rev]
<1>1. /\ task' = [task EXCEPT ![c] = r]
      /\ ~open /\ open' /\ queue' = <<>>
      /\ life \in {"absent", "ready"} /\ life' = life /\ rev' = rev /\ owner' = owner
  BY DEF BeginRunner, Set, session, MayHappen
<1>2. r.pc = "begun" /\ r.guard = "open" /\ r.rv = rev
  BY IdleTyped DEF Task
<1>3. task'[c] = r
  BY <1>1 DEF Plain
<1> HIDE DEF r
<1>4. \A d \in Tasks : ~Active(d)
  <2>1. ASSUME NEW d \in Tasks, Active(d) PROVE FALSE
    <3>1. Fits(d)
      BY <2>1, Alone
    <3> QED BY <1>1, <2>1, <3>1 DEF Fits, Active
  <2> QED BY <2>1
<1>5. owner = None
  BY <1>4 DEF DutyInv, Active
<1>6. Sound(c)' /\ Active(c)' /\ Fits(c)'
  BY <1>1, <1>2, <1>3 DEF Sound, Active, Fits
<1> QED BY <1>1, <1>3, <1>4, <1>5, <1>6, DutyStep

(* The turn is created, runs and ends under its call. *)
LEMMA DutyTurn ==
    ASSUME Plain, DutyInv, ~disturbed, NEW c \in Tasks,
           CreateTurn(c) \/ EndTurn(c)
    PROVE  DutyInv'
<1>1. Active(c) /\ Fits(c)
      /\ \A d \in Tasks : d # c => ~Active(d)
  <2>1. Active(c)
    BY DEF CreateTurn, EndTurn, At, Active
  <2> QED BY <2>1, Alone
<1>2. task[c] \in Task /\ rev \in Nat
  BY DEF Plain
<1>3. CASE CreateTurn(c)
  <2> DEFINE r == [task[c] EXCEPT !.pc = "turn", !.p = None]
  <2>1. /\ task' = [task EXCEPT ![c] = r] /\ life' = "running" /\ owner' = c
        /\ task[c].pc \in {"begun", "popped"}
        /\ open' = open /\ queue' = queue
    BY <1>3 DEF CreateTurn, Set
  <2>2. r.pc = "turn" /\ r.guard = task[c].guard
    BY <1>2 DEF Task
  <2>3. task'[c] = r
    BY <2>1 DEF Plain
  <2> HIDE DEF r
  <2>4. open /\ task[c].guard = "open"
    BY <1>1, <2>1 DEF Fits
  <2>5. Sound(c)' /\ Fits(c)'
    BY <2>1, <2>2, <2>3, <2>4 DEF Sound, Fits
  <2> QED BY <1>1, <2>1, <2>2, <2>3, <2>4, <2>5, DutyStep
<1>4. CASE EndTurn(c)
  <2>1. PICK l \in {"ready", "failed", "waiting", "reconciliation"} :
           /\ life' = l /\ rev' = rev + 1 /\ owner' = None
           /\ task' = [task EXCEPT ![c] = [task[c] EXCEPT !.pc = "drain", !.seen = l,
                                                          !.rv = rev + 1]]
    BY <1>4 DEF EndTurn, Set, MayHappen
  <2> DEFINE r == [task[c] EXCEPT !.pc = "drain", !.seen = l, !.rv = rev + 1]
  <2>2. r.pc = "drain" /\ r.seen = l /\ r.rv = rev + 1 /\ r.guard = task[c].guard
    BY <1>2 DEF Task
  <2>3. task'[c] = r /\ task' = [task EXCEPT ![c] = r]
    BY <2>1 DEF Plain
  <2>4. task[c].pc = "turn" /\ open' = open /\ queue' = queue
    BY <1>4 DEF EndTurn, At
  <2> HIDE DEF r
  <2>5. open /\ task[c].guard = "open"
    BY <1>1, <2>4 DEF Fits
  <2>6. Sound(c)' /\ Fits(c)' /\ (life' = "ready" => Active(c)')
    BY <2>1, <2>2, <2>3, <2>4, <2>5 DEF Sound, Fits, Active
  <2> QED BY <1>1, <2>1, <2>3, <2>4, <2>5, <2>6, DutyStep
<1> QED BY <1>3, <1>4

(* The wait is answered or withdrawn by one call. *)
LEMMA DutyWait ==
    ASSUME Plain, DutyInv, ~disturbed, NEW c \in Tasks,
           LoadWaiting(c) \/ Terminate(c)
    PROVE  DutyInv'
<1>1. life \in {"waiting", "reconciliation"} /\ SoleAnswer
  BY DEF LoadWaiting, Terminate, MayHappen
<1>2. \A d \in Tasks : ~Active(d)
  <2>1. ASSUME NEW d \in Tasks, Active(d) PROVE FALSE
    <3>1. Fits(d)
      BY <2>1, Alone
    <3> QED BY <1>1, <2>1, <3>1 DEF Fits, Active, SoleAnswer
  <2> QED BY <2>1
<1>3. owner = None
  BY <1>2 DEF DutyInv, Active
<1>4. CASE LoadWaiting(c)
  <2> DEFINE r == [IdleTask EXCEPT !.pc = "loaded", !.rv = rev]
  <2>1. /\ task' = [task EXCEPT ![c] = r] /\ life = "waiting"
        /\ UNCHANGED <<life, rev, owner, open, queue>>
    BY <1>4 DEF LoadWaiting, Set, session
  <2>2. r.pc = "loaded" /\ r.rv = rev
    BY IdleTyped DEF Task
  <2>3. task'[c] = r
    BY <2>1 DEF Plain
  <2> HIDE DEF r
  <2>4. Sound(c)' /\ Fits(c)'
    BY <2>1, <2>2, <2>3 DEF Sound, Fits
  <2>5. ~open => queue = <<>>
    BY DEF DutyInv
  <2> QED BY <1>2, <1>3, <2>1, <2>3, <2>4, <2>5, DutyStep
<1>5. CASE Terminate(c)
  <2> DEFINE r == [IdleTask EXCEPT !.pc = "evicting"]
  <2>1. /\ task' = [task EXCEPT ![c] = r] /\ life' = "failed"
        /\ UNCHANGED <<owner, open, queue>>
    BY <1>5 DEF Terminate, Set
  <2>2. r.pc = "evicting"
    BY IdleTyped DEF Task
  <2>3. task'[c] = r
    BY <2>1 DEF Plain
  <2> HIDE DEF r
  <2>4. Sound(c)' /\ Fits(c)'
    BY <2>1, <2>2, <2>3 DEF Sound, Fits
  <2>5. ~open => queue = <<>>
    BY DEF DutyInv
  <2> QED BY <1>2, <1>3, <2>1, <2>3, <2>4, <2>5, DutyStep
<1> QED BY <1>4, <1>5

(* The call that answers a wait. *)
LEMMA DutyAnswer ==
    ASSUME Plain, DutyInv, ~disturbed, NEW c \in Tasks,
           EnsureRunner(c) \/ ResumeTurn(c)
    PROVE  DutyInv'
<1>1. Active(c) /\ Fits(c)
      /\ \A d \in Tasks : d # c => ~Active(d)
  <2>1. Active(c)
    BY DEF EnsureRunner, ResumeTurn, At, Active
  <2> QED BY <2>1, Alone
<1>2. task[c] \in Task /\ rev \in Nat
  BY DEF Plain
<1>3. CASE EnsureRunner(c)
  <2> DEFINE r == [task[c] EXCEPT !.pc = "leased", !.guard = "open", !.resume = TRUE]
  <2>1. /\ task' = [task EXCEPT ![c] = r] /\ owner' = c /\ open'
        /\ task[c].pc = "loaded" /\ UNCHANGED <<life, rev, queue>>
    BY <1>3 DEF EnsureRunner, Set, At
  <2>2. r.pc = "leased" /\ r.guard = "open" /\ r.rv = task[c].rv
    BY <1>2 DEF Task
  <2>3. task'[c] = r
    BY <2>1 DEF Plain
  <2> HIDE DEF r
  <2>4. life = "waiting" /\ task[c].rv = rev
    BY <1>1, <2>1 DEF Fits
  <2>5. Sound(c)' /\ Fits(c)'
    BY <2>1, <2>2, <2>3, <2>4 DEF Sound, Fits
  <2> QED BY <1>1, <2>1, <2>2, <2>3, <2>4, <2>5, DutyStep
<1>4. CASE ResumeTurn(c)
  <2>0. /\ task[c].pc = "leased" /\ UNCHANGED <<open, queue>>
        /\ rev' = rev + 1
    BY <1>4 DEF ResumeTurn, At
  <2>1. open /\ task[c].guard = "open" /\ owner = c
    BY <1>1, <2>0 DEF Fits
  <2>2. CASE /\ life' = "running" /\ owner' = owner
             /\ task' = [task EXCEPT ![c] = [task[c] EXCEPT !.pc = "turn"]]
    <3> DEFINE r == [task[c] EXCEPT !.pc = "turn"]
    <3>1. r.pc = "turn" /\ r.guard = task[c].guard
      BY <1>2 DEF Task
    <3>2. task'[c] = r /\ task' = [task EXCEPT ![c] = r]
      BY <2>2 DEF Plain
    <3> HIDE DEF r
    <3>3. Sound(c)' /\ Fits(c)'
      BY <2>0, <2>1, <2>2, <3>1, <3>2 DEF Sound, Fits
    <3> QED BY <1>1, <2>0, <2>1, <2>2, <3>1, <3>2, <3>3, DutyStep
  <2>3. CASE /\ life' = "ready" /\ owner' = None
             /\ task' = [task EXCEPT ![c] = [task[c] EXCEPT !.pc = "drain",
                                                !.seen = "ready", !.rv = rev + 1]]
    <3> DEFINE r == [task[c] EXCEPT !.pc = "drain", !.seen = "ready", !.rv = rev + 1]
    <3>1. r.pc = "drain" /\ r.seen = "ready" /\ r.rv = rev + 1 /\ r.guard = task[c].guard
      BY <1>2 DEF Task
    <3>2. task'[c] = r /\ task' = [task EXCEPT ![c] = r]
      BY <2>3 DEF Plain
    <3> HIDE DEF r
    <3>3. Sound(c)' /\ Fits(c)' /\ Active(c)'
      BY <2>0, <2>1, <2>3, <3>1, <3>2 DEF Sound, Fits, Active
    <3> QED BY <1>1, <2>0, <2>1, <2>3, <3>2, <3>3, DutyStep
  <2> QED BY <1>4, <2>2, <2>3 DEF ResumeTurn, Set
<1> QED BY <1>3, <1>4

(* The call that took the session to its end, or ran its queue, gives it up
   with the entry. *)
LEMMA DutyEnd ==
    ASSUME Plain, DutyInv, NEW c \in Tasks,
           DrainDone(c) \/ DrainTerminal(c) \/ Evict(c)
    PROVE  DutyInv'
<1>1. /\ Active(c) /\ task[c].pc \in {"drain", "evicting"}
      /\ ~open' /\ queue' = <<>> /\ task' = [task EXCEPT ![c] = IdleTask]
      /\ owner' = owner
  BY DEF DrainDone, DrainTerminal, Evict, At, Active, RemoveEntry, Set, session
<1>2. owner = None /\ \A d \in Tasks : d # c => ~Active(d)
  BY <1>1, Alone
<1>3. task'[c] = IdleTask
  BY <1>1 DEF Plain
<1>4. Sound(c)' /\ ~Active(c)'
  BY <1>3 DEF Sound, Active, IdleTask
<1> QED BY <1>1, <1>2, <1>4, DutyStep

(* The drain that takes the next prompt stays responsible. *)
LEMMA DutyPop ==
    ASSUME Plain, DutyInv, NEW c \in Tasks, DrainPop(c)
    PROVE  DutyInv'
<1> DEFINE r == [task[c] EXCEPT !.pc = "popped", !.p = Head(queue), !.resume = FALSE]
<1>1. /\ task' = [task EXCEPT ![c] = r] /\ task[c].pc = "drain"
      /\ task[c].seen = "ready" /\ open
      /\ UNCHANGED <<life, rev, owner, open>>
  BY DEF DrainPop, At, Set, session
<1>2. Active(c) /\ Fits(c) /\ owner = None
      /\ \A d \in Tasks : d # c => ~Active(d)
  <2>1. Active(c)
    BY <1>1 DEF Active
  <2> QED BY <1>1, <2>1, Alone
<1>3. r.pc = "popped" /\ r.rv = task[c].rv /\ r.guard = task[c].guard
  BY DEF Plain, Task
<1>4. task'[c] = r
  BY <1>1 DEF Plain
<1> HIDE DEF r
<1>5. life = "ready" /\ task[c].rv = rev /\ task[c].guard = "open"
  BY <1>1, <1>2 DEF Fits
<1>6. Sound(c)' /\ Fits(c)' /\ Active(c)'
  BY <1>1, <1>3, <1>4, <1>5 DEF Sound, Fits, Active
<1> QED BY <1>1, <1>2, <1>4, <1>6, DutyStep

(* A drain that saw a park just goes away, whoever is responsible by then. *)
LEMMA DutyParked ==
    ASSUME Plain, DutyInv, NEW c \in Tasks, DrainParked(c)
    PROVE  DutyInv'
<1>1. /\ task' = [task EXCEPT ![c] = IdleTask] /\ task[c].pc = "drain"
      /\ UNCHANGED <<life, rev, owner, open, queue>>
      /\ ~Active(c)
  BY DEF DrainParked, At, Set, session, Active
<1>2. task'[c] = IdleTask /\ \A d \in Tasks : d # c => task'[d] = task[d]
  BY <1>1 DEF Plain
<1>3. Sound(c)' /\ ~Active(c)'
  BY <1>2 DEF Sound, Active, IdleTask
<1>4. ASSUME NEW d \in Tasks, d # c
      PROVE  /\ Active(d)' <=> Active(d)
             /\ Sound(d)' <=> Sound(d)
             /\ Fits(d)' <=> Fits(d)
             /\ task'[d].pc = task[d].pc
  BY <1>1, <1>2, <1>4 DEF Active, Sound, Fits
<1>5. \A d, e \in Tasks : Active(d)' /\ Active(e)' => d = e
  BY <1>3, <1>4 DEF DutyInv
<1>6. \A d \in Tasks : Sound(d)' /\ (Active(d)' => Fits(d)')
  BY <1>3, <1>4 DEF DutyInv
<1>7. (open /\ life \in {"absent", "ready"})' => \E d \in Tasks : Active(d)'
  BY <1>1, <1>4 DEF DutyInv
<1>8. owner' # None => \E d \in Tasks : owner' = d /\ task'[d].pc \in {"turn", "leased"}
  BY <1>1, <1>4 DEF DutyInv
<1> QED BY <1>1, <1>5, <1>6, <1>7, <1>8 DEF DutyInv

(* What the faults make possible does not happen without them. *)
LEMMA DutyFaults ==
    ASSUME DutyInv, ~disturbed, NEW c \in Tasks
    PROVE  /\ ~CreateRefused(c) /\ ~Dropped(c) /\ ~AcquireRefused(c)
           /\ ~ResumeRefused(c) /\ ~DrainMissing(c) /\ ~SwitchModel
<1>1. ~CreateRefused(c)
  <2> SUFFICES ASSUME CreateRefused(c) PROVE FALSE
    OBVIOUS
  <2>1. Active(c) /\ task[c].pc \in {"begun", "popped"}
    BY DEF CreateRefused, Active
  <2>2. Fits(c) /\ owner = None
    BY <2>1, Alone
  <2> QED BY <2>1, <2>2 DEF CreateRefused, Fits, MayHappen
<1>2. ~Dropped(c)
  BY DEF DutyInv, Sound, Dropped, At
<1>3. ~AcquireRefused(c)
  <2> SUFFICES ASSUME AcquireRefused(c) PROVE FALSE
    OBVIOUS
  <2>1. Active(c) /\ task[c].pc = "loaded" /\ owner # None
    BY DEF AcquireRefused, Active, At
  <2> QED BY <2>1, Alone
<1>4. ~ResumeRefused(c)
  <2> SUFFICES ASSUME ResumeRefused(c) PROVE FALSE
    OBVIOUS
  <2>1. Active(c) /\ task[c].pc = "leased" /\ rev # task[c].rv
    BY DEF ResumeRefused, Active, At
  <2> QED BY <2>1, Alone DEF Fits
<1>5. ~DrainMissing(c)
  <2> SUFFICES ASSUME DrainMissing(c) PROVE FALSE
    OBVIOUS
  <2>1. Active(c) /\ task[c].pc = "drain" /\ ~open
    BY DEF DrainMissing, Active, At
  <2> QED BY <2>1, Alone DEF Fits
<1>6. ~SwitchModel
  BY DEF SwitchModel, MayHappen
<1> QED BY <1>1, <1>2, <1>3, <1>4, <1>5, <1>6

(* Every step of an undisturbed mailbox keeps the invariant. *)
LEMMA DutyNext ==
    ASSUME MailboxTypeOK, DutyInv, ~disturbed, [MailboxNext]_mailboxVars
    PROVE  DutyInv'
<1>0. Plain
  BY TypesTogether
<1>1. ASSUME UNCHANGED <<life, rev, owner, open, task>>, open \/ queue' = queue
      PROVE  DutyInv'
  BY <1>1 DEF DutyInv, Active, Sound, Fits
<1>2. CASE UNCHANGED mailboxVars
  BY <1>1, <1>2 DEF mailboxVars, session
<1>3. ASSUME NEW p \in Prompts, QueueCheck(p) \/ QueuePush(p) PROVE DutyInv'
  BY <1>1, <1>3 DEF QueueCheck, QueuePush, session
<1>4. ASSUME NEW c \in Tasks,
             Progress(c) \/ BeginRunner(c) \/ LoadWaiting(c) \/ Terminate(c)
      PROVE  DutyInv'
  BY <1>0, <1>4, DutyBegin, DutyTurn, DutyWait, DutyAnswer, DutyEnd, DutyPop,
     DutyParked, DutyFaults DEF Progress
<1>5. ~SwitchModel
  BY DEF SwitchModel, MayHappen
<1> QED BY <1>2, <1>3, <1>4, <1>5 DEF MailboxNext

-----------------------------------------------------------------------------
(* Nothing is lost, when nothing disturbs the mailbox *)

(* The set of a sequence with one more, and with one less. *)
LEMMA AppendSet ==
    ASSUME NEW S, NEW s \in Seq(S), NEW x \in S
    PROVE  ToSet(Append(s, x)) = ToSet(s) \cup {x}
<1> DEFINE a == Append(s, x)
<1>1. /\ a \in Seq(S) /\ Len(a) = Len(s) + 1 /\ Len(s) \in Nat
      /\ a[Len(s) + 1] = x
      /\ \A i \in 1 .. Len(s) : a[i] = s[i]
  OBVIOUS
<1> HIDE DEF a
<1>2. ASSUME NEW y \in ToSet(a) PROVE y \in ToSet(s) \cup {x}
  <2>1. PICK i \in 1 .. Len(a) : a[i] = y
    BY <1>1, InSequence
  <2>2. i \in 1 .. Len(s) \/ i = Len(s) + 1
    BY <1>1
  <2> QED BY <1>1, <2>1, <2>2, InSequence
<1>3. ASSUME NEW y \in ToSet(s) PROVE y \in ToSet(a)
  <2>1. PICK i \in 1 .. Len(s) : s[i] = y
    BY InSequence
  <2>2. i \in 1 .. Len(a) /\ a[i] = y
    BY <1>1, <2>1
  <2> QED BY <1>1, <2>2, InSequence
<1>4. x \in ToSet(a)
  <2>1. Len(s) + 1 \in 1 .. Len(a)
    BY <1>1
  <2> QED BY <1>1, <2>1, InSequence
<1> QED BY <1>2, <1>3, <1>4 DEF a

LEMMA TailSet ==
    ASSUME NEW S, NEW s \in Seq(S), s # <<>>, NEW y \in ToSet(s)
    PROVE  y = Head(s) \/ y \in ToSet(Tail(s))
<1>1. PICK i \in 1 .. Len(s) : s[i] = y
  BY InSequence
<1>2. CASE i = 1
  BY <1>1, <1>2
<1>3. CASE i # 1
  <2>1. /\ Tail(s) \in Seq(S) /\ i - 1 \in 1 .. Len(Tail(s))
        /\ Tail(s)[i - 1] = s[i]
    BY <1>1, <1>3
  <2> QED BY <1>1, <2>1, InSequence
<1> QED BY <1>2, <1>3

(* A step by a call that holds no prompt, of a mailbox whose queue loses
   nothing but what is discarded, loses nothing. *)
LEMMA KeptStep ==
    ASSUME PromptsKept, Sequenced, accepted' = accepted,
           ToSet(queue) \cup ToSet(ran) \cup discarded
               \subseteq (ToSet(queue) \cup ToSet(ran) \cup discarded)',
           \A c \in Tasks : task[c].p \in Prompts => task'[c].p = task[c].p
    PROVE  PromptsKept'
<1> SUFFICES ASSUME NEW p \in ToSet(accepted)
             PROVE  \/ p \in (ToSet(queue) \cup ToSet(ran) \cup discarded)'
                    \/ \E c \in Tasks : task'[c].p = p
  BY DEF PromptsKept
<1>1. p \in Prompts
  BY InSequence DEF Sequenced
<1> QED BY <1>1 DEF PromptsKept

(* The steps of a call that holds no prompt. *)
LEMMA KeptStill ==
    ASSUME Sequenced, Plain, HandsAreFull, DutyInv, PromptsKept, ~disturbed,
           NEW c \in Tasks,
           \/ BeginRunner(c) \/ EndTurn(c) \/ LoadWaiting(c)
           \/ EnsureRunner(c) \/ ResumeTurn(c) \/ DrainParked(c)
           \/ DrainDone(c) \/ DrainTerminal(c) \/ Terminate(c) \/ Evict(c)
    PROVE  PromptsKept'
<1> USE DEF At, Set, RemoveEntry, session, intake, MayHappen
<1>1. task[c].pc \notin {"popped", "dropping"}
  BY DEF BeginRunner, EndTurn, LoadWaiting, EnsureRunner, ResumeTurn,
         DrainParked, DrainDone, DrainTerminal, Terminate, Evict
<1>2. task[c].p = None /\ None \notin Prompts
  BY <1>1, MailboxAssumption DEF HandsAreFull
<1>3. \A d \in Tasks : d # c => task'[d] = task[d]
  BY DEF Plain, BeginRunner, EndTurn, LoadWaiting, EnsureRunner, ResumeTurn,
         DrainParked, DrainDone, DrainTerminal, Terminate, Evict
<1>4. accepted' = accepted /\ ran' = ran
  BY DEF BeginRunner, EndTurn, LoadWaiting, EnsureRunner, ResumeTurn,
         DrainParked, DrainDone, DrainTerminal, Terminate, Evict
<1>5. \/ queue' = queue /\ discarded' = discarded
      \/ queue = <<>> /\ discarded' = discarded
      \/ discarded' = discarded \cup ToSet(queue)
  BY DEF DutyInv, BeginRunner, EndTurn, LoadWaiting, EnsureRunner, ResumeTurn,
         DrainParked, DrainDone, DrainTerminal, Terminate, Evict
<1>6. queue = <<>> => ToSet(queue) = {}
  BY DEF ToSet
<1>7. ToSet(queue) \cup ToSet(ran) \cup discarded
          \subseteq (ToSet(queue) \cup ToSet(ran) \cup discarded)'
  BY <1>4, <1>5, <1>6
<1> QED BY <1>2, <1>3, <1>4, <1>7, KeptStep

(* A prompt that is accepted is in the queue. *)
LEMMA KeptPush ==
    ASSUME Sequenced, Plain, PromptsKept, NEW p \in Prompts,
           QueueCheck(p) \/ QueuePush(p)
    PROVE  PromptsKept'
<1>1. task' = task /\ ran' = ran /\ discarded' = discarded
  BY DEF QueueCheck, QueuePush
<1>2. CASE accepted' = accepted /\ queue' = queue
  BY <1>1, <1>2 DEF PromptsKept
<1>3. CASE accepted' = Append(accepted, p) /\ queue' = Append(queue, p)
  <2>1. /\ ToSet(accepted') = ToSet(accepted) \cup {p}
        /\ ToSet(queue') = ToSet(queue) \cup {p}
    BY <1>3, AppendSet DEF Sequenced
  <2> QED BY <1>1, <2>1 DEF PromptsKept
<1> QED BY <1>2, <1>3 DEF QueueCheck, QueuePush

(* A prompt goes from the queue into the hands of the drain. *)
LEMMA KeptPop ==
    ASSUME Sequenced, Plain, HandsAreFull, PromptsKept, NEW c \in Tasks, DrainPop(c)
    PROVE  PromptsKept'
<1> DEFINE r == [task[c] EXCEPT !.pc = "popped", !.p = Head(queue), !.resume = FALSE]
<1>1. /\ task' = [task EXCEPT ![c] = r] /\ queue' = Tail(queue) /\ queue # <<>>
      /\ task[c].pc = "drain" /\ accepted' = accepted /\ ran' = ran
      /\ discarded' = discarded
  BY DEF DrainPop, Set, At, intake
<1>2. task[c].p = None /\ None \notin Prompts
  BY <1>1, MailboxAssumption DEF HandsAreFull
<1>3. r.p = Head(queue)
  BY DEF Plain, Task
<1>4. task'[c] = r /\ \A d \in Tasks : d # c => task'[d] = task[d]
  BY <1>1 DEF Plain
<1> HIDE DEF r
<1> SUFFICES ASSUME NEW p \in ToSet(accepted)
             PROVE  \/ p \in (ToSet(queue) \cup ToSet(ran) \cup discarded)'
                    \/ \E d \in Tasks : task'[d].p = p
  BY <1>1 DEF PromptsKept
<1>5. p \in Prompts
  BY InSequence DEF Sequenced
<1>6. CASE p \in ToSet(queue)
  BY <1>1, <1>3, <1>4, <1>6, TailSet DEF Sequenced
<1>7. CASE p \in ToSet(ran) \cup discarded
  BY <1>1, <1>7
<1>8. CASE \E d \in Tasks : task[d].p = p
  BY <1>2, <1>4, <1>5, <1>8
<1> QED BY <1>6, <1>7, <1>8 DEF PromptsKept

(* A prompt goes from the hands of the drain into a turn. *)
LEMMA KeptRun ==
    ASSUME Sequenced, Plain, PromptsKept, NEW c \in Tasks, CreateTurn(c)
    PROVE  PromptsKept'
<1>1. /\ queue' = queue /\ accepted' = accepted /\ discarded' = discarded
      /\ ran' = IF task[c].p = None THEN ran ELSE Append(ran, task[c].p)
      /\ \A d \in Tasks : d # c => task'[d] = task[d]
  BY DEF CreateTurn, Set, intake, Plain
<1>2. task[c].p # None => ToSet(ran') = ToSet(ran) \cup {task[c].p}
  BY <1>1, AppendSet DEF Sequenced, Plain, Task
<1> SUFFICES ASSUME NEW p \in ToSet(accepted)
             PROVE  \/ p \in (ToSet(queue) \cup ToSet(ran) \cup discarded)'
                    \/ \E d \in Tasks : task'[d].p = p
  BY <1>1 DEF PromptsKept
<1>3. p \in Prompts /\ p # None
  BY InSequence, MailboxAssumption DEF Sequenced
<1>4. CASE p \in ToSet(queue) \cup ToSet(ran) \cup discarded
  BY <1>1, <1>2, <1>4
<1>5. CASE \E d \in Tasks : task[d].p = p
  BY <1>1, <1>2, <1>3, <1>5
<1> QED BY <1>4, <1>5 DEF PromptsKept

(* Every step of an undisturbed mailbox keeps the prompts. *)
LEMMA KeptNext ==
    ASSUME MailboxTypeOK, OrderInv, DutyInv, PromptsKept, ~disturbed,
           [MailboxNext]_mailboxVars
    PROVE  PromptsKept'
<1>0. Sequenced /\ Plain /\ HandsAreFull
  BY TypesTogether DEF OrderInv
<1>1. CASE UNCHANGED mailboxVars
  BY <1>1 DEF mailboxVars, session, intake, PromptsKept
<1>2. ASSUME NEW p \in Prompts, QueueCheck(p) \/ QueuePush(p) PROVE PromptsKept'
  BY <1>0, <1>2, KeptPush
<1>3. ASSUME NEW c \in Tasks,
             Progress(c) \/ BeginRunner(c) \/ LoadWaiting(c) \/ Terminate(c)
      PROVE  PromptsKept'
  BY <1>0, <1>3, KeptStill, KeptPop, KeptRun, DutyFaults DEF Progress
<1>4. ~SwitchModel
  BY DEF SwitchModel, MayHappen
<1> QED BY <1>1, <1>2, <1>3, <1>4 DEF MailboxNext

(* Nobody is responsible for an entry that no guard owns. *)
LEMMA DutyOwns == DutyInv => EntryHasOwner
<1> SUFFICES ASSUME DutyInv, open, life = "ready"
             PROVE  \E c \in Tasks : task[c].guard = "open"
                                     /\ (task[c].resume => task[c].pc # "dropping")
  BY DEF EntryHasOwner
<1>1. PICK c \in Tasks : Active(c) /\ Fits(c) /\ Sound(c)
  BY DEF DutyInv
<1> QED BY <1>1 DEF Active, Fits, Sound

(* The mailbox is correct for any number of calls and prompts and any capacity:
   an accepted prompt is kept until it runs or the session ends, in its order,
   and an entry that excludes other calls belongs to one that will remove it
   (queue_follow_up, drain_mailbox, begin_runner_when_settled). *)
THEOREM MailboxSafety == MailboxSpec => []MailboxCorrect
<1> DEFINE Inv == /\ MailboxTypeOK
                  /\ OrderInv
                  /\ ~disturbed => DutyInv /\ PromptsKept
<1>1. MailboxInit => Inv
  <2>1. MailboxInit => PromptsKept
    BY DEF MailboxInit, PromptsKept, ToSet
  <2> QED BY <2>1, TypesInit, OrderInit, DutyInit
<1>2. Inv /\ [MailboxNext]_mailboxVars => Inv'
  <2> SUFFICES ASSUME Inv, [MailboxNext]_mailboxVars PROVE Inv'
    OBVIOUS
  <2>1. disturbed' = disturbed
    BY DEF MailboxNext, mailboxVars
  <2> QED BY <2>1, TypesNext, OrderNext, DutyNext, KeptNext
<1>3. Inv => MailboxCorrect
  BY DutyOwns DEF MailboxCorrect, OrderInv, RanInOrder, Before, RunInOrder
<1> QED BY <1>1, <1>2, <1>3, PTL DEF MailboxSpec

-----------------------------------------------------------------------------
(* The reminder *)

(* Where a call may have a reminder in hand. *)
Holding == {"prepared", "leased", "answering", "answerable"}

WriterStates == [pc : {"idle", "arming", "begun", "loaded", "turn", "answer"} \cup Holding,
            rev : Nat, took : Reminders \cup {NoReminder}]

RemindersPlain ==
    /\ chat \in [life : {"ready", "running", "input"}, rev : Nat, leased : BOOLEAN]
    /\ slot \in Reminders \cup {NoReminder}
    /\ writer \in [Writers -> WriterStates]
    /\ \A w \in Writers : writer[w].took # NoReminder => writer[w].pc \in Holding
    /\ armed \in Seq(Reminders) /\ given \in Seq(Reminders \cup {NoReminder})
    /\ crossed \in BOOLEAN

(* A reminder is armed once, and is in one place after that. *)
OnePlace ==
    /\ slot # NoReminder => slot \in ToSet(armed) /\ \A w \in Writers : writer[w].took # slot
    /\ \A w \in Writers : writer[w].took # NoReminder => writer[w].took \in ToSet(armed)
    /\ \A i \in DOMAIN given : given[i] # NoReminder => given[i] \in ToSet(armed)
    /\ GivenOnce

(* As long as no two calls had one each, what waits is the newest. *)
NewestWaits ==
    ~crossed =>
        /\ slot # NoReminder => armed # <<>> /\ slot = Last(armed)
        /\ \A v, w \in Writers :
              writer[v].took # NoReminder /\ writer[w].took # NoReminder => v = w
        /\ slot = NoReminder =>
              \A w \in Writers :
                 writer[w].took # NoReminder => armed # <<>> /\ writer[w].took = Last(armed)

RemindersInv == RemindersPlain /\ OnePlace /\ NewestWaits /\ NewestIsKept

(* A sequence that grows by one. *)
LEMMA Grown ==
    ASSUME NEW S, NEW s \in Seq(S), NEW x \in S
    PROVE  /\ Append(s, x) \in Seq(S) /\ Append(s, x) # <<>>
           /\ ToSet(Append(s, x)) = ToSet(s) \cup {x} /\ Last(Append(s, x)) = x
           /\ Len(Append(s, x)) = Len(s) + 1 /\ Append(s, x)[Len(s) + 1] = x
           /\ \A i \in DOMAIN s : Append(s, x)[i] = s[i] /\ i # Len(s) + 1
           /\ DOMAIN Append(s, x) = DOMAIN s \cup {Len(s) + 1}
<1> DEFINE t == Append(s, x)
<1>1. /\ t \in Seq(S) /\ Len(t) = Len(s) + 1 /\ t[Len(s) + 1] = x /\ Len(s) \in Nat
      /\ DOMAIN s = 1 .. Len(s) /\ DOMAIN t = 1 .. Len(t)
      /\ \A i \in 1 .. Len(s) : t[i] = s[i]
  OBVIOUS
<1> HIDE DEF t
<1>2. t # <<>> /\ Last(t) = x
  BY <1>1 DEF Last
<1>3. DOMAIN t = DOMAIN s \cup {Len(s) + 1} /\ \A i \in DOMAIN s : i # Len(s) + 1
  BY <1>1
<1>4. ToSet(t) = ToSet(s) \cup {x}
  BY <1>1, <1>3 DEF ToSet
<1> QED BY <1>1, <1>2, <1>3, <1>4 DEF t

(* What the calls have in hand. *)
LEMMA HandsHold ==
    ASSUME RemindersInv
    PROVE  \A x : x \in InHand <=> x # NoReminder /\ \E w \in Writers : writer[w].took = x
BY DEF InHand

(* A call moves without a reminder, or nothing of it moves. *)
LEMMA NothingMoves ==
    ASSUME RemindersInv, UNCHANGED <<slot, armed, given, forfeited, crossed>>,
           chat' \in [life : {"ready", "running", "input"}, rev : Nat, leased : BOOLEAN],
           writer' \in [Writers -> WriterStates],
           \A w \in Writers :
              /\ writer'[w].took = writer[w].took
              /\ writer'[w].took # NoReminder => writer'[w].pc \in Holding
    PROVE  RemindersInv'
<1>1. InHand' = InHand
  BY DEF InHand
<1> QED BY <1>1
        DEF RemindersInv, RemindersPlain, OnePlace, GivenOnce, NewestWaits, NewestIsKept

(* A reminder is armed, and the one that waited before it is no more. *)
LEMMA ArmStep ==
    ASSUME RemindersInv, NEW w \in Writers, NEW r \in Reminders, ArmInsert(w, r)
    PROVE  RemindersInv'
<1>1. /\ writer[w].pc = "arming" /\ r \notin ToSet(armed) /\ slot' = r
      /\ armed' = Append(armed, r) /\ writer' = [writer EXCEPT ![w] = IdleWriter]
      /\ UNCHANGED <<chat, given, forfeited, crossed>> /\ armed \in Seq(Reminders)
      /\ writer \in [Writers -> WriterStates] /\ r # NoReminder /\ writer[w].took = NoReminder
  BY RemindersAssumption DEF ArmInsert, Leaves, RemindersInv, RemindersPlain, Holding
<1>2. /\ armed' \in Seq(Reminders) /\ armed' # <<>> /\ ToSet(armed') = ToSet(armed) \cup {r}
      /\ Last(armed') = r
  BY <1>1, Grown
<1>3. /\ writer' \in [Writers -> WriterStates] /\ writer'[w].took = NoReminder
      /\ \A v \in Writers : /\ writer'[v].took = writer[v].took
                            /\ v # w => writer'[v] = writer[v]
  <2>1. IdleWriter \in WriterStates /\ IdleWriter.took = NoReminder
    BY DEF IdleWriter, WriterStates
  <2> QED BY <1>1, <2>1
<1>4. InHand' = InHand
  BY <1>3 DEF InHand
<1>5. RemindersPlain'
  BY <1>1, <1>2, <1>3 DEF RemindersInv, RemindersPlain
<1>6. OnePlace'
  BY <1>1, <1>2, <1>3, <1>4, HandsHold DEF RemindersInv, OnePlace, GivenOnce
<1>7. NewestWaits' /\ NewestIsKept'
  BY <1>1, <1>2, <1>3 DEF RemindersInv, NewestWaits, NewestIsKept
<1> QED BY <1>5, <1>6, <1>7 DEF RemindersInv

(* A call takes what waits. *)
LEMMA TakeStep ==
    ASSUME RemindersInv, NEW w \in Writers, writer[w].pc \in {"loaded", "answer"},
           NEW pc \in Holding, Take(w, pc), UNCHANGED <<chat, armed, given, forfeited>>
    PROVE  RemindersInv'
<1>1. /\ writer' = [writer EXCEPT ![w].took = slot, ![w].pc = pc] /\ slot' = NoReminder
      /\ crossed' = (crossed \/ (slot # NoReminder /\ InHand # {}))
      /\ writer \in [Writers -> WriterStates] /\ slot \in Reminders \cup {NoReminder}
      /\ writer[w].took = NoReminder
  BY DEF Take, RemindersInv, RemindersPlain, Holding
<1>2. /\ writer' \in [Writers -> WriterStates] /\ writer'[w].took = slot /\ writer'[w].pc = pc
      /\ \A v \in Writers : v # w => writer'[v] = writer[v]
  <2> DEFINE k == [writer[w] EXCEPT !.took = slot, !.pc = pc]
  <2>1. writer' = [writer EXCEPT ![w] = k]
    BY <1>1
  <2>2. k \in WriterStates /\ k.took = slot /\ k.pc = pc
    BY <1>1 DEF WriterStates
  <2> HIDE DEF k
  <2> QED BY <1>1, <2>1, <2>2
<1>3. \A x : x \in InHand' <=> x \in InHand \/ (x = slot /\ x # NoReminder)
  BY <1>1, <1>2 DEF InHand
<1>4. RemindersPlain'
  BY <1>1, <1>2 DEF RemindersInv, RemindersPlain
<1>5. OnePlace'
  <2>1. \A i \in DOMAIN given : given[i] # NoReminder => given[i] \notin {slot'} \cup InHand'
    BY <1>1, <1>3 DEF RemindersInv, OnePlace, GivenOnce
  <2>2. ASSUME NEW u \in Writers, NEW v \in Writers,
               writer'[u].took = writer'[v].took, writer'[u].took # NoReminder
        PROVE  u = v
    BY <1>1, <1>2, <2>2 DEF RemindersInv, OnePlace, GivenOnce
  <2> QED BY <1>1, <1>2, <2>1, <2>2 DEF RemindersInv, OnePlace, GivenOnce
<1>6. NewestWaits'
  <2> SUFFICES ASSUME ~crossed' PROVE NewestWaits'
    BY DEF NewestWaits
  <2>1. ~crossed /\ (slot # NoReminder => \A v \in Writers : writer[v].took = NoReminder)
    BY <1>1, HandsHold
  <2> QED BY <1>1, <1>2, <2>1 DEF RemindersInv, NewestWaits
<1>7. NewestIsKept'
  BY <1>1, <1>3, RemindersAssumption DEF RemindersInv, RemindersPlain, NewestWaits, NewestIsKept
<1> QED BY <1>4, <1>5, <1>6, <1>7 DEF RemindersInv

(* A call that does not start its turn gives back what it took, unless something newer
   waits. *)
LEMMA GiveBackStep ==
    ASSUME RemindersInv, NEW w \in Writers, writer[w].pc \in Holding, GiveBack(w),
           chat' \in [life : {"ready", "running", "input"}, rev : Nat, leased : BOOLEAN],
           UNCHANGED <<armed, given, forfeited, crossed>>
    PROVE  RemindersInv'
<1>1. /\ slot' = IF slot = NoReminder THEN writer[w].took ELSE slot
      /\ writer' = [writer EXCEPT ![w] = IdleWriter] /\ writer \in [Writers -> WriterStates]
      /\ slot \in Reminders \cup {NoReminder}
  BY DEF GiveBack, Restored, Leaves, RemindersInv, RemindersPlain
<1>2. /\ writer' \in [Writers -> WriterStates] /\ writer'[w].took = NoReminder
      /\ \A v \in Writers : v # w => writer'[v] = writer[v]
  <2>1. IdleWriter \in WriterStates /\ IdleWriter.took = NoReminder
    BY DEF IdleWriter, WriterStates
  <2> QED BY <1>1, <2>1
<1>3. \A x \in InHand' : x \in InHand /\ x # writer[w].took
  <2> SUFFICES ASSUME NEW v \in Writers, writer'[v].took # NoReminder
               PROVE  writer'[v].took \in InHand /\ writer'[v].took # writer[w].took
    BY DEF InHand
  <2>1. v # w /\ writer'[v] = writer[v]
    BY <1>2
  <2> QED BY <2>1 DEF InHand, RemindersInv, OnePlace, GivenOnce
<1>4. writer[w].took \in Reminders \cup {NoReminder}
  BY <1>1 DEF WriterStates
<1>5. RemindersPlain'
  BY <1>1, <1>2, <1>4 DEF RemindersInv, RemindersPlain
<1>6. OnePlace'
  <2>1. \A i \in DOMAIN given : given[i] # NoReminder => given[i] \notin {slot'} \cup InHand'
    BY <1>1, <1>3, HandsHold DEF RemindersInv, OnePlace, GivenOnce
  <2>2. ASSUME NEW u \in Writers, NEW v \in Writers,
               writer'[u].took = writer'[v].took, writer'[u].took # NoReminder
        PROVE  u = v
    BY <1>1, <1>2, <2>2 DEF RemindersInv, OnePlace, GivenOnce
  <2>3. slot' # NoReminder =>
           slot' \in ToSet(armed) /\ \A v \in Writers : writer'[v].took # slot'
    BY <1>1, <1>2 DEF RemindersInv, OnePlace, GivenOnce
  <2> QED BY <1>2, <2>1, <2>2, <2>3 DEF RemindersInv, OnePlace, GivenOnce
<1>7. NewestWaits' /\ NewestIsKept'
  <2>1. NewestWaits'
    BY <1>1, <1>2 DEF RemindersInv, NewestWaits
  <2>2. NewestIsKept'
    <3> SUFFICES ASSUME armed # <<>>, ~crossed
                 PROVE  Last(armed) \in {slot'} \cup InHand' \cup ToSet(given) \cup forfeited
      BY DEF NewestIsKept
    <3>1. Last(armed) \in {slot} \cup InHand \cup ToSet(given) \cup forfeited
      BY DEF RemindersInv, NewestIsKept
    <3>2. CASE slot # NoReminder
      BY <1>1, <3>2 DEF RemindersInv, NewestWaits
    <3>3. CASE slot = NoReminder /\ Last(armed) = writer[w].took
      BY <1>1, <3>3
    <3>4. CASE slot = NoReminder /\ Last(armed) # writer[w].took
      <4>1. ASSUME Last(armed) \in InHand PROVE Last(armed) \in InHand'
        <5>1. PICK v \in Writers : writer[v].took = Last(armed) /\ Last(armed) # NoReminder
          BY <4>1, HandsHold
        <5>2. writer'[v].took = Last(armed)
          BY <1>2, <3>4, <5>1
        <5> QED BY <5>1, <5>2 DEF InHand
      <4>2. Last(armed) # NoReminder
        <5>1. armed \in Seq(Reminders) /\ Len(armed) \in 1 .. Len(armed)
          BY DEF RemindersInv, RemindersPlain
        <5>2. Last(armed) \in Reminders
          BY <5>1 DEF Last
        <5> QED BY <5>2, RemindersAssumption
      <4> QED BY <1>1, <3>1, <3>4, <4>1, <4>2
    <3> QED BY <3>2, <3>3, <3>4
  <2> QED BY <2>1, <2>2
<1> QED BY <1>5, <1>6, <1>7 DEF RemindersInv

(* The turn starts, and what was taken is its own. *)
LEMMA GivenStep ==
    ASSUME RemindersInv, NEW w \in Writers, writer[w].pc \in Holding,
           given' = Append(given, writer[w].took),
           writer' = [writer EXCEPT ![w].pc = "turn", ![w].took = NoReminder],
           chat' \in [life : {"ready", "running", "input"}, rev : Nat, leased : BOOLEAN],
           UNCHANGED <<slot, armed, forfeited, crossed>>
    PROVE  RemindersInv'
<1>1. /\ writer \in [Writers -> WriterStates] /\ given \in Seq(Reminders \cup {NoReminder})
      /\ writer[w] \in WriterStates /\ writer[w].took \in Reminders \cup {NoReminder}
  BY DEF RemindersInv, RemindersPlain, WriterStates
<1>2. /\ writer' \in [Writers -> WriterStates] /\ writer'[w].took = NoReminder
      /\ \A v \in Writers : v # w => writer'[v] = writer[v]
  <2> DEFINE k == [writer[w] EXCEPT !.pc = "turn", !.took = NoReminder]
  <2>1. writer' = [writer EXCEPT ![w] = k]
    BY <1>1
  <2>2. k \in WriterStates /\ k.took = NoReminder
    BY <1>1 DEF WriterStates
  <2> HIDE DEF k
  <2> QED BY <1>1, <2>1, <2>2
<1>3. \A x \in InHand' : x \in InHand /\ x # writer[w].took
  <2> SUFFICES ASSUME NEW v \in Writers, writer'[v].took # NoReminder
               PROVE  writer'[v].took \in InHand /\ writer'[v].took # writer[w].took
    BY DEF InHand
  <2>1. v # w /\ writer'[v] = writer[v]
    BY <1>2
  <2> QED BY <2>1 DEF InHand, RemindersInv, OnePlace, GivenOnce
<1> DEFINE n == Len(given) + 1
<1>4. /\ given' \in Seq(Reminders \cup {NoReminder})
      /\ ToSet(given') = ToSet(given) \cup {writer[w].took}
      /\ given'[n] = writer[w].took /\ DOMAIN given' = DOMAIN given \cup {n}
      /\ \A i \in DOMAIN given : given'[i] = given[i] /\ i # n
  BY <1>1, Grown
<1> HIDE DEF n
<1>5. RemindersPlain'
  BY <1>2, <1>4 DEF RemindersInv, RemindersPlain
<1>6. GivenOnce'
  <2>1. writer[w].took # NoReminder =>
           /\ writer[w].took \in InHand /\ writer[w].took # slot
           /\ \A i \in DOMAIN given : given[i] # writer[w].took
    BY HandsHold DEF RemindersInv, OnePlace, GivenOnce
  <2>2. ASSUME NEW i \in DOMAIN given', given'[i] # NoReminder
        PROVE  given'[i] \notin {slot'} \cup InHand'
    BY <1>3, <1>4, <2>1, <2>2 DEF RemindersInv, OnePlace, GivenOnce
  <2>3. ASSUME NEW i \in DOMAIN given', NEW j \in DOMAIN given',
               given'[i] # NoReminder, given'[i] = given'[j]
        PROVE  i = j
    BY <1>4, <2>1, <2>3 DEF RemindersInv, OnePlace, GivenOnce
  <2>4. ASSUME NEW u \in Writers, NEW v \in Writers,
               writer'[u].took = writer'[v].took, writer'[u].took # NoReminder
        PROVE  u = v
    BY <1>1, <1>2, <2>4 DEF RemindersInv, OnePlace, GivenOnce
  <2> QED BY <2>2, <2>3, <2>4 DEF GivenOnce
<1>7. OnePlace'
  BY <1>2, <1>4, <1>6 DEF RemindersInv, OnePlace
<1>8. NewestWaits'
  BY <1>2 DEF RemindersInv, NewestWaits
<1>9. NewestIsKept'
  <2> SUFFICES ASSUME armed # <<>>, ~crossed
               PROVE  Last(armed) \in {slot} \cup InHand' \cup ToSet(given') \cup forfeited
    BY DEF NewestIsKept
  <2>1. Last(armed) \in {slot} \cup InHand \cup ToSet(given) \cup forfeited
    BY DEF RemindersInv, NewestIsKept
  <2>2. ASSUME Last(armed) \in InHand, Last(armed) # writer[w].took
        PROVE  Last(armed) \in InHand'
    <3>1. PICK v \in Writers : writer[v].took = Last(armed) /\ Last(armed) # NoReminder
      BY <2>2, HandsHold
    <3>2. writer'[v].took = Last(armed)
      BY <1>2, <2>2, <3>1
    <3> QED BY <3>1, <3>2 DEF InHand
  <2> QED BY <1>4, <2>1, <2>2
<1> QED BY <1>5, <1>7, <1>8, <1>9 DEF RemindersInv

(* An answer that is refused keeps what it took, to nobody's use. *)
LEMMA RefuseStep ==
    ASSUME RemindersInv, NEW w \in Writers, RefuseAnswer(w) PROVE RemindersInv'
<1>1. /\ writer' = [writer EXCEPT ![w] = IdleWriter] /\ writer \in [Writers -> WriterStates]
      /\ forfeited' = forfeited \cup ({writer[w].took} \ {NoReminder})
      /\ UNCHANGED <<chat, slot, armed, given, crossed>>
  BY DEF RefuseAnswer, Leaves, RemindersInv, RemindersPlain
<1>2. /\ writer' \in [Writers -> WriterStates] /\ writer'[w].took = NoReminder
      /\ \A v \in Writers : v # w => writer'[v] = writer[v]
  <2>1. IdleWriter \in WriterStates /\ IdleWriter.took = NoReminder
    BY DEF IdleWriter, WriterStates
  <2> QED BY <1>1, <2>1
<1>3. \A x \in InHand' : x \in InHand
  BY <1>2 DEF InHand
<1>4. RemindersPlain'
  BY <1>1, <1>2 DEF RemindersInv, RemindersPlain
<1>5. GivenOnce'
  <2>1. ASSUME NEW u \in Writers, NEW v \in Writers,
               writer'[u].took = writer'[v].took, writer'[u].took # NoReminder
        PROVE  u = v
    BY <1>1, <1>2, <2>1 DEF RemindersInv, OnePlace, GivenOnce
  <2> QED BY <1>1, <1>3, <2>1 DEF RemindersInv, OnePlace, GivenOnce
<1>6. OnePlace' /\ NewestWaits'
  BY <1>1, <1>2, <1>5 DEF RemindersInv, OnePlace, NewestWaits
<1>7. NewestIsKept'
  <2>1. ASSUME NEW x \in InHand PROVE x \in InHand' \cup forfeited'
    <3>1. PICK v \in Writers : writer[v].took = x /\ x # NoReminder
      BY <2>1, HandsHold
    <3>2. CASE v = w
      BY <1>1, <3>1, <3>2
    <3>3. CASE v # w
      BY <1>2, <3>1, <3>3 DEF InHand
    <3> QED BY <3>2, <3>3
  <2> QED BY <1>1, <2>1 DEF RemindersInv, NewestIsKept
<1> QED BY <1>4, <1>6, <1>7 DEF RemindersInv

(* What a call without a reminder becomes. *)
LEMMA MovesOn ==
    ASSUME RemindersInv, NEW w \in Writers, NEW k \in WriterStates,
           writer' = [writer EXCEPT ![w] = k], k.took = writer[w].took,
           k.took # NoReminder => k.pc \in Holding
    PROVE  /\ writer' \in [Writers -> WriterStates]
           /\ \A v \in Writers :
                 /\ writer'[v].took = writer[v].took
                 /\ writer'[v].took # NoReminder => writer'[v].pc \in Holding
BY DEF RemindersInv, RemindersPlain

(* A follow-up. *)
LEMMA FollowUpSteps ==
    ASSUME RemindersInv, NEW w \in Writers, FollowUpStep(w) PROVE RemindersInv'
<1>1. /\ chat \in [life : {"ready", "running", "input"}, rev : Nat, leased : BOOLEAN]
      /\ writer \in [Writers -> WriterStates] /\ writer[w] \in WriterStates
      /\ (writer[w].took # NoReminder => writer[w].pc \in Holding)
      /\ IdleWriter \in WriterStates /\ IdleWriter.took = NoReminder
  BY DEF RemindersInv, RemindersPlain, IdleWriter, WriterStates
<1>2. CASE BeginFollowUp(w)
  <2> DEFINE k == [writer[w] EXCEPT !.pc = "begun"]
  <2>1. writer' = [writer EXCEPT ![w] = k] /\ writer[w].pc = "idle"
        /\ UNCHANGED <<chat, slot, armed, given, forfeited, crossed>>
    BY <1>2 DEF BeginFollowUp, Goes, RemindersInv, RemindersPlain
  <2>2. k \in WriterStates /\ k.took = writer[w].took /\ k.took = NoReminder
    BY <1>1, <2>1 DEF WriterStates, Holding
  <2> HIDE DEF k
  <2> QED BY <1>1, <2>1, <2>2, MovesOn, NothingMoves
<1>3. CASE LoadFollowUp(w)
  <2>1. writer[w].pc = "begun" /\ UNCHANGED <<chat, slot, armed, given, forfeited, crossed>>
        /\ writer[w].took = NoReminder
    BY <1>1, <1>3 DEF LoadFollowUp, Holding
  <2>2. CASE chat.life = "ready"
    <3> DEFINE k == [writer[w] EXCEPT !.pc = "loaded", !.rev = chat.rev]
    <3>1. writer' = [writer EXCEPT ![w] = k]
      BY <1>1, <1>3, <2>2 DEF LoadFollowUp
    <3>2. k \in WriterStates /\ k.took = writer[w].took
      BY <1>1 DEF WriterStates
    <3> HIDE DEF k
    <3> QED BY <1>1, <2>1, <3>1, <3>2, MovesOn, NothingMoves
  <2>3. CASE chat.life # "ready"
    <3>1. writer' = [writer EXCEPT ![w] = IdleWriter]
      BY <1>3, <2>3 DEF LoadFollowUp, Leaves
    <3> QED BY <1>1, <2>1, <3>1, MovesOn, NothingMoves
  <2> QED BY <2>2, <2>3
<1>4. CASE TakeForFollowUp(w)
  BY <1>4, TakeStep DEF TakeForFollowUp, Holding
<1>5. CASE RefuseFollowUp(w)
  BY <1>1, <1>5, GiveBackStep DEF RefuseFollowUp, Holding
<1>6. CASE AcquireFor(w, "prepared", "leased")
  <2> DEFINE k == [writer[w] EXCEPT !.pc = "leased"]
  <2>1. writer' = [writer EXCEPT ![w] = k] /\ chat' = [chat EXCEPT !.leased = TRUE]
        /\ UNCHANGED <<slot, armed, given, forfeited, crossed>>
    BY <1>1, <1>6 DEF AcquireFor, Goes
  <2>2. k \in WriterStates /\ k.took = writer[w].took /\ k.pc \in Holding
    BY <1>1 DEF WriterStates, Holding
  <2> HIDE DEF k
  <2>3. chat' \in [life : {"ready", "running", "input"}, rev : Nat, leased : BOOLEAN]
    BY <1>1, <2>1
  <2> QED BY <2>1, <2>2, <2>3, MovesOn, NothingMoves
<1>7. CASE CommitFollowUp(w)
  <2>1. CASE chat.life = "ready" /\ chat.rev = writer[w].rev
    <3>1. chat' \in [life : {"ready", "running", "input"}, rev : Nat, leased : BOOLEAN]
      <4>1. chat' = [life |-> "running", rev |-> chat.rev + 1, leased |-> TRUE]
            /\ chat.rev + 1 \in Nat
        BY <1>1, <1>7, <2>1 DEF CommitFollowUp
      <4> QED BY <4>1
    <3> QED BY <1>7, <2>1, <3>1, GivenStep DEF CommitFollowUp, Holding
  <2>2. CASE ~(chat.life = "ready" /\ chat.rev = writer[w].rev)
    <3>1. chat' \in [life : {"ready", "running", "input"}, rev : Nat, leased : BOOLEAN]
      BY <1>1, <1>7, <2>2 DEF CommitFollowUp
    <3> QED BY <1>7, <2>2, <3>1, GiveBackStep DEF CommitFollowUp, Holding
  <2> QED BY <2>1, <2>2
<1>8. CASE LeaveTurn(w)
  <2>1. writer[w].took = NoReminder /\ writer' = [writer EXCEPT ![w] = IdleWriter]
        /\ UNCHANGED <<slot, armed, given, forfeited, crossed>>
    BY <1>1, <1>8 DEF LeaveTurn, Leaves, Holding
  <2>2. chat' \in [life : {"ready", "running", "input"}, rev : Nat, leased : BOOLEAN]
    BY <1>1, <1>8 DEF LeaveTurn
  <2> QED BY <1>1, <2>1, <2>2, MovesOn, NothingMoves
<1> QED BY <1>2, <1>3, <1>4, <1>5, <1>6, <1>7, <1>8 DEF FollowUpStep

(* An answer. *)
LEMMA AnswerSteps ==
    ASSUME RemindersInv, NEW w \in Writers, AnswerStep(w) PROVE RemindersInv'
<1>1. /\ chat \in [life : {"ready", "running", "input"}, rev : Nat, leased : BOOLEAN]
      /\ writer \in [Writers -> WriterStates] /\ writer[w] \in WriterStates
      /\ (writer[w].took # NoReminder => writer[w].pc \in Holding)
  BY DEF RemindersInv, RemindersPlain
<1>2. CASE LoadAnswer(w)
  <2> DEFINE k == [writer[w] EXCEPT !.pc = "answer", !.rev = chat.rev]
  <2>1. writer' = [writer EXCEPT ![w] = k] /\ writer[w].pc = "idle"
        /\ UNCHANGED <<chat, slot, armed, given, forfeited, crossed>>
    BY <1>1, <1>2 DEF LoadAnswer
  <2>2. k \in WriterStates /\ k.took = writer[w].took /\ k.took = NoReminder
    BY <1>1, <2>1 DEF WriterStates, Holding
  <2> HIDE DEF k
  <2> QED BY <1>1, <2>1, <2>2, MovesOn, NothingMoves
<1>3. CASE TakeForAnswer(w)
  BY <1>3, TakeStep DEF TakeForAnswer, Holding
<1>4. CASE UnpreparedAnswer(w)
  BY <1>1, <1>4, GiveBackStep DEF UnpreparedAnswer, Holding
<1>5. CASE RefuseAnswer(w)
  BY <1>5, RefuseStep
<1>6. CASE AcquireFor(w, "answering", "answerable")
  <2> DEFINE k == [writer[w] EXCEPT !.pc = "answerable"]
  <2>1. writer' = [writer EXCEPT ![w] = k] /\ chat' = [chat EXCEPT !.leased = TRUE]
        /\ UNCHANGED <<slot, armed, given, forfeited, crossed>>
    BY <1>1, <1>6 DEF AcquireFor, Goes
  <2>2. k \in WriterStates /\ k.took = writer[w].took /\ k.pc \in Holding
    BY <1>1 DEF WriterStates, Holding
  <2> HIDE DEF k
  <2>3. chat' \in [life : {"ready", "running", "input"}, rev : Nat, leased : BOOLEAN]
    BY <1>1, <2>1
  <2> QED BY <2>1, <2>2, <2>3, MovesOn, NothingMoves
<1>7. CASE CommitAnswer(w)
  <2>1. CASE chat.life = "input" /\ chat.rev = writer[w].rev
    <3>1. chat' \in [life : {"ready", "running", "input"}, rev : Nat, leased : BOOLEAN]
      <4>1. chat' = [life |-> "running", rev |-> chat.rev + 1, leased |-> TRUE]
            /\ chat.rev + 1 \in Nat
        BY <1>1, <1>7, <2>1 DEF CommitAnswer
      <4> QED BY <4>1
    <3> QED BY <1>7, <2>1, <3>1, GivenStep DEF CommitAnswer, Holding
  <2>2. CASE ~(chat.life = "input" /\ chat.rev = writer[w].rev)
    <3>1. chat' \in [life : {"ready", "running", "input"}, rev : Nat, leased : BOOLEAN]
      BY <1>1, <1>7, <2>2 DEF CommitAnswer
    <3> QED BY <1>7, <2>2, <3>1, GiveBackStep DEF CommitAnswer, Holding
  <2> QED BY <2>1, <2>2
<1> QED BY <1>2, <1>3, <1>4, <1>5, <1>6, <1>7 DEF AnswerStep

(* Whoever arms, takes, gives back or is refused meanwhile, the newest reminder is in one
   place until a turn owns it (NewestIsKept), and no reminder is given to two turns
   (GivenOnce): set_reminder, take_reminder and restore_reminder with their callers. *)
THEOREM RemindersSafety == RemindersSpec => []RemindersCorrect
<1>1. RemindersInit => RemindersInv
  <2> SUFFICES ASSUME RemindersInit PROVE RemindersInv
    OBVIOUS
  <2>1. IdleWriter \in WriterStates /\ IdleWriter.took = NoReminder
    BY DEF IdleWriter, WriterStates
  <2>2. \A w \in Writers : writer[w].took = NoReminder
    BY <2>1 DEF RemindersInit
  <2>3. RemindersPlain /\ armed = <<>> /\ given = <<>>
    <3>1. chat \in [life : {"ready", "running", "input"}, rev : Nat, leased : BOOLEAN]
      BY DEF RemindersInit
    <3>2. writer \in [Writers -> WriterStates]
      BY <2>1 DEF RemindersInit
    <3>3. armed \in Seq(Reminders) /\ given \in Seq(Reminders \cup {NoReminder})
      BY DEF RemindersInit
    <3> QED BY <2>2, <3>1, <3>2, <3>3 DEF RemindersInit, RemindersPlain
  <2>4. OnePlace
    BY <2>2, <2>3 DEF OnePlace, GivenOnce, RemindersInit
  <2> QED BY <2>2, <2>3, <2>4 DEF RemindersInit, RemindersInv, NewestWaits, NewestIsKept
<1>2. RemindersInv /\ [RemindersNext]_remindersVars => RemindersInv'
  <2> SUFFICES ASSUME RemindersInv, [RemindersNext]_remindersVars PROVE RemindersInv'
    OBVIOUS
  <2>1. ASSUME NEW w \in Writers, ArmCheck(w) PROVE RemindersInv'
    <3> DEFINE k == [writer[w] EXCEPT !.pc = "arming"]
    <3>1. /\ writer' = [writer EXCEPT ![w] = k] /\ writer[w].pc = "idle"
          /\ writer[w] \in WriterStates /\ writer[w].took = NoReminder
          /\ chat \in [life : {"ready", "running", "input"}, rev : Nat, leased : BOOLEAN]
          /\ UNCHANGED <<chat, slot, armed, given, forfeited, crossed>>
      BY <2>1 DEF ArmCheck, Goes, RemindersInv, RemindersPlain, Holding
    <3>2. k \in WriterStates /\ k.took = writer[w].took
      BY <3>1 DEF WriterStates
    <3> HIDE DEF k
    <3> QED BY <3>1, <3>2, MovesOn, NothingMoves
  <2>2. CASE Rival
    <3>1. chat' \in [life : {"ready", "running", "input"}, rev : Nat, leased : BOOLEAN]
      <4>1. PICK next \in {"ready", "input"} :
               chat' = [chat EXCEPT !.life = next, !.rev = chat.rev + 1]
        BY <2>2 DEF Rival
      <4>2. /\ chat \in [life : {"ready", "running", "input"}, rev : Nat, leased : BOOLEAN]
            /\ chat.rev + 1 \in Nat
        BY DEF RemindersInv, RemindersPlain
      <4> QED BY <4>1, <4>2
    <3> QED BY <2>2, <3>1, NothingMoves DEF Rival, RemindersInv, RemindersPlain
  <2>3. CASE UNCHANGED remindersVars
    BY <2>3, NothingMoves DEF remindersVars, RemindersInv, RemindersPlain
  <2> QED BY <2>1, <2>2, <2>3, ArmStep, FollowUpSteps, AnswerSteps DEF RemindersNext
<1>3. RemindersInv => RemindersCorrect
  BY DEF RemindersInv, RemindersCorrect, OnePlace
<1> QED BY <1>1, <1>2, <1>3, PTL DEF RemindersSpec

-----------------------------------------------------------------------------
(* The commands of the HTTP service *)

Records == [payload : Payloads, revision : Nat, accepted : BOOLEAN]

Databases == [exists : BOOLEAN, revision : Nat, life : {"ready", "running", "over"},
              lease : Servers \cup {Nobody, Dead}, record : [Commands -> Records]]

Requests == [stage : HandlerStages, server : Servers \cup {Nobody}, command : Commands,
             payload : Payloads]

Acceptances == [signal : Signals, revision : Nat]

(* What somebody says of a command is what its record says. *)
Agrees(r, payload, revision) == r.accepted /\ payload = r.payload /\ revision = r.revision

(* Whoever remembers a command, in memory or by what it was told, agrees with the record. *)
ServiceInv ==
    /\ ServiceTypeOK
    /\ \A a \in Attempts :
          /\ attempt[a].stage = "unused" => job[a] = "none" /\ accept[a].signal = "none"
          /\ attempt[a].stage # "unused" => attempt[a].server \in Servers
          /\ accept[a].signal \in {"created", "replayed"} =>
                Agrees(db.record[attempt[a].command], attempt[a].payload, accept[a].revision)
    /\ \A s \in Servers, c \in Commands :
          ledger[s][c].state = "done" =>
             Agrees(db.record[c], ledger[s][c].payload, ledger[s][c].revision)
    /\ \A x \in turns : x.command \in Commands /\ db.record[x.command].accepted
    /\ \A x \in answers : x.command \in Commands
    /\ EffectOnce /\ AnswersAgree

(* A step that leaves accepted records alone, and after which whoever learnt something
   new agrees with the record, keeps the invariant. *)
LEMMA StepAgrees ==
    ASSUME ServiceInv, ServiceTypeOK',
           \A c \in Commands : db.record[c].accepted => db'.record[c] = db.record[c],
           \A a \in Attempts :
              /\ attempt[a].stage # "unused" =>
                    /\ attempt'[a].stage # "unused" /\ attempt'[a].server = attempt[a].server
                    /\ attempt'[a].command = attempt[a].command
                    /\ attempt'[a].payload = attempt[a].payload
              /\ attempt'[a].stage = "unused" => job'[a] = "none" /\ accept'[a].signal = "none"
              /\ attempt'[a].stage # "unused" => attempt'[a].server \in Servers
              /\ \/ accept'[a] = accept[a]
                 \/ accept'[a].signal \in {"created", "replayed"} =>
                      Agrees(db'.record[attempt'[a].command], attempt'[a].payload,
                             accept'[a].revision),
           \A s \in Servers, c \in Commands :
              \/ ledger'[s][c] = ledger[s][c]
              \/ ledger'[s][c].state = "done" =>
                    Agrees(db'.record[c], ledger'[s][c].payload, ledger'[s][c].revision),
           \/ turns' = turns
           \/ \E c \in Commands, a \in Attempts :
                 /\ turns' = turns \cup {[command |-> c, attempt |-> a]}
                 /\ ~db.record[c].accepted /\ db'.record[c].accepted,
           \A x \in answers' :
              \/ x \in answers
              \/ /\ x.command \in Commands
                 /\ x.status = "ok" => Agrees(db'.record[x.command], x.payload, x.revision)
    PROVE  ServiceInv'
<1>1. \A a \in Attempts :
          /\ attempt'[a].stage = "unused" => job'[a] = "none" /\ accept'[a].signal = "none"
          /\ attempt'[a].stage # "unused" => attempt'[a].server \in Servers
          /\ accept'[a].signal \in {"created", "replayed"} =>
                Agrees(db'.record[attempt'[a].command], attempt'[a].payload,
                       accept'[a].revision)
  <2> SUFFICES ASSUME NEW a \in Attempts, accept'[a].signal \in {"created", "replayed"},
                      accept'[a] = accept[a]
               PROVE  Agrees(db'.record[attempt'[a].command], attempt'[a].payload,
                             accept'[a].revision)
    OBVIOUS
  <2>1. attempt[a].stage # "unused" /\ attempt[a].command \in Commands
    BY DEF ServiceInv, ServiceTypeOK
  <2>2. Agrees(db.record[attempt[a].command], attempt[a].payload, accept[a].revision)
    BY DEF ServiceInv
  <2>3. db'.record[attempt[a].command] = db.record[attempt[a].command]
    BY <2>1, <2>2 DEF Agrees
  <2> QED BY <2>1, <2>2, <2>3
<1>2. \A s \in Servers, c \in Commands :
          ledger'[s][c].state = "done" =>
             Agrees(db'.record[c], ledger'[s][c].payload, ledger'[s][c].revision)
  BY DEF ServiceInv, Agrees
<1>3. \A x \in turns : x.command \in Commands /\ db.record[x.command].accepted
                       /\ db'.record[x.command].accepted
  BY DEF ServiceInv
<1>4. (\A x \in turns' : x.command \in Commands /\ db'.record[x.command].accepted) /\ EffectOnce'
  <2>1. CASE turns' = turns
    BY <1>3, <2>1 DEF ServiceInv, EffectOnce
  <2>2. CASE \E c \in Commands, a \in Attempts :
                 /\ turns' = turns \cup {[command |-> c, attempt |-> a]}
                 /\ ~db.record[c].accepted /\ db'.record[c].accepted
    BY <1>3, <2>2 DEF ServiceInv, EffectOnce
  <2> QED BY <2>1, <2>2
<1>5. (\A x \in answers' : x.command \in Commands) /\ AnswersAgree'
  <2>1. \A x \in answers : x.command \in Commands
    BY DEF ServiceInv
  <2>2. \A x \in answers : x.status = "ok" => Agrees(db.record[x.command], x.payload, x.revision)
    BY DEF ServiceInv, AnswersAgree, Agrees
  <2>3. \A x \in answers' : x.status = "ok" => Agrees(db'.record[x.command], x.payload, x.revision)
    BY <2>1, <2>2 DEF Agrees
  <2> QED BY <2>1, <2>3 DEF AnswersAgree, Agrees
<1> QED BY <1>1, <1>2, <1>4, <1>5 DEF ServiceInv

(* The types, by name. *)
LEMMA ServiceTypes ==
    /\ ServiceTypeOK <=>
          /\ db \in Databases /\ ledger \in [Servers -> [Commands -> Slots]]
          /\ opened \in [Servers -> Nat] /\ index \subseteq Servers
          /\ runner \in [Servers -> Attempts \cup {Nobody}]
          /\ attempt \in [Attempts -> Requests] /\ job \in [Attempts -> TaskStages]
          /\ accept \in [Attempts -> Acceptances] /\ crashes \in 0 .. MaxCrashes
    /\ ServiceTypeOK' <=>
          /\ db' \in Databases /\ ledger' \in [Servers -> [Commands -> Slots]]
          /\ opened' \in [Servers -> Nat] /\ index' \subseteq Servers
          /\ runner' \in [Servers -> Attempts \cup {Nobody}]
          /\ attempt' \in [Attempts -> Requests] /\ job' \in [Attempts -> TaskStages]
          /\ accept' \in [Attempts -> Acceptances] /\ crashes' \in 0 .. MaxCrashes
BY DEF ServiceTypeOK, Databases, Records, Requests, Acceptances

(* One held of a ledger is written. *)
LEMMA OneSlot ==
    ASSUME NEW l \in [Servers -> [Commands -> Slots]], NEW s \in Servers, NEW c \in Commands,
           NEW v \in Slots
    PROVE  LET m == [l EXCEPT ![s][c] = v] IN
           /\ m \in [Servers -> [Commands -> Slots]] /\ m[s][c] = v
           /\ \A t \in Servers, d \in Commands : t # s \/ d # c => m[t][d] = l[t][d]
OBVIOUS

(* The stage of a request changes. *)
LEMMA OneStage ==
    ASSUME NEW f \in [Attempts -> Requests], NEW a \in Attempts, NEW stage \in HandlerStages
    PROVE  LET g == [f EXCEPT ![a].stage = stage] IN
           /\ g \in [Attempts -> Requests] /\ g[a].stage = stage /\ g[a].server = f[a].server
           /\ g[a].command = f[a].command /\ g[a].payload = f[a].payload
           /\ \A b \in Attempts : b # a => g[b] = f[b]
<1> DEFINE k == [f[a] EXCEPT !.stage = stage]
<1>1. k \in Requests /\ k.stage = stage /\ k.server = f[a].server
      /\ k.command = f[a].command /\ k.payload = f[a].payload
  BY DEF Requests
<1>2. [f EXCEPT ![a].stage = stage] = [f EXCEPT ![a] = k]
  OBVIOUS
<1> HIDE DEF k
<1> QED BY <1>1, <1>2

(* A request comes in. *)
LEMMA RequestStep ==
    ASSUME ServiceInv, NEW a \in Attempts, NEW s \in Servers, NEW c \in Commands,
           NEW p \in Payloads, Request(a, s, c, p)
    PROVE  ServiceInv'
<1> DEFINE held == ledger[s][c]
           claim == Claim(held, p)
           stage == IF claim = "owner" THEN "route" ELSE "answered"
           k == [stage |-> stage, server |-> s, command |-> c, payload |-> p]
           v == IF claim = "owner" THEN [state |-> "pending", payload |-> p, revision |-> 0]
                ELSE held
<1>1. /\ attempt[a].stage = "unused" /\ attempt' = [attempt EXCEPT ![a] = k]
      /\ ledger' = [ledger EXCEPT ![s][c] = v]
      /\ UNCHANGED <<db, opened, index, runner, job, accept, turns, crashes>>
      /\ \A x \in answers' :
            \/ x \in answers
            \/ x = [command |-> c, payload |-> p,
                    status |-> IF claim = "replay" THEN "ok" ELSE claim,
                    revision |-> held.revision]
  BY DEF Request
<1>2. /\ ledger \in [Servers -> [Commands -> Slots]] /\ held \in Slots
      /\ attempt \in [Attempts -> Requests] /\ ServiceTypeOK
      /\ job[a] = "none" /\ accept[a].signal = "none"
  BY <1>1, ServiceTypes DEF ServiceInv
<1>3. claim = "replay" => held.state = "done" /\ held.payload = p
  BY <1>2 DEF Claim, Slots
<1>4. k \in Requests /\ k.stage # "unused" /\ v \in Slots
      /\ (v = held \/ v.state = "pending")
  BY <1>2 DEF Requests, HandlerStages, Slots
<1>5. /\ attempt' \in [Attempts -> Requests] /\ attempt'[a] = k /\ k.server = s
      /\ \A b \in Attempts : b # a => attempt'[b] = attempt[b]
  BY <1>1, <1>2, <1>4
<1>6. /\ ledger' \in [Servers -> [Commands -> Slots]] /\ ledger'[s][c] = v
      /\ \A t \in Servers, d \in Commands : t # s \/ d # c => ledger'[t][d] = ledger[t][d]
  <2> HIDE DEF v
  <2> QED BY <1>1, <1>2, <1>4, OneSlot
<1>7. \A x \in answers' :
         \/ x \in answers
         \/ /\ x.command \in Commands
            /\ x.status = "ok" => Agrees(db'.record[x.command], x.payload, x.revision)
  <2> SUFFICES ASSUME NEW x \in answers', x \notin answers
               PROVE  /\ x.command \in Commands
                      /\ x.status = "ok" => Agrees(db'.record[x.command], x.payload, x.revision)
    OBVIOUS
  <2>1. /\ x.command = c /\ x.payload = p /\ x.revision = held.revision
        /\ x.status = IF claim = "replay" THEN "ok" ELSE claim
    BY <1>1
  <2>2. claim # "ok"
    BY <1>2 DEF Claim, Slots
  <2>3. claim = "replay" => Agrees(db.record[c], p, held.revision)
    BY <1>3 DEF ServiceInv
  <2> QED BY <1>1, <2>1, <2>2, <2>3
<1> HIDE DEF k, v, claim, held
<1>8. ServiceTypeOK'
  BY <1>1, <1>2, <1>5, <1>6, ServiceTypes
<1>9. \A t \in Servers, d \in Commands :
         ledger'[t][d] = ledger[t][d] \/ ledger'[t][d].state = "pending"
  BY <1>4, <1>6 DEF held
<1>10. \A b \in Attempts :
          /\ attempt[b].stage # "unused" => attempt'[b] = attempt[b]
          /\ attempt'[b].stage = "unused" => job'[b] = "none" /\ accept'[b].signal = "none"
          /\ attempt'[b].stage # "unused" => attempt'[b].server \in Servers
          /\ accept'[b] = accept[b]
  BY <1>1, <1>4, <1>5 DEF ServiceInv
<1> QED BY <1>1, <1>7, <1>8, <1>9, <1>10, StepAgrees

(* A task takes a step, and the handlers do not move. *)
LEMMA TaskStep ==
    ASSUME ServiceInv, NEW a \in Attempts, job[a] # "none",
           UNCHANGED <<ledger, opened, index, attempt, answers, crashes>>,
           db' \in Databases, runner' \in [Servers -> Attempts \cup {Nobody}],
           job' \in [Attempts -> TaskStages], accept' \in [Attempts -> Acceptances],
           \A b \in Attempts : b # a => job'[b] = job[b] /\ accept'[b] = accept[b],
           \A c \in Commands : db.record[c].accepted => db'.record[c] = db.record[c],
           \/ accept'[a] = accept[a]
           \/ accept'[a].signal \in {"created", "replayed"} =>
                Agrees(db'.record[attempt[a].command], attempt[a].payload, accept'[a].revision),
           \/ turns' = turns
           \/ \E c \in Commands :
                 /\ turns' = turns \cup {[command |-> c, attempt |-> a]}
                 /\ ~db.record[c].accepted /\ db'.record[c].accepted
    PROVE  ServiceInv'
<1>1. ServiceTypeOK'
  BY ServiceTypes DEF ServiceInv
<1>2. attempt[a].stage # "unused"
  BY DEF ServiceInv
<1>3. \A b \in Attempts :
         /\ attempt'[b].stage = "unused" => job'[b] = "none" /\ accept'[b].signal = "none"
         /\ attempt'[b].stage # "unused" => attempt'[b].server \in Servers
         /\ \/ accept'[b] = accept[b]
            \/ accept'[b].signal \in {"created", "replayed"} =>
                  Agrees(db'.record[attempt'[b].command], attempt'[b].payload,
                         accept'[b].revision)
  BY <1>2 DEF ServiceInv
<1> QED BY <1>1, <1>3, StepAgrees

(* What a task has when it takes a step. *)
LEMMA TaskHas ==
    ASSUME ServiceInv, NEW a \in Attempts, job[a] # "none"
    PROVE  /\ db \in Databases /\ db.record \in [Commands -> Records]
           /\ runner \in [Servers -> Attempts \cup {Nobody}]
           /\ job \in [Attempts -> TaskStages] /\ accept \in [Attempts -> Acceptances]
           /\ ServerOf(a) \in Servers /\ CommandOf(a) \in Commands
           /\ PayloadOf(a) \in Payloads
           /\ db.record[CommandOf(a)] \in Records /\ db.revision \in Nat
<1>1. /\ db \in Databases /\ runner \in [Servers -> Attempts \cup {Nobody}]
      /\ job \in [Attempts -> TaskStages] /\ accept \in [Attempts -> Acceptances]
      /\ attempt \in [Attempts -> Requests] /\ attempt[a].stage # "unused"
  BY ServiceTypes DEF ServiceInv
<1>2. attempt[a].server \in Servers /\ attempt[a] \in Requests
  BY <1>1 DEF ServiceInv
<1> QED BY <1>1, <1>2 DEF Requests, Databases, ServerOf, CommandOf, PayloadOf

(* The task stops, and says why. *)
LEMMA StopKeeps ==
    ASSUME ServiceInv, NEW a \in Attempts, job[a] # "none",
           NEW signal \in Signals, NEW revision \in Nat, Stop(a, signal, revision)
    PROVE  /\ runner' \in [Servers -> Attempts \cup {Nobody}]
           /\ job' \in [Attempts -> TaskStages] /\ accept' \in [Attempts -> Acceptances]
           /\ \A b \in Attempts : b # a => job'[b] = job[b] /\ accept'[b] = accept[b]
           /\ accept'[a].signal = signal /\ accept'[a].revision = revision
<1>1. /\ accept' = [accept EXCEPT ![a] = [signal |-> signal, revision |-> revision]]
      /\ job' = [job EXCEPT ![a] = "ended"]
      /\ runner' = [runner EXCEPT ![ServerOf(a)] =
                       IF runner[ServerOf(a)] = a THEN Nobody ELSE runner[ServerOf(a)]]
  BY TaskHas DEF Stop
<1>2. [signal |-> signal, revision |-> revision] \in Acceptances
  BY DEF Acceptances
<1> QED BY <1>1, <1>2, TaskHas DEF TaskStages

(* A replay is announced only of the payload that was accepted. *)
LEMMA ReplayAgrees ==
    ASSUME ServiceInv, NEW a \in Attempts, job[a] # "none",
           db.record[CommandOf(a)].accepted
    PROVE  /\ Replay(CommandOf(a), PayloadOf(a)) \in {"replayed", "mismatch"}
           /\ Replay(CommandOf(a), PayloadOf(a)) = "replayed" =>
                 Agrees(db.record[attempt[a].command], attempt[a].payload,
                        db.record[CommandOf(a)].revision)
           /\ db.record[CommandOf(a)].revision \in Nat
BY TaskHas DEF Replay, Agrees, CommandOf, PayloadOf, Records

(* The runner is asked for, the record looked up and the lease asked for. *)
LEMMA PreparingSteps ==
    ASSUME ServiceInv, NEW a \in Attempts,
           BeginTask(a) \/ Lookup(a) \/ AcquireSessionLease(a)
    PROVE  ServiceInv'
<1>1. /\ job[a] # "none" /\ UNCHANGED <<ledger, opened, index, attempt, answers, crashes, turns>>
  BY DEF BeginTask, Lookup, AcquireSessionLease
<1>2. ASSUME NEW signal \in Signals \ {"created"}, NEW revision \in Nat,
             Stop(a, signal, revision), UNCHANGED db,
             signal = "replayed" =>
                Agrees(db.record[attempt[a].command], attempt[a].payload, revision)
      PROVE  ServiceInv'
  BY <1>1, <1>2, StopKeeps, TaskHas, TaskStep
<1>3. ASSUME NEW stage \in TaskStages, job' = [job EXCEPT ![a] = stage], UNCHANGED accept,
             runner' \in [Servers -> Attempts \cup {Nobody}], db' \in Databases,
             db'.record = db.record
      PROVE  ServiceInv'
  BY <1>1, <1>3, TaskHas, TaskStep
<1>4. {"failed", "conflict", "replayed", "mismatch"} \subseteq Signals \ {"created"}
      /\ {"lookup", "acquire", "create"} \subseteq TaskStages
  BY DEF Signals, TaskStages
<1>5. CASE BeginTask(a)
  <2>1. CASE /\ runner' = [runner EXCEPT ![ServerOf(a)] = a]
             /\ job' = [job EXCEPT ![a] = "lookup"] /\ UNCHANGED <<accept, db>>
    <3>1. runner' \in [Servers -> Attempts \cup {Nobody}] /\ db' \in Databases
      BY <1>1, <2>1, TaskHas
    <3> QED BY <1>3, <1>4, <2>1, <3>1
  <2>2. CASE /\ Stop(a, IF CommandOf(a) = Creation THEN "failed" ELSE "conflict", 0)
             /\ UNCHANGED db
    BY <1>2, <1>4, <2>2
  <2> QED BY <1>5, <2>1, <2>2 DEF BeginTask
<1>6. CASE Lookup(a)
  <2> DEFINE replay == Replay(CommandOf(a), PayloadOf(a))
  <2>1. CASE /\ db.record[CommandOf(a)].accepted /\ UNCHANGED db
             /\ Stop(a, replay, db.record[CommandOf(a)].revision)
    BY <1>1, <1>2, <1>4, <2>1, ReplayAgrees
  <2>2. CASE Stop(a, "conflict", 0) /\ UNCHANGED db
    BY <1>2, <1>4, <2>2
  <2>3. CASE Stop(a, "failed", 0) /\ UNCHANGED db
    BY <1>2, <1>4, <2>3
  <2>4. CASE job' = [job EXCEPT ![a] = "acquire"] /\ UNCHANGED <<accept, runner, db>>
    BY <1>1, <1>3, <1>4, <2>4, TaskHas
  <2> QED BY <1>6, <2>1, <2>2, <2>3, <2>4 DEF Lookup
<1>7. CASE AcquireSessionLease(a)
  <2>1. CASE /\ db' = [db EXCEPT !.lease = ServerOf(a)]
             /\ job' = [job EXCEPT ![a] = "create"] /\ UNCHANGED <<accept, runner>>
    <3>1. db' \in Databases /\ db'.record = db.record
      BY <1>1, <2>1, TaskHas DEF Databases
    <3> QED BY <1>1, <1>3, <1>4, <2>1, <3>1, TaskHas
  <2>2. CASE /\ Stop(a, IF CommandOf(a) = Creation THEN "failed" ELSE "conflict", 0)
             /\ UNCHANGED db
    BY <1>2, <1>4, <2>2
  <2> QED BY <1>7, <2>1, <2>2 DEF AcquireSessionLease
<1> QED BY <1>5, <1>6, <1>7

(* The one transaction that accepts a command, or refuses it. *)
LEMMA CreateStep ==
    ASSUME ServiceInv, NEW a \in Attempts, CreateStarted(a) PROVE ServiceInv'
<1>1. /\ job[a] # "none" /\ UNCHANGED <<ledger, opened, index, attempt, answers, crashes>>
  BY DEF CreateStarted
<1>2. ASSUME NEW signal \in {"replayed", "mismatch", "conflict"}, NEW revision \in Nat,
             Rejected(a, signal, revision),
             signal = "replayed" =>
                Agrees(db.record[attempt[a].command], attempt[a].payload, revision)
      PROVE  ServiceInv'
  <2>1. Stop(a, signal, revision) /\ db' = [db EXCEPT !.lease = Nobody] /\ UNCHANGED turns
    BY <1>2 DEF Rejected
  <2>2. db' \in Databases /\ db'.record = db.record
    BY <1>1, <2>1, TaskHas DEF Databases
  <2>3. signal \in Signals
    BY DEF Signals
  <2> QED BY <1>1, <1>2, <2>1, <2>2, <2>3, StopKeeps, TaskStep
<1>3. CASE ~db.record[CommandOf(a)].accepted /\ Accepted(a)
  <2> DEFINE revision == IF CommandOf(a) = Creation THEN 1 ELSE db.revision + 1
             r == [payload |-> PayloadOf(a), revision |-> revision, accepted |-> TRUE]
             records == [db.record EXCEPT ![CommandOf(a)] = r]
  <2>1. /\ db' = [db EXCEPT !.exists = TRUE, !.revision = revision, !.life = "running",
                            !.record = records]
        /\ accept' = [accept EXCEPT ![a] = [signal |-> "created", revision |-> revision]]
        /\ job' = [job EXCEPT ![a] = "turn"]
        /\ turns' = turns \cup {[command |-> CommandOf(a), attempt |-> a]}
        /\ UNCHANGED runner
    BY <1>1, <1>3, TaskHas DEF Accepted, Databases
  <2>2. revision \in Nat /\ r \in Records /\ r.accepted /\ r.payload = PayloadOf(a)
        /\ r.revision = revision
    <3>1. revision \in Nat
      BY <1>1, TaskHas
    <3> HIDE DEF revision
    <3> QED BY <1>1, <3>1, TaskHas DEF Records
  <2> HIDE DEF revision, r
  <2>3. /\ records \in [Commands -> Records] /\ records[CommandOf(a)] = r
        /\ \A c \in Commands : c # CommandOf(a) => records[c] = db.record[c]
    BY <1>1, <2>2, TaskHas
  <2> HIDE DEF records
  <2>4. db' \in Databases /\ db'.record = records
    BY <1>1, <2>1, <2>2, <2>3, TaskHas DEF Databases
  <2>5. \A c \in Commands : db.record[c].accepted => db'.record[c] = db.record[c]
    BY <1>3, <2>3, <2>4
  <2>6. /\ accept' \in [Attempts -> Acceptances] /\ job' \in [Attempts -> TaskStages]
        /\ \A b \in Attempts : b # a => job'[b] = job[b] /\ accept'[b] = accept[b]
        /\ accept'[a].revision = revision
    BY <1>1, <2>1, <2>2, TaskHas DEF Acceptances, Signals, TaskStages
  <2>7. Agrees(db'.record[attempt[a].command], attempt[a].payload, accept'[a].revision)
    BY <2>2, <2>3, <2>4, <2>6 DEF Agrees, CommandOf, PayloadOf
  <2>8. \E c \in Commands :
           /\ turns' = turns \cup {[command |-> c, attempt |-> a]}
           /\ ~db.record[c].accepted /\ db'.record[c].accepted
    BY <1>1, <1>3, <2>1, <2>2, <2>3, <2>4, TaskHas
  <2> QED BY <1>1, <2>1, <2>4, <2>5, <2>6, <2>7, <2>8, TaskHas, TaskStep
<1>4. CASE /\ db.record[CommandOf(a)].accepted
           /\ Rejected(a, Replay(CommandOf(a), PayloadOf(a)), db.record[CommandOf(a)].revision)
  BY <1>1, <1>2, <1>4, ReplayAgrees
<1>5. CASE Rejected(a, "conflict", 0)
  BY <1>2, <1>5
<1> QED BY <1>3, <1>4, <1>5 DEF CreateStarted

(* The turn ends, and its guards are dropped. *)
LEMMA EndingSteps ==
    ASSUME ServiceInv, NEW a \in Attempts,
           \/ \E lifeOf \in {"ready", "over"} : TurnCommits(a, lifeOf)
           \/ LeaseGuardDropped(a) \/ RunnerGuardDropped(a)
    PROVE  ServiceInv'
<1>1. /\ job[a] # "none"
      /\ UNCHANGED <<ledger, opened, index, attempt, answers, crashes, turns, accept>>
  BY DEF TurnCommits, LeaseGuardDropped, RunnerGuardDropped
<1>2. ASSUME NEW stage \in TaskStages, job' = [job EXCEPT ![a] = stage],
             runner' \in [Servers -> Attempts \cup {Nobody}], db' \in Databases,
             db'.record = db.record
      PROVE  ServiceInv'
  BY <1>1, <1>2, TaskHas, TaskStep
<1>3. {"guard", "drain", "ended"} \subseteq TaskStages
  BY DEF TaskStages
<1>4. ASSUME NEW lifeOf \in {"ready", "over"}, TurnCommits(a, lifeOf) PROVE ServiceInv'
  <2> DEFINE revision == db.revision + 1
  <2>1. /\ db' = [db EXCEPT !.revision = revision, !.life = lifeOf]
        /\ job' = [job EXCEPT ![a] = "guard"] /\ UNCHANGED runner
    BY <1>1, <1>4, TaskHas DEF TurnCommits, Databases
  <2>2. revision \in Nat
    BY <1>1, TaskHas
  <2> HIDE DEF revision
  <2>3. db' \in Databases /\ db'.record = db.record
    BY <1>1, <2>1, <2>2, TaskHas DEF Databases
  <2> QED BY <1>1, <1>2, <1>3, <2>1, <2>3, TaskHas
<1>5. CASE LeaseGuardDropped(a)
  <2>1. db' = [db EXCEPT !.lease = Nobody]
    BY <1>5 DEF LeaseGuardDropped
  <2>2. db' \in Databases /\ db'.record = db.record
    BY <1>1, <2>1, TaskHas DEF Databases
  <2> QED BY <1>1, <1>2, <1>3, <1>5, <2>2, TaskHas DEF LeaseGuardDropped
<1>6. CASE RunnerGuardDropped(a)
  <2>1. runner' \in [Servers -> Attempts \cup {Nobody}] /\ UNCHANGED db
        /\ job' = [job EXCEPT ![a] = "ended"]
    BY <1>1, <1>6, TaskHas DEF RunnerGuardDropped
  <2> QED BY <1>1, <1>2, <1>3, <2>1, TaskHas
<1> QED BY <1>4, <1>5, <1>6

(* A handler takes a step: its own stage changes, and at most one held, which is given
   back or agrees with the record. *)
LEMMA HandlerStep ==
    ASSUME ServiceInv, NEW a \in Attempts, attempt[a].stage \in {"route", "await"},
           NEW stage \in HandlerStages \ {"unused"},
           attempt' = [attempt EXCEPT ![a].stage = stage],
           UNCHANGED <<db, runner, accept, turns, crashes>>,
           job' \in [Attempts -> TaskStages], \A b \in Attempts : b # a => job'[b] = job[b],
           index' \subseteq Servers, opened' \in [Servers -> Nat],
           \/ UNCHANGED ledger
           \/ \E v \in Slots :
                 /\ ledger' = [ledger EXCEPT ![ServerOf(a)][CommandOf(a)] = v]
                 /\ v.state = "done" =>
                       \/ v = ledger[ServerOf(a)][CommandOf(a)]
                       \/ Agrees(db.record[CommandOf(a)], v.payload, v.revision),
           \A x \in answers' :
              \/ x \in answers
              \/ /\ x.command \in Commands
                 /\ x.status = "ok" => Agrees(db.record[x.command], x.payload, x.revision)
    PROVE  ServiceInv'
<1>1. /\ attempt \in [Attempts -> Requests] /\ ledger \in [Servers -> [Commands -> Slots]]
      /\ db \in Databases /\ runner \in [Servers -> Attempts \cup {Nobody}]
      /\ accept \in [Attempts -> Acceptances] /\ crashes \in 0 .. MaxCrashes
      /\ ServerOf(a) \in Servers /\ CommandOf(a) \in Commands
  BY ServiceTypes DEF ServiceInv, ServerOf, CommandOf, Requests
<1>2. /\ attempt' \in [Attempts -> Requests] /\ attempt'[a].stage = stage
      /\ attempt'[a].server = attempt[a].server /\ attempt'[a].command = attempt[a].command
      /\ attempt'[a].payload = attempt[a].payload
      /\ \A b \in Attempts : b # a => attempt'[b] = attempt[b]
  BY <1>1, OneStage
<1>3. /\ ledger' \in [Servers -> [Commands -> Slots]]
      /\ \A s \in Servers, c \in Commands :
            \/ ledger'[s][c] = ledger[s][c]
            \/ ledger'[s][c].state = "done" =>
                  Agrees(db.record[c], ledger'[s][c].payload, ledger'[s][c].revision)
  <2>1. CASE UNCHANGED ledger
    BY <1>1, <2>1
  <2>2. CASE \E v \in Slots :
                 /\ ledger' = [ledger EXCEPT ![ServerOf(a)][CommandOf(a)] = v]
                 /\ v.state = "done" =>
                       \/ v = ledger[ServerOf(a)][CommandOf(a)]
                       \/ Agrees(db.record[CommandOf(a)], v.payload, v.revision)
    <3>1. PICK v \in Slots :
                 /\ ledger' = [ledger EXCEPT ![ServerOf(a)][CommandOf(a)] = v]
                 /\ v.state = "done" =>
                       \/ v = ledger[ServerOf(a)][CommandOf(a)]
                       \/ Agrees(db.record[CommandOf(a)], v.payload, v.revision)
      BY <2>2
    <3> QED BY <1>1, <3>1, OneSlot
  <2> QED BY <2>1, <2>2
<1>4. ServiceTypeOK'
  BY <1>1, <1>2, <1>3, ServiceTypes
<1>5. \A b \in Attempts :
         /\ attempt[b].stage # "unused" =>
               /\ attempt'[b].stage # "unused" /\ attempt'[b].server = attempt[b].server
               /\ attempt'[b].command = attempt[b].command
               /\ attempt'[b].payload = attempt[b].payload
         /\ attempt'[b].stage = "unused" => job'[b] = "none" /\ accept'[b].signal = "none"
         /\ attempt'[b].stage # "unused" => attempt'[b].server \in Servers
         /\ accept'[b] = accept[b]
  BY <1>2 DEF ServiceInv
<1> QED BY <1>3, <1>4, <1>5, StepAgrees

(* What a refusal does. *)
LEMMA RefuseKeeps ==
    ASSUME ServiceInv, NEW a \in Attempts, attempt[a].stage \in {"route", "await"},
           NEW status, status # "ok", Refuse(a, status)
    PROVE  /\ attempt' = [attempt EXCEPT ![a].stage = "answered"]
           /\ \E v \in Slots :
                 /\ ledger' = [ledger EXCEPT ![ServerOf(a)][CommandOf(a)] = v]
                 /\ v.state = "done" => v = ledger[ServerOf(a)][CommandOf(a)]
           /\ \A x \in answers' :
                 x \in answers \/ (x.command \in Commands /\ x.status # "ok")
<1>1. /\ ServerOf(a) \in Servers /\ CommandOf(a) \in Commands
      /\ ledger \in [Servers -> [Commands -> Slots]]
  BY ServiceTypes DEF ServiceInv, ServerOf, CommandOf, Requests
<1> DEFINE v == Released(ledger[ServerOf(a)][CommandOf(a)])
<1>2. ledger' = [ledger EXCEPT ![ServerOf(a)][CommandOf(a)] = v]
  BY DEF Refuse
<1>3. v \in Slots /\ (v.state = "done" => v = ledger[ServerOf(a)][CommandOf(a)])
  BY <1>1 DEF Released, NoSlot, Slots
<1> HIDE DEF v
<1> DEFINE y == [command |-> CommandOf(a), payload |-> PayloadOf(a), status |-> status,
                revision |-> 0]
<1>4. attempt' = [attempt EXCEPT ![a].stage = "answered"] /\ answers' = answers \cup {y}
  BY DEF Refuse, Tell
<1>5. y.command = CommandOf(a) /\ y.status = status
  OBVIOUS
<1> HIDE DEF y
<1>6. \A x \in answers' : x \in answers \/ (x.command \in Commands /\ x.status # "ok")
  BY <1>1, <1>4, <1>5
<1> QED BY <1>2, <1>3, <1>4, <1>6

(* A handler finds the workspace, is told the result, or is dropped. *)
LEMMA HandlerSteps ==
    ASSUME ServiceInv, NEW a \in Attempts, Route(a) \/ Answer(a) \/ ClientGone(a)
    PROVE  ServiceInv'
<1>1. /\ job \in [Attempts -> TaskStages] /\ index \subseteq Servers
      /\ opened \in [Servers -> Nat] /\ accept \in [Attempts -> Acceptances]
  BY ServiceTypes DEF ServiceInv
<1>2. attempt[a].stage \in {"route", "await"}
      /\ UNCHANGED <<db, runner, accept, turns, crashes>>
  BY DEF Route, Answer, ClientGone
<1>3. /\ ServerOf(a) \in Servers /\ CommandOf(a) \in Commands
      /\ PayloadOf(a) \in Payloads
  BY <1>2, ServiceTypes DEF ServiceInv, ServerOf, CommandOf, PayloadOf, Requests
<1>4. {"await", "answered", "dropped"} \subseteq HandlerStages \ {"unused"}
      /\ "begin" \in TaskStages
  BY DEF HandlerStages, TaskStages
<1>5. ASSUME NEW status, status # "ok", Refuse(a, status), UNCHANGED <<job, index, opened>>
      PROVE  ServiceInv'
  BY <1>1, <1>2, <1>4, <1>5, RefuseKeeps, HandlerStep
<1>6. CASE Route(a)
  <2>1. CASE /\ attempt' = [attempt EXCEPT ![a].stage = "await"]
             /\ job' = [job EXCEPT ![a] = "begin"]
             /\ index' \in {index, index \cup {ServerOf(a)}}
             /\ opened' = [opened EXCEPT ![ServerOf(a)] =
                              IF CommandOf(a) = Creation THEN opened[ServerOf(a)]
                              ELSE Built(opened[ServerOf(a)])]
             /\ UNCHANGED <<ledger, answers>>
    <3>1. opened' \in [Servers -> Nat] /\ index' \subseteq Servers
      BY <1>1, <1>3, <2>1 DEF Built
    <3> QED BY <1>1, <1>2, <1>4, <2>1, <3>1, HandlerStep
  <2>2. CASE Refuse(a, "not_found") /\ UNCHANGED <<job, index, opened>>
    BY <1>5, <2>2
  <2> QED BY <1>6, <2>1, <2>2 DEF Route
<1>7. CASE Answer(a)
  <2>1. CASE accept[a].signal \in {"created", "replayed"}
    <3> DEFINE v == [state |-> "done", payload |-> PayloadOf(a),
                     revision |-> accept[a].revision]
    <3>1. /\ attempt' = [attempt EXCEPT ![a].stage = "answered"]
          /\ ledger' = [ledger EXCEPT ![ServerOf(a)][CommandOf(a)] = v]
          /\ index' \in {index, index \cup {ServerOf(a)}}
          /\ answers' = answers \cup {[command |-> CommandOf(a), payload |-> PayloadOf(a),
                                       status |-> "ok", revision |-> accept[a].revision]}
          /\ UNCHANGED <<job, opened>>
      BY <1>7, <2>1 DEF Answer, Tell
    <3>2. Agrees(db.record[CommandOf(a)], PayloadOf(a), accept[a].revision)
      BY <2>1 DEF ServiceInv, CommandOf, PayloadOf
    <3>3. v \in Slots /\ v.payload = PayloadOf(a) /\ v.revision = accept[a].revision
      BY <1>1, <1>3 DEF Slots, Acceptances
    <3> HIDE DEF v
    <3>4. \A x \in answers' :
             \/ x \in answers
             \/ /\ x.command \in Commands
                /\ x.status = "ok" => Agrees(db.record[x.command], x.payload, x.revision)
      BY <1>3, <3>1, <3>2
    <3> QED BY <1>1, <1>2, <1>3, <1>4, <3>1, <3>2, <3>3, <3>4, HandlerStep
  <2>2. CASE accept[a].signal \notin {"created", "replayed"}
    <3>1. accept[a].signal # "ok"
      BY <1>1 DEF Acceptances, Signals
    <3> QED BY <1>5, <1>7, <2>2, <3>1 DEF Answer
  <2> QED BY <2>1, <2>2
<1>8. CASE ClientGone(a)
  BY <1>1, <1>2, <1>4, <1>8, HandlerStep DEF ClientGone
<1> QED BY <1>6, <1>7, <1>8

(* A server dies, opens a workspace, or ends the turn of a dead one. *)
LEMMA ServerSteps ==
    ASSUME ServiceInv, (\E s \in Servers : Crash(s) \/ OpenWorkspace(s)) \/ SweepLease
    PROVE  ServiceInv'
<1>1. /\ db \in Databases /\ ledger \in [Servers -> [Commands -> Slots]]
      /\ opened \in [Servers -> Nat] /\ index \subseteq Servers
      /\ runner \in [Servers -> Attempts \cup {Nobody}]
      /\ attempt \in [Attempts -> Requests] /\ job \in [Attempts -> TaskStages]
      /\ accept \in [Attempts -> Acceptances] /\ crashes \in 0 .. MaxCrashes
  BY ServiceTypes DEF ServiceInv
<1>2. ASSUME NEW s \in Servers, Crash(s) PROVE ServiceInv'
  <2>1. /\ ledger' \in [Servers -> [Commands -> Slots]]
        /\ \A t \in Servers, c \in Commands :
              ledger'[t][c] = ledger[t][c] \/ ledger'[t][c].state = "none"
    <3>1. NoSlot \in Slots /\ NoSlot.state = "none"
      BY DEF NoSlot, Slots
    <3> QED BY <1>1, <1>2, <3>1 DEF Crash
  <2>2. /\ attempt' \in [Attempts -> Requests]
        /\ \A a \in Attempts :
              \/ attempt'[a] = attempt[a]
              \/ /\ attempt[a].stage # "unused" /\ attempt'[a].stage = "dropped"
                 /\ attempt'[a].server = attempt[a].server
                 /\ attempt'[a].command = attempt[a].command
                 /\ attempt'[a].payload = attempt[a].payload
    <3>1. ASSUME NEW a \in Attempts
          PROVE  LET k == [attempt[a] EXCEPT !.stage = "dropped"] IN
                 /\ k \in Requests /\ k.stage = "dropped" /\ k.server = attempt[a].server
                 /\ k.command = attempt[a].command /\ k.payload = attempt[a].payload
      BY <1>1 DEF Requests, HandlerStages
    <3>2. attempt' = [a \in Attempts |->
                        IF Lost(a, s) /\ attempt[a].stage \in {"route", "await"}
                        THEN [attempt[a] EXCEPT !.stage = "dropped"] ELSE attempt[a]]
      BY <1>2 DEF Crash
    <3> QED BY <1>1, <3>1, <3>2
  <2>3. job' \in [Attempts -> TaskStages] /\ \A a \in Attempts : job[a] = "none" => job'[a] = "none"
    BY <1>1, <1>2 DEF Crash, TaskStages
  <2>4. db' \in Databases /\ db'.record = db.record
    BY <1>1, <1>2 DEF Crash, Databases
  <2>5. /\ opened' \in [Servers -> Nat] /\ index' \subseteq Servers
        /\ runner' \in [Servers -> Attempts \cup {Nobody}] /\ crashes' \in 0 .. MaxCrashes
        /\ UNCHANGED <<accept, turns, answers>>
    BY <1>1, <1>2, ServiceAssumption DEF Crash
  <2>6. ServiceTypeOK'
    BY <1>1, <2>1, <2>2, <2>3, <2>4, <2>5, ServiceTypes
  <2>7. \A a \in Attempts :
           /\ attempt[a].stage # "unused" =>
                 /\ attempt'[a].stage # "unused" /\ attempt'[a].server = attempt[a].server
                 /\ attempt'[a].command = attempt[a].command
                 /\ attempt'[a].payload = attempt[a].payload
           /\ attempt'[a].stage = "unused" => job'[a] = "none" /\ accept'[a].signal = "none"
           /\ attempt'[a].stage # "unused" => attempt'[a].server \in Servers
    BY <2>2, <2>3, <2>5 DEF ServiceInv
  <2>8. \A t \in Servers, c \in Commands :
           \/ ledger'[t][c] = ledger[t][c]
           \/ ledger'[t][c].state = "done" =>
                 Agrees(db'.record[c], ledger'[t][c].payload, ledger'[t][c].revision)
    BY <2>1
  <2> QED BY <2>4, <2>5, <2>6, <2>7, <2>8, StepAgrees
<1>3. ASSUME UNCHANGED <<ledger, index, runner, attempt, job, accept, turns, answers, crashes>>,
             opened' \in [Servers -> Nat], db' \in Databases, db'.record = db.record
      PROVE  ServiceInv'
  <2>1. ServiceTypeOK'
    BY <1>1, <1>3, ServiceTypes
  <2> QED BY <1>3, <2>1 DEF ServiceInv, EffectOnce, AnswersAgree, Agrees
<1>4. ASSUME NEW s \in Servers, OpenWorkspace(s) PROVE ServiceInv'
  <2>1. opened' \in [Servers -> Nat]
    BY <1>1, <1>4 DEF OpenWorkspace, Built
  <2> QED BY <1>1, <1>3, <1>4, <2>1 DEF OpenWorkspace
<1>5. CASE SweepLease
  <2> DEFINE lifeOf == IF db.life = "running" THEN "over" ELSE db.life
             revision == IF db.life = "running" THEN db.revision + 1 ELSE db.revision
  <2>1. db' = [db EXCEPT !.lease = Nobody, !.life = lifeOf, !.revision = revision]
    BY <1>1, <1>5 DEF SweepLease, Databases
  <2>2. lifeOf \in {"ready", "running", "over"} /\ revision \in Nat
    BY <1>1 DEF Databases
  <2> HIDE DEF lifeOf, revision
  <2>3. db' \in Databases /\ db'.record = db.record
    BY <1>1, <2>1, <2>2 DEF Databases
  <2> QED BY <1>1, <1>3, <1>5, <2>3 DEF SweepLease
<1> QED BY <1>2, <1>4, <1>5

LEMMA ServiceInitially == ASSUME ServiceInit PROVE ServiceInv
<1>1. NoRecord \in Records /\ NoSlot \in Slots /\ NoSlot.state = "none"
      /\ [payload |-> 0, revision |-> 1, accepted |-> TRUE] \in Records
  BY ServiceAssumption DEF NoRecord, NoSlot, Slots, Records, Payloads
<1>2. NoSession \in Databases /\ EarlierSession \in Databases
  <2>1. [c \in Commands |-> NoRecord] \in [Commands -> Records]
    BY <1>1
  <2>2. [c \in Commands |-> IF c = Creation
                            THEN [payload |-> 0, revision |-> 1, accepted |-> TRUE]
                            ELSE NoRecord] \in [Commands -> Records]
    BY <1>1
  <2> QED BY <2>1, <2>2 DEF NoSession, EarlierSession, Databases
<1> DEFINE k == [stage |-> "unused", server |-> Nobody, command |-> Creation, payload |-> 0]
           n == [signal |-> "none", revision |-> 0]
<1>3. k \in Requests /\ k.stage = "unused" /\ n \in Acceptances /\ n.signal = "none"
  BY ServiceAssumption DEF Requests, Acceptances, HandlerStages, Signals, Commands, Payloads
<1>4. /\ attempt = [a \in Attempts |-> k] /\ accept = [a \in Attempts |-> n]
      /\ job = [a \in Attempts |-> "none"] /\ turns = {} /\ answers = {} /\ crashes = 0
      /\ ledger = [s \in Servers |-> [c \in Commands |-> NoSlot]]
  BY DEF ServiceInit
<1> HIDE DEF k, n
<1>5. ServiceTypeOK
  <2>1. "none" \in TaskStages /\ 0 \in 0 .. MaxCrashes
    BY ServiceAssumption DEF TaskStages
  <2>2. /\ db \in Databases /\ opened \in [Servers -> Nat] /\ index \subseteq Servers
        /\ runner \in [Servers -> Attempts \cup {Nobody}]
    BY <1>2 DEF ServiceInit
  <2> QED BY <1>1, <1>3, <1>4, <2>1, <2>2, ServiceTypes
<1> QED BY <1>1, <1>3, <1>4, <1>5 DEF ServiceInv, EffectOnce, AnswersAgree

LEMMA KeysInitially == ASSUME ServiceInit PROVE KeysAreHeld
<1>1. \A a \in Attempts : attempt[a].stage = "unused"
  BY DEF ServiceInit
<1>2. \A s \in Servers, c \in Commands : ledger[s][c].state = "none" /\ Handling(s, c) = {}
  BY <1>1 DEF ServiceInit, NoSlot, Handling
<1> QED BY <1>2 DEF KeysAreHeld

(* A step of a handler a moves only a and the slot of its key: then a holds that slot
   alone, or the slot is no longer in flight, or a has left it behind. *)
LEMMA KeyOfHandler ==
    ASSUME ServiceInv, KeysAreHeld, NEW a \in Attempts, NEW s \in Servers, NEW c \in Commands,
           \A b \in Attempts \ {a} : attempt'[b] = attempt[b],
           attempt'[a].server = s, attempt'[a].command = c,
           \A t \in Servers, d \in Commands :
              t # s \/ d # c => ledger'[t][d] = ledger[t][d],
           \/ attempt[a].stage = "unused" /\ Handling(s, c) = {}
           \/ a \in Handling(s, c),
           \/ /\ attempt'[a].stage \in {"route", "await"}
              /\ ledger'[s][c].state = "pending" /\ ledger'[s][c].payload = attempt'[a].payload
           \/ attempt'[a].stage \notin {"route", "await"} /\ ledger'[s][c].state # "pending"
           \/ attempt'[a].stage = "dropped"
    PROVE  KeysAreHeld'
<1>1. \A t \in Servers, d \in Commands : t # s \/ d # c => Handling(t, d)' = Handling(t, d)
  BY DEF Handling, ServerOf, CommandOf
<1>2. Handling(s, c) \subseteq {a}
  BY DEF KeysAreHeld
<1>3. Handling(s, c)' = IF attempt'[a].stage \in {"route", "await"} THEN {a} ELSE {}
  BY <1>2 DEF Handling, ServerOf, CommandOf
<1>4. ASSUME NEW t \in Servers, NEW d \in Commands, t # s \/ d # c
      PROVE  /\ \A x, y \in Handling(t, d)' : x = y
             /\ \A x \in Handling(t, d)' :
                   ledger'[t][d].state = "pending" /\ ledger'[t][d].payload = attempt'[x].payload
             /\ ledger'[t][d].state = "pending" =>
                   \/ Handling(t, d)' # {}
                   \/ \E x \in Attempts : /\ attempt'[x].stage = "dropped"
                                          /\ attempt'[x].server = t /\ attempt'[x].command = d
  <2>1. a \notin Handling(t, d)
    BY <1>4 DEF Handling, ServerOf, CommandOf
  <2>2. attempt[a].stage # "dropped"
    BY DEF Handling
  <2> QED BY <1>1, <1>4, <2>1, <2>2 DEF KeysAreHeld, Handling, ServerOf, CommandOf, PayloadOf
<1>5. /\ \A x, y \in Handling(s, c)' : x = y
      /\ \A x \in Handling(s, c)' :
            ledger'[s][c].state = "pending" /\ ledger'[s][c].payload = attempt'[x].payload
      /\ ledger'[s][c].state = "pending" =>
            \/ Handling(s, c)' # {}
            \/ \E x \in Attempts : /\ attempt'[x].stage = "dropped"
                                   /\ attempt'[x].server = s /\ attempt'[x].command = c
  BY <1>3
<1> QED BY <1>4, <1>5 DEF KeysAreHeld, ServerOf, CommandOf, PayloadOf

(* A key is in the hands of one handler, or was left by one that its client left. *)
LEMMA KeysStep ==
    ASSUME ServiceInv, KeysAreHeld, [ServiceNext]_serviceVars
    PROVE  KeysAreHeld'
<1>1. /\ ledger \in [Servers -> [Commands -> Slots]]
      /\ attempt \in [Attempts -> Requests]
  BY ServiceTypes DEF ServiceInv
<1>2. ASSUME UNCHANGED <<ledger, attempt>> PROVE KeysAreHeld'
  BY <1>2 DEF KeysAreHeld, Handling, ServerOf, CommandOf, PayloadOf
<1>3. ASSUME NEW a \in Attempts, NEW s \in Servers, NEW c \in Commands, NEW p \in Payloads,
             Request(a, s, c, p)
      PROVE  KeysAreHeld'
  <2> DEFINE claim == Claim(ledger[s][c], p)
             stage == IF claim = "owner" THEN "route" ELSE "answered"
             taken == [state |-> "pending", payload |-> p, revision |-> 0]
  <2>1. ledger[s][c].state \in {"none", "pending", "done"}
    BY <1>1 DEF Slots
  <2>2. claim = "owner" <=> ledger[s][c].state = "none"
    BY <2>1 DEF Claim
  <2>3. /\ attempt[a].stage = "unused"
        /\ attempt' = [attempt EXCEPT ![a] = [stage |-> stage, server |-> s, command |-> c, payload |-> p]]
        /\ ledger' = [ledger EXCEPT ![s][c] = IF claim = "owner" THEN taken ELSE @]
    BY <1>3 DEF Request
  <2> HIDE DEF claim
  <2>4. CASE claim = "owner"
    <3>1. Handling(s, c) = {}
      BY <2>2, <2>4 DEF KeysAreHeld
    <3>2. /\ attempt'[a].stage = "route" /\ attempt'[a].server = s /\ attempt'[a].command = c
          /\ attempt'[a].payload = p
          /\ \A b \in Attempts \ {a} : attempt'[b] = attempt[b]
          /\ ledger'[s][c].state = "pending" /\ ledger'[s][c].payload = p
          /\ \A t \in Servers, d \in Commands : t # s \/ d # c => ledger'[t][d] = ledger[t][d]
      BY <1>1, <2>3, <2>4
    <3> QED BY <2>3, <3>1, <3>2, KeyOfHandler
  <2>5. CASE claim # "owner"
    <3>1. /\ attempt'[a].stage = "answered"
          /\ \A b \in Attempts \ {a} : attempt'[b] = attempt[b]
          /\ ledger' = ledger
      BY <1>1, <2>3, <2>5
    <3>2. \A t \in Servers, d \in Commands : Handling(t, d)' = Handling(t, d) /\ a \notin Handling(t, d)
      BY <2>3, <3>1 DEF Handling, ServerOf, CommandOf
    <3> QED BY <2>3, <3>1, <3>2 DEF KeysAreHeld, ServerOf, CommandOf, PayloadOf
  <2> QED BY <2>4, <2>5
<1>4. ASSUME NEW a \in Attempts, Route(a) \/ Answer(a) \/ ClientGone(a) PROVE KeysAreHeld'
  <2> DEFINE s == attempt[a].server
             c == attempt[a].command
  <2>1. attempt[a].stage \in {"route", "await"}
    BY <1>4 DEF Route, Answer, ClientGone
  <2>2. s \in Servers /\ c \in Commands /\ a \in Handling(s, c)
    BY <1>1, <2>1 DEF ServiceInv, Requests, Handling, ServerOf, CommandOf
  <2>3. ledger[s][c].state = "pending" /\ ledger[s][c].payload = attempt[a].payload
    BY <2>2 DEF KeysAreHeld, PayloadOf
  <2> DEFINE v == [state |-> "done", payload |-> PayloadOf(a), revision |-> accept[a].revision]
             stays == UNCHANGED ledger
             goes == \E k \in {NoSlot, v} : ledger' = [ledger EXCEPT ![s][c] = k]
             Moves(to) == attempt' = [attempt EXCEPT ![a].stage = to]
  <2>4. \/ Moves("await") /\ stays
        \/ Moves("answered") /\ goes
        \/ Moves("dropped") /\ stays
    <3>1. ASSUME NEW status, Refuse(a, status) PROVE Moves("answered") /\ goes
      <4>1. ledger' = [ledger EXCEPT ![s][c] = Released(ledger[s][c])]
        BY <3>1 DEF Refuse, ServerOf, CommandOf
      <4>2. Released(ledger[s][c]) = NoSlot
        BY <2>3 DEF Released
      <4> HIDE DEF v
      <4> QED BY <3>1, <4>1, <4>2 DEF Refuse
    <3>2. CASE Route(a)
      <4>1. CASE attempt' = [attempt EXCEPT ![a].stage = "await"] /\ UNCHANGED ledger
        BY <4>1
      <4>2. CASE Refuse(a, "not_found")
        BY <3>1, <4>2
      <4> HIDE DEF stays, goes, Moves
      <4> QED BY <3>2, <4>1, <4>2 DEF Route
    <3>3. CASE Answer(a)
      <4>1. CASE /\ attempt' = [attempt EXCEPT ![a].stage = "answered"]
                 /\ ledger' = [ledger EXCEPT ![s][c] = v]
        <5> HIDE DEF v
        <5> QED BY <4>1
      <4>2. CASE Refuse(a, accept[a].signal)
        BY <3>1, <4>2
      <4> HIDE DEF stays, goes, Moves
      <4> QED BY <3>3, <4>1, <4>2 DEF Answer, ServerOf, CommandOf
    <3>4. CASE ClientGone(a)
      BY <3>4 DEF ClientGone
    <3> QED BY <1>4, <3>2, <3>3, <3>4
  <2>5. NoSlot.state = "none" /\ v.state = "done"
    BY DEF NoSlot
  <2> HIDE DEF v
  <2>6. ASSUME NEW to, Moves(to)
        PROVE  /\ attempt'[a].stage = to /\ attempt'[a].server = s /\ attempt'[a].command = c
               /\ attempt'[a].payload = attempt[a].payload
               /\ \A b \in Attempts \ {a} : attempt'[b] = attempt[b]
    BY <1>1, <2>6 DEF Requests
  <2>7. ASSUME stays \/ goes
        PROVE  \A t \in Servers, d \in Commands : t # s \/ d # c => ledger'[t][d] = ledger[t][d]
    BY <1>1, <2>7
  <2>8. goes => ledger'[s][c].state # "pending"
    BY <1>1, <2>2, <2>5
  <2>9. \E to \in {"await", "answered", "dropped"} :
           /\ Moves(to) /\ (stays \/ goes)
           /\ to = "await" => stays
           /\ to = "answered" => goes
    BY <2>4
  <2>10. PICK to \in {"await", "answered", "dropped"} :
           /\ Moves(to) /\ (stays \/ goes)
           /\ to = "await" => stays
           /\ to = "answered" => goes
    BY <2>9
  <2>11. \/ /\ attempt'[a].stage \in {"route", "await"}
            /\ ledger'[s][c].state = "pending" /\ ledger'[s][c].payload = attempt'[a].payload
         \/ attempt'[a].stage \notin {"route", "await"} /\ ledger'[s][c].state # "pending"
         \/ attempt'[a].stage = "dropped"
    BY <2>3, <2>6, <2>8, <2>10
  <2>12. /\ attempt'[a].server = s /\ attempt'[a].command = c
         /\ \A b \in Attempts \ {a} : attempt'[b] = attempt[b]
         /\ \A t \in Servers, d \in Commands : t # s \/ d # c => ledger'[t][d] = ledger[t][d]
    BY <2>6, <2>7, <2>10
  <2> HIDE DEF s, c
  <2> QED BY <2>2, <2>11, <2>12, KeyOfHandler
<1>5. ASSUME NEW s \in Servers, Crash(s) PROVE KeysAreHeld'
  <2>1. /\ \A c \in Commands : ledger'[s][c].state = "none"
        /\ \A t \in Servers \ {s}, c \in Commands : ledger'[t][c] = ledger[t][c]
    BY <1>1, <1>5 DEF Crash, NoSlot
  <2>2. \A a \in Attempts :
           /\ attempt'[a].server = attempt[a].server /\ attempt'[a].command = attempt[a].command
           /\ attempt'[a].payload = attempt[a].payload
           /\ attempt'[a].stage = IF attempt[a].server = s /\ attempt[a].stage \in {"route", "await"}
                                  THEN "dropped" ELSE attempt[a].stage
    BY <1>1, <1>5 DEF Crash, Lost, Requests, ServerOf
  <2>3. \A c \in Commands : Handling(s, c)' = {}
    BY <2>2 DEF Handling, ServerOf, CommandOf
  <2>4. \A t \in Servers \ {s}, c \in Commands : Handling(t, c)' = Handling(t, c)
    BY <2>2 DEF Handling, ServerOf, CommandOf
  <2>5. \A t \in Servers \ {s}, a \in Attempts :
           attempt[a].stage = "dropped" /\ attempt[a].server = t =>
           attempt'[a].stage = "dropped" /\ attempt'[a].server = t
    BY <2>2
  <2>6. \A t \in Servers \ {s}, c \in Commands :
           /\ \A a, b \in Handling(t, c)' : a = b
           /\ \A a \in Handling(t, c)' :
                 ledger'[t][c].state = "pending" /\ ledger'[t][c].payload = attempt'[a].payload
           /\ ledger'[t][c].state = "pending" =>
                 \/ Handling(t, c)' # {}
                 \/ \E a \in Attempts : /\ attempt'[a].stage = "dropped"
                                        /\ attempt'[a].server = t /\ attempt'[a].command = c
    <3>1. ASSUME NEW t \in Servers \ {s}, NEW c \in Commands
          PROVE  \A a \in Handling(t, c) : a \in Attempts /\ attempt'[a].payload = attempt[a].payload
      BY <2>2 DEF Handling
    <3> QED BY <2>1, <2>2, <2>4, <2>5, <3>1 DEF KeysAreHeld, ServerOf, CommandOf, PayloadOf
  <2> QED BY <2>1, <2>3, <2>6 DEF KeysAreHeld, ServerOf, CommandOf, PayloadOf
<1>6. CASE \/ \E a \in Attempts :
                \/ BeginTask(a) \/ Lookup(a) \/ AcquireSessionLease(a) \/ CreateStarted(a)
                \/ \E lifeOf \in {"ready", "over"} : TurnCommits(a, lifeOf)
                \/ LeaseGuardDropped(a) \/ RunnerGuardDropped(a)
           \/ \E s \in Servers : OpenWorkspace(s)
           \/ SweepLease
           \/ UNCHANGED serviceVars
  BY <1>2, <1>6 DEF BeginTask, Lookup, AcquireSessionLease, CreateStarted, TurnCommits,
     LeaseGuardDropped, RunnerGuardDropped, OpenWorkspace, SweepLease, serviceVars
<1> QED BY <1>3, <1>4, <1>5, <1>6 DEF ServiceNext

(* A command of the HTTP service starts at most one turn, to however many servers it is
   sent and whichever of them die (EffectOnce), and every client is told the revision at
   which its own payload was accepted, or that it was not (AnswersAgree); a key is in the
   hands of one handler, or of one that its client left (KeysAreHeld): idempotency_claim, create_session_v2_inner and their callers. *)
THEOREM ServiceSafety == ServiceSpec => []CommandServiceCorrect
<1>1. ServiceInv /\ [ServiceNext]_serviceVars => ServiceInv'
  <2> SUFFICES ASSUME ServiceInv, [ServiceNext]_serviceVars PROVE ServiceInv'
    OBVIOUS
  <2>1. ASSUME NEW a \in Attempts, NEW s \in Servers, NEW c \in Commands, NEW p \in Payloads,
               Request(a, s, c, p)
        PROVE  ServiceInv'
    BY <2>1, RequestStep
  <2>2. ASSUME NEW a \in Attempts, Route(a) \/ Answer(a) \/ ClientGone(a) PROVE ServiceInv'
    BY <2>2, HandlerSteps
  <2>3. ASSUME NEW a \in Attempts, BeginTask(a) \/ Lookup(a) \/ AcquireSessionLease(a)
        PROVE  ServiceInv'
    BY <2>3, PreparingSteps
  <2>4. ASSUME NEW a \in Attempts, CreateStarted(a) PROVE ServiceInv'
    BY <2>4, CreateStep
  <2>5. ASSUME NEW a \in Attempts,
               \/ \E lifeOf \in {"ready", "over"} : TurnCommits(a, lifeOf)
               \/ LeaseGuardDropped(a) \/ RunnerGuardDropped(a)
        PROVE  ServiceInv'
    BY <2>5, EndingSteps
  <2>6. CASE (\E s \in Servers : Crash(s) \/ OpenWorkspace(s)) \/ SweepLease
    BY <2>6, ServerSteps
  <2>7. CASE UNCHANGED serviceVars
    BY <2>7 DEF serviceVars, ServiceInv, ServiceTypeOK, EffectOnce, AnswersAgree
  <2> QED BY <2>1, <2>2, <2>3, <2>4, <2>5, <2>6, <2>7 DEF ServiceNext
<1>2. ServiceInv /\ KeysAreHeld => CommandServiceCorrect
  BY DEF ServiceInv, CommandServiceCorrect
<1>3. ServiceInv /\ KeysAreHeld /\ [ServiceNext]_serviceVars => KeysAreHeld'
  BY KeysStep
<1> QED BY <1>1, <1>2, <1>3, ServiceInitially, KeysInitially, PTL DEF ServiceSpec

-----------------------------------------------------------------------------
(* The file tools *)

(* Between the freshness check of a modification and its rename. *)
Window == {"checked", "based", "resolved", "opened", "staged"}

Calls == [op : Operation \cup {"none"},
          at : {"idle", "prepared", "read", "renamed", "dead"} \cup Window,
          pre : Nat, base : Nat, handle : {"none", "directory"}, since : SUBSET Nat]

(* The parent that a call has opened is the one in the workspace; and the file has the
   content that the call compared, or one that was put there since. *)
FileCallFits(call, content) ==
    /\ call.at \in {"opened", "staged"} => call.handle = "directory"
    /\ call.at \in Window => content = call.pre \/ content \in call.since

(* Contents are numbered as they are written, and the one outside is the first. *)
FileInv ==
    /\ written \in Nat /\ written >= 2 /\ inside \in Nat /\ outside = 2
    /\ \A v \in byTools : v \in Nat /\ v > 2
    /\ told \in [Callers -> [content : Nat, digest : Nat]]
    /\ fileCall \in [Callers -> Calls]
    /\ \A c \in Callers : FileCallFits(fileCall[c], inside)
    /\ temps \subseteq Callers /\ TempsAreOwned

(* A call has nothing in hand when it has ended. *)
LEMMA NoCallFits ==
    /\ NoCall \in Calls /\ NoCall.at = "idle"
    /\ \A a \in {"idle", "dead"}, x \in Nat :
          LET k == [NoCall EXCEPT !.at = a] IN k \in Calls /\ FileCallFits(k, x) /\ k.at = a
    /\ \A x \in Nat : FileCallFits(NoCall, x)
BY DEF NoCall, Calls, Window, FileCallFits

(* One call goes on, and the file stays as it is. *)
LEMMA OneCall ==
    ASSUME FileInv, NEW c \in Callers, NEW k \in Calls, FileCallFits(k, inside),
           fileCall' = [fileCall EXCEPT ![c] = k],
           UNCHANGED <<inside, outside, written, byTools>>,
           told' \in [Callers -> [content : Nat, digest : Nat]],
           temps' \subseteq temps \cup {c},
           c \in temps' => k.at \in {"staged", "dead"}
    PROVE  FileInv'
<1>1. fileCall' \in [Callers -> Calls] /\ fileCall'[c] = k
  BY DEF FileInv
<1>2. \A d \in Callers : d # c => fileCall'[d] = fileCall[d]
  BY DEF FileInv
<1>3. \A d \in Callers : FileCallFits(fileCall'[d], inside')
  BY <1>1, <1>2 DEF FileInv
<1>4. temps' \subseteq Callers /\ TempsAreOwned'
  BY <1>1, <1>2 DEF FileInv, TempsAreOwned
<1> QED BY <1>1, <1>3, <1>4 DEF FileInv

(* The file gets another content, which every call in its window notes. *)
LEMMA WrittenCalls ==
    ASSUME FileInv, NEW v \in Nat
    PROVE  LET calls == WrittenSince(fileCall, v) IN
           /\ calls \in [Callers -> Calls]
           /\ \A c \in Callers : FileCallFits(calls[c], v) /\ calls[c].at = fileCall[c].at
<1> DEFINE calls == WrittenSince(fileCall, v)
<1>1. ASSUME NEW c \in Callers
      PROVE  calls[c] \in Calls /\ FileCallFits(calls[c], v) /\ calls[c].at = fileCall[c].at
  <2>1. fileCall[c] \in Calls /\ FileCallFits(fileCall[c], inside)
    BY DEF FileInv
  <2>2. CASE fileCall[c].at \in Window
    <3>1. calls[c] = [fileCall[c] EXCEPT !.since = fileCall[c].since \cup {v}]
      BY <2>2 DEF WrittenSince, Window
    <3> HIDE DEF calls
    <3>2. /\ calls[c] \in Calls /\ calls[c].at = fileCall[c].at /\ v \in calls[c].since
          /\ calls[c].handle = fileCall[c].handle
      BY <2>1, <3>1 DEF Calls
    <3> QED BY <2>1, <3>2 DEF FileCallFits
  <2>3. CASE fileCall[c].at \notin Window
    <3>1. calls[c] = fileCall[c]
      BY <2>3 DEF WrittenSince, Window
    <3> QED BY <2>1, <2>3, <3>1 DEF FileCallFits, Window
  <2> QED BY <2>2, <2>3
<1>2. calls = [c \in Callers |-> calls[c]]
  BY DEF WrittenSince
<1> HIDE DEF calls
<1>3. calls \in [Callers -> Calls]
  BY <1>1, <1>2
<1> QED BY <1>1, <1>3 DEF calls

(* The steps of a call that read and check. *)
LEMMA ReadingSteps ==
    ASSUME FileInv, NEW c \in Callers,
           \/ \E op \in Operation : PrepareFile(c, op)
           \/ ReadBytes(c) \/ ReadIdentity(c) \/ CheckFresh(c) \/ ReadBase(c)
    PROVE  FileInv'
<1>1. fileCall[c] \in Calls /\ FileCallFits(fileCall[c], inside) /\ AtPath \in Nat
      /\ (c \in temps => fileCall[c].at \in {"staged", "dead"})
  BY DEF FileInv, TempsAreOwned, AtPath
<1>2. ASSUME NEW op \in Operation, PrepareFile(c, op) PROVE FileInv'
  <2> DEFINE pre == IF op \in {"edit", "overwrite"} THEN told[c].digest ELSE 0
             k == [NoCall EXCEPT !.op = op, !.at = "prepared", !.pre = pre]
  <2>1. /\ fileCall' = [fileCall EXCEPT ![c] = k] /\ fileCall[c] = NoCall
        /\ UNCHANGED <<inside, outside, written, byTools, told, temps>>
    BY <1>2 DEF PrepareFile
  <2>2. pre \in Nat
    BY DEF FileInv
  <2> HIDE DEF pre
  <2>3. k \in Calls /\ FileCallFits(k, inside)
    BY <2>2 DEF Calls, FileCallFits, NoCall, Window
  <2> HIDE DEF k
  <2> QED BY <1>1, <2>1, <2>3, NoCallFits, OneCall DEF FileInv
<1>3. CASE ReadBytes(c)
  <2> DEFINE k == [fileCall[c] EXCEPT !.at = "read", !.base = AtPath]
  <2>1. /\ fileCall' = [fileCall EXCEPT ![c] = k] /\ fileCall[c].at = "prepared"
        /\ UNCHANGED <<inside, outside, written, byTools, told, temps>>
    BY <1>3 DEF ReadBytes, FileInv
  <2>2. k \in Calls /\ FileCallFits(k, inside)
    BY <1>1 DEF Calls, FileCallFits, Window
  <2> HIDE DEF k
  <2> QED BY <1>1, <2>1, <2>2, OneCall DEF FileInv
<1>4. CASE ReadIdentity(c)
  <2>1. /\ fileCall' = [fileCall EXCEPT ![c] = NoCall] /\ fileCall[c].at = "read"
        /\ UNCHANGED <<inside, outside, written, byTools, temps>>
        /\ told' = [told EXCEPT ![c] = [content |-> fileCall[c].base, digest |-> AtPath]]
    BY <1>4 DEF ReadIdentity
  <2>2. told' \in [Callers -> [content : Nat, digest : Nat]]
    BY <1>1, <2>1 DEF FileInv, Calls
  <2>3. NoCall \in Calls /\ FileCallFits(NoCall, inside)
    BY NoCallFits DEF FileInv
  <2> QED BY <1>1, <2>1, <2>2, <2>3, OneCall DEF FileInv
<1>5. CASE CheckFresh(c)
  <2> DEFINE at == IF fileCall[c].op = "edit" THEN "checked" ELSE "based"
             k == [fileCall[c] EXCEPT !.at = at]
  <2>1. /\ fileCall' = [fileCall EXCEPT ![c] = k] /\ fileCall[c].at = "prepared"
        /\ inside = fileCall[c].pre
        /\ UNCHANGED <<inside, outside, written, byTools, told, temps>>
    BY <1>5 DEF CheckFresh, FreshEnough, Advance, FileInv
  <2>2. at \in {"checked", "based"}
    OBVIOUS
  <2> HIDE DEF at
  <2>3. k \in Calls /\ FileCallFits(k, inside)
    BY <1>1, <2>1, <2>2 DEF Calls, FileCallFits, Window
  <2> HIDE DEF k
  <2> QED BY <1>1, <2>1, <2>3, OneCall DEF FileInv
<1>6. CASE ReadBase(c)
  <2> DEFINE k == [fileCall[c] EXCEPT !.at = "based", !.base = AtPath]
  <2>1. /\ fileCall' = [fileCall EXCEPT ![c] = k] /\ fileCall[c].at = "checked"
        /\ UNCHANGED <<inside, outside, written, byTools, told, temps>>
    BY <1>6 DEF ReadBase, FileInv
  <2>2. k \in Calls /\ FileCallFits(k, inside)
    BY <1>1, <2>1 DEF Calls, FileCallFits, Window
  <2> HIDE DEF k
  <2> QED BY <1>1, <2>1, <2>2, OneCall DEF FileInv
<1> QED BY <1>2, <1>3, <1>4, <1>5, <1>6

(* The steps of a call that replace the file, up to the rename, and its ends. *)
LEMMA ReplacingSteps ==
    ASSUME FileInv, NEW c \in Callers,
           \/ ResolveTarget(c) \/ OpenParent(c) \/ StageTemp(c) \/ FailReplace(c)
           \/ ReportFile(c) \/ FailCall(c) \/ LoseCaller(c)
    PROVE  FileInv'
<1>1. fileCall[c] \in Calls /\ FileCallFits(fileCall[c], inside) /\ AtPath \in Nat
      /\ (c \in temps => fileCall[c].at \in {"staged", "dead"})
      /\ NoCall \in Calls /\ FileCallFits(NoCall, inside)
  BY NoCallFits DEF FileInv, TempsAreOwned, AtPath
<1>2. CASE ResolveTarget(c)
  <2> DEFINE k == [fileCall[c] EXCEPT !.at = "resolved"]
  <2>1. /\ fileCall' = [fileCall EXCEPT ![c] = k] /\ fileCall[c].at = "based"
        /\ UNCHANGED <<inside, outside, written, byTools, told, temps>>
    BY <1>2 DEF ResolveTarget, Advance, FileInv
  <2>2. k \in Calls /\ FileCallFits(k, inside)
    BY <1>1, <2>1 DEF Calls, FileCallFits, Window
  <2> HIDE DEF k
  <2> QED BY <1>1, <2>1, <2>2, OneCall DEF FileInv
<1>3. CASE OpenParent(c)
  <2> DEFINE k == [fileCall[c] EXCEPT !.at = "opened", !.handle = "directory"]
  <2>1. /\ fileCall' = [fileCall EXCEPT ![c] = k] /\ fileCall[c].at = "resolved"
        /\ UNCHANGED <<inside, outside, written, byTools, told, temps>>
    BY <1>3 DEF OpenParent, FileInv
  <2>2. k \in Calls /\ FileCallFits(k, inside)
    BY <1>1, <2>1 DEF Calls, FileCallFits, Window
  <2> HIDE DEF k
  <2> QED BY <1>1, <2>1, <2>2, OneCall DEF FileInv
<1>4. CASE StageTemp(c)
  <2> DEFINE k == [fileCall[c] EXCEPT !.at = "staged"]
  <2>1. /\ fileCall' = [fileCall EXCEPT ![c] = k] /\ fileCall[c].at = "opened"
        /\ temps' = temps \cup {c}
        /\ UNCHANGED <<inside, outside, written, byTools, told>>
    BY <1>4 DEF StageTemp, FileInv
  <2>2. k \in Calls /\ FileCallFits(k, inside) /\ k.at = "staged"
    BY <1>1, <2>1 DEF Calls, FileCallFits, Window
  <2> HIDE DEF k
  <2> QED BY <1>1, <2>1, <2>2, OneCall DEF FileInv
<1>5. CASE FailReplace(c)
  <2>1. /\ fileCall' = [fileCall EXCEPT ![c] = NoCall] /\ temps' = temps \ {c}
        /\ UNCHANGED <<inside, outside, written, byTools, told>>
    BY <1>5 DEF FailReplace, DropTemp
  <2> QED BY <1>1, <2>1, OneCall DEF FileInv
<1>6. CASE ReportFile(c)
  <2>1. /\ fileCall' = [fileCall EXCEPT ![c] = NoCall] /\ fileCall[c].at = "renamed"
        /\ UNCHANGED <<inside, outside, written, byTools, temps>>
        /\ told' = [told EXCEPT ![c] = [content |-> fileCall[c].base, digest |-> AtPath]]
    BY <1>6 DEF ReportFile
  <2>2. told' \in [Callers -> [content : Nat, digest : Nat]]
    BY <1>1, <2>1 DEF FileInv, Calls
  <2> QED BY <1>1, <2>1, <2>2, OneCall DEF FileInv
<1>7. CASE FailCall(c)
  <2>1. /\ fileCall' = [fileCall EXCEPT ![c] = NoCall] /\ c \notin temps
        /\ UNCHANGED <<inside, outside, written, byTools, told, temps>>
    BY <1>1, <1>7 DEF FailCall, Fail
  <2> QED BY <1>1, <2>1, OneCall DEF FileInv
<1>8. CASE LoseCaller(c)
  <2> DEFINE k == [NoCall EXCEPT !.at = "dead"]
  <2>1. /\ fileCall' = [fileCall EXCEPT ![c] = k]
        /\ UNCHANGED <<inside, outside, written, byTools, told, temps>>
    BY <1>8 DEF LoseCaller
  <2>2. k \in Calls /\ FileCallFits(k, inside) /\ k.at = "dead"
    BY NoCallFits DEF FileInv
  <2> HIDE DEF k
  <2> QED BY <1>1, <2>1, <2>2, OneCall DEF FileInv
<1> QED BY <1>2, <1>3, <1>4, <1>5, <1>6, <1>7, <1>8

(* The rename puts a fresh content in the workspace, never outside. *)
LEMMA RenameStep == ASSUME FileInv, NEW c \in Callers, RenameTemp(c) PROVE FileInv'
<1> DEFINE calls == WrittenSince(fileCall, Fresh)
           k == [fileCall[c] EXCEPT !.at = "renamed", !.base = Fresh]
<1>1. fileCall[c] \in Calls /\ fileCall[c].handle = "directory" /\ Fresh \in Nat /\ Fresh > 2
  BY DEF FileInv, RenameTemp, FileCallFits, Fresh
<1>2. /\ written' = Fresh /\ byTools' = byTools \cup {Fresh} /\ temps' = temps \ {c}
      /\ inside' = Fresh /\ UNCHANGED <<outside, told>>
      /\ fileCall' = [calls EXCEPT ![c] = k]
  BY <1>1 DEF RenameTemp
<1>3. calls \in [Callers -> Calls]
      /\ \A d \in Callers : FileCallFits(calls[d], Fresh) /\ calls[d].at = fileCall[d].at
  BY <1>1, WrittenCalls
<1>4. k \in Calls /\ FileCallFits(k, Fresh)
  BY <1>1 DEF Calls, FileCallFits, Window
<1> HIDE DEF calls, k
<1>5. /\ fileCall' \in [Callers -> Calls] /\ fileCall'[c] = k
      /\ \A d \in Callers : d # c => fileCall'[d] = calls[d]
  BY <1>2, <1>3, <1>4
<1>6. \A d \in Callers : FileCallFits(fileCall'[d], inside')
  BY <1>2, <1>3, <1>4, <1>5
<1>7. temps' \subseteq Callers /\ TempsAreOwned'
  BY <1>2, <1>3, <1>5 DEF FileInv, TempsAreOwned
<1>8. written' \in Nat /\ written' >= 2 /\ inside' \in Nat /\ outside' = 2
      /\ \A v \in byTools' : v \in Nat /\ v > 2
  BY <1>1, <1>2 DEF FileInv
<1> QED BY <1>2, <1>5, <1>6, <1>7, <1>8 DEF FileInv

(* The user's programs write and delete the file and move the directory. *)
LEMMA UserSteps ==
    ASSUME FileInv, UserSaves \/ UserDeletes \/ UserRelinks PROVE FileInv'
<1>1. ASSUME NEW v \in Nat, inside' = v, fileCall' = WrittenSince(fileCall, v),
             UNCHANGED <<outside, byTools, temps, told>>, written' \in Nat, written' >= 2
      PROVE  FileInv'
  <2>1. fileCall' \in [Callers -> Calls]
        /\ \A d \in Callers : FileCallFits(fileCall'[d], v) /\ fileCall'[d].at = fileCall[d].at
    BY <1>1, WrittenCalls
  <2>2. TempsAreOwned'
    BY <1>1, <2>1 DEF FileInv, TempsAreOwned
  <2> QED BY <1>1, <2>1, <2>2 DEF FileInv
<1>2. CASE UserSaves
  <2>1. Fresh \in Nat /\ Fresh >= 2
    BY DEF FileInv, Fresh
  <2> QED BY <1>1, <1>2, <2>1 DEF UserSaves
<1>3. CASE UserDeletes
  BY <1>1, <1>3 DEF UserDeletes, FileInv
<1>4. CASE UserRelinks
  BY <1>4 DEF UserRelinks, FileInv, TempsAreOwned
<1> QED BY <1>2, <1>3, <1>4

LEMMA FileInvariant == FileSpec => []FileInv
<1>1. FileInit => FileInv
  <2> SUFFICES ASSUME FileInit PROVE FileInv
    OBVIOUS
  <2>1. Told \in [content : Nat, digest : Nat]
    BY DEF Told
  <2>2. \A c \in Callers : fileCall[c] = NoCall /\ NoCall \in Calls /\ FileCallFits(NoCall, inside)
    BY NoCallFits DEF FileInit
  <2> QED BY <2>1, <2>2 DEF FileInit, FileInv, TempsAreOwned
<1>2. FileInv /\ [FileNext]_fileVars => FileInv'
  <2> SUFFICES ASSUME FileInv, [FileNext]_fileVars PROVE FileInv'
    OBVIOUS
  <2>1. ASSUME NEW c \in Callers, ToolStep(c) PROVE FileInv'
    BY <2>1, ReadingSteps, ReplacingSteps, RenameStep DEF ToolStep
  <2>2. CASE UserSaves \/ UserDeletes \/ UserRelinks
    BY <2>2, UserSteps
  <2>3. CASE UNCHANGED fileVars
    BY <2>3 DEF fileVars, FileInv, TempsAreOwned
  <2> QED BY <2>1, <2>2, <2>3 DEF FileNext
<1> QED BY <1>1, <1>2, PTL DEF FileSpec

(* The file tools keep what FileToolsCorrect promises of tools.rs and workspace.rs: no
   write leaves the workspace (WritesStayInside), although the directory may become a
   link after every check of the path; and a temporary file belongs to a call that will
   rename or remove it, or to a process that died (TempsAreOwned). *)
THEOREM FileToolsSafety == FileSpec => []FileToolsCorrect
<1>1. FileInv => FileToolsCorrect
  BY DEF FileInv, FileToolsCorrect, WritesStayInside
<1> QED BY <1>1, FileInvariant, PTL

(* A rename overwrites nothing but the content whose digest the call was given, or one
   that came between its freshness check and its rename (OnlyTheWindowIsLost;
   require_fresh and atomic_replace). *)
THEOREM WindowOnly == FileSpec => OnlyTheWindowIsLost
<1>1. FileInv => [\A c \in Callers :
          fileCall[c].at = "staged" /\ fileCall'[c].at = "renamed" =>
              \/ inside = fileCall[c].pre
              \/ inside \in fileCall[c].since]_fileVars
  BY DEF FileInv, FileCallFits, Window
<1> QED BY <1>1, FileInvariant, PTL DEF OnlyTheWindowIsLost

-----------------------------------------------------------------------------
(* The session catalogue *)

CatalogRows == [home : Roots, title : Names, at : 0 .. MaxTime]

CursorKeys == [at : Nat, rowid : Nat]

Listings == [phase : {"paging", "listed", "capped", "exceeded"}, query : Queries,
             cursor : CursorKeys, pages : Nat, got : Seq(Nat), still : SUBSET Nat]

CatalogPlain ==
    /\ catalog \in Seq(CatalogRows) /\ now \in 0 .. MaxTime
    /\ \A r \in Ids : catalog[r].at <= now
    /\ listing = NoListing \/ listing \in Listings

(* What a listing in progress has: nothing it got lies below its cursor, and every session
   it owes lies there or was got.  Commits only move a row up. *)
PagingFits ==
    listing.phase = "paging" =>
        /\ listing.pages < MaxPages /\ Len(listing.got) = listing.pages * PageLimit
        /\ \A i \in DOMAIN listing.got :
              listing.got[i] \in Ids /\ ~Below(SortKey(listing.got[i]), listing.cursor)
        /\ \A r \in listing.still :
              /\ r \in Ids /\ Matches(r, listing.query)
              /\ \/ Below(SortKey(r), listing.cursor)
                 \/ \E i \in DOMAIN listing.got : listing.got[i] = r

CatalogInv == CatalogPlain /\ PagingFits /\ CatalogCorrect

(* The order of the listing is total. *)
LEMMA KeyOrder ==
    \A a, b, c \in CursorKeys :
       /\ ~Below(a, a) /\ ~(Below(a, b) /\ Below(b, a))
       /\ Below(a, b) /\ Below(b, c) => Below(a, c)
       /\ a.rowid # b.rowid => Below(a, b) \/ Below(b, a)
BY DEF CursorKeys, Below

LEMMA KeysOfRows ==
    ASSUME CatalogPlain, NEW r \in Ids
    PROVE  /\ SortKey(r) \in CursorKeys /\ SortKey(r).rowid = r /\ r \in Nat /\ r > 0
           /\ Below(SortKey(r), NoCursor) /\ SortKey(r) # NoCursor
<1>1. catalog[r] \in CatalogRows /\ r \in Nat /\ r > 0
  BY DEF CatalogPlain, Ids
<1>2. catalog[r].at \in Nat /\ catalog[r].at <= MaxTime /\ MaxTime \in Nat
  BY <1>1, CatalogAssumption DEF CatalogRows
<1> QED BY <1>1, <1>2 DEF SortKey, CursorKeys, NoCursor, Below

(* A set of rows of the table is finite. *)
LEMMA RowsFinite ==
    ASSUME CatalogPlain, NEW rows \in SUBSET Ids
    PROVE  IsFiniteSet(rows) /\ Cardinality(rows) \in Nat
<1>1. Ids = 1 .. Len(catalog) /\ Len(catalog) \in Nat
  BY DEF CatalogPlain, Ids
<1>2. IsFiniteSet(Ids)
  BY <1>1, FS_Interval
<1> QED BY <1>2, FS_Subset, FS_CardinalityType

(* ORDER BY: every row of the set has its place, and later places have lower keys.  The
   number of rows above a row is injective, hence onto the places. *)
LEMMA OrderedRows ==
    ASSUME CatalogPlain, NEW rows \in SUBSET Ids
    PROVE  LET o == Ordered(rows)
               n == Cardinality(rows)
           IN  /\ o \in [1 .. n -> rows]
               /\ \A i, j \in 1 .. n : i < j => Below(SortKey(o[j]), SortKey(o[i]))
               /\ \A r \in rows : \E i \in 1 .. n : o[i] = r
<1> DEFINE n == Cardinality(rows)
           Above(r) == {s \in rows : Below(SortKey(r), SortKey(s))}
           rank == [r \in rows |-> Cardinality(Above(r))]
           o == Ordered(rows)
<1>1. IsFiniteSet(rows) /\ n \in Nat
  BY RowsFinite
<1>2. \A r \in rows : SortKey(r) \in CursorKeys /\ SortKey(r).rowid = r
  BY KeysOfRows
<1>3. \A r, s, t \in rows :
         /\ ~Below(SortKey(r), SortKey(r))
         /\ Below(SortKey(r), SortKey(s)) /\ Below(SortKey(s), SortKey(t))
              => Below(SortKey(r), SortKey(t))
         /\ r # s => Below(SortKey(r), SortKey(s)) \/ Below(SortKey(s), SortKey(r))
  BY <1>2, KeyOrder
<1>4. \A r \in rows : IsFiniteSet(Above(r)) /\ rank[r] \in 0 .. n - 1
  <2> SUFFICES ASSUME NEW r \in rows PROVE IsFiniteSet(Above(r)) /\ rank[r] \in 0 .. n - 1
    OBVIOUS
  <2>1. Above(r) \in SUBSET rows /\ Above(r) # rows
    BY <1>3
  <2> HIDE DEF Above
  <2>2. IsFiniteSet(Above(r)) /\ Cardinality(Above(r)) \in Nat
        /\ Cardinality(Above(r)) <= n /\ Cardinality(Above(r)) # n
    BY <1>1, <2>1, FS_Subset, FS_CardinalityType
  <2> QED BY <1>1, <2>2
<1>5. \A r, s \in rows : Below(SortKey(r), SortKey(s)) => rank[s] < rank[r]
  <2> SUFFICES ASSUME NEW r \in rows, NEW s \in rows, Below(SortKey(r), SortKey(s))
               PROVE  rank[s] < rank[r]
    OBVIOUS
  <2>1. Above(s) \in SUBSET Above(r)
    BY <1>3
  <2>2. s \in Above(r) /\ s \notin Above(s)
    BY <1>3
  <2>3. IsFiniteSet(Above(r)) /\ rank[r] \in Nat /\ rank[s] \in Nat
        /\ rank[r] = Cardinality(Above(r)) /\ rank[s] = Cardinality(Above(s))
    BY <1>4
  <2> HIDE DEF Above, rank
  <2>4. Cardinality(Above(s)) <= Cardinality(Above(r))
        /\ Cardinality(Above(s)) # Cardinality(Above(r))
    BY <2>1, <2>2, <2>3, FS_Subset
  <2> QED BY <2>3, <2>4
<1>6. \A r, s \in rows : rank[r] = rank[s] => r = s
  <2> SUFFICES ASSUME NEW r \in rows, NEW s \in rows, rank[r] = rank[s], r # s PROVE FALSE
    OBVIOUS
  <2>1. rank[r] < rank[s] \/ rank[s] < rank[r]
    BY <1>3, <1>5
  <2>2. rank[r] \in 0 .. n - 1 /\ rank[s] \in 0 .. n - 1
    BY <1>4
  <2> HIDE DEF rank, n
  <2> QED BY <1>1, <2>1, <2>2
<1>7. rank \in Surjection(rows, 0 .. n - 1)
  <2>1. rank \in Injection(rows, 0 .. n - 1)
    <3>1. rank \in [rows -> 0 .. n - 1]
      BY <1>4
    <3> HIDE DEF rank
    <3> QED BY <1>6, <3>1 DEF Injection, IsInjective
  <2>2. IsFiniteSet(0 .. n - 1) /\ Cardinality(0 .. n - 1) = n
    <3> HIDE DEF n
    <3>1. 0 \in Int /\ n - 1 \in Int /\ (IF 0 > n - 1 THEN 0 ELSE (n - 1) - 0 + 1) = n
      BY <1>1
    <3>2. /\ IsFiniteSet(0 .. n - 1)
          /\ Cardinality(0 .. n - 1) = IF 0 > n - 1 THEN 0 ELSE (n - 1) - 0 + 1
      BY <3>1, FS_Interval
    <3> QED BY <3>1, <3>2
  <2> HIDE DEF rank
  <2> QED BY <2>1, <2>2, FS_Injection
<1>8. \A i \in 1 .. n : o[i] \in rows /\ rank[o[i]] = i - 1
  <2> SUFFICES ASSUME NEW i \in 1 .. n PROVE o[i] \in rows /\ rank[o[i]] = i - 1
    OBVIOUS
  <2>1. \E r \in rows : rank[r] = i - 1
    <3>1. i - 1 \in 0 .. n - 1
      BY <1>1
    <3> HIDE DEF rank
    <3> QED BY <1>7, <3>1 DEF Surjection
  <2>2. \E r \in rows : Cardinality(Above(r)) = i - 1
    BY <2>1
  <2>3. o[i] = CHOOSE r \in rows : Cardinality(Above(r)) = i - 1
    BY DEF Ordered
  <2>4. o[i] \in rows /\ Cardinality(Above(o[i])) = i - 1
    <3> HIDE DEF Above, rank, o
    <3> QED BY <2>2, <2>3
  <2> QED BY <2>4
<1>9. o \in [1 .. n -> rows]
  <2>1. o = [i \in 1 .. n |-> o[i]]
    BY DEF Ordered
  <2> HIDE DEF o, n, rank
  <2> QED BY <1>8, <2>1
<1>10. \A i, j \in 1 .. n : i < j => Below(SortKey(o[j]), SortKey(o[i]))
  <2> SUFFICES ASSUME NEW i \in 1 .. n, NEW j \in 1 .. n, i < j
               PROVE  Below(SortKey(o[j]), SortKey(o[i]))
    OBVIOUS
  <2>1. /\ o[i] \in rows /\ o[j] \in rows /\ rank[o[i]] = i - 1 /\ rank[o[j]] = j - 1
    BY <1>8
  <2> HIDE DEF o, n, rank
  <2>2. o[i] # o[j] /\ ~(rank[o[j]] < rank[o[i]])
    BY <1>1, <2>1
  <2> QED BY <1>3, <1>5, <2>1, <2>2
<1>11. \A r \in rows : \E i \in 1 .. n : o[i] = r
  <2> SUFFICES ASSUME NEW r \in rows PROVE \E i \in 1 .. n : o[i] = r
    OBVIOUS
  <2>1. rank[r] \in 0 .. n - 1
    BY <1>4
  <2> HIDE DEF o, n, rank
  <2>2. rank[r] + 1 \in 1 .. n
    BY <1>1, <2>1
  <2>3. o[rank[r] + 1] \in rows /\ rank[o[rank[r] + 1]] = rank[r]
    BY <1>8, <2>1, <2>2
  <2>4. o[rank[r] + 1] = r
    BY <1>6, <2>3
  <2> QED BY <2>2, <2>4
<1> QED BY <1>9, <1>10, <1>11

(* LIMIT: what a page p, cut from the fetched rows f, holds of the eligible rows, what its
   cursor is, and what is left below it. *)
PageFacts(f, p, rows) ==
    /\ Len(f) \in Nat /\ p \in Seq(Nat)
    /\ Len(p) = IF Len(f) > PageLimit THEN PageLimit ELSE Len(f)
    /\ \A i \in 1 .. Len(p) : p[i] \in rows
    /\ \A i, j \in 1 .. Len(p) : p[i] = p[j] => i = j
    /\ Len(f) <= PageLimit => \A r \in rows : \E i \in 1 .. Len(p) : p[i] = r
    /\ Len(f) > PageLimit =>
          /\ \E r \in rows : NextCursor(f) = SortKey(r)
          /\ \A i \in 1 .. Len(p) : ~Below(SortKey(p[i]), NextCursor(f))
          /\ \A r \in rows : \/ \E i \in 1 .. Len(p) : p[i] = r
                             \/ Below(SortKey(r), NextCursor(f))

LEMMA PageHolds ==
    ASSUME CatalogPlain, NEW q \in Queries, NEW c \in CursorKeys
    PROVE  PageFacts(Fetched(q, c), PageItems(Fetched(q, c)), Eligible(q, c))
<1> SUFFICES ASSUME NEW f, f = Fetched(q, c), NEW p, p = PageItems(f),
                    NEW rows, rows = Eligible(q, c)
             PROVE  PageFacts(f, p, rows)
  OBVIOUS
<1> DEFINE o == Ordered(rows)
           n == Cardinality(rows)
           m == IF n > PageLimit THEN PageLimit + 1 ELSE n
           l == IF n > PageLimit THEN PageLimit ELSE n
<1>1. rows \in SUBSET Ids /\ n \in Nat /\ Ids \subseteq Nat /\ PageLimit \in Nat \ {0}
  <2>1. rows \in SUBSET Ids
    BY DEF Eligible
  <2>2. n \in Nat
    BY <2>1, RowsFinite
  <2> QED BY <2>1, <2>2, KeysOfRows, CatalogAssumption
<1>2. /\ o \in [1 .. n -> rows]
      /\ \A i, j \in 1 .. n : i < j => Below(SortKey(o[j]), SortKey(o[i]))
      /\ \A r \in rows : \E i \in 1 .. n : o[i] = r
  BY <1>1, OrderedRows
<1>3. f = SubSeq(o, 1, IF Len(o) > PageLimit THEN PageLimit + 1 ELSE Len(o))
      /\ p = SubSeq(f, 1, IF Len(f) > PageLimit THEN PageLimit ELSE Len(f))
      /\ NextCursor(f) = IF Len(f) > PageLimit THEN SortKey(f[PageLimit]) ELSE NoCursor
  BY DEF Fetched, PageItems, NextCursor
<1> HIDE DEF o, n
<1>4. Len(o) = n /\ \A i \in 1 .. n : o[i] \in rows
  BY <1>1, <1>2
<1>5. /\ f \in Seq(rows) /\ Len(f) = m /\ \A i \in 1 .. m : f[i] = o[i]
  <2>1. m \in Nat /\ m <= n /\ f = SubSeq(o, 1, m)
    BY <1>1, <1>3, <1>4
  <2> HIDE DEF m
  <2>2. \A i \in 1 .. m : o[i] \in rows
    BY <1>1, <1>4, <2>1
  <2>3. /\ SubSeq(o, 1, m) \in Seq(rows)
        /\ Len(SubSeq(o, 1, m)) = IF 1 <= m THEN m - 1 + 1 ELSE 0
        /\ \A i \in 1 .. m - 1 + 1 : SubSeq(o, 1, m)[i] = o[1 + i - 1]
    BY <2>1, <2>2, SubSeqProperties
  <2> QED BY <1>1, <2>1, <2>3
<1>6. /\ p \in Seq(rows) /\ Len(p) = l /\ \A i \in 1 .. l : p[i] = o[i]
  <2>1. l \in Nat /\ l <= m /\ p = SubSeq(f, 1, l)
    BY <1>1, <1>3, <1>5
  <2>2. m \in Nat
    BY <1>1
  <2> HIDE DEF m, l
  <2>3. \A i \in 1 .. l : f[i] \in rows /\ f[i] = o[i]
    BY <1>5, <2>1, <2>2
  <2>4. /\ SubSeq(f, 1, l) \in Seq(rows)
        /\ Len(SubSeq(f, 1, l)) = IF 1 <= l THEN l - 1 + 1 ELSE 0
        /\ \A i \in 1 .. l - 1 + 1 : SubSeq(f, 1, l)[i] = f[1 + i - 1]
    BY <2>1, <2>3, SubSeqProperties
  <2> QED BY <2>1, <2>3, <2>4
<1>7. \A r, s \in rows : ~Below(SortKey(r), SortKey(r))
                          /\ ~(Below(SortKey(r), SortKey(s)) /\ Below(SortKey(s), SortKey(r)))
  BY <1>1, KeysOfRows, KeyOrder
<1>8. \A i, j \in 1 .. Len(p) : p[i] = p[j] => i = j
  <2> SUFFICES ASSUME NEW i \in 1 .. Len(p), NEW j \in 1 .. Len(p), p[i] = p[j], i # j
               PROVE  FALSE
    OBVIOUS
  <2>1. i \in 1 .. n /\ j \in 1 .. n /\ o[i] = o[j] /\ o[i] \in rows
    BY <1>1, <1>4, <1>6
  <2>2. i < j \/ j < i
    BY <2>1
  <2> QED BY <1>2, <1>7, <2>1, <2>2
<1>9. p \in Seq(Nat) /\ \A i \in 1 .. Len(p) : p[i] \in rows
  <2> HIDE DEF l
  <2>1. Len(p) \in Nat /\ p \in [1 .. Len(p) -> rows]
    BY <1>6, LenProperties
  <2>2. p \in [1 .. Len(p) -> Nat]
    BY <1>1, <2>1
  <2>3. p \in Seq(Nat)
    BY <2>1, <2>2
  <2> QED BY <2>1, <2>3
<1>10. CASE n <= PageLimit
  <2>1. m = n /\ l = n
    BY <1>1, <1>10
  <2>2. Len(f) <= PageLimit /\ Len(f) \in Nat /\ Len(p) = Len(f) /\ ~(Len(f) > PageLimit)
    BY <1>1, <1>5, <1>6, <1>10, <2>1
  <2>3. \A r \in rows : \E i \in 1 .. Len(p) : p[i] = r
    BY <1>2, <1>6, <2>1
  <2>4. p \in Seq(Nat) /\ \A i \in 1 .. Len(p) : p[i] \in rows
    BY <1>9
  <2> QED BY <1>8, <2>2, <2>3, <2>4 DEF PageFacts
<1>11. CASE n > PageLimit
  <2>1. m = PageLimit + 1 /\ l = PageLimit
    BY <1>1, <1>11
  <2>2. /\ Len(f) > PageLimit /\ Len(f) \in Nat /\ Len(p) = PageLimit
        /\ PageLimit \in 1 .. n /\ PageLimit \in 1 .. m
    BY <1>1, <1>5, <1>6, <1>11, <2>1
  <2>3. NextCursor(f) = SortKey(o[PageLimit]) /\ o[PageLimit] \in rows
    BY <1>3, <1>4, <1>5, <2>2
  <2>4. \A i \in 1 .. Len(p) : ~Below(SortKey(p[i]), NextCursor(f))
    <3> SUFFICES ASSUME NEW i \in 1 .. Len(p) PROVE ~Below(SortKey(p[i]), NextCursor(f))
      OBVIOUS
    <3>1. i \in 1 .. n /\ (i < PageLimit \/ i = PageLimit) /\ p[i] = o[i] /\ o[i] \in rows
      BY <1>1, <1>4, <1>6, <2>1, <2>2
    <3> QED BY <1>2, <1>7, <2>2, <2>3, <3>1
  <2>5. \A r \in rows : (\E i \in 1 .. Len(p) : p[i] = r) \/ Below(SortKey(r), NextCursor(f))
    <3> SUFFICES ASSUME NEW r \in rows
                 PROVE  (\E i \in 1 .. Len(p) : p[i] = r) \/ Below(SortKey(r), NextCursor(f))
      OBVIOUS
    <3>1. PICK i \in 1 .. n : o[i] = r
      BY <1>2
    <3>2. CASE i <= PageLimit
      BY <1>1, <1>6, <2>1, <2>2, <3>1, <3>2
    <3>3. CASE PageLimit < i
      BY <1>2, <2>2, <2>3, <3>1, <3>3
    <3> QED BY <1>1, <3>2, <3>3
  <2>6. p \in Seq(Nat) /\ \A i \in 1 .. Len(p) : p[i] \in rows
    BY <1>9
  <2>7. \E r \in rows : NextCursor(f) = SortKey(r)
    BY <2>3
  <2> QED BY <1>8, <2>2, <2>4, <2>5, <2>6, <2>7 DEF PageFacts
<1> QED BY <1>1, <1>10, <1>11

(* A row's title and place; what a listing in progress relies on. *)
LEMMA CatalogInitially == CatalogInit => CatalogInv
<1> SUFFICES ASSUME CatalogInit PROVE CatalogInv
  OBVIOUS
<1>1. catalog = <<>> /\ now = 0 /\ listing = NoListing /\ listing.phase = "idle"
  BY DEF CatalogInit, NoListing
<1>2. CatalogPlain
  BY <1>1, CatalogAssumption DEF CatalogPlain, Ids
<1> QED BY <1>1, <1>2 DEF CatalogInv, PagingFits, CatalogCorrect, ListedOnce,
                          UntouchedIsListed, GivesUpOnlyBeyondBound

(* A listing that ends or begins while the rows stay. *)
LEMMA FreshListing ==
    ASSUME CatalogInv, UNCHANGED <<catalog, now>>,
           listing' = NoListing \/ listing' \in Listings, PagingFits', CatalogCorrect'
    PROVE  CatalogInv'
BY DEF CatalogInv, CatalogPlain, Ids

LEMMA InsertKeeps ==
    ASSUME CatalogInv, NEW w \in Roots, NEW t \in Names, Insert(w, t) PROVE CatalogInv'
<1> DEFINE new == [home |-> w, title |-> t, at |-> now]
<1>1. /\ catalog \in Seq(CatalogRows) /\ new \in CatalogRows /\ catalog' = Append(catalog, new)
      /\ now' = now /\ listing' = listing /\ now \in 0 .. MaxTime /\ new.at = now
  BY DEF CatalogInv, CatalogPlain, Insert, CatalogRows
<1> HIDE DEF new
<1>2. /\ catalog' \in Seq(CatalogRows) /\ Len(catalog') = Len(catalog) + 1
      /\ \A r \in Ids : r \in Ids' /\ catalog'[r] = catalog[r]
      /\ \A r \in Ids' : r \in Ids \/ catalog'[r] = new
  <2>1. /\ Append(catalog, new) \in Seq(CatalogRows)
        /\ Len(Append(catalog, new)) = Len(catalog) + 1
        /\ \A i \in 1 .. Len(catalog) : Append(catalog, new)[i] = catalog[i]
        /\ Append(catalog, new)[Len(catalog) + 1] = new
    BY <1>1, AppendProperties
  <2>2. Ids = 1 .. Len(catalog) /\ Ids' = 1 .. Len(catalog') /\ Len(catalog) \in Nat
    BY <1>1, <2>1, LenProperties DEF Ids
  <2> QED BY <1>1, <2>1, <2>2
<1>3. CatalogPlain'
  <2>1. \A r \in Ids' : catalog'[r].at <= now'
    <3> SUFFICES ASSUME NEW r \in Ids' PROVE catalog'[r].at <= now
      BY <1>1
    <3>1. CASE r \in Ids
      BY <1>2, <3>1 DEF CatalogInv, CatalogPlain
    <3>2. CASE catalog'[r] = new
      BY <1>1, <3>2, CatalogAssumption
    <3> QED BY <1>2, <3>1, <3>2
  <2> QED BY <1>1, <1>2, <2>1 DEF CatalogInv, CatalogPlain
<1>4. PagingFits'
  <2> SUFFICES ASSUME listing.phase = "paging" PROVE PagingFits'
    BY <1>1 DEF PagingFits
  <2>1. \A r \in Ids : SortKey(r)' = SortKey(r) /\ r \in Ids'
    BY <1>2 DEF SortKey
  <2>2. \A r \in Ids : Matches(r, listing.query) => Matches(r, listing.query)'
    BY <1>1, <1>2 DEF Matches
  <2> QED BY <1>1, <2>1, <2>2 DEF CatalogInv, PagingFits
<1> QED BY <1>1, <1>3, <1>4 DEF CatalogInv, CatalogCorrect, ListedOnce, UntouchedIsListed,
                                GivesUpOnlyBeyondBound

(* A listing to which a changed row is owed no more. *)
LEMMA MovedListing ==
    ASSUME CatalogInv, NEW r, listing' = Moved(r)
    PROVE  /\ listing.phase # "paging" => listing' = listing
           /\ listing.phase = "paging" =>
                 /\ listing' \in Listings /\ listing'.phase = "paging"
                 /\ listing'.query = listing.query /\ listing'.cursor = listing.cursor
                 /\ listing'.pages = listing.pages /\ listing'.got = listing.got
                 /\ listing'.still = listing.still \ {r}
<1> SUFFICES ASSUME listing.phase = "paging"
             PROVE  /\ listing' \in Listings /\ listing'.phase = "paging"
                    /\ listing'.query = listing.query /\ listing'.cursor = listing.cursor
                    /\ listing'.pages = listing.pages /\ listing'.got = listing.got
                    /\ listing'.still = listing.still \ {r}
  BY DEF Moved
<1>1. listing \in Listings
  BY DEF CatalogInv, CatalogPlain, NoListing
<1>2. listing' = [listing EXCEPT !.still = listing.still \ {r}]
  BY DEF Moved
<1> QED BY <1>1, <1>2 DEF Listings

(* A commit or a rename: one row changes, moves up if at all, and is owed no more. *)
LEMMA RowChanges ==
    ASSUME CatalogInv, NEW r \in Ids, NEW row \in CatalogRows, listing' = Moved(r),
           catalog' = [catalog EXCEPT ![r] = row], now' = now,
           catalog[r].at <= row.at, row.at <= now
    PROVE  CatalogInv'
<1>1. /\ catalog \in Seq(CatalogRows) /\ now \in 0 .. MaxTime
      /\ \A s \in Ids : catalog[s].at <= now
  BY DEF CatalogInv, CatalogPlain
<1>2. /\ catalog' \in Seq(CatalogRows) /\ Ids' = Ids /\ catalog'[r] = row
      /\ \A s \in Ids : s # r => catalog'[s] = catalog[s]
  <2>1. /\ Len(catalog) \in Nat /\ catalog \in [1 .. Len(catalog) -> CatalogRows]
        /\ Ids = 1 .. Len(catalog)
    BY <1>1, LenProperties DEF Ids
  <2>2. catalog' \in [1 .. Len(catalog) -> CatalogRows]
    BY <2>1
  <2>3. catalog' \in Seq(CatalogRows)
    BY <2>1, <2>2
  <2> QED BY <2>1, <2>2, <2>3 DEF Ids
<1>3. CatalogPlain'
  <2>1. \A s \in Ids' : catalog'[s].at <= now'
    BY <1>1, <1>2
  <2>2. listing' = NoListing \/ listing' \in Listings
    BY MovedListing DEF CatalogInv, CatalogPlain
  <2> QED BY <1>1, <1>2, <2>1, <2>2 DEF CatalogPlain
<1>4. PagingFits'
  <2> SUFFICES ASSUME listing.phase = "paging" PROVE PagingFits'
    BY MovedListing DEF PagingFits
  <2>1. listing \in Listings /\ listing.cursor \in CursorKeys
    BY DEF CatalogInv, CatalogPlain, NoListing, Listings
  <2>2. \A s \in Ids : s # r => SortKey(s)' = SortKey(s)
                               /\ (Matches(s, listing.query) => Matches(s, listing.query)')
    BY <1>2, MovedListing DEF SortKey, Matches
  <2>3. \A s \in Ids : ~Below(SortKey(s), listing.cursor) => ~Below(SortKey(s)', listing.cursor)
    <3>1. ~Below(SortKey(r), listing.cursor) => ~Below(SortKey(r)', listing.cursor)
      <4>1. SortKey(r)' = [at |-> row.at, rowid |-> r] /\ SortKey(r) = [at |-> catalog[r].at, rowid |-> r]
        BY <1>2 DEF SortKey
      <4>2. catalog[r].at \in Nat /\ row.at \in Nat /\ r \in Nat
        <5>1. catalog[r] \in CatalogRows /\ r \in Nat
          BY <1>1 DEF Ids
        <5> QED BY <5>1, CatalogAssumption DEF CatalogRows
      <4> QED BY <2>1, <4>1, <4>2 DEF Below, CursorKeys
    <3> QED BY <2>2, <3>1
  <2> QED BY <1>2, <2>2, <2>3, MovedListing DEF CatalogInv, PagingFits
<1>5. CatalogCorrect'
  <2>1. CASE listing.phase # "paging"
    BY <2>1, MovedListing DEF CatalogInv, CatalogCorrect, ListedOnce, UntouchedIsListed,
                              GivesUpOnlyBeyondBound
  <2>2. CASE listing.phase = "paging"
    BY <2>2, MovedListing DEF CatalogInv, CatalogCorrect, ListedOnce, UntouchedIsListed,
                              GivesUpOnlyBeyondBound
  <2> QED BY <2>1, <2>2
<1> QED BY <1>3, <1>4, <1>5 DEF CatalogInv

LEMMA TouchKeeps ==
    ASSUME CatalogInv, NEW r \in Rowids, Touch(r) PROVE CatalogInv'
<1> DEFINE row == [home |-> catalog[r].home, title |-> catalog[r].title, at |-> now]
<1>1. /\ r \in Ids /\ catalog[r] \in CatalogRows /\ catalog[r].at <= now /\ now \in 0 .. MaxTime
  BY DEF CatalogInv, CatalogPlain, Touch, Ids
<1>2. /\ row \in CatalogRows /\ row.at = now /\ [catalog[r] EXCEPT !.at = now] = row
  BY <1>1 DEF CatalogRows
<1>3. catalog' = [catalog EXCEPT ![r] = row] /\ now' = now /\ listing' = Moved(r)
  BY <1>2 DEF Touch
<1> HIDE DEF row
<1>4. catalog[r].at <= row.at /\ row.at <= now
  BY <1>1, <1>2, CatalogAssumption
<1> QED BY <1>1, <1>2, <1>3, <1>4, RowChanges, Zenon

LEMMA RenameKeeps ==
    ASSUME CatalogInv, NEW w \in Roots, NEW r \in Rowids, NEW t \in Names, Rename(w, r, t)
    PROVE  CatalogInv'
<1> DEFINE row == [home |-> catalog[r].home, title |-> t, at |-> catalog[r].at]
<1>1. /\ r \in Ids /\ catalog[r] \in CatalogRows /\ catalog[r].at <= now /\ now \in 0 .. MaxTime
  BY DEF CatalogInv, CatalogPlain, Rename, Ids
<1>2. /\ row \in CatalogRows /\ row.at = catalog[r].at /\ [catalog[r] EXCEPT !.title = t] = row
  BY <1>1 DEF CatalogRows
<1>3. catalog' = [catalog EXCEPT ![r] = row] /\ now' = now /\ listing' = Moved(r)
  BY <1>2 DEF Rename
<1> HIDE DEF row
<1>4. catalog[r].at <= row.at /\ row.at <= now
  <2>1. catalog[r].at \in Int
    BY <1>1, CatalogAssumption DEF CatalogRows
  <2> QED BY <1>1, <1>2, <2>1
<1> QED BY <1>1, <1>2, <1>3, <1>4, RowChanges, Zenon

LEMMA PassTimeKeeps ==
    ASSUME CatalogInv, PassTime PROVE CatalogInv'
<1>1. CatalogPlain'
  <2>1. now' \in 0 .. MaxTime /\ now <= now' /\ catalog' = catalog /\ listing' = listing
    BY CatalogAssumption DEF CatalogInv, CatalogPlain, PassTime
  <2>2. \A r \in Ids : catalog[r].at \in Int
    <3> SUFFICES ASSUME NEW r \in Ids PROVE catalog[r].at \in Int
      OBVIOUS
    <3>1. catalog[r] \in CatalogRows
      BY DEF CatalogInv, CatalogPlain, Ids
    <3> QED BY <3>1, CatalogAssumption DEF CatalogRows
  <2> QED BY <2>1, <2>2, CatalogAssumption DEF CatalogInv, CatalogPlain, Ids
<1>2. PagingFits' /\ CatalogCorrect'
  BY DEF CatalogInv, PassTime, PagingFits, CatalogCorrect, ListedOnce, UntouchedIsListed,
         GivesUpOnlyBeyondBound, Ids, SortKey, Matches
<1> QED BY <1>1, <1>2 DEF CatalogInv

LEMMA BeginKeeps ==
    ASSUME CatalogInv, NEW q \in Queries, BeginListing(q) PROVE CatalogInv'
<1> DEFINE owed == {r \in Ids : Matches(r, q)}
<1>1. /\ listing' = [phase |-> "paging", query |-> q, cursor |-> NoCursor, pages |-> 0,
                     got |-> <<>>, still |-> owed]
      /\ catalog' = catalog /\ now' = now
  BY DEF BeginListing
<1>2. \A r \in Ids : r \in Nat /\ Below(SortKey(r), NoCursor)
  BY KeysOfRows DEF CatalogInv
<1>3. \A r \in owed : r \in Ids /\ r \in Nat /\ Matches(r, q) /\ Below(SortKey(r), NoCursor)
  BY <1>2
<1> HIDE DEF owed
<1>4. listing' \in Listings
  BY <1>1, <1>3, CatalogAssumption DEF Listings, CursorKeys, NoCursor
<1>5. PagingFits'
  <2>1. \A r \in owed : r \in Ids' /\ Matches(r, q)' /\ Below(SortKey(r)', NoCursor)
    BY <1>1, <1>3 DEF Ids, Matches, SortKey
  <2> QED BY <1>1, <2>1, CatalogAssumption DEF PagingFits
<1>6. CatalogCorrect'
  BY <1>1 DEF CatalogCorrect, ListedOnce, UntouchedIsListed, GivesUpOnlyBeyondBound
<1> QED BY <1>1, <1>4, <1>5, <1>6, FreshListing

LEMMA ForgetKeeps ==
    ASSUME CatalogInv, Forget PROVE CatalogInv'
<1>1. listing' = NoListing /\ UNCHANGED <<catalog, now>> /\ listing'.phase = "idle"
  BY DEF Forget, NoListing
<1>2. PagingFits' /\ CatalogCorrect'
  BY <1>1 DEF PagingFits, CatalogCorrect, ListedOnce, UntouchedIsListed, GivesUpOnlyBeyondBound
<1> QED BY <1>1, <1>2, FreshListing

LEMMA ListAtOnceKeeps ==
    ASSUME CatalogInv, NEW q \in Queries, ListAtOnce(q) PROVE CatalogInv'
<1> DEFINE rows == Eligible(q, NoCursor)
           o == Ordered(rows)
           n == Cardinality(rows)
           owed == {r \in Ids : Matches(r, q)}
<1>1. /\ listing' = [phase |-> "listed", query |-> q, cursor |-> NoCursor, pages |-> 1,
                     got |-> o, still |-> owed]
      /\ catalog' = catalog /\ now' = now
  BY DEF ListAtOnce
<1>2. \A r \in Ids : r \in Nat /\ SortKey(r) \in CursorKeys /\ Below(SortKey(r), NoCursor)
  BY KeysOfRows DEF CatalogInv
<1>3. owed \subseteq rows /\ rows \in SUBSET Ids /\ owed \subseteq Nat
  BY <1>2 DEF Eligible
<1> HIDE DEF rows, owed
<1>4. CatalogPlain
  BY DEF CatalogInv
<1>5. n \in Nat
  BY <1>3, <1>4, RowsFinite
<1>6. /\ o \in [1 .. n -> rows]
      /\ \A i, j \in 1 .. n : i < j => Below(SortKey(o[j]), SortKey(o[i]))
      /\ \A r \in rows : \E i \in 1 .. n : o[i] = r
  BY <1>3, <1>4, OrderedRows
<1> HIDE DEF o, n
<1>7. o \in [1 .. n -> Nat] /\ o \in Seq(Nat) /\ DOMAIN o = 1 .. n
  <2>1. o \in [1 .. n -> Nat]
    BY <1>2, <1>3, <1>6
  <2> QED BY <1>5, <2>1
<1>8. \A i, j \in 1 .. n : o[i] = o[j] => i = j
  <2> SUFFICES ASSUME NEW i \in 1 .. n, NEW j \in 1 .. n, o[i] = o[j], i # j PROVE FALSE
    OBVIOUS
  <2>0. o[i] \in rows /\ o[i] \in Ids
    BY <1>3, <1>6
  <2>1. o[i] \in Ids /\ (i < j \/ j < i)
    BY <1>5, <2>0
  <2>2. Below(SortKey(o[i]), SortKey(o[i]))
    BY <1>6, <2>1
  <2> QED BY <1>2, <2>1, <2>2, KeyOrder
<1>9. listing' \in Listings /\ listing'.phase = "listed"
  BY <1>1, <1>3, <1>7, CatalogAssumption DEF Listings, CursorKeys, NoCursor
<1>10. CatalogCorrect'
  <2>1. listing'.got = o /\ listing'.still = owed /\ listing'.phase = "listed"
    BY <1>1
  <2>2. ListedOnce'
    BY <1>7, <1>8, <2>1 DEF ListedOnce
  <2>3. UntouchedIsListed'
    BY <1>3, <1>6, <1>7, <2>1 DEF UntouchedIsListed
  <2>4. GivesUpOnlyBeyondBound'
    BY <2>1 DEF GivesUpOnlyBeyondBound
  <2> QED BY <2>2, <2>3, <2>4 DEF CatalogCorrect
<1>11. PagingFits'
  BY <1>9 DEF PagingFits
<1> QED BY <1>1, <1>9, <1>10, <1>11, FreshListing

LEMMA ListCappedKeeps ==
    ASSUME CatalogInv, NEW q \in Queries, ListCapped(q) PROVE CatalogInv'
<1> DEFINE f == Fetched(q, NoCursor)
           p == PageItems(f)
<1>1. /\ listing' = [phase |-> "capped", query |-> q, cursor |-> NoCursor, pages |-> 1,
                     got |-> p, still |-> {}]
      /\ catalog' = catalog /\ now' = now
  BY DEF ListCapped
<1>2. NoCursor \in CursorKeys /\ CatalogPlain
  BY CatalogAssumption DEF NoCursor, CursorKeys, CatalogInv
<1> HIDE DEF f
<1>3. p \in Seq(Nat) /\ \A i, j \in 1 .. Len(p) : p[i] = p[j] => i = j
  BY <1>2, PageHolds DEF f, PageFacts
<1> HIDE DEF p
<1>4. listing' \in Listings /\ listing'.phase = "capped" /\ listing'.got = p
  BY <1>1, <1>2, <1>3 DEF Listings
<1>5. DOMAIN p = 1 .. Len(p)
  BY <1>3
<1>6. PagingFits' /\ CatalogCorrect'
  BY <1>3, <1>4, <1>5 DEF PagingFits, CatalogCorrect, ListedOnce, UntouchedIsListed,
                          GivesUpOnlyBeyondBound
<1> QED BY <1>1, <1>4, <1>6, FreshListing

(* One page of a listing.  The key of its last row lies below the old cursor, so what the
   listing had got stays above the new one. *)
LEMMA FetchKeeps ==
    ASSUME CatalogInv, FetchPage PROVE CatalogInv'
<1> DEFINE q == listing.query
           c == listing.cursor
           f == Fetched(q, c)
           p == PageItems(f)
           rows == Eligible(q, c)
           got == listing.got
           pages == listing.pages
<1>1. listing \in Listings /\ listing.phase = "paging" /\ catalog' = catalog /\ now' = now
  BY DEF CatalogInv, CatalogPlain, FetchPage, NoListing
<1>2. /\ q \in Queries /\ c \in CursorKeys /\ got \in Seq(Nat) /\ pages \in Nat
      /\ listing.still \in SUBSET Nat /\ CatalogPlain
  BY <1>1 DEF Listings, CatalogInv
<1>3. /\ pages < MaxPages /\ Len(got) = pages * PageLimit
      /\ \A i \in DOMAIN got : got[i] \in Ids /\ ~Below(SortKey(got[i]), c)
      /\ \A r \in listing.still :
            /\ r \in Ids /\ Matches(r, q)
            /\ Below(SortKey(r), c) \/ \E i \in DOMAIN got : got[i] = r
      /\ \A i, j \in DOMAIN got : got[i] = got[j] => i = j
  BY <1>1 DEF CatalogInv, PagingFits, CatalogCorrect, ListedOnce
<1>4. \A r \in rows : r \in Ids /\ Matches(r, q) /\ Below(SortKey(r), c)
  BY DEF Eligible
<1>5. \A r \in Ids : Matches(r, q) /\ Below(SortKey(r), c) => r \in rows
  BY DEF Eligible
<1>6. listing' = [listing EXCEPT !.got = got \o p, !.pages = pages + 1,
                                 !.cursor = NextCursor(f), !.phase = AfterPage(f, pages + 1)]
  BY DEF FetchPage
<1> HIDE DEF q, c, f, p, rows, got, pages
<1>7. /\ Len(f) \in Nat /\ p \in Seq(Nat)
      /\ Len(p) = IF Len(f) > PageLimit THEN PageLimit ELSE Len(f)
      /\ \A i \in 1 .. Len(p) : p[i] \in rows
      /\ \A i, j \in 1 .. Len(p) : p[i] = p[j] => i = j
      /\ Len(f) <= PageLimit => \A r \in rows : \E i \in 1 .. Len(p) : p[i] = r
      /\ Len(f) > PageLimit =>
            /\ \E r \in rows : NextCursor(f) = SortKey(r)
            /\ \A i \in 1 .. Len(p) : ~Below(SortKey(p[i]), NextCursor(f))
            /\ \A r \in rows : (\E i \in 1 .. Len(p) : p[i] = r) \/ Below(SortKey(r), NextCursor(f))
  <2>1. PageFacts(f, p, rows)
    BY <1>2, PageHolds DEF f, p, rows
  <2> QED BY <2>1 DEF PageFacts
<1>8. NextCursor(f) \in CursorKeys /\ AfterPage(f, pages + 1) \in {"paging", "listed", "exceeded"}
  <2>1. NoCursor \in CursorKeys
    BY CatalogAssumption DEF NoCursor, CursorKeys
  <2>2. \A r \in rows : SortKey(r) \in CursorKeys
    BY <1>2, <1>4, KeysOfRows
  <2>3. NextCursor(f) \in CursorKeys
    <3>1. CASE Len(f) > PageLimit
      BY <1>7, <2>2, <3>1
    <3>2. CASE ~(Len(f) > PageLimit)
      BY <2>1, <3>2 DEF NextCursor
    <3> QED BY <3>1, <3>2
  <2> QED BY <2>3 DEF AfterPage
<1>9. /\ got \o p \in Seq(Nat) /\ Len(got \o p) = Len(got) + Len(p)
      /\ DOMAIN (got \o p) = 1 .. Len(got) + Len(p)
      /\ \A i \in 1 .. Len(got) + Len(p) :
            (got \o p)[i] = IF i <= Len(got) THEN got[i] ELSE p[i - Len(got)]
      /\ DOMAIN got = 1 .. Len(got) /\ Len(got) \in Nat /\ Len(p) \in Nat
  <2>1. got \in Seq(Nat) /\ p \in Seq(Nat)
    BY <1>2, <1>7
  <2>2. /\ DOMAIN got = 1 .. Len(got) /\ Len(got) \in Nat /\ Len(p) \in Nat
        /\ got \o p \in Seq(Nat)
        /\ Len(got \o p) = Len(got) + Len(p)
        /\ \A i \in 1 .. Len(got) + Len(p) :
              (got \o p)[i] = IF i <= Len(got) THEN got[i] ELSE p[i - Len(got)]
    BY <2>1, ConcatProperties, LenProperties
  <2>3. DOMAIN (got \o p) = 1 .. Len(got \o p)
    BY <2>2, LenProperties
  <2> QED BY <2>2, <2>3
<1>10. /\ listing'.got = got \o p /\ listing'.pages = pages + 1 /\ listing'.query = q
       /\ listing'.cursor = NextCursor(f) /\ listing'.phase = AfterPage(f, pages + 1)
       /\ listing'.still = listing.still /\ listing' \in Listings
  <2>1. pages + 1 \in Nat /\ q = listing.query /\ listing.phase = "paging"
    BY <1>1, <1>2 DEF q
  <2> QED BY <1>1, <1>6, <1>8, <1>9, <2>1 DEF Listings
<1> DEFINE all == got \o p
           d == NextCursor(f)
<1> HIDE DEF all, d
<1>11. /\ listing'.got = all /\ listing'.cursor = d /\ DOMAIN all = 1 .. Len(got) + Len(p)
       /\ Len(all) = Len(got) + Len(p)
       /\ \A i \in 1 .. Len(got) + Len(p) :
             all[i] = IF i <= Len(got) THEN got[i] ELSE p[i - Len(got)]
  BY <1>9, <1>10 DEF all, d
<1>12. \A i \in 1 .. Len(got) : all[i] = got[i] /\ i \in DOMAIN all
  BY <1>9, <1>11
<1>13. \A i \in 1 .. Len(p) : all[Len(got) + i] = p[i] /\ Len(got) + i \in DOMAIN all
  <2> SUFFICES ASSUME NEW i \in 1 .. Len(p)
               PROVE  all[Len(got) + i] = p[i] /\ Len(got) + i \in DOMAIN all
    OBVIOUS
  <2>1. /\ Len(got) + i \in 1 .. Len(got) + Len(p) /\ ~(Len(got) + i <= Len(got))
        /\ (Len(got) + i) - Len(got) = i
    BY <1>9
  <2> QED BY <1>11, <2>1
<1>14. \A i \in DOMAIN all : \/ i \in 1 .. Len(got) /\ all[i] = got[i]
                             \/ i - Len(got) \in 1 .. Len(p) /\ all[i] = p[i - Len(got)]
  BY <1>9, <1>11
<1>15. \A r \in Ids : SortKey(r) \in CursorKeys /\ r \in Nat /\ SortKey(r) # NoCursor
  BY <1>2, KeysOfRows
<1>16. PageLimit \in Nat \ {0} /\ MaxPages \in Nat \ {0}
  BY CatalogAssumption
<1>17. ListedOnce'
  <2> SUFFICES ASSUME NEW i \in DOMAIN all, NEW j \in DOMAIN all, all[i] = all[j], i # j
               PROVE  FALSE
    BY <1>11 DEF ListedOnce
  <2>1. \A a \in 1 .. Len(got), b \in 1 .. Len(p) : got[a] # p[b]
    BY <1>3, <1>4, <1>7, <1>9
  <2>2. i \in Int /\ j \in Int
    BY <1>9, <1>11
  <2>3. CASE i \in 1 .. Len(got) /\ j \in 1 .. Len(got)
    BY <1>3, <1>9, <1>12, <2>3
  <2>4. CASE i - Len(got) \in 1 .. Len(p) /\ j - Len(got) \in 1 .. Len(p)
    <3>1. p[i - Len(got)] = p[j - Len(got)]
      BY <1>9, <1>14, <2>4
    <3>2. i - Len(got) = j - Len(got)
      BY <1>7, <2>4, <3>1
    <3> QED BY <1>9, <2>2, <3>2
  <2>5. CASE i \in 1 .. Len(got) /\ j - Len(got) \in 1 .. Len(p)
    BY <1>9, <1>14, <2>1, <2>5
  <2>6. CASE i - Len(got) \in 1 .. Len(p) /\ j \in 1 .. Len(got)
    BY <1>9, <1>14, <2>1, <2>6
  <2> QED BY <1>14, <2>3, <2>4, <2>5, <2>6
<1>18. CASE Len(f) <= PageLimit
  <2>1. AfterPage(f, pages + 1) = "listed"
    BY <1>7, <1>16, <1>18 DEF AfterPage
  <2>2. UntouchedIsListed'
    <3> SUFFICES ASSUME NEW r \in listing.still PROVE \E i \in DOMAIN all : all[i] = r
      BY <1>10, <1>11 DEF UntouchedIsListed
    <3>1. CASE \E i \in DOMAIN got : got[i] = r
      BY <1>9, <1>12, <3>1
    <3>2. CASE Below(SortKey(r), c)
      <4>1. PICK i \in 1 .. Len(p) : p[i] = r
        BY <1>3, <1>5, <1>7, <1>18, <3>2
      <4> QED BY <1>13, <4>1
    <3> QED BY <1>3, <3>1, <3>2
  <2>3. PagingFits' /\ GivesUpOnlyBeyondBound'
    BY <1>10, <2>1 DEF PagingFits, GivesUpOnlyBeyondBound
  <2> QED BY <1>1, <1>10, <1>17, <2>2, <2>3, FreshListing DEF CatalogCorrect
<1>19. CASE Len(f) > PageLimit
  <2>1. AfterPage(f, pages + 1) = IF pages + 1 < MaxPages THEN "paging" ELSE "exceeded"
    BY <1>7, <1>16, <1>19 DEF AfterPage
  <2>2. Len(all) = (pages + 1) * PageLimit
    <3>1. Len(all) = pages * PageLimit + PageLimit
      BY <1>3, <1>7, <1>11, <1>16, <1>19
    <3>2. pages * PageLimit + PageLimit = (pages + 1) * PageLimit
      BY <1>2, <1>16
    <3> QED BY <3>1, <3>2
  <2>3. PICK last \in rows : d = SortKey(last)
    BY <1>7, <1>19 DEF d
  <2>4. Below(d, c) /\ d \in CursorKeys /\ d # NoCursor
    BY <1>4, <1>15, <2>3
  <2>5. \A i \in DOMAIN all : all[i] \in Ids /\ ~Below(SortKey(all[i]), d)
    <3> SUFFICES ASSUME NEW i \in DOMAIN all PROVE all[i] \in Ids /\ ~Below(SortKey(all[i]), d)
      OBVIOUS
    <3>1. CASE i \in 1 .. Len(got) /\ all[i] = got[i]
      BY <1>2, <1>3, <1>9, <1>15, <2>4, <3>1, KeyOrder
    <3>2. CASE i - Len(got) \in 1 .. Len(p) /\ all[i] = p[i - Len(got)]
      BY <1>4, <1>7, <1>19, <3>2 DEF d
    <3> QED BY <1>14, <3>1, <3>2
  <2>6. \A r \in listing.still : Below(SortKey(r), d) \/ \E i \in DOMAIN all : all[i] = r
    <3> SUFFICES ASSUME NEW r \in listing.still
                 PROVE  Below(SortKey(r), d) \/ \E i \in DOMAIN all : all[i] = r
      OBVIOUS
    <3>1. CASE \E i \in DOMAIN got : got[i] = r
      BY <1>9, <1>12, <3>1
    <3>2. CASE Below(SortKey(r), c)
      <4>1. (\E i \in 1 .. Len(p) : p[i] = r) \/ Below(SortKey(r), d)
        BY <1>3, <1>5, <1>7, <1>19, <3>2 DEF d
      <4> QED BY <1>13, <4>1
    <3> QED BY <1>3, <3>1, <3>2
  <2>7. PagingFits'
    <3> SUFFICES ASSUME pages + 1 < MaxPages PROVE PagingFits'
      BY <1>10, <2>1 DEF PagingFits
    <3>1. /\ catalog' = catalog /\ listing'.query = listing.query
          /\ listing'.still = listing.still
      BY <1>1, <1>10 DEF q
    <3>2. Len(all) = listing'.pages * PageLimit /\ listing'.pages < MaxPages
      BY <1>10, <2>2
    <3>3. \A i \in DOMAIN all : /\ all[i] \in Ids
                               /\ ~Below([at |-> catalog[all[i]].at, rowid |-> all[i]], d)
      BY <2>5 DEF SortKey
    <3>4. \A r \in listing.still :
             /\ r \in Ids /\ Matches(r, listing.query)
             /\ \/ Below([at |-> catalog[r].at, rowid |-> r], d)
                \/ \E i \in DOMAIN all : all[i] = r
      BY <1>3, <2>6 DEF q, SortKey
    <3> QED BY <1>11, <3>1, <3>2, <3>3, <3>4 DEF PagingFits, SortKey, Matches, Ids
  <2>8. UntouchedIsListed'
    BY <1>10, <2>1 DEF UntouchedIsListed
  <2>9. GivesUpOnlyBeyondBound'
    <3> SUFFICES ASSUME ~(pages + 1 < MaxPages) PROVE GivesUpOnlyBeyondBound'
      BY <1>10, <2>1 DEF GivesUpOnlyBeyondBound
    <3>1. pages + 1 = MaxPages
      BY <1>2, <1>3, <1>16
    <3> QED BY <1>11, <2>2, <2>4, <3>1 DEF GivesUpOnlyBeyondBound
  <2> QED BY <1>1, <1>10, <1>17, <2>7, <2>8, <2>9, FreshListing DEF CatalogCorrect
<1> QED BY <1>7, <1>16, <1>18, <1>19

(* No listing returns a session twice, misses one that stayed as it was, or gives up within
   its page bound, whatever commits fall between its pages. *)
THEOREM CatalogSafety == CatalogSpec => []CatalogCorrect
<1>1. CatalogInv /\ [CatalogNext]_catalogVars => CatalogInv'
  <2> SUFFICES ASSUME CatalogInv, [CatalogNext]_catalogVars PROVE CatalogInv'
    OBVIOUS
  <2>1. ASSUME NEW w \in Roots, NEW t \in Names, Insert(w, t) PROVE CatalogInv'
    BY <2>1, InsertKeeps
  <2>2. ASSUME NEW r \in Rowids, Touch(r) PROVE CatalogInv'
    BY <2>2, TouchKeeps
  <2>3. ASSUME NEW w \in Roots, NEW r \in Rowids, NEW t \in Names, Rename(w, r, t)
        PROVE  CatalogInv'
    BY <2>3, RenameKeeps
  <2>4. ASSUME NEW q \in Queries, BeginListing(q) PROVE CatalogInv'
    BY <2>4, BeginKeeps
  <2>5. CASE FetchPage
    BY <2>5, FetchKeeps
  <2>6. ASSUME NEW q \in Queries, ListAtOnce(q) \/ ListCapped(q) PROVE CatalogInv'
    BY <2>6, ListAtOnceKeeps, ListCappedKeeps
  <2>7. CASE Forget
    BY <2>7, ForgetKeeps
  <2>8. CASE PassTime
    BY <2>8, PassTimeKeeps
  <2>9. CASE UNCHANGED catalogVars
    BY <2>9 DEF catalogVars, CatalogInv, CatalogPlain, PagingFits, CatalogCorrect, ListedOnce,
                UntouchedIsListed, GivesUpOnlyBeyondBound, Ids, SortKey, Matches
  <2> QED BY <2>1, <2>2, <2>3, <2>4, <2>5, <2>6, <2>7, <2>8, <2>9 DEF CatalogNext
<1>2. CatalogInv => CatalogCorrect
  BY DEF CatalogInv
<1> QED BY CatalogInitially, <1>1, <1>2, PTL DEF CatalogSpec

-----------------------------------------------------------------------------
(* Direct turns: the invariant *)

(* A permission is pending only while the turn waits for it. *)
States == {s \in T!TurnRecord : s.permission # NoEffect => s.status = "waiting_permission"}

Binding == [op : Operations, revision : Nat, lease : Leases]

Effect == [st : {"prepared", "started", "success", "failed", "unknown"},
           turn : DirectIds, binding : Binding]
GrantRow == [st : {"open", "consumed"}, turn : DirectIds, binding : Binding]
ProofRow == [st : {"recorded"}, effect : Asked, passed : BOOLEAN, tree : Nat,
             epoch : Nat, revision : Nat]
Entry == [effect : Asked, turn : DirectIds, binding : Binding]

(* An execution, before its outcome is known, with it, and with its evidence. *)
Begun == [pc : {"allowed", "running"}, effect : Asked, turn : DirectIds, binding : Binding,
          kind : {"tool", "process"}]
Ended == [pc : {"done", "measure"}, effect : Asked, turn : DirectIds, binding : Binding,
          kind : {"tool", "process"}, result : {"success", "failed", "unknown"}]
Measured == [pc : {"record"}, effect : Asked, turn : DirectIds, binding : Binding,
             passed : BOOLEAN, epoch : Nat, tree : Nat]

DirectPlain ==
    /\ dTurn \in [DirectIds -> [state : States, epoch : Nat]]
    /\ dEffect \in [Asked -> {Absent} \cup Effect]
    /\ dGrant \in [Asked -> {Absent} \cup GrantRow]
    /\ dProof \in [DirectIds -> {Absent} \cup ProofRow]
    /\ dCall \in [Holders -> {Free} \cup Begun \cup Ended \cup Measured]
    /\ dTree \in Nat
    /\ dLog \in Seq(Entry)

(* The greatest token is the last one that was handed out, and the lease in
   force, if there is one, has it. *)
Tokens ==
    /\ dLease \in [owner : Holders \cup {NoEffect}, token : 0 .. MaxFence, live : BOOLEAN]
    /\ issued \subseteq Leases
    /\ issued # {} => \E m \in issued : \A l \in issued : l.token <= m.token
    /\ dLease.live => dLease.token # 0
    /\ dLease.token # 0 =>
          /\ [owner |-> dLease.owner, token |-> dLease.token] \in issued
          /\ \A l \in issued : l.token <= dLease.token
    /\ \A l, m \in issued : l.token = m.token => l = m

(* The effect was carried out, or is being carried out, with this binding. *)
Spent(e) == dEffect[e].st \notin {"absent", "prepared"}

GrantsFit ==
    \A e \in Asked :
        /\ dGrant[e].st # "absent" => dEffect[e].st # "absent"
        /\ dGrant[e].st = "open" =>
              /\ dEffect[e].st = "prepared"
              /\ dEffect[e].binding = dGrant[e].binding

LogFits ==
    /\ \A i, j \in DOMAIN dLog : dLog[i].effect = dLog[j].effect => i = j
    /\ \A i \in DOMAIN dLog :
          Spent(dLog[i].effect) /\ dLog[i].binding = dEffect[dLog[i].effect].binding

(* The effects whose approval the turn has spent. *)
ConsumedBy(t) == {e \in Asked : dGrant[e].st = "consumed" /\ dGrant[e].turn = t}

EpochsCount == \A t \in DirectIds : dTurn[t].epoch = Cardinality(ConsumedBy(t))

(* Nothing was started after this effect. *)
IsNewest(e) == dLog # <<>> /\ dLog[Len(dLog)].effect = e

(* An execution in flight belongs to the owner of its lease; as long as the
   lease is in force nothing was started after it, by anybody. *)
CallFits(o) ==
    LET c == dCall[o] IN
    c # Free =>
        /\ c.binding.lease \in issued
        /\ c.binding.lease.owner = o
        /\ c.pc # "allowed" =>
              /\ Spent(c.effect)
              /\ dEffect[c.effect].binding = c.binding
              /\ Holds(c.binding.lease) => IsNewest(c.effect)
        /\ c.pc = "record" => c.epoch <= dTurn[c.turn].epoch

(* Evidence of the turn's present epoch is evidence of the last effect that the
   turn has started. *)
ProofFits(t) ==
    dProof[t].st = "recorded" =>
        /\ dProof[t].epoch <= dTurn[t].epoch
        /\ dProof[t].epoch = dTurn[t].epoch =>
              \E i \in DOMAIN dLog :
                 /\ dLog[i].effect = dProof[t].effect
                 /\ \A j \in DOMAIN dLog : dLog[j].turn = t => j <= i

DirectInv ==
    /\ DirectPlain /\ Tokens /\ GrantsFit /\ LogFits /\ EpochsCount
    /\ \A o \in Holders : CallFits(o)
    /\ \A t \in DirectIds : ProofFits(t)

-----------------------------------------------------------------------------
(* Direct turns: the states of a turn *)

(* A commit sets the token of its writer besides. *)
LEMMA TokenOfState ==
    ASSUME NEW s \in States, NEW k \in Nat
    PROVE [s EXCEPT !.token = k] \in States /\ [s EXCEPT !.token = k].status = s.status
  <1>1. s \in T!TurnRecord
    BY DEF States
  <1>2. [s EXCEPT !.token = k] \in T!TurnRecord
    BY <1>1 DEF T!TurnRecord
  <1>3. /\ [s EXCEPT !.token = k].status = s.status
        /\ [s EXCEPT !.token = k].permission = s.permission
    BY <1>1 DEF T!TurnRecord
  <1> QED BY <1>2, <1>3 DEF States

(* A turn that does not wait for a permission has none pending, and goes anywhere. *)
LEMMA AdvanceState ==
    ASSUME NEW s \in States, s.status # "waiting_permission", NEW st \in T!Status
    PROVE /\ T!Advance(s, st) \in States
          /\ T!Advance(s, st).status = st
          /\ T!Advance(s, st).permission = NoEffect
  <1>1. s \in T!TurnRecord /\ s.permission = NoEffect
    BY DEF States
  <1>2. s.revision + 1 \in Nat
    BY <1>1 DEF T!TurnRecord
  <1>3. T!Advance(s, st) \in T!TurnRecord
    BY <1>1, <1>2 DEF T!Advance, T!TurnRecord
  <1>4. T!Advance(s, st).status = st /\ T!Advance(s, st).permission = s.permission
    BY <1>1 DEF T!Advance, T!TurnRecord
  <1> QED BY <1>1, <1>3, <1>4 DEF States

(* An answer, whatever the turn was doing, drops the question. *)
LEMMA SettledState ==
    ASSUME NEW s \in States, NEW st \in T!Status
    PROVE /\ [T!Advance(s, st) EXCEPT !.permission = NoEffect] \in States
          /\ [T!Advance(s, st) EXCEPT !.permission = NoEffect].status = st
  <1>1. s \in T!TurnRecord
    BY DEF States
  <1>2. s.revision + 1 \in Nat
    BY <1>1 DEF T!TurnRecord
  <1>3. T!Advance(s, st) \in T!TurnRecord /\ T!Advance(s, st).status = st
    BY <1>1, <1>2 DEF T!Advance, T!TurnRecord
  <1>4. \A a \in T!TurnRecord :
           LET n == [a EXCEPT !.permission = NoEffect] IN
           n \in T!TurnRecord /\ n.status = a.status /\ n.permission = NoEffect
    BY DEF T!TurnRecord
  <1> QED BY <1>3, <1>4 DEF States

(* So does the withdrawal of the question. *)
LEMMA WithdrawnState ==
    ASSUME NEW s \in States, NEW f \in T!Failure, NEW k \in Nat
    PROVE /\ [T!Fail(s, f) EXCEPT !.permission = NoEffect, !.input = FALSE, !.token = k] \in States
          /\ [T!Fail(s, f) EXCEPT !.permission = NoEffect, !.input = FALSE, !.token = k].status
                 = "failed"
  <1>1. s \in T!TurnRecord /\ "failed" \in T!Status
    BY DEF States, T!Status
  <1>2. s.revision + 1 \in Nat
    BY <1>1 DEF T!TurnRecord
  <1>3. T!Advance(s, "failed") \in T!TurnRecord /\ T!Advance(s, "failed").status = "failed"
    BY <1>1, <1>2 DEF T!Advance, T!TurnRecord
  <1>4. \A a \in T!TurnRecord :
           [a EXCEPT !.failure = f] \in T!TurnRecord /\ [a EXCEPT !.failure = f].status = a.status
    BY DEF T!TurnRecord
  <1>5. T!Fail(s, f) \in T!TurnRecord /\ T!Fail(s, f).status = "failed"
    BY <1>3, <1>4 DEF T!Fail
  <1>6. \A a \in T!TurnRecord :
           LET m == [a EXCEPT !.permission = NoEffect, !.input = FALSE, !.token = k] IN
           m \in T!TurnRecord /\ m.status = a.status /\ m.permission = NoEffect
    BY DEF T!TurnRecord
  <1> QED BY <1>5, <1>6 DEF States

(* No transition that a caller may ask for completes a turn. *)
LEMMA TransitionsOfState ==
    ASSUME NEW s \in States, NEW class \in T!Failure
    PROVE /\ T!CanStart(s) => T!Start(s) \in States /\ T!Start(s).status = "running"
          /\ \A e \in Asked :
                /\ T!RequestPermission(s, e) \in States
                /\ T!RequestPermission(s, e).status = "waiting_permission"
          /\ T!AllowPermission(s) \in States /\ T!AllowPermission(s).status = "running"
          /\ T!DenyPermission(s) \in States /\ T!DenyPermission(s).status = "failed"
          /\ T!CanRequestInput(s) =>
                T!RequestInput(s) \in States /\ T!RequestInput(s).status = "waiting_input"
          /\ T!CanProvideInput(s) =>
                T!ProvideInput(s) \in States /\ T!ProvideInput(s).status = "running"
          /\ T!Cancel(s) \in States /\ T!Cancel(s).status = "cancelling"
          /\ T!CanInterrupt(s) =>
                T!Interrupt(s) \in States /\ T!Interrupt(s).status = "interrupted"
          /\ T!CanFail(s) => T!Fail(s, class) \in States /\ T!Fail(s, class).status = "failed"
          /\ CanResume(s) => Resume(s) \in States /\ Resume(s).status = "queued"
          /\ T!CanComplete(s) => T!Complete(s, TRUE) \in States
  <1>1. s \in T!TurnRecord
    BY DEF States
  <1>2. {"queued", "running", "waiting_permission", "waiting_input", "cancelling", "interrupted",
         "failed", "completed"} \subseteq T!Status
        /\ {"denied", "none"} \subseteq T!Failure
    BY DEF T!Status, T!Failure
  <1>3. \A a \in States, i \in BOOLEAN :
           [a EXCEPT !.input = i] \in States /\ [a EXCEPT !.input = i].status = a.status
    <2>1. \A a \in T!TurnRecord, i \in BOOLEAN :
             LET n == [a EXCEPT !.input = i] IN
             n \in T!TurnRecord /\ n.status = a.status /\ n.permission = a.permission
      BY DEF T!TurnRecord
    <2> QED BY <2>1 DEF States
  <1>4. \A a \in States, f \in T!Failure :
           [a EXCEPT !.failure = f] \in States /\ [a EXCEPT !.failure = f].status = a.status
    <2>1. \A a \in T!TurnRecord, f \in T!Failure :
             LET n == [a EXCEPT !.failure = f] IN
             n \in T!TurnRecord /\ n.status = a.status /\ n.permission = a.permission
      BY DEF T!TurnRecord
    <2> QED BY <2>1 DEF States
  <1>5. T!CanStart(s) => T!Start(s) \in States /\ T!Start(s).status = "running"
    BY <1>2, AdvanceState DEF T!CanStart, T!Start
  <1>6. ASSUME NEW e \in Asked
        PROVE /\ T!RequestPermission(s, e) \in States
              /\ T!RequestPermission(s, e).status = "waiting_permission"
    <2>1. s.revision + 1 \in Nat
      BY <1>1 DEF T!TurnRecord
    <2>2. /\ T!Advance(s, "waiting_permission") \in T!TurnRecord
          /\ T!Advance(s, "waiting_permission").status = "waiting_permission"
      BY <1>1, <1>2, <2>1 DEF T!Advance, T!TurnRecord
    <2>3. \A a \in T!TurnRecord :
             [a EXCEPT !.permission = e] \in T!TurnRecord /\ [a EXCEPT !.permission = e].status = a.status
      BY DEF T!TurnRecord
    <2> QED BY <2>2, <2>3 DEF T!RequestPermission, States
  <1>7. /\ T!AllowPermission(s) \in States /\ T!AllowPermission(s).status = "running"
        /\ T!Cancel(s) \in States /\ T!Cancel(s).status = "cancelling"
    <2>1. s.revision + 1 \in Nat
      BY <1>1 DEF T!TurnRecord
    <2>2. /\ T!Advance(s, "cancelling") \in T!TurnRecord
          /\ T!Advance(s, "cancelling").status = "cancelling"
      BY <1>1, <1>2, <2>1 DEF T!Advance, T!TurnRecord
    <2>3. \A a \in T!TurnRecord :
             LET n == [a EXCEPT !.input = FALSE, !.permission = NoEffect] IN
             n \in T!TurnRecord /\ n.status = a.status /\ n.permission = NoEffect
      BY DEF T!TurnRecord
    <2>4. T!Cancel(s) \in States /\ T!Cancel(s).status = "cancelling"
      BY <2>2, <2>3 DEF T!Cancel, States
    <2> QED BY <1>2, <2>4, SettledState DEF T!AllowPermission
  <1>8. T!DenyPermission(s) \in States /\ T!DenyPermission(s).status = "failed"
    <2>1. s.revision + 1 \in Nat
      BY <1>1 DEF T!TurnRecord
    <2>2. /\ T!Advance(s, "failed") \in T!TurnRecord
          /\ T!Advance(s, "failed").status = "failed"
      BY <1>1, <1>2, <2>1 DEF T!Advance, T!TurnRecord
    <2>3. \A a \in T!TurnRecord, f \in T!Failure :
             LET n == [a EXCEPT !.permission = NoEffect, !.failure = f] IN
             n \in T!TurnRecord /\ n.status = a.status /\ n.permission = NoEffect
      BY DEF T!TurnRecord
    <2> QED BY <1>2, <2>2, <2>3 DEF T!DenyPermission, States
  <1>9. T!CanRequestInput(s) =>
           T!RequestInput(s) \in States /\ T!RequestInput(s).status = "waiting_input"
    BY <1>2, <1>3, AdvanceState DEF T!CanRequestInput, T!RequestInput
  <1>10. T!CanProvideInput(s) =>
            T!ProvideInput(s) \in States /\ T!ProvideInput(s).status = "running"
    BY <1>2, <1>3, AdvanceState DEF T!CanProvideInput, T!ProvideInput
  <1>11. T!CanInterrupt(s) => T!Interrupt(s) \in States /\ T!Interrupt(s).status = "interrupted"
    BY <1>2, AdvanceState DEF T!CanInterrupt, T!Interrupt
  <1>12. T!CanFail(s) => T!Fail(s, class) \in States /\ T!Fail(s, class).status = "failed"
    BY <1>2, <1>4, AdvanceState DEF T!CanFail, T!Fail
  <1>13. CanResume(s) => Resume(s) \in States /\ Resume(s).status = "queued"
    BY <1>2, <1>4, AdvanceState DEF CanResume, Resume
  <1>14. T!CanComplete(s) => T!Complete(s, TRUE) \in States
    BY <1>2, AdvanceState DEF T!CanComplete, T!Complete
  <1> QED BY <1>5, <1>6, <1>7, <1>8, <1>9, <1>10, <1>11, <1>12, <1>13, <1>14

-----------------------------------------------------------------------------
(* Direct turns: what the steps have in common *)

(* What an execution in flight is, by where it is. *)
LEMMA CallKinds ==
    ASSUME DirectPlain, NEW o \in Holders, dCall[o].pc # "idle"
    PROVE /\ dCall[o] # Free
          /\ dCall[o].effect \in Asked
          /\ dCall[o].turn \in DirectIds
          /\ dCall[o].binding \in Binding
          /\ dCall[o].pc \in {"allowed", "running"} => dCall[o] \in Begun
          /\ dCall[o].pc \in {"done", "measure"} => dCall[o] \in Ended
          /\ dCall[o].pc = "record" => dCall[o] \in Measured
  <1>1. dCall[o] \in Begun \cup Ended \cup Measured
    BY DEF DirectPlain, Free
  <1> DEFINE c == dCall[o]
  <1> HIDE DEF c
  <1>2. c \in Begun => c.pc \in {"allowed", "running"} /\ c.effect \in Asked
                       /\ c.turn \in DirectIds /\ c.binding \in Binding
    BY DEF Begun
  <1>3. c \in Ended => c.pc \in {"done", "measure"} /\ c.effect \in Asked
                       /\ c.turn \in DirectIds /\ c.binding \in Binding
    BY DEF Ended
  <1>4. c \in Measured => c.pc = "record" /\ c.effect \in Asked
                          /\ c.turn \in DirectIds /\ c.binding \in Binding
    BY DEF Measured
  <1>5. Free.pc = "idle"
    BY DEF Free
  <1>6. c \in Begun \cup Ended \cup Measured /\ c.pc # "idle"
    BY <1>1 DEF c
  <1> QED BY <1>2, <1>3, <1>4, <1>5, <1>6 DEF c

LEMMA LeaseFields ==
    ASSUME NEW l \in Leases
    PROVE l.owner \in Holders /\ l.token \in Nat /\ l.token >= 1
  BY DirectAssumption DEF Leases

(* A step that starts nothing: no approval is consumed, what was spent stays spent,
   no lease comes back into force, and the evidence and the executions that the step
   touches fit. *)
LEMMA DirectMoves ==
    ASSUME DirectInv, DirectPlain', Tokens', GrantsFit', UNCHANGED dLog,
           issued \subseteq issued',
           \A l \in issued : Holds(l)' => Holds(l),
           \A t \in DirectIds : dTurn'[t].epoch = dTurn[t].epoch,
           \A e \in Asked : dGrant[e].st = "consumed" \/ dGrant'[e].st = "consumed" =>
                               dGrant'[e] = dGrant[e],
           \A e \in Asked : Spent(e) =>
                               Spent(e)' /\ dEffect'[e].binding = dEffect[e].binding,
           \A t \in DirectIds : dProof'[t] = dProof[t] \/ ProofFits(t)',
           \A o \in Holders : dCall'[o] = dCall[o] \/ CallFits(o)'
    PROVE DirectInv'
  <1>1. LogFits'
    <2>1. \A i \in DOMAIN dLog : dLog[i] \in Entry
      BY DEF DirectInv, DirectPlain
    <2>2. \A i \in DOMAIN dLog : dLog[i].effect \in Asked
      BY <2>1 DEF Entry
    <2> QED BY <2>2 DEF DirectInv, LogFits
  <1>2. EpochsCount'
    <2> SUFFICES ASSUME NEW t \in DirectIds
                 PROVE dTurn'[t].epoch = Cardinality(ConsumedBy(t)')
      BY DEF EpochsCount
    <2>1. ConsumedBy(t)' = ConsumedBy(t)
      BY DEF ConsumedBy
    <2> QED BY <2>1 DEF DirectInv, EpochsCount
  <1>3. ASSUME NEW o \in Holders PROVE CallFits(o)'
    <2>1. CASE dCall'[o] = dCall[o]
      <3>1. CASE dCall[o] = Free
        BY <2>1, <3>1 DEF CallFits
      <3>2. CASE dCall[o] # Free
        <4>1. PICK c \in Begun \cup Ended \cup Measured : c = dCall[o]
          BY <3>2 DEF DirectInv, DirectPlain
        <4>2. dCall[o].pc # "idle"
          BY <4>1 DEF Begun, Ended, Measured
        <4>3. /\ c.binding.lease \in issued
              /\ c.binding.lease.owner = o
              /\ c.pc # "allowed" =>
                    /\ Spent(c.effect)
                    /\ dEffect[c.effect].binding = c.binding
                    /\ Holds(c.binding.lease) => IsNewest(c.effect)
              /\ c.pc = "record" => c.epoch <= dTurn[c.turn].epoch
          BY <3>2, <4>1 DEF DirectInv, CallFits
        <4>4. c.effect \in Asked /\ c.turn \in DirectIds
          BY <4>1, <4>2, CallKinds DEF DirectInv
        <4>5. dCall'[o] = c
          BY <2>1, <4>1
        <4>6. Holds(c.binding.lease)' => Holds(c.binding.lease)
          BY <4>3
        <4>7. IsNewest(c.effect) => IsNewest(c.effect)'
          BY DEF IsNewest
        <4> QED BY <4>3, <4>4, <4>5, <4>6, <4>7 DEF CallFits
      <3> QED BY <3>1, <3>2
    <2>2. CASE CallFits(o)'
      BY <2>2
    <2> QED BY <2>1, <2>2
  <1>4. ASSUME NEW t \in DirectIds PROVE ProofFits(t)'
    <2>1. CASE dProof'[t] = dProof[t]
      BY <2>1 DEF DirectInv, ProofFits
    <2>2. CASE ProofFits(t)'
      BY <2>2
    <2> QED BY <2>1, <2>2
  <1> QED BY <1>1, <1>2, <1>3, <1>4 DEF DirectInv

(* Only the states of turns change. *)
LEMMA TurnsMove ==
    ASSUME DirectInv, dTurn' \in [DirectIds -> [state : States, epoch : Nat]],
           \A t \in DirectIds : dTurn'[t].epoch = dTurn[t].epoch,
           UNCHANGED <<dLease, dEffect, dGrant, dProof, dCall, dTree, issued, dLog>>
    PROVE DirectInv'
  <1>1. DirectPlain'
    BY DEF DirectInv, DirectPlain
  <1>2. Tokens' /\ GrantsFit'
    BY DEF DirectInv, Tokens, GrantsFit
  <1>3. \A l \in issued : Holds(l)' => Holds(l)
    BY DEF Holds
  <1>4. \A e \in Asked : Spent(e) => Spent(e)' /\ dEffect'[e].binding = dEffect[e].binding
    BY DEF Spent
  <1> QED BY <1>1, <1>2, <1>3, <1>4, DirectMoves

LEMMA TurnGoes ==
    ASSUME DirectPlain, NEW t \in DirectIds, NEW n \in States,
           dTurn' = [dTurn EXCEPT ![t].state = n]
    PROVE /\ dTurn' \in [DirectIds -> [state : States, epoch : Nat]]
          /\ \A q \in DirectIds : dTurn'[q].epoch = dTurn[q].epoch
          /\ \A q \in DirectIds : dTurn'[q].state = IF q = t THEN n ELSE dTurn[q].state
  BY DEF DirectPlain

(* Only where the executions are changes, or the workspace. *)
LEMMA CallsMove ==
    ASSUME DirectInv, dTree' \in Nat,
           dCall' \in [Holders -> {Free} \cup Begun \cup Ended \cup Measured],
           \A o \in Holders : dCall'[o] = dCall[o] \/ CallFits(o)',
           UNCHANGED <<dTurn, dLease, dEffect, dGrant, dProof, issued, dLog>>
    PROVE DirectInv'
  <1>1. DirectPlain'
    BY DEF DirectInv, DirectPlain
  <1>2. Tokens' /\ GrantsFit'
    BY DEF DirectInv, Tokens, GrantsFit
  <1>3. \A l \in issued : Holds(l)' => Holds(l)
    BY DEF Holds
  <1>4. \A e \in Asked : Spent(e) => Spent(e)' /\ dEffect'[e].binding = dEffect[e].binding
    BY DEF Spent
  <1> QED BY <1>1, <1>2, <1>3, <1>4, DirectMoves

(* The lease stays; what the rows and the executions become fits. *)
LEMMA RowsMove ==
    ASSUME DirectInv, UNCHANGED <<dLease, dProof, dTree, issued, dLog>>,
           dTurn' \in [DirectIds -> [state : States, epoch : Nat]],
           \A t \in DirectIds : dTurn'[t].epoch = dTurn[t].epoch,
           dEffect' \in [Asked -> {Absent} \cup Effect],
           dGrant' \in [Asked -> {Absent} \cup GrantRow],
           GrantsFit',
           \A e \in Asked : dGrant[e].st = "consumed" \/ dGrant'[e].st = "consumed" =>
                               dGrant'[e] = dGrant[e],
           \A e \in Asked : Spent(e) =>
                               Spent(e)' /\ dEffect'[e].binding = dEffect[e].binding,
           dCall' \in [Holders -> {Free} \cup Begun \cup Ended \cup Measured],
           \A o \in Holders : dCall'[o] = dCall[o] \/ CallFits(o)'
    PROVE DirectInv'
  <1>1. DirectPlain'
    BY DEF DirectInv, DirectPlain
  <1>2. Tokens'
    BY DEF DirectInv, Tokens
  <1>3. \A l \in issued : Holds(l)' => Holds(l)
    BY DEF Holds
  <1> QED BY <1>1, <1>2, <1>3, DirectMoves

-----------------------------------------------------------------------------
(* Direct turns: the steps of a turn and of the lease *)

LEMMA CreateDirectTurnKeeps ==
    ASSUME DirectInv, NEW t \in DirectIds, CreateDirectTurn(t)
    PROVE DirectInv'
  <1>1. T!Queued \in States
    <2>1. T!NoTurn \in T!TurnRecord
      BY DEF T!NoTurn, T!TurnRecord, T!Status, T!Failure
    <2>2. T!Queued \in T!TurnRecord /\ T!Queued.permission = NoEffect
      BY <2>1 DEF T!NoTurn, T!Queued, T!TurnRecord, T!Status
    <2> QED BY <2>2 DEF States
  <1>2. dTurn' = [dTurn EXCEPT ![t].state = T!Queued]
    BY DEF CreateDirectTurn
  <1>3. /\ dTurn' \in [DirectIds -> [state : States, epoch : Nat]]
        /\ \A q \in DirectIds : dTurn'[q].epoch = dTurn[q].epoch
    BY <1>1, <1>2, TurnGoes DEF DirectInv
  <1> QED BY <1>3, TurnsMove DEF CreateDirectTurn

(* Binding turns to a token leaves their epochs. *)
LEMMA ReboundTurns ==
    ASSUME DirectPlain, NEW ts, NEW token \in Nat, dTurn' = Rebound(ts, token)
    PROVE /\ dTurn' \in [DirectIds -> [state : States, epoch : Nat]]
          /\ \A t \in DirectIds : dTurn'[t].epoch = dTurn[t].epoch
          /\ \A t \in DirectIds : dTurn'[t].state.status = dTurn[t].state.status
  <1>1. ASSUME NEW t \in DirectIds
        PROVE /\ dTurn'[t] \in [state : States, epoch : Nat]
              /\ dTurn'[t].epoch = dTurn[t].epoch
              /\ dTurn'[t].state.status = dTurn[t].state.status
    <2>1. dTurn[t] \in [state : States, epoch : Nat]
      BY DEF DirectPlain
    <2>2. CASE t \in ts
      <3> DEFINE n == [dTurn[t].state EXCEPT !.token = token]
      <3>1. n \in States /\ n.status = dTurn[t].state.status
        BY <2>1, TokenOfState
      <3>2. dTurn'[t] = [dTurn[t] EXCEPT !.state = n]
        BY <2>2 DEF Rebound
      <3> HIDE DEF n
      <3> QED BY <2>1, <3>1, <3>2
    <2>3. CASE t \notin ts
      BY <2>1, <2>3 DEF Rebound
    <2> QED BY <2>2, <2>3
  <1>2. dTurn' = [t \in DirectIds |-> dTurn'[t]]
    BY DEF Rebound
  <1> QED BY <1>1, <1>2

(* A lease that is taken over gets a token above all that were handed out. *)
LEMMA AcquireTokens ==
    ASSUME DirectInv, NEW o \in Holders, NEW ts, Acquire(o, ts)
    PROVE /\ Tokens'
          /\ dLease'.token \in Nat
          /\ issued \subseteq issued'
          /\ \A l \in issued : Holds(l)' => Holds(l)
          /\ \E bound : dTurn' = Rebound(bound, dLease'.token)
  <1> DEFINE last == IF issued = {} THEN 0 ELSE CHOOSE k \in 1..MaxFence :
                        (\E l \in issued : l.token = k) /\ \A l \in issued : l.token <= k
             token == IF dLease.live THEN dLease.token ELSE last + 1
             n == [owner |-> o, token |-> token]
  <1>1. /\ dLease \in [owner : Holders \cup {NoEffect}, token : 0 .. MaxFence, live : BOOLEAN]
        /\ MaxFence \in Nat
        /\ \A l \in issued : l \in Leases /\ l.token \in 1..MaxFence
    BY DirectAssumption DEF DirectInv, Tokens, Leases
  <1>2. /\ last \in Nat
        /\ \A l \in issued : l.token <= last
    <2>1. CASE issued = {}
      BY <2>1
    <2>2. CASE issued # {}
      <3>1. PICK m \in issued : \A l \in issued : l.token <= m.token
        BY <2>2 DEF DirectInv, Tokens
      <3>2. m.token \in 1..MaxFence
        BY <1>1
      <3>3. \E k \in 1..MaxFence : (\E l \in issued : l.token = k) /\ \A l \in issued : l.token <= k
        BY <3>1, <3>2
      <3>4. last \in 1..MaxFence /\ \A l \in issued : l.token <= last
        BY <2>2, <3>3
      <3> QED BY <1>1, <3>4
    <2> QED BY <2>1, <2>2
  <1>3. /\ dLease.live => dLease.owner = o
        /\ token <= MaxFence
        /\ dLease' = [owner |-> o, token |-> token, live |-> TRUE]
        /\ issued' = issued \cup {n}
        /\ \E bound : dTurn' = Rebound(bound, token)
    <2> DEFINE queued == {t \in DirectIds : dTurn[t].state.status = "queued"}
               bound == IF ts = {} THEN queued ELSE ts
    <2>1. dTurn' = Rebound(bound, token)
      BY DEF Acquire
    <2>2. /\ dLease.live => dLease.owner = o
          /\ token <= MaxFence
          /\ dLease' = [owner |-> o, token |-> token, live |-> TRUE]
          /\ issued' = issued \cup {n}
      BY DEF Acquire
    <2> HIDE DEF bound, token, n
    <2> QED BY <2>1, <2>2
  <1> HIDE DEF last
  <1>4. CASE dLease.live
    <2>1. /\ token = dLease.token /\ dLease.owner = o
          /\ [owner |-> dLease.owner, token |-> dLease.token] \in issued
          /\ \A l \in issued : l.token <= dLease.token
      BY <1>3, <1>4 DEF DirectInv, Tokens
    <2>2. issued' = issued /\ n \in issued
      BY <1>3, <2>1
    <2>3. n \in Leases /\ token \in Nat
      BY <1>1, <2>1, <2>2
    <2> HIDE DEF token
    <2>4. dLease' \in [owner : Holders \cup {NoEffect}, token : 0 .. MaxFence, live : BOOLEAN]
      <3>1. token \in 0..MaxFence
        BY <1>1, <2>1
      <3> QED BY <1>3, <3>1
    <2>5. dLease'.owner = o /\ dLease'.token = token /\ token # 0
      BY <1>1, <1>3, <2>2 DEF Leases
    <2> QED BY <1>3, <2>1, <2>2, <2>3, <2>4, <2>5 DEF DirectInv, Tokens, Holds
  <1>5. CASE ~dLease.live
    <2>1. token = last + 1
      BY <1>5
    <2> HIDE DEF token
    <2>2. /\ token \in 1..MaxFence
          /\ \A l \in issued : l.token < token
      BY <1>1, <1>2, <1>3, <2>1
    <2>3. n \in Leases /\ n.token = token /\ n.owner = o
      BY <2>2 DEF Leases
    <2> HIDE DEF n
    <2>4. /\ dLease' \in [owner : Holders \cup {NoEffect}, token : 0 .. MaxFence, live : BOOLEAN]
          /\ dLease'.owner = o /\ dLease'.token = token
          /\ [owner |-> dLease'.owner, token |-> dLease'.token] = n
      BY <1>3, <2>2 DEF n
    <2>5. issued' \subseteq Leases /\ \A l \in issued' : l.token <= token
      BY <1>1, <1>3, <2>2, <2>3
    <2>6. \A l, m \in issued' : l.token = m.token => l = m
      <3>1. \A l, m \in issued : l.token = m.token => l = m
        BY DEF DirectInv, Tokens
      <3>2. \A l \in issued : l.token # n.token
        BY <1>1, <2>2, <2>3
      <3> QED BY <1>3, <3>1, <3>2
    <2>7. Tokens'
      BY <1>3, <2>2, <2>3, <2>4, <2>5, <2>6 DEF Tokens
    <2>8. \A l \in issued : ~Holds(l)'
      BY <1>1, <2>2, <2>4 DEF Holds
    <2> QED BY <1>3, <2>2, <2>4, <2>7, <2>8
  <1> QED BY <1>4, <1>5

LEMMA AcquireKeeps ==
    ASSUME DirectInv, NEW o \in Holders, NEW ts, Acquire(o, ts)
    PROVE DirectInv'
  <1>1. /\ Tokens' /\ issued \subseteq issued'
        /\ \A l \in issued : Holds(l)' => Holds(l)
    BY AcquireTokens
  <1>2. /\ dTurn' \in [DirectIds -> [state : States, epoch : Nat]]
        /\ \A t \in DirectIds : dTurn'[t].epoch = dTurn[t].epoch
    BY AcquireTokens, ReboundTurns DEF DirectInv
  <1>3. UNCHANGED <<dEffect, dGrant, dProof, dCall, dTree, dLog>>
    BY DEF Acquire
  <1>4. DirectPlain'
    BY <1>2, <1>3 DEF DirectInv, DirectPlain
  <1>5. GrantsFit'
    BY <1>3 DEF DirectInv, GrantsFit
  <1>6. \A e \in Asked : Spent(e) => Spent(e)' /\ dEffect'[e].binding = dEffect[e].binding
    BY <1>3 DEF Spent
  <1> QED BY <1>1, <1>2, <1>3, <1>4, <1>5, <1>6, DirectMoves

LEMMA LeaseEndsKeeps ==
    ASSUME DirectInv, Expire \/ \E l \in issued : Release(l)
    PROVE DirectInv'
  <1>1. UNCHANGED <<dTurn, dEffect, dGrant, dProof, dCall, dTree, issued, dLog>>
    BY DEF Expire, Release
  <1>2. \A l \in issued : l.token # 0
    BY DirectAssumption DEF DirectInv, Tokens, Leases
  <1>3. /\ dLease' \in [owner : Holders \cup {NoEffect}, token : 0 .. MaxFence, live : BOOLEAN]
        /\ ~dLease'.live
        /\ (dLease'.token # 0 => dLease'.token = dLease.token /\ dLease'.owner = dLease.owner)
    <2>1. CASE Expire
      <3>1. dLease' = [dLease EXCEPT !.live = FALSE]
        BY <2>1 DEF Expire
      <3>2. dLease \in [owner : Holders \cup {NoEffect}, token : 0 .. MaxFence, live : BOOLEAN]
        BY DEF DirectInv, Tokens
      <3>3. dLease' \in [owner : Holders \cup {NoEffect}, token : 0 .. MaxFence, live : BOOLEAN]
        BY <3>1, <3>2, Zenon
      <3> QED BY <3>1, <3>2, <3>3
    <2>2. CASE \E l \in issued : Release(l)
      <3>1. dLease' = [owner |-> NoEffect, token |-> 0, live |-> FALSE]
        BY <2>2 DEF Release
      <3>2. 0 \in 0..MaxFence
        BY DirectAssumption
      <3>3. dLease' \in [owner : Holders \cup {NoEffect}, token : 0 .. MaxFence, live : BOOLEAN]
        BY <3>1, <3>2
      <3> QED BY <3>1, <3>3
    <2> QED BY <2>1, <2>2
  <1>4. Tokens'
    BY <1>1, <1>3 DEF DirectInv, Tokens
  <1>5. \A l \in issued : Holds(l)' => Holds(l)
    BY <1>2, <1>3 DEF Holds
  <1>6. DirectPlain'
    BY <1>1 DEF DirectInv, DirectPlain
  <1>7. GrantsFit'
    BY <1>1 DEF DirectInv, GrantsFit
  <1>8. \A e \in Asked : Spent(e) => Spent(e)' /\ dEffect'[e].binding = dEffect[e].binding
    BY <1>1 DEF Spent
  <1> QED BY <1>1, <1>4, <1>5, <1>6, <1>7, <1>8, DirectMoves

(* A lease that was handed out. *)
LEMMA IssuedLease ==
    ASSUME DirectInv, NEW l \in issued
    PROVE l \in Leases /\ l.owner \in Holders /\ l.token \in Nat /\ l.token >= 1
  BY LeaseFields DEF DirectInv, Tokens

(* What a caller asks of a turn leaves it in a state of a turn that is not complete. *)
LEMMA AppliedState ==
    ASSUME DirectInv, NEW l \in issued, NEW t \in DirectIds, ApplyTransition(l, t)
    PROVE \E n \in States : /\ n.status # "completed"
                           /\ dTurn' = [dTurn EXCEPT ![t].state = n]
  <1> DEFINE s == dTurn[t].state
             Become(n) == dTurn' = [dTurn EXCEPT ![t].state = [n EXCEPT !.token = l.token]]
             Good(n) == n \in States /\ n.status # "completed"
  <1>1. s \in States /\ l.token \in Nat
    BY IssuedLease DEF DirectInv, DirectPlain
  <1>2. \A n : Good(n) /\ Become(n) =>
           \E m \in States : m.status # "completed" /\ dTurn' = [dTurn EXCEPT ![t].state = m]
    BY <1>1, TokenOfState
  <1>3. {"retryable", "terminal", "none"} \subseteq T!Failure
    BY DEF T!Failure
  <1> HIDE DEF s, Become
  <1>4. \E n : Good(n) /\ Become(n)
    <2>1. CASE \E e \in Asked :
                  \/ T!CanRequestPermission(s) /\ Become(T!RequestPermission(s, e))
                  \/ CanRefreshPermission(s) /\ Become(T!RequestPermission(s, e))
                  \/ T!CanResolvePermission(s, e) /\ Become(T!AllowPermission(s))
                  \/ T!CanResolvePermission(s, e) /\ Become(T!DenyPermission(s))
      <3>1. \A e \in Asked : Good(T!RequestPermission(s, e))
        BY <1>1, <1>3, TransitionsOfState
      <3>2. Good(T!AllowPermission(s)) /\ Good(T!DenyPermission(s))
        BY <1>1, <1>3, TransitionsOfState
      <3> HIDE DEF Good
      <3> QED BY <2>1, <3>1, <3>2
    <2>2. CASE \/ T!CanStart(s) /\ Become(T!Start(s))
               \/ T!CanRequestInput(s) /\ Become(T!RequestInput(s))
               \/ T!CanProvideInput(s) /\ Become(T!ProvideInput(s))
               \/ T!CanCancel(s) /\ Become(T!Cancel(s))
               \/ T!CanInterrupt(s) /\ Become(T!Interrupt(s))
               \/ CanResume(s) /\ Become(Resume(s))
      <3>1. /\ T!CanStart(s) => Good(T!Start(s))
            /\ T!CanRequestInput(s) => Good(T!RequestInput(s))
            /\ T!CanProvideInput(s) => Good(T!ProvideInput(s))
            /\ Good(T!Cancel(s))
            /\ T!CanInterrupt(s) => Good(T!Interrupt(s))
            /\ CanResume(s) => Good(Resume(s))
        BY <1>1, <1>3, TransitionsOfState
      <3> HIDE DEF Good
      <3> QED BY <2>2, <3>1
    <2>3. CASE T!CanFail(s) /\ \E class \in {"retryable", "terminal"} : Become(T!Fail(s, class))
      <3>1. T!CanFail(s) => \A class \in {"retryable", "terminal"} : Good(T!Fail(s, class))
        BY <1>1, <1>3, TransitionsOfState
      <3> HIDE DEF Good
      <3> QED BY <2>3, <3>1
    <2> QED BY <2>1, <2>2, <2>3 DEF ApplyTransition, s, Become
  <1> QED BY <1>2, <1>4

LEMMA ApplyTransitionKeeps ==
    ASSUME DirectInv, NEW l \in issued, NEW t \in DirectIds, ApplyTransition(l, t)
    PROVE DirectInv'
  <1>1. PICK n \in States : dTurn' = [dTurn EXCEPT ![t].state = n]
    BY AppliedState
  <1>2. /\ dTurn' \in [DirectIds -> [state : States, epoch : Nat]]
        /\ \A q \in DirectIds : dTurn'[q].epoch = dTurn[q].epoch
    BY <1>1, TurnGoes DEF DirectInv
  <1> QED BY <1>2, TurnsMove DEF ApplyTransition

LEMMA CompleteVerifiedKeeps ==
    ASSUME DirectInv, NEW l \in issued, NEW t \in DirectIds, CompleteVerified(l, t)
    PROVE DirectInv'
  <1> DEFINE n == [T!Complete(dTurn[t].state, TRUE) EXCEPT !.token = l.token]
  <1>1. dTurn[t].state \in States /\ l.token \in Nat /\ "none" \in T!Failure
    BY IssuedLease DEF DirectInv, DirectPlain, T!Failure
  <1>2. T!Complete(dTurn[t].state, TRUE) \in States
    BY <1>1, TransitionsOfState DEF CompleteVerified
  <1>3. n \in States
    BY <1>1, <1>2, TokenOfState
  <1>4. dTurn' = [dTurn EXCEPT ![t].state = n]
    BY DEF CompleteVerified
  <1> HIDE DEF n
  <1>5. /\ dTurn' \in [DirectIds -> [state : States, epoch : Nat]]
        /\ \A q \in DirectIds : dTurn'[q].epoch = dTurn[q].epoch
    BY <1>3, <1>4, TurnGoes DEF DirectInv
  <1> QED BY <1>5, TurnsMove DEF CompleteVerified

(* Recovery calls unknown what was started, and nothing else. *)
LEMMA InterruptedKeeps ==
    ASSUME DirectInv, NEW ts, \A t \in DirectIds \cap ts : T!CanInterrupt(dTurn[t].state),
           Interrupted(ts)
    PROVE DirectInv'
  <1>1. UNCHANGED <<dLease, dGrant, dProof, dCall, dTree, issued, dLog>>
    BY DEF Interrupted
  <1>2. ASSUME NEW t \in DirectIds
        PROVE dTurn'[t] \in [state : States, epoch : Nat] /\ dTurn'[t].epoch = dTurn[t].epoch
    <2>1. dTurn[t] \in [state : States, epoch : Nat] /\ "none" \in T!Failure
      BY DEF DirectInv, DirectPlain, T!Failure
    <2>2. CASE t \in ts
      <3>1. T!Interrupt(dTurn[t].state) \in States
        BY <2>1, <2>2, TransitionsOfState
      <3>2. dTurn'[t] = [dTurn[t] EXCEPT !.state = T!Interrupt(dTurn[t].state)]
        BY <2>2 DEF Interrupted
      <3> QED BY <2>1, <3>1, <3>2
    <2>3. CASE t \notin ts
      BY <2>1, <2>3 DEF Interrupted
    <2> QED BY <2>2, <2>3
  <1>3. dTurn' \in [DirectIds -> [state : States, epoch : Nat]]
    BY <1>2 DEF Interrupted
  <1>4. ASSUME NEW e \in Asked
        PROVE /\ dEffect'[e] \in {Absent} \cup Effect
              /\ dEffect[e].st \in {"absent", "prepared"} => dEffect'[e] = dEffect[e]
              /\ Spent(e) => Spent(e)' /\ dEffect'[e].binding = dEffect[e].binding
    <2>1. dEffect[e] \in {Absent} \cup Effect
      BY DEF DirectInv, DirectPlain
    <2>2. CASE dEffect[e].st = "started" /\ dEffect[e].turn \in ts
      <3>1. dEffect'[e] = [dEffect[e] EXCEPT !.st = "unknown"]
        BY <2>2 DEF Interrupted
      <3>2. dEffect[e] \in Effect
        BY <2>1, <2>2 DEF Absent
      <3> QED BY <2>2, <3>1, <3>2 DEF Effect, Spent
    <2>3. CASE ~(dEffect[e].st = "started" /\ dEffect[e].turn \in ts)
      <3>1. dEffect'[e] = dEffect[e]
        BY <2>3 DEF Interrupted
      <3> QED BY <2>1, <3>1 DEF Spent
    <2> QED BY <2>2, <2>3
  <1>5. dEffect' \in [Asked -> {Absent} \cup Effect]
    BY <1>4 DEF Interrupted
  <1>6. GrantsFit'
    <2>1. \A e \in Asked : dEffect[e].st # "absent" => dEffect'[e].st # "absent"
      <3>1. \A e \in Asked : dEffect[e].st = "prepared" \/ Spent(e) \/ dEffect[e].st = "absent"
        BY DEF Spent
      <3> QED BY <1>4, <3>1 DEF Spent
    <2> QED BY <1>1, <1>4, <2>1 DEF DirectInv, GrantsFit
  <1>7. /\ dGrant' \in [Asked -> {Absent} \cup GrantRow]
        /\ dCall' \in [Holders -> {Free} \cup Begun \cup Ended \cup Measured]
    BY <1>1 DEF DirectInv, DirectPlain
  <1> QED BY <1>1, <1>2, <1>3, <1>4, <1>5, <1>6, <1>7, RowsMove

LEMMA RecoveryKeeps ==
    ASSUME DirectInv,
           RecoverAt \/ \E l \in issued, t \in DirectIds : InterruptAfterLoss(l, t)
    PROVE DirectInv'
  <1>1. CASE RecoverAt
    <2> DEFINE lost == {t \in DirectIds : T!CanInterrupt(dTurn[t].state)
                          /\ ~(dLease.live /\ dLease.token = dTurn[t].state.token)}
    <2>1. Interrupted(lost)
      BY <1>1 DEF RecoverAt
    <2>2. \A t \in DirectIds \cap lost : T!CanInterrupt(dTurn[t].state)
      OBVIOUS
    <2> HIDE DEF lost
    <2> QED BY <2>1, <2>2, InterruptedKeeps
  <1>2. ASSUME NEW l \in issued, NEW t \in DirectIds, InterruptAfterLoss(l, t)
        PROVE DirectInv'
    BY <1>2, InterruptedKeeps DEF InterruptAfterLoss
  <1> QED BY <1>1, <1>2

-----------------------------------------------------------------------------
(* Direct turns: the steps of an approval *)

LEMMA CancelWaitingKeeps ==
    ASSUME DirectInv, NEW l \in issued, NEW t \in DirectIds,
           NEW class \in {"cancelled", "denied"}, CancelWaiting(l, t, class)
    PROVE DirectInv'
  <1> DEFINE e == dTurn[t].state.permission
             n == [T!Fail(dTurn[t].state, class) EXCEPT
                      !.permission = NoEffect, !.input = FALSE, !.token = l.token]
  <1>1. /\ UNCHANGED <<dLease, dProof, dCall, dTree, issued, dLog>>
        /\ dTurn' = [dTurn EXCEPT ![t].state = n]
        /\ dGrant' = [f \in Asked |-> IF f = e THEN Absent ELSE dGrant[f]]
        /\ dEffect' = [f \in Asked |->
                          IF f = e THEN [dEffect[f] EXCEPT !.st = "failed"] ELSE dEffect[f]]
        /\ e # NoEffect => dGrant[e].st = "open" /\ dEffect[e].st = "prepared"
    BY DEF CancelWaiting, Open
  <1>2. n \in States
    <2>1. dTurn[t].state \in States /\ l.token \in Nat /\ class \in T!Failure
      BY IssuedLease DEF DirectInv, DirectPlain, T!Failure
    <2> QED BY <2>1, WithdrawnState
  <1>3. /\ dTurn' \in [DirectIds -> [state : States, epoch : Nat]]
        /\ \A q \in DirectIds : dTurn'[q].epoch = dTurn[q].epoch
    <2> HIDE DEF n
    <2> QED BY <1>1, <1>2, TurnGoes DEF DirectInv
  <1> HIDE DEF e, n
  <1>4. NoEffect \notin Asked
    BY DirectAssumption
  <1>5. ASSUME NEW f \in Asked
        PROVE /\ dEffect'[f] \in {Absent} \cup Effect
              /\ dGrant'[f] \in {Absent} \cup GrantRow
              /\ dGrant[f].st = "consumed" \/ dGrant'[f].st = "consumed" => dGrant'[f] = dGrant[f]
              /\ Spent(f) => Spent(f)' /\ dEffect'[f].binding = dEffect[f].binding
              /\ dGrant'[f].st # "absent" => dGrant'[f] = dGrant[f] /\ dEffect'[f] = dEffect[f]
    <2>1. dEffect[f] \in {Absent} \cup Effect /\ dGrant[f] \in {Absent} \cup GrantRow
      BY DEF DirectInv, DirectPlain
    <2>2. CASE f = e
      <3>1. dGrant[f].st = "open" /\ dEffect[f].st = "prepared"
        BY <1>1, <1>4, <2>2
      <3>2. dGrant'[f] = Absent /\ dEffect'[f] = [dEffect[f] EXCEPT !.st = "failed"]
        BY <1>1, <2>2
      <3>3. dEffect[f] \in Effect
        BY <2>1, <3>1 DEF Absent
      <3> QED BY <3>1, <3>2, <3>3 DEF Effect, Spent, Absent
    <2>3. CASE f # e
      <3>1. dGrant'[f] = dGrant[f] /\ dEffect'[f] = dEffect[f]
        BY <1>1, <2>3
      <3> QED BY <2>1, <3>1 DEF Spent
    <2> QED BY <2>2, <2>3
  <1>6. /\ dEffect' \in [Asked -> {Absent} \cup Effect]
        /\ dGrant' \in [Asked -> {Absent} \cup GrantRow]
        /\ dCall' \in [Holders -> {Free} \cup Begun \cup Ended \cup Measured]
    BY <1>1, <1>5 DEF DirectInv, DirectPlain
  <1>7. GrantsFit'
    BY <1>5 DEF DirectInv, GrantsFit
  <1> QED BY <1>1, <1>3, <1>5, <1>6, <1>7, RowsMove

(* The two rows of a new effect are inserted where neither was. *)
LEMMA RowsInserted ==
    ASSUME NEW effects \in [Asked -> {Absent} \cup Effect],
           NEW grants \in [Asked -> {Absent} \cup GrantRow],
           NEW e \in Asked, NEW t \in DirectIds, NEW binding \in Binding,
           InsertRows(effects, grants, e, t, binding)
    PROVE /\ dEffect' \in [Asked -> {Absent} \cup Effect]
          /\ dGrant' \in [Asked -> {Absent} \cup GrantRow]
          /\ dEffect'[e].st = "prepared" /\ dEffect'[e].binding = binding
          /\ dGrant'[e].st = "open" /\ dGrant'[e].binding = binding
          /\ \A f \in Asked : f # e => dEffect'[f] = effects[f] /\ dGrant'[f] = grants[f]
  <1> DEFINE r == [st |-> "prepared", turn |-> t, binding |-> binding]
             g == [st |-> "open", turn |-> t, binding |-> binding]
  <1>1. /\ r \in Effect /\ r.st = "prepared" /\ r.binding = binding
        /\ g \in GrantRow /\ g.st = "open" /\ g.binding = binding
    BY DEF Effect, GrantRow
  <1>2. dEffect' = [effects EXCEPT ![e] = r] /\ dGrant' = [grants EXCEPT ![e] = g]
    BY DEF InsertRows
  <1> HIDE DEF r, g
  <1> QED BY <1>1, <1>2

LEMMA PreparedKeeps ==
    ASSUME DirectInv, NEW l \in issued, NEW t \in DirectIds, NEW e \in Asked,
           NEW binding \in Binding, NEW at, CreatePrepared(l, t, e, binding, at),
           dCall' \in [Holders -> {Free} \cup Begun \cup Ended \cup Measured],
           \A o \in Holders : dCall'[o] = dCall[o] \/ CallFits(o)'
    PROVE DirectInv'
  <1>1. /\ UNCHANGED <<dTurn, dLease, dProof, dTree, issued, dLog>>
        /\ dEffect[e] = Absent
        /\ InsertRows(dEffect, dGrant, e, t, binding)
    BY DEF CreatePrepared
  <1>2. /\ dEffect' \in [Asked -> {Absent} \cup Effect]
        /\ dGrant' \in [Asked -> {Absent} \cup GrantRow]
        /\ dEffect'[e].st = "prepared" /\ dEffect'[e].binding = binding
        /\ dGrant'[e].st = "open" /\ dGrant'[e].binding = binding
        /\ \A f \in Asked : f # e => dEffect'[f] = dEffect[f] /\ dGrant'[f] = dGrant[f]
    <2>1. /\ dEffect \in [Asked -> {Absent} \cup Effect]
          /\ dGrant \in [Asked -> {Absent} \cup GrantRow]
      BY DEF DirectInv, DirectPlain
    <2> QED BY <1>1, <2>1, RowsInserted
  <1>3. dEffect[e].st = "absent" /\ dGrant[e].st = "absent"
    BY <1>1 DEF DirectInv, GrantsFit, Absent
  <1>4. GrantsFit'
    BY <1>2 DEF DirectInv, GrantsFit
  <1>5. /\ \A f \in Asked : dGrant[f].st = "consumed" \/ dGrant'[f].st = "consumed" =>
                               dGrant'[f] = dGrant[f]
        /\ \A f \in Asked : Spent(f) => Spent(f)' /\ dEffect'[f].binding = dEffect[f].binding
    BY <1>2, <1>3 DEF Spent
  <1>6. /\ dTurn' \in [DirectIds -> [state : States, epoch : Nat]]
        /\ \A q \in DirectIds : dTurn'[q].epoch = dTurn[q].epoch
    BY <1>1 DEF DirectInv, DirectPlain
  <1> QED BY <1>1, <1>2, <1>4, <1>5, <1>6, RowsMove

LEMMA AskPermissionKeeps ==
    ASSUME DirectInv, NEW l \in issued, NEW t \in DirectIds, NEW e \in Asked,
           NEW op \in Operations, NEW revision \in 0..MaxSteps,
           AskPermission(l, t, e, op, revision)
    PROVE DirectInv'
  <1> DEFINE b == [op |-> op, revision |-> revision, lease |-> l]
  <1>1. b \in Binding
    BY IssuedLease DEF Binding
  <1>2. CreatePrepared(l, t, e, b, Monus(revision, 2)) /\ UNCHANGED dCall
    BY DEF AskPermission
  <1> HIDE DEF b
  <1>3. dCall' \in [Holders -> {Free} \cup Begun \cup Ended \cup Measured]
    BY <1>2 DEF DirectInv, DirectPlain
  <1> QED BY <1>1, <1>2, <1>3, PreparedKeeps

LEMMA AllowProcessKeeps ==
    ASSUME DirectInv, NEW l \in issued, NEW t \in DirectIds, NEW e \in Asked,
           NEW op \in Operations, AllowProcess(l, t, e, op)
    PROVE DirectInv'
  <1> DEFINE b == [op |-> op, revision |-> dTurn[t].state.revision, lease |-> l]
             c == [pc |-> "allowed", effect |-> e, turn |-> t, binding |-> b, kind |-> "process"]
  <1>1. b \in Binding /\ b.lease = l
    <2>1. dTurn[t].state \in T!TurnRecord
      BY DEF DirectInv, DirectPlain, States
    <2>2. dTurn[t].state.revision \in Nat
      BY <2>1 DEF T!TurnRecord
    <2> QED BY <2>2, IssuedLease DEF Binding
  <1>2. CreatePrepared(l, t, e, b, b.revision) /\ dCall' = [dCall EXCEPT ![l.owner] = c]
    BY DEF AllowProcess
  <1> HIDE DEF b
  <1>3. /\ c \in Begun /\ c.pc = "allowed" /\ c.binding = b
        /\ l.owner \in Holders
    BY <1>1, IssuedLease DEF Begun
  <1> HIDE DEF c
  <1>4. /\ dCall' \in [Holders -> {Free} \cup Begun \cup Ended \cup Measured]
        /\ dCall'[l.owner] = c
        /\ \A o \in Holders : o # l.owner => dCall'[o] = dCall[o]
    BY <1>2, <1>3 DEF DirectInv, DirectPlain
  <1>5. issued' = issued
    BY <1>2 DEF CreatePrepared
  <1>6. CallFits(l.owner)'
    <2>1. dCall'[l.owner].pc = "allowed" /\ dCall'[l.owner].binding.lease = l /\ l \in issued'
      BY <1>1, <1>3, <1>4, <1>5
    <2> QED BY <2>1 DEF CallFits
  <1>7. \A o \in Holders : dCall'[o] = dCall[o] \/ CallFits(o)'
    BY <1>4, <1>6
  <1> QED BY <1>1, <1>2, <1>4, <1>7, PreparedKeeps

LEMMA ReissueKeeps ==
    ASSUME DirectInv, NEW l \in issued, NEW t \in DirectIds, NEW old \in Asked, NEW new \in Asked,
           NEW op \in Operations, NEW revision \in 0..MaxSteps,
           Reissue(l, t, old, new, op, revision)
    PROVE DirectInv'
  <1> DEFINE b == [op |-> op, revision |-> revision, lease |-> l]
             effects == [dEffect EXCEPT ![old].st = "failed"]
             grants == [dGrant EXCEPT ![old] = Absent]
  <1>1. b \in Binding
    BY IssuedLease DEF Binding
  <1>2. /\ UNCHANGED <<dTurn, dLease, dProof, dCall, dTree, issued, dLog>>
        /\ dEffect[new] = Absent /\ dEffect[old].st = "prepared" /\ dGrant[old].st = "open"
        /\ InsertRows(effects, grants, new, t, b)
    BY DEF Reissue, Open
  <1>3. old # new /\ dEffect[new].st = "absent" /\ dGrant[new].st = "absent"
    BY <1>2 DEF DirectInv, GrantsFit, Absent
  <1>4. /\ effects \in [Asked -> {Absent} \cup Effect]
        /\ effects[old].st = "failed"
        /\ \A f \in Asked : f # old => effects[f] = dEffect[f]
    <2>1. dEffect[old] \in Effect
      BY <1>2 DEF DirectInv, DirectPlain, Absent
    <2>2. [dEffect[old] EXCEPT !.st = "failed"] \in Effect
          /\ [dEffect[old] EXCEPT !.st = "failed"].st = "failed"
      BY <2>1 DEF Effect
    <2> QED BY <2>2 DEF DirectInv, DirectPlain
  <1>5. /\ grants \in [Asked -> {Absent} \cup GrantRow]
        /\ grants[old].st = "absent"
        /\ \A f \in Asked : f # old => grants[f] = dGrant[f]
    BY DEF DirectInv, DirectPlain, Absent
  <1> HIDE DEF b, effects, grants
  <1>6. /\ dEffect' \in [Asked -> {Absent} \cup Effect]
        /\ dGrant' \in [Asked -> {Absent} \cup GrantRow]
        /\ dEffect'[new].st = "prepared" /\ dEffect'[new].binding = b
        /\ dGrant'[new].st = "open" /\ dGrant'[new].binding = b
        /\ \A f \in Asked : f # new => dEffect'[f] = effects[f] /\ dGrant'[f] = grants[f]
    BY <1>1, <1>2, <1>4, <1>5, RowsInserted
  <1>7. GrantsFit'
    BY <1>3, <1>4, <1>5, <1>6 DEF DirectInv, GrantsFit
  <1>8. /\ \A f \in Asked : dGrant[f].st = "consumed" \/ dGrant'[f].st = "consumed" =>
                               dGrant'[f] = dGrant[f]
        /\ \A f \in Asked : Spent(f) => Spent(f)' /\ dEffect'[f].binding = dEffect[f].binding
    BY <1>2, <1>3, <1>4, <1>5, <1>6 DEF Spent
  <1>9. /\ dTurn' \in [DirectIds -> [state : States, epoch : Nat]]
        /\ \A q \in DirectIds : dTurn'[q].epoch = dTurn[q].epoch
        /\ dCall' \in [Holders -> {Free} \cup Begun \cup Ended \cup Measured]
        /\ \A o \in Holders : dCall'[o] = dCall[o]
    BY <1>2 DEF DirectInv, DirectPlain
  <1> QED BY <1>2, <1>6, <1>7, <1>8, <1>9, RowsMove

(* The execution that a consumption begins, and its entry in the log. *)
Running(t, e, binding, kind) ==
    [pc |-> "running", effect |-> e, turn |-> t, binding |-> binding, kind |-> kind]
Logged(t, e, binding) == [effect |-> e, turn |-> t, binding |-> binding]

(* What a consumption does to the rows. *)
LEMMA ConsumedRows ==
    ASSUME DirectInv, NEW l \in issued, NEW t \in DirectIds, NEW e \in Asked,
           NEW binding \in Binding, NEW kind \in {"tool", "process"},
           Consume(l, t, e, binding, kind)
    PROVE /\ UNCHANGED <<dLease, dProof, dTree, issued>>
          /\ binding.lease = l /\ Holds(l)
          /\ dGrant[e].st = "open" /\ dGrant[e].turn = t
          /\ dEffect[e].st = "prepared" /\ dEffect[e].binding = binding
          /\ dGrant' \in [Asked -> {Absent} \cup GrantRow]
          /\ dGrant'[e].st = "consumed" /\ dGrant'[e].turn = t
          /\ dEffect' \in [Asked -> {Absent} \cup Effect]
          /\ dEffect'[e].st = "started" /\ dEffect'[e].binding = binding
          /\ \A f \in Asked : f # e => dGrant'[f] = dGrant[f] /\ dEffect'[f] = dEffect[f]
          /\ dTurn' \in [DirectIds -> [state : States, epoch : Nat]]
          /\ dTurn'[t].epoch = dTurn[t].epoch + 1
          /\ \A q \in DirectIds : dTurn'[q].state = dTurn[q].state
          /\ \A q \in DirectIds : q # t => dTurn'[q] = dTurn[q]
          /\ Running(t, e, binding, kind) \in Begun
          /\ dCall' \in [Holders -> {Free} \cup Begun \cup Ended \cup Measured]
          /\ dCall'[l.owner] = Running(t, e, binding, kind)
          /\ \A o \in Holders : o # l.owner => dCall'[o] = dCall[o]
          /\ Logged(t, e, binding) \in Entry
          /\ dLog' = Append(dLog, Logged(t, e, binding))
  <1> DEFINE c == Running(t, e, binding, kind)
             n == Logged(t, e, binding)
  <1>1. /\ UNCHANGED <<dLease, dProof, dTree, issued>>
        /\ binding.lease = l /\ Holds(l)
        /\ dGrant[e].st = "open" /\ dGrant[e].turn = t
        /\ dEffect[e].st = "prepared" /\ dGrant[e].binding = binding
        /\ dGrant' = [dGrant EXCEPT ![e].st = "consumed"]
        /\ dEffect' = [dEffect EXCEPT ![e].st = "started"]
        /\ dTurn' = [dTurn EXCEPT ![t].epoch = @ + 1]
        /\ dCall' = [dCall EXCEPT ![l.owner] = c]
        /\ dLog' = Append(dLog, n)
    BY DEF Consume, Consumable, Open, Authoritative, Running, Logged
  <1>2. c \in Begun /\ n \in Entry
    BY DEF Begun, Entry, Running, Logged
  <1> HIDE DEF c, n
  <1>3. dEffect[e].binding = binding
    BY <1>1 DEF DirectInv, GrantsFit
  <1>4. /\ dGrant' \in [Asked -> {Absent} \cup GrantRow]
        /\ dGrant'[e].st = "consumed" /\ dGrant'[e].turn = t
        /\ \A f \in Asked : f # e => dGrant'[f] = dGrant[f]
    <2>1. dGrant[e] \in GrantRow
      BY <1>1 DEF DirectInv, DirectPlain, Absent
    <2>2. LET g == [dGrant[e] EXCEPT !.st = "consumed"] IN
          g \in GrantRow /\ g.st = "consumed" /\ g.turn = dGrant[e].turn
      BY <2>1 DEF GrantRow
    <2> QED BY <1>1, <2>2 DEF DirectInv, DirectPlain
  <1>5. /\ dEffect' \in [Asked -> {Absent} \cup Effect]
        /\ dEffect'[e].st = "started" /\ dEffect'[e].binding = binding
        /\ \A f \in Asked : f # e => dEffect'[f] = dEffect[f]
    <2>1. dEffect[e] \in Effect
      BY <1>1 DEF DirectInv, DirectPlain, Absent
    <2>2. LET g == [dEffect[e] EXCEPT !.st = "started"] IN
          g \in Effect /\ g.st = "started" /\ g.binding = dEffect[e].binding
      BY <2>1 DEF Effect
    <2> QED BY <1>1, <1>3, <2>2 DEF DirectInv, DirectPlain
  <1>6. /\ dTurn' \in [DirectIds -> [state : States, epoch : Nat]]
        /\ dTurn'[t].epoch = dTurn[t].epoch + 1
        /\ \A q \in DirectIds : dTurn'[q].state = dTurn[q].state
        /\ \A q \in DirectIds : q # t => dTurn'[q] = dTurn[q]
    <2>1. dTurn \in [DirectIds -> [state : States, epoch : Nat]]
      BY DEF DirectInv, DirectPlain
    <2>2. dTurn[t].epoch + 1 \in Nat
      BY <2>1
    <2>3. LET r == [dTurn[t] EXCEPT !.epoch = dTurn[t].epoch + 1] IN
          /\ r \in [state : States, epoch : Nat]
          /\ r.epoch = dTurn[t].epoch + 1 /\ r.state = dTurn[t].state
      BY <2>1, <2>2
    <2> QED BY <1>1, <2>1, <2>3
  <1>7. /\ dCall' \in [Holders -> {Free} \cup Begun \cup Ended \cup Measured]
        /\ dCall'[l.owner] = c
        /\ \A o \in Holders : o # l.owner => dCall'[o] = dCall[o]
    BY <1>1, <1>2, IssuedLease DEF DirectInv, DirectPlain
  <1> QED BY <1>1, <1>2, <1>3, <1>4, <1>5, <1>6, <1>7 DEF c, n

(* The epoch counts one more effect; the log ends with an effect it did not have; the
   evidence of the turn is of an earlier epoch now; and nobody but the owner of the
   lease that is in force has an execution under it. *)
LEMMA ConsumeKeeps ==
    ASSUME DirectInv, NEW l \in issued, NEW t \in DirectIds, NEW e \in Asked,
           NEW binding \in Binding, NEW kind \in {"tool", "process"},
           Consume(l, t, e, binding, kind)
    PROVE DirectInv'
  <1> DEFINE c == Running(t, e, binding, kind)
             n == Logged(t, e, binding)
  <1>1. /\ UNCHANGED <<dLease, dProof, dTree, issued>>
        /\ binding.lease = l /\ Holds(l)
        /\ dGrant[e].st = "open" /\ dGrant[e].turn = t
        /\ dEffect[e].st = "prepared" /\ dEffect[e].binding = binding
        /\ dGrant' \in [Asked -> {Absent} \cup GrantRow]
        /\ dGrant'[e].st = "consumed" /\ dGrant'[e].turn = t
        /\ dEffect' \in [Asked -> {Absent} \cup Effect]
        /\ dEffect'[e].st = "started" /\ dEffect'[e].binding = binding
        /\ \A f \in Asked : f # e => dGrant'[f] = dGrant[f] /\ dEffect'[f] = dEffect[f]
    BY ConsumedRows
  <1>2. /\ dTurn' \in [DirectIds -> [state : States, epoch : Nat]]
        /\ dTurn'[t].epoch = dTurn[t].epoch + 1
        /\ \A q \in DirectIds : q # t => dTurn'[q] = dTurn[q]
    BY ConsumedRows
  <1>3. /\ c \in Begun
        /\ dCall' \in [Holders -> {Free} \cup Begun \cup Ended \cup Measured]
        /\ dCall'[l.owner] = c
        /\ \A o \in Holders : o # l.owner => dCall'[o] = dCall[o]
    BY ConsumedRows
  <1>4. n \in Entry /\ dLog' = Append(dLog, n) /\ dLog \in Seq(Entry)
    BY ConsumedRows DEF DirectInv, DirectPlain
  <1>5. /\ n.effect = e /\ n.turn = t /\ n.binding = binding
        /\ c.pc = "running" /\ c.effect = e /\ c.turn = t /\ c.binding = binding
    BY DEF Running, Logged
  <1> HIDE DEF c, n
  <1>6. /\ dLog' \in Seq(Entry) /\ Len(dLog') = Len(dLog) + 1
        /\ dLog'[Len(dLog')] = n
        /\ DOMAIN dLog' = DOMAIN dLog \cup {Len(dLog')}
        /\ \A i \in DOMAIN dLog : dLog'[i] = dLog[i] /\ i < Len(dLog')
    BY <1>4
  <1>7. DirectPlain'
    BY <1>1, <1>2, <1>3, <1>6 DEF DirectInv, DirectPlain
  <1>8. Tokens'
    BY <1>1 DEF DirectInv, Tokens
  <1>9. GrantsFit'
    BY <1>1 DEF DirectInv, GrantsFit
  <1>10. \A f \in Asked : Spent(f) =>
             /\ f # e
             /\ dEffect'[f].st \notin {"absent", "prepared"}
             /\ dEffect'[f].binding = dEffect[f].binding
    BY <1>1 DEF Spent
  <1>11. LogFits'
    <2>1. \A i \in DOMAIN dLog : dLog[i].effect \in Asked
      <3>1. \A i \in DOMAIN dLog : dLog[i] \in Entry
        BY <1>4
      <3> QED BY <3>1 DEF Entry
    <2>2. \A i \in DOMAIN dLog :
             /\ dLog[i].effect # e
             /\ dEffect'[dLog[i].effect].st \notin {"absent", "prepared"}
             /\ dLog[i].binding = dEffect'[dLog[i].effect].binding
      BY <1>10, <2>1 DEF DirectInv, LogFits
    <2>4. \A i, j \in DOMAIN dLog' : dLog'[i].effect = dLog'[j].effect => i = j
      BY <1>5, <1>6, <2>2 DEF DirectInv, LogFits
    <2>5. ASSUME NEW i \in DOMAIN dLog'
          PROVE /\ dEffect'[dLog'[i].effect].st \notin {"absent", "prepared"}
                /\ dLog'[i].binding = dEffect'[dLog'[i].effect].binding
      <3>1. CASE i \in DOMAIN dLog
        BY <1>6, <2>2, <3>1
      <3>2. CASE i = Len(dLog')
        BY <1>1, <1>5, <1>6, <3>2
      <3> QED BY <1>6, <3>1, <3>2
    <2> QED BY <2>4, <2>5 DEF LogFits, Spent
  <1>12. EpochsCount'
    <2> SUFFICES ASSUME NEW q \in DirectIds
                 PROVE dTurn'[q].epoch = Cardinality(ConsumedBy(q)')
      BY DEF EpochsCount
    <2>1. dTurn[q].epoch = Cardinality(ConsumedBy(q))
      BY DEF DirectInv, EpochsCount
    <2>2. CASE q = t
      <3>1. ConsumedBy(q)' = ConsumedBy(q) \cup {e} /\ e \notin ConsumedBy(q)
        BY <1>1, <2>2 DEF ConsumedBy
      <3>2. IsFiniteSet(ConsumedBy(q))
        BY DirectAssumption, FS_Subset DEF ConsumedBy
      <3>3. Cardinality(ConsumedBy(q) \cup {e}) = Cardinality(ConsumedBy(q)) + 1
        BY <3>1, <3>2, FS_AddElement
      <3> QED BY <1>2, <2>1, <2>2, <3>1, <3>3
    <2>3. CASE q # t
      <3>1. ConsumedBy(q)' = ConsumedBy(q)
        BY <1>1, <2>3 DEF ConsumedBy
      <3> QED BY <1>2, <2>1, <2>3, <3>1
    <2> QED BY <2>2, <2>3
  <1>13. ASSUME NEW o \in Holders PROVE CallFits(o)'
    <2>1. CASE o = l.owner
      <3>1. IsNewest(e)'
        <4>1. dLog' # <<>>
          BY <1>6
        <4> QED BY <1>5, <1>6, <4>1 DEF IsNewest
      <3>2. Spent(e)'
        BY <1>1 DEF Spent
      <3>3. dCall'[o] = c
        BY <1>3, <2>1
      <3> QED BY <1>1, <1>5, <2>1, <3>1, <3>2, <3>3 DEF CallFits, Spent, IsNewest
    <2>2. CASE o # l.owner /\ dCall[o] = Free
      BY <1>3, <2>2 DEF CallFits
    <2>3. CASE o # l.owner /\ dCall[o] # Free
      <3>1. PICK d \in Begun \cup Ended \cup Measured : d = dCall[o]
        BY <2>3 DEF DirectInv, DirectPlain
      <3>2. dCall[o].pc # "idle"
        BY <3>1 DEF Begun, Ended, Measured
      <3>3. /\ d.binding.lease \in issued
            /\ d.binding.lease.owner = o
            /\ d.pc # "allowed" => Spent(d.effect) /\ dEffect[d.effect].binding = d.binding
            /\ d.pc = "record" => d.epoch <= dTurn[d.turn].epoch
        BY <2>3, <3>1 DEF DirectInv, CallFits
      <3>4. d.effect \in Asked /\ d.turn \in DirectIds
        BY <3>1, <3>2, CallKinds DEF DirectInv
      <3>5. dCall'[o] = d
        BY <1>3, <2>3, <3>1
      <3>6. ~Holds(d.binding.lease)'
        BY <1>1, <2>3, <3>3 DEF Holds
      <3>7. d.pc # "allowed" => Spent(d.effect)' /\ dEffect'[d.effect].binding = d.binding
        BY <1>10, <3>3, <3>4 DEF Spent
      <3>8. d.pc = "record" => d.epoch <= dTurn'[d.turn].epoch
        <4>1. d.pc = "record" => d.epoch \in Nat
          BY <3>1, <3>2, CallKinds DEF DirectInv, Measured
        <4>2. dTurn[d.turn].epoch \in Nat
          BY <3>4 DEF DirectInv, DirectPlain
        <4>3. dTurn'[d.turn].epoch \in {dTurn[d.turn].epoch, dTurn[d.turn].epoch + 1}
          BY <1>2, <3>4
        <4> QED BY <3>3, <4>1, <4>2, <4>3
      <3> QED BY <1>1, <3>3, <3>5, <3>6, <3>7, <3>8 DEF CallFits
    <2> QED BY <2>1, <2>2, <2>3
  <1>14. ASSUME NEW q \in DirectIds PROVE ProofFits(q)'
    <2> SUFFICES ASSUME dProof[q].st = "recorded"
                 PROVE /\ dProof[q].epoch <= dTurn'[q].epoch
                       /\ dProof[q].epoch = dTurn'[q].epoch =>
                             \E i \in DOMAIN dLog' :
                                /\ dLog'[i].effect = dProof[q].effect
                                /\ \A j \in DOMAIN dLog' : dLog'[j].turn = q => j <= i
      BY <1>1 DEF ProofFits
    <2>1. /\ dProof[q].epoch <= dTurn[q].epoch
          /\ dProof[q].epoch = dTurn[q].epoch =>
                \E i \in DOMAIN dLog :
                   /\ dLog[i].effect = dProof[q].effect
                   /\ \A j \in DOMAIN dLog : dLog[j].turn = q => j <= i
      BY DEF DirectInv, ProofFits
    <2>2. dProof[q].epoch \in Nat /\ dTurn[q].epoch \in Nat
      <3>1. dProof[q] \in ProofRow
        BY DEF DirectInv, DirectPlain, Absent
      <3> QED BY <3>1 DEF DirectInv, DirectPlain, ProofRow
    <2>3. CASE q = t
      BY <1>2, <2>1, <2>2, <2>3
    <2>4. CASE q # t
      <3>1. dTurn'[q].epoch = dTurn[q].epoch
        BY <1>2, <2>4
      <3>2. ASSUME NEW i \in DOMAIN dLog, dLog[i].effect = dProof[q].effect,
                   \A j \in DOMAIN dLog : dLog[j].turn = q => j <= i
            PROVE /\ i \in DOMAIN dLog'
                  /\ dLog'[i].effect = dProof[q].effect
                  /\ \A j \in DOMAIN dLog' : dLog'[j].turn = q => j <= i
        BY <1>5, <1>6, <2>4, <3>2
      <3> QED BY <2>1, <3>1, <3>2
    <2> QED BY <2>3, <2>4
  <1> QED BY <1>7, <1>8, <1>9, <1>11, <1>12, <1>13, <1>14 DEF DirectInv

LEMMA ExecuteApprovedKeeps ==
    ASSUME DirectInv, NEW l \in issued, NEW t \in DirectIds, NEW e \in Asked,
           NEW op \in Operations, NEW kind \in {"tool", "process"},
           ExecuteApproved(l, t, e, op, kind)
    PROVE DirectInv'
  <1> DEFINE b == [op |-> op, revision |-> dTurn[t].state.revision, lease |-> l]
  <1>1. b \in Binding
    <2>1. dTurn[t].state \in T!TurnRecord
      BY DEF DirectInv, DirectPlain, States
    <2>2. dTurn[t].state.revision \in Nat
      BY <2>1 DEF T!TurnRecord
    <2> QED BY <2>2, IssuedLease DEF Binding
  <1>2. Consume(l, t, e, b, kind)
    BY DEF ExecuteApproved
  <1> HIDE DEF b
  <1> QED BY <1>1, <1>2, ConsumeKeeps

-----------------------------------------------------------------------------
(* Direct turns: the steps of an execution *)

(* An execution goes on with the same effect, turn and binding. *)
LEMMA CallGoesOn ==
    ASSUME DirectInv, NEW o \in Holders, dCall[o].pc \in {"running", "done", "measure"},
           NEW c, c # Free, c.effect = dCall[o].effect, c.turn = dCall[o].turn,
           c.binding = dCall[o].binding,
           c.pc = "record" => c.epoch <= dTurn[c.turn].epoch,
           dCall' = [dCall EXCEPT ![o] = c],
           UNCHANGED <<dTurn, dLease, dEffect, issued, dLog>>
    PROVE CallFits(o)'
  <1>1. dCall[o] # Free /\ dCall[o].pc # "allowed"
    BY CallKinds DEF DirectInv
  <1>2. /\ dCall[o].binding.lease \in issued
        /\ dCall[o].binding.lease.owner = o
        /\ Spent(dCall[o].effect)
        /\ dEffect[dCall[o].effect].binding = dCall[o].binding
        /\ Holds(dCall[o].binding.lease) => IsNewest(dCall[o].effect)
    BY <1>1 DEF DirectInv, CallFits
  <1>3. dCall'[o] = c
    BY DEF DirectInv, DirectPlain
  <1> QED BY <1>2, <1>3 DEF CallFits, Holds, Spent, IsNewest

(* Whoever drops an execution leaves no trace of it here. *)
LEMMA CallEnds ==
    ASSUME DirectPlain, NEW o \in Holders, dCall' = [dCall EXCEPT ![o] = Free]
    PROVE /\ dCall' \in [Holders -> {Free} \cup Begun \cup Ended \cup Measured]
          /\ \A q \in Holders : dCall'[q] = dCall[q] \/ CallFits(q)'
  <1>1. dCall'[o] = Free /\ \A q \in Holders : q # o => dCall'[q] = dCall[q]
    BY DEF DirectPlain
  <1>2. CallFits(o)'
    BY <1>1 DEF CallFits
  <1> QED BY <1>1, <1>2 DEF DirectPlain

LEMMA CrashCallKeeps ==
    ASSUME DirectInv, NEW o \in Holders, CrashCall(o)
    PROVE DirectInv'
  <1>1. /\ dCall' = [dCall EXCEPT ![o] = Free]
        /\ UNCHANGED <<dTurn, dLease, dEffect, dGrant, dProof, dTree, issued, dLog>>
    BY DEF CrashCall
  <1>2. dTree' \in Nat
    BY <1>1 DEF DirectInv, DirectPlain
  <1> QED BY <1>1, <1>2, CallEnds, CallsMove DEF DirectInv

LEMMA StartAllowedKeeps ==
    ASSUME DirectInv, NEW o \in Holders, StartAllowed(o)
    PROVE DirectInv'
  <1>1. dCall[o].pc = "allowed"
    BY DEF StartAllowed
  <1>2. /\ dCall[o] \in Begun /\ dCall[o] # Free
        /\ dCall[o].binding \in Binding
        /\ dCall[o].effect \in Asked /\ dCall[o].turn \in DirectIds
    BY <1>1, CallKinds DEF DirectInv
  <1>3. dCall[o].binding.lease \in issued /\ dCall[o].kind \in {"tool", "process"}
    BY <1>2 DEF DirectInv, CallFits, Begun
  <1>4. CASE Consume(dCall[o].binding.lease, dCall[o].turn, dCall[o].effect, dCall[o].binding,
                     dCall[o].kind)
    BY <1>2, <1>3, <1>4, ConsumeKeeps
  <1>5. CASE /\ dCall' = [dCall EXCEPT ![o] = Free]
             /\ UNCHANGED <<dTurn, dLease, dEffect, dGrant, dProof, dTree, issued, dLog>>
    <2>1. dTree' \in Nat
      BY <1>5 DEF DirectInv, DirectPlain
    <2> QED BY <1>5, <2>1, CallEnds, CallsMove DEF DirectInv
  <1> QED BY <1>4, <1>5 DEF StartAllowed

(* One execution goes on to c, and the workspace may change. *)
LEMMA CallMoves ==
    ASSUME DirectInv, NEW o \in Holders, dCall[o].pc \in {"running", "done", "measure"},
           NEW c \in Ended \cup Measured, c.effect = dCall[o].effect, c.turn = dCall[o].turn,
           c.binding = dCall[o].binding,
           c.pc = "record" => c.epoch <= dTurn[c.turn].epoch,
           dCall' = [dCall EXCEPT ![o] = c], dTree' \in Nat,
           UNCHANGED <<dTurn, dLease, dEffect, dGrant, dProof, issued, dLog>>
    PROVE DirectInv'
  <1>1. c # Free
    BY DEF Free, Ended, Measured
  <1>2. CallFits(o)'
    BY <1>1, CallGoesOn
  <1>3. /\ dCall' \in [Holders -> {Free} \cup Begun \cup Ended \cup Measured]
        /\ \A q \in Holders : q # o => dCall'[q] = dCall[q]
    BY DEF DirectInv, DirectPlain
  <1>4. \A q \in Holders : dCall'[q] = dCall[q] \/ CallFits(q)'
    BY <1>2, <1>3
  <1> QED BY <1>3, <1>4, CallsMove

LEMMA PerformKeeps ==
    ASSUME DirectInv, NEW o \in Holders, Perform(o)
    PROVE DirectInv'
  <1>1. PICK result \in {"success", "failed", "unknown"}, tree \in {dTree, dTree + 1} :
           /\ dTree' = tree
           /\ dCall' = [dCall EXCEPT ![o] =
                 [pc |-> "done", effect |-> dCall[o].effect, turn |-> dCall[o].turn,
                  binding |-> dCall[o].binding, kind |-> dCall[o].kind, result |-> result]]
    BY DEF Perform
  <1> DEFINE c == [pc |-> "done", effect |-> dCall[o].effect, turn |-> dCall[o].turn,
                   binding |-> dCall[o].binding, kind |-> dCall[o].kind, result |-> result]
  <1>2. dCall[o] \in Begun /\ dCall[o].pc = "running"
    BY CallKinds DEF DirectInv, Perform
  <1>3. /\ c \in Ended /\ c.effect = dCall[o].effect /\ c.turn = dCall[o].turn
        /\ c.binding = dCall[o].binding /\ c.pc = "done"
    BY <1>2 DEF Begun, Ended
  <1>4. dCall' = [dCall EXCEPT ![o] = c]
    BY <1>1
  <1>5. dTree' \in Nat
    BY <1>1 DEF DirectInv, DirectPlain
  <1> HIDE DEF c
  <1> QED BY <1>2, <1>3, <1>4, <1>5, CallMoves DEF Perform

LEMMA MeasureKeeps ==
    ASSUME DirectInv, NEW o \in Holders, Measure(o)
    PROVE DirectInv'
  <1> DEFINE c(passed) ==
                [pc |-> "record", effect |-> dCall[o].effect, turn |-> dCall[o].turn,
                 binding |-> dCall[o].binding, passed |-> passed,
                 epoch |-> dTurn[dCall[o].turn].epoch, tree |-> dTree]
  <1>1. PICK passed \in BOOLEAN : dCall' = [dCall EXCEPT ![o] = c(passed)]
    BY DEF Measure
  <1>2. /\ dCall[o] \in Ended /\ dCall[o].pc = "measure"
        /\ dCall[o].effect \in Asked /\ dCall[o].turn \in DirectIds
        /\ dCall[o].binding \in Binding
    BY CallKinds DEF DirectInv, Measure
  <1>3. dTurn[dCall[o].turn].epoch \in Nat /\ dTree \in Nat
    BY <1>2 DEF DirectInv, DirectPlain
  <1>4. c(passed) \in Measured
    <2>1. \A e \in Asked, t \in DirectIds, b \in Binding, p \in BOOLEAN, k, m \in Nat :
             [pc |-> "record", effect |-> e, turn |-> t, binding |-> b, passed |-> p,
              epoch |-> k, tree |-> m] \in Measured
      BY Zenon DEF Measured
    <2> QED BY <1>2, <1>3, <2>1
  <1>5. /\ c(passed).effect = dCall[o].effect /\ c(passed).turn = dCall[o].turn
        /\ c(passed).binding = dCall[o].binding
        /\ c(passed).epoch = dTurn[dCall[o].turn].epoch
    OBVIOUS
  <1> HIDE DEF c
  <1>6. c(passed).epoch <= dTurn[c(passed).turn].epoch
    BY <1>3, <1>5
  <1>7. /\ UNCHANGED <<dTurn, dLease, dEffect, dGrant, dProof, dTree, issued, dLog>>
        /\ dTree' \in Nat
    BY <1>3 DEF Measure
  <1> QED BY <1>1, <1>2, <1>4, <1>5, <1>6, <1>7, CallMoves

LEMMA EditTreeKeeps ==
    ASSUME DirectInv, EditTree
    PROVE DirectInv'
  <1>1. /\ dTree' \in Nat
        /\ dCall' \in [Holders -> {Free} \cup Begun \cup Ended \cup Measured]
        /\ \A o \in Holders : dCall'[o] = dCall[o]
    BY DEF DirectInv, DirectPlain, EditTree
  <1> QED BY <1>1, CallsMove DEF EditTree

(* A report settles an effect that was started and nobody has settled. *)
LEMMA ReportKeeps ==
    ASSUME DirectInv, NEW o \in Holders, Report(o)
    PROVE DirectInv'
  <1>1. /\ dCall[o] \in Ended /\ dCall[o].pc = "done" /\ dCall[o] # Free
        /\ dCall[o].effect \in Asked /\ dCall[o].turn \in DirectIds
    BY CallKinds DEF DirectInv, Report
  <1>2. UNCHANGED <<dTurn, dLease, dGrant, dProof, dTree, issued, dLog>>
    BY DEF Report
  <1>3. PICK e \in Asked : e = dCall[o].effect
    BY <1>1
  <1>4. ASSUME NEW f \in Asked
        PROVE /\ dEffect'[f] \in {Absent} \cup Effect
              /\ dEffect[f].st # "started" => dEffect'[f] = dEffect[f]
              /\ dEffect[f].st = "started" =>
                    /\ dEffect'[f].st \in {"started", "success", "failed", "unknown"}
                    /\ dEffect'[f].binding = dEffect[f].binding
    <2>1. dEffect[f] \in {Absent} \cup Effect
      BY DEF DirectInv, DirectPlain
    <2>2. CASE MayReport(dCall[o]) /\ f = e
      <3>1. dEffect[f].st = "started" /\ dEffect' = [dEffect EXCEPT ![e].st = dCall[o].result]
        BY <1>3, <2>2 DEF Report, MayReport
      <3>2. dEffect'[f] = [dEffect[f] EXCEPT !.st = dCall[o].result]
        BY <2>2, <3>1 DEF DirectInv, DirectPlain
      <3>3. dCall[o].result \in {"success", "failed", "unknown"}
        BY <1>1 DEF Ended
      <3>4. dEffect[f] \in Effect
        BY <2>1, <3>1 DEF Absent
      <3> QED BY <3>1, <3>2, <3>3, <3>4 DEF Effect
    <2>3. CASE ~(MayReport(dCall[o]) /\ f = e)
      <3>1. dEffect'[f] = dEffect[f]
        BY <1>3, <2>3 DEF Report, DirectInv, DirectPlain
      <3>2. dEffect[f] \in Effect \/ dEffect[f].st = "absent"
        BY <2>1 DEF Absent
      <3> QED BY <2>1, <3>1
    <2> QED BY <2>2, <2>3
  <1>5. dEffect' \in [Asked -> {Absent} \cup Effect]
    <2>1. dEffect' = [f \in Asked |-> dEffect'[f]]
      BY DEF Report, DirectInv, DirectPlain
    <2> QED BY <1>4, <2>1
  <1>6. \A f \in Asked : Spent(f) => Spent(f)' /\ dEffect'[f].binding = dEffect[f].binding
    BY <1>4 DEF Spent
  <1>7. GrantsFit'
    BY <1>2, <1>4 DEF DirectInv, GrantsFit
  <1>8. /\ dCall' \in [Holders -> {Free} \cup Begun \cup Ended \cup Measured]
        /\ \A q \in Holders : dCall'[q] = dCall[q] \/ CallFits(q)'
    <2>1. CASE dCall' = [dCall EXCEPT ![o] = Free]
      BY <2>1, CallEnds DEF DirectInv
    <2>2. CASE dCall' = [dCall EXCEPT ![o].pc = "measure"]
      <3> DEFINE c == [dCall[o] EXCEPT !.pc = "measure"]
      <3>1. /\ c \in Ended /\ c.effect = dCall[o].effect /\ c.turn = dCall[o].turn
            /\ c.binding = dCall[o].binding /\ c.pc = "measure"
        BY <1>1 DEF Ended
      <3>2. dCall' = [dCall EXCEPT ![o] = c]
        BY <2>2
      <3> HIDE DEF c
      <3>3. /\ dCall' \in [Holders -> {Free} \cup Begun \cup Ended \cup Measured]
            /\ dCall'[o] = c
            /\ \A q \in Holders : q # o => dCall'[q] = dCall[q]
        BY <3>1, <3>2 DEF DirectInv, DirectPlain
      <3>4. /\ dCall[o].binding.lease \in issued
            /\ dCall[o].binding.lease.owner = o
            /\ Spent(e)
            /\ dEffect[e].binding = dCall[o].binding
            /\ Holds(dCall[o].binding.lease) => IsNewest(e)
        BY <1>1, <1>3 DEF DirectInv, CallFits
      <3>5. Spent(e)' /\ dEffect'[e].binding = dEffect[e].binding
        BY <1>6, <3>4
      <3>6. CallFits(o)'
        BY <1>2, <1>3, <3>1, <3>3, <3>4, <3>5 DEF CallFits, Holds, IsNewest, Spent
      <3> QED BY <3>3, <3>6
    <2> QED BY <2>1, <2>2 DEF Report
  <1>9. /\ dTurn' \in [DirectIds -> [state : States, epoch : Nat]]
        /\ dGrant' \in [Asked -> {Absent} \cup GrantRow]
    BY <1>2 DEF DirectInv, DirectPlain
  <1> QED BY <1>2, <1>5, <1>6, <1>7, <1>8, <1>9, RowsMove

(* Evidence is accepted only from the holder of the lease, under which nothing was
   started since: its effect is the last in the log. *)
LEMMA RecordEvidenceKeeps ==
    ASSUME DirectInv, NEW o \in Holders, RecordEvidence(o)
    PROVE DirectInv'
  <1>1. /\ dCall[o] \in Measured /\ dCall[o].pc = "record" /\ dCall[o] # Free
        /\ dCall[o].effect \in Asked /\ dCall[o].turn \in DirectIds
        /\ dCall[o].binding \in Binding
    BY CallKinds DEF DirectInv, RecordEvidence
  <1>2. /\ UNCHANGED <<dTurn, dLease, dEffect, dGrant, dTree, issued, dLog>>
        /\ dCall' = [dCall EXCEPT ![o] = Free]
    BY DEF RecordEvidence
  <1>3. dProof' \in [DirectIds -> {Absent} \cup ProofRow]
        /\ \A t \in DirectIds : dProof'[t] = dProof[t] \/ ProofFits(t)'
    <2>1. CASE ~Recordable(dCall[o])
      BY <2>1 DEF RecordEvidence, DirectInv, DirectPlain
    <2>2. CASE Recordable(dCall[o])
      <3> DEFINE r == [st |-> "recorded", effect |-> dCall[o].effect, passed |-> dCall[o].passed,
                       tree |-> dCall[o].tree, epoch |-> dCall[o].epoch,
                       revision |-> dCall[o].binding.revision]
      <3>1. dProof' = [dProof EXCEPT ![dCall[o].turn] = r]
        BY <2>2 DEF RecordEvidence
      <3>2. r \in ProofRow
        <4>1. /\ dCall[o].passed \in BOOLEAN /\ dCall[o].epoch \in Nat /\ dCall[o].tree \in Nat
              /\ dCall[o].binding.revision \in Nat
          BY <1>1 DEF Measured, Binding
        <4>2. \A e \in Asked, p \in BOOLEAN, k, m, n \in Nat :
                 [st |-> "recorded", effect |-> e, passed |-> p, tree |-> m, epoch |-> k,
                  revision |-> n] \in ProofRow
          BY Zenon DEF ProofRow
        <4> QED BY <1>1, <4>1, <4>2
      <3>3. r.epoch = dCall[o].epoch /\ r.effect = dCall[o].effect
        OBVIOUS
      <3> HIDE DEF r
      <3>4. PICK t \in DirectIds : t = dCall[o].turn
        BY <1>1
      <3>5. /\ dProof' \in [DirectIds -> {Absent} \cup ProofRow]
            /\ dProof'[t] = r
            /\ \A q \in DirectIds : q # t => dProof'[q] = dProof[q]
        BY <3>1, <3>2, <3>4 DEF DirectInv, DirectPlain
      <3>6. dTurn[t].epoch = r.epoch /\ r.epoch \in Nat
        BY <1>1, <2>2, <3>3, <3>4 DEF Recordable, Measured
      <3>7. IsNewest(r.effect)
        BY <1>1, <2>2, <3>3 DEF Recordable, DirectInv, CallFits
      <3>8. /\ Len(dLog) \in DOMAIN dLog /\ dLog[Len(dLog)].effect = r.effect
            /\ \A j \in DOMAIN dLog : j <= Len(dLog)
        BY <3>7 DEF IsNewest, DirectInv, DirectPlain
      <3>9. ProofFits(t)'
        BY <1>2, <3>5, <3>6, <3>8 DEF ProofFits
      <3> QED BY <3>5, <3>9
    <2> QED BY <2>1, <2>2
  <1>4. /\ dCall' \in [Holders -> {Free} \cup Begun \cup Ended \cup Measured]
        /\ \A q \in Holders : dCall'[q] = dCall[q] \/ CallFits(q)'
    BY <1>2, CallEnds DEF DirectInv
  <1>5. DirectPlain'
    BY <1>2, <1>3, <1>4 DEF DirectInv, DirectPlain
  <1>6. Tokens' /\ GrantsFit'
    BY <1>2 DEF DirectInv, Tokens, GrantsFit
  <1>7. \A l \in issued : Holds(l)' => Holds(l)
    BY <1>2 DEF Holds
  <1>8. \A e \in Asked : Spent(e) => Spent(e)' /\ dEffect'[e].binding = dEffect[e].binding
    BY <1>2 DEF Spent
  <1> QED BY <1>2, <1>3, <1>4, <1>5, <1>6, <1>7, <1>8, DirectMoves

-----------------------------------------------------------------------------
(* Direct turns: the theorems *)

LEMMA DirectStarts == DirectInit => DirectInv
  <1> SUFFICES ASSUME DirectInit PROVE DirectInv
    OBVIOUS
  <1>1. T!NoTurn \in States
    <2>1. T!NoTurn \in T!TurnRecord /\ T!NoTurn.permission = NoEffect
      BY DEF T!NoTurn, T!TurnRecord, T!Status, T!Failure
    <2> QED BY <2>1 DEF States
  <1>2. /\ dTurn \in [DirectIds -> [state : States, epoch : Nat]]
        /\ \A t \in DirectIds : dTurn[t].epoch = 0
    BY <1>1 DEF DirectInit
  <1>3. DirectPlain
    BY <1>2 DEF DirectInit, DirectPlain
  <1>4. Tokens
    <2>1. 0 \in 0..MaxFence
      BY DirectAssumption
    <2>2. dLease \in [owner : Holders \cup {NoEffect}, token : 0 .. MaxFence, live : BOOLEAN]
      BY <2>1 DEF DirectInit
    <2> QED BY <2>2 DEF DirectInit, Tokens
  <1>5. GrantsFit /\ \A e \in Asked : dGrant[e].st = "absent"
    BY DEF DirectInit, GrantsFit, Absent
  <1>6. LogFits
    BY DEF DirectInit, LogFits
  <1>7. EpochsCount
    <2>1. \A t \in DirectIds : ConsumedBy(t) = {}
      BY <1>5 DEF ConsumedBy
    <2> QED BY <1>2, <2>1, FS_EmptySet DEF EpochsCount
  <1>8. /\ \A o \in Holders : CallFits(o)
        /\ \A t \in DirectIds : ProofFits(t)
    BY DEF DirectInit, CallFits, ProofFits, Absent
  <1> QED BY <1>3, <1>4, <1>5, <1>6, <1>7, <1>8 DEF DirectInv

LEMMA DirectSteps == DirectInv /\ [DirectNext]_directVars => DirectInv'
  <1> SUFFICES ASSUME DirectInv, [DirectNext]_directVars PROVE DirectInv'
    OBVIOUS
  <1>1. CASE UNCHANGED directVars
    <2>1. UNCHANGED <<dTurn, dLease, dEffect, dGrant, dProof, dCall, dTree, issued, dLog>>
      BY <1>1 DEF directVars
    <2>2. /\ dTree' \in Nat
          /\ dCall' \in [Holders -> {Free} \cup Begun \cup Ended \cup Measured]
      BY <2>1 DEF DirectInv, DirectPlain
    <2> QED BY <2>1, <2>2, CallsMove
  <1>2. CASE Expire \/ RecoverAt \/ EditTree
    BY <1>2, LeaseEndsKeeps, RecoveryKeeps, EditTreeKeeps
  <1>3. ASSUME NEW t \in DirectIds, CreateDirectTurn(t) PROVE DirectInv'
    BY <1>3, CreateDirectTurnKeeps
  <1>4. ASSUME NEW o \in Holders, Acquire(o, {}) \/ \E t \in DirectIds : Acquire(o, {t})
        PROVE DirectInv'
    BY <1>4, AcquireKeeps
  <1>5. ASSUME NEW o \in Holders,
               StartAllowed(o) \/ Perform(o) \/ Report(o) \/ Measure(o) \/ RecordEvidence(o)
                  \/ CrashCall(o)
        PROVE DirectInv'
    BY <1>5, StartAllowedKeeps, PerformKeeps, ReportKeeps, MeasureKeeps, RecordEvidenceKeeps,
       CrashCallKeeps
  <1>6. ASSUME NEW l \in issued, Release(l) PROVE DirectInv'
    BY <1>6, LeaseEndsKeeps
  <1>7. ASSUME NEW l \in issued, NEW t \in DirectIds,
               ApplyTransition(l, t) \/ CompleteVerified(l, t) \/ InterruptAfterLoss(l, t)
        PROVE DirectInv'
    BY <1>7, ApplyTransitionKeeps, CompleteVerifiedKeeps, RecoveryKeeps
  <1>8. ASSUME NEW l \in issued, NEW t \in DirectIds, NEW class \in {"cancelled", "denied"},
               CancelWaiting(l, t, class)
        PROVE DirectInv'
    BY <1>8, CancelWaitingKeeps
  <1>9. ASSUME NEW l \in issued, NEW t \in DirectIds, NEW e \in Asked, NEW op \in Operations,
               NEW revision \in 0..MaxSteps,
               \/ AskPermission(l, t, e, op, revision)
               \/ \E new \in Asked : Reissue(l, t, e, new, op, revision)
        PROVE DirectInv'
    BY <1>9, AskPermissionKeeps, ReissueKeeps
  <1>10. ASSUME NEW l \in issued, NEW t \in DirectIds, NEW e \in Asked, NEW op \in Operations,
                \/ AllowProcess(l, t, e, op)
                \/ \E kind \in {"tool", "process"} : ExecuteApproved(l, t, e, op, kind)
         PROVE DirectInv'
    BY <1>10, AllowProcessKeeps, ExecuteApprovedKeeps
  <1>11. CASE DirectNext
    BY <1>11, <1>2, <1>3, <1>4, <1>5, <1>6, <1>7, <1>8, <1>9, <1>10 DEF DirectNext
  <1> QED BY <1>1, <1>11

(* However many processes drive the direct interface with leases they may have lost,
   an approval is spent once and on what was approved (consume_permission_and_start,
   replace_pending_effect). *)
THEOREM DirectSafety == DirectSpec => []DirectTurnsCorrect
  <1>1. DirectInv => DirectTurnsCorrect
    <2> SUFFICES ASSUME DirectInv PROVE DirectTurnsCorrect
      OBVIOUS
    <2>1. ApprovalIsSpentOnce
      BY DEF DirectInv, LogFits, Spent, ApprovalIsSpentOnce
    <2>2. ASSUME NEW t \in DirectIds
          PROVE /\ dTurn[t].state \in T!TurnRecord
                /\ dTurn[t].state.status \in T!Terminal => dTurn[t].state.permission = NoEffect
                /\ dTurn[t].epoch \in 0..Cardinality(Asked)
      <3>1. dTurn[t].state \in States /\ dTurn[t].epoch \in Nat
        BY DEF DirectInv, DirectPlain
      <3>2. IsFiniteSet(Asked) /\ ConsumedBy(t) \in SUBSET Asked
        BY DirectAssumption DEF ConsumedBy
      <3>3. Cardinality(ConsumedBy(t)) <= Cardinality(Asked) /\ Cardinality(Asked) \in Nat
        BY <3>2, FS_Subset, FS_CardinalityType
      <3>4. dTurn[t].epoch \in 0..Cardinality(Asked)
        BY <3>1, <3>3 DEF DirectInv, EpochsCount
      <3> QED BY <3>1, <3>4 DEF States, T!Terminal
    <2>3. ASSUME NEW e \in Asked
          PROVE /\ dEffect[e].st \in
                      {"absent", "prepared", "started", "success", "failed", "unknown"}
                /\ dGrant[e].st # "absent" => dEffect[e].st # "absent"
                /\ dGrant[e].st = "open" => dEffect[e].st = "prepared"
      BY DEF DirectInv, DirectPlain, GrantsFit, Effect, Absent
    <2> QED BY <2>1, <2>2, <2>3 DEF DirectTypeOK, DirectTurnsCorrect
  <1> QED BY <1>1, DirectStarts, DirectSteps, PTL DEF DirectSpec

(* Only a report settles a started effect with an outcome, and it has passed the fence. *)
LEMMA ReportIsFenced ==
    ASSUME DirectInv, NEW o \in Holders, Report(o), NEW e \in Asked
    PROVE /\ dEffect[e].st = "unknown" => dEffect'[e].st = "unknown"
          /\ dEffect[e].st = "started" /\ dEffect'[e].st \in {"success", "failed"} =>
                \A l \in issued : l.token <= dEffect[e].binding.lease.token
  <1>1. /\ dCall[o] # Free /\ dCall[o].pc = "done" /\ dCall[o].effect \in Asked
        /\ dCall[o].binding \in Binding
    BY CallKinds DEF DirectInv, Report
  <1>2. CASE MayReport(dCall[o]) /\ e = dCall[o].effect
    <2>1. /\ dEffect[e].binding = dCall[o].binding
          /\ dCall[o].binding.lease \in issued
      BY <1>1, <1>2 DEF DirectInv, CallFits
    <2>2. Holds(dCall[o].binding.lease) /\ dEffect[e].st = "started"
      BY <1>2 DEF MayReport, Authoritative
    <2>3. dLease.token = dCall[o].binding.lease.token /\ dLease.token # 0
      <3>1. dCall[o].binding.lease.token >= 1 /\ dCall[o].binding.lease.token \in Nat
        BY <2>1, IssuedLease
      <3> QED BY <2>2, <3>1 DEF Holds
    <2>4. \A l \in issued : l.token <= dLease.token
      BY <2>3 DEF DirectInv, Tokens
    <2> QED BY <2>1, <2>2, <2>3, <2>4
  <1>3. CASE ~(MayReport(dCall[o]) /\ e = dCall[o].effect)
    <2>1. dEffect'[e] = dEffect[e]
      BY <1>3 DEF Report, DirectInv, DirectPlain
    <2> QED BY <2>1
  <1> QED BY <1>2, <1>3

(* The other steps settle no effect that is being carried out, except as unknown. *)
LEMMA NoOutcomeElsewhere ==
    ASSUME DirectInv, DirectNext, ~\E o \in Holders : Report(o), NEW e \in Asked
    PROVE /\ dEffect[e].st = "unknown" => dEffect'[e].st = "unknown"
          /\ dEffect[e].st = "started" => dEffect'[e].st \in {"started", "unknown"}
  <1> DEFINE P == /\ dEffect[e].st = "unknown" => dEffect'[e].st = "unknown"
                  /\ dEffect[e].st = "started" => dEffect'[e].st \in {"started", "unknown"}
  <1> SUFFICES P
    OBVIOUS
  <1>1. CASE UNCHANGED dEffect
    BY <1>1
  <1>2. ASSUME NEW ts, Interrupted(ts) PROVE P
    <2>1. CASE dEffect[e].st = "started" /\ dEffect[e].turn \in ts
      <3>1. dEffect[e] \in Effect
        BY <2>1 DEF DirectInv, DirectPlain, Absent
      <3>2. dEffect'[e] = [dEffect[e] EXCEPT !.st = "unknown"]
        BY <1>2, <2>1 DEF Interrupted
      <3> QED BY <2>1, <3>1, <3>2 DEF Effect
    <2>2. CASE ~(dEffect[e].st = "started" /\ dEffect[e].turn \in ts)
      <3>1. dEffect'[e] = dEffect[e]
        BY <1>2, <2>2 DEF Interrupted
      <3> QED BY <3>1
    <2> QED BY <2>1, <2>2
  <1>3. CASE RecoverAt \/ \E l \in issued, t \in DirectIds : InterruptAfterLoss(l, t)
    BY <1>2, <1>3 DEF RecoverAt, InterruptAfterLoss
  <1>4. ASSUME dEffect[e].st \in {"unknown", "started"} => dEffect'[e] = dEffect[e] PROVE P
    BY <1>4
  <1>5. dEffect \in [Asked -> {Absent} \cup Effect]
    BY DEF DirectInv, DirectPlain
  <1>6. ASSUME NEW l \in issued, NEW t \in DirectIds, NEW class, CancelWaiting(l, t, class)
        PROVE P
    <2>1. dEffect[e].st \in {"unknown", "started"} => dEffect'[e] = dEffect[e]
      <3>1. dTurn[t].state.permission = e => dEffect[e].st = "prepared"
        BY <1>6, DirectAssumption DEF CancelWaiting
      <3> QED BY <1>6, <3>1 DEF CancelWaiting
    <2> QED BY <1>4, <2>1
  <1>7. ASSUME NEW l \in issued, NEW t \in DirectIds, NEW f \in Asked, NEW binding, NEW at,
               CreatePrepared(l, t, f, binding, at)
        PROVE P
    <2>1. dEffect[f].st = "absent"
      BY <1>7 DEF CreatePrepared, Absent
    <2>2. e # f => dEffect'[e] = dEffect[e]
      BY <1>5, <1>7 DEF CreatePrepared, InsertRows
    <2> QED BY <1>4, <2>1, <2>2
  <1>8. ASSUME NEW l \in issued, NEW t \in DirectIds, NEW f \in Asked, NEW new \in Asked,
               NEW op, NEW revision, Reissue(l, t, f, new, op, revision)
        PROVE P
    <2>1. dEffect[new].st = "absent" /\ dEffect[f].st = "prepared"
      BY <1>8 DEF Reissue, Absent
    <2>2. e # f /\ e # new => dEffect'[e] = dEffect[e]
      BY <1>5, <1>8 DEF Reissue, InsertRows
    <2> QED BY <1>4, <2>1, <2>2
  <1>9. ASSUME NEW l, NEW t, NEW f, NEW binding, NEW kind, Consume(l, t, f, binding, kind)
        PROVE P
    <2>1. dEffect[f].st = "prepared"
      BY <1>9 DEF Consume, Consumable
    <2>2. e # f => dEffect'[e] = dEffect[e]
      BY <1>5, <1>9 DEF Consume
    <2> QED BY <1>4, <2>1, <2>2
  <1>10. ASSUME NEW o \in Holders,
                \/ Acquire(o, {}) \/ (\E t \in DirectIds : Acquire(o, {t}))
                \/ StartAllowed(o) \/ Perform(o) \/ Measure(o) \/ RecordEvidence(o) \/ CrashCall(o)
         PROVE P
    BY <1>1, <1>9, <1>10 DEF Acquire, StartAllowed, Perform, Measure, RecordEvidence, CrashCall
  <1>11. ASSUME NEW l \in issued,
                \/ Release(l)
                \/ \E t \in DirectIds : ApplyTransition(l, t) \/ CompleteVerified(l, t)
         PROVE P
    BY <1>1, <1>11 DEF Release, ApplyTransition, CompleteVerified
  <1>12. ASSUME NEW l \in issued, NEW t \in DirectIds, NEW f \in Asked, NEW op \in Operations,
                \/ \E revision \in 0..MaxSteps :
                      \/ AskPermission(l, t, f, op, revision)
                      \/ \E new \in Asked : Reissue(l, t, f, new, op, revision)
                \/ AllowProcess(l, t, f, op)
                \/ \E kind \in {"tool", "process"} : ExecuteApproved(l, t, f, op, kind)
         PROVE P
    BY <1>7, <1>8, <1>9, <1>12 DEF AskPermission, AllowProcess, ExecuteApproved
  <1>13. CASE Expire \/ EditTree \/ \E t \in DirectIds : CreateDirectTurn(t)
    BY <1>1, <1>13 DEF Expire, EditTree, CreateDirectTurn
  <1> HIDE DEF P
  <1>14. ASSUME NEW l \in issued, NEW t \in DirectIds, NEW class \in {"cancelled", "denied"},
                CancelWaiting(l, t, class)
         PROVE P
    BY <1>6, <1>14
  <1>15. ASSUME NEW o \in Holders, Report(o) PROVE P
    BY <1>15
  <1> QED BY <1>3, <1>10, <1>11, <1>12, <1>13, <1>14, <1>15 DEF DirectNext

(* No outcome is reported under a lease that was taken over, and what recovery called
   unknown stays so (finish_effect, mark_effect_unknown, interrupt_after_lease_loss). *)
THEOREM ReportsAreFenced == DirectSpec => NoLateReport
  <1> DEFINE Fenced ==
        \A e \in Asked :
          /\ dEffect[e].st = "unknown" => dEffect'[e].st = "unknown"
          /\ dEffect[e].st = "started" /\ dEffect'[e].st \in {"success", "failed"} =>
                \A l \in issued : l.token <= dEffect[e].binding.lease.token
  <1>1. DirectInv /\ [DirectNext]_directVars => [Fenced]_directVars
    <2> SUFFICES ASSUME DirectInv, DirectNext PROVE Fenced
      OBVIOUS
    <2>1. CASE \E o \in Holders : Report(o)
      BY <2>1, ReportIsFenced
    <2>2. CASE ~\E o \in Holders : Report(o)
      BY <2>2, NoOutcomeElsewhere
    <2> QED BY <2>1, <2>2
  <1> QED BY <1>1, DirectStarts, DirectSteps, PTL DEF DirectSpec, NoLateReport

(* Nothing but CompleteVerified completes a turn. *)
LEMMA OnlyVerifiedCompletes ==
    ASSUME DirectInv, DirectNext, NEW t \in DirectIds, ~\E l \in issued : CompleteVerified(l, t)
    PROVE dTurn'[t].state.status = "completed" => dTurn[t].state.status = "completed"
  <1> DEFINE Q == dTurn'[t].state.status = "completed" => dTurn[t].state.status = "completed"
  <1> SUFFICES Q
    OBVIOUS
  <1>1. dTurn \in [DirectIds -> [state : States, epoch : Nat]]
    BY DEF DirectInv, DirectPlain
  <1>2. ASSUME dTurn'[t] = dTurn[t] PROVE Q
    BY <1>2
  <1>3. ASSUME NEW q \in DirectIds, NEW n, n.status # "completed",
               dTurn' = [dTurn EXCEPT ![q].state = n]
        PROVE Q
    <2>1. CASE q = t
      BY <1>1, <1>3, <2>1
    <2>2. CASE q # t
      BY <1>1, <1>2, <1>3, <2>2
    <2> QED BY <2>1, <2>2
  <1>4. ASSUME NEW ts, \A q \in DirectIds \cap ts : T!CanInterrupt(dTurn[q].state),
               Interrupted(ts)
        PROVE Q
    <2>1. CASE t \in ts
      <3>1. T!Interrupt(dTurn[t].state).status = "interrupted"
        BY <1>1, <1>4, <2>1, TransitionsOfState DEF T!Failure
      <3>2. dTurn'[t].state = T!Interrupt(dTurn[t].state)
        BY <1>1, <1>4, <2>1 DEF Interrupted
      <3> QED BY <3>1, <3>2
    <2>2. CASE t \notin ts
      BY <1>2, <1>4, <2>2 DEF Interrupted
    <2> QED BY <2>1, <2>2
  <1>5. CASE RecoverAt
    <2> DEFINE lost == {q \in DirectIds : T!CanInterrupt(dTurn[q].state)
                          /\ ~(dLease.live /\ dLease.token = dTurn[q].state.token)}
    <2>1. Interrupted(lost)
      BY <1>5 DEF RecoverAt
    <2>2. \A q \in DirectIds \cap lost : T!CanInterrupt(dTurn[q].state)
      OBVIOUS
    <2> HIDE DEF lost
    <2> QED BY <1>4, <2>1, <2>2
  <1>6. ASSUME NEW o \in Holders, NEW ts, Acquire(o, ts) PROVE Q
    <2>1. \A q \in DirectIds : dTurn'[q].state.status = dTurn[q].state.status
      BY <1>6, AcquireTokens, ReboundTurns DEF DirectInv
    <2> QED BY <2>1
  <1>7. ASSUME NEW l, NEW q, NEW f, NEW binding, NEW kind, Consume(l, q, f, binding, kind) PROVE Q
    <2>1. dTurn' = [dTurn EXCEPT ![q].epoch = @ + 1]
      BY <1>7 DEF Consume
    <2>2. dTurn'[t].state = dTurn[t].state
      BY <1>1, <2>1
    <2> QED BY <2>2
  <1>8. ASSUME NEW o \in Holders,
               \/ Acquire(o, {}) \/ (\E q \in DirectIds : Acquire(o, {q}))
               \/ StartAllowed(o) \/ Perform(o) \/ Report(o) \/ Measure(o) \/ RecordEvidence(o)
               \/ CrashCall(o)
        PROVE Q
    <2>1. CASE UNCHANGED dTurn
      BY <1>2, <2>1
    <2> QED BY <1>6, <1>7, <1>8, <2>1
          DEF StartAllowed, Perform, Report, Measure, RecordEvidence, CrashCall
  <1>9. ASSUME NEW l \in issued, NEW q \in DirectIds,
               ApplyTransition(l, q) \/ CompleteVerified(l, q) \/ InterruptAfterLoss(l, q)
        PROVE Q
    <2>1. CASE ApplyTransition(l, q)
      <3>1. PICK n \in States : n.status # "completed" /\ dTurn' = [dTurn EXCEPT ![q].state = n]
        BY <2>1, AppliedState
      <3> QED BY <1>3, <3>1
    <2>2. CASE CompleteVerified(l, q)
      <3>1. q # t
        BY <2>2
      <3>2. dTurn' = [dTurn EXCEPT ![q].state = [T!Complete(@, TRUE) EXCEPT !.token = l.token]]
        BY <2>2 DEF CompleteVerified
      <3>3. dTurn'[t] = dTurn[t]
        BY <1>1, <3>1, <3>2
      <3> QED BY <1>2, <3>3
    <2>3. CASE InterruptAfterLoss(l, q)
      BY <1>4, <2>3 DEF InterruptAfterLoss
    <2> QED BY <1>9, <2>1, <2>2, <2>3
  <1>10. ASSUME NEW l \in issued, NEW q \in DirectIds, NEW class \in {"cancelled", "denied"},
                CancelWaiting(l, q, class)
         PROVE Q
    <2> DEFINE n == [T!Fail(dTurn[q].state, class) EXCEPT
                        !.permission = NoEffect, !.input = FALSE, !.token = l.token]
    <2>1. n.status = "failed"
      <3>1. dTurn[q].state \in States /\ l.token \in Nat /\ class \in T!Failure
        BY <1>1, IssuedLease DEF T!Failure
      <3> QED BY <3>1, WithdrawnState
    <2>2. dTurn' = [dTurn EXCEPT ![q].state = n]
      BY <1>10 DEF CancelWaiting
    <2> HIDE DEF n
    <2> QED BY <1>3, <2>1, <2>2
  <1>11. ASSUME NEW l \in issued, NEW q \in DirectIds, NEW f \in Asked, NEW op \in Operations,
                \/ \E revision \in 0..MaxSteps :
                      \/ AskPermission(l, q, f, op, revision)
                      \/ \E new \in Asked : Reissue(l, q, f, new, op, revision)
                \/ AllowProcess(l, q, f, op)
                \/ \E kind \in {"tool", "process"} : ExecuteApproved(l, q, f, op, kind)
         PROVE Q
    <2>1. CASE UNCHANGED dTurn
      BY <1>2, <2>1
    <2> QED BY <1>7, <1>11, <2>1
          DEF AskPermission, CreatePrepared, Reissue, AllowProcess, ExecuteApproved
  <1>12. ASSUME NEW q \in DirectIds, CreateDirectTurn(q) PROVE Q
    <2>1. T!Queued.status # "completed"
      BY DEF T!Queued, T!NoTurn
    <2>2. dTurn' = [dTurn EXCEPT ![q].state = T!Queued]
      BY <1>12 DEF CreateDirectTurn
    <2> QED BY <1>3, <2>1, <2>2
  <1>13. CASE Expire \/ EditTree \/ \E l \in issued : Release(l)
    BY <1>2, <1>13 DEF Expire, EditTree, Release
  <1> HIDE DEF Q
  <1> QED BY <1>5, <1>8, <1>9, <1>10, <1>11, <1>12, <1>13 DEF DirectNext

(* A turn is completed only on evidence about the last thing that it carried out, of
   the workspace as it is (record_verification_evidence, complete_verified). *)
THEOREM CompletionIsChecked == DirectSpec => CompletedIsChecked
  <1> DEFINE Checked ==
        \A t \in DirectIds :
          dTurn[t].state.status # "completed" /\ dTurn'[t].state.status = "completed" =>
             /\ dProof[t].passed /\ dProof[t].tree = dTree
             /\ \E i \in DOMAIN dLog :
                   /\ dLog[i].effect = dProof[t].effect
                   /\ \A j \in DOMAIN dLog : dLog[j].turn = t => j <= i
  <1>1. DirectInv /\ [DirectNext]_directVars => [Checked]_directVars
    <2> SUFFICES ASSUME DirectInv, DirectNext, NEW t \in DirectIds,
                        dTurn[t].state.status # "completed",
                        dTurn'[t].state.status = "completed"
                 PROVE /\ dProof[t].passed /\ dProof[t].tree = dTree
                       /\ \E i \in DOMAIN dLog :
                             /\ dLog[i].effect = dProof[t].effect
                             /\ \A j \in DOMAIN dLog : dLog[j].turn = t => j <= i
      OBVIOUS
    <2>1. PICK l \in issued : CompleteVerified(l, t)
      BY OnlyVerifiedCompletes
    <2>2. Current(t) /\ ProofFits(t)
      BY <2>1 DEF CompleteVerified, DirectInv
    <2> QED BY <2>2 DEF Current, ProofFits
  <1> QED BY <1>1, DirectStarts, DirectSteps, PTL DEF DirectSpec, CompletedIsChecked

-----------------------------------------------------------------------------
(* The components together *)

(* In the run that composes them each component behaves as its own specification says. *)
LEMMA ComponentSteps ==
    ASSUME [ContentionNext]_contentionVars
    PROVE  /\ [DirectNext]_directVars /\ [ServiceNext]_serviceVars /\ [FileNext]_fileVars
           /\ [CatalogNext]_catalogVars /\ [MailboxNext]_mailboxVars
           /\ [RemindersNext]_remindersVars
<1>1. CASE ContentionNext
  BY <1>1 DEF ContentionNext, Still
<1>2. CASE UNCHANGED contentionVars
  BY <1>2 DEF contentionVars
<1> QED BY <1>1, <1>2

LEMMA ComponentSpecs ==
    ContentionSpec => /\ DirectSpec /\ ServiceSpec /\ FileSpec
                      /\ CatalogSpec /\ MailboxSpec /\ RemindersSpec
<1>1. ContentionInit => /\ DirectInit /\ ServiceInit /\ FileInit
                        /\ CatalogInit /\ MailboxInit /\ RemindersInit
  BY DEF ContentionInit
<1> QED BY <1>1, ComponentSteps, PTL
    DEF ContentionSpec, DirectSpec, ServiceSpec, FileSpec, CatalogSpec, MailboxSpec, RemindersSpec

(* What waits in the memory of one process for the next turn - the queued prompts and the
   armed reminder - is neither lost nor used twice. *)
THEOREM WaitingSafety == ContentionSpec => []WaitingIsKept
<1>1. MailboxCorrect /\ RemindersCorrect => WaitingIsKept
  BY DEF WaitingIsKept
<1> QED BY <1>1, ComponentSpecs, MailboxSafety, RemindersSafety, PTL

(* The commands of the service take effect once and their answers agree, however many
   servers have the database. *)
THEOREM CommandsSafety == ContentionSpec => []ServiceCorrect
<1>1. CommandServiceCorrect => ServiceCorrect
  BY DEF ServiceCorrect
<1> QED BY <1>1, ComponentSpecs, ServiceSafety, PTL

(* No step takes a late report, completes a turn on an outdated verification, or discards a
   change of a file that was made before its check. *)
THEOREM NoStep == ContentionSpec => NoStaleStep
BY ComponentSpecs, ReportsAreFenced, CompletionIsChecked, WindowOnly, PTL DEF NoStaleStep
=============================================================================
