---------------------------- MODULE Verification ----------------------------
(***************************************************************************)
(* What a turn must show before it may complete (latte-engine, lib.rs,     *)
(* stable_completion_snapshot to complete_session_verified; storage.rs,    *)
(* record_verification_evidence and CompleteVerified; latte-headless,      *)
(* session.rs, begin_verification and finish_verification).                *)
(*                                                                         *)
(* A manifest is read file by file while editors, build tools and other    *)
(* processes write to the same workspace.  A file is its version: each     *)
(* write makes a new one, so two digests agree exactly when no write came  *)
(* between them.  The manifest passes some files over (.gitignore, .git,   *)
(* .latte, target, the database): no completion ever looks at them, and of *)
(* them only what the turn wrote is kept.                                  *)
(***************************************************************************)
EXTENDS Naturals, Sequences, FiniteSets

CONSTANTS Tracked,       \* paths of the workspace that a manifest lists
          Skipped,      \* and those that workspace_manifest passes over
          MaxEdits,     \* bound: writes to the workspace
          MaxSamples    \* rounds of stable_completion_snapshot (3)

ASSUME VerificationAssumption ==
    /\ IsFiniteSet(Tracked)
    /\ Tracked \cap Skipped = {}
    /\ MaxEdits \in Nat
    /\ MaxSamples \in Nat \ {0}

VARIABLES tree,      \* the workspace: the version of each listed file
          edits,     \* writes so far
          ledger,    \* durable: the turn, its effect epoch and its evidence
          scan,      \* the coordinator: where it is and what it has read
          own,       \* history: files this turn's tools wrote
          seen,      \* history: trees since the command ended
          steady     \* history: no write between the two samples

verificationVars == <<tree, edits, ledger, scan, own, seen, steady>>

Trees == [Tracked -> 0..MaxEdits]

Nowhere == [f \in {} |-> 0]

Idle == [pc |-> "none", read |-> Nowhere, first |-> Nowhere, tries |-> 0, passed |-> FALSE]

Evidences ==
    [revision : Nat, epoch : Nat, passed : BOOLEAN, digest : Trees]

VerificationTypeOK ==
    /\ tree \in Trees
    /\ edits \in 0..MaxEdits
    /\ ledger.life \in {"running", "permission", "completed", "failed", "interrupted", "denied"}
    /\ ledger.baseline \in Trees
    /\ \A i \in DOMAIN ledger.evidence : ledger.evidence[i] \in Evidences
    /\ Len(ledger.evidence) <= 1
    /\ scan.tries < MaxSamples
    /\ ledger.life = "permission" => scan = Idle

VerificationInit ==
    /\ tree = [f \in Tracked |-> 0]
    /\ edits = 0
    /\ ledger = [life |-> "running", revision |-> 1, epoch |-> 0, baseline |-> tree,
                 evidence |-> <<>>, certified |-> <<>>]
    /\ scan = [Idle EXCEPT !.pc = "tools"]
    /\ own = {}
    /\ seen = {tree}
    /\ steady = TRUE

-----------------------------------------------------------------------------
(* The completion, once there is evidence, has yet to read the file. *)
ToBeRead(f) ==
    \/ scan.pc \in {"record", "certify1"}
    \/ scan.pc = "certify2" /\ f \notin DOMAIN scan.read

(* A write to the workspace, and what it spoils. *)
Write(f) ==
    /\ edits < MaxEdits
    /\ edits' = edits + 1
    /\ tree' = [tree EXCEPT ![f] = edits + 1]
    /\ seen' = seen \cup {tree'}
    /\ steady' = (steady /\ ~ToBeRead(f))

(* Somebody else writes a file. *)
OutsideEdit(f) ==
    /\ Write(f)
    /\ UNCHANGED <<ledger, scan, own>>

(* An effect of this turn writes a file: start_session_effect raises the
   epoch, and the baseline stays what it was when the turn was created. *)
ToolEdit(f) ==
    /\ scan.pc = "tools"
    /\ ledger.life = "running"
    /\ Write(f)
    /\ own' = own \cup {f}
    /\ ledger' = [ledger EXCEPT !.epoch = @ + 1, !.revision = @ + 1]
    /\ UNCHANGED scan

(* An effect of this turn writes a file that no manifest lists. *)
SkippedEdit(f) ==
    /\ scan.pc = "tools"
    /\ ledger.life = "running"
    /\ edits < MaxEdits
    /\ edits' = edits + 1
    /\ own' = own \cup {f}
    /\ ledger' = [ledger EXCEPT !.epoch = @ + 1, !.revision = @ + 1]
    /\ UNCHANGED <<tree, scan, seen, steady>>

(* The provider's final text: the changed files are asked for. *)
FinalText ==
    /\ scan.pc = "tools"
    /\ scan' = [scan EXCEPT !.pc = "changed"]
    /\ UNCHANGED <<tree, edits, ledger, own, seen, steady>>

-----------------------------------------------------------------------------
Scanning == {"changed", "evidence1", "evidence2", "certify1", "certify2"}

Stop(life) ==
    /\ scan' = Idle
    /\ ledger' = [ledger EXCEPT !.life = IF @ = "running" THEN life ELSE @]

(* workspace_manifest reads one listed file after the other. *)
ReadFile(f) ==
    /\ scan.pc \in Scanning
    /\ f \in Tracked \ DOMAIN scan.read
    /\ scan' = [scan EXCEPT !.read = [g \in DOMAIN @ \cup {f} |-> IF g = f THEN tree[f] ELSE @[g]]]
    /\ UNCHANGED <<tree, edits, ledger, own, seen, steady>>

(* One round of stable_completion_snapshot is over without two equal reads. *)
NextSample(phase) ==
    IF scan.tries + 1 >= MaxSamples
    THEN Stop("interrupted")
    ELSE /\ scan' = [scan EXCEPT !.pc = phase, !.read = Nowhere, !.first = Nowhere, !.tries = @ + 1]
         /\ UNCHANGED ledger

FirstRead(pc) == IF pc \in {"evidence1", "evidence2"} THEN "evidence1" ELSE "certify1"

(* A file is written while it is read: the read is refused, which costs the
   sampling one round and the comparison with the baseline the turn. *)
UnstableFile(f) ==
    /\ scan.pc \in Scanning
    /\ f \in Tracked \ DOMAIN scan.read
    /\ Write(f)
    /\ IF scan.pc = "changed"
       THEN Stop("interrupted")
       ELSE NextSample(FirstRead(scan.pc))
    /\ UNCHANGED own

Whole == DOMAIN scan.read = Tracked

(* stable_completion_snapshot: the first of two reads. *)
FirstReadDone ==
    /\ scan.pc \in {"evidence1", "certify1"}
    /\ Whole
    /\ scan' = [scan EXCEPT !.pc = IF @ = "evidence1" THEN "evidence2" ELSE "certify2",
                            !.first = scan.read, !.read = Nowhere]
    /\ UNCHANGED <<tree, edits, ledger, own, seen, steady>>

(* stable_completion_snapshot: the second read agrees, or another round. *)
SecondReadDone ==
    /\ scan.pc \in {"evidence2", "certify2"}
    /\ Whole
    /\ IF scan.read = scan.first
       THEN /\ scan' = [scan EXCEPT !.pc = IF @ = "evidence2" THEN "record" ELSE "certify"]
            /\ UNCHANGED ledger
       ELSE NextSample(FirstRead(scan.pc))
    /\ UNCHANGED <<tree, edits, own, seen, steady>>

-----------------------------------------------------------------------------
(* session_changed_files: the paths that differ from the baseline. *)
ChangedFiles == {f \in Tracked : scan.read[f] # ledger.baseline[f]}

(* run_provider_step: nothing changed, so no verification is asked for. *)
CompleteUnchanged ==
    /\ scan.pc = "changed"
    /\ Whole
    /\ ChangedFiles = {}
    /\ Stop("completed")
    /\ UNCHANGED <<tree, edits, own, seen, steady>>

(* verification_descriptor: files changed and there is no plan to check
   them with; the error leaves the turn to the recovery. *)
NoPlan ==
    /\ scan.pc = "changed"
    /\ Whole
    /\ ChangedFiles # {}
    /\ Stop("interrupted")
    /\ UNCHANGED <<tree, edits, own, seen, steady>>

StartCheck ==
    /\ ledger' = [ledger EXCEPT !.life = "running", !.epoch = @ + 1, !.revision = @ + 2]
    /\ scan' = [Idle EXCEPT !.pc = "run"]

(* begin_verification: the policy allows the command, or asks for it. *)
BeginVerification ==
    /\ scan.pc = "changed"
    /\ Whole
    /\ ChangedFiles # {}
    /\ ledger.life = "running"
    /\ \/ StartCheck
       \/ /\ ledger' = [ledger EXCEPT !.life = "permission", !.revision = @ + 1]
          /\ scan' = Idle
    /\ UNCHANGED <<tree, edits, own, seen, steady>>

(* resolve_permission for the verification effect. *)
ResolveVerification ==
    /\ ledger.life = "permission"
    /\ \/ StartCheck
       \/ /\ ledger' = [ledger EXCEPT !.life = "denied"]
          /\ UNCHANGED scan
    /\ UNCHANGED <<tree, edits, own, seen, steady>>

(* execute_and_observe_effect: the command ends, its result is recorded,
   and record_session_verification starts to sample. *)
CheckEnds ==
    /\ scan.pc = "run"
    /\ ledger.life = "running"
    /\ ledger' = [ledger EXCEPT !.revision = @ + 1]
    /\ \E passed \in BOOLEAN : scan' = [scan EXCEPT !.pc = "evidence1", !.passed = passed]
    /\ seen' = {tree}
    /\ steady' = TRUE
    /\ UNCHANGED <<tree, edits, own>>

(* record_verification_evidence, fenced by the lease, the revision and the
   epoch; a command that failed ends the turn. *)
RecordEvidence ==
    /\ scan.pc = "record"
    /\ IF ledger.life # "running"
       THEN Stop("interrupted")
       ELSE /\ ledger' = [ledger EXCEPT
                 !.evidence = <<[revision |-> ledger.revision, epoch |-> ledger.epoch,
                                 passed |-> scan.passed, digest |-> scan.read]>>,
                 !.life = IF scan.passed THEN @ ELSE "failed"]
            /\ scan' = IF scan.passed
                       THEN [Idle EXCEPT !.pc = "certify1", !.passed = TRUE]
                       ELSE Idle
    /\ UNCHANGED <<tree, edits, own, seen, steady>>

(* A fault, for comparison: the evidence is not held against the tree. *)
CurrentEvidenceOfTurn(e) ==
    /\ e.revision = ledger.revision
    /\ e.epoch = ledger.epoch
    /\ e.passed

(* CompleteVerified: the last evidence must be of this revision and epoch,
   passed, and of the tree that was just sampled. *)
CurrentEvidence(e) ==
    /\ e.revision = ledger.revision
    /\ e.epoch = ledger.epoch
    /\ e.passed
    /\ e.digest = scan.read

(* complete_session_verified. *)
CompleteVerified ==
    /\ scan.pc = "certify"
    /\ IF /\ ledger.life = "running"
          /\ \E i \in DOMAIN ledger.evidence : CurrentEvidence(ledger.evidence[i])
       THEN /\ ledger' = [ledger EXCEPT !.life = "completed", !.certified = <<scan.read>>]
            /\ scan' = Idle
       ELSE Stop("interrupted")
    /\ UNCHANGED <<tree, edits, own, seen, steady>>

(* Another process finds the lease expired and interrupts the turn. *)
Recovered ==
    /\ ledger.life = "running"
    /\ ledger' = [ledger EXCEPT !.life = "interrupted", !.revision = @ + 1]
    /\ UNCHANGED <<tree, edits, scan, own, seen, steady>>

-----------------------------------------------------------------------------
VerificationNext ==
    \/ \E f \in Tracked : OutsideEdit(f) \/ ToolEdit(f) \/ ReadFile(f) \/ UnstableFile(f)
    \/ \E f \in Skipped : SkippedEdit(f)
    \/ FinalText
    \/ FirstReadDone
    \/ SecondReadDone
    \/ CompleteUnchanged
    \/ NoPlan
    \/ BeginVerification
    \/ ResolveVerification
    \/ CheckEnds
    \/ RecordEvidence
    \/ CompleteVerified
    \/ Recovered

VerificationSpec == VerificationInit /\ [][VerificationNext]_verificationVars

-----------------------------------------------------------------------------
(* The digest in the recorded evidence was the content of all listed files at
   one instant after the command ended, although the files are read one
   after the other and others write meanwhile. *)
EvidenceIsReal ==
    \A i \in DOMAIN ledger.evidence : ledger.evidence[i].digest \in seen

(* Nothing was written between the sample that the evidence carries and the
   sample that the completion takes: a write that the completion has yet to
   read makes it refuse. *)
EvidenceIsCurrent ==
    \A i \in DOMAIN ledger.certified :
        /\ steady
        /\ ledger.evidence[i].digest = ledger.certified[i]

(* A turn that completes without evidence has written at most files that the
   manifest passes over (session_changed_files, workspace_manifest): what it
   wrote elsewhere is found, although the reading of the manifest interleaves
   with the writes of others. *)
NoUnverifiedEdit ==
    ledger.life = "completed" /\ ledger.certified = <<>> => own \subseteq Skipped

(* The invariants of verification together. *)
VerificationCorrect ==
    VerificationTypeOK /\ EvidenceIsReal /\ EvidenceIsCurrent /\ NoUnverifiedEdit
=============================================================================
