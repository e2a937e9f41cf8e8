----------------------------- MODULE TurnState -----------------------------
(***************************************************************************)
(* The turn state machine of latte-core (state.rs, TurnState::transition). *)
(* A transition is a guard Can<T>(t) and a successor <T>(t); a transition  *)
(* the code rejects is one whose guard is FALSE.  Every successor advances *)
(* the turn revision by one, which is what the optimistic concurrency      *)
(* checks of the storage layer rest on.                                    *)
(*                                                                         *)
(* Data is abstracted to what decides control: a permission request is     *)
(* known by the effect it is about (their identifiers are equal in the     *)
(* session path), an input request by its presence, a failure by its       *)
(* class, and the handoff and the texts are left out.  `token' is the      *)
(* lease_token column that the storage layer keeps beside the state.       *)
(***************************************************************************)
EXTENDS Naturals

CONSTANTS Effects,   \* identifiers of effects, and so of permission requests
          None       \* no pending permission

ASSUME NoneAssumption == None \notin Effects

Status == {"none", "queued", "running", "waiting_permission", "waiting_input",
           "cancelling", "interrupted", "failed", "completed"}

Failure == {"none", "retryable", "terminal", "denied", "cancelled"}

TurnRecord == [status: Status, revision: Nat, permission: Effects \cup {None},
               input: BOOLEAN, failure: Failure, token: Nat]

(* TurnStatus::is-terminal as the recovery code spells it out. *)
Terminal == {"completed", "failed", "interrupted"}

NoTurn == [status |-> "none", revision |-> 0, permission |-> None,
           input |-> FALSE, failure |-> "none", token |-> 0]

Queued == [NoTurn EXCEPT !.status = "queued"]

(* next.revision = self.revision + 1, then next.status = s. *)
Advance(t, s) == [t EXCEPT !.status = s, !.revision = @ + 1]

CanStart(t) == t.status = "queued"
Start(t) == Advance(t, "running")

CanRequestPermission(t) == t.status = "running"
RequestPermission(t, e) ==
    [Advance(t, "waiting_permission") EXCEPT !.permission = e]

CanResolvePermission(t, e) ==
    t.status = "waiting_permission" /\ t.permission = e
AllowPermission(t) == [Advance(t, "running") EXCEPT !.permission = None]
(* A fault, for comparison: the class names the request, not the failure. *)
DenyWithoutClass(t) ==
    [Advance(t, "failed") EXCEPT !.permission = None, !.failure = t.permission]

DenyPermission(t) ==
    [Advance(t, "failed") EXCEPT !.permission = None, !.failure = "denied"]

CanRequestInput(t) == t.status = "running"
RequestInput(t) == [Advance(t, "waiting_input") EXCEPT !.input = TRUE]

CanProvideInput(t) == t.status = "waiting_input" /\ t.input
ProvideInput(t) == [Advance(t, "running") EXCEPT !.input = FALSE]

CanCancel(t) ==
    t.status \in {"queued", "running", "waiting_permission", "waiting_input"}
Cancel(t) ==
    [Advance(t, "cancelling") EXCEPT !.input = FALSE, !.permission = None]

CanInterrupt(t) == t.status \in {"running", "cancelling"}
Interrupt(t) == Advance(t, "interrupted")

CanFail(t) == t.status \in {"queued", "running", "cancelling"}
Fail(t, class) == [Advance(t, "failed") EXCEPT !.failure = class]

CanComplete(t) == t.status = "running"
(* verification_passed: no verification is required, or all of its evidence is
   there and passed; every caller in the engine has made sure of it. *)
Complete(t, passed) ==
    IF passed THEN Advance(t, "completed")
    ELSE [Advance(t, "failed") EXCEPT !.failure = "terminal"]
=============================================================================
