---------------------------- MODULE EffectLedger ----------------------------
(***************************************************************************)
(* What a session promises about external effects (tool calls that touch   *)
(* the world), without turns, revisions, leases or crashes:                *)
(*                                                                         *)
(*   - an effect runs only once it is authorized, by policy or by the user;*)
(*   - it runs at most once, and one at a time;                            *)
(*   - one that was voided never runs;                                     *)
(*   - an outcome that is not known is admitted, never guessed, and once   *)
(*     there is one nothing else runs in this session, not even after it   *)
(*     has been acknowledged.                                              *)
(*                                                                         *)
(* SessionStore implements this specification.                             *)
(***************************************************************************)
CONSTANT Effects

VARIABLE st    \* the state of every effect

State == {"new", "asked", "authorized", "running", "done", "void", "unknown",
          "acknowledged"}

Init == st = [e \in Effects |-> "new"]

Become(e, s) == st' = [st EXCEPT ![e] = s]

(* Nothing runs and nothing is in doubt. *)
Quiet ==
    \A f \in Effects : st[f] \notin {"running", "unknown", "acknowledged"}

Propose(e) ==
    /\ st[e] = "new"
    /\ Quiet
    /\ Become(e, "authorized") \/ Become(e, "asked")

Grant(e) == st[e] = "asked" /\ Become(e, "authorized")

Void(e) == st[e] \in {"asked", "authorized"} /\ Become(e, "void")

Begin(e) == st[e] = "authorized" /\ Quiet /\ Become(e, "running")

End(e) == st[e] = "running" /\ Become(e, "done")

Lose(e) == st[e] = "running" /\ Become(e, "unknown")

Acknowledge(e) == st[e] = "unknown" /\ Become(e, "acknowledged")

Next ==
    \E e \in Effects :
        \/ Propose(e) \/ Grant(e) \/ Void(e) \/ Begin(e)
        \/ End(e) \/ Lose(e) \/ Acknowledge(e)

Spec == Init /\ [][Next]_st
=============================================================================
