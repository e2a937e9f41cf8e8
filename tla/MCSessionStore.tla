--------------------------- MODULE MCSessionStore ---------------------------
(* SessionStore on a small instance. *)
EXTENDS SessionStore, TLC

Symmetry == Permutations(Effects)
=============================================================================
