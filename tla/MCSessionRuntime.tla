------------------------- MODULE MCSessionRuntime -------------------------
(* SessionRuntime for TLC: coordinators are interchangeable. *)
EXTENDS SessionRuntime, TLC

CoordSymmetry == Permutations(Coords)
=============================================================================
