-------------------------------- MODULE MCGate --------------------------------
(***************************************************************************)
(* Gate for TLC: requests are interchangeable.                             *)
(***************************************************************************)
EXTENDS Gate, TLC

RequestSymmetry == Permutations(Requests)

=============================================================================
