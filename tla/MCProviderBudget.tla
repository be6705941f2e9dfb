--------------------------- MODULE MCProviderBudget ---------------------------
(***************************************************************************)
(* ProviderBudget for TLC: requests are interchangeable.                   *)
(***************************************************************************)
EXTENDS ProviderBudget, TLC

RequestSymmetry == Permutations(Requests)

=============================================================================
