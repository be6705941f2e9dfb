----------------------------- MODULE MCKeyBudget -----------------------------
(***************************************************************************)
(* KeyBudget for TLC: requests are interchangeable.                        *)
(***************************************************************************)
EXTENDS KeyBudget, TLC

RequestSymmetry == Permutations(Requests)

=============================================================================
