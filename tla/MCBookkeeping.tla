---------------------------- MODULE MCBookkeeping ----------------------------
(***************************************************************************)
(* Bookkeeping for TLC: requests are interchangeable, and an operator runs *)
(* one script at a time.  The view drops the rows lost, which no property  *)
(* of its run reads but TypeOK, and the answers: no step depends on them,  *)
(* and each is set for good together with the charge, so the two           *)
(* properties that read them stand in their place.                         *)
(***************************************************************************)
EXTENDS Bookkeeping, TLC

RequestSymmetry == Permutations(Requests)

\* In place of the answers what the properties say of them.
WithoutGhosts ==
  <<pc, provider, charge, outcome, claimed, unsettled, ledger, rows, scripts, faults,
    overlap, low, OverrunsAreUnusual, UnderchargesAreUntold>>

OneScriptAtATime == reconcile.at = "reading" => purge.at \in {"idle", "ended"}

=============================================================================
