-------------------------------- MODULE Money --------------------------------
(***************************************************************************)
(* Amounts of money are natural numbers of some smallest unit, and a sum   *)
(* over a set is the number of units its members hold: counting units      *)
(* makes every fact about sums a fact about the cardinality of finite      *)
(* sets.                                                                   *)
(***************************************************************************)
EXTENDS Integers, FiniteSets

\* The units that the members of S hold under the assignment f.
Units(f, S) == UNION {{x} \X (1..f[x]) : x \in S}

\* The sum of f[x] over x \in S.
Total(f, S) == Cardinality(Units(f, S))

=============================================================================
