---------------------------- MODULE MCFallbackRouter ----------------------------
(* Instances of FallbackRouter for TLC. *)
EXTENDS FallbackRouter, TLC

CONSTANTS p1, p2

TwoHops == <<p1, p2>>
OneHop == <<p1>>

\* Nothing out of budget, or the first hop.
MaybeFirst == {{}, {p1}}
NoSkip == {{}}

RequestSymmetry == Permutations(Requests)

=============================================================================
