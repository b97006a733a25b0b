---------------------------- MODULE MCQuerySpans ----------------------------
(* QuerySpans with a short queue and more queries than it holds.           *)
EXTENDS QuerySpans, TLC

CONSTANTS a, b

MCSqls == {a, b}

Symmetry == Permutations(MCSqls)
=============================================================================
