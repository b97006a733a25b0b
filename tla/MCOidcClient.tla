---------------------------- MODULE MCOidcClient ----------------------------
(* OidcClient with two calls at once, so that an old answer can be stored  *)
(* between the other call's discovery and its check.                       *)
EXTENDS OidcClient, TLC

CONSTANTS c1, c2

MCCalls == {c1, c2}

Symmetry == Permutations(MCCalls)
=============================================================================
