------------------------------ MODULE MCSignIn ------------------------------
(* SignIn with a few browsers, requests at once and providers. *)
EXTENDS SignIn, TLC

CONSTANTS b1, b2, s1, s2, p1, p2, u1

MCBrowsers == {b1, b2}
MCSlots == {s1, s2}
MCProviders == {p1, p2}

Symmetry == Permutations(MCSlots)
=============================================================================
