------------------------ MODULE MCProviderConversion ------------------------
(* Model values for ProviderConversion. *)
EXTENDS ProviderConversion, TLC

CONSTANTS e1, e2, w1, w2, o1, o2, m1, a1, a2, none

Pair == {{e1, e2}}

Permuted == Permutations({w1, w2}) \cup Permutations({a1, a2})
=============================================================================
