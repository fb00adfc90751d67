------------------------- MODULE MCInboundDelivery -------------------------
(* Model values for InboundDelivery. *)
EXTENDS InboundDelivery, TLC

CONSTANTS d1, w1, w2, r1, r2, m1, m2, none

Permuted == Permutations(Workers) \cup Permutations(Receivers) \cup Permutations(Maintainers)
=============================================================================
