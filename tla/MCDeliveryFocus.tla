-------------------------- MODULE MCDeliveryFocus --------------------------
(* Instances of ConversionDelivery in which a behaviour follows one log:   *)
(* it is not explored further once a second log is touched, or once the    *)
(* cutover, which decides about external logs, moves around another log.   *)
EXTENDS ConversionDelivery, FiniteSets, TLC

Followed == {l \in Logs : log[l].status # "absent" \/ job[l] # NoJob \/ prod[l].runs > 0 \/ prod[l].pc # "idle"}

OneLog ==
  /\ Cardinality(Followed) <= 1
  /\ Followed \subseteq ExternalLogs \/ used.switches = 0

(* Workers are interchangeable, and so are the operators, all of them owners. *)
Permuted == Permutations(Workers) \cup Permutations(Operators)
=============================================================================
