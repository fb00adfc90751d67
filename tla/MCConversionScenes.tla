----------------------- MODULE MCConversionScenes -----------------------
(* Small instances of ProviderConversion.  A behaviour is explored while it *)
(* plays one of two scenes: two occurrences inside the dedupe window, met by the *)
(* workers and by a fault, or a legacy purchase that two operators review. *)
EXTENDS ProviderConversion, TLC

CONSTANTS e1, e2, e3, w1, w2, o1, o2, m1, a1, a2, none

Pair == {{e1, e2}}

Permuted == Permutations({w1, w2}) \cup Permutations({a1, a2})

(* What a scene leaves out stays as it began. *)
Untouched(execs, status, procs) ==
  /\ \A e \in execs : decs[e] = <<>> /\ review[e].version <= 1 /\ exec[e] = [status |-> status, decision |-> 0, tech |-> "none"]
  /\ \A p \in procs : proc[p] = Idle

OnlyEligible ==
  /\ \A e \in Execs : \A i \in DOMAIN decs[e] : decs[e][i].outcome = "eligible"
  /\ \A p \in Procs : proc[p].res \notin {"observed", "blocked"}

WindowScene == Untouched(Legacy, "observed", Operators) /\ OnlyEligible /\ used.requests + used.faults < MaxRequests

ReviewScene == Untouched(Execs \ Legacy, "absent", Workers) /\ used.faults = 0

OneScene == WindowScene' \/ ReviewScene'
=============================================================================
