-------------------------- MODULE MCInboundScenes --------------------------
(* Instances of InboundDelivery in which a behaviour meets one kind of     *)
(* trouble: a fault; settings that change while the intake fails and the   *)
(* payload expires; or the same delivery received a second time.           *)
EXTENDS InboundDelivery, TLC

CONSTANTS d1, w1, w2, r1, r2, m1, none

VARIABLE scene

SceneInit == Init /\ scene \in {"faults", "settings", "receipts"}

InScene ==
  /\ UNCHANGED scene
  /\ scene # "faults" => used'.faults = 0
  /\ scene # "settings" =>
       /\ used'.deferred = 0 /\ used'.switches = 0
       /\ \A d \in Deliveries : row'[d].payload # "expired"
  /\ scene # "receipts" => used'.receipts <= 1

(* The next-state relation of InboundDelivery, one line per operation.     *)
SceneNext ==
  \/ \E r \in Receivers, d \in Deliveries : Receive(r, d) /\ InScene
  \/ \E r \in Receivers : RequestStep(r) /\ InScene
  \/ \E m \in Maintainers : MaintenanceStep(m) /\ InScene
  \/ \E m \in Maintainers, d \in Deliveries : SelectUnavailable(m, d) /\ InScene
  \/ \E m \in Maintainers, d \in Deliveries : RecoverSelect(m, d) /\ InScene
  \/ \E a \in Agents : AgentStep(a) /\ InScene
  \/ \E a \in Agents : AgentFails(a) /\ InScene
  \/ \E w \in Workers : WorkerStep(w) /\ InScene
  \/ \E w \in Workers : WorkerThrows(w) /\ InScene
  \/ \E w \in Workers : IntakeDeferred(w) /\ InScene
  \/ \E w \in Workers : WorkerCrashes(w) /\ InScene
  \/ \E w \in Workers : LoseLock(w) /\ InScene
  \/ \E w \in Workers, d \in Deliveries : TakeJob(w, d) /\ InScene
  \/ \E d \in Deliveries : BackoffElapses(d) /\ InScene
  \/ \E d \in Deliveries : DetectStalled(d) /\ InScene
  \/ \E d \in Deliveries : ClearExpiredPayload(d) /\ InScene
  \/ \E d \in Deliveries : GraceElapses(d) /\ InScene
  \/ \E d \in Deliveries : ClaimAges(d) /\ InScene
  \/ \E d \in Deliveries : PayloadExpires(d) /\ InScene
  \/ \E c \in Connections : SwitchConnection(c) /\ InScene

SceneSpec == SceneInit /\ [][SceneNext]_<<vars, scene>> /\ Fairness
=============================================================================
