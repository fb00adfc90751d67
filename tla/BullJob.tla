------------------------------ MODULE BullJob ------------------------------
(***************************************************************************)
(* One BullMQ job, as the queue services of apps/api use it.  BullMQ is a  *)
(* library (package bullmq, not part of the repository): the operators     *)
(* below are what the code relies on when it adds a job under a fixed id,  *)
(* inspects, promotes or removes it, and when a worker takes, completes,   *)
(* fails or abandons it.  A completed job is removed (removeOnComplete),   *)
(* a job that used its last attempt is kept as "failed".                   *)
(***************************************************************************)
EXTENDS Naturals

CONSTANTS MaxAttempts,   \* the "attempts" option of queue.add
          MaxStalled     \* the worker's maxStalledCount (BullMQ default: 1)

ASSUME MaxAttemptsAssumption == MaxAttempts \in Nat \ {0}
ASSUME MaxStalledAssumption == MaxStalled \in Nat

JobStates == {"none", "waiting", "active", "delayed", "failed"}

Jobs == [state : JobStates, attempts : 0..MaxAttempts, stalls : 0..MaxStalled]

NoJob == [state |-> "none", attempts |-> 0, stalls |-> 0]

(* A job that will run again without anybody's help. *)
Live(j) == j.state \in {"waiting", "active", "delayed"}

(* queue.add with a job id: a no-op when a job of that id exists, whatever *)
(* its state, a kept failed job included.                                  *)
Add(j) == IF j.state = "none" THEN [NoJob EXCEPT !.state = "waiting"] ELSE j

(* A worker moves a waiting job to active and holds its lock. *)
Take(j) == [j EXCEPT !.state = "active"]

(* The backoff delay elapses, or job.promote() is called. *)
Promote(j) == [j EXCEPT !.state = "waiting"]

(* The processor threw: another attempt after the backoff, or the last one *)
(* was used.  An UnrecoverableError goes to failed at once.                *)
Fail(j) ==
  IF j.attempts + 1 < MaxAttempts
    THEN [j EXCEPT !.state = "delayed", !.attempts = @ + 1]
    ELSE [j EXCEPT !.state = "failed", !.attempts = MaxAttempts]

(* The lock of an active job expired: back to waiting, or failed when it   *)
(* stalled more than MaxStalled times.                                     *)
Stall(j) ==
  IF j.stalls < MaxStalled
    THEN [j EXCEPT !.state = "waiting", !.stalls = @ + 1]
    ELSE [j EXCEPT !.state = "failed"]
=============================================================================
