--------------------------- MODULE BullJobProofs ---------------------------
(***************************************************************************)
(* Facts about BullJob, for every number of attempts and stalls.           *)
(***************************************************************************)
EXTENDS BullJob, TLAPS

(* Every operation of the queue yields a job again. *)
LEMMA JobTyping ==
  ASSUME NEW j \in Jobs
  PROVE  /\ NoJob \in Jobs
         /\ Add(j) \in Jobs /\ Add(NoJob) \in Jobs
         /\ Take(j) \in Jobs /\ Promote(j) \in Jobs
         /\ Fail(j) \in Jobs /\ Stall(j) \in Jobs
<1> USE MaxAttemptsAssumption, MaxStalledAssumption DEF Jobs, JobStates
<1>1. NoJob \in Jobs
  BY DEF NoJob
<1>2. Add(j) \in Jobs /\ Add(NoJob) \in Jobs
  BY <1>1 DEF NoJob, Add
<1>3. Take(j) \in Jobs /\ Promote(j) \in Jobs
  BY DEF Take, Promote
<1>4. Fail(j) \in Jobs
  <2>1. j = [state |-> j.state, attempts |-> j.attempts, stalls |-> j.stalls]
    OBVIOUS
  <2>2. j.state \in JobStates /\ j.attempts \in 0..MaxAttempts /\ j.stalls \in 0..MaxStalled
    OBVIOUS
  <2>3. CASE j.attempts + 1 < MaxAttempts
    <3>1. Fail(j) = [state |-> "delayed", attempts |-> j.attempts + 1, stalls |-> j.stalls]
      BY <2>1, <2>3 DEF Fail
    <3>2. j.attempts + 1 \in 0..MaxAttempts
      BY <2>2, <2>3
    <3> QED
      BY <3>1, <3>2, <2>2
  <2>4. CASE ~(j.attempts + 1 < MaxAttempts)
    <3>1. Fail(j) = [state |-> "failed", attempts |-> MaxAttempts, stalls |-> j.stalls]
      BY <2>1, <2>4 DEF Fail
    <3>2. MaxAttempts \in 0..MaxAttempts
      OBVIOUS
    <3> QED
      BY <3>1, <3>2, <2>2
  <2> QED
    BY <2>3, <2>4
<1>5. Stall(j) \in Jobs
  <2>1. j = [state |-> j.state, attempts |-> j.attempts, stalls |-> j.stalls]
    OBVIOUS
  <2>2. j.state \in JobStates /\ j.attempts \in 0..MaxAttempts /\ j.stalls \in 0..MaxStalled
    OBVIOUS
  <2>3. CASE j.stalls < MaxStalled
    <3>1. Stall(j) = [state |-> "waiting", attempts |-> j.attempts, stalls |-> j.stalls + 1]
      BY <2>1, <2>3 DEF Stall
    <3>2. j.stalls + 1 \in 0..MaxStalled
      BY <2>2, <2>3
    <3> QED
      BY <3>1, <3>2, <2>2
  <2>4. CASE ~(j.stalls < MaxStalled)
    <3>1. Stall(j) = [state |-> "failed", attempts |-> j.attempts, stalls |-> j.stalls]
      BY <2>1, <2>4 DEF Stall
    <3> QED
      BY <3>1, <2>2
  <2> QED
    BY <2>3, <2>4
<1> QED
  BY <1>1, <1>2, <1>3, <1>4, <1>5

(* What the operations do to the state and to the count of stalls.  A job  *)
(* that never stalled is handed out again when its worker dies, as long as *)
(* the queue allows one stall.                                             *)
LEMMA JobFacts ==
  ASSUME NEW j \in Jobs
  PROVE  /\ Take(j).state = "active" /\ Take(j).stalls = j.stalls
         /\ Promote(j).state = "waiting" /\ Promote(j).stalls = j.stalls
         /\ Fail(j).state \in {"delayed", "failed"} /\ Fail(j).stalls = j.stalls
         /\ Stall(j).state \in {"waiting", "failed"}
         /\ j.stalls = 0 /\ MaxStalled >= 1 => Stall(j).state = "waiting"
         /\ j.state # "none" => Add(j) = j
         /\ j.state = "none" => Add(j).state = "waiting" /\ Add(j).stalls = 0
         /\ NoJob.state = "none" /\ NoJob.stalls = 0
<1> USE MaxAttemptsAssumption, MaxStalledAssumption DEF Jobs, JobStates
<1>1. j = [state |-> j.state, attempts |-> j.attempts, stalls |-> j.stalls]
  OBVIOUS
<1>2. j.attempts \in Nat /\ j.stalls \in Nat
  OBVIOUS
<1>3. /\ Take(j).state = "active" /\ Take(j).stalls = j.stalls
      /\ Promote(j).state = "waiting" /\ Promote(j).stalls = j.stalls
  BY DEF Take, Promote
<1>4. Fail(j).state \in {"delayed", "failed"} /\ Fail(j).stalls = j.stalls
  <2>1. CASE j.attempts + 1 < MaxAttempts
    <3>1. Fail(j) = [state |-> "delayed", attempts |-> j.attempts + 1, stalls |-> j.stalls]
      BY <1>1, <2>1 DEF Fail
    <3> QED
      BY <3>1
  <2>2. CASE ~(j.attempts + 1 < MaxAttempts)
    <3>1. Fail(j) = [state |-> "failed", attempts |-> MaxAttempts, stalls |-> j.stalls]
      BY <1>1, <2>2 DEF Fail
    <3> QED
      BY <3>1
  <2> QED
    BY <2>1, <2>2
<1>5. /\ Stall(j).state \in {"waiting", "failed"}
      /\ j.stalls = 0 /\ MaxStalled >= 1 => Stall(j).state = "waiting"
  <2>1. CASE j.stalls < MaxStalled
    <3>1. Stall(j) = [state |-> "waiting", attempts |-> j.attempts, stalls |-> j.stalls + 1]
      BY <1>1, <2>1 DEF Stall
    <3> QED
      BY <3>1
  <2>2. CASE ~(j.stalls < MaxStalled)
    <3>1. Stall(j) = [state |-> "failed", attempts |-> j.attempts, stalls |-> j.stalls]
      BY <1>1, <2>2 DEF Stall
    <3>2. ~(j.stalls = 0 /\ MaxStalled >= 1)
      BY <1>2, <2>2
    <3> QED
      BY <3>1, <3>2
  <2> QED
    BY <2>1, <2>2
<1>6. /\ j.state # "none" => Add(j) = j
      /\ j.state = "none" => Add(j).state = "waiting" /\ Add(j).stalls = 0
      /\ NoJob.state = "none" /\ NoJob.stalls = 0
  BY DEF Add, NoJob
<1> QED
  BY <1>3, <1>4, <1>5, <1>6
=============================================================================
