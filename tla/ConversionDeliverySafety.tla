----------------------- MODULE ConversionDeliverySafety -----------------------
(***************************************************************************)
(* Proofs of the safety of ConversionDelivery, for every value of its      *)
(* constants: no two senders on one queued log and, when operators retry   *)
(* transient failures only, "sent" is final and acknowledged once.         *)
(***************************************************************************)
EXTENDS ConversionDeliveryProofs

(***************************************************************************)
(* No two senders on one queued log.  What keeps them apart is the lock of *)
(* the job: a busy worker's job is active, no two workers hold one job,    *)
(* and handlers only send test events.                                     *)
(***************************************************************************)
JobLock ==
  /\ \A w \in Workers : Busy(w) => job[On(w)].state = "active"
  /\ \A v, w \in Workers : v # w /\ Busy(v) /\ Busy(w) => On(v) # On(w)
  /\ \A h \in Handlers : Busy(h) => On(h) \in ManualLogs

(***************************************************************************)
(* Why "sent" is final when operators retry transient failures only.       *)
(***************************************************************************)

(* A sender that has yet to write the row. *)
PreWrite(s) == sender[s].pc \in {"load", "own", "archive", "post", "write"}

(* Nobody but perhaps a sender has met the log yet. *)
Fresh(l) == job[l].state = "none" /\ \A o \in Operators : op[o].log # l

(* A test event has no producer, and before it is recorded no sender. *)
ManualAlone ==
  \A l \in ManualLogs :
    /\ prod[l].pc = "idle"
    /\ log[l].status = "absent" => Fresh(l) /\ \A s \in Senders : On(s) # l

(* A handler that has yet to write the row is alone with a ready row. *)
HandlerAlone ==
  \A h \in Handlers : PreWrite(h) =>
    Ready(On(h)) /\ Fresh(On(h)) /\ \A t \in Senders : t # h => On(t) # On(h)

(* Who is about to post or write works on a row that can be overwritten. *)
CommittedUnsent ==
  \A s \in Senders : Committed(s) => log[On(s)].status \notin {"absent", "imported", "sent"}

(* Operators restore nothing but a transient failure. *)
SeenTransient ==
  \A o \in Operators : op[o].pc # "idle" => op[o].seen = Row("error", "network")

(* The snapshot of a historical event is never out of date. *)
PromotionCurrent ==
  \A l \in Logs :
    prod[l].pc = "write" /\ prod[l].snap = "imported" => log[l].status = "imported"

SendSafe ==
  TypeOK /\ JobLock /\ ManualAlone /\ HandlerAlone /\ CommittedUnsent
         /\ SeenTransient /\ PromotionCurrent

(* An acknowledgement is on the row, or held by the sender about to write  *)
(* it, unless a fault lost it.                                             *)
AckHeld ==
  used.faults = 0 =>
    \A l \in Logs : \/ acked[l] = 0
                    \/ /\ acked[l] = 1
                       /\ \/ log[l].status = "sent"
                          \/ \E s \in Senders : On(s) = l /\ sender[s].pc = "write"
                                                /\ sender[s].result = "sent"

(* A step inside sendReadyEvent moves its sender only, and not off its log. *)
LEMMA GotoEffect ==
  ASSUME TypeOK, NEW s \in Senders, Busy(s), NEW pc \in SenderPCs, NEW r, Goto(s, pc, r)
  PROVE  /\ sender'[s].pc = pc /\ sender'[s].result = r
         /\ \A t \in Senders : t # s => sender'[t] = sender[t]
         /\ \A t \in Senders : On(t)' = On(t) /\ Busy(t)' = Busy(t)
BY DEF TypeOK, Goto, On, Busy, SenderPCs

(* A sender that becomes idle lets go of its log; the others stay. *)
LEMMA IdleEffect ==
  ASSUME TypeOK, NEW s \in Senders, sender' = [sender EXCEPT ![s] = Idle]
  PROVE  /\ sender'[s].pc = "idle" /\ ~Busy(s)' /\ On(s)' = NoLog
         /\ \A t \in Senders : t # s => /\ sender'[t] = sender[t]
                                   /\ On(t)' = On(t) /\ Busy(t)' = Busy(t)
BY DEF TypeOK, On, Busy, Idle

(* A sender is on a log exactly when it is busy. *)
LEMMA OnBusy ==
  ASSUME TypeOK, NEW s \in Senders
  PROVE  /\ Busy(s) => On(s) \in Logs
         /\ ~Busy(s) => On(s) = NoLog
         /\ sender[s].pc \in SenderPCs \cup {"idle"}
BY DEF TypeOK, On, Busy, SenderRecs, Idle, SenderPCs

LEMMA JobLockInit == Init => JobLock
BY DEF Init, JobLock, Busy, Idle, Senders

(* Only a step of a sender or of a job can disturb the lock. *)
LEMMA JobLockNext ==
  ASSUME TypeOK, JobLock, [Next]_vars
  PROVE  JobLock'
<1> USE DeliveryAssumption
<1>0. ASSUME UNCHANGED <<sender, job>> PROVE JobLock'
  BY <1>0 DEF JobLock, Busy, On
<1>g. ASSUME NEW s \in Senders, Busy(s), NEW pc \in SenderPCs, NEW r, Goto(s, pc, r), UNCHANGED job
      PROVE  JobLock'
  BY <1>g, GotoEffect DEF JobLock, Senders
<1>j. ASSUME NEW l \in Logs, UNCHANGED sender, \A k \in Logs : k # l => job'[k] = job[k],
             job[l].state # "active" \/ ~Held(l)
      PROVE  JobLock'
  <2>1. \A w \in Workers : Busy(w) => On(w) \in Logs /\ On(w) # l
    BY <1>j, OnBusy DEF JobLock, Held, Senders
  <2> QED
    BY <1>j, <2>1 DEF JobLock, Busy, On
<1>1. ASSUME NEW l \in Logs, EnqueueRecorded(l) PROVE JobLock'
  <2>1. CASE job[l].state = "none"
    BY <1>1, <2>1, <1>j DEF EnqueueRecorded, TypeOK
  <2>2. CASE job[l].state # "none"
    <3>1. UNCHANGED <<sender, job>>
      BY <1>1, <2>2 DEF EnqueueRecorded, Add, TypeOK
    <3> QED
      BY <3>1, <1>0
  <2> QED
    BY <2>1, <2>2
<1>2. ASSUME NEW l \in Logs, BackoffElapses(l) PROVE JobLock'
  BY <1>2, <1>j DEF BackoffElapses, TypeOK
<1>3. ASSUME NEW l \in Logs, DetectStalled(l) PROVE JobLock'
  BY <1>3, <1>j DEF DetectStalled, TypeOK
<1>4. ASSUME NEW w \in Workers, NEW l \in Logs, TakeJob(w, l) PROVE JobLock'
  <2>1. \A v \in Workers : Busy(v) => On(v) # l
    BY <1>4 DEF TakeJob, JobLock
  <2>2. job'[l].state = "active" /\ \A k \in Logs : k # l => job'[k] = job[k]
    BY <1>4 DEF TakeJob, Take, TypeOK, Jobs
  <2>3. /\ On(w)' = l /\ Busy(w)'
        /\ \A t \in Senders : t # w => On(t)' = On(t) /\ Busy(t)' = Busy(t)
    BY <1>4 DEF TakeJob, TypeOK, Senders, On, Busy
  <2> QED
    BY <2>1, <2>2, <2>3, OnBusy DEF JobLock, Senders
<1>5. ASSUME NEW h \in Handlers, NEW l \in Logs, SendManualTestEvent(h, l) PROVE JobLock'
  <2>1. \A t \in Senders : t # h => sender'[t] = sender[t]
    BY <1>5 DEF SendManualTestEvent, TypeOK, Senders
  <2>2. Busy(h)' => On(h)' \in ManualLogs
    BY <1>5 DEF SendManualTestEvent, TypeOK, Senders, On, Busy
  <2>3. UNCHANGED job
    BY <1>5 DEF SendManualTestEvent
  <2> QED
    BY <2>1, <2>2, <2>3 DEF JobLock, Senders, On, Busy
<1>6. ASSUME NEW s \in Senders, Finish(s) PROVE JobLock'
  <2>1. sender' = [sender EXCEPT ![s] = Idle] /\ Busy(s)
    BY <1>6 DEF Finish, Busy
  <2>4. /\ ~Busy(s)'
        /\ \A t \in Senders : t # s => On(t)' = On(t) /\ Busy(t)' = Busy(t)
    BY <2>1, IdleEffect
  <2>2. CASE s \in Workers
    <3>1. \A k \in Logs : k # On(s) => job'[k] = job[k]
      BY <1>6, <2>1, <2>2, OnBusy DEF Finish, TypeOK
    <3>2. \A w \in Workers : w # s /\ Busy(w) => On(w) \in Logs /\ On(w) # On(s)
      BY <2>1, <2>2, OnBusy DEF JobLock, Senders
    <3> QED
      BY <2>4, <3>1, <3>2 DEF JobLock, Senders
  <2>3. CASE s \notin Workers
    <3>1. UNCHANGED job
      BY <1>6, <2>3 DEF Finish
    <3> QED
      BY <2>4, <3>1 DEF JobLock, Senders
  <2> QED
    BY <2>2, <2>3
<1>7. ASSUME NEW s \in Senders, SenderCrashes(s) PROVE JobLock'
  <2>1. sender' = [sender EXCEPT ![s] = Idle] /\ UNCHANGED job
    BY <1>7 DEF SenderCrashes
  <2>2. /\ ~Busy(s)'
        /\ \A t \in Senders : t # s => On(t)' = On(t) /\ Busy(t)' = Busy(t)
    BY <2>1, IdleEffect
  <2> QED
    BY <2>1, <2>2 DEF JobLock, Senders
<1>8. ASSUME NEW s \in Senders,
             \/ LoadLog(s) \/ CheckOwnership(s) \/ ArchiveUnowned(s) \/ PostEvent(s)
             \/ WriteResult(s) \/ SyncExecution(s) \/ SyncReview(s) \/ SenderThrows(s)
      PROVE  JobLock'
  <2>1. Busy(s) /\ UNCHANGED job
    BY <1>8 DEF Busy, LoadLog, CheckOwnership, ArchiveUnowned, PostEvent, WriteResult,
                SyncExecution, SyncReview, SenderThrows
  <2>2. \E pc \in SenderPCs : \E r \in Results : Goto(s, pc, r)
    BY <1>8, <2>1, BusyOnLog
    DEF Busy, LoadLog, CheckOwnership, ArchiveUnowned, PostEvent, WriteResult, SyncExecution,
        SyncReview, SenderThrows, SenderPCs, Results
  <2> QED
    BY <2>1, <2>2, <1>g
<1>9. ASSUME NEW o \in Operators, PromoteJob(o) PROVE JobLock'
  BY <1>9, <1>0, <1>j, OpOnLog DEF PromoteJob, TypeOK
<1>10. ASSUME NEW o \in Operators, RemoveJob(o) PROVE JobLock'
  BY <1>10, <1>0, <1>j, OpOnLog DEF RemoveJob, TypeOK
<1>11. ASSUME NEW o \in Operators, EnqueueRetry(o) PROVE JobLock'
  <2> DEFINE l == op[o].log
  <2>0. l \in Logs
    BY <1>11, OpOnLog DEF EnqueueRetry
  <2>1. CASE job[l].state = "none"
    BY <1>11, <2>0, <2>1, <1>j DEF EnqueueRetry, TypeOK
  <2>2. CASE job[l].state # "none"
    <3>1. UNCHANGED <<sender, job>>
      BY <1>11, <2>0, <2>2 DEF EnqueueRetry, Add, TypeOK
    <3> QED
      BY <3>1, <1>0
  <2> QED
    BY <2>1, <2>2
<1>12. ASSUME NEW l \in Logs,
              \/ ImportHistorical(l) \/ FindExisting(l) \/ RecordExternalConversion(l)
              \/ ProducerFails(l) \/ \E o \in Operators : ReadForRetry(o, l)
       PROVE  JobLock'
  BY <1>12, <1>0 DEF ImportHistorical, FindExisting, RecordExternalConversion, CreateOrPromote,
                     ReportKnown, ProducerFails, ReadForRetry
<1>13. ASSUME NEW o \in Operators,
              \/ ClaimRetry(o) \/ GetJob(o) \/ GetState(o) \/ CompensateRetry(o)
              \/ QueueFails(o) \/ OperatorCrashes(o)
       PROVE  JobLock'
  BY <1>13, <1>0 DEF ClaimRetry, GetJob, GetState, CompensateRetry, QueueFails, OperatorCrashes
<1>14. ASSUME \/ ActivateCapiCutover \/ RollbackCapiCutover \/ UNCHANGED vars PROVE JobLock'
  BY <1>14, <1>0 DEF ActivateCapiCutover, RollbackCapiCutover, vars
<1> QED
  BY <1>1, <1>2, <1>3, <1>4, <1>5, <1>6, <1>7, <1>8, <1>9, <1>10, <1>11, <1>12, <1>13, <1>14
  DEF Next, SenderStep, RetryStep

(* No two senders ever work on one log that is sent through the queue,     *)
(* whoever retries it and whatever fails: the unguarded write of           *)
(* sendReadyEvent is safe because the job id is derived from the log.      *)
THEOREM QueuedLogHasOneSender == Spec => []OneSender
<1>1. TypeOK /\ JobLock /\ [Next]_vars => JobLock'
  BY JobLockNext
<1>2. TypeOK /\ JobLock => OneSender
  BY DEF JobLock, OneSender, Senders
<1> QED
  BY <1>1, <1>2, JobLockInit, TypeCorrect, PTL DEF Spec

(* A row changes only in these ways: import, record or promotion, archiving *)
(* or compensation of a ready row, claim of a transient failure, outcome.   *)
RowStep(l) ==
  \/ log'[l] = log[l]
  \/ log[l].status = "absent" /\ log'[l].status = "imported"
  \/ /\ log[l].status = "absent" \/ (log[l].status = "imported" /\ prod'[l].pc = "enqueue")
     /\ log'[l].status \in Recorded \ {"imported"}
  \/ /\ Ready(l) /\ log'[l].status \in {"shadow_observed", "error"}
     /\ \/ l \in ExternalLogs
        \/ \E o \in Operators : op[o].log = l
        \/ \E s \in Senders : On(s) = l /\ sender[s].pc = "archive" /\ sender'[s].pc = "finish"
  \/ /\ log[l] = Row("error", "network") /\ log'[l].status = "ready_to_send"
     /\ \E o \in Operators : op[o].log = l
  \/ \E s \in Senders : /\ On(s) = l /\ sender[s].pc = "write" /\ sender'[s].pc = "mirror"
                        /\ log'[l].status = StatusOf(sender[s].result)

LEMMA RowSteps ==
  ASSUME SendSafe, [Next]_vars, NEW l \in Logs
  PROVE  RowStep(l)
<1> USE DeliveryAssumption DEF SendSafe
<1>0. ASSUME UNCHANGED log PROVE RowStep(l)
  BY <1>0 DEF RowStep
<1>1. ASSUME NEW k \in Logs, ImportHistorical(k) PROVE RowStep(l)
  BY <1>1 DEF ImportHistorical, RowStep, Row, TypeOK
<1>2. ASSUME NEW k \in Logs, CreateOrPromote(k) PROVE RowStep(l)
  <2>1. PICK st \in InitialOf(k) : log' = [log EXCEPT ![k] = Row(st, "none")]
    BY <1>2 DEF CreateOrPromote
  <2>2. st \in Recorded \ {"imported"}
    BY DEF InitialOf, Recorded
  <2>3. log[k].status \in {"absent", "imported"}
    BY <1>2 DEF CreateOrPromote, Writes, PromotionCurrent
  <2>4. prod'[k].pc = "enqueue"
    BY <1>2 DEF CreateOrPromote, Stored, TypeOK
  <2> QED
    BY <2>1, <2>2, <2>3, <2>4 DEF RowStep, Row, TypeOK
<1>3. ASSUME NEW h \in Handlers, NEW k \in Logs, SendManualTestEvent(h, k) PROVE RowStep(l)
  BY <1>3 DEF SendManualTestEvent, RowStep, Row, TypeOK
<1>4. ASSUME NEW s \in Senders, ArchiveUnowned(s) PROVE RowStep(l)
  <2>1. sender'[s].pc = "finish"
    BY <1>4 DEF ArchiveUnowned, Goto, TypeOK
  <2>2. On(s) \in Logs
    BY <1>4, BusyOnLog DEF ArchiveUnowned
  <2> QED
    BY <1>4, <2>1, <2>2 DEF ArchiveUnowned, RowStep, Row, Ready, TypeOK
<1>5. ASSUME NEW s \in Senders, WriteResult(s) PROVE RowStep(l)
  <2>1. sender'[s].pc = "mirror"
    BY <1>5 DEF WriteResult, Goto, TypeOK
  <2>2. log'[l] = log[l] \/ (On(s) = l /\ log'[l].status = StatusOf(sender[s].result))
    BY <1>5 DEF WriteResult, Row, TypeOK
  <2> QED
    BY <1>5, <2>1, <2>2 DEF WriteResult, RowStep
<1>6. ASSUME NEW o \in Operators, ClaimRetry(o) PROVE RowStep(l)
  BY <1>6 DEF ClaimRetry, SeenTransient, RowStep, Row, TypeOK
<1>7. ASSUME NEW o \in Operators, CompensateRetry(o) PROVE RowStep(l)
  BY <1>7 DEF CompensateRetry, SeenTransient, RowStep, Row, TypeOK
<1>8. ASSUME \/ ActivateCapiCutover \/ RollbackCapiCutover PROVE RowStep(l)
  BY <1>8 DEF ActivateCapiCutover, RollbackCapiCutover, ArchiveReady, RowStep, Row
<1>9. ASSUME NEW k \in Logs,
             \/ FindExisting(k) \/ ReportKnown(k) \/ EnqueueRecorded(k) \/ ProducerFails(k)
             \/ BackoffElapses(k) \/ DetectStalled(k) \/ (\E w \in Workers : TakeJob(w, k))
             \/ \E o \in Operators : ReadForRetry(o, k)
      PROVE  RowStep(l)
  BY <1>9, <1>0 DEF FindExisting, ReportKnown, EnqueueRecorded, ProducerFails,
                    BackoffElapses, DetectStalled, TakeJob, ReadForRetry
<1>10. ASSUME NEW s \in Senders,
              \/ LoadLog(s) \/ CheckOwnership(s) \/ PostEvent(s) \/ SyncExecution(s)
              \/ SyncReview(s) \/ Finish(s) \/ SenderThrows(s) \/ SenderCrashes(s)
       PROVE  RowStep(l)
  BY <1>10, <1>0 DEF LoadLog, CheckOwnership, PostEvent, SyncExecution, SyncReview, Finish,
                     SenderThrows, SenderCrashes
<1>11. ASSUME NEW o \in Operators,
              \/ GetJob(o) \/ GetState(o) \/ PromoteJob(o) \/ RemoveJob(o) \/ EnqueueRetry(o)
              \/ QueueFails(o) \/ OperatorCrashes(o)
       PROVE  RowStep(l)
  BY <1>11, <1>0 DEF GetJob, GetState, PromoteJob, RemoveJob, EnqueueRetry, QueueFails,
                     OperatorCrashes
<1>12. ASSUME UNCHANGED vars PROVE RowStep(l)
  BY <1>12, <1>0 DEF vars
<1> QED
  BY <1>1, <1>2, <1>3, <1>4, <1>5, <1>6, <1>7, <1>8, <1>9, <1>10, <1>11, <1>12
  DEF Next, RecordExternalConversion, SenderStep, RetryStep

(* A sender is where it was, moved on its log, let go of it, took a job or *)
(* started a test event.                                                   *)
SenderMove(s) ==
  \/ sender'[s] = sender[s]
  \/ On(s)' = On(s) /\ sender'[s].pc \in {"mirror", "review", "finish"}
  \/ sender'[s] = Idle
  \/ /\ On(s)' = On(s) /\ UNCHANGED log /\ UNCHANGED <<job, op>>
     /\ \/ sender[s].pc = "load" /\ Ready(On(s)) /\ sender'[s].pc = "own"
        \/ sender[s].pc = "own" /\ sender'[s].pc = "post"
        \/ sender[s].pc = "own" /\ sender'[s].pc = "archive" /\ ~owned[On(s)]
        \/ sender[s].pc = "post" /\ sender'[s].pc = "write"
  \/ /\ s \in Workers /\ sender'[s].pc = "load"
     /\ On(s)' \in Logs /\ job[On(s)'].state = "waiting"
  \/ /\ s \in Handlers /\ sender'[s].pc = "load" /\ On(s)' \in ManualLogs
     /\ log[On(s)'].status = "absent" /\ log'[On(s)'].status = "ready_to_send"
     /\ UNCHANGED <<job, op>> /\ \A t \in Senders : t # s => sender'[t] = sender[t]

LEMMA SenderMoves ==
  ASSUME TypeOK, [Next]_vars, NEW s \in Senders
  PROVE  SenderMove(s)
<1> USE DeliveryAssumption DEF TypeOK
<1>0. ASSUME UNCHANGED sender PROVE SenderMove(s)
  BY <1>0 DEF SenderMove
<1>1. ASSUME NEW w \in Workers, NEW l \in Logs, TakeJob(w, l) PROVE SenderMove(s)
  BY <1>1 DEF TakeJob, SenderMove, On, Senders
<1>2. ASSUME NEW h \in Handlers, NEW l \in Logs, SendManualTestEvent(h, l) PROVE SenderMove(s)
  <2>1. CASE s = h
    BY <1>2, <2>1 DEF SendManualTestEvent, SenderMove, On, Senders, Ready, Row
  <2>2. CASE s # h
    BY <1>2, <2>2 DEF SendManualTestEvent, SenderMove, Senders
  <2> QED
    BY <2>1, <2>2
<1>3. ASSUME NEW t \in Senders, LoadLog(t) \/ CheckOwnership(t) \/ PostEvent(t) PROVE SenderMove(s)
  <2>1. CASE s = t
    BY <1>3, <2>1 DEF LoadLog, CheckOwnership, PostEvent, Goto, SenderMove, On
  <2>2. CASE s # t
    BY <1>3, <2>2 DEF LoadLog, CheckOwnership, PostEvent, Goto, SenderMove
  <2> QED
    BY <2>1, <2>2
<1>4. ASSUME NEW t \in Senders,
             ArchiveUnowned(t) \/ WriteResult(t) \/ SyncExecution(t) \/ SyncReview(t) \/ SenderThrows(t)
      PROVE  SenderMove(s)
  BY <1>4 DEF ArchiveUnowned, WriteResult, SyncExecution, SyncReview, SenderThrows, Goto,
              SenderMove, On
<1>5. ASSUME NEW t \in Senders, Finish(t) \/ SenderCrashes(t) PROVE SenderMove(s)
  BY <1>5 DEF Finish, SenderCrashes, SenderMove
<1>6. ASSUME NEW l \in Logs,
             \/ ImportHistorical(l) \/ FindExisting(l) \/ RecordExternalConversion(l)
             \/ EnqueueRecorded(l) \/ ProducerFails(l) \/ BackoffElapses(l) \/ DetectStalled(l)
             \/ \E o \in Operators : ReadForRetry(o, l)
      PROVE  SenderMove(s)
  BY <1>6, <1>0 DEF ImportHistorical, FindExisting, RecordExternalConversion, CreateOrPromote,
                    ReportKnown, EnqueueRecorded, ProducerFails, BackoffElapses, DetectStalled,
                    ReadForRetry
<1>7. ASSUME NEW o \in Operators, RetryStep(o) \/ QueueFails(o) \/ OperatorCrashes(o)
      PROVE  SenderMove(s)
  BY <1>7, <1>0 DEF RetryStep, ClaimRetry, GetJob, GetState, PromoteJob, RemoveJob, EnqueueRetry,
                    CompensateRetry, QueueFails, OperatorCrashes
<1>8. ASSUME ActivateCapiCutover \/ RollbackCapiCutover \/ UNCHANGED vars PROVE SenderMove(s)
  BY <1>8, <1>0 DEF ActivateCapiCutover, RollbackCapiCutover, vars
<1> QED
  BY <1>1, <1>2, <1>3, <1>4, <1>5, <1>6, <1>7, <1>8 DEF Next, SenderStep


(* No two senders that have yet to write are on one log, test events included. *)
LEMMA WritersApart ==
  ASSUME SendSafe, NEW s \in Senders, NEW t \in Senders, s # t, PreWrite(s), PreWrite(t)
  PROVE  On(s) # On(t)
<1>1. CASE s \in Handlers
  BY <1>1 DEF SendSafe, HandlerAlone
<1>2. CASE t \in Handlers
  BY <1>2 DEF SendSafe, HandlerAlone
<1>3. CASE s \in Workers /\ t \in Workers
  BY <1>3 DEF SendSafe, JobLock, Busy, PreWrite
<1> QED
  BY <1>1, <1>2, <1>3 DEF Senders

LEMMA SendSafeInit == Init => SendSafe
<1> SUFFICES ASSUME Init PROVE SendSafe
  OBVIOUS
<1> USE DeliveryAssumption
<1>1. \A s \in Senders : sender[s].pc = "idle" /\ On(s) = NoLog
  BY DEF Init, Idle, On
<1>2. ManualAlone
  BY <1>1 DEF Init, ManualAlone, Fresh, NoJob, OpIdle
<1>3. HandlerAlone /\ CommittedUnsent
  BY <1>1 DEF HandlerAlone, CommittedUnsent, PreWrite, Committed, Senders
<1>4. SeenTransient
  BY DEF Init, SeenTransient, OpIdle
<1>5. PromotionCurrent
  BY DEF Init, PromotionCurrent
<1> QED
  BY <1>2, <1>3, <1>4, <1>5, InitTyped, JobLockInit DEF SendSafe

LEMMA SeenTransientNext ==
  ASSUME SendSafe, Owners = Operators, [Next]_vars
  PROVE  SeenTransient'
<1> USE DEF SendSafe
<1>0. ASSUME UNCHANGED op PROVE SeenTransient'
  BY <1>0 DEF SeenTransient
<1>1. ASSUME NEW o \in Operators, NEW pc, op[o].pc # "idle", OpGoto(o, pc) PROVE SeenTransient'
  BY <1>1 DEF SeenTransient, OpGoto, TypeOK
<1>2. ASSUME NEW o \in Operators, OpDone(o) PROVE SeenTransient'
  BY <1>2 DEF SeenTransient, OpDone, OpIdle, TypeOK
<1>3. ASSUME NEW o \in Operators, NEW l \in Logs, ReadForRetry(o, l) PROVE SeenTransient'
  BY <1>3 DEF ReadForRetry, SeenTransient, TypeOK
<1>4. ASSUME NEW o \in Operators, ClaimRetry(o) PROVE SeenTransient'
  BY <1>4, <1>1, <1>2 DEF ClaimRetry
<1>5. ASSUME NEW o \in Operators, GetJob(o) PROVE SeenTransient'
  BY <1>5, <1>1 DEF GetJob
<1>6. ASSUME NEW o \in Operators, GetState(o) PROVE SeenTransient'
  BY <1>6, <1>1, <1>2 DEF GetState
<1>7. ASSUME NEW o \in Operators, PromoteJob(o) \/ RemoveJob(o) \/ EnqueueRetry(o) PROVE SeenTransient'
  BY <1>7, <1>1, <1>2 DEF PromoteJob, RemoveJob, EnqueueRetry
<1>8. ASSUME NEW o \in Operators, CompensateRetry(o) \/ QueueFails(o) \/ OperatorCrashes(o)
      PROVE  SeenTransient'
  BY <1>8, <1>1, <1>2 DEF CompensateRetry, QueueFails, OperatorCrashes
<1>9. ASSUME NEW l \in Logs,
             \/ ImportHistorical(l) \/ FindExisting(l) \/ RecordExternalConversion(l)
             \/ EnqueueRecorded(l) \/ ProducerFails(l) \/ BackoffElapses(l) \/ DetectStalled(l)
             \/ (\E w \in Workers : TakeJob(w, l)) \/ \E h \in Handlers : SendManualTestEvent(h, l)
      PROVE  SeenTransient'
  BY <1>9, <1>0 DEF ImportHistorical, FindExisting, RecordExternalConversion, CreateOrPromote,
                    ReportKnown, EnqueueRecorded, ProducerFails, BackoffElapses, DetectStalled,
                    TakeJob, SendManualTestEvent
<1>10. ASSUME NEW s \in Senders, SenderStep(s) \/ SenderThrows(s) \/ SenderCrashes(s)
       PROVE  SeenTransient'
  BY <1>10, <1>0 DEF SenderStep, LoadLog, CheckOwnership, ArchiveUnowned, PostEvent, WriteResult,
                     SyncExecution, SyncReview, Finish, SenderThrows, SenderCrashes
<1>11. ASSUME ActivateCapiCutover \/ RollbackCapiCutover \/ UNCHANGED vars PROVE SeenTransient'
  BY <1>11, <1>0 DEF ActivateCapiCutover, RollbackCapiCutover, vars
<1> QED
  BY <1>3, <1>4, <1>5, <1>6, <1>7, <1>8, <1>9, <1>10, <1>11 DEF Next, RetryStep

(* A producer's record is where it was, or its own step changed it. *)
LEMMA ProducerMoves ==
  ASSUME TypeOK, [Next]_vars, NEW l \in Logs
  PROVE  \/ prod'[l] = prod[l]
         \/ /\ l \notin ManualLogs /\ UNCHANGED log
            /\ prod'[l].pc = "write" /\ prod'[l].snap = log[l].status
         \/ prod[l].pc # "idle" /\ prod'[l].pc # "write"
<1> DEFINE Goal == \/ prod'[l] = prod[l]
                   \/ /\ l \notin ManualLogs /\ UNCHANGED log
                      /\ prod'[l].pc = "write" /\ prod'[l].snap = log[l].status
                   \/ prod[l].pc # "idle" /\ prod'[l].pc # "write"
<1> USE DEF TypeOK
<1>0. ASSUME UNCHANGED prod PROVE Goal
  BY <1>0
<1>1. ASSUME NEW k \in Logs, FindExisting(k) PROVE Goal
  BY <1>1 DEF FindExisting
<1>2. ASSUME NEW k \in Logs, NEW p, prod' = [prod EXCEPT ![k] = p], prod[k].pc # "idle", p.pc # "write"
      PROVE  Goal
  BY <1>2
<1>3. ASSUME NEW k \in Logs, CreateOrPromote(k) PROVE Goal
  <2>1. PICK st \in InitialOf(k) : prod' = [prod EXCEPT ![k] = Stored(prod[k], st)]
    BY <1>3 DEF CreateOrPromote
  <2> QED
    BY <1>3, <2>1, <1>2 DEF CreateOrPromote, Stored
<1>4. ASSUME NEW k \in Logs, ReportKnown(k) PROVE Goal
  BY <1>4, <1>2 DEF ReportKnown, Stored
<1>5. ASSUME NEW k \in Logs, EnqueueRecorded(k) \/ ProducerFails(k) PROVE Goal
  BY <1>5 DEF EnqueueRecorded, ProducerFails, ProdRecs
<1>6. ASSUME NEW k \in Logs,
             \/ ImportHistorical(k) \/ BackoffElapses(k) \/ DetectStalled(k)
             \/ (\E w \in Workers : TakeJob(w, k)) \/ (\E h \in Handlers : SendManualTestEvent(h, k))
             \/ \E o \in Operators : ReadForRetry(o, k)
      PROVE  Goal
  BY <1>6, <1>0 DEF ImportHistorical, BackoffElapses, DetectStalled, TakeJob,
                    SendManualTestEvent, ReadForRetry
<1>7. ASSUME NEW s \in Senders, SenderStep(s) \/ SenderThrows(s) \/ SenderCrashes(s)
      PROVE  Goal
  BY <1>7, <1>0 DEF SenderStep, LoadLog, CheckOwnership, ArchiveUnowned, PostEvent, WriteResult,
                    SyncExecution, SyncReview, Finish, SenderThrows, SenderCrashes
<1>8. ASSUME NEW o \in Operators, RetryStep(o) \/ QueueFails(o) \/ OperatorCrashes(o)
      PROVE  Goal
  BY <1>8, <1>0 DEF RetryStep, ClaimRetry, GetJob, GetState, PromoteJob, RemoveJob, EnqueueRetry,
                    CompensateRetry, QueueFails, OperatorCrashes
<1>9. ASSUME ActivateCapiCutover \/ RollbackCapiCutover \/ UNCHANGED vars PROVE Goal
  BY <1>9, <1>0 DEF ActivateCapiCutover, RollbackCapiCutover, vars
<1> QED
  BY <1>1, <1>3, <1>4, <1>5, <1>6, <1>7, <1>8, <1>9 DEF Next, RecordExternalConversion

LEMMA PromotionCurrentNext ==
  ASSUME SendSafe, [Next]_vars
  PROVE  PromotionCurrent'
<1> SUFFICES ASSUME NEW l \in Logs, prod'[l].pc = "write", prod'[l].snap = "imported"
             PROVE  log'[l].status = "imported"
  BY DEF PromotionCurrent
<1>1. CASE prod'[l] = prod[l]
  <2>1. log[l].status = "imported"
    BY <1>1 DEF SendSafe, PromotionCurrent
  <2>2. \A s \in Senders : sender[s].pc = "write" => On(s) # l
    BY <2>1 DEF SendSafe, CommittedUnsent, Committed
  <2> QED
    BY <2>1, <2>2, RowSteps DEF RowStep, Row, Ready
<1> QED
  BY <1>1, ProducerMoves DEF SendSafe


(* A test event nobody but a sender has met stays so, unless its row says  *)
(* that it failed on the network.                                          *)
LEMMA FreshStays ==
  ASSUME SendSafe, Owners = Operators, [Next]_vars,
         NEW l \in ManualLogs, Fresh(l), log[l] # Row("error", "network")
  PROVE  Fresh(l)'
<1> USE DeliveryAssumption DEF SendSafe
<1>a. l \in Logs /\ prod[l].pc = "idle"
  BY DEF ManualAlone
<1>b. \A w \in Workers : On(w) # l
  BY OnBusy, <1>a DEF JobLock, Fresh, Senders
<1>0. ASSUME UNCHANGED <<job, op>> PROVE Fresh(l)'
  BY <1>0 DEF Fresh
<1>g. ASSUME NEW o \in Operators, NEW pc, OpGoto(o, pc) \/ OpDone(o) PROVE \A p \in Operators : op'[p].log # l
  BY <1>g, <1>a DEF Fresh, OpGoto, OpDone, OpIdle, TypeOK
<1>1. ASSUME NEW k \in Logs, EnqueueRecorded(k) PROVE Fresh(l)'
  BY <1>1, <1>a DEF EnqueueRecorded, Fresh, TypeOK
<1>2. ASSUME NEW k \in Logs, BackoffElapses(k) \/ DetectStalled(k) \/ \E w \in Workers : TakeJob(w, k)
      PROVE  Fresh(l)'
  BY <1>2, <1>a DEF BackoffElapses, DetectStalled, TakeJob, Fresh, TypeOK
<1>3. ASSUME NEW o \in Operators, NEW k \in Logs, ReadForRetry(o, k) PROVE Fresh(l)'
  BY <1>3, <1>a DEF ReadForRetry, Fresh, TypeOK
<1>4. ASSUME NEW s \in Senders, Finish(s) PROVE Fresh(l)'
  <2>1. job'[l] = job[l]
    BY <1>4, <1>a, <1>b DEF Finish, TypeOK
  <2> QED
    BY <1>4, <2>1 DEF Finish, Fresh
<1>5. ASSUME NEW o \in Operators, ClaimRetry(o) \/ GetJob(o) \/ CompensateRetry(o) \/ QueueFails(o) \/ OperatorCrashes(o)
      PROVE  Fresh(l)'
  BY <1>5, <1>g DEF ClaimRetry, GetJob, CompensateRetry, QueueFails, OperatorCrashes, Fresh
<1>6. ASSUME NEW o \in Operators, GetState(o) PROVE Fresh(l)'
  BY <1>6, <1>g DEF GetState, Fresh
<1>7. ASSUME NEW o \in Operators, PromoteJob(o) \/ RemoveJob(o) \/ EnqueueRetry(o) PROVE Fresh(l)'
  <2>1. job'[l] = job[l]
    BY <1>7, <1>a DEF PromoteJob, RemoveJob, EnqueueRetry, Fresh, TypeOK
  <2>2. \A p \in Operators : op'[p].log # l
    BY <1>7, <1>g DEF PromoteJob, RemoveJob, EnqueueRetry
  <2> QED
    BY <2>1, <2>2 DEF Fresh
<1>8. ASSUME NEW k \in Logs,
             \/ ImportHistorical(k) \/ FindExisting(k) \/ RecordExternalConversion(k)
             \/ ProducerFails(k) \/ \E h \in Handlers : SendManualTestEvent(h, k)
      PROVE  Fresh(l)'
  BY <1>8, <1>0 DEF ImportHistorical, FindExisting, RecordExternalConversion, CreateOrPromote,
                    ReportKnown, ProducerFails, SendManualTestEvent
<1>9. ASSUME NEW s \in Senders,
             \/ LoadLog(s) \/ CheckOwnership(s) \/ ArchiveUnowned(s) \/ PostEvent(s)
             \/ WriteResult(s) \/ SyncExecution(s) \/ SyncReview(s) \/ SenderThrows(s) \/ SenderCrashes(s)
      PROVE  Fresh(l)'
  BY <1>9, <1>0 DEF LoadLog, CheckOwnership, ArchiveUnowned, PostEvent, WriteResult,
                    SyncExecution, SyncReview, SenderThrows, SenderCrashes
<1>10. ASSUME ActivateCapiCutover \/ RollbackCapiCutover \/ UNCHANGED vars PROVE Fresh(l)'
  BY <1>10, <1>0 DEF ActivateCapiCutover, RollbackCapiCutover, vars
<1> QED
  BY <1>1, <1>2, <1>3, <1>4, <1>5, <1>6, <1>7, <1>8, <1>9, <1>10 DEF Next, SenderStep, RetryStep

(* No sender comes to such a test event once it is recorded. *)
LEMMA NoNewSender ==
  ASSUME TypeOK, [Next]_vars, NEW l \in ManualLogs, Fresh(l), NEW s \in Senders, On(s) # l,
         log[l].status # "absent" \/ log'[l].status = "absent"
  PROVE  On(s)' # l
BY SenderMoves, DeliveryAssumption DEF SenderMove, Fresh, On, Idle

LEMMA ManualAloneNext ==
  ASSUME SendSafe, Owners = Operators, [Next]_vars
  PROVE  ManualAlone'
<1> USE DeliveryAssumption DEF SendSafe
<1> SUFFICES ASSUME NEW l \in ManualLogs
             PROVE  /\ prod'[l].pc = "idle"
                    /\ log'[l].status = "absent" => Fresh(l)' /\ \A s \in Senders : On(s)' # l
  BY DEF ManualAlone
<1>1. prod'[l].pc = "idle"
  BY ProducerMoves DEF ManualAlone
<1>2. ASSUME log'[l].status = "absent" PROVE log[l].status = "absent"
  BY <1>2, RowSteps DEF RowStep, Recorded, Incomplete, StatusOf
<1>3. ASSUME log'[l].status = "absent" PROVE Fresh(l)' /\ \A s \in Senders : On(s)' # l
  <2>1. Fresh(l) /\ \A s \in Senders : On(s) # l
    BY <1>2, <1>3 DEF ManualAlone
  <2>2. Fresh(l)'
    BY <1>2, <1>3, <2>1, FreshStays DEF Row
  <2> QED
    BY <1>3, <2>1, <2>2, NoNewSender
<1> QED
  BY <1>1, <1>3

LEMMA HandlerAloneNext ==
  ASSUME SendSafe, Owners = Operators, [Next]_vars
  PROVE  HandlerAlone'
<1> USE DeliveryAssumption DEF SendSafe
<1> SUFFICES ASSUME NEW h \in Handlers, PreWrite(h)'
             PROVE  Ready(On(h))' /\ Fresh(On(h))' /\ \A t \in Senders : t # h => On(t)' # On(h)'
  BY DEF HandlerAlone
<1>0. h \in Senders /\ h \notin Workers
  BY DEF Senders
<1>1. CASE PreWrite(h) /\ On(h)' = On(h)
  <2>0. PICK l \in ManualLogs : l = On(h)
    BY <1>1 DEF JobLock, Busy, PreWrite
  <2>1. l \in Logs /\ Ready(l) /\ Fresh(l) /\ \A t \in Senders : t # h => On(t) # l
    BY <1>1, <2>0 DEF HandlerAlone
  <2>2. Fresh(l)'
    BY <2>1, FreshStays DEF Ready, Row
  <2>3. \A t \in Senders : t # h => On(t)' # l
    BY <2>1, NoNewSender DEF Ready
  <2>4. log'[l].status = "ready_to_send"
    <3>1. \A o \in Operators : op[o].log # l
      BY <2>1 DEF Fresh
    <3>2. \A s \in Senders : On(s) = l => s = h
      BY <2>1
    <3>3. sender'[h].pc \notin {"finish", "mirror"}
      BY DEF PreWrite
    <3>4. RowStep(l)
      BY <2>1, RowSteps
    <3>5. log[l].status = "ready_to_send"
      BY <2>1 DEF Ready
    <3> QED
      BY <2>1, <3>1, <3>2, <3>3, <3>4, <3>5 DEF RowStep, Row
  <2> QED
    BY <1>1, <2>0, <2>2, <2>3, <2>4 DEF Ready, Fresh
<1>2. CASE On(h)' \in ManualLogs /\ log[On(h)'].status = "absent"
           /\ log'[On(h)'].status = "ready_to_send" /\ UNCHANGED <<job, op>>
           /\ sender'[h].pc = "load" /\ \A t \in Senders : t # h => sender'[t] = sender[t]
  BY <1>2 DEF ManualAlone, Fresh, Ready, On
<1> QED
  <2>1. sender'[h].pc \in {"load", "own", "archive", "post", "write"} /\ sender'[h] # Idle
    BY DEF PreWrite, Idle
  <2> QED
    BY <2>1, <1>0, <1>1, <1>2, SenderMoves DEF SenderMove, PreWrite, On


LEMMA CommittedUnsentNext ==
  ASSUME SendSafe, [Next]_vars
  PROVE  CommittedUnsent'
<1> USE DEF SendSafe
<1> SUFFICES ASSUME NEW s \in Senders, Committed(s)'
             PROVE  log'[On(s)'].status \notin {"absent", "imported", "sent"}
  BY DEF CommittedUnsent
<1>0. sender'[s].pc \in {"own", "archive", "post", "write"} /\ sender'[s] # Idle
  BY DEF Committed, Idle
<1>1. CASE Ready(On(s)) /\ On(s)' = On(s) /\ UNCHANGED log
  BY <1>1 DEF Ready
<1>2. CASE Committed(s) /\ On(s)' = On(s)
  <2>1. PICK l \in Logs : l = On(s)
    BY <1>2, OnBusy DEF Committed, Busy
  <2>2. log[l].status \notin {"absent", "imported", "sent"}
    BY <1>2, <2>1 DEF CommittedUnsent
  <2>3. \A t \in Senders : On(t) = l /\ sender[t].pc = "write" => t = s
    BY <1>2, <2>1, WritersApart DEF PreWrite, Committed
  <2> QED
    BY <1>0, <1>2, <2>1, <2>2, <2>3, RowSteps DEF RowStep, Recorded, Incomplete
<1> QED
  BY <1>0, <1>1, <1>2, SenderMoves DEF SenderMove, Committed, On

LEMMA SendSafeNext ==
  ASSUME SendSafe, Owners = Operators, [Next]_vars
  PROVE  SendSafe'
<1>1. TypeOK' /\ JobLock'
  BY NextTyped, JobLockNext DEF SendSafe
<1> QED
  BY <1>1, ManualAloneNext, HandlerAloneNext, CommittedUnsentNext, SeenTransientNext,
     PromotionCurrentNext DEF SendSafe

(* A sent row is written by nobody. *)
LEMMA SentStays ==
  ASSUME SendSafe, [Next]_vars, NEW l \in Logs, log[l].status = "sent"
  PROVE  log'[l].status = "sent"
<1>1. \A s \in Senders : sender[s].pc = "write" => On(s) # l
  BY DEF SendSafe, CommittedUnsent, Committed
<1> QED
  BY <1>1, RowSteps DEF RowStep, Ready, Row

(* When operators may retry transient failures only (Owners = Operators,   *)
(* what retryConversionEvent grants a workspace owner), "sent" is final:   *)
(* however many workers, retries, compensations, cutovers, redeliveries    *)
(* and crashes interleave, no step moves a log out of it.                  *)
THEOREM SentForever == Owners = Operators => (Spec => SentIsFinal)
<1> SUFFICES ASSUME Owners = Operators PROVE Spec => SentIsFinal
  OBVIOUS
<1>1. SendSafe /\ [Next]_vars => SendSafe'
  BY SendSafeNext
<1>2. SendSafe /\ [Next]_vars =>
        [\A l \in Logs : log[l].status = "sent" => log'[l].status = "sent"]_vars
  BY SentStays
<1> QED
  BY <1>1, <1>2, SendSafeInit, PTL DEF Spec, SentIsFinal

(* Faults are never forgotten, and only PostEvent acknowledges. *)
LEMMA AckMoves ==
  ASSUME TypeOK, [Next]_vars, used'.faults = 0
  PROVE  /\ used.faults = 0
         /\ \/ UNCHANGED acked
            \/ \E s \in Senders : PostEvent(s)
         /\ \A s \in Senders : sender[s].pc = "write" => sender'[s] = sender[s] \/ WriteResult(s)
<1> DEFINE Goal == /\ used.faults = 0
                   /\ UNCHANGED acked \/ \E s \in Senders : PostEvent(s)
                   /\ \A s \in Senders : sender[s].pc = "write" =>
                        sender'[s] = sender[s] \/ WriteResult(s)
<1> USE DeliveryAssumption DEF TypeOK
<1>f. ~Fault
  BY DEF Fault, Used
<1>1. ASSUME NEW l \in Logs,
             \/ ImportHistorical(l) \/ FindExisting(l) \/ RecordExternalConversion(l)
             \/ EnqueueRecorded(l) \/ BackoffElapses(l) \/ DetectStalled(l)
      PROVE  Goal
  BY <1>1 DEF ImportHistorical, FindExisting, RecordExternalConversion, CreateOrPromote,
              ReportKnown, EnqueueRecorded, BackoffElapses, DetectStalled
<1>2. ASSUME NEW l \in Logs, NEW w \in Workers, TakeJob(w, l) PROVE Goal
  BY <1>2 DEF TakeJob
<1>3. ASSUME NEW l \in Logs, NEW h \in Handlers, SendManualTestEvent(h, l) PROVE Goal
  BY <1>3 DEF SendManualTestEvent
<1>4. ASSUME NEW l \in Logs, NEW o \in Operators, ReadForRetry(o, l) PROVE Goal
  BY <1>4 DEF ReadForRetry, Used
<1>5. ASSUME NEW s \in Senders, LoadLog(s) \/ CheckOwnership(s) \/ ArchiveUnowned(s) PROVE Goal
  BY <1>5 DEF LoadLog, CheckOwnership, ArchiveUnowned, Goto
<1>6. ASSUME NEW s \in Senders, PostEvent(s) PROVE Goal
  BY <1>6 DEF PostEvent, Goto
<1>7. ASSUME NEW s \in Senders, WriteResult(s) PROVE Goal
  BY <1>7 DEF WriteResult, Goto
<1>8. ASSUME NEW s \in Senders, SyncExecution(s) \/ SyncReview(s) \/ Finish(s) PROVE Goal
  BY <1>8 DEF SyncExecution, SyncReview, Finish, Goto
<1>9. ASSUME NEW o \in Operators, RetryStep(o) PROVE Goal
  BY <1>9 DEF RetryStep, ClaimRetry, GetJob, GetState, PromoteJob, RemoveJob, EnqueueRetry,
              CompensateRetry
<1>10. ASSUME ActivateCapiCutover \/ RollbackCapiCutover PROVE Goal
  BY <1>10 DEF ActivateCapiCutover, RollbackCapiCutover, Switch, Used
<1>11. ASSUME UNCHANGED vars PROVE Goal
  BY <1>11 DEF vars
<1> QED
  BY <1>f, <1>1, <1>2, <1>3, <1>4, <1>5, <1>6, <1>7, <1>8, <1>9, <1>10, <1>11
  DEF Next, SenderStep, ProducerFails, SenderThrows, SenderCrashes, QueueFails, OperatorCrashes

LEMMA AckHeldNext ==
  ASSUME SendSafe, AckHeld, [Next]_vars
  PROVE  AckHeld'
<1> USE DEF SendSafe
<1> SUFFICES ASSUME used'.faults = 0, NEW l \in Logs
             PROVE  \/ acked'[l] = 0
                    \/ /\ acked'[l] = 1
                       /\ \/ log'[l].status = "sent"
                          \/ \E s \in Senders : On(s)' = l /\ sender'[s].pc = "write"
                                                /\ sender'[s].result = "sent"
  BY DEF AckHeld
<1>1. \/ acked[l] = 0
      \/ /\ acked[l] = 1
         /\ \/ log[l].status = "sent"
            \/ \E s \in Senders : On(s) = l /\ sender[s].pc = "write" /\ sender[s].result = "sent"
  BY AckMoves DEF AckHeld
<1>2. ASSUME NEW s \in Senders, PostEvent(s) PROVE acked'[l] = acked[l] \/
        (acked'[l] = acked[l] + 1 /\ On(s) = l /\ sender'[s].pc = "write" /\ sender'[s].result = "sent" /\ On(s)' = l)
  BY <1>2 DEF PostEvent, Goto, On, TypeOK
<1>3. ASSUME NEW s \in Senders, PostEvent(s), On(s) = l PROVE acked[l] = 0
  <2>1. log[l].status # "sent"
    BY <1>3 DEF PostEvent, CommittedUnsent, Committed
  <2>2. \A t \in Senders : sender[t].pc = "write" => On(t) # l
    BY <1>3, WritersApart DEF PostEvent, PreWrite
  <2> QED
    BY <1>1, <2>1, <2>2
<1>4. CASE UNCHANGED acked
  <2>1. CASE log[l].status = "sent"
    BY <1>1, <1>4, <2>1, SentStays
  <2>2. ASSUME NEW s \in Senders, On(s) = l, sender[s].pc = "write", sender[s].result = "sent"
        PROVE  \/ log'[l].status = "sent"
               \/ On(s)' = l /\ sender'[s].pc = "write" /\ sender'[s].result = "sent"
    <3>1. CASE WriteResult(s)
      BY <2>2, <3>1 DEF WriteResult, StatusOf, Row, TypeOK
    <3>2. CASE sender'[s] = sender[s]
      BY <2>2, <3>2 DEF On
    <3> QED
      BY <2>2, <3>1, <3>2, AckMoves
  <2> QED
    BY <1>1, <1>4, <2>1, <2>2
<1>5. CASE \E s \in Senders : PostEvent(s)
  <2>1. PICK s \in Senders : PostEvent(s)
    BY <1>5
  <2>2. CASE acked'[l] = acked[l] + 1 /\ On(s)' = l /\ On(s) = l
             /\ sender'[s].pc = "write" /\ sender'[s].result = "sent"
    BY <2>1, <2>2, <1>3
  <2>3. CASE acked'[l] = acked[l]
    <3>1. \A t \in Senders : sender[t].pc = "write" => sender'[t] = sender[t]
      BY <2>1 DEF PostEvent, Goto, TypeOK
    <3>2. log' = log
      BY <2>1 DEF PostEvent
    <3> QED
      BY <1>1, <2>3, <3>1, <3>2 DEF On
  <2> QED
    BY <2>1, <2>2, <2>3, <1>2
<1> QED
  BY <1>4, <1>5, AckMoves

(* Then Meta also acknowledges each event at most once to a sender unless  *)
(* a fault lost an acknowledgement: no interleaving of attempts, retries   *)
(* and redeliveries alone sends an event twice.                            *)
THEOREM AcknowledgedOnce == Owners = Operators => (Spec => []AckedOnce)
<1> SUFFICES ASSUME Owners = Operators PROVE Spec => []AckedOnce
  OBVIOUS
<1>1. Init => AckHeld
  BY DEF Init, AckHeld
<1>2. SendSafe /\ AckHeld /\ [Next]_vars => SendSafe' /\ AckHeld'
  BY SendSafeNext, AckHeldNext
<1>3. AckHeld => AckedOnce
  BY DEF AckHeld, AckedOnce
<1> QED
  BY <1>1, <1>2, <1>3, SendSafeInit, PTL DEF Spec

(***************************************************************************)
(* The delivery implements EventLife.  Only external events may be left to *)
(* another system: the others are owned, and no sender archives them.      *)
(***************************************************************************)
HomeOwned ==
  /\ \A l \in Logs \ ExternalLogs : owned[l]
  /\ \A s \in Senders : sender[s].pc = "archive" => On(s) \in ExternalLogs

LEMMA HomeOwnedNext ==
  ASSUME TypeOK, HomeOwned, [Next]_vars
  PROVE  HomeOwned'
<1> USE DeliveryAssumption DEF TypeOK
<1>1. \A l \in Logs \ ExternalLogs : owned'[l]
  <2>1. CASE UNCHANGED owned
    BY <2>1 DEF HomeOwned
  <2>2. ASSUME NEW k \in Logs, CreateOrPromote(k) PROVE \A l \in Logs \ ExternalLogs : owned'[l]
    BY <2>2 DEF CreateOrPromote, OwnershipOf, HomeOwned
  <2>3. CASE RollbackCapiCutover
    BY <2>3 DEF RollbackCapiCutover
  <2> QED
    BY <2>1, <2>2, <2>3
    DEF Next, RecordExternalConversion, SenderStep, RetryStep, ImportHistorical, FindExisting, ReportKnown,
        EnqueueRecorded, ProducerFails, BackoffElapses, DetectStalled, TakeJob, SendManualTestEvent, ReadForRetry,
        LoadLog, CheckOwnership, ArchiveUnowned, PostEvent, WriteResult, SyncExecution, SyncReview, Finish,
        SenderThrows, SenderCrashes, ClaimRetry, GetJob, GetState, PromoteJob, RemoveJob, EnqueueRetry,
        CompensateRetry, QueueFails, OperatorCrashes, ActivateCapiCutover, vars
<1>2. ASSUME NEW s \in Senders, sender'[s].pc = "archive" PROVE On(s)' \in ExternalLogs
  <2>1. sender'[s] # Idle
    BY <1>2 DEF Idle
  <2>2. CASE sender'[s] = sender[s]
    BY <1>2, <2>2 DEF HomeOwned, On
  <2>3. CASE sender[s].pc = "own" /\ On(s)' = On(s) /\ ~owned[On(s)]
    <3>3. On(s) \in Logs
      BY <2>3, OnBusy DEF Busy
    <3> QED
      BY <2>3, <3>3 DEF HomeOwned
  <2> QED
    BY <1>2, <2>1, <2>2, <2>3, SenderMoves DEF SenderMove
<1> QED
  BY <1>1, <1>2 DEF HomeOwned

(* A write of one row is one step of one life. *)
LEMMA LifeWritten ==
  ASSUME TypeOK, NEW l \in Logs, NEW st, NEW e, log' = [log EXCEPT ![l] = Row(st, e)]
  PROVE  Lives' = [Lives EXCEPT ![l] = LifeOf(st)]
BY DEF TypeOK, Lives, Row

(* The life a status stands for. *)
LEMMA LifeNames ==
  /\ LifeOf("absent") = "none" /\ LifeOf("imported") = "history" /\ LifeOf("ready_to_send") = "ready"
  /\ LifeOf("shadow_observed") = "archived" /\ LifeOf("sent") = "sent" /\ LifeOf("error") = "failed"
  /\ \A st \in Recorded \ {"imported"} : LifeOf(st) \in {"kept", "ready", "archived"}
BY DEF LifeOf, Recorded, Incomplete

LEMMA LifeUnwritten ==
  ASSUME UNCHANGED log
  PROVE  UNCHANGED Lives
BY DEF Lives

(* What a step of one sender does to the attempts under way. *)
LEMMA SendingMoves ==
  ASSUME SendSafe, NEW s \in Senders, Busy(s), \A t \in Senders : t # s => sender'[t] = sender[t]
  PROVE  /\ Committed(s) /\ Committed(s)' /\ On(s)' = On(s) => UNCHANGED Sending
         /\ ~Committed(s) /\ ~Committed(s)' => UNCHANGED Sending
         /\ ~Committed(s) /\ Committed(s)' /\ On(s)' = On(s) => Sending' = Sending \cup {On(s)}
         /\ Committed(s) /\ ~Committed(s)' => Sending' = Sending \ {On(s)}
<1>1. On(s) \in Logs
  BY OnBusy DEF SendSafe
<1>2. \A t \in Senders : t # s => (Committed(t)' <=> Committed(t)) /\ On(t)' = On(t)
  BY DEF Committed, On
<1>3. Committed(s) => \A t \in Senders : t # s /\ Committed(t) => On(t) # On(s)
  BY WritersApart DEF PreWrite, Committed
<1> QED
  BY <1>1, <1>2, <1>3 DEF Sending

LEMMA LifeSteps ==
  ASSUME SendSafe, HomeOwned, [Next]_vars
  PROVE  [Life!LifeNext]_(Life!lifeVars)
<1> DEFINE Goal == Life!LifeNext \/ UNCHANGED <<Lives, Sending>>
<1> SUFFICES Goal
  BY DEF Life!lifeVars
<1> USE DeliveryAssumption DEF SendSafe
<1>0. \A l \in Logs : Lives[l] = LifeOf(log[l].status)
  BY DEF Lives
<1>s. ASSUME UNCHANGED sender PROVE UNCHANGED Sending
  BY <1>s DEF Sending, Committed, On
<1>k. ASSUME UNCHANGED <<sender, log>> PROVE Goal
  BY <1>k, <1>s, LifeUnwritten
<1>1. ASSUME NEW l \in Logs, ImportHistorical(l) PROVE Goal
  <2>1. Lives' = [Lives EXCEPT ![l] = "history"] /\ Lives[l] = "none"
    BY <1>1, <1>0, LifeWritten, LifeNames DEF ImportHistorical
  <2>2. UNCHANGED Sending /\ l \in ExternalLogs
    BY <1>1, <1>s DEF ImportHistorical
  <2> QED
    BY <2>1, <2>2 DEF Life!LifeNext, Life!Import, Life!Becomes
<1>2. ASSUME NEW l \in Logs, CreateOrPromote(l) PROVE Goal
  <2>1. PICK st \in InitialOf(l) : log' = [log EXCEPT ![l] = Row(st, "none")]
    BY <1>2 DEF CreateOrPromote
  <2>2. st \in Recorded \ {"imported"}
    BY DEF InitialOf, Recorded
  <2>3. log[l].status \in {"absent", "imported"}
    BY <1>2 DEF CreateOrPromote, Writes, PromotionCurrent
  <2>4. Lives' = [Lives EXCEPT ![l] = LifeOf(st)]
    BY <2>1, LifeWritten
  <2>5. LifeOf(st) \in {"kept", "ready", "archived"} /\ Lives[l] \in {"none", "history"}
    BY <1>0, <2>2, <2>3 DEF LifeOf, Recorded, Incomplete
  <2>6. UNCHANGED Sending
    BY <1>2, <1>s DEF CreateOrPromote
  <2> QED
    BY <2>4, <2>5, <2>6 DEF Life!LifeNext, Life!Record, Life!Becomes
<1>3. ASSUME NEW h \in Handlers, NEW l \in Logs, SendManualTestEvent(h, l) PROVE Goal
  <2>1. PICK st \in InitialStatuses : log' = [log EXCEPT ![l] = Row(st, "none")]
    BY <1>3 DEF SendManualTestEvent
  <2>2. st \in Recorded \ {"imported"}
    OBVIOUS
  <2>3. Lives' = [Lives EXCEPT ![l] = LifeOf(st)] /\ Lives[l] = "none"
    BY <1>0, <1>3, <2>1, LifeWritten, LifeNames DEF SendManualTestEvent
  <2>4. LifeOf(st) \in {"kept", "ready", "archived"}
    BY <2>2 DEF LifeOf, Recorded, Incomplete
  <2>5. UNCHANGED Sending
    <3>1. ~Committed(h) /\ ~Committed(h)' /\ \A t \in Senders : t # h => sender'[t] = sender[t]
      BY <1>3 DEF SendManualTestEvent, Committed, TypeOK, Senders
    <3> QED
      BY <3>1 DEF Sending, Committed, On
  <2> QED
    BY <2>3, <2>4, <2>5 DEF Life!LifeNext, Life!Record, Life!Becomes
<1>4. ASSUME NEW w \in Workers, NEW l \in Logs, TakeJob(w, l) PROVE Goal
  <2>1. ~Committed(w) /\ ~Committed(w)' /\ \A t \in Senders : t # w => sender'[t] = sender[t]
    BY <1>4 DEF TakeJob, Committed, TypeOK, Senders
  <2>2. UNCHANGED Sending
    BY <2>1 DEF Sending, Committed, On
  <2> QED
    BY <1>4, <2>2, LifeUnwritten DEF TakeJob
<1>5. ASSUME NEW s \in Senders, LoadLog(s) PROVE Goal
  <2>1. Busy(s) /\ UNCHANGED log /\ PreWrite(s) /\ ~Committed(s)
    BY <1>5 DEF LoadLog, Busy, PreWrite, Committed
  <2>2. On(s) \in Logs
    BY <2>1, OnBusy
  <2>3. CASE Ready(On(s))
    <3>1. Goto(s, "own", "none")
      BY <1>5, <2>3 DEF LoadLog
    <3>2. Committed(s)' /\ On(s)' = On(s) /\ \A t \in Senders : t # s => sender'[t] = sender[t]
      BY <2>1, <3>1, GotoEffect DEF Committed, SenderPCs
    <3>3. Sending' = Sending \cup {On(s)}
      BY <2>1, <3>2, SendingMoves
    <3>4. On(s) \notin Sending
      BY <2>1, WritersApart DEF Sending, Committed, PreWrite
    <3>5. Lives[On(s)] = "ready" /\ UNCHANGED Lives
      BY <1>0, <2>1, <2>2, <2>3, LifeUnwritten DEF Ready, LifeOf
    <3> QED
      BY <2>2, <3>3, <3>4, <3>5 DEF Life!LifeNext, Life!Claim
  <2>4. CASE ~Ready(On(s))
    <3>1. Goto(s, "finish", "skipped")
      BY <1>5, <2>4 DEF LoadLog
    <3>2. ~Committed(s)' /\ \A t \in Senders : t # s => sender'[t] = sender[t]
      BY <2>1, <3>1, GotoEffect DEF Committed, SenderPCs
    <3> QED
      BY <2>1, <3>2, SendingMoves, LifeUnwritten
  <2> QED
    BY <2>3, <2>4
<1>6. ASSUME NEW s \in Senders, CheckOwnership(s) \/ PostEvent(s) PROVE Goal
  <2>1. Busy(s) /\ UNCHANGED log /\ Committed(s)
    BY <1>6 DEF CheckOwnership, PostEvent, Busy, Committed
  <2>2. \E pc \in {"post", "archive", "write"}, r \in Results : Goto(s, pc, r)
    BY <1>6 DEF CheckOwnership, PostEvent, Results
  <2>3. Committed(s)' /\ On(s)' = On(s) /\ \A t \in Senders : t # s => sender'[t] = sender[t]
    BY <2>1, <2>2, GotoEffect DEF Committed, SenderPCs
  <2> QED
    BY <2>1, <2>3, SendingMoves, LifeUnwritten
<1>7. ASSUME NEW s \in Senders, ArchiveUnowned(s) PROVE Goal
  <2>1. Busy(s) /\ Committed(s) /\ Goto(s, "finish", "skipped") /\ On(s) \in ExternalLogs
    BY <1>7 DEF ArchiveUnowned, Busy, Committed, HomeOwned
  <2>2. Sending' = Sending \ {On(s)} /\ On(s) \in Sending
    BY <2>1, GotoEffect, SendingMoves DEF Committed, SenderPCs, Sending
  <2>3. CASE Ready(On(s))
    <3>1. log' = [log EXCEPT ![On(s)] = Row("shadow_observed", "none")]
      BY <1>7, <2>3 DEF ArchiveUnowned
    <3>2. Lives' = [Lives EXCEPT ![On(s)] = "archived"] /\ Lives[On(s)] = "ready"
      <4>1. On(s) \in Logs
        BY <2>1
      <4>2. Lives' = [Lives EXCEPT ![On(s)] = LifeOf("shadow_observed")]
        BY <3>1, <4>1, LifeWritten
      <4>3. Lives[On(s)] = LifeOf("ready_to_send")
        BY <1>0, <2>3, <4>1 DEF Ready
      <4> QED
        BY <4>2, <4>3, LifeNames
    <3> QED
      BY <2>1, <2>2, <3>2 DEF Life!LifeNext, Life!Leave, Life!Becomes
  <2>4. CASE ~Ready(On(s))
    <3>1. UNCHANGED log
      BY <1>7, <2>4 DEF ArchiveUnowned
    <3> QED
      BY <2>1, <2>2, <3>1, LifeUnwritten DEF Life!LifeNext, Life!Leave
  <2> QED
    BY <2>3, <2>4
<1>8. ASSUME NEW s \in Senders, WriteResult(s) PROVE Goal
  <2>1. /\ Busy(s) /\ Committed(s) /\ Goto(s, "mirror", sender[s].result)
        /\ log' = [log EXCEPT ![On(s)] = Row(StatusOf(sender[s].result), IF sender[s].result = "sent" THEN "none" ELSE sender[s].result)]
    BY <1>8 DEF WriteResult, Busy, Committed
  <2>2. On(s) \in Logs
    BY <2>1, OnBusy
  <2>3. Sending' = Sending \ {On(s)} /\ On(s) \in Sending
    BY <2>1, <2>2, GotoEffect, SendingMoves DEF Committed, SenderPCs, Sending
  <2>4. Lives' = [Lives EXCEPT ![On(s)] = LifeOf(StatusOf(sender[s].result))]
    BY <2>1, <2>2, LifeWritten
  <2>5. LifeOf(StatusOf(sender[s].result)) \in {"sent", "failed"}
    BY DEF LifeOf, StatusOf
  <2> QED
    BY <2>2, <2>3, <2>4, <2>5 DEF Life!LifeNext, Life!Settle, Life!Becomes
<1>9. ASSUME NEW s \in Senders, SyncExecution(s) \/ SyncReview(s) PROVE Goal
  <2>1. Busy(s) /\ UNCHANGED log /\ ~Committed(s)
    BY <1>9 DEF SyncExecution, SyncReview, Busy, Committed
  <2>2. \E pc \in {"review", "finish"} : Goto(s, pc, sender[s].result)
    BY <1>9 DEF SyncExecution, SyncReview
  <2>3. ~Committed(s)' /\ \A t \in Senders : t # s => sender'[t] = sender[t]
    BY <2>1, <2>2, GotoEffect DEF Committed, SenderPCs
  <2> QED
    BY <2>1, <2>3, SendingMoves, LifeUnwritten
<1>10. ASSUME NEW s \in Senders, Finish(s) \/ SenderThrows(s) \/ SenderCrashes(s) PROVE Goal
  <2>1. Busy(s) /\ UNCHANGED log
    BY <1>10 DEF Finish, SenderThrows, SenderCrashes, Busy
  <2>2. sender' = [sender EXCEPT ![s] = Idle] \/ Goto(s, "finish", "threw")
    BY <1>10 DEF Finish, SenderThrows, SenderCrashes
  <2>3. ~Committed(s)' /\ \A t \in Senders : t # s => sender'[t] = sender[t]
    BY <2>1, <2>2, GotoEffect, IdleEffect DEF Committed, SenderPCs
  <2>4. CASE Committed(s)
    <3>1. Sending' = Sending \ {On(s)} /\ On(s) \in Sending /\ On(s) \in Logs
      BY <2>1, <2>3, <2>4, SendingMoves, OnBusy DEF Sending
    <3> QED
      BY <2>1, <3>1, LifeUnwritten DEF Life!LifeNext, Life!Leave
  <2>5. CASE ~Committed(s)
    BY <2>1, <2>3, <2>5, SendingMoves, LifeUnwritten
  <2> QED
    BY <2>4, <2>5
<1>11. ASSUME NEW o \in Operators, ClaimRetry(o) PROVE Goal
  <2> DEFINE l == op[o].log
  <2>1. l \in Logs /\ op[o].seen = Row("error", "network") /\ UNCHANGED sender
    BY <1>11, OpOnLog DEF ClaimRetry, SeenTransient
  <2>2. CASE log[l] = op[o].seen
    <3>1. log' = [log EXCEPT ![l] = Row("ready_to_send", "none")]
      BY <1>11, <2>2 DEF ClaimRetry
    <3>2. Lives' = [Lives EXCEPT ![l] = "ready"] /\ Lives[l] = "failed"
      <4>1. log[l].status = "error"
        BY <2>1, <2>2 DEF Row
      <4>2. Lives' = [Lives EXCEPT ![l] = LifeOf("ready_to_send")]
        BY <2>1, <3>1, LifeWritten
      <4> QED
        BY <1>0, <2>1, <4>1, <4>2, LifeNames
    <3> QED
      BY <1>s, <2>1, <3>2 DEF Life!LifeNext, Life!Retry, Life!Becomes
  <2>3. CASE log[l] # op[o].seen
    BY <1>11, <1>k, <2>1, <2>3 DEF ClaimRetry
  <2> QED
    BY <2>2, <2>3
<1>12. ASSUME NEW o \in Operators, CompensateRetry(o) PROVE Goal
  <2> DEFINE l == op[o].log
  <2>1. l \in Logs /\ op[o].seen = Row("error", "network") /\ UNCHANGED sender
    BY <1>12, OpOnLog DEF CompensateRetry, SeenTransient
  <2>2. CASE Ready(l)
    <3>1. log' = [log EXCEPT ![l] = Row("error", "network")]
      BY <1>12, <2>1, <2>2 DEF CompensateRetry
    <3>2. Lives' = [Lives EXCEPT ![l] = "failed"] /\ Lives[l] = "ready"
      <4>1. Lives' = [Lives EXCEPT ![l] = LifeOf("error")]
        BY <2>1, <3>1, LifeWritten
      <4>2. Lives[l] = LifeOf("ready_to_send")
        BY <1>0, <2>1, <2>2 DEF Ready
      <4> QED
        BY <4>1, <4>2, LifeNames
    <3> QED
      BY <1>s, <2>1, <3>2 DEF Life!LifeNext, Life!TakeBack, Life!Becomes
  <2>3. CASE ~Ready(l)
    BY <1>12, <1>k, <2>1, <2>3 DEF CompensateRetry
  <2> QED
    BY <2>2, <2>3
<1>13. ASSUME ActivateCapiCutover \/ RollbackCapiCutover PROVE Goal
  <2>1. ArchiveReady /\ UNCHANGED sender
    BY <1>13 DEF ActivateCapiCutover, RollbackCapiCutover
  <2>2. Lives' = [l \in Logs |-> IF l \in ExternalLogs /\ Lives[l] = "ready" THEN "archived" ELSE Lives[l]]
    <3>1. \A l \in Logs : Lives[l] = "ready" <=> Ready(l)
      BY <1>0 DEF LifeOf, Ready
    <3>2. \A l \in Logs : LifeOf(log'[l].status) = IF l \in ExternalLogs /\ Lives[l] = "ready" THEN "archived" ELSE Lives[l]
      BY <1>0, <2>1, <3>1 DEF ArchiveReady, Row, LifeOf
    <3> QED
      BY <3>2 DEF Lives
  <2> QED
    BY <1>s, <2>1, <2>2 DEF Life!LifeNext, Life!Archive
<1>14. ASSUME NEW l \in Logs,
              \/ FindExisting(l) \/ ReportKnown(l) \/ EnqueueRecorded(l) \/ ProducerFails(l) \/ BackoffElapses(l)
              \/ DetectStalled(l) \/ \E o \in Operators : ReadForRetry(o, l)
       PROVE  Goal
  BY <1>14, <1>k DEF FindExisting, ReportKnown, EnqueueRecorded, ProducerFails, BackoffElapses, DetectStalled, ReadForRetry
<1>15. ASSUME NEW o \in Operators,
              \/ GetJob(o) \/ GetState(o) \/ PromoteJob(o) \/ RemoveJob(o) \/ EnqueueRetry(o)
              \/ QueueFails(o) \/ OperatorCrashes(o)
       PROVE  Goal
  BY <1>15, <1>k DEF GetJob, GetState, PromoteJob, RemoveJob, EnqueueRetry, QueueFails, OperatorCrashes
<1>16. ASSUME UNCHANGED vars PROVE Goal
  BY <1>16, <1>k DEF vars
<1> HIDE DEF Goal
<1> QED
  BY <1>1, <1>2, <1>3, <1>4, <1>5, <1>6, <1>7, <1>8, <1>9, <1>10, <1>11, <1>12, <1>13, <1>14, <1>15, <1>16
  DEF Next, RecordExternalConversion, SenderStep, RetryStep

LEMMA LifeBegins == Init => HomeOwned /\ Life!LifeInit
<1> SUFFICES ASSUME Init PROVE HomeOwned /\ Life!LifeInit
  OBVIOUS
<1>1. \A s \in Senders : sender[s].pc = "idle"
  BY DEF Init, Idle
<1>2. HomeOwned
  BY <1>1 DEF Init, HomeOwned
<1>3. Lives = [l \in Logs |-> "none"]
  BY DEF Init, Lives, LifeOf, Row
<1>4. Sending = {}
  BY <1>1 DEF Sending, Committed
<1> QED
  BY <1>2, <1>3, <1>4 DEF Life!LifeInit

(* The delivery implements the life of an event: however jobs, workers,     *)
(* retries of transient failures, compensations, cutovers, redeliveries and *)
(* crashes interleave, the rows only show steps of EventLife.               *)
THEOREM DeliveryImplementsLife == Owners = Operators => (Spec => ImplementsLife)
<1> SUFFICES ASSUME Owners = Operators PROVE Spec => ImplementsLife
  OBVIOUS
<1>1. SendSafe /\ HomeOwned /\ [Next]_vars => SendSafe' /\ HomeOwned' /\ [Life!LifeNext]_(Life!lifeVars)
  BY SendSafeNext, HomeOwnedNext, LifeSteps DEF SendSafe
<1> QED
  BY <1>1, LifeBegins, SendSafeInit, PTL DEF Spec, ImplementsLife, Life!LifeSpec

(* So what was sent, or left to n8n, is changed only by an attempt that had *)
(* found the event ready before.                                            *)
THEOREM LifeUndisturbed == Owners = Operators => (Spec => Life!Undisturbed)
<1> SUFFICES ASSUME Owners = Operators PROVE Spec => Life!Undisturbed
  OBVIOUS
<1>1. [Life!LifeNext]_(Life!lifeVars) =>
        [\A e \in Logs \ Sending : Lives[e] \in {"sent", "archived"} => Lives'[e] = Lives[e]]_(Life!lifeVars)
  <2> SUFFICES ASSUME Life!LifeNext, NEW l \in Logs \ Sending, Lives[l] \in {"sent", "archived"}
               PROVE  Lives'[l] = Lives[l]
    BY DEF Life!lifeVars
  <2>1. DOMAIN Lives = Logs /\ Lives = [k \in Logs |-> Lives[k]]
    BY DEF Lives
  <2> QED
    BY <2>1 DEF Life!LifeNext, Life!Archive, Life!Import, Life!Claim, Life!Leave, Life!Retry,
                Life!TakeBack, Life!Record, Life!Settle, Life!Becomes
<1>2. Spec => Life!LifeSpec
  BY DeliveryImplementsLife DEF ImplementsLife
<1> QED
  BY <1>1, <1>2, PTL DEF Life!LifeSpec, Life!Undisturbed

(***************************************************************************)
(* The execution and the review of a tracked log tell the outcome of its   *)
(* row.  A sender past its write knows the result of the row, or the row   *)
(* was claimed for a retry since; an operator past its claim restores what *)
(* the others still tell.                                                  *)
(***************************************************************************)
OutcomeRow(r) == Row(StatusOf(r), IF r = "sent" THEN "none" ELSE r)

Wrote(s) == sender[s].pc \in {"mirror", "review", "finish"} /\ sender[s].result \in PostResults

Told(l, r) == mirror[l] = TechnicalDelivery(r) /\ review[l] = IF r = "sent" THEN "sent" ELSE "failed"

Claimed(l) == \E o \in Operators : op[o].log = l /\ op[o].pc \notin {"idle", "claim"}

Telling(l) == \E s \in Senders : Wrote(s) /\ On(s) = l

(* The row is absent, ready or an outcome, and before it exists nobody can *)
(* retry it or have told of it.                                            *)
TrackedRow(l) ==
  /\ log[l].status \in {"absent", "ready_to_send"} \/ \E r \in PostResults : log[l] = OutcomeRow(r)
  /\ log[l].status = "absent" => \A o \in Operators : op[o].log # l
  /\ review[l] = "none" => log[l].status = "absent"
  /\ review[l] = "sent" => log[l].status = "sent"

(* What the sender past its write on l has still to tell. *)
TellerKnows(l) ==
  \A s \in Senders : Wrote(s) /\ On(s) = l =>
    /\ log[l] = OutcomeRow(sender[s].result) \/ (Ready(l) /\ sender[s].result = "network")
    /\ sender[s].pc \in {"review", "finish"} => mirror[l] = TechnicalDelivery(sender[s].result)
    /\ sender[s].pc = "finish" => Told(l, sender[s].result)

(* Without such a sender everything is told. *)
AllTold(l) ==
  ~Telling(l) =>
    /\ \A r \in PostResults : log[l] = OutcomeRow(r) => Told(l, r)
    /\ Ready(l) /\ Claimed(l) => Told(l, "network")

Mirrored(l) == TrackedRow(l) /\ TellerKnows(l) /\ AllTold(l)

MirrorInv == used.faults = 0 => \A l \in TrackedLogs : Mirrored(l)

(* Outcomes are told apart by their rows. *)
LEMMA OutcomeRows ==
  /\ \A r \in PostResults : /\ OutcomeRow(r).status \in Outcomes
                            /\ OutcomeRow(r).status = "sent" <=> r = "sent"
                            /\ ResultOf(OutcomeRow(r)) = r
  /\ \A q, r \in PostResults : OutcomeRow(q) = OutcomeRow(r) => q = r
  /\ OutcomeRow("network") = Row("error", "network")
  /\ \A e : Row("ready_to_send", e).status = "ready_to_send"
<1>1. \A r \in PostResults : /\ OutcomeRow(r).status \in Outcomes
                             /\ OutcomeRow(r).status = "sent" <=> r = "sent"
                             /\ ResultOf(OutcomeRow(r)) = r
  BY DEF OutcomeRow, Row, StatusOf, PostResults, Outcomes, ResultOf
<1>2. \A q, r \in PostResults : OutcomeRow(q) = OutcomeRow(r) => q = r
  BY <1>1
<1> QED
  BY <1>1, <1>2 DEF OutcomeRow, Row, StatusOf

(* A tracked log has one sender at most: the worker of its job. *)
LEMMA TrackedAlone ==
  ASSUME SendSafe, NEW l \in TrackedLogs, NEW s \in Senders, NEW t \in Senders, Busy(s), Busy(t),
         On(s) = l, On(t) = l
  PROVE  s = t
<1>1. l \notin ManualLogs
  BY DeliveryAssumption
<1>2. s \in Workers /\ t \in Workers
  BY <1>1 DEF SendSafe, JobLock, Senders
<1> QED
  BY <1>2 DEF SendSafe, JobLock

(* A step that touches neither the row nor what tells it, on which nobody  *)
(* passes a write, leaves after one, or claims.                            *)
LEMMA MirrorFrame ==
  ASSUME NEW l \in TrackedLogs, Mirrored(l), log'[l] = log[l], mirror'[l] = mirror[l], review'[l] = review[l],
         \A s \in Senders : \/ sender'[s] = sender[s]
                            \/ ~(Wrote(s) /\ On(s) = l) /\ ~(Wrote(s)' /\ On(s)' = l),
         \A o \in Operators : op'[o].log = l =>
           /\ op[o].log = l \/ log[l].status # "absent"
           /\ op'[o].pc \notin {"idle", "claim"} => op[o].log = l /\ op[o].pc \notin {"idle", "claim"}
  PROVE  Mirrored(l)'
<1>1. \A s \in Senders : Wrote(s)' /\ On(s)' = l => Wrote(s) /\ On(s) = l /\ sender'[s] = sender[s]
  BY DEF Wrote, On
<1>2. Telling(l)' <=> Telling(l)
  BY DEF Telling, Wrote, On
<1>3. Claimed(l)' => Claimed(l)
  BY DEF Claimed
<1>4. TrackedRow(l)'
  BY DEF Mirrored, TrackedRow
<1>5. TellerKnows(l)'
  BY <1>1 DEF Mirrored, TellerKnows, Ready, Told
<1>6. AllTold(l)'
  BY <1>2, <1>3 DEF Mirrored, AllTold, Ready, Told
<1> QED
  BY <1>4, <1>5, <1>6 DEF Mirrored

(* A step of one sender alone, on its log, that passes no write. *)
LEMMA MirrorSender ==
  ASSUME NEW l \in TrackedLogs, Mirrored(l), NEW s \in Senders, \A t \in Senders : t # s => sender'[t] = sender[t],
         ~(Wrote(s) /\ On(s) = l), ~(Wrote(s)' /\ On(s)' = l), UNCHANGED op,
         log'[l] = log[l], mirror'[l] = mirror[l], review'[l] = review[l]
  PROVE  Mirrored(l)'
<1>1. \A t \in Senders : \/ sender'[t] = sender[t]
                         \/ ~(Wrote(t) /\ On(t) = l) /\ ~(Wrote(t)' /\ On(t)' = l)
  OBVIOUS
<1>2. \A o \in Operators : op'[o].log = l =>
         /\ op[o].log = l \/ log[l].status # "absent"
         /\ op'[o].pc \notin {"idle", "claim"} => op[o].log = l /\ op[o].pc \notin {"idle", "claim"}
  OBVIOUS
<1> QED
  BY <1>1, <1>2, MirrorFrame

(* A step of one operator alone, that claims nothing. *)
LEMMA MirrorOperator ==
  ASSUME TypeOK, NEW l \in TrackedLogs, Mirrored(l), NEW o \in Operators, UNCHANGED sender,
         \A p \in Operators : p # o => op'[p] = op[p],
         op'[o].log = l => /\ op[o].log = l \/ log[l].status # "absent"
                           /\ op'[o].pc = "claim" \/ (op[o].log = l /\ op[o].pc \notin {"idle", "claim"}),
         log'[l] = log[l], mirror'[l] = mirror[l], review'[l] = review[l]
  PROVE  Mirrored(l)'
<1>1. \A p \in Operators : op'[p].log = l =>
         /\ op[p].log = l \/ log[l].status # "absent"
         /\ op'[p].pc \notin {"idle", "claim"} => op[p].log = l /\ op[p].pc \notin {"idle", "claim"}
  OBVIOUS
<1> QED
  BY <1>1, MirrorFrame

LEMMA MirrorNext ==
  ASSUME SendSafe, HomeOwned, MirrorInv, [Next]_vars, used'.faults = 0, NEW l \in TrackedLogs
  PROVE  Mirrored(l)'
<1> USE DeliveryAssumption
<1>f. used.faults = 0 /\ ~Fault
  BY AckMoves DEF SendSafe, TypeOK, Fault, Used
<1>i. Mirrored(l) /\ l \in Logs /\ TypeOK
  BY <1>f DEF MirrorInv, SendSafe
<1>x. l \notin ExternalLogs /\ l \notin ManualLogs
  OBVIOUS
<1>0. ASSUME UNCHANGED <<sender, op>>, log'[l] = log[l], mirror'[l] = mirror[l], review'[l] = review[l] PROVE Mirrored(l)'
  BY <1>0, <1>i, MirrorFrame
<1>1. ASSUME NEW k \in Logs, ImportHistorical(k) PROVE Mirrored(l)'
  BY <1>0, <1>1, <1>i, <1>x DEF ImportHistorical, TypeOK
<1>2. ASSUME NEW k \in Logs, CreateOrPromote(k) PROVE Mirrored(l)'
  <2>1. CASE k # l
    <3>1. PICK st \in InitialOf(k) : log' = [log EXCEPT ![k] = Row(st, "none")]
      BY <1>2 DEF CreateOrPromote
    <3>2. log'[l] = log[l] /\ mirror'[l] = mirror[l] /\ review'[l] = review[l]
      BY <1>2, <1>i, <2>1, <3>1 DEF CreateOrPromote, TypeOK
    <3> QED
      BY <1>2, <1>0, <3>2 DEF CreateOrPromote
  <2>2. CASE k = l
    <3>1. log[l].status = "absent"
      BY <1>2, <1>i, <2>2, OutcomeRows
      DEF CreateOrPromote, Writes, SendSafe, PromotionCurrent, Mirrored, TrackedRow, Outcomes
    <3>2. /\ log'[l] = Row("ready_to_send", "none") /\ mirror'[l] = "queued" /\ review'[l] = "approved"
          /\ UNCHANGED <<sender, op>>
      BY <1>2, <1>i, <2>2 DEF CreateOrPromote, InitialOf, TypeOK
    <3>3. \A o \in Operators : op[o].log # l
      BY <1>i, <3>1 DEF Mirrored, TrackedRow
    <3>4. ~Telling(l) /\ ~Telling(l)' /\ ~Claimed(l)'
      <4>1. ~Telling(l)
        BY <1>i, <3>1, OutcomeRows DEF Telling, Mirrored, TellerKnows, Ready, Outcomes, Wrote
      <4> QED
        BY <3>2, <3>3, <4>1 DEF Telling, Wrote, On, Claimed
    <3>5. log'[l].status = "ready_to_send" /\ \A r \in PostResults : log'[l] # OutcomeRow(r)
      BY <3>2, OutcomeRows DEF Outcomes
    <3>6. TrackedRow(l)'
      BY <3>2, <3>5 DEF TrackedRow
    <3>7. TellerKnows(l)'
      BY <3>4 DEF TellerKnows, Telling
    <3>8. AllTold(l)'
      BY <3>4, <3>5 DEF AllTold
    <3> QED
      BY <3>6, <3>7, <3>8 DEF Mirrored
  <2> QED
    BY <2>1, <2>2
<1>3. ASSUME NEW h \in Handlers, NEW k \in Logs, SendManualTestEvent(h, k) PROVE Mirrored(l)'
  <2>1. /\ h \in Senders /\ ~Wrote(h) /\ ~Wrote(h)' /\ UNCHANGED <<op, mirror, review>> /\ log'[l] = log[l]
        /\ \A t \in Senders : t # h => sender'[t] = sender[t]
    BY <1>3, <1>i, <1>x DEF SendManualTestEvent, Wrote, TypeOK, Senders
  <2> QED
    BY <1>i, <2>1, MirrorSender
<1>4. ASSUME NEW w \in Workers, NEW k \in Logs, TakeJob(w, k) PROVE Mirrored(l)'
  <2>1. /\ w \in Senders /\ ~Wrote(w) /\ ~Wrote(w)' /\ UNCHANGED <<op, mirror, review, log>>
        /\ \A t \in Senders : t # w => sender'[t] = sender[t]
    BY <1>4, <1>i DEF TakeJob, Wrote, TypeOK, Senders
  <2> QED
    BY <1>i, <2>1, MirrorSender
<1>5. ASSUME NEW s \in Senders, LoadLog(s) \/ CheckOwnership(s) \/ PostEvent(s) PROVE Mirrored(l)'
  <2>1. /\ ~Wrote(s) /\ UNCHANGED <<op, mirror, review, log>> /\ Busy(s)
    BY <1>5 DEF LoadLog, CheckOwnership, PostEvent, Wrote, Busy
  <2>2. \/ \E pc \in {"own", "post", "archive", "write"}, r \in Results : Goto(s, pc, r)
        \/ Goto(s, "finish", "skipped")
    BY <1>5 DEF LoadLog, CheckOwnership, PostEvent, Results
  <2>3. ~Wrote(s)' /\ \A t \in Senders : t # s => sender'[t] = sender[t]
    BY <1>i, <2>1, <2>2, GotoEffect DEF Wrote, PostResults, SenderPCs
  <2> QED
    BY <1>i, <2>1, <2>3, MirrorSender
<1>6. ASSUME NEW s \in Senders, ArchiveUnowned(s) PROVE Mirrored(l)'
  <2>1. ~Wrote(s) /\ UNCHANGED <<op, mirror, review>> /\ Busy(s) /\ On(s) \in ExternalLogs /\ Goto(s, "finish", "skipped")
    BY <1>6 DEF ArchiveUnowned, Wrote, Busy, HomeOwned
  <2>2. log'[l] = log[l]
    BY <1>6, <1>x, <2>1, <1>i DEF ArchiveUnowned, TypeOK
  <2>3. ~Wrote(s)' /\ \A t \in Senders : t # s => sender'[t] = sender[t]
    BY <1>i, <2>1, GotoEffect DEF Wrote, PostResults, SenderPCs
  <2> QED
    BY <1>i, <2>1, <2>2, <2>3, MirrorSender
<1>s. ASSUME NEW s \in Senders, On(s) # l, On(s)' # l, \A t \in Senders : t # s => sender'[t] = sender[t],
             UNCHANGED op, log'[l] = log[l], mirror'[l] = mirror[l], review'[l] = review[l]
      PROVE  Mirrored(l)'
  BY <1>s, <1>i, MirrorSender
(* The sender s is alone on l, before and after its step. *)
<1>a. ASSUME NEW s \in Senders, Busy(s), On(s) = l, \A t \in Senders : t # s => sender'[t] = sender[t]
      PROVE  \A t \in Senders : t # s => ~(Wrote(t) /\ On(t) = l) /\ ~(Wrote(t)' /\ On(t)' = l)
  BY <1>a, TrackedAlone DEF Wrote, Busy, On
<1>7. ASSUME NEW s \in Senders, WriteResult(s) PROVE Mirrored(l)'
  <2>1. /\ Busy(s) /\ Goto(s, "mirror", sender[s].result) /\ UNCHANGED <<op, mirror, review>>
        /\ log' = [log EXCEPT ![On(s)] = OutcomeRow(sender[s].result)] /\ sender[s].pc = "write"
    BY <1>7 DEF WriteResult, Busy, OutcomeRow
  <2>2. /\ sender'[s].pc = "mirror" /\ sender'[s].result = sender[s].result /\ On(s)' = On(s)
        /\ \A t \in Senders : t # s => sender'[t] = sender[t]
    BY <1>i, <2>1, GotoEffect DEF SenderPCs
  <2>3. CASE On(s) # l
    BY <1>i, <1>s, <2>1, <2>2, <2>3 DEF TypeOK
  <2>4. CASE On(s) = l
    <3> DEFINE r == sender[s].result
    <3>1. log'[l] = OutcomeRow(r) /\ r \in PostResults
      BY <1>i, <2>1, <2>4, BusyOnLog DEF TypeOK, At
    <3>2. Wrote(s)' /\ On(s)' = l
      BY <2>2, <2>4, <3>1 DEF Wrote
    <3>3. log[l].status \notin {"absent", "sent"}
      BY <2>1, <2>4 DEF SendSafe, CommittedUnsent, Committed
    <3>4. TrackedRow(l)'
      <4>1. review[l] # "none" /\ review[l] # "sent" /\ log'[l].status # "absent"
        BY <1>i, <3>1, <3>3, OutcomeRows DEF Mirrored, TrackedRow, Outcomes
      <4> QED
        BY <2>1, <3>1, <4>1 DEF TrackedRow
    <3>5. TellerKnows(l)'
      BY <1>a, <2>1, <2>2, <2>4, <3>1 DEF TellerKnows
    <3>6. AllTold(l)'
      BY <3>2 DEF AllTold, Telling
    <3> QED
      BY <3>4, <3>5, <3>6 DEF Mirrored
  <2> QED
    BY <2>3, <2>4
<1>8. ASSUME NEW s \in Senders, SyncExecution(s) PROVE Mirrored(l)'
  <2>1. /\ Busy(s) /\ Goto(s, "review", sender[s].result) /\ UNCHANGED <<op, log, review>> /\ sender[s].pc = "mirror"
        /\ mirror' = IF On(s) \in TrackedLogs THEN [mirror EXCEPT ![On(s)] = TechnicalDelivery(sender[s].result)] ELSE mirror
    BY <1>8 DEF SyncExecution, Busy
  <2>2. /\ sender'[s].pc = "review" /\ sender'[s].result = sender[s].result /\ On(s)' = On(s)
        /\ \A t \in Senders : t # s => sender'[t] = sender[t]
    BY <1>i, <2>1, GotoEffect DEF SenderPCs
  <2>3. CASE On(s) # l
    BY <1>i, <1>s, <2>1, <2>2, <2>3 DEF TypeOK
  <2>4. CASE On(s) = l
    <3>1. Wrote(s) /\ Wrote(s)' /\ mirror'[l] = TechnicalDelivery(sender[s].result)
      BY <1>i, <2>1, <2>2, <2>4, BusyOnLog DEF TypeOK, At, Wrote
    <3>2. TrackedRow(l)'
      BY <1>i, <2>1 DEF Mirrored, TrackedRow
    <3>3. TellerKnows(l)'
      BY <1>a, <1>i, <2>1, <2>2, <2>4, <3>1 DEF Mirrored, TellerKnows, Ready
    <3>4. AllTold(l)'
      BY <2>2, <2>4, <3>1 DEF AllTold, Telling
    <3> QED
      BY <3>2, <3>3, <3>4 DEF Mirrored
  <2> QED
    BY <2>3, <2>4
<1>9. ASSUME NEW s \in Senders, SyncReview(s) PROVE Mirrored(l)'
  <2>1. /\ Busy(s) /\ Goto(s, "finish", sender[s].result) /\ UNCHANGED <<op, log, mirror>> /\ sender[s].pc = "review"
        /\ review' = IF review[On(s)] \in {"approved", "failed"}
                       THEN [review EXCEPT ![On(s)] = IF sender[s].result = "sent" THEN "sent" ELSE "failed"] ELSE review
    BY <1>9 DEF SyncReview, Busy
  <2>2. /\ sender'[s].pc = "finish" /\ sender'[s].result = sender[s].result /\ On(s)' = On(s)
        /\ \A t \in Senders : t # s => sender'[t] = sender[t]
    BY <1>i, <2>1, GotoEffect DEF SenderPCs
  <2>3. CASE On(s) # l
    BY <1>i, <1>s, <2>1, <2>2, <2>3 DEF TypeOK
  <2>4. CASE On(s) = l
    <3> DEFINE r == sender[s].result
    <3>1. Wrote(s) /\ Wrote(s)' /\ mirror[l] = TechnicalDelivery(r) /\ r \in PostResults
      BY <1>i, <2>1, <2>2, <2>4, BusyOnLog DEF TypeOK, At, Wrote, Mirrored, TellerKnows
    <3>2. log[l] = OutcomeRow(r) \/ (Ready(l) /\ r = "network")
      BY <1>i, <2>4, <3>1 DEF Mirrored, TellerKnows
    <3>3. log[l].status # "absent" /\ (log[l].status = "sent" <=> r = "sent")
      BY <3>1, <3>2, OutcomeRows DEF Ready, Outcomes
    <3>4. review[l] # "none" /\ (review[l] = "sent" => r = "sent") /\ review[l] \in Reviews
      BY <1>i, <3>3 DEF Mirrored, TrackedRow, TypeOK
    <3>5. review'[l] = IF r = "sent" THEN "sent" ELSE "failed"
      BY <1>i, <2>1, <2>4, <3>4 DEF Reviews, TypeOK
    <3>6. TrackedRow(l)'
      BY <1>i, <2>1, <3>3, <3>5 DEF Mirrored, TrackedRow
    <3>7. TellerKnows(l)'
      BY <1>a, <2>1, <2>2, <2>4, <3>1, <3>2, <3>5 DEF TellerKnows, Ready, Told
    <3>8. AllTold(l)'
      BY <2>2, <2>4, <3>1 DEF AllTold, Telling
    <3> QED
      BY <3>6, <3>7, <3>8 DEF Mirrored
  <2> QED
    BY <2>3, <2>4
<1>10. ASSUME NEW s \in Senders, Finish(s) PROVE Mirrored(l)'
  <2>1. Busy(s) /\ sender' = [sender EXCEPT ![s] = Idle] /\ UNCHANGED <<op, log, mirror, review>> /\ sender[s].pc = "finish"
    BY <1>10 DEF Finish, Busy
  <2>2. ~Wrote(s)' /\ On(s)' = NoLog /\ \A t \in Senders : t # s => sender'[t] = sender[t]
    BY <1>i, <2>1, IdleEffect DEF Wrote
  <2>3. CASE ~(Wrote(s) /\ On(s) = l)
    BY <1>i, <2>1, <2>2, <2>3, MirrorSender
  <2>4. CASE Wrote(s) /\ On(s) = l
    <3> DEFINE r == sender[s].result
    <3>1. Told(l, r) /\ r \in PostResults /\ (log[l] = OutcomeRow(r) \/ (Ready(l) /\ r = "network"))
      BY <1>i, <2>1, <2>4 DEF Mirrored, TellerKnows, Wrote
    <3>2. TrackedRow(l)'
      BY <1>i, <2>1 DEF Mirrored, TrackedRow
    <3>3. TellerKnows(l)'
      BY <1>a, <2>1, <2>2, <2>4 DEF TellerKnows
    <3>4. /\ \A q \in PostResults : log[l] = OutcomeRow(q) => Told(l, q)
          /\ Ready(l) => Told(l, "network")
      BY <3>1, OutcomeRows DEF Ready, Outcomes
    <3>5. AllTold(l)'
      BY <2>1, <3>4 DEF AllTold, Ready, Told
    <3> QED
      BY <3>2, <3>3, <3>5 DEF Mirrored
  <2> QED
    BY <2>3, <2>4
<1>11. ASSUME NEW o \in Operators, ClaimRetry(o) PROVE Mirrored(l)'
  <2>1. op[o].pc = "claim" /\ op[o].seen = Row("error", "network") /\ UNCHANGED <<sender, mirror, review>> /\ op[o].log \in Logs
    BY <1>11, <1>i, OpOnLog DEF ClaimRetry, SendSafe, SeenTransient
  <2>2. CASE log[op[o].log] # op[o].seen
    <3>1. UNCHANGED log /\ OpDone(o)
      BY <1>11, <2>2 DEF ClaimRetry
    <3>2. op'[o] = OpIdle /\ \A p \in Operators : p # o => op'[p] = op[p]
      BY <1>i, <3>1 DEF OpDone, TypeOK
    <3> QED
      BY <1>i, <2>1, <3>1, <3>2, MirrorOperator DEF OpIdle
  <2>3. CASE log[op[o].log] = op[o].seen
    <3>1. log' = [log EXCEPT ![op[o].log] = Row("ready_to_send", "none")] /\ OpGoto(o, "getJob")
      BY <1>11, <2>3 DEF ClaimRetry
    <3>2. op'[o].log = op[o].log /\ op'[o].pc = "getJob" /\ \A p \in Operators : p # o => op'[p] = op[p]
      BY <1>i, <3>1 DEF OpGoto, TypeOK
    <3>3. CASE op[o].log # l
      BY <1>i, <2>1, <3>1, <3>2, <3>3, MirrorOperator DEF TypeOK
    <3>4. CASE op[o].log = l
      <4>1. log[l] = OutcomeRow("network") /\ log'[l] = Row("ready_to_send", "none")
        BY <1>i, <2>1, <2>3, <3>1, <3>4, OutcomeRows DEF TypeOK
      <4>2. /\ log'[l].status = "ready_to_send" /\ log[l].status \notin {"absent", "sent"}
            /\ \A q \in PostResults : log'[l] # OutcomeRow(q)
            /\ \A q \in PostResults : log[l] = OutcomeRow(q) => q = "network"
        BY <4>1, OutcomeRows DEF Outcomes, PostResults, Row
      <4>3. TrackedRow(l)'
        BY <1>i, <2>1, <4>2 DEF Mirrored, TrackedRow
      <4>4. TellerKnows(l)'
        <5>1. \A s \in Senders : Wrote(s) /\ On(s) = l => sender[s].result = "network"
          BY <1>i, <4>2 DEF Mirrored, TellerKnows, Ready, Wrote
        <5> QED
          BY <1>i, <2>1, <4>2, <5>1 DEF Mirrored, TellerKnows, Ready, Told, Wrote, On
      <4>5. AllTold(l)'
        <5>1. ~Telling(l) => Told(l, "network")
          BY <1>i, <4>1 DEF Mirrored, AllTold, PostResults
        <5> QED
          BY <2>1, <4>2, <5>1 DEF AllTold, Telling, Wrote, On, Told
      <4> QED
        BY <4>3, <4>4, <4>5 DEF Mirrored
    <3> QED
      BY <3>3, <3>4
  <2> QED
    BY <2>2, <2>3
<1>12. ASSUME NEW o \in Operators, CompensateRetry(o) PROVE Mirrored(l)'
  <2>1. /\ op[o].pc = "compensate" /\ op[o].seen = OutcomeRow("network") /\ UNCHANGED <<sender, mirror, review>> /\ op[o].log \in Logs
        /\ OpDone(o)
    BY <1>12, <1>i, OpOnLog, OutcomeRows DEF CompensateRetry, SendSafe, SeenTransient
  <2>2. op'[o] = OpIdle /\ \A p \in Operators : p # o => op'[p] = op[p]
    BY <1>i, <2>1 DEF OpDone, TypeOK
  <2>3. CASE ~(op[o].log = l /\ Ready(l))
    <3>1. log'[l] = log[l]
      BY <1>12, <1>i, <2>1, <2>3 DEF CompensateRetry, TypeOK
    <3> QED
      BY <1>i, <2>1, <2>2, <3>1, MirrorOperator DEF OpIdle
  <2>4. CASE op[o].log = l /\ Ready(l)
    <3>1. log'[l] = OutcomeRow("network")
      BY <1>12, <1>i, <2>1, <2>4 DEF CompensateRetry, TypeOK
    <3>2. /\ log'[l].status \notin {"absent", "sent", "ready_to_send"} /\ "network" \in PostResults
          /\ \A q \in PostResults : log'[l] = OutcomeRow(q) => q = "network"
          /\ \A q \in PostResults : log[l] # OutcomeRow(q)
      BY <2>4, <3>1, OutcomeRows DEF Outcomes, PostResults, Ready
    <3>3. TrackedRow(l)'
      BY <1>i, <2>1, <2>4, <3>1, <3>2 DEF Mirrored, TrackedRow, Ready
    <3>4. TellerKnows(l)'
      <4>1. \A s \in Senders : Wrote(s) /\ On(s) = l => sender[s].result = "network"
        BY <1>i, <3>2 DEF Mirrored, TellerKnows, Wrote
      <4> QED
        BY <1>i, <2>1, <3>1, <4>1 DEF Mirrored, TellerKnows, Told, Wrote, On
    <3>5. AllTold(l)'
      <4>1. ~Telling(l) => Told(l, "network")
        BY <1>i, <2>1, <2>4 DEF Mirrored, AllTold, Claimed
      <4> QED
        BY <2>1, <3>2, <4>1 DEF AllTold, Telling, Wrote, On, Told, Ready
    <3> QED
      BY <3>3, <3>4, <3>5 DEF Mirrored
  <2> QED
    BY <2>3, <2>4
<1>13. ASSUME NEW o \in Operators, GetJob(o) \/ GetState(o) \/ PromoteJob(o) \/ RemoveJob(o) \/ EnqueueRetry(o)
       PROVE  Mirrored(l)'
  <2>1. UNCHANGED <<sender, log, mirror, review>> /\ op[o].pc \notin {"idle", "claim"}
    BY <1>13 DEF GetJob, GetState, PromoteJob, RemoveJob, EnqueueRetry
  <2>2. OpDone(o) \/ \E pc \in OpPCs : OpGoto(o, pc)
    BY <1>13 DEF GetJob, GetState, PromoteJob, RemoveJob, EnqueueRetry, OpPCs
  <2>3. (op'[o] = OpIdle \/ op'[o].log = op[o].log) /\ \A p \in Operators : p # o => op'[p] = op[p]
    BY <1>i, <2>2 DEF OpDone, OpGoto, TypeOK
  <2> QED
    BY <1>i, <2>1, <2>3, MirrorOperator DEF OpIdle
<1>14. ASSUME NEW o \in Operators, NEW k \in Logs, ReadForRetry(o, k) PROVE Mirrored(l)'
  <2>1. /\ UNCHANGED <<sender, log, mirror, review>> /\ log[k].status # "absent"
        /\ op'[o].log = k /\ op'[o].pc = "claim" /\ \A p \in Operators : p # o => op'[p] = op[p]
    BY <1>14, <1>i DEF ReadForRetry, TypeOK
  <2> QED
    BY <1>i, <2>1, MirrorOperator
<1>15. ASSUME ActivateCapiCutover \/ RollbackCapiCutover PROVE Mirrored(l)'
  BY <1>0, <1>15, <1>i, <1>x DEF ActivateCapiCutover, RollbackCapiCutover, ArchiveReady
<1>16. ASSUME NEW k \in Logs,
              \/ FindExisting(k) \/ ReportKnown(k) \/ EnqueueRecorded(k) \/ BackoffElapses(k) \/ DetectStalled(k)
       PROVE  Mirrored(l)'
  BY <1>16, <1>0 DEF FindExisting, ReportKnown, EnqueueRecorded, BackoffElapses, DetectStalled
<1>17. ASSUME UNCHANGED vars PROVE Mirrored(l)'
  BY <1>17, <1>0 DEF vars
<1> QED
  BY <1>f, <1>1, <1>2, <1>3, <1>4, <1>5, <1>6, <1>7, <1>8, <1>9, <1>10, <1>11, <1>12, <1>13, <1>14, <1>15, <1>16, <1>17
  DEF Next, RecordExternalConversion, SenderStep, RetryStep, ProducerFails, SenderThrows, SenderCrashes,
      QueueFails, OperatorCrashes

LEMMA MirrorInit == Init => MirrorInv
<1> SUFFICES ASSUME Init, NEW l \in TrackedLogs PROVE Mirrored(l)
  BY DEF MirrorInv
<1>1. l \in Logs /\ l # NoLog
  BY DeliveryAssumption
<1>2. log[l].status = "absent" /\ review[l] = "none" /\ \A o \in Operators : op[o].log = NoLog
  BY <1>1 DEF Init, Row, OpIdle
<1>3. \A s \in Senders : ~Wrote(s)
  BY DEF Init, Idle, Wrote
<1>4. \A r \in PostResults : log[l] # OutcomeRow(r)
  BY <1>2, OutcomeRows DEF Outcomes
<1> QED
  BY <1>1, <1>2, <1>3, <1>4 DEF Mirrored, TrackedRow, TellerKnows, AllTold, Ready

(* Between sends the execution and the purchase review of an event tell the *)
(* outcome of its row, through any number of attempts and retries of        *)
(* transient failures that overlap, when no step failed.                    *)
THEOREM OutcomeIsMirrored == Owners = Operators => (Spec => []DeliveryMirrored)
<1> SUFFICES ASSUME Owners = Operators PROVE Spec => []DeliveryMirrored
  OBVIOUS
<1>1. SendSafe /\ HomeOwned /\ MirrorInv /\ [Next]_vars => SendSafe' /\ HomeOwned' /\ MirrorInv'
  BY SendSafeNext, HomeOwnedNext, MirrorNext DEF SendSafe, MirrorInv
<1>2. MirrorInv => DeliveryMirrored
  <2> SUFFICES ASSUME NEW l \in TrackedLogs, Mirrored(l), log[l].status \in Outcomes, \A s \in Senders : On(s) # l
               PROVE  /\ mirror[l] = TechnicalDelivery(ResultOf(log[l]))
                      /\ review[l] = IF log[l].status = "sent" THEN "sent" ELSE "failed"
    BY DEF MirrorInv, DeliveryMirrored
  <2>1. PICK r \in PostResults : log[l] = OutcomeRow(r)
    BY DEF Mirrored, TrackedRow, Outcomes
  <2>2. Told(l, r)
    BY <2>1 DEF Mirrored, AllTold, Telling
  <2> QED
    BY <2>1, <2>2, OutcomeRows DEF Told
<1>3. Init => SendSafe /\ HomeOwned /\ MirrorInv
  BY SendSafeInit, LifeBegins, MirrorInit
<1> QED
  BY <1>1, <1>2, <1>3, PTL DEF Spec

(***************************************************************************)
(* Without operators a ready event is never left without a job: its        *)
(* producer has still to enqueue it, or its job is there, and the job ends *)
(* only after the row has its outcome.                                     *)
(***************************************************************************)
Known(l) == log[l].status \notin {"absent", "imported"}

(* Past the row: the send ended without an exception. *)
Ending(s) == sender[s].pc \in {"mirror", "review"} \/ (sender[s].pc = "finish" /\ sender[s].result # "threw")

QueueKnows(l) ==
  /\ log[l].status # "imported"
  /\ job[l].state # "none" => Known(l)
  /\ prod[l].pc = "write" /\ prod[l].snap # "absent" => Known(l)
  /\ prod[l].pc = "enqueue" => Known(l) /\ (Ready(l) => prod[l].delivery = "ready_to_send")
  /\ \A s \in Senders : On(s) = l /\ Ending(s) => ~Ready(l)
  /\ Ready(l) /\ prod[l].pc = "idle" => job[l].state # "none"

QueueInv == \A l \in QueuedLogs : QueueKnows(l)

(* A job appears when it is enqueued and goes when its sender ends. *)
JobMove(l) ==
  \/ job'[l] = job[l] /\ (prod[l].pc = "enqueue" /\ prod'[l].pc = "idle" => prod[l].delivery # "ready_to_send" \/ job[l].state # "none")
  \/ job[l].state # "none" /\ job'[l].state # "none"
  \/ prod[l].pc = "enqueue" /\ job'[l].state # "none"
  \/ /\ \E s \in Workers : On(s) = l /\ sender[s].pc = "finish" /\ Ending(s)
     /\ prod'[l] = prod[l]

LEMMA JobMoves ==
  ASSUME TypeOK, JobLock, [Next]_vars, Operators = {}, NEW l \in QueuedLogs
  PROVE  JobMove(l)
<1> USE DeliveryAssumption DEF TypeOK
<1>i. l \in Logs /\ l \notin ExternalLogs
  BY DEF QueuedLogs
<1>k. ASSUME UNCHANGED job, prod'[l].pc # "idle" \/ prod[l].pc = "idle" \/ prod'[l] = prod[l] PROVE JobMove(l)
  BY <1>k DEF JobMove
<1>1. ASSUME NEW k \in Logs, EnqueueRecorded(k) PROVE JobMove(l)
  <2>1. CASE k = l
    <3>1. CASE prod[l].delivery = "ready_to_send"
      BY <1>1, <1>i, <2>1, <3>1 DEF EnqueueRecorded, JobMove, Add, NoJob, Jobs
    <3>2. CASE prod[l].delivery # "ready_to_send"
      BY <1>1, <1>i, <2>1, <3>2 DEF EnqueueRecorded, JobMove
    <3> QED
      BY <3>1, <3>2
  <2>2. CASE k # l
    BY <1>1, <1>i, <2>2 DEF EnqueueRecorded, JobMove
  <2> QED
    BY <2>1, <2>2
<1>2. ASSUME NEW k \in Logs, BackoffElapses(k) PROVE JobMove(l)
  BY <1>2, <1>i DEF BackoffElapses, JobMove, Promote, Jobs
<1>3. ASSUME NEW k \in Logs, DetectStalled(k) PROVE JobMove(l)
  <2>1. Stall(job[k]).state # "none"
    <3>1. job[k] = [state |-> job[k].state, attempts |-> job[k].attempts, stalls |-> job[k].stalls]
      BY DEF Jobs
    <3> QED
      BY <3>1 DEF Stall
  <2> QED
    BY <1>3, <1>i, <2>1 DEF DetectStalled, JobMove
<1>4. ASSUME NEW k \in Logs, NEW w \in Workers, TakeJob(w, k) PROVE JobMove(l)
  BY <1>4, <1>i DEF TakeJob, JobMove, Take, Jobs
<1>5. ASSUME NEW s \in Senders, Finish(s) PROVE JobMove(l)
  <2>1. UNCHANGED prod /\ sender[s].pc = "finish"
    BY <1>5 DEF Finish
  <2>2. CASE s \notin Workers \/ On(s) # l
    BY <1>5, <1>i, <2>1, <2>2 DEF Finish, JobMove
  <2>3. CASE s \in Workers /\ On(s) = l /\ sender[s].result \in {"threw", "network"}
    <3>1. Fail(job[l]).state # "none"
      <4>1. job[l] = [state |-> job[l].state, attempts |-> job[l].attempts, stalls |-> job[l].stalls]
        BY <1>i DEF Jobs
      <4> QED
        BY <4>1 DEF Fail
    <3>2. job' = [job EXCEPT ![l] = Fail(job[l])]
      BY <1>5, <2>3 DEF Finish
    <3>3. job[l].state = "active"
      BY <2>1, <2>3 DEF JobLock, Busy
    <3>4. job'[l] = Fail(job[l])
      BY <1>i, <3>2
    <3> QED
      BY <3>1, <3>3, <3>4 DEF JobMove
  <2>4. CASE s \in Workers /\ On(s) = l /\ sender[s].result \notin {"threw", "network"}
    BY <2>1, <2>4 DEF JobMove, Ending
  <2> QED
    BY <2>2, <2>3, <2>4
<1>6. ASSUME NEW k \in Logs,
             \/ ImportHistorical(k) \/ FindExisting(k) \/ CreateOrPromote(k) \/ ReportKnown(k) \/ ProducerFails(k)
             \/ \E h \in Handlers : SendManualTestEvent(h, k)
      PROVE  JobMove(l)
  <2>1. UNCHANGED job
    BY <1>6 DEF ImportHistorical, FindExisting, CreateOrPromote, ReportKnown, ProducerFails, SendManualTestEvent
  <2>2. prod'[l].pc # "idle" \/ prod'[l] = prod[l]
    <3>1. ASSUME CreateOrPromote(k) \/ ReportKnown(k) PROVE \E st : prod' = [prod EXCEPT ![k] = Stored(prod[k], st)]
      BY <3>1 DEF CreateOrPromote, ReportKnown
    <3>2. CASE CreateOrPromote(k) \/ ReportKnown(k)
      BY <1>i, <3>1, <3>2 DEF Stored
    <3>3. CASE FindExisting(k)
      BY <1>i, <3>3 DEF FindExisting
    <3>4. CASE ProducerFails(k)
      BY <1>i, <3>4 DEF ProducerFails
    <3>5. CASE UNCHANGED prod
      BY <3>5
    <3> QED
      BY <1>6, <3>2, <3>3, <3>4, <3>5 DEF ImportHistorical, SendManualTestEvent
  <2> QED
    BY <1>k, <2>1, <2>2
<1>7. ASSUME NEW s \in Senders,
             \/ LoadLog(s) \/ CheckOwnership(s) \/ ArchiveUnowned(s) \/ PostEvent(s) \/ WriteResult(s)
             \/ SyncExecution(s) \/ SyncReview(s) \/ SenderThrows(s) \/ SenderCrashes(s)
      PROVE  JobMove(l)
  BY <1>7, <1>k DEF LoadLog, CheckOwnership, ArchiveUnowned, PostEvent, WriteResult, SyncExecution, SyncReview,
                    SenderThrows, SenderCrashes
<1>8. ASSUME ActivateCapiCutover \/ RollbackCapiCutover \/ UNCHANGED vars PROVE JobMove(l)
  BY <1>8, <1>k DEF ActivateCapiCutover, RollbackCapiCutover, vars
<1> QED
  BY <1>1, <1>2, <1>3, <1>4, <1>5, <1>6, <1>7, <1>8 DEF Next, RecordExternalConversion, SenderStep

(* The producer of a queued log. *)
ProducerMove(l) ==
  \/ prod'[l] = prod[l]
  \/ prod'[l].pc = "again"
  \/ prod'[l].pc = "write" /\ UNCHANGED log /\ prod'[l].snap = log[l].status
  \/ prod[l].pc = "write" /\ prod'[l].pc = "enqueue" /\ log'[l].status = prod'[l].delivery /\ Known(l)'
  \/ prod[l].pc = "write" /\ prod'[l].pc = "enqueue" /\ log'[l].status = prod'[l].delivery /\ UNCHANGED log
     /\ (prod[l].snap = "absent" => log[l].status # "absent")
  \/ prod[l].pc = "enqueue" /\ prod'[l].pc = "idle" /\ UNCHANGED log

LEMMA ProducerMovesOn ==
  ASSUME TypeOK, [Next]_vars, Operators = {}, NEW l \in QueuedLogs
  PROVE  ProducerMove(l)
<1> USE DeliveryAssumption DEF TypeOK
<1>i. l \in Logs /\ l \notin ExternalLogs
  BY DEF QueuedLogs
<1>0. ASSUME UNCHANGED prod PROVE ProducerMove(l)
  BY <1>0 DEF ProducerMove
<1>1. ASSUME NEW k \in Logs, k # l, NEW p, prod' = [prod EXCEPT ![k] = p] PROVE ProducerMove(l)
  BY <1>1, <1>i DEF ProducerMove
<1>2. ASSUME NEW k \in Logs, FindExisting(k) PROVE ProducerMove(l)
  BY <1>2, <1>i DEF FindExisting, ProducerMove
<1>3. ASSUME NEW k \in Logs, CreateOrPromote(k) PROVE ProducerMove(l)
  <2>1. PICK st \in InitialOf(k) : /\ log' = [log EXCEPT ![k] = Row(st, "none")]
                                   /\ prod' = [prod EXCEPT ![k] = Stored(prod[k], st)]
    BY <1>3 DEF CreateOrPromote
  <2>2. CASE k = l
    <3>1. log'[l].status = st /\ st \in Recorded \ {"imported"}
      BY <1>i, <2>1, <2>2 DEF Row, InitialOf, Recorded
    <3>2. prod'[l].pc = "enqueue" /\ prod'[l].delivery = st
      BY <1>i, <2>1, <2>2 DEF Stored
    <3> QED
      BY <1>3, <2>2, <3>1, <3>2 DEF ProducerMove, Known, Recorded, Incomplete, CreateOrPromote
  <2> QED
    BY <1>1, <2>1, <2>2
<1>4. ASSUME NEW k \in Logs, ReportKnown(k) PROVE ProducerMove(l)
  <2>1. CASE k = l
    BY <1>4, <1>i, <2>1 DEF ReportKnown, ProducerMove, Stored, Writes
  <2> QED
    BY <1>1, <1>4, <2>1 DEF ReportKnown
<1>5. ASSUME NEW k \in Logs, EnqueueRecorded(k) \/ ProducerFails(k) PROVE ProducerMove(l)
  <2>1. CASE EnqueueRecorded(k)
    BY <1>i, <2>1 DEF EnqueueRecorded, ProducerMove
  <2>2. CASE ProducerFails(k)
    BY <1>i, <2>2 DEF ProducerFails, ProducerMove
  <2> QED
    BY <1>5, <2>1, <2>2
<1>6. ASSUME NEW k \in Logs,
             \/ ImportHistorical(k) \/ BackoffElapses(k) \/ DetectStalled(k)
             \/ (\E w \in Workers : TakeJob(w, k)) \/ \E h \in Handlers : SendManualTestEvent(h, k)
      PROVE  ProducerMove(l)
  BY <1>6, <1>0 DEF ImportHistorical, BackoffElapses, DetectStalled, TakeJob, SendManualTestEvent
<1>7. ASSUME NEW s \in Senders, SenderStep(s) \/ SenderThrows(s) \/ SenderCrashes(s) PROVE ProducerMove(l)
  BY <1>7, <1>0 DEF SenderStep, LoadLog, CheckOwnership, ArchiveUnowned, PostEvent, WriteResult, SyncExecution,
                    SyncReview, Finish, SenderThrows, SenderCrashes
<1>8. ASSUME ActivateCapiCutover \/ RollbackCapiCutover \/ UNCHANGED vars PROVE ProducerMove(l)
  BY <1>8, <1>0 DEF ActivateCapiCutover, RollbackCapiCutover, vars
<1> QED
  BY <1>2, <1>3, <1>4, <1>5, <1>6, <1>7, <1>8 DEF Next, RecordExternalConversion

(* A sender that comes to its end finds the row not ready, or makes it so. *)
LEMMA EndMoves ==
  ASSUME SendSafe, HomeOwned, [Next]_vars, NEW l \in QueuedLogs, NEW s \in Senders, On(s)' = l, Ending(s)'
  PROVE  (On(s) = l /\ Ending(s)) \/ ~Ready(l)'
<1> USE DeliveryAssumption DEF TypeOK
<1>i. l \in Logs /\ l \notin ExternalLogs /\ TypeOK /\ l # NoLog
  BY DEF QueuedLogs, SendSafe
<1>e. sender'[s].pc \in {"mirror", "review", "finish"} /\ sender'[s].pc \notin {"idle", "load", "own", "archive", "post", "write"}
  BY DEF Ending
<1>0. ASSUME sender'[s] = sender[s] PROVE On(s) = l /\ Ending(s)
  BY <1>0 DEF On, Ending
<1> DEFINE Goal == (On(s) = l /\ Ending(s)) \/ ~Ready(l)'
<1>1. ASSUME NEW t \in Senders, LoadLog(t) PROVE Goal
  <2>1. CASE t = s
    <3>1. ~Ready(On(s)) /\ UNCHANGED log
      BY <1>1, <1>e, <1>i, <2>1 DEF LoadLog, Goto
    <3>2. On(s) = l
      BY <1>1, <1>i, <2>1 DEF LoadLog, Goto, On
    <3> QED
      BY <3>1, <3>2 DEF Ready
  <2> QED
    BY <1>0, <1>1, <1>i, <2>1 DEF LoadLog, Goto
<1>2. ASSUME NEW t \in Senders, WriteResult(t) PROVE Goal
  <2>1. CASE t = s
    <3>1. On(s) = l
      BY <1>2, <1>i, <2>1 DEF WriteResult, Goto, On
    <3>2. log'[l].status = StatusOf(sender[s].result)
      BY <1>2, <1>i, <2>1, <3>1 DEF WriteResult, Row
    <3> QED
      BY <3>2 DEF Ready, StatusOf
  <2> QED
    BY <1>0, <1>2, <1>i, <2>1 DEF WriteResult, Goto
<1>3. ASSUME NEW t \in Senders, ArchiveUnowned(t) PROVE Goal
  <2>1. CASE t = s
    <3>1. On(s) = l
      BY <1>3, <1>i, <2>1 DEF ArchiveUnowned, Goto, On
    <3> QED
      BY <1>3, <1>i, <2>1, <3>1 DEF ArchiveUnowned, HomeOwned
  <2> QED
    BY <1>0, <1>3, <1>i, <2>1 DEF ArchiveUnowned, Goto
<1>4. ASSUME NEW t \in Senders, SyncExecution(t) \/ SyncReview(t) PROVE Goal
  <2>1. CASE t = s
    <3>1. On(s) = l /\ sender[s].pc \in {"mirror", "review"}
      BY <1>4, <1>i, <2>1 DEF SyncExecution, SyncReview, Goto, On
    <3> QED
      BY <3>1 DEF Ending
  <2> QED
    BY <1>0, <1>4, <1>i, <2>1 DEF SyncExecution, SyncReview, Goto
<1>5. ASSUME NEW t \in Senders, CheckOwnership(t) \/ PostEvent(t) PROVE Goal
  <2>1. t # s
    BY <1>5, <1>e, <1>i DEF CheckOwnership, PostEvent, Goto
  <2> QED
    BY <1>0, <1>5, <1>i, <2>1 DEF CheckOwnership, PostEvent, Goto
<1>6. ASSUME NEW t \in Senders, SenderThrows(t) PROVE Goal
  <2>1. t # s
    BY <1>6, <1>i DEF SenderThrows, Goto, Ending
  <2> QED
    BY <1>0, <1>6, <1>i, <2>1 DEF SenderThrows, Goto
<1>7. ASSUME NEW t \in Senders, Finish(t) \/ SenderCrashes(t) PROVE Goal
  <2>1. t # s
    BY <1>7, <1>e, <1>i DEF Finish, SenderCrashes, Idle
  <2> QED
    BY <1>0, <1>7, <1>i, <2>1 DEF Finish, SenderCrashes
<1>8. ASSUME NEW k \in Logs, (\E w \in Workers : TakeJob(w, k)) \/ \E h \in Handlers : SendManualTestEvent(h, k) PROVE Goal
  <2>1. sender'[s] = sender[s]
    BY <1>8, <1>e, <1>i DEF TakeJob, SendManualTestEvent, Senders
  <2> QED
    BY <1>0, <2>1
<1>9. ASSUME UNCHANGED sender PROVE Goal
  BY <1>0, <1>9
<1> HIDE DEF Goal
<1>10. ASSUME NEW k \in Logs, \/ ImportHistorical(k) \/ FindExisting(k) \/ RecordExternalConversion(k)
             \/ EnqueueRecorded(k) \/ ProducerFails(k) \/ BackoffElapses(k) \/ DetectStalled(k)
             \/ \E o \in Operators : ReadForRetry(o, k)
       PROVE Goal
  BY <1>9, <1>10 DEF ImportHistorical, FindExisting, RecordExternalConversion, CreateOrPromote,
                    ReportKnown, EnqueueRecorded, ProducerFails, BackoffElapses, DetectStalled, ReadForRetry
<1>11. ASSUME NEW o \in Operators, RetryStep(o) \/ QueueFails(o) \/ OperatorCrashes(o) PROVE Goal
  BY <1>9, <1>11 DEF RetryStep, ClaimRetry, GetJob, GetState, PromoteJob, RemoveJob, EnqueueRetry,
                    CompensateRetry, QueueFails, OperatorCrashes
<1>12. ASSUME ActivateCapiCutover \/ RollbackCapiCutover \/ UNCHANGED vars PROVE Goal
  BY <1>9, <1>12 DEF ActivateCapiCutover, RollbackCapiCutover, vars
<1> QED
  BY <1>1, <1>2, <1>3, <1>4, <1>5, <1>6, <1>7, <1>8, <1>10, <1>11, <1>12 DEF Next, SenderStep, Goal

(* A known row stays known and, unless it is claimed, does not become ready again. *)
LEMMA KnownStays ==
  ASSUME SendSafe, [Next]_vars, Operators = {}, NEW l \in QueuedLogs, log[l].status # "imported"
  PROVE  /\ log'[l].status # "imported"
         /\ Known(l) => Known(l)' /\ (Ready(l)' => Ready(l))
         /\ Known(l)' /\ ~Known(l) => prod'[l].pc = "enqueue"
<1>1. l \in Logs /\ l \notin ExternalLogs /\ l \notin ManualLogs
  BY DEF QueuedLogs
<1>2. RowStep(l)
  BY <1>1, RowSteps
<1>3. Known(l) => Known(l)' /\ (Ready(l)' => Ready(l))
  BY <1>2 DEF RowStep, Known, Ready, StatusOf
<1>4. ASSUME ~Known(l), log'[l] # log[l] PROVE log'[l].status # "imported" /\ prod'[l].pc = "enqueue"
  <2>1. log[l].status = "absent"
    BY <1>4 DEF Known
  <2>2. ASSUME NEW k \in Logs, CreateOrPromote(k) PROVE log'[l].status # "imported" /\ prod'[l].pc = "enqueue"
    <3>1. PICK st \in InitialOf(k) : /\ log' = [log EXCEPT ![k] = Row(st, "none")]
                                     /\ prod' = [prod EXCEPT ![k] = Stored(prod[k], st)]
      BY <2>2 DEF CreateOrPromote
    <3>2. k = l
      BY <1>1, <1>4, <3>1 DEF SendSafe, TypeOK
    <3>3. st # "imported"
      BY DeliveryAssumption DEF InitialOf
    <3> QED
      BY <1>1, <3>1, <3>2, <3>3 DEF SendSafe, TypeOK, Row, Stored
  <2>3. ASSUME NEW s \in Senders, WriteResult(s) \/ ArchiveUnowned(s) PROVE FALSE
    <3>1. Committed(s) /\ On(s) # l
      BY <2>1, <2>3 DEF WriteResult, ArchiveUnowned, Committed, SendSafe, CommittedUnsent
    <3> QED
      BY <1>1, <1>4, <2>3, <3>1 DEF WriteResult, ArchiveUnowned, SendSafe, TypeOK
  <2>4. ASSUME NEW k \in Logs, ImportHistorical(k) \/ \E h \in Handlers : SendManualTestEvent(h, k) PROVE FALSE
    BY <1>1, <1>4, <2>4 DEF ImportHistorical, SendManualTestEvent, SendSafe, TypeOK
  <2>5. ASSUME ActivateCapiCutover \/ RollbackCapiCutover PROVE FALSE
    BY <1>1, <1>4, <2>5 DEF ActivateCapiCutover, RollbackCapiCutover, ArchiveReady
  <2>6. ASSUME UNCHANGED log PROVE FALSE
    BY <1>4, <2>6
  <2>7. ASSUME NEW k \in Logs,
               \/ FindExisting(k) \/ ReportKnown(k) \/ EnqueueRecorded(k) \/ ProducerFails(k)
               \/ BackoffElapses(k) \/ DetectStalled(k) \/ \E w \in Workers : TakeJob(w, k)
        PROVE  FALSE
    BY <2>6, <2>7 DEF FindExisting, ReportKnown, EnqueueRecorded, ProducerFails, BackoffElapses, DetectStalled, TakeJob
  <2>8. ASSUME NEW s \in Senders,
               \/ LoadLog(s) \/ CheckOwnership(s) \/ PostEvent(s) \/ SyncExecution(s)
               \/ SyncReview(s) \/ Finish(s) \/ SenderThrows(s) \/ SenderCrashes(s)
        PROVE  FALSE
    BY <2>6, <2>8 DEF LoadLog, CheckOwnership, PostEvent, SyncExecution, SyncReview, Finish, SenderThrows, SenderCrashes
  <2>9. ~UNCHANGED vars
    BY <2>6 DEF vars
  <2> QED
    BY <2>2, <2>3, <2>4, <2>5, <2>7, <2>8, <2>9 DEF Next, RecordExternalConversion, SenderStep
<1>5. CASE log'[l] = log[l]
  BY <1>3, <1>5 DEF Known
<1>6. CASE log'[l] # log[l] /\ ~Known(l)
  BY <1>3, <1>4, <1>6
<1>7. CASE Known(l)
  BY <1>3, <1>7 DEF Known
<1> QED
  BY <1>5, <1>6, <1>7

LEMMA QueueNext ==
  ASSUME SendSafe, HomeOwned, QueueInv, [Next]_vars, Operators = {}, NEW l \in QueuedLogs
  PROVE  QueueKnows(l)'
<1>1. QueueKnows(l) /\ TypeOK /\ JobLock
  BY DEF QueueInv, SendSafe
<1>2. /\ log'[l].status # "imported"
      /\ Known(l) => Known(l)' /\ (Ready(l)' => Ready(l))
      /\ Known(l)' /\ ~Known(l) => prod'[l].pc = "enqueue"
  BY <1>1, KnownStays DEF QueueKnows
<1>3. JobMove(l) /\ ProducerMove(l)
  BY <1>1, JobMoves, ProducerMovesOn
<1>4. Ready(l) => Known(l)
  BY DEF Ready, Known
<1>5. job'[l].state # "none" => Known(l)'
  <2>1. ASSUME job[l].state # "none" \/ prod[l].pc = "enqueue" PROVE Known(l)'
    BY <1>1, <1>2, <2>1 DEF QueueKnows
  <2>2. ASSUME NEW s \in Workers, On(s) = l, sender[s].pc = "finish" PROVE job[l].state # "none"
    BY <1>1, <2>2 DEF JobLock, Busy
  <2> QED
    BY <1>3, <2>1, <2>2 DEF JobMove
<1>6. prod'[l].pc = "write" /\ prod'[l].snap # "absent" => Known(l)'
  <2>1. CASE prod'[l] = prod[l]
    BY <1>1, <1>2, <2>1 DEF QueueKnows
  <2>2. CASE prod'[l].pc = "write" /\ UNCHANGED log /\ prod'[l].snap = log[l].status
    BY <1>1, <2>2 DEF QueueKnows, Known
  <2> QED
    BY <1>3, <2>1, <2>2 DEF ProducerMove
<1>7. prod'[l].pc = "enqueue" => Known(l)' /\ (Ready(l)' => prod'[l].delivery = "ready_to_send")
  <2>1. CASE prod'[l] = prod[l]
    BY <1>1, <1>2, <2>1 DEF QueueKnows
  <2>2. CASE prod[l].pc = "write" /\ log'[l].status = prod'[l].delivery /\ Known(l)'
    BY <2>2 DEF Ready
  <2>3. CASE /\ prod[l].pc = "write" /\ log'[l].status = prod'[l].delivery /\ UNCHANGED log
             /\ prod[l].snap = "absent" => log[l].status # "absent"
    BY <1>1, <2>3 DEF QueueKnows, Known, Ready
  <2> QED
    BY <1>3, <2>1, <2>2, <2>3 DEF ProducerMove
<1>8. ASSUME NEW s \in Senders, On(s)' = l, Ending(s)' PROVE ~Ready(l)'
  <2>1. CASE On(s) = l /\ Ending(s)
    <3>1. ~Ready(l)
      BY <1>1, <2>1 DEF QueueKnows
    <3>2. s \in Workers /\ Busy(s)
      BY <1>1, <2>1 DEF JobLock, Senders, QueuedLogs, Ending, Busy
    <3>3. Known(l)
      BY <1>1, <2>1, <3>2 DEF JobLock, QueueKnows
    <3> QED
      BY <1>2, <3>1, <3>3
  <2> QED
    BY <1>8, <2>1, EndMoves
<1>9. ASSUME Ready(l)', prod'[l].pc = "idle" PROVE job'[l].state # "none"
  <2>0. Known(l)'
    BY <1>9 DEF Ready, Known
  <2>1. Ready(l) /\ Known(l)
    BY <1>2, <1>9, <2>0
  <2>2. CASE prod[l].pc = "idle"
    <3>1. job[l].state # "none"
      BY <1>1, <2>1, <2>2 DEF QueueKnows
    <3>2. ASSUME NEW s \in Workers, On(s) = l, Ending(s) PROVE FALSE
      BY <1>1, <2>1, <3>2 DEF QueueKnows, Senders
    <3> QED
      BY <1>3, <3>1, <3>2 DEF JobMove
  <2>3. CASE prod[l].pc = "enqueue" /\ prod'[l].pc = "idle"
    <3>1. prod[l].delivery = "ready_to_send"
      BY <1>1, <2>1, <2>3 DEF QueueKnows
    <3>2. prod'[l] # prod[l]
      BY <2>3
    <3> QED
      BY <1>3, <2>3, <3>1, <3>2 DEF JobMove
  <2> QED
    BY <1>3, <1>9, <2>2, <2>3 DEF ProducerMove
<1> QED
  BY <1>2, <1>5, <1>6, <1>7, <1>8, <1>9 DEF QueueKnows

(* As long as nobody retries by hand, a ready event always has its job or a *)
(* producer that will still enqueue it, for any number of logs, workers,    *)
(* attempts, stalls and faults.  (With retries it may not: the run          *)
(* delivery_lost_retry shows how.)                                          *)
THEOREM ReadyHasJob == Operators = {} => (Spec => []ReadyIsQueued)
<1> SUFFICES ASSUME Operators = {} PROVE Spec => []ReadyIsQueued
  OBVIOUS
<1>0. Owners = Operators
  BY DeliveryAssumption
<1>1. SendSafe /\ HomeOwned /\ QueueInv /\ [Next]_vars => SendSafe' /\ HomeOwned' /\ QueueInv'
  <2>1. SendSafe /\ HomeOwned /\ [Next]_vars => SendSafe' /\ HomeOwned'
    BY <1>0, SendSafeNext, HomeOwnedNext DEF SendSafe
  <2>2. QueuedLogs' = QueuedLogs
    BY DEF QueuedLogs
  <2>3. ASSUME SendSafe, HomeOwned, QueueInv, [Next]_vars, NEW l \in QueuedLogs PROVE QueueKnows(l)'
    BY <2>3, QueueNext
  <2>4. SendSafe /\ HomeOwned /\ QueueInv /\ [Next]_vars => QueueInv'
    BY <2>2, <2>3 DEF QueueInv
  <2> QED
    BY <2>1, <2>4
<1>2. Init => QueueInv
  <2> SUFFICES ASSUME Init, NEW l \in QueuedLogs PROVE QueueKnows(l)
    BY DEF QueueInv
  <2>1. l \in Logs /\ log[l].status = "absent" /\ job[l].state = "none" /\ prod[l].pc = "idle"
    BY DEF Init, QueuedLogs, Row, NoJob
  <2>2. \A s \in Senders : sender[s].pc = "idle"
    BY DEF Init, Idle
  <2> QED
    BY <2>1, <2>2 DEF QueueKnows, Ready, Ending
<1>3. QueueInv => ReadyIsQueued
  BY DEF QueueInv, QueueKnows, ReadyIsQueued
<1> QED
  BY <1>1, <1>2, <1>3, SendSafeInit, LifeBegins, PTL DEF Spec
=============================================================================
