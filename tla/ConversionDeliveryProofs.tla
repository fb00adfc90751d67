---------------------- MODULE ConversionDeliveryProofs ----------------------
(***************************************************************************)
(* Proofs about ConversionDelivery, for every value of its constants.      *)
(***************************************************************************)
EXTENDS ConversionDelivery, BullJobProofs, TLAPS

(* The rows that the actions write are rows. *)
LEMMA RowTyping ==
  ASSUME NEW status \in Statuses, NEW err \in ErrorCodes
  PROVE  Row(status, err) \in Rows
BY DEF Row, Rows

LEMMA InitTyped == Init => TypeOK
<1> SUFFICES ASSUME Init PROVE TypeOK
  OBVIOUS
<1>1. Row("absent", "none") \in Rows
  BY RowTyping DEF Statuses, ErrorCodes
<1>2. NoJob \in Jobs
  BY MaxAttemptsAssumption, MaxStalledAssumption DEF NoJob, Jobs, JobStates
<1>3. log \in [Logs -> Rows] /\ owned \in [Logs -> BOOLEAN] /\ job \in [Logs -> Jobs]
  BY <1>1, <1>2 DEF Init
<1>4. sender \in [Senders -> SenderRecs]
  BY DEF Init, SenderRecs
<1>5. op \in [Operators -> OpRecs]
  BY DEF Init, OpRecs
<1>6. prod \in [Logs -> ProdRecs]
  BY DeliveryAssumption DEF Init, ProdRecs, Statuses
<1>7. cutover \in BOOLEAN /\ mirror \in [Logs -> Mirrors] /\ review \in [Logs -> Reviews]
  BY DEF Init, Mirrors, Reviews
<1>8. acked \in [Logs -> Nat] /\ used \in Used
  BY DeliveryAssumption DEF Init, Used
<1> QED
  BY <1>3, <1>4, <1>5, <1>6, <1>7, <1>8 DEF TypeOK

(* A step of a sender that is not idle leaves it on its log. *)
LEMMA GotoTyped ==
  ASSUME TypeOK, NEW s \in Senders, sender[s].pc # "idle",
         NEW pc \in SenderPCs, NEW r \in Results, At(pc, r), Goto(s, pc, r)
  PROVE  sender' \in [Senders -> SenderRecs]
BY DEF TypeOK, Goto, On, SenderRecs, Idle

LEMMA BusyOnLog ==
  ASSUME TypeOK, NEW s \in Senders, sender[s].pc # "idle"
  PROVE  /\ On(s) \in Logs /\ sender[s].result \in Results
         /\ At(sender[s].pc, sender[s].result)
BY DEF TypeOK, On, SenderRecs, Idle

(* The same for an operator. *)
LEMMA OpGotoTyped ==
  ASSUME TypeOK, NEW o \in Operators, op[o].pc # "idle",
         NEW pc \in OpPCs \ {"idle"}, OpGoto(o, pc)
  PROVE  op' \in [Operators -> OpRecs]
BY DEF TypeOK, OpGoto, OpRecs, OpIdle

LEMMA OpOnLog ==
  ASSUME TypeOK, NEW o \in Operators, op[o].pc # "idle"
  PROVE  op[o].log \in Logs /\ op[o].seen \in Rows
BY DEF TypeOK, OpRecs, OpIdle

LEMMA FaultTyped ==
  ASSUME TypeOK, Fault
  PROVE  used' \in Used
<1>1. used.faults + 1 \in 0..MaxFaults
  BY DeliveryAssumption DEF TypeOK, Fault, Used
<1>2. used' = [faults |-> used.faults + 1, retries |-> used.retries, switches |-> used.switches]
  BY DEF TypeOK, Fault, Used
<1> QED
  BY <1>1, <1>2 DEF TypeOK, Used


(* Every action keeps the state typed. *)
LEMMA NextTyped ==
  ASSUME TypeOK, [Next]_vars
  PROVE  TypeOK'
<1> USE DeliveryAssumption DEF TypeOK
<1>1. ASSUME NEW l \in Logs, ImportHistorical(l) PROVE TypeOK'
  BY <1>1 DEF ImportHistorical, Row, Rows, Statuses, Recorded, Incomplete, Outcomes, ErrorCodes
<1>2. ASSUME NEW l \in Logs, FindExisting(l) PROVE TypeOK'
  <2>1. CASE prod[l].pc = "again"
    BY <1>2, <2>1 DEF FindExisting, ProdRecs, Rows, Statuses
  <2>2. CASE prod[l].pc # "again"
    <3>1. prod[l].runs + 1 \in 0..MaxRuns
      BY <1>2, <2>2 DEF FindExisting, ProdRecs
    <3> QED
      BY <1>2, <2>2, <3>1 DEF FindExisting, ProdRecs, Rows, Statuses
  <2> QED
    BY <2>1, <2>2
<1>3. ASSUME NEW l \in Logs, CreateOrPromote(l) PROVE TypeOK'
  <2>1. PICK st \in InitialOf(l), b \in OwnershipOf(l) :
          /\ log' = [log EXCEPT ![l] = Row(st, "none")]
          /\ owned' = [owned EXCEPT ![l] = b]
          /\ prod' = [prod EXCEPT ![l] = Stored(prod[l], st)]
    BY <1>3 DEF CreateOrPromote
  <2>2. st \in Statuses /\ b \in BOOLEAN
    BY DEF InitialOf, OwnershipOf, Statuses, Recorded
  <2>3. Row(st, "none") \in Rows /\ Stored(prod[l], st) \in ProdRecs
    BY <2>2 DEF Row, Rows, ErrorCodes, Stored, ProdRecs
  <2>4. mirror' \in [Logs -> Mirrors] /\ review' \in [Logs -> Reviews]
    BY <1>3 DEF CreateOrPromote, Mirrors, Reviews
  <2> QED
    BY <1>3, <2>1, <2>2, <2>3, <2>4 DEF CreateOrPromote
<1>4. ASSUME NEW l \in Logs, ReportKnown(l) PROVE TypeOK'
  <2>1. Stored(prod[l], log[l].status) \in ProdRecs
    BY DEF Stored, ProdRecs, Rows
  <2> QED
    BY <1>4, <2>1 DEF ReportKnown
<1>5. ASSUME NEW l \in Logs, EnqueueRecorded(l) PROVE TypeOK'
  <2>1. prod' \in [Logs -> ProdRecs]
    BY <1>5 DEF EnqueueRecorded, ProdRecs
  <2>2. job' \in [Logs -> Jobs]
    BY <1>5, JobTyping DEF EnqueueRecorded
  <2> QED
    BY <1>5, <2>1, <2>2 DEF EnqueueRecorded
<1>6. ASSUME NEW l \in Logs, ProducerFails(l) PROVE TypeOK'
  BY <1>6, FaultTyped DEF ProducerFails, ProdRecs
<1>7. ASSUME NEW l \in Logs, BackoffElapses(l) PROVE TypeOK'
  BY <1>7, JobTyping DEF BackoffElapses
<1>8. ASSUME NEW l \in Logs, DetectStalled(l) PROVE TypeOK'
  BY <1>8, JobTyping DEF DetectStalled
<1>9. ASSUME NEW w \in Workers, NEW l \in Logs, TakeJob(w, l) PROVE TypeOK'
  BY <1>9, JobTyping DEF TakeJob, Senders, SenderRecs, SenderPCs, Results, At
<1>10. ASSUME NEW h \in Handlers, NEW l \in Logs, SendManualTestEvent(h, l) PROVE TypeOK'
  <2>1. log' \in [Logs -> Rows]
    BY <1>10 DEF SendManualTestEvent, Row, Rows, Statuses, Recorded, ErrorCodes
  <2>2. sender' \in [Senders -> SenderRecs]
    BY <1>10 DEF SendManualTestEvent, Senders, SenderRecs, SenderPCs, Results, At
  <2> QED
    BY <1>10, <2>1, <2>2 DEF SendManualTestEvent
<1>11. ASSUME NEW o \in Operators, NEW l \in Logs, ReadForRetry(o, l) PROVE TypeOK'
  <2>1. op' \in [Operators -> OpRecs]
    BY <1>11 DEF ReadForRetry, OpRecs, OpPCs
  <2>2. used' = [faults |-> used.faults, retries |-> used.retries + 1, switches |-> used.switches]
    BY <1>11 DEF ReadForRetry, Used
  <2> QED
    BY <1>11, <2>1, <2>2 DEF ReadForRetry, Used
<1>12. ASSUME NEW s \in Senders, LoadLog(s) PROVE TypeOK'
  BY <1>12, GotoTyped DEF LoadLog, SenderPCs, Results, At
<1>13. ASSUME NEW s \in Senders, CheckOwnership(s) PROVE TypeOK'
  BY <1>13, GotoTyped DEF CheckOwnership, SenderPCs, Results, At
<1>14. ASSUME NEW s \in Senders, ArchiveUnowned(s) PROVE TypeOK'
  <2>1. sender' \in [Senders -> SenderRecs]
    BY <1>14, GotoTyped DEF ArchiveUnowned, SenderPCs, Results, At
  <2>2. log' \in [Logs -> Rows]
    BY <1>14 DEF ArchiveUnowned, Row, Rows, Statuses, Recorded, ErrorCodes
  <2> QED
    BY <1>14, <2>1, <2>2 DEF ArchiveUnowned
<1>15. ASSUME NEW s \in Senders, PostEvent(s) PROVE TypeOK'
  <2>1. sender' \in [Senders -> SenderRecs]
    BY <1>15, GotoTyped DEF PostEvent, SenderPCs, Results, At
  <2>2. acked' \in [Logs -> Nat]
    BY <1>15, BusyOnLog DEF PostEvent
  <2> QED
    BY <1>15, <2>1, <2>2 DEF PostEvent
<1>16. ASSUME NEW s \in Senders, WriteResult(s) PROVE TypeOK'
  <2> DEFINE r == sender[s].result
  <2>0. r \in PostResults /\ r \in Results
    BY <1>16, BusyOnLog DEF WriteResult, At
  <2>1. sender' \in [Senders -> SenderRecs]
    BY <1>16, <2>0, GotoTyped DEF WriteResult, SenderPCs, At
  <2>2. log' \in [Logs -> Rows]
    BY <1>16, <2>0 DEF WriteResult, PostResults, StatusOf, Row, Rows, Statuses, Outcomes, ErrorCodes
  <2> QED
    BY <1>16, <2>1, <2>2 DEF WriteResult
<1>17. ASSUME NEW s \in Senders, SyncExecution(s) PROVE TypeOK'
  <2>1. sender' \in [Senders -> SenderRecs]
    BY <1>17, BusyOnLog, GotoTyped DEF SyncExecution, SenderPCs, At
  <2>2. mirror' \in [Logs -> Mirrors]
    BY <1>17 DEF SyncExecution, Mirrors, TechnicalDelivery
  <2> QED
    BY <1>17, <2>1, <2>2 DEF SyncExecution
<1>18. ASSUME NEW s \in Senders, SyncReview(s) PROVE TypeOK'
  <2>1. sender' \in [Senders -> SenderRecs]
    BY <1>18, BusyOnLog, GotoTyped DEF SyncReview, SenderPCs, At
  <2>2. review' \in [Logs -> Reviews]
    BY <1>18 DEF SyncReview, Reviews
  <2> QED
    BY <1>18, <2>1, <2>2 DEF SyncReview
<1>19. ASSUME NEW s \in Senders, Finish(s) PROVE TypeOK'
  <2>1. sender' \in [Senders -> SenderRecs]
    BY <1>19 DEF Finish, SenderRecs
  <2>2. job' \in [Logs -> Jobs]
    BY <1>19, BusyOnLog, JobTyping DEF Finish
  <2> QED
    BY <1>19, <2>1, <2>2 DEF Finish
<1>20. ASSUME NEW s \in Senders, SenderThrows(s) PROVE TypeOK'
  BY <1>20, FaultTyped, GotoTyped DEF SenderThrows, SenderPCs, Results, At
<1>21. ASSUME NEW s \in Senders, SenderCrashes(s) PROVE TypeOK'
  BY <1>21, FaultTyped DEF SenderCrashes, SenderRecs
<1>22. ASSUME NEW o \in Operators, ClaimRetry(o) PROVE TypeOK'
  <2>1. op' \in [Operators -> OpRecs]
    BY <1>22, OpGotoTyped DEF ClaimRetry, OpDone, OpRecs, OpPCs
  <2>2. log' \in [Logs -> Rows]
    BY <1>22 DEF ClaimRetry, Row, Rows, Statuses, Recorded, ErrorCodes
  <2> QED
    BY <1>22, <2>1, <2>2 DEF ClaimRetry
<1>23. ASSUME NEW o \in Operators, GetJob(o) PROVE TypeOK'
  <2>1. op' \in [Operators -> OpRecs]
    BY <1>23, OpGotoTyped DEF GetJob, OpDone, OpRecs, OpPCs
  <2> QED
    BY <1>23, <2>1 DEF GetJob
<1>24. ASSUME NEW o \in Operators, GetState(o) PROVE TypeOK'
  <2>1. op' \in [Operators -> OpRecs]
    BY <1>24, OpGotoTyped DEF GetState, OpDone, OpRecs, OpPCs
  <2> QED
    BY <1>24, <2>1 DEF GetState
<1>25. ASSUME NEW o \in Operators, PromoteJob(o) PROVE TypeOK'
  <2>1. op' \in [Operators -> OpRecs]
    BY <1>25, OpGotoTyped DEF PromoteJob, OpDone, OpRecs, OpPCs
  <2>2. job' \in [Logs -> Jobs]
    BY <1>25, OpOnLog, JobTyping DEF PromoteJob
  <2> QED
    BY <1>25, <2>1, <2>2 DEF PromoteJob
<1>26. ASSUME NEW o \in Operators, RemoveJob(o) PROVE TypeOK'
  <2>1. op' \in [Operators -> OpRecs]
    BY <1>26, OpGotoTyped DEF RemoveJob, OpDone, OpRecs, OpPCs
  <2>2. job' \in [Logs -> Jobs]
    BY <1>26, OpOnLog, JobTyping DEF RemoveJob
  <2> QED
    BY <1>26, <2>1, <2>2 DEF RemoveJob
<1>27. ASSUME NEW o \in Operators, EnqueueRetry(o) PROVE TypeOK'
  <2>1. op' \in [Operators -> OpRecs]
    BY <1>27, OpGotoTyped DEF EnqueueRetry, OpDone, OpRecs, OpPCs
  <2>2. job' \in [Logs -> Jobs]
    BY <1>27, OpOnLog, JobTyping DEF EnqueueRetry
  <2> QED
    BY <1>27, <2>1, <2>2 DEF EnqueueRetry
<1>28. ASSUME NEW o \in Operators, CompensateRetry(o) PROVE TypeOK'
  <2>1. op' \in [Operators -> OpRecs]
    BY <1>28 DEF CompensateRetry, OpDone, OpRecs
  <2>2. log' \in [Logs -> Rows]
    BY <1>28, OpOnLog DEF CompensateRetry
  <2> QED
    BY <1>28, <2>1, <2>2 DEF CompensateRetry
<1>29. ASSUME NEW o \in Operators, QueueFails(o) PROVE TypeOK'
  BY <1>29, FaultTyped, OpGotoTyped DEF QueueFails, OpPCs
<1>30. ASSUME NEW o \in Operators, OperatorCrashes(o) PROVE TypeOK'
  BY <1>30, FaultTyped DEF OperatorCrashes, OpDone, OpRecs
<1>31. ASSUME ActivateCapiCutover PROVE TypeOK'
  <2>1. log' \in [Logs -> Rows]
    BY <1>31 DEF ActivateCapiCutover, ArchiveReady, Row, Rows, Statuses, Recorded, ErrorCodes
  <2>2. used' = [faults |-> used.faults, retries |-> used.retries, switches |-> used.switches + 1]
    BY <1>31 DEF ActivateCapiCutover, Switch, Used
  <2>3. used' \in Used
    BY <1>31, <2>2 DEF ActivateCapiCutover, Switch, Used
  <2> QED
    BY <1>31, <2>1, <2>3 DEF ActivateCapiCutover
<1>32. ASSUME RollbackCapiCutover PROVE TypeOK'
  <2>1. log' \in [Logs -> Rows]
    BY <1>32 DEF RollbackCapiCutover, ArchiveReady, Row, Rows, Statuses, Recorded, ErrorCodes
  <2>2. used' = [faults |-> used.faults, retries |-> used.retries, switches |-> used.switches + 1]
    BY <1>32 DEF RollbackCapiCutover, Switch, Used
  <2>3. used' \in Used
    BY <1>32, <2>2 DEF RollbackCapiCutover, Switch, Used
  <2> QED
    BY <1>32, <2>1, <2>3 DEF RollbackCapiCutover
<1>33. ASSUME UNCHANGED vars PROVE TypeOK'
  BY <1>33 DEF vars
<1> QED
  BY <1>1, <1>2, <1>3, <1>4, <1>5, <1>6, <1>7, <1>8, <1>9, <1>10, <1>11, <1>12, <1>13, <1>14, <1>15, <1>16, <1>17, <1>18, <1>19, <1>20, <1>21, <1>22, <1>23, <1>24, <1>25, <1>26, <1>27, <1>28, <1>29, <1>30, <1>31, <1>32, <1>33
  DEF Next, RecordExternalConversion, SenderStep, RetryStep

(* Every reachable state of the delivery is typed: rows, jobs and the      *)
(* records of senders, operators and producers only ever hold what the     *)
(* code can put there, and whoever is busy works on a log.                 *)
THEOREM TypeCorrect == Spec => []TypeOK
<1>1. TypeOK /\ [Next]_vars => TypeOK'
  BY NextTyped
<1> QED
  BY <1>1, InitTyped, PTL DEF Spec
=============================================================================
