----------------------- MODULE InboundDeliveryProofs -----------------------
(***************************************************************************)
(* Proofs about InboundDelivery, for every value of its constants: the     *)
(* state is typed, a terminal delivery is final, an observed delivery has  *)
(* its conversions, and a processed one its production item, through any   *)
(* one fault.                                                              *)
(***************************************************************************)
EXTENDS InboundDelivery, BullJobProofs, TLAPS

LEMMA RowTyped ==
  ASSUME NEW r \in Rows
  PROVE  /\ \A s \in {"absent", "pending", "queued", "processing"} \cup Terminal :
              [r EXCEPT !.status = s] \in Rows
         /\ \A p \in {"stored", "expired", "cleared"} : [r EXCEPT !.payload = p] \in Rows
         /\ \A b \in BOOLEAN : [r EXCEPT !.aged = b] \in Rows /\ [r EXCEPT !.observed = b] \in Rows
         /\ \A q \in {"null", "recent", "stale"} : [r EXCEPT !.queuedAt = q] \in Rows
BY DEF Rows, Terminal

LEMMA InitTyped == Init => TypeOK
<1> SUFFICES ASSUME Init PROVE TypeOK
  OBVIOUS
<1>1. NoJob \in Jobs
  BY MaxAttemptsAssumption, MaxStalledAssumption DEF NoJob, Jobs, JobStates
<1>2. row \in [Deliveries -> Rows] /\ job \in [Deliveries -> Jobs]
  BY <1>1 DEF Init, Rows
<1>3. worker \in [Workers -> WorkerRecs] /\ agent \in [Agents -> AgentRecs]
  BY DEF Init, WorkerRecs, AgentRecs
<1>4. used \in Used
  BY InboundAssumption DEF Init, Used
<1>5. conn \in Connections
  BY DEF Init, Connections
<1> QED
  BY <1>1, <1>2, <1>3, <1>4, <1>5 DEF Init, TypeOK

(* A busy worker or agent is on a delivery. *)
LEMMA WorkerOn ==
  ASSUME TypeOK, NEW w \in Workers, worker[w].pc # "idle"
  PROVE  worker[w].d \in Deliveries
BY DEF TypeOK, WorkerRecs, WorkerIdle

LEMMA AgentOn ==
  ASSUME TypeOK, NEW a \in Agents, agent[a].pc # "idle"
  PROVE  agent[a].d \in Deliveries
BY DEF TypeOK, AgentRecs, AgentIdle

(* The record of a busy worker, and the updates of its fields. *)
BusyRecs ==
  [pc : WorkerPCs, d : Deliveries, conn : Connections, seen : BOOLEAN, parsed : BOOLEAN, ok : BOOLEAN]

LEMMA BusyTyped ==
  ASSUME NEW r \in BusyRecs
  PROVE  /\ \A pc \in WorkerPCs : /\ [r EXCEPT !.pc = pc] \in BusyRecs
                                  /\ [r EXCEPT !.pc = pc].d = r.d /\ [r EXCEPT !.pc = pc].pc = pc
         /\ \A b \in BOOLEAN : /\ [r EXCEPT !.ok = b] \in BusyRecs
                               /\ [r EXCEPT !.ok = b].d = r.d /\ [r EXCEPT !.ok = b].pc = r.pc
                               /\ [r EXCEPT !.parsed = b] \in BusyRecs
                               /\ [r EXCEPT !.parsed = b].d = r.d /\ [r EXCEPT !.parsed = b].pc = r.pc
BY DEF BusyRecs

(* Worker w moves to a step of pcs on the same delivery; the others stay. *)
MovesTo(w, pcs) ==
  /\ worker' \in [Workers -> WorkerRecs]
  /\ worker'[w].d = worker[w].d /\ worker'[w].pc \in pcs
  /\ \A v \in Workers \ {w} : worker'[v] = worker[v]

LEMMA WorkerMoves ==
  ASSUME TypeOK, NEW w \in Workers, worker[w].pc # "idle"
  PROVE  /\ \A pc \in WorkerPCs : WorkerGoto(w, pc) => MovesTo(w, {pc})
         /\ \A ok \in BOOLEAN : Return(w, ok) => MovesTo(w, {"finish"})
         /\ Validate(w) => MovesTo(w, {"persist", "fail"})
<1>1. worker[w] \in BusyRecs /\ BusyRecs \subseteq WorkerRecs
  BY DEF TypeOK, WorkerRecs, WorkerIdle, BusyRecs
<1>2. "finish" \in WorkerPCs /\ "persist" \in WorkerPCs /\ "fail" \in WorkerPCs
  BY DEF WorkerPCs
<1>3. ASSUME NEW pc \in WorkerPCs, WorkerGoto(w, pc) PROVE MovesTo(w, {pc})
  <2>1. PICK x \in BusyRecs : x = [worker[w] EXCEPT !.pc = pc] /\ x.d = worker[w].d /\ x.pc = pc
    BY <1>1, BusyTyped
  <2>2. worker' = [worker EXCEPT ![w] = x]
    BY <1>3, <2>1 DEF WorkerGoto
  <2> QED
    BY <1>1, <2>1, <2>2 DEF TypeOK, MovesTo
<1>4. ASSUME NEW ok \in BOOLEAN, Return(w, ok) PROVE MovesTo(w, {"finish"})
  <2>8. /\ [worker[w] EXCEPT !.pc = "finish"] \in BusyRecs
        /\ [worker[w] EXCEPT !.pc = "finish"].d = worker[w].d /\ [worker[w] EXCEPT !.pc = "finish"].pc = "finish"
    BY <1>1, <1>2, BusyTyped
  <2>1. PICK x \in BusyRecs : x = [worker[w] EXCEPT !.pc = "finish"] /\ x.d = worker[w].d /\ x.pc = "finish"
    BY <2>8, Zenon
  <2>9. /\ [x EXCEPT !.ok = ok] \in BusyRecs
        /\ [x EXCEPT !.ok = ok].d = worker[w].d /\ [x EXCEPT !.ok = ok].pc = "finish"
    BY <2>1, BusyTyped
  <2>2. PICK y \in BusyRecs : y = [x EXCEPT !.ok = ok] /\ y.d = worker[w].d /\ y.pc = "finish"
    BY <2>9, Zenon
  <2>3. worker' = [worker EXCEPT ![w] = y]
    BY <1>4, <2>1, <2>2 DEF Return, TypeOK
  <2> QED
    BY <1>1, <2>2, <2>3 DEF TypeOK, MovesTo
<1>5. ASSUME Validate(w) PROVE MovesTo(w, {"persist", "fail"})
  <2>1. PICK pc \in {"persist", "fail"}, parsed \in BOOLEAN :
          worker' = [worker EXCEPT ![w].pc = pc, ![w].parsed = parsed]
    BY <1>5 DEF Validate
  <2>8. /\ [worker[w] EXCEPT !.pc = pc] \in BusyRecs
        /\ [worker[w] EXCEPT !.pc = pc].d = worker[w].d /\ [worker[w] EXCEPT !.pc = pc].pc = pc
    BY <1>1, <1>2, BusyTyped
  <2>2. PICK x \in BusyRecs : x = [worker[w] EXCEPT !.pc = pc] /\ x.d = worker[w].d /\ x.pc = pc
    BY <2>8, Zenon
  <2>9. /\ [x EXCEPT !.parsed = parsed] \in BusyRecs
        /\ [x EXCEPT !.parsed = parsed].d = worker[w].d /\ [x EXCEPT !.parsed = parsed].pc = pc
    BY <2>2, BusyTyped
  <2>3. PICK y \in BusyRecs : y = [x EXCEPT !.parsed = parsed] /\ y.d = worker[w].d /\ y.pc = pc
    BY <2>9, Zenon
  <2>4. worker' = [worker EXCEPT ![w] = y]
    BY <2>1, <2>2, <2>3 DEF TypeOK
  <2> QED
    BY <1>1, <2>3, <2>4 DEF TypeOK, MovesTo
<1> QED
  BY <1>3, <1>4, <1>5

LEMMA SnapshotTyped ==
  ASSUME TypeOK, NEW w \in Workers, worker[w].pc # "idle",
         NEW pc \in WorkerPCs, Snapshot(w, pc)
  PROVE  MovesTo(w, {After(row[worker[w].d].status, pc)})
<1>1. worker[w].d \in Deliveries
  BY WorkerOn
<1>2. After(row[worker[w].d].status, pc) \in WorkerPCs
  BY DEF After, WorkerPCs
<1>3. row[worker[w].d].observed \in BOOLEAN /\ (row[worker[w].d].status = "failed") \in BOOLEAN
  BY <1>1 DEF TypeOK, Rows
<1> QED
  BY <1>1, <1>2, <1>3 DEF Snapshot, TypeOK, WorkerRecs, MovesTo

LEMMA AgentMoves ==
  ASSUME TypeOK, NEW a \in Agents
  PROVE  /\ \A pc \in AgentPCs : agent[a].pc # "idle" /\ AgentGoto(a, pc) => agent' \in [Agents -> AgentRecs]
         /\ AgentDone(a) => agent' \in [Agents -> AgentRecs]
BY DEF TypeOK, AgentGoto, AgentDone, AgentRecs, AgentIdle

LEMMA FaultTyped ==
  ASSUME TypeOK, Fault
  PROVE  used' \in Used
<1>1. used.faults + 1 \in 0..MaxFaults
  BY InboundAssumption DEF TypeOK, Fault, Used
<1>2. used' = [faults |-> used.faults + 1, deferred |-> used.deferred,
               receipts |-> used.receipts, switches |-> used.switches]
  BY DEF TypeOK, Fault, Used
<1> QED
  BY <1>1, <1>2 DEF TypeOK, Used

(* Every action keeps the state typed. *)
LEMMA NextTyped ==
  ASSUME TypeOK, [Next]_vars
  PROVE  TypeOK'
<1> USE InboundAssumption DEF TypeOK, Agents
<1>1. ASSUME NEW r \in Receivers, NEW d \in Deliveries, Receive(r, d) PROVE TypeOK'
  BY <1>1 DEF Receive, AgentRecs, AgentPCs, Used
<1>2. ASSUME NEW r \in Receivers, FindExistingDelivery(r) PROVE TypeOK'
  BY <1>2, AgentMoves, AgentOn, RowTyped DEF FindExistingDelivery, AgentPCs, SetStatus, Touched, Terminal
<1>3. ASSUME NEW r \in Receivers, PersistNewDelivery(r) PROVE TypeOK'
  <2>1. r \in Agents /\ agent[r].pc # "idle" /\ agent[r].d \in Deliveries
    BY <1>3, AgentOn DEF PersistNewDelivery
  <2>2. row' \in [Deliveries -> Rows]
    <3>1. row' = row \/ row' = [row EXCEPT ![agent[r].d].status = "pending"]
      BY <1>3 DEF PersistNewDelivery, SetStatus
    <3>2. [row[agent[r].d] EXCEPT !.status = "pending"] \in Rows
      BY <2>1, RowTyped
    <3> QED
      BY <2>1, <3>1, <3>2
  <2>3. agent' \in [Agents -> AgentRecs]
    <3>1. AgentDone(r) \/ AgentGoto(r, "look") \/ AgentGoto(r, "account")
      BY <1>3 DEF PersistNewDelivery
    <3> QED
      BY <2>1, <3>1, AgentMoves DEF AgentPCs
  <2> QED
    BY <1>3, <2>2, <2>3 DEF PersistNewDelivery
<1>4. ASSUME NEW r \in Receivers, AccountDuplicate(r) PROVE TypeOK'
  BY <1>4, AgentMoves, AgentOn, RowTyped DEF AccountDuplicate, AgentPCs, SetStatus, Touched, Terminal
<1>5. ASSUME NEW a \in Agents, LookUpJob(a) PROVE TypeOK'
  BY <1>5, AgentMoves, AgentOn, RowTyped, JobTyping, FaultTyped DEF LookUpJob, AgentPCs, Touched, Terminal
<1>6. ASSUME NEW a \in Agents, ReadJobState(a) PROVE TypeOK'
  BY <1>6, AgentMoves, AgentOn, RowTyped, JobTyping, FaultTyped DEF ReadJobState, AgentPCs, Touched, Terminal
<1>7. ASSUME NEW a \in Agents, ReplaceJob(a) PROVE TypeOK'
  BY <1>7, AgentMoves, AgentOn, RowTyped, JobTyping, FaultTyped DEF ReplaceJob, AgentPCs, Touched, Terminal
<1>8. ASSUME NEW a \in Agents, AddJob(a) PROVE TypeOK'
  BY <1>8, AgentMoves, AgentOn, RowTyped, JobTyping, FaultTyped DEF AddJob, AgentPCs, Touched, Terminal
<1>9. ASSUME NEW a \in Agents, MarkQueued(a) PROVE TypeOK'
  <2>1. agent[a].pc # "idle" /\ agent[a].d \in Deliveries
    BY <1>9, AgentOn DEF MarkQueued
  <2>2. agent' \in [Agents -> AgentRecs]
    BY <1>9, AgentMoves DEF MarkQueued
  <2>3. PICK q \in {"null", "recent", "stale"} :
          row' = row \/ row' = [row EXCEPT ![agent[a].d].status = "queued", ![agent[a].d].queuedAt = q]
    BY <1>9, <2>1 DEF MarkQueued, Rows
  <2>4. PICK x \in Rows : x = [row[agent[a].d] EXCEPT !.status = "queued", !.queuedAt = q]
    BY <2>1, RowTyped
  <2>5. row' = row \/ row' = [row EXCEPT ![agent[a].d] = x]
    BY <2>1, <2>3, <2>4
  <2>6. row' \in [Deliveries -> Rows]
    BY <2>1, <2>5
  <2> QED
    BY <1>9, <2>2, <2>6 DEF MarkQueued, Touched
<1>10. ASSUME NEW a \in Agents, AgentFails(a) PROVE TypeOK'
  BY <1>10, AgentMoves, AgentOn, RowTyped, JobTyping, FaultTyped DEF AgentFails, AgentPCs, Touched, Terminal
<1>11. ASSUME NEW w \in Workers, NEW d \in Deliveries, TakeJob(w, d) PROVE TypeOK'
  <2>1. [WorkerIdle EXCEPT !.pc = "load", !.d = d] \in WorkerRecs
    BY DEF WorkerIdle, WorkerRecs, WorkerPCs, Connections
  <2> QED
    BY <1>11, <2>1, JobTyping DEF TakeJob
<1>12. ASSUME NEW w \in Workers, LoadDelivery(w) PROVE TypeOK'
  <2>1. worker' \in [Workers -> WorkerRecs]
    BY <1>12, SnapshotTyped DEF LoadDelivery, MovesTo, WorkerPCs
  <2> QED
    BY <1>12, <2>1 DEF LoadDelivery
<1>13. ASSUME NEW w \in Workers, Reload(w) PROVE TypeOK'
  <2>1. worker' \in [Workers -> WorkerRecs]
    BY <1>13, SnapshotTyped DEF Reload, MovesTo, WorkerPCs
  <2> QED
    BY <1>13, <2>1 DEF Reload
<1>14. ASSUME NEW w \in Workers, ClaimDelivery(w) PROVE TypeOK'
  <2>1. worker[w].pc # "idle" /\ worker[w].d \in Deliveries
    BY <1>14, WorkerOn DEF ClaimDelivery
  <2>2. worker' \in [Workers -> WorkerRecs]
    BY <1>14, <2>1, WorkerMoves DEF ClaimDelivery, WorkerPCs, MovesTo
  <2>3. row' \in [Deliveries -> Rows]
    <3>1. row' = row \/ row' = [row EXCEPT ![worker[w].d].status = "processing"]
      BY <1>14 DEF ClaimDelivery, SetStatus
    <3>2. [row[worker[w].d] EXCEPT !.status = "processing"] \in Rows
      BY <2>1, RowTyped
    <3> QED
      BY <2>1, <3>1, <3>2
  <2> QED
    BY <1>14, <2>2, <2>3 DEF ClaimDelivery, Touched
<1>15. ASSUME NEW w \in Workers, Validate(w) PROVE TypeOK'
  <2>1. worker[w].pc # "idle"
    BY <1>15 DEF Validate
  <2>2. worker' \in [Workers -> WorkerRecs]
    BY <1>15, <2>1, WorkerMoves DEF MovesTo
  <2> QED
    BY <1>15, <2>2 DEF Validate
<1>16. ASSUME NEW w \in Workers, FinishFailure(w) PROVE TypeOK'
  BY <1>16, WorkerMoves, WorkerOn, RowTyped, JobTyping DEF FinishFailure, SetStatus, Touched, WorkerPCs, Terminal, MovesTo
<1>17. ASSUME NEW w \in Workers, PersistResult(w) PROVE TypeOK'
  BY <1>17, WorkerMoves, WorkerOn, RowTyped, JobTyping DEF PersistResult, SetStatus, Touched, WorkerPCs, Terminal, MovesTo
<1>18. ASSUME NEW w \in Workers, ListEvents(w) PROVE TypeOK'
  BY <1>18, WorkerMoves, WorkerOn, RowTyped, JobTyping DEF ListEvents, SetStatus, Touched, WorkerPCs, Terminal, MovesTo
<1>19. ASSUME NEW w \in Workers, ProductionIntake(w) PROVE TypeOK'
  BY <1>19, WorkerMoves, WorkerOn, RowTyped, JobTyping DEF ProductionIntake, SetStatus, Touched, WorkerPCs, Terminal, MovesTo
<1>20. ASSUME NEW w \in Workers, ObserveConversions(w) PROVE TypeOK'
  BY <1>20, WorkerMoves, WorkerOn, RowTyped, JobTyping DEF ObserveConversions, SetStatus, Touched, WorkerPCs, Terminal, MovesTo
<1>21. ASSUME NEW w \in Workers, MarkObserved(w) PROVE TypeOK'
  BY <1>21, WorkerMoves, WorkerOn, RowTyped, JobTyping DEF MarkObserved, SetStatus, Touched, WorkerPCs, Terminal, MovesTo
<1>22. ASSUME NEW w \in Workers, Finish(w) PROVE TypeOK'
  BY <1>22, WorkerOn, JobTyping DEF Finish, WorkerRecs
<1>23. ASSUME NEW w \in Workers, WorkerThrows(w) PROVE TypeOK'
  BY <1>23, WorkerMoves, FaultTyped DEF WorkerThrows, WorkerPCs, MovesTo
<1>24. ASSUME NEW w \in Workers, IntakeDeferred(w) PROVE TypeOK'
  <2>1. worker' \in [Workers -> WorkerRecs]
    BY <1>24, WorkerMoves DEF IntakeDeferred, WorkerPCs, MovesTo
  <2>2. used' = [faults |-> used.faults, deferred |-> used.deferred + 1,
                 receipts |-> used.receipts, switches |-> used.switches]
    BY <1>24 DEF IntakeDeferred, Used
  <2>3. used' \in Used
    BY <1>24, <2>2 DEF IntakeDeferred, Used
  <2> QED
    BY <1>24, <2>1, <2>3 DEF IntakeDeferred
<1>25. ASSUME NEW w \in Workers, WorkerCrashes(w) PROVE TypeOK'
  BY <1>25, FaultTyped DEF WorkerCrashes, WorkerRecs
<1>26. ASSUME NEW w \in Workers, LoseLock(w) PROVE TypeOK'
  BY <1>26, FaultTyped DEF LoseLock
<1>27. ASSUME NEW d \in Deliveries, BackoffElapses(d) PROVE TypeOK'
  BY <1>27, JobTyping, RowTyped DEF BackoffElapses, Touched
<1>28. ASSUME NEW d \in Deliveries, DetectStalled(d) PROVE TypeOK'
  BY <1>28, JobTyping, RowTyped DEF DetectStalled, Touched
<1>29. ASSUME NEW d \in Deliveries, ClearExpiredPayload(d) PROVE TypeOK'
  BY <1>29, JobTyping, RowTyped DEF ClearExpiredPayload, Touched
<1>30. ASSUME NEW d \in Deliveries, GraceElapses(d) PROVE TypeOK'
  BY <1>30, JobTyping, RowTyped DEF GraceElapses, Touched
<1>31. ASSUME NEW d \in Deliveries, ClaimAges(d) PROVE TypeOK'
  BY <1>31, JobTyping, RowTyped DEF ClaimAges, Touched
<1>32. ASSUME NEW d \in Deliveries, PayloadExpires(d) PROVE TypeOK'
  BY <1>32, JobTyping, RowTyped DEF PayloadExpires, Touched
<1>33. ASSUME NEW m \in Maintainers, NEW d \in Deliveries, SelectUnavailable(m, d) PROVE TypeOK'
  BY <1>33 DEF SelectUnavailable, AgentRecs, AgentPCs
<1>34. ASSUME NEW m \in Maintainers, NEW d \in Deliveries, RecoverSelect(m, d) PROVE TypeOK'
  BY <1>34 DEF RecoverSelect, AgentRecs, AgentPCs
<1>35. ASSUME NEW m \in Maintainers, MarkUnavailable(m) PROVE TypeOK'
  BY <1>35, AgentMoves, AgentOn, RowTyped DEF MarkUnavailable, Touched, AgentPCs, Terminal
<1>36. ASSUME NEW m \in Maintainers, MarkParserFailure(m) PROVE TypeOK'
  BY <1>36, AgentMoves, AgentOn, RowTyped DEF MarkParserFailure, Touched, AgentPCs, Terminal
<1>37. ASSUME NEW m \in Maintainers, RecoverClaim(m) PROVE TypeOK'
  BY <1>37, AgentMoves, AgentOn, RowTyped DEF RecoverClaim, Touched, AgentPCs, Terminal
<1>38. ASSUME NEW c \in Connections, SwitchConnection(c) PROVE TypeOK'
  BY <1>38 DEF SwitchConnection, Used
<1>39. ASSUME UNCHANGED vars PROVE TypeOK'
  BY <1>39 DEF vars
<1> QED
  BY <1>1, <1>2, <1>3, <1>4, <1>5, <1>6, <1>7, <1>8, <1>9, <1>10, <1>11, <1>12, <1>13, <1>14, <1>15, <1>16, <1>17, <1>18, <1>19, <1>20, <1>21, <1>22, <1>23, <1>24, <1>25, <1>26, <1>27, <1>28, <1>29, <1>30, <1>31, <1>32, <1>33, <1>34, <1>35, <1>36, <1>37, <1>38, <1>39
     DEF Next, AgentStep, RequestStep, MaintenanceStep, WorkerStep

(* The rows, the jobs and the programs of workers, requests and            *)
(* maintenance loops keep their types, for any number of each.             *)
THEOREM TypeCorrect == Spec => []TypeOK
BY InitTyped, NextTyped, PTL DEF Spec

-----------------------------------------------------------------------------
(* What a step does to a status: a terminal one stays, and no snapshot     *)
(* that a claim could use survives the step that makes it terminal.        *)
StatusStep(d) ==
  \/ row'[d].status = row[d].status
  \/ /\ row[d].status \notin Terminal
     /\ row'[d].status \in Terminal => \A w \in fresh' : worker[w].d # d

(* A snapshot with the current updatedAt is one of a delivery that is not  *)
(* terminal, when its worker is about to claim it.                         *)
FreshLive ==
  \A w \in Workers : w \in fresh /\ worker[w].pc = "claim" => row[worker[w].d].status \notin Terminal

(* The actions that write a row. *)
RowWriters ==
  \/ UNCHANGED row
  \/ \E r \in Receivers : PersistNewDelivery(r) \/ AccountDuplicate(r)
  \/ \E a \in Agents : MarkQueued(a)
  \/ \E w \in Workers : ClaimDelivery(w) \/ FinishFailure(w) \/ PersistResult(w) \/ MarkObserved(w)
  \/ \E e \in Deliveries : ClearExpiredPayload(e) \/ GraceElapses(e) \/ ClaimAges(e) \/ PayloadExpires(e)
  \/ \E m \in Maintainers : MarkUnavailable(m) \/ MarkParserFailure(m) \/ RecoverClaim(m)

LEMMA RowWritten ==
  ASSUME [Next]_vars
  PROVE  RowWriters
BY DEF RowWriters, Next, vars, AgentStep, RequestStep, MaintenanceStep, WorkerStep,
       Receive, FindExistingDelivery, LookUpJob, ReadJobState, ReplaceJob, AddJob, AgentFails, TakeJob, LoadDelivery, Reload, Validate, ListEvents, ProductionIntake, ObserveConversions, Finish, WorkerThrows, IntakeDeferred, WorkerCrashes, LoseLock, BackoffElapses, DetectStalled, SelectUnavailable, RecoverSelect, SwitchConnection

LEMMA StatusSteps ==
  ASSUME TypeOK, FreshLive, [Next]_vars, NEW d \in Deliveries
  PROVE  StatusStep(d)
<1> USE DEF TypeOK, Agents
<1>1. ASSUME NEW r \in Receivers, PersistNewDelivery(r) PROVE StatusStep(d)
  BY <1>1, AgentOn DEF PersistNewDelivery, StatusStep, Rows, SetStatus, Terminal
<1>2. ASSUME NEW r \in Receivers, AccountDuplicate(r) PROVE StatusStep(d)
  BY <1>2, AgentOn DEF AccountDuplicate, StatusStep, Rows
<1>3. ASSUME NEW a \in Agents, MarkQueued(a) PROVE StatusStep(d)
  BY <1>3, AgentOn DEF MarkQueued, StatusStep, Rows, Touched, Terminal
<1>4. ASSUME NEW w \in Workers, ClaimDelivery(w) PROVE StatusStep(d)
  <2>1. worker[w].d \in Deliveries
    BY <1>4, WorkerOn DEF ClaimDelivery
  <2>2. row'[d].status = row[d].status \/ (w \in fresh /\ d = worker[w].d /\ row'[d].status = "processing")
    BY <1>4, <2>1 DEF ClaimDelivery, SetStatus, Rows
  <2>3. w \in fresh => row[worker[w].d].status \notin Terminal
    BY <1>4 DEF ClaimDelivery, FreshLive
  <2> QED
    BY <2>2, <2>3 DEF StatusStep, Terminal
<1>5. ASSUME NEW w \in Workers, FinishFailure(w) PROVE StatusStep(d)
  BY <1>5, WorkerOn DEF FinishFailure, StatusStep, Rows, Touched, Terminal
<1>6. ASSUME NEW w \in Workers, PersistResult(w) PROVE StatusStep(d)
  BY <1>6, WorkerOn DEF PersistResult, StatusStep, Rows, Touched, Terminal
<1>7. ASSUME NEW w \in Workers, MarkObserved(w) PROVE StatusStep(d)
  BY <1>7, WorkerOn DEF MarkObserved, StatusStep, Rows
<1>8. ASSUME NEW e \in Deliveries, ClearExpiredPayload(e) PROVE StatusStep(d)
  BY <1>8 DEF ClearExpiredPayload, StatusStep, Rows
<1>9. ASSUME NEW e \in Deliveries, GraceElapses(e) PROVE StatusStep(d)
  BY <1>9 DEF GraceElapses, StatusStep, Rows
<1>10. ASSUME NEW e \in Deliveries, ClaimAges(e) PROVE StatusStep(d)
  BY <1>10 DEF ClaimAges, StatusStep, Rows
<1>11. ASSUME NEW e \in Deliveries, PayloadExpires(e) PROVE StatusStep(d)
  BY <1>11 DEF PayloadExpires, StatusStep, Rows
<1>12. ASSUME NEW m \in Maintainers, MarkUnavailable(m) PROVE StatusStep(d)
  BY <1>12, AgentOn DEF MarkUnavailable, StatusStep, Rows, Touched, Terminal
<1>13. ASSUME NEW m \in Maintainers, MarkParserFailure(m) PROVE StatusStep(d)
  BY <1>13, AgentOn DEF MarkParserFailure, StatusStep, Rows, Touched, Terminal
<1>14. ASSUME NEW m \in Maintainers, RecoverClaim(m) PROVE StatusStep(d)
  BY <1>14, AgentOn DEF RecoverClaim, StatusStep, Rows
<1>15. ASSUME UNCHANGED row PROVE StatusStep(d)
  BY <1>15 DEF StatusStep
<1>16. RowWriters
  BY RowWritten
<1> QED
  BY <1>1, <1>2, <1>3, <1>4, <1>5, <1>6, <1>7, <1>8, <1>9, <1>10, <1>11, <1>12, <1>13, <1>14, <1>15, <1>16 DEF RowWriters

(* How a worker gets to the claim or to the mark: by its snapshot, or by   *)
(* recording the conversions.                                              *)
Arrives(v) ==
  \/ worker'[v] = worker[v] /\ (v \in fresh' => v \in fresh)
  \/ worker'[v].pc \notin {"claim", "markObserved"}
  \/ worker'[v].pc = "claim" /\ UNCHANGED row /\ row[worker'[v].d].status \notin Terminal
  \/ worker'[v].pc = "markObserved" /\ exec'[worker'[v].d]

LEMMA WorkerSteps ==
  ASSUME TypeOK, [Next]_vars, NEW v \in Workers
  PROVE  Arrives(v)
<1> USE DEF TypeOK
<1>1. ASSUME NEW w \in Workers, NEW e \in Deliveries, TakeJob(w, e) PROVE Arrives(v)
  BY <1>1 DEF TakeJob, Arrives, WorkerIdle
<1>2. ASSUME NEW w \in Workers, LoadDelivery(w) PROVE Arrives(v)
  <2>1. MovesTo(w, {After(row[worker[w].d].status, "claim")}) /\ UNCHANGED row
    BY <1>2, SnapshotTyped DEF LoadDelivery, WorkerPCs
  <2>2. After(row[worker[w].d].status, "claim") = "claim" => row[worker[w].d].status \notin Terminal
    BY DEF After, Terminal
  <2>3. After(row[worker[w].d].status, "claim") \in {"list", "finish", "claim"}
    BY DEF After
  <2>4. fresh' = fresh \cup {w}
    BY <1>2 DEF LoadDelivery
  <2> QED
    BY <2>1, <2>2, <2>3, <2>4 DEF Arrives, MovesTo
<1>3. ASSUME NEW w \in Workers, Reload(w) PROVE Arrives(v)
  <2>1. MovesTo(w, {After(row[worker[w].d].status, "finish")}) /\ UNCHANGED fresh
    BY <1>3, SnapshotTyped DEF Reload, WorkerPCs
  <2>2. After(row[worker[w].d].status, "finish") \in {"list", "finish"}
    BY DEF After
  <2> QED
    BY <2>1, <2>2 DEF Arrives, MovesTo
<1>4. ASSUME NEW w \in Workers, ObserveConversions(w) PROVE Arrives(v)
  <2>1. worker[w].d \in Deliveries /\ UNCHANGED fresh
    BY <1>4, WorkerOn DEF ObserveConversions
  <2>2. \/ Return(w, TRUE) \/ Return(w, FALSE)
        \/ WorkerGoto(w, "markObserved") /\ exec'[worker[w].d]
    BY <1>4, <2>1 DEF ObserveConversions
  <2>3. MovesTo(w, {"finish"}) \/ (MovesTo(w, {"markObserved"}) /\ exec'[worker[w].d])
    BY <1>4, <2>2, WorkerMoves DEF ObserveConversions, WorkerPCs
  <2> QED
    BY <2>1, <2>3 DEF Arrives, MovesTo
<1>5. ASSUME NEW w \in Workers,
             \/ ClaimDelivery(w) \/ Validate(w) \/ FinishFailure(w) \/ PersistResult(w)
             \/ ListEvents(w) \/ ProductionIntake(w) \/ MarkObserved(w)
             \/ WorkerThrows(w) \/ IntakeDeferred(w)
      PROVE  Arrives(v)
  <2>1. worker[w].pc # "idle" /\ fresh' \subseteq fresh
    BY <1>5 DEF ClaimDelivery, Validate, FinishFailure, PersistResult, ListEvents, ProductionIntake,
                MarkObserved, WorkerThrows, IntakeDeferred, Touched
  <2>2. \/ \E pc \in {"validate", "reload", "intake", "observe"} : WorkerGoto(w, pc)
        \/ Return(w, TRUE) \/ Return(w, FALSE) \/ Validate(w)
    BY <1>5 DEF ClaimDelivery, FinishFailure, PersistResult, ListEvents, ProductionIntake,
                MarkObserved, WorkerThrows, IntakeDeferred
  <2>3. \E pcs \in {{"validate"}, {"reload"}, {"intake"}, {"observe"}, {"finish"}, {"persist", "fail"}} :
           MovesTo(w, pcs)
    BY <2>1, <2>2, WorkerMoves DEF WorkerPCs
  <2> QED
    BY <2>1, <2>3 DEF Arrives, MovesTo
<1>6. ASSUME NEW w \in Workers, Finish(w) \/ WorkerCrashes(w) PROVE Arrives(v)
  BY <1>6 DEF Finish, WorkerCrashes, Arrives, WorkerIdle
<1>7. ASSUME UNCHANGED worker, fresh' \subseteq fresh PROVE Arrives(v)
  BY <1>7 DEF Arrives
<1>8. \/ UNCHANGED worker /\ fresh' \subseteq fresh
      \/ \E w \in Workers : \/ \E e \in Deliveries : TakeJob(w, e)
                            \/ LoadDelivery(w) \/ Reload(w) \/ ObserveConversions(w)
                            \/ ClaimDelivery(w) \/ Validate(w) \/ FinishFailure(w) \/ PersistResult(w)
                            \/ ListEvents(w) \/ ProductionIntake(w) \/ MarkObserved(w)
                            \/ WorkerThrows(w) \/ IntakeDeferred(w)
                            \/ Finish(w) \/ WorkerCrashes(w)
  BY DEF Next, vars, AgentStep, RequestStep, MaintenanceStep, WorkerStep, Touched,
         Receive, FindExistingDelivery, PersistNewDelivery, AccountDuplicate, LookUpJob, ReadJobState, ReplaceJob, AddJob, MarkQueued, AgentFails, LoseLock, BackoffElapses, DetectStalled, ClearExpiredPayload, GraceElapses, ClaimAges, PayloadExpires, SelectUnavailable, RecoverSelect, MarkUnavailable, MarkParserFailure, RecoverClaim, SwitchConnection
<1> QED
  BY <1>1, <1>2, <1>3, <1>4, <1>5, <1>6, <1>7, <1>8

LEMMA FreshLiveSteps ==
  ASSUME TypeOK, FreshLive, [Next]_vars
  PROVE  FreshLive'
<1> SUFFICES ASSUME NEW v \in Workers, v \in fresh', worker'[v].pc = "claim"
             PROVE  row'[worker'[v].d].status \notin Terminal
  BY DEF FreshLive
<1>1. CASE worker'[v] = worker[v] /\ v \in fresh
  <2>1. worker[v].d \in Deliveries
    BY <1>1, WorkerOn
  <2>2. StatusStep(worker[v].d) /\ row[worker[v].d].status \notin Terminal
    BY <1>1, <2>1, StatusSteps DEF FreshLive
  <2> QED
    BY <1>1, <2>2 DEF StatusStep
<1>2. CASE UNCHANGED row /\ row[worker'[v].d].status \notin Terminal
  BY <1>2
<1> QED
  BY <1>1, <1>2, WorkerSteps DEF Arrives

(* A processed or failed delivery keeps its status for ever, with any      *)
(* number of workers that lost their locks, of request tasks and of        *)
(* maintenance loops: each of their writes asks for a status, and the      *)
(* claim for the updatedAt of a snapshot that was not terminal.            *)
THEOREM TerminalForever == Spec => TerminalIsFinal
<1>1. Init => FreshLive
  BY DEF Init, FreshLive
<1>2. ASSUME TypeOK, FreshLive, [Next]_vars
      PROVE  [\A d \in Deliveries : row[d].status \in Terminal => row'[d].status = row[d].status]_vars
  BY <1>2, StatusSteps DEF StatusStep
<1> QED
  BY <1>1, <1>2, FreshLiveSteps, TypeCorrect, PTL DEF Spec, TerminalIsFinal

(* What the mark rests on: the worker recorded the conversions before. *)
MarkBacked ==
  /\ ObservedIsComplete
  /\ \A w \in Workers : worker[w].pc = "markObserved" => exec[worker[w].d]

LEMMA RecordedSteps ==
  ASSUME TypeOK, [Next]_vars, NEW d \in Deliveries
  PROVE  exec[d] => exec'[d]
<1>1. ASSUME NEW w \in Workers, ObserveConversions(w) PROVE exec[d] => exec'[d]
  BY <1>1 DEF ObserveConversions, TypeOK
<1>2. UNCHANGED exec \/ \E w \in Workers : ObserveConversions(w)
  BY DEF Next, vars, AgentStep, RequestStep, MaintenanceStep, WorkerStep,
         Receive, FindExistingDelivery, PersistNewDelivery, AccountDuplicate, LookUpJob, ReadJobState, ReplaceJob, AddJob, MarkQueued, AgentFails, TakeJob, LoadDelivery, ClaimDelivery, Reload, Validate, FinishFailure, PersistResult, ListEvents, ProductionIntake, MarkObserved, Finish, WorkerThrows, IntakeDeferred, WorkerCrashes, LoseLock, BackoffElapses, DetectStalled, ClearExpiredPayload, GraceElapses, ClaimAges, PayloadExpires, SelectUnavailable, RecoverSelect, MarkUnavailable, MarkParserFailure, RecoverClaim, SwitchConnection
<1> QED
  BY <1>1, <1>2

ObservedStep(d) ==
  row'[d].observed => \/ row[d].observed
                      \/ \E w \in Workers : worker[w].pc = "markObserved" /\ worker[w].d = d

LEMMA ObservedSteps ==
  ASSUME TypeOK, [Next]_vars, NEW d \in Deliveries
  PROVE  ObservedStep(d)
<1> USE DEF TypeOK, Agents
<1>1. ASSUME NEW r \in Receivers, PersistNewDelivery(r) \/ AccountDuplicate(r) PROVE ObservedStep(d)
  BY <1>1, AgentOn DEF PersistNewDelivery, AccountDuplicate, SetStatus, ObservedStep, Rows
<1>2. ASSUME NEW a \in Agents, MarkQueued(a) PROVE ObservedStep(d)
  BY <1>2, AgentOn DEF MarkQueued, ObservedStep, Rows
<1>3. ASSUME NEW w \in Workers, ClaimDelivery(w) \/ FinishFailure(w) \/ PersistResult(w) PROVE ObservedStep(d)
  <2>1. worker[w].d \in Deliveries
    BY <1>3, WorkerOn DEF ClaimDelivery, FinishFailure, PersistResult
  <2>2. UNCHANGED row \/ \E s \in {"processing", "failed", "processed"} : row' = [row EXCEPT ![worker[w].d].status = s]
    BY <1>3 DEF ClaimDelivery, FinishFailure, PersistResult, SetStatus
  <2> QED
    BY <2>1, <2>2 DEF ObservedStep, Rows
<1>4. ASSUME NEW w \in Workers, MarkObserved(w) PROVE ObservedStep(d)
  BY <1>4, WorkerOn DEF MarkObserved, ObservedStep, Rows
<1>5. ASSUME NEW e \in Deliveries,
             ClearExpiredPayload(e) \/ GraceElapses(e) \/ ClaimAges(e) \/ PayloadExpires(e)
      PROVE  ObservedStep(d)
  <2>1. \/ \E p \in {"cleared", "expired"} : row' = [row EXCEPT ![e].payload = p]
        \/ row' = [row EXCEPT ![e].aged = TRUE]
        \/ row' = [row EXCEPT ![e].queuedAt = "stale"]
    BY <1>5 DEF ClearExpiredPayload, GraceElapses, ClaimAges, PayloadExpires
  <2>2. row'[d].observed = row[d].observed
    BY <2>1 DEF Rows
  <2> QED
    BY <2>2 DEF ObservedStep
<1>6. ASSUME NEW m \in Maintainers, MarkUnavailable(m) \/ MarkParserFailure(m) \/ RecoverClaim(m)
      PROVE  ObservedStep(d)
  <2>1. agent[m].d \in Deliveries
    BY <1>6, AgentOn DEF MarkUnavailable, MarkParserFailure, RecoverClaim
  <2>2. \/ UNCHANGED row
        \/ row' = [row EXCEPT ![agent[m].d].status = "failed"]
        \/ row' = [row EXCEPT ![agent[m].d].queuedAt = "recent"]
    BY <1>6 DEF MarkUnavailable, MarkParserFailure, RecoverClaim
  <2>3. row'[d].observed = row[d].observed
    BY <2>1, <2>2 DEF Rows
  <2> QED
    BY <2>3 DEF ObservedStep
<1>7. ASSUME UNCHANGED row PROVE ObservedStep(d)
  BY <1>7 DEF ObservedStep
<1>8. RowWriters
  BY RowWritten
<1> QED
  BY <1>1, <1>2, <1>3, <1>4, <1>5, <1>6, <1>7, <1>8 DEF RowWriters

LEMMA MarkBackedSteps ==
  ASSUME TypeOK, MarkBacked, [Next]_vars
  PROVE  MarkBacked'
<1>1. ASSUME NEW d \in Deliveries, row'[d].observed PROVE exec'[d]
  BY <1>1, ObservedSteps, RecordedSteps DEF ObservedStep, MarkBacked, ObservedIsComplete
<1>2. ASSUME NEW v \in Workers, worker'[v].pc = "markObserved" PROVE exec'[worker'[v].d]
  <2>1. CASE worker'[v] = worker[v]
    <3>1. worker[v].d \in Deliveries
      BY <1>2, <2>1, WorkerOn
    <3> QED
      BY <1>2, <2>1, <3>1, RecordedSteps DEF MarkBacked
  <2>2. CASE worker'[v] # worker[v]
    BY <1>2, <2>2, WorkerSteps DEF Arrives
  <2> QED
    BY <2>1, <2>2
<1> QED
  BY <1>1, <1>2 DEF MarkBacked, ObservedIsComplete

(* A delivery that says its conversions are observed has them recorded,    *)
(* whatever worker set the mark.                                           *)
THEOREM ObservedComplete == Spec => []ObservedIsComplete
<1>1. Init => MarkBacked
  BY DEF Init, MarkBacked, ObservedIsComplete, WorkerIdle
<1>2. MarkBacked => ObservedIsComplete
  BY DEF MarkBacked
<1> QED
  BY <1>1, <1>2, MarkBackedSteps, TypeCorrect, PTL DEF Spec

-----------------------------------------------------------------------------
(* The production item.  The job of a delivery and the lock of its worker  *)
(* keep each other; without a fault every worker has its lock, and the one *)
(* fault leaves a job that BullMQ hands out again.                         *)

HolderActive ==
  \A w \in held :
    /\ worker[w].pc # "idle" /\ job[worker[w].d].state = "active"
    /\ \A v \in held : worker[v].d = worker[w].d => v = w

FaultFree ==
  used.faults = 0 =>
    /\ \A w \in Workers : worker[w].pc # "idle" => w \in held
    /\ \A d \in Deliveries : job[d].stalls = 0 /\ (job[d].state = "active" => Locked(d))

FirstStall ==
  used.faults <= 1 =>
    \A d \in Deliveries : job[d].state = "active" /\ ~Locked(d) => job[d].stalls = 0

UsableKept == used.switches = 0 => conn = "usable"

Undisturbed ==
  /\ used.faults <= 1 /\ used.deferred = 0 /\ used.switches = 0
  /\ \A d \in Eligible : row[d].payload = "stored"

(* A worker is about to create the item. *)
AtIntake(d) == \E w \in Workers : worker[w].d = d /\ worker[w].pc = "intake"

(* A job of the delivery is there or is added, and its run gets to the     *)
(* intake.                                                                 *)
Retried(d) ==
  \/ job[d].state = "waiting"
  \/ job[d].state = "active" /\ ~Locked(d)
  \/ \E w \in held : worker[w].d = d /\ worker[w].pc \in {"load", "list"}
  \/ job[d].state = "none" /\ \E a \in Agents : agent[a] = [pc |-> "add", d |-> d]

Coming(d) == AtIntake(d) \/ (used.faults = 1 /\ Retried(d))

TakenOrComing ==
  Undisturbed => \A d \in Eligible : row[d].status = "processed" /\ ~item[d] => Coming(d)

TakenInv == HolderActive /\ FaultFree /\ FirstStall /\ UsableKept /\ TakenOrComing

(* What a step does to the payload and to the status "processed". *)
RowStep(d) ==
  /\ row'[d].payload = "stored" => row[d].payload = "stored"
  /\ row'[d].status = "processed"
       => row[d].status = "processed" \/ \E w \in Workers : worker[w].d = d /\ PersistResult(w)

LEMMA RowSteps ==
  ASSUME TypeOK, [Next]_vars, NEW d \in Deliveries
  PROVE  RowStep(d)
<1> USE DEF TypeOK, Agents, RowStep
<1>1. ASSUME NEW r \in Receivers, PersistNewDelivery(r) PROVE RowStep(d)
  BY <1>1, AgentOn DEF PersistNewDelivery, Rows, SetStatus
<1>2. ASSUME NEW r \in Receivers, AccountDuplicate(r) PROVE RowStep(d)
  BY <1>2, AgentOn DEF AccountDuplicate, Rows
<1>3. ASSUME NEW a \in Agents, MarkQueued(a) PROVE RowStep(d)
  <2>1. agent[a].d \in Deliveries
    BY <1>3, AgentOn DEF MarkQueued
  <2>2. PICK q \in {"recent", row[agent[a].d].queuedAt} :
          row' = row \/ row' = [row EXCEPT ![agent[a].d].status = "queued", ![agent[a].d].queuedAt = q]
    BY <1>3 DEF MarkQueued
  <2>3. ASSUME NEW r \in Rows
        PROVE  /\ [r EXCEPT !.status = "queued", !.queuedAt = q].payload = r.payload
               /\ [r EXCEPT !.status = "queued", !.queuedAt = q].status = "queued"
    <3>1. PICK x : x = [r EXCEPT !.status = "queued"]
      OBVIOUS
    <3>2. DOMAIN x = DOMAIN r /\ x.payload = r.payload /\ x.status = "queued" /\ "queuedAt" \in DOMAIN r
      BY <3>1 DEF Rows
    <3>3. [x EXCEPT !.queuedAt = q].payload = r.payload /\ [x EXCEPT !.queuedAt = q].status = "queued"
      BY <3>2 DEF Rows
    <3> QED
      BY <3>1, <3>3, Zenon
  <2>4. row[agent[a].d] \in Rows
    BY <2>1
  <2>5. row'[d] = row[d] \/ (d = agent[a].d /\ row'[d] = [row[d] EXCEPT !.status = "queued", !.queuedAt = q])
    BY <2>1, <2>2
  <2> QED
    BY <2>3, <2>4, <2>5
<1>4. ASSUME NEW w \in Workers, ClaimDelivery(w) PROVE RowStep(d)
  BY <1>4, WorkerOn DEF ClaimDelivery, SetStatus, Rows
<1>5. ASSUME NEW w \in Workers, FinishFailure(w) PROVE RowStep(d)
  BY <1>5, WorkerOn DEF FinishFailure, Rows
<1>6. ASSUME NEW w \in Workers, PersistResult(w) PROVE RowStep(d)
  <2>1. worker[w].d \in Deliveries
    BY <1>6, WorkerOn DEF PersistResult
  <2>2. row' = row \/ row' = [row EXCEPT ![worker[w].d].status = "processed"]
    BY <1>6 DEF PersistResult
  <2> QED
    BY <1>6, <2>1, <2>2 DEF Rows
<1>7. ASSUME NEW w \in Workers, MarkObserved(w) PROVE RowStep(d)
  BY <1>7, WorkerOn DEF MarkObserved, Rows
<1>8. ASSUME NEW e \in Deliveries, ClearExpiredPayload(e) PROVE RowStep(d)
  BY <1>8 DEF ClearExpiredPayload, Rows
<1>9. ASSUME NEW e \in Deliveries, GraceElapses(e) PROVE RowStep(d)
  BY <1>9 DEF GraceElapses, Rows
<1>10. ASSUME NEW e \in Deliveries, ClaimAges(e) PROVE RowStep(d)
  BY <1>10 DEF ClaimAges, Rows
<1>11. ASSUME NEW e \in Deliveries, PayloadExpires(e) PROVE RowStep(d)
  BY <1>11 DEF PayloadExpires, Rows
<1>12. ASSUME NEW m \in Maintainers, MarkUnavailable(m) PROVE RowStep(d)
  BY <1>12, AgentOn DEF MarkUnavailable, Rows
<1>13. ASSUME NEW m \in Maintainers, MarkParserFailure(m) PROVE RowStep(d)
  BY <1>13, AgentOn DEF MarkParserFailure, Rows
<1>14. ASSUME NEW m \in Maintainers, RecoverClaim(m) PROVE RowStep(d)
  BY <1>14, AgentOn DEF RecoverClaim, Rows
<1>15. ASSUME UNCHANGED row PROVE RowStep(d)
  BY <1>15
<1>16. RowWriters
  BY RowWritten
<1> QED
  BY <1>1, <1>2, <1>3, <1>4, <1>5, <1>6, <1>7, <1>8, <1>9, <1>10, <1>11, <1>12, <1>13, <1>14, <1>15, <1>16 DEF RowWriters

(* The item of a delivery is kept. *)
LEMMA ItemSteps ==
  ASSUME TypeOK, [Next]_vars, NEW d \in Deliveries, item[d]
  PROVE  item'[d]
<1>1. ASSUME NEW w \in Workers, ProductionIntake(w) PROVE item'[d]
  BY <1>1 DEF ProductionIntake, TypeOK
<1>2. UNCHANGED item \/ \E w \in Workers : ProductionIntake(w)
  BY DEF Next, vars, AgentStep, RequestStep, MaintenanceStep, WorkerStep,
         Receive, FindExistingDelivery, PersistNewDelivery, AccountDuplicate, LookUpJob, ReadJobState, ReplaceJob, AddJob, MarkQueued, AgentFails, TakeJob, LoadDelivery, ClaimDelivery, Reload, Validate, FinishFailure, PersistResult, ListEvents, ObserveConversions, MarkObserved, Finish, WorkerThrows, IntakeDeferred, WorkerCrashes, LoseLock, BackoffElapses, DetectStalled, ClearExpiredPayload, SelectUnavailable, MarkUnavailable, RecoverSelect, MarkParserFailure, RecoverClaim, GraceElapses, ClaimAges, PayloadExpires, SwitchConnection
<1> QED
  BY <1>1, <1>2

(* The bounds only grow. *)
LEMMA UsedSteps ==
  ASSUME TypeOK, [Next]_vars
  PROVE  /\ used.faults \in Nat /\ used'.faults \in Nat /\ used.faults <= used'.faults
         /\ used'.deferred = 0 => used.deferred = 0
         /\ used'.switches = 0 => used.switches = 0 /\ UNCHANGED conn
<1>0. used \in Used /\ used.faults \in Nat /\ used.deferred \in Nat /\ used.switches \in Nat
  BY InboundAssumption DEF TypeOK, Used
<1>2. ASSUME Fault PROVE used'.faults = used.faults + 1 /\ used'.deferred = used.deferred /\ used'.switches = used.switches
  BY <1>0, <1>2 DEF Fault, Used
<1>3. ASSUME NEW r, NEW d, Receive(r, d)
      PROVE  used'.faults = used.faults /\ used'.deferred = used.deferred /\ used'.switches = used.switches /\ UNCHANGED conn
  BY <1>0, <1>3 DEF Receive, Used
<1>4. ASSUME NEW w, IntakeDeferred(w)
      PROVE  used'.faults = used.faults /\ used'.deferred = used.deferred + 1 /\ used'.switches = used.switches /\ UNCHANGED conn
  BY <1>0, <1>4 DEF IntakeDeferred, Used
<1>5. ASSUME NEW c, SwitchConnection(c)
      PROVE  used'.faults = used.faults /\ used'.deferred = used.deferred /\ used'.switches = used.switches + 1
  BY <1>0, <1>5 DEF SwitchConnection, Used
<1>6. \/ UNCHANGED <<used, conn>>
      \/ Fault /\ UNCHANGED conn
      \/ \E r \in Receivers, d \in Deliveries : Receive(r, d)
      \/ \E w \in Workers : IntakeDeferred(w)
      \/ \E c \in Connections : SwitchConnection(c)
  BY DEF Next, vars, AgentStep, RequestStep, MaintenanceStep, WorkerStep,
         FindExistingDelivery, PersistNewDelivery, AccountDuplicate, LookUpJob, ReadJobState, ReplaceJob, AddJob, MarkQueued, AgentFails, TakeJob, LoadDelivery, ClaimDelivery, Reload, Validate, FinishFailure, PersistResult, ListEvents, ProductionIntake, ObserveConversions, MarkObserved, Finish, WorkerThrows, WorkerCrashes, LoseLock, BackoffElapses, DetectStalled, ClearExpiredPayload, SelectUnavailable, MarkUnavailable, RecoverSelect, MarkParserFailure, RecoverClaim, GraceElapses, ClaimAges, PayloadExpires
<1> QED
  BY <1>0, <1>2, <1>3, <1>4, <1>5, <1>6

(* A step that leaves jobs and locks alone and lets those go on who bring  *)
(* an item.                                                                *)
Still ==
  \A w \in Workers :
    worker'[w].d = worker[w].d /\ (worker'[w].pc = "idle" <=> worker[w].pc = "idle")

Calm ==
  /\ UNCHANGED <<job, held>> /\ used'.faults = used.faults /\ Still
  /\ \A w \in Workers : worker[w].pc \in {"intake", "load", "list"} => worker'[w] = worker[w]
  /\ \A a \in Agents : agent[a].pc = "add" => agent'[a] = agent[a]

(* The steps that are not calm. *)
JobAction ==
  \/ \E w \in Workers :
       \/ LoadDelivery(w) \/ ListEvents(w) \/ ProductionIntake(w) \/ Finish(w)
       \/ WorkerThrows(w) \/ IntakeDeferred(w) \/ WorkerCrashes(w) \/ LoseLock(w)
       \/ \E d \in Deliveries : TakeJob(w, d)
  \/ \E a \in Agents : ReplaceJob(a) \/ AddJob(a) \/ AgentFails(a)
  \/ \E d \in Deliveries : BackoffElapses(d) \/ DetectStalled(d)

LEMMA CalmSteps ==
  ASSUME TypeOK, [Next]_vars
  PROVE  Calm \/ JobAction
<1> USE DEF Calm, Still
<1>1. ASSUME NEW w \in Workers, worker[w].pc \notin {"idle", "intake", "load", "list"},
             NEW pcs \in SUBSET WorkerPCs, MovesTo(w, pcs), UNCHANGED <<job, held, agent, used>>
      PROVE  Calm
  BY <1>1 DEF MovesTo, WorkerPCs
<1>2. ASSUME NEW w \in Workers,
             \/ ClaimDelivery(w) \/ Reload(w) \/ Validate(w) \/ FinishFailure(w) \/ PersistResult(w)
             \/ ObserveConversions(w) \/ MarkObserved(w)
      PROVE  Calm
  <2>1. worker[w].pc \notin {"idle", "intake", "load", "list"} /\ UNCHANGED <<job, held, agent, used>>
    BY <1>2 DEF ClaimDelivery, Reload, Validate, FinishFailure, PersistResult, ObserveConversions, MarkObserved
  <2>2. \/ \E pc \in {"validate", "reload", "intake", "markObserved"} : WorkerGoto(w, pc)
        \/ Return(w, TRUE) \/ Return(w, FALSE) \/ Validate(w) \/ Snapshot(w, "finish")
        \/ FinishFailure(w)
    BY <1>2 DEF ClaimDelivery, Reload, PersistResult, ObserveConversions, MarkObserved
  <2>3. FinishFailure(w) => Return(w, TRUE) \/ Return(w, FALSE)
    BY DEF FinishFailure
  <2>4. After(row[worker[w].d].status, "finish") \in {"list", "finish"}
    BY DEF After
  <2>5. \E pcs \in SUBSET WorkerPCs : MovesTo(w, pcs)
    BY <2>1, <2>2, <2>3, <2>4, WorkerMoves, SnapshotTyped DEF WorkerPCs
  <2> QED
    BY <1>1, <2>1, <2>5
<1>3. ASSUME NEW a \in Agents, agent[a].pc # "add", NEW x, agent' = [agent EXCEPT ![a] = x],
             UNCHANGED <<job, held, worker>>, used'.faults = used.faults
      PROVE  Calm
  BY <1>3 DEF TypeOK
<1>4. ASSUME NEW r \in Receivers, NEW d \in Deliveries, Receive(r, d) PROVE Calm
  <2>1. used'.faults = used.faults
    BY <1>4 DEF Receive, TypeOK, Used
  <2>2. \E x : agent' = [agent EXCEPT ![r] = x]
    BY <1>4 DEF Receive
  <2> QED
    BY <1>3, <1>4, <2>1, <2>2 DEF Receive, Agents
<1>5. ASSUME NEW a \in Agents,
             \/ FindExistingDelivery(a) \/ PersistNewDelivery(a) \/ AccountDuplicate(a) \/ LookUpJob(a)
             \/ ReadJobState(a) \/ MarkQueued(a) \/ MarkUnavailable(a) \/ MarkParserFailure(a) \/ RecoverClaim(a)
      PROVE  Calm
  <2>1. agent[a].pc # "add" /\ UNCHANGED <<job, held, worker, used>>
    BY <1>5 DEF FindExistingDelivery, PersistNewDelivery, AccountDuplicate, LookUpJob, ReadJobState, MarkQueued,
                MarkUnavailable, MarkParserFailure, RecoverClaim
  <2>2. AgentDone(a) \/ \E pc : AgentGoto(a, pc)
    <3>1. CASE AccountDuplicate(a) \/ MarkQueued(a) \/ MarkUnavailable(a) \/ MarkParserFailure(a)
      BY <3>1 DEF AccountDuplicate, MarkQueued, MarkUnavailable, MarkParserFailure
    <3>2. CASE FindExistingDelivery(a) \/ LookUpJob(a) \/ ReadJobState(a)
      BY <3>2 DEF FindExistingDelivery, LookUpJob, ReadJobState
    <3>3. CASE PersistNewDelivery(a)
      BY <3>3 DEF PersistNewDelivery
    <3>4. CASE RecoverClaim(a)
      BY <3>4 DEF RecoverClaim
    <3> QED
      BY <1>5, <3>1, <3>2, <3>3, <3>4
  <2>3. \E x : agent' = [agent EXCEPT ![a] = x]
    BY <2>2 DEF AgentDone, AgentGoto
  <2> QED
    BY <1>3, <2>1, <2>3
<1>6. ASSUME NEW m \in Maintainers, NEW d \in Deliveries, SelectUnavailable(m, d) \/ RecoverSelect(m, d) PROVE Calm
  <2>1. \E x : agent' = [agent EXCEPT ![m] = x]
    BY <1>6 DEF SelectUnavailable, RecoverSelect
  <2> QED
    BY <1>3, <1>6, <2>1 DEF SelectUnavailable, RecoverSelect, Agents
<1>7. ASSUME \/ \E d \in Deliveries : ClearExpiredPayload(d) \/ GraceElapses(d) \/ ClaimAges(d) \/ PayloadExpires(d)
             \/ \E c \in Connections : SwitchConnection(c)
             \/ UNCHANGED vars
      PROVE  Calm
  <2>1. UNCHANGED <<job, held, worker, agent>> /\ (UNCHANGED used \/ \E c \in Connections : SwitchConnection(c))
    BY <1>7 DEF ClearExpiredPayload, GraceElapses, ClaimAges, PayloadExpires, SwitchConnection, vars
  <2>2. used'.faults = used.faults
    BY <2>1 DEF SwitchConnection, TypeOK, Used
  <2> QED
    BY <2>1, <2>2
<1>8. Receivers \subseteq Agents /\ Maintainers \subseteq Agents
  BY DEF Agents
<1> QED
  BY <1>2, <1>4, <1>5, <1>6, <1>7, <1>8 DEF Next, JobAction, AgentStep, RequestStep, MaintenanceStep, WorkerStep

JobKept == HolderActive /\ FaultFree /\ FirstStall

LEMMA JobKeptCalm ==
  ASSUME TypeOK, JobKept, UNCHANGED <<job, held>>, used'.faults = used.faults, Still
  PROVE  JobKept'
<1>1. \A d : Locked(d)' <=> Locked(d)
  BY DEF Locked, Still, TypeOK
<1>2. HolderActive'
  BY DEF JobKept, HolderActive, Still, TypeOK
<1>3. FaultFree'
  BY <1>1 DEF JobKept, FaultFree, Still
<1>4. FirstStall'
  BY <1>1 DEF JobKept, FirstStall
<1> QED
  BY <1>2, <1>3, <1>4 DEF JobKept

LEMMA ThrowStill ==
  ASSUME TypeOK, NEW w \in Workers,
         LoadDelivery(w) \/ ListEvents(w) \/ ProductionIntake(w) \/ IntakeDeferred(w) \/ WorkerThrows(w)
  PROVE  Still /\ UNCHANGED <<job, held, agent>>
<1>1. worker[w].pc # "idle" /\ UNCHANGED <<job, held, agent>>
  BY DEF LoadDelivery, ListEvents, ProductionIntake, IntakeDeferred, WorkerThrows
<1>2. Snapshot(w, "claim") \/ WorkerGoto(w, "intake") \/ WorkerGoto(w, "observe") \/ Return(w, FALSE)
  BY DEF LoadDelivery, ListEvents, ProductionIntake, IntakeDeferred, WorkerThrows
<1>3. After(row[worker[w].d].status, "claim") \in {"list", "finish", "claim"}
  BY DEF After
<1>4. \E pcs \in SUBSET WorkerPCs : MovesTo(w, pcs)
  BY <1>1, <1>2, <1>3, WorkerMoves, SnapshotTyped DEF WorkerPCs
<1> QED
  BY <1>1, <1>4 DEF Still, MovesTo, WorkerPCs

LEMMA FaultCounts ==
  ASSUME TypeOK, Fault
  PROVE  used.faults \in Nat /\ used'.faults = used.faults + 1
BY InboundAssumption DEF TypeOK, Used, Fault

LEMMA JobKeptSteps ==
  ASSUME TypeOK, JobKept, [Next]_vars
  PROVE  JobKept'
<1>0. used.faults \in Nat
  BY UsedSteps
<1>1. ASSUME Calm PROVE JobKept'
  BY <1>1, JobKeptCalm DEF Calm
<1>2. ASSUME NEW w \in Workers, LoadDelivery(w) \/ ListEvents(w) \/ ProductionIntake(w) \/ IntakeDeferred(w)
      PROVE  JobKept'
  <2>1. used'.faults = used.faults
    BY <1>2 DEF LoadDelivery, ListEvents, ProductionIntake, IntakeDeferred, TypeOK, Used
  <2> QED
    BY <1>2, <2>1, ThrowStill, JobKeptCalm
<1>3. ASSUME Fault, Still, held' \subseteq held, UNCHANGED job PROVE JobKept'
  <2>1. used'.faults # 0 /\ (used'.faults <= 1 => used.faults = 0)
    BY <1>3, FaultCounts
  <2>2. HolderActive'
    BY <1>3 DEF JobKept, HolderActive, Still, TypeOK
  <2> QED
    BY <1>3, <2>1, <2>2 DEF JobKept, FaultFree, FirstStall
<1>4. ASSUME NEW w \in Workers, WorkerThrows(w) \/ LoseLock(w) PROVE JobKept'
  <2>1. Fault /\ Still /\ held' \subseteq held /\ UNCHANGED job
    BY <1>4, ThrowStill DEF WorkerThrows, LoseLock, Still
  <2> QED
    BY <2>1, <1>3
<1>5. ASSUME NEW a \in Agents, AgentFails(a) PROVE JobKept'
  BY <1>3, <1>5 DEF AgentFails, Still
<1>6. ASSUME NEW w \in Workers, WorkerCrashes(w) PROVE JobKept'
  <2>1. used'.faults # 0 /\ (used'.faults <= 1 => used.faults = 0)
    BY <1>6, FaultCounts DEF WorkerCrashes
  <2>2. HolderActive'
    BY <1>6 DEF WorkerCrashes, JobKept, HolderActive, TypeOK
  <2> QED
    BY <1>6, <2>1, <2>2 DEF WorkerCrashes, JobKept, FaultFree, FirstStall
<1>7. ASSUME NEW w \in Workers, NEW d \in Deliveries, TakeJob(w, d) PROVE JobKept'
  <2>1. /\ job[d] \in Jobs /\ job' = [job EXCEPT ![d] = Take(job[d])] /\ job[d].state = "waiting"
        /\ held' = held \cup {w} /\ used' = used /\ worker[w].pc = "idle"
        /\ worker'[w].d = d /\ worker'[w].pc = "load" /\ \A v \in Workers \ {w} : worker'[v] = worker[v]
    BY <1>7 DEF TakeJob, TypeOK, WorkerIdle
  <2>2. /\ job'[d].state = "active" /\ job'[d].stalls = job[d].stalls
        /\ \A e \in Deliveries \ {d} : job'[e] = job[e]
    BY <2>1, JobFacts DEF TypeOK
  <2>3. \A v \in held : v # w /\ worker[v].d # d /\ worker[v].d \in Deliveries
    BY <2>1, WorkerOn DEF JobKept, HolderActive, TypeOK
  <2>4. HolderActive'
    BY <2>1, <2>2, <2>3 DEF JobKept, HolderActive, TypeOK
  <2>5. \A e \in Deliveries : Locked(e)' <=> e = d \/ Locked(e)
    BY <2>1, <2>3 DEF Locked, TypeOK
  <2>6. FaultFree' /\ FirstStall'
    BY <2>1, <2>2, <2>5 DEF JobKept, FaultFree, FirstStall, TypeOK
  <2> QED
    BY <2>4, <2>6 DEF JobKept
<1>8. ASSUME NEW w \in Workers, Finish(w) PROVE JobKept'
  <2>1. /\ worker[w].d \in Deliveries /\ worker[w].pc = "finish" /\ held' = held \ {w} /\ used' = used
        /\ worker'[w].pc = "idle" /\ \A v \in Workers \ {w} : worker'[v] = worker[v]
    BY <1>8, WorkerOn DEF Finish, TypeOK, WorkerIdle
  <2>2. CASE w \in held
    <3>1. PICK x \in {NoJob, Fail(job[worker[w].d])} : job' = [job EXCEPT ![worker[w].d] = x]
      BY <1>8, <2>2 DEF Finish
    <3>2. job[worker[w].d] \in Jobs
      BY <2>1 DEF TypeOK
    <3>3. x.state \in {"none", "delayed", "failed"} /\ (x.stalls = 0 \/ x.stalls = job[worker[w].d].stalls)
      BY <3>2, JobFacts
    <3>4. /\ job'[worker[w].d] = x /\ \A e \in Deliveries \ {worker[w].d} : job'[e] = job[e]
      BY <2>1, <3>1 DEF TypeOK
    <3>5. \A v \in held \ {w} : worker[v].d # worker[w].d /\ worker[v].d \in Deliveries
      BY <2>2, WorkerOn DEF JobKept, HolderActive, TypeOK
    <3>6. HolderActive'
      BY <2>1, <3>4, <3>5 DEF JobKept, HolderActive, TypeOK
    <3>7. \A e \in Deliveries \ {worker[w].d} : Locked(e)' <=> Locked(e)
      BY <2>1 DEF Locked, TypeOK
    <3>8. FaultFree' /\ FirstStall'
      BY <2>1, <3>3, <3>4, <3>7 DEF JobKept, FaultFree, FirstStall
    <3> QED
      BY <3>6, <3>8 DEF JobKept
  <2>3. CASE w \notin held
    <3>1. held' = held /\ job' = job
      BY <1>8, <2>1, <2>3 DEF Finish
    <3>2. HolderActive'
      BY <2>1, <2>3, <3>1 DEF JobKept, HolderActive, TypeOK
    <3>3. \A e : Locked(e)' <=> Locked(e)
      BY <2>1, <2>3, <3>1 DEF Locked, TypeOK
    <3> QED
      BY <2>1, <2>3, <3>1, <3>2, <3>3 DEF JobKept, FaultFree, FirstStall
  <2> QED
    BY <2>2, <2>3
<1>9. ASSUME NEW d \in Deliveries, NEW x, job' = [job EXCEPT ![d] = x], UNCHANGED <<held, worker, used>>,
             ~(job[d].state = "active" /\ Locked(d)),
             x.state # "active" \/ x = job[d], x.stalls \in {0, job[d].stalls} \/ used.faults # 0
      PROVE  JobKept'
  <2>1. \A e : Locked(e)' <=> Locked(e)
    BY <1>9 DEF Locked
  <2>2. job'[d] = x /\ \A e \in Deliveries \ {d} : job'[e] = job[e]
    BY <1>9 DEF TypeOK
  <2>3. \A v \in held : worker[v].d # d /\ worker[v].d \in Deliveries
    BY <1>9, WorkerOn DEF JobKept, HolderActive, Locked, TypeOK
  <2>4. HolderActive'
    BY <1>9, <2>2, <2>3 DEF JobKept, HolderActive
  <2>5. FaultFree'
    BY <1>9, <2>1, <2>2 DEF JobKept, FaultFree
  <2>6. FirstStall'
    BY <1>9, <2>1, <2>2 DEF JobKept, FirstStall
  <2> QED
    BY <2>4, <2>5, <2>6 DEF JobKept
<1>10. ASSUME NEW d \in Deliveries, BackoffElapses(d) PROVE JobKept'
  <2>1. job[d] \in Jobs
    BY DEF TypeOK
  <2>2. Promote(job[d]).state = "waiting" /\ Promote(job[d]).stalls = job[d].stalls
    BY <2>1, JobFacts
  <2> QED
    BY <1>9, <1>10, <2>2 DEF BackoffElapses
<1>11. ASSUME NEW d \in Deliveries, DetectStalled(d) PROVE JobKept'
  <2>1. job[d] \in Jobs
    BY DEF TypeOK
  <2>2. Stall(job[d]).state \in {"waiting", "failed"}
    BY <2>1, JobFacts
  <2>3. used.faults # 0
    BY <1>11 DEF DetectStalled, JobKept, FaultFree
  <2> QED
    BY <1>9, <1>11, <2>2, <2>3 DEF DetectStalled
<1>12. ASSUME NEW a \in Agents, AddJob(a) PROVE JobKept'
  <2>1. agent[a].d \in Deliveries
    BY <1>12, AgentOn DEF AddJob
  <2>2. job[agent[a].d] \in Jobs
    BY <2>1 DEF TypeOK
  <2>3. CASE job[agent[a].d].state = "none"
    <3>1. Add(job[agent[a].d]).state = "waiting" /\ Add(job[agent[a].d]).stalls = 0
      BY <2>2, <2>3, JobFacts
    <3>2. job' = [job EXCEPT ![agent[a].d] = Add(job[agent[a].d])] /\ UNCHANGED <<held, worker, used>>
      BY <1>12 DEF AddJob
    <3> QED
      BY <1>9, <2>1, <2>3, <3>1, <3>2
  <2>4. CASE job[agent[a].d].state # "none"
    <3>1. job' = job
      BY <1>12, <2>2, <2>4, JobFacts DEF AddJob, TypeOK
    <3> QED
      BY <1>12, <3>1, JobKeptCalm DEF AddJob, Still
  <2> QED
    BY <2>3, <2>4
<1>13. ASSUME NEW a \in Agents, ReplaceJob(a) PROVE JobKept'
  <2>1. agent[a].d \in Deliveries
    BY <1>13, AgentOn DEF ReplaceJob
  <2>2. NoJob.state = "none" /\ NoJob.stalls = 0
    BY DEF NoJob
  <2>3. CASE job[agent[a].d].state = "active" /\ Locked(agent[a].d)
    BY <1>13, <2>3, JobKeptCalm DEF ReplaceJob, Still
  <2>4. CASE ~(job[agent[a].d].state = "active" /\ Locked(agent[a].d))
    BY <1>9, <1>13, <2>1, <2>2, <2>4 DEF ReplaceJob
  <2> QED
    BY <2>3, <2>4
<1> QED
  BY <1>1, <1>2, <1>4, <1>5, <1>6, <1>7, <1>8, <1>10, <1>11, <1>12, <1>13, CalmSteps DEF JobAction

(* What keeps an item coming: its job, its lock, and those who bring it. *)
Bringing(d) ==
  /\ used'.faults = used.faults /\ job'[d] = job[d] /\ (Locked(d)' <=> Locked(d))
  /\ \A w \in Workers : worker[w].d = d /\ worker[w].pc \in {"intake", "load", "list"}
       => worker'[w] = worker[w] /\ (w \in held => w \in held')
  /\ \A a \in Agents : agent[a] = [pc |-> "add", d |-> d] => agent'[a] = agent[a]

LEMMA ComingKept ==
  ASSUME TypeOK, NEW d \in Deliveries, Coming(d), Bringing(d)
  PROVE  Coming(d)'
<1>1. held \subseteq Workers
  BY DEF TypeOK
<1>2. AtIntake(d) => AtIntake(d)'
  BY DEF AtIntake, Bringing
<1>3. Retried(d) => Retried(d)'
  BY <1>1 DEF Retried, Bringing
<1> QED
  BY <1>2, <1>3 DEF Coming, Bringing

(* A fault finds the item at its intake: there was none before. *)
LEMMA FaultFindsIntake ==
  ASSUME TypeOK, NEW d \in Deliveries, Coming(d), Fault, used'.faults <= 1
  PROVE  used.faults = 0 /\ used'.faults = 1 /\ AtIntake(d)
BY FaultCounts DEF Coming

LEMMA ComingSteps ==
  ASSUME TypeOK, TypeOK', JobKept, [Next]_vars, MaxStalled >= 1, used'.faults <= 1, used'.deferred = 0,
         conn = "usable", NEW d \in Eligible, d \in Deliveries, Coming(d), ~item'[d], row[d].status = "processed"
  PROVE  Coming(d)'
<1>1. ASSUME Calm PROVE Coming(d)'
  <2>1. Bringing(d)
    BY <1>1 DEF Calm, Still, Bringing, Locked, TypeOK
  <2> QED
    BY <2>1, ComingKept
<1>2. ASSUME NEW w \in Workers, LoadDelivery(w) PROVE Coming(d)'
  <2>1. /\ worker[w].pc = "load" /\ used' = used /\ UNCHANGED <<job, held, agent>>
        /\ MovesTo(w, {After(row[worker[w].d].status, "claim")})
    BY <1>2, SnapshotTyped DEF LoadDelivery, WorkerPCs
  <2>2. \A e : Locked(e)' <=> Locked(e)
    BY <2>1 DEF Locked, MovesTo, TypeOK
  <2>3. CASE worker[w].d = d
    <3>1. worker'[w].d = d /\ worker'[w].pc = "list"
      BY <2>1, <2>3 DEF MovesTo, After
    <3>2. AtIntake(d) => AtIntake(d)'
      BY <2>1 DEF AtIntake, MovesTo
    <3>3. Retried(d) => Retried(d)'
      BY <2>1, <2>2, <3>1 DEF Retried, MovesTo, TypeOK
    <3> QED
      BY <2>1, <3>2, <3>3 DEF Coming
  <2>4. CASE worker[w].d # d
    <3>1. Bringing(d)
      BY <2>1, <2>2, <2>4 DEF Bringing, MovesTo
    <3> QED
      BY <3>1, ComingKept
  <2> QED
    BY <2>3, <2>4
<1>3. ASSUME NEW w \in Workers, ListEvents(w) PROVE Coming(d)'
  <2>1. worker[w].pc = "list" /\ used' = used /\ UNCHANGED <<job, held, agent>> /\ MovesTo(w, {"intake"})
    BY <1>3, WorkerMoves DEF ListEvents, WorkerPCs
  <2>2. CASE worker[w].d = d
    BY <2>1, <2>2 DEF Coming, AtIntake, MovesTo
  <2>3. CASE worker[w].d # d
    <3>1. Locked(d)' <=> Locked(d)
      BY <2>1 DEF Locked, MovesTo, TypeOK
    <3>2. Bringing(d)
      BY <2>1, <2>3, <3>1 DEF Bringing, MovesTo
    <3> QED
      BY <3>2, ComingKept
  <2> QED
    BY <2>2, <2>3
<1>4. ASSUME NEW w \in Workers, ProductionIntake(w) PROVE Coming(d)'
  <2>1. worker[w].pc = "intake" /\ used' = used /\ UNCHANGED <<job, held, agent>> /\ MovesTo(w, {"observe"})
    BY <1>4, WorkerMoves DEF ProductionIntake, WorkerPCs
  <2>2. worker[w].d # d
    BY <1>4 DEF ProductionIntake, TypeOK
  <2>3. Locked(d)' <=> Locked(d)
    BY <2>1 DEF Locked, MovesTo, TypeOK
  <2>4. Bringing(d)
    BY <2>1, <2>2, <2>3 DEF Bringing, MovesTo
  <2> QED
    BY <2>4, ComingKept
<1>5. ASSUME NEW w \in Workers, IntakeDeferred(w) PROVE Coming(d)'
  <2>1. used.deferred \in Nat /\ used'.deferred = used.deferred + 1
    BY <1>5, InboundAssumption DEF IntakeDeferred, TypeOK, Used
  <2> QED
    BY <2>1
<1>6. ASSUME NEW w \in Workers, Finish(w) PROVE Coming(d)'
  <2>1. /\ worker[w].pc = "finish" /\ held' = held \ {w} /\ used' = used /\ agent' = agent
        /\ worker'[w].pc = "idle" /\ worker'[w].d = NoDelivery /\ \A v \in Workers \ {w} : worker'[v] = worker[v]
        /\ worker[w].d \in Deliveries
    BY <1>6, WorkerOn DEF Finish, TypeOK, WorkerIdle
  <2>2. AtIntake(d) => AtIntake(d)'
    BY <2>1 DEF AtIntake
  <2>3. CASE w \in held /\ worker[w].d = d
    <3>1. job[d].state = "active" /\ \A v \in held : worker[v].d = d => v = w
      BY <2>3 DEF JobKept, HolderActive
    <3>2. ~Retried(d)
      BY <2>1, <2>3, <3>1 DEF Retried, Locked
    <3> QED
      BY <2>2, <3>2 DEF Coming
  <2>4. CASE ~(w \in held /\ worker[w].d = d)
    <3>1. job'[d] = job[d]
      BY <1>6, <2>1, <2>4 DEF Finish, TypeOK
    <3>2. Locked(d)' <=> Locked(d)
      BY <2>1, <2>4 DEF Locked, TypeOK
    <3>3. Bringing(d)
      BY <2>1, <3>1, <3>2 DEF Bringing
    <3> QED
      BY <3>3, ComingKept
  <2> QED
    BY <2>3, <2>4
<1>7. ASSUME NEW w \in Workers, WorkerThrows(w) PROVE Coming(d)'
  <2>1. worker[w].pc \notin {"idle", "intake"} /\ Fault /\ MovesTo(w, {"finish"})
    BY <1>7, WorkerMoves DEF WorkerThrows
  <2>2. AtIntake(d)
    BY <2>1, FaultFindsIntake
  <2>3. AtIntake(d)'
    BY <2>1, <2>2 DEF AtIntake, MovesTo
  <2> QED
    BY <2>3 DEF Coming
<1>8. ASSUME Fault, UNCHANGED worker PROVE Coming(d)'
  <2>1. AtIntake(d)
    BY <1>8, FaultFindsIntake
  <2> QED
    BY <1>8, <2>1 DEF Coming, AtIntake
<1>9. ASSUME NEW w \in Workers, WorkerCrashes(w) PROVE Coming(d)'
  <2>1. /\ Fault /\ UNCHANGED job /\ held' = held \ {w}
        /\ worker' = [worker EXCEPT ![w] = WorkerIdle]
    BY <1>9 DEF WorkerCrashes
  <2>2. used.faults = 0 /\ used'.faults = 1 /\ AtIntake(d)
    BY <2>1, FaultFindsIntake
  <2>3. PICK v \in Workers : worker[v].d = d /\ worker[v].pc = "intake"
    BY <2>2 DEF AtIntake
  <2>4. CASE v = w
    <3>1. w \in held /\ job[d].state = "active" /\ \A u \in held : worker[u].d = d => u = w
      BY <2>2, <2>3, <2>4 DEF JobKept, FaultFree, HolderActive
    <3>2. ~Locked(d)' /\ job'[d].state = "active"
      BY <2>1, <3>1 DEF Locked, TypeOK
    <3> QED
      BY <2>2, <3>2 DEF Coming, Retried
  <2>5. CASE v # w
    BY <2>1, <2>3, <2>5 DEF Coming, AtIntake, TypeOK
  <2> QED
    BY <2>4, <2>5
<1>10. ASSUME NEW w \in Workers, NEW e \in Deliveries, TakeJob(w, e) PROVE Coming(d)'
  <2>1. /\ job[e] \in Jobs /\ job' = [job EXCEPT ![e] = Take(job[e])] /\ job[e].state = "waiting"
        /\ held' = held \cup {w} /\ used' = used /\ agent' = agent /\ worker[w].pc = "idle"
        /\ worker'[w].d = e /\ worker'[w].pc = "load" /\ \A v \in Workers \ {w} : worker'[v] = worker[v]
    BY <1>10 DEF TakeJob, TypeOK, WorkerIdle
  <2>2. AtIntake(d) => AtIntake(d)'
    BY <2>1 DEF AtIntake
  <2>3. CASE e = d
    <3>1. Retried(d)'
      BY <2>1, <2>3 DEF Retried
    <3> QED
      BY <2>1, <2>2, <3>1 DEF Coming
  <2>4. CASE e # d
    <3>1. w \notin held
      BY <2>1 DEF JobKept, HolderActive
    <3>2. Locked(d)' <=> Locked(d)
      BY <2>1, <2>4, <3>1 DEF Locked, TypeOK
    <3>3. job'[d] = job[d]
      BY <2>1, <2>4 DEF TypeOK
    <3>4. Bringing(d)
      BY <2>1, <3>2, <3>3 DEF Bringing
    <3> QED
      BY <3>4, ComingKept
  <2> QED
    BY <2>3, <2>4
<1>11. ASSUME NEW e \in Deliveries, NEW x, job' = [job EXCEPT ![e] = x], UNCHANGED <<held, worker, agent, used>>,
              e = d => x.state = "waiting"
       PROVE  Coming(d)'
  <2>1. CASE e = d
    <3>1. Retried(d)'
      BY <1>11, <2>1 DEF Retried, TypeOK
    <3>2. AtIntake(d) => AtIntake(d)'
      BY <1>11 DEF AtIntake
    <3> QED
      BY <1>11, <3>1, <3>2 DEF Coming
  <2>2. CASE e # d
    <3>1. Bringing(d)
      BY <1>11, <2>2 DEF Bringing, Locked, TypeOK
    <3> QED
      BY <3>1, ComingKept
  <2> QED
    BY <2>1, <2>2
<1>12. ASSUME NEW e \in Deliveries, BackoffElapses(e) PROVE Coming(d)'
  <2>1. Promote(job[e]).state = "waiting"
    BY JobFacts DEF TypeOK
  <2> QED
    BY <1>11, <1>12, <2>1 DEF BackoffElapses
<1>13. ASSUME NEW e \in Deliveries, DetectStalled(e) PROVE Coming(d)'
  <2>1. job[e] \in Jobs /\ job[e].state = "active" /\ ~Locked(e) /\ used.faults <= 1
    BY <1>13 DEF DetectStalled, TypeOK
  <2>2. job[e].stalls = 0
    BY <2>1 DEF JobKept, FirstStall
  <2>3. Stall(job[e]).state = "waiting"
    BY <2>1, <2>2, JobFacts
  <2> QED
    BY <1>11, <1>13, <2>3 DEF DetectStalled
<1>14. ASSUME NEW a \in Agents, ReplaceJob(a) PROVE Coming(d)'
  <2>1. agent[a].d \in Deliveries /\ agent[a].pc = "replace" /\ UNCHANGED <<held, worker, used>>
    BY <1>14, AgentOn DEF ReplaceJob
  <2>2. CASE UNCHANGED job /\ AgentDone(a)
    <3>1. Bringing(d)
      BY <2>1, <2>2 DEF Bringing, Locked, AgentDone, TypeOK
    <3> QED
      BY <3>1, ComingKept
  <2>3. CASE AgentGoto(a, "add") /\ job' = [job EXCEPT ![agent[a].d] = NoJob]
    <3>1. CASE agent[a].d = d
      <4>1. agent[a] = [pc |-> "replace", d |-> d]
        BY <2>1, <3>1 DEF TypeOK, AgentRecs, AgentIdle
      <4>2. agent'[a] = [pc |-> "add", d |-> d]
        BY <2>3, <4>1 DEF AgentGoto, TypeOK
      <4>3. job'[d].state = "none"
        BY <2>3, <3>1 DEF TypeOK, NoJob
      <4>4. Retried(d)'
        BY <4>2, <4>3 DEF Retried
      <4>5. AtIntake(d) => AtIntake(d)'
        BY <2>1 DEF AtIntake
      <4> QED
        BY <2>1, <4>4, <4>5 DEF Coming
    <3>2. CASE agent[a].d # d
      <4>1. Bringing(d)
        BY <2>1, <2>3, <3>2 DEF Bringing, Locked, AgentGoto, TypeOK
      <4> QED
        BY <4>1, ComingKept
    <3> QED
      BY <3>1, <3>2
  <2> QED
    BY <1>14, <2>2, <2>3 DEF ReplaceJob
<1>15. ASSUME NEW a \in Agents, AddJob(a) PROVE Coming(d)'
  <2>1. /\ agent[a].d \in Deliveries /\ agent[a].pc = "add" /\ UNCHANGED <<held, worker, used>>
        /\ job' = [job EXCEPT ![agent[a].d] = Add(job[agent[a].d])] /\ AgentGoto(a, "mark")
    BY <1>15, AgentOn DEF AddJob
  <2>2. AtIntake(d) => AtIntake(d)'
    BY <2>1 DEF AtIntake
  <2>3. CASE agent[a].d = d /\ job[d].state = "none"
    <3>1. job'[d].state = "waiting"
      BY <2>1, <2>3, JobFacts DEF TypeOK
    <3> QED
      BY <2>1, <2>2, <3>1 DEF Coming, Retried
  <2>4. CASE agent[a].d = d /\ job[d].state # "none"
    <3>1. job'[d] = job[d] /\ (Locked(d)' <=> Locked(d))
      BY <2>1, <2>4, JobFacts DEF TypeOK, Locked
    <3>2. Retried(d) => Retried(d)'
      BY <2>1, <2>4, <3>1 DEF Retried
    <3> QED
      BY <2>1, <2>2, <3>2 DEF Coming
  <2>5. CASE agent[a].d # d
    <3>1. Bringing(d)
      BY <2>1, <2>5 DEF Bringing, Locked, AgentGoto, TypeOK
    <3> QED
      BY <3>1, ComingKept
  <2> QED
    BY <2>3, <2>4, <2>5
<1>16. ASSUME NEW w \in Workers, LoseLock(w) PROVE Coming(d)'
  BY <1>8, <1>16 DEF LoseLock
<1>17. ASSUME NEW a \in Agents, AgentFails(a) PROVE Coming(d)'
  BY <1>8, <1>17 DEF AgentFails
<1> QED
  BY <1>1, <1>2, <1>3, <1>4, <1>5, <1>6, <1>7, <1>9, <1>10, <1>12, <1>13, <1>14, <1>15, <1>16, <1>17, CalmSteps
  DEF JobAction

LEMMA TakenSteps ==
  ASSUME TypeOK, TypeOK', TakenInv, [Next]_vars, MaxStalled >= 1
  PROVE  TakenInv'
<1>1. JobKept'
  BY JobKeptSteps DEF TakenInv, JobKept
<1>2. UsableKept'
  BY UsedSteps DEF TakenInv, UsableKept
<1>3. ASSUME Undisturbed', NEW d \in Eligible, row'[d].status = "processed", ~item'[d]
      PROVE  Coming(d)'
  <2>1. Eligible \subseteq Deliveries
    BY InboundAssumption
  <2>2. used.faults <= 1 /\ used'.faults <= 1 /\ used'.deferred = 0 /\ used.deferred = 0 /\ used.switches = 0
    BY <1>3, UsedSteps DEF Undisturbed
  <2>3. Undisturbed
    BY <1>3, <2>1, <2>2, RowSteps DEF Undisturbed, RowStep
  <2>4. CASE row[d].status = "processed"
    <3>1. ~item[d]
      BY <1>3, <2>1, ItemSteps
    <3>2. Coming(d)
      BY <2>3, <2>4, <3>1 DEF TakenInv, TakenOrComing
    <3>3. conn = "usable"
      BY <2>2 DEF TakenInv, UsableKept
    <3> QED
      BY <1>3, <2>1, <2>2, <2>4, <3>2, <3>3, ComingSteps DEF TakenInv, JobKept
  <2>5. CASE row[d].status # "processed"
    <3>1. PICK w \in Workers : worker[w].d = d /\ PersistResult(w)
      BY <1>3, <2>1, <2>5, RowSteps DEF RowStep
    <3>2. worker[w].pc = "persist" /\ WorkerGoto(w, "intake")
      BY <1>3, <2>5, <3>1 DEF PersistResult
    <3>3. MovesTo(w, {"intake"})
      BY <3>2, WorkerMoves DEF WorkerPCs
    <3> QED
      BY <3>1, <3>3 DEF MovesTo, Coming, AtIntake
  <2> QED
    BY <2>4, <2>5
<1>4. TakenOrComing'
  BY <1>3 DEF TakenOrComing
<1> QED
  BY <1>1, <1>2, <1>4 DEF TakenInv, JobKept

(* A processed delivery with an event for production has its production    *)
(* item once its processing is over, through all redeliveries and through  *)
(* any one crash, failed query or lost lock: the worker that commits the   *)
(* events goes on to the intake, and when it dies there its job is found   *)
(* stalled for the first time, so that BullMQ hands it to a worker that    *)
(* finds the delivery processed and takes it from there.  BullMQ's default *)
(* maxStalledCount of 1, which the repository does not change, is needed.  *)
THEOREM TakenThroughOneFault == MaxStalled >= 1 => (Spec => []TakenUndisturbed)
<1> SUFFICES ASSUME MaxStalled >= 1 PROVE Spec => []TakenUndisturbed
  OBVIOUS
<1>1. Init => TakenInv
  <2> SUFFICES ASSUME Init PROVE TakenInv
    OBVIOUS
  <2>1. /\ \A d \in Deliveries : job[d].state = "none" /\ job[d].stalls = 0 /\ row[d].status = "absent"
        /\ \A w \in Workers : worker[w].pc = "idle"
        /\ held = {} /\ conn = "usable"
    BY DEF Init, NoJob, WorkerIdle
  <2>2. Eligible \subseteq Deliveries
    BY InboundAssumption
  <2> QED
    BY <2>1, <2>2 DEF TakenInv, HolderActive, FaultFree, FirstStall, UsableKept, TakenOrComing
<1>2. TypeOK /\ TypeOK' /\ TakenInv /\ [Next]_vars => TakenInv'
  BY TakenSteps
<1>3. TypeOK /\ TakenInv => TakenUndisturbed
  <2> SUFFICES ASSUME TypeOK, TakenInv, Undisturbed, NEW d \in Eligible, row[d].status = "processed", Quiet(d), ~item[d]
               PROVE  FALSE
    BY DEF TakenUndisturbed, EligibleTaken, Undisturbed
  <2>1. Coming(d)
    BY DEF TakenInv, TakenOrComing
  <2>2. held \subseteq Workers
    BY DEF TypeOK
  <2> QED
    BY <2>1, <2>2 DEF Coming, AtIntake, Retried, Quiet, Live
<1> QED
  BY <1>1, <1>2, <1>3, TypeCorrect, PTL DEF Spec
=============================================================================
