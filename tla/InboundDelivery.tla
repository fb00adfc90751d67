--------------------------- MODULE InboundDelivery ---------------------------
(***************************************************************************)
(* Intake of inbound webhooks, from the HTTP request to the production     *)
(* item: a request stores a delivery and answers; a task of the request    *)
(* hands it to the queue; a worker claims it, parses it, commits its       *)
(* events, creates its production item and records its provider            *)
(* conversions; a periodic maintenance recovers deliveries that were left  *)
(* behind.  Requests, workers and maintenance of several processes         *)
(* interleave at every query; any of them may fail, and a worker may lose  *)
(* the lock of its job and go on.                                          *)
(***************************************************************************)
EXTENDS BullJob

CONSTANTS
  Deliveries,    \* deliveries, one per connection and ingressKey
  NoDelivery,    \* what an idle actor works on
  Invalid,       \* those whose payload the parser refuses
  Eligible,      \* those with an event for production, received after activation
  Expiring,      \* those whose retention can end while they are in process
  Workers,       \* workers of the queue "inbound-webhook"
  Receivers,     \* requests in progress, with their background task
  Maintainers,   \* maintenance loops, one per process
  MaxFaults,     \* bound: failed queries and commands, crashes, lost locks
  MaxDeferred,   \* bound: failures of the production intake
  MaxReceipts,   \* bound: requests
  MaxSwitches    \* bound: changes of the connection

ASSUME InboundAssumption ==
  /\ Invalid \subseteq Deliveries /\ Expiring \subseteq Deliveries
  /\ Eligible \subseteq Deliveries \ Invalid
  /\ NoDelivery \notin Deliveries
  /\ Receivers \cap Maintainers = {}
  /\ MaxFaults \in Nat /\ MaxDeferred \in Nat /\ MaxReceipts \in Nat /\ MaxSwitches \in Nat

VARIABLES
  row,      \* the row of each delivery
  job,      \* the job of each delivery
  worker,   \* the workers inside processDelivery
  held,     \* the workers that hold the lock of their job
  fresh,    \* the workers whose snapshot has the row's current updatedAt
  agent,    \* the requests and the maintenance loops
  current,  \* the agents whose snapshot has the row's current queuedAt
  exec,     \* the provider conversions of the delivery are recorded
  item,     \* the delivery has its production item
  conn,     \* the connection: usable, paused or without a parser
  used      \* what was used of each bound

vars == <<row, job, worker, held, fresh, agent, current, exec, item, conn, used>>

Agents == Receivers \cup Maintainers

Terminal == {"processed", "failed"}

Rows == [status : {"absent", "pending", "queued", "processing"} \cup Terminal,
         payload : {"stored", "expired", "cleared"},  \* before, after payloadExpiresAt; null
         aged : BOOLEAN,                              \* lastReceivedAt is out of the grace period
         queuedAt : {"null", "recent", "stale"},
         observed : BOOLEAN]                          \* providerConversionsObservedAt is set

Connections == {"usable", "paused", "unparsable"}

WorkerPCs == {"load", "claim", "reload", "validate", "fail", "persist", "list",
              "intake", "observe", "markObserved", "finish"}

WorkerIdle == [pc |-> "idle", d |-> NoDelivery, conn |-> "usable", seen |-> FALSE,
               parsed |-> FALSE, ok |-> FALSE]

WorkerRecs ==
  {WorkerIdle} \cup
  [pc : WorkerPCs, d : Deliveries,
   conn : Connections, \* the connection of the snapshot
   seen : BOOLEAN,     \* the conversions of the snapshot were observed
   parsed : BOOLEAN,   \* the payload is parsed
   ok : BOOLEAN]       \* processDelivery returned

AgentPCs == {"find", "create", "account", "unavailable", "claim", "reject", "look", "state", "replace", "add", "mark"}

AgentIdle == [pc |-> "idle", d |-> NoDelivery]

AgentRecs == {AgentIdle} \cup [pc : AgentPCs, d : Deliveries]

Used == [faults : 0..MaxFaults, deferred : 0..MaxDeferred,
         receipts : 0..MaxReceipts, switches : 0..MaxSwitches]

TypeOK ==
  /\ row \in [Deliveries -> Rows]
  /\ job \in [Deliveries -> Jobs]
  /\ worker \in [Workers -> WorkerRecs]
  /\ held \in SUBSET Workers
  /\ fresh \in SUBSET Workers
  /\ agent \in [Agents -> AgentRecs]
  /\ current \in SUBSET Maintainers
  /\ exec \in [Deliveries -> BOOLEAN]
  /\ item \in [Deliveries -> BOOLEAN]
  /\ conn \in Connections
  /\ used \in Used

Init ==
  /\ row = [d \in Deliveries |-> [status |-> "absent", payload |-> "stored", aged |-> FALSE,
                                  queuedAt |-> "null", observed |-> FALSE]]
  /\ job = [d \in Deliveries |-> NoJob]
  /\ worker = [w \in Workers |-> WorkerIdle]
  /\ held = {} /\ fresh = {} /\ current = {}
  /\ agent = [a \in Agents |-> AgentIdle]
  /\ exec = [d \in Deliveries |-> FALSE]
  /\ item = [d \in Deliveries |-> FALSE]
  /\ conn = "usable"
  /\ used = [faults |-> 0, deferred |-> 0, receipts |-> 0, switches |-> 0]

Fault ==
  /\ used.faults < MaxFaults
  /\ used' = [used EXCEPT !.faults = @ + 1]

(* Every update of a row sets updatedAt: snapshots of it are out of date. *)
Touched(d) == {w \in fresh : worker[w].d # d}

SetStatus(d, status) == row' = [row EXCEPT ![d].status = status]

-----------------------------------------------------------------------------
(* Requests. *)

AgentGoto(a, pc) == agent' = [agent EXCEPT ![a].pc = pc]

AgentDone(a) == agent' = [agent EXCEPT ![a] = AgentIdle]

(* A request whose token matches a connection that is not paused. *)
Receive(r, d) ==
  /\ agent[r].pc = "idle" /\ conn # "paused"
  /\ used.receipts < MaxReceipts
  /\ agent' = [agent EXCEPT ![r] = [pc |-> "find", d |-> d]]
  /\ used' = [used EXCEPT !.receipts = @ + 1]
  /\ UNCHANGED <<row, job, worker, held, fresh, current, exec, item, conn>>

FindExistingDelivery(r) ==
  /\ agent[r].pc = "find"
  /\ AgentGoto(r, IF row[agent[r].d].status = "absent" THEN "create" ELSE "account")
  /\ UNCHANGED <<row, job, worker, held, fresh, current, exec, item, conn, used>>

(* Mutant of PersistNewDelivery: the delivery is stored as queued. *)
PersistNewDeliveryQueued(r) ==
  LET d == agent[r].d IN
  /\ agent[r].pc = "create"
  /\ CASE conn = "paused" -> AgentDone(r) /\ UNCHANGED row
       [] conn # "paused" /\ row[d].status = "absent" -> SetStatus(d, "queued") /\ AgentGoto(r, "look")
       [] OTHER -> AgentGoto(r, "account") /\ UNCHANGED row
  /\ UNCHANGED <<job, worker, held, fresh, current, exec, item, conn, used>>

(* The connection is checked again in the transaction; a lost create       *)
(* (P2002) is a duplicate.                                                 *)
PersistNewDelivery(r) ==
  LET d == agent[r].d IN
  /\ agent[r].pc = "create"
  /\ CASE conn = "paused" -> AgentDone(r) /\ UNCHANGED row
       [] conn # "paused" /\ row[d].status = "absent" -> SetStatus(d, "pending") /\ AgentGoto(r, "look")
       [] OTHER -> AgentGoto(r, "account") /\ UNCHANGED row
  /\ UNCHANGED <<job, worker, held, fresh, current, exec, item, conn, used>>

(* scheduleDuplicateAccounting, after the answer. *)
AccountDuplicate(r) ==
  LET d == agent[r].d IN
  /\ agent[r].pc = "account"
  /\ row' = [row EXCEPT ![d].aged = FALSE]
  /\ fresh' = Touched(d)
  /\ AgentDone(r)
  /\ UNCHANGED <<job, worker, held, current, exec, item, conn, used>>

(* enqueueDelivery of the queue service: getJob, getState, remove, add. *)
LookUpJob(a) ==
  /\ agent[a].pc = "look"
  /\ AgentGoto(a, IF job[agent[a].d].state = "none" THEN "add" ELSE "state")
  /\ UNCHANGED <<row, job, worker, held, fresh, current, exec, item, conn, used>>

ReadJobState(a) ==
  /\ agent[a].pc = "state"
  /\ AgentGoto(a, IF job[agent[a].d].state = "failed" THEN "replace" ELSE "mark")
  /\ UNCHANGED <<row, job, worker, held, fresh, current, exec, item, conn, used>>

Locked(d) == \E w \in held : worker[w].d = d

ReplaceJob(a) ==
  LET d == agent[a].d IN
  /\ agent[a].pc = "replace"
  /\ IF job[d].state = "active" /\ Locked(d)
       THEN AgentDone(a) /\ UNCHANGED job
       ELSE AgentGoto(a, "add") /\ job' = [job EXCEPT ![d] = NoJob]
  /\ UNCHANGED <<row, worker, held, fresh, current, exec, item, conn, used>>

AddJob(a) ==
  LET d == agent[a].d IN
  /\ agent[a].pc = "add"
  /\ job' = [job EXCEPT ![d] = Add(@)]
  /\ AgentGoto(a, "mark")
  /\ UNCHANGED <<row, worker, held, fresh, current, exec, item, conn, used>>

(* Mutant of MarkQueued: the status is not part of the condition. *)
MarkQueuedBlind(a) ==
  LET d == agent[a].d IN
  /\ agent[a].pc = "mark"
  /\ SetStatus(d, "queued")
  /\ fresh' = Touched(d)
  /\ AgentDone(a)
  /\ UNCHANGED <<job, worker, held, current, exec, item, conn, used>>

(* A delivery that is still pending becomes queued; a maintenance loop     *)
(* also asks for its own claim, a request writes queuedAt.                 *)
MarkQueued(a) ==
  LET d == agent[a].d
      match == row[d].status = "pending" /\ (a \in Maintainers => a \in current) IN
  /\ agent[a].pc = "mark"
  /\ row' = IF match THEN [row EXCEPT ![d].status = "queued",
                                      ![d].queuedAt = IF a \in Receivers THEN "recent" ELSE @]
                     ELSE row
  /\ fresh' = IF match THEN Touched(d) ELSE fresh
  /\ current' = {m \in current : m # a /\ (match /\ a \in Receivers => agent[m].d # d)}
  /\ AgentDone(a)
  /\ UNCHANGED <<job, worker, held, exec, item, conn, used>>

(* The background task or the maintenance fails at a step, or its process  *)
(* dies; the failure is logged.                                            *)
AgentFails(a) ==
  /\ agent[a].pc # "idle"
  /\ Fault
  /\ AgentDone(a)
  /\ current' = current \ {a}
  /\ UNCHANGED <<row, job, worker, held, fresh, exec, item, conn>>

-----------------------------------------------------------------------------
(* Workers of the queue: processDelivery. *)

WorkerGoto(w, pc) == worker' = [worker EXCEPT ![w].pc = pc]

Return(w, ok) == worker' = [worker EXCEPT ![w].pc = "finish", ![w].ok = ok]

TakeJob(w, d) ==
  /\ worker[w].pc = "idle" /\ job[d].state = "waiting"
  /\ job' = [job EXCEPT ![d] = Take(@)]
  /\ worker' = [worker EXCEPT ![w] = [WorkerIdle EXCEPT !.pc = "load", !.d = d]]
  /\ held' = held \cup {w}
  /\ UNCHANGED <<row, fresh, agent, current, exec, item, conn, used>>

(* What a worker that read a row in status s goes on with. *)
After(s, otherwise) ==
  CASE s = "processed" -> "list"
    [] s = "failed" -> "finish"
    [] OTHER -> otherwise

Snapshot(w, otherwise) ==
  LET d == worker[w].d
      next == After(row[d].status, otherwise) IN
  worker' = [worker EXCEPT ![w] = [pc |-> next, d |-> d, conn |-> conn,
                                   seen |-> row[d].observed, parsed |-> FALSE,
                                   ok |-> row[d].status = "failed"]]

LoadDelivery(w) ==
  /\ worker[w].pc = "load"
  /\ Snapshot(w, "claim")
  /\ fresh' = fresh \cup {w}
  /\ UNCHANGED <<row, job, held, agent, current, exec, item, conn, used>>

(* The claim asks for the updatedAt of the snapshot, hence for its status. *)
ClaimDelivery(w) ==
  LET d == worker[w].d IN
  /\ worker[w].pc = "claim"
  /\ IF w \in fresh
       THEN SetStatus(d, "processing") /\ fresh' = Touched(d) /\ WorkerGoto(w, "validate")
       ELSE WorkerGoto(w, "reload") /\ UNCHANGED <<row, fresh>>
  /\ UNCHANGED <<job, held, agent, current, exec, item, conn, used>>

(* inbound_webhook_delivery_not_claimable unless the row is terminal. *)
Reload(w) ==
  /\ worker[w].pc = "reload"
  /\ Snapshot(w, "finish")
  /\ UNCHANGED <<row, job, held, fresh, agent, current, exec, item, conn, used>>

(* The connection of the snapshot and the current one. *)
ContextHolds(w) == worker[w].conn = "usable" /\ conn = "usable"

(* parseEncryptedPayload and what is asked of the parser's result.  A      *)
(* payload that has not expired by now was in the snapshot.                *)
Parses(d) == row[d].payload = "stored" /\ d \notin Invalid

Validate(w) ==
  LET valid == ContextHolds(w) /\ Parses(worker[w].d) IN
  /\ worker[w].pc = "validate"
  /\ worker' = [worker EXCEPT ![w].pc = IF valid THEN "persist" ELSE "fail", ![w].parsed = valid]
  /\ UNCHANGED <<row, job, held, fresh, agent, current, exec, item, conn, used>>

FinishFailure(w) ==
  LET d == worker[w].d
      match == row[d].status = "processing" IN
  /\ worker[w].pc = "fail"
  /\ row' = IF match THEN [row EXCEPT ![d].status = "failed"] ELSE row
  /\ fresh' = IF match THEN Touched(d) ELSE fresh
  /\ Return(w, match)
  /\ UNCHANGED <<job, held, agent, current, exec, item, conn, used>>

(* One transaction: the connection, the events, the delivery. *)
PersistResult(w) ==
  LET d == worker[w].d
      match == conn = "usable" /\ row[d].status = "processing" IN
  /\ worker[w].pc = "persist"
  /\ row' = IF match THEN [row EXCEPT ![d].status = "processed"] ELSE row
  /\ fresh' = IF match THEN Touched(d) ELSE fresh
  /\ IF match THEN WorkerGoto(w, "intake") ELSE Return(w, FALSE)
  /\ UNCHANGED <<job, held, agent, current, exec, item, conn, used>>

(* Mutant of ListEvents: the intake belongs to the first run only. *)
ListEventsSkips(w) ==
  /\ worker[w].pc = "list"
  /\ WorkerGoto(w, "observe")
  /\ UNCHANGED <<row, job, held, fresh, agent, current, exec, item, conn, used>>

(* The events of a delivery that is already processed. *)
ListEvents(w) ==
  /\ worker[w].pc = "list"
  /\ WorkerGoto(w, "intake")
  /\ UNCHANGED <<row, job, held, fresh, agent, current, exec, item, conn, used>>

(* enqueueDelivery of the intake service; what it adds to the queue of the *)
(* production items is not part of this module.                            *)
ProductionIntake(w) ==
  LET d == worker[w].d IN
  /\ worker[w].pc = "intake"
  /\ item' = [item EXCEPT ![d] = @ \/ (d \in Eligible /\ conn = "usable")]
  /\ WorkerGoto(w, "observe")
  /\ UNCHANGED <<row, job, held, fresh, agent, current, exec, conn, used>>

(* prepareProviderConversions: without a result of this run the payload is *)
(* parsed again, and a payload that expired is an error.                   *)
ObserveConversions(w) ==
  LET d == worker[w].d IN
  /\ worker[w].pc = "observe"
  /\ CASE worker[w].seen -> Return(w, TRUE) /\ UNCHANGED exec
       [] ~worker[w].seen /\ ~worker[w].parsed /\ (worker[w].conn = "unparsable" \/ row[d].payload # "stored") ->
            Return(w, FALSE) /\ UNCHANGED exec
       [] OTHER -> exec' = [exec EXCEPT ![d] = TRUE] /\ WorkerGoto(w, "markObserved")
  /\ UNCHANGED <<row, job, held, fresh, agent, current, item, conn, used>>

MarkObserved(w) ==
  LET d == worker[w].d
      match == row[d].status = "processed" /\ ~row[d].observed IN
  /\ worker[w].pc = "markObserved"
  /\ row' = IF match THEN [row EXCEPT ![d].observed = TRUE] ELSE row
  /\ fresh' = IF match THEN Touched(d) ELSE fresh
  /\ Return(w, TRUE)
  /\ UNCHANGED <<job, held, agent, current, exec, item, conn, used>>

(* Mutant of Finish: the worker keeps what it knew of its delivery. *)
FinishKeeps(w) ==
  LET d == worker[w].d IN
  /\ worker[w].pc = "finish"
  /\ job' = IF w \notin held THEN job
            ELSE [job EXCEPT ![d] = IF worker[w].ok THEN NoJob ELSE Fail(@)]
  /\ WorkerGoto(w, "idle")
  /\ held' = held \ {w} /\ fresh' = fresh \ {w}
  /\ UNCHANGED <<row, agent, current, exec, item, conn, used>>

(* BullMQ takes the result of a worker that still holds the lock. *)
Finish(w) ==
  LET d == worker[w].d IN
  /\ worker[w].pc = "finish"
  /\ job' = IF w \notin held THEN job
            ELSE [job EXCEPT ![d] = IF worker[w].ok THEN NoJob ELSE Fail(@)]
  /\ worker' = [worker EXCEPT ![w] = WorkerIdle]
  /\ held' = held \ {w} /\ fresh' = fresh \ {w}
  /\ UNCHANGED <<row, agent, current, exec, item, conn, used>>

(* Mutant of WorkerThrows: every failure is logged and forgotten. *)
WorkerThrowsQuietly(w) ==
  /\ worker[w].pc \notin {"idle", "intake", "finish"}
  /\ Fault
  /\ Return(w, TRUE)
  /\ UNCHANGED <<row, job, held, fresh, agent, current, exec, item, conn>>

(* Mutant of WorkerThrows: a failed observation is marked all the same. *)
WorkerThrowsMarks(w) ==
  /\ worker[w].pc \notin {"idle", "intake", "finish"}
  /\ Fault
  /\ IF worker[w].pc = "observe" THEN WorkerGoto(w, "markObserved") ELSE Return(w, FALSE)
  /\ UNCHANGED <<row, job, held, fresh, agent, current, exec, item, conn>>

(* A query or command of the worker fails. *)
WorkerThrows(w) ==
  /\ worker[w].pc \notin {"idle", "intake", "finish"}
  /\ Fault
  /\ Return(w, FALSE)
  /\ UNCHANGED <<row, job, held, fresh, agent, current, exec, item, conn>>

(* The failure of the production intake is logged and the worker goes on.  *)
IntakeDeferred(w) ==
  /\ worker[w].pc = "intake"
  /\ used.deferred < MaxDeferred
  /\ used' = [used EXCEPT !.deferred = @ + 1]
  /\ WorkerGoto(w, "observe")
  /\ UNCHANGED <<row, job, held, fresh, agent, current, exec, item, conn>>

WorkerCrashes(w) ==
  /\ worker[w].pc # "idle"
  /\ Fault
  /\ worker' = [worker EXCEPT ![w] = WorkerIdle]
  /\ held' = held \ {w} /\ fresh' = fresh \ {w}
  /\ UNCHANGED <<row, job, agent, current, exec, item, conn>>

(* The lock of the job expires while the worker is at work. *)
LoseLock(w) ==
  /\ w \in held
  /\ Fault
  /\ held' = held \ {w}
  /\ UNCHANGED <<row, job, worker, fresh, agent, current, exec, item, conn>>

BackoffElapses(d) ==
  /\ job[d].state = "delayed"
  /\ job' = [job EXCEPT ![d] = Promote(@)]
  /\ UNCHANGED <<row, worker, held, fresh, agent, current, exec, item, conn, used>>

DetectStalled(d) ==
  /\ job[d].state = "active" /\ ~Locked(d)
  /\ job' = [job EXCEPT ![d] = Stall(@)]
  /\ UNCHANGED <<row, worker, held, fresh, agent, current, exec, item, conn, used>>

-----------------------------------------------------------------------------
(* Maintenance.  A run goes through the steps below in this order and runs *)
(* follow each other, in every process; each step asks for its conditions  *)
(* in the query that writes.                                               *)

ClearExpiredPayload(d) ==
  /\ row[d].status # "absent" /\ row[d].payload = "expired"
  /\ row' = [row EXCEPT ![d].payload = "cleared"]
  /\ fresh' = Touched(d)
  /\ UNCHANGED <<job, worker, held, agent, current, exec, item, conn, used>>

SelectUnavailable(m, d) ==
  /\ agent[m].pc = "idle"
  /\ row[d].status = "pending" /\ row[d].aged /\ row[d].payload # "stored"
  /\ agent' = [agent EXCEPT ![m] = [pc |-> "unavailable", d |-> d]]
  /\ UNCHANGED <<row, job, worker, held, fresh, current, exec, item, conn, used>>

MarkUnavailable(m) ==
  LET d == agent[m].d
      match == row[d].status = "pending" IN
  /\ agent[m].pc = "unavailable"
  /\ row' = IF match THEN [row EXCEPT ![d].status = "failed"] ELSE row
  /\ fresh' = IF match THEN Touched(d) ELSE fresh
  /\ AgentDone(m)
  /\ UNCHANGED <<job, worker, held, current, exec, item, conn, used>>

(* A candidate whose parser does not resolve is rejected, the others are   *)
(* claimed.                                                                *)
RecoverSelect(m, d) ==
  /\ agent[m].pc = "idle"
  /\ row[d].status = "pending" /\ row[d].aged /\ row[d].payload = "stored"
  /\ row[d].queuedAt \in {"null", "stale"} /\ conn # "paused"
  /\ agent' = [agent EXCEPT ![m] = [pc |-> IF conn = "unparsable" THEN "reject" ELSE "claim", d |-> d]]
  /\ current' = current \cup {m}
  /\ UNCHANGED <<row, job, worker, held, fresh, exec, item, conn, used>>

MarkParserFailure(m) ==
  LET d == agent[m].d
      match == row[d].status = "pending" /\ m \in current IN
  /\ agent[m].pc = "reject"
  /\ row' = IF match THEN [row EXCEPT ![d].status = "failed"] ELSE row
  /\ fresh' = IF match THEN Touched(d) ELSE fresh
  /\ current' = current \ {m}
  /\ AgentDone(m)
  /\ UNCHANGED <<job, worker, held, exec, item, conn, used>>

(* The claim writes queuedAt: the other snapshots of it are out of date.   *)
(* payloadExpiresAt is compared with the start of the run.                 *)
RecoverClaim(m) ==
  LET d == agent[m].d
      match == /\ row[d].status = "pending" /\ row[d].aged /\ m \in current
               /\ row[d].payload # "cleared" /\ conn = "usable" IN
  /\ agent[m].pc = "claim"
  /\ row' = IF match THEN [row EXCEPT ![d].queuedAt = "recent"] ELSE row
  /\ fresh' = IF match THEN Touched(d) ELSE fresh
  /\ current' = IF match THEN {n \in current : n = m \/ agent[n].d # d} ELSE current \ {m}
  /\ IF match THEN AgentGoto(m, "look") ELSE AgentDone(m)
  /\ UNCHANGED <<job, worker, held, exec, item, conn, used>>

-----------------------------------------------------------------------------
(* Time, and the settings of the connection. *)

GraceElapses(d) ==
  /\ row[d].status # "absent" /\ ~row[d].aged
  /\ row' = [row EXCEPT ![d].aged = TRUE]
  /\ UNCHANGED <<job, worker, held, fresh, agent, current, exec, item, conn, used>>

ClaimAges(d) ==
  /\ row[d].queuedAt = "recent"
  /\ row' = [row EXCEPT ![d].queuedAt = "stale"]
  /\ UNCHANGED <<job, worker, held, fresh, agent, current, exec, item, conn, used>>

PayloadExpires(d) ==
  /\ d \in Expiring
  /\ row[d].status # "absent" /\ row[d].payload = "stored"
  /\ row' = [row EXCEPT ![d].payload = "expired"]
  /\ UNCHANGED <<job, worker, held, fresh, agent, current, exec, item, conn, used>>

(* The connection is paused or resumed, its parser release is blocked or   *)
(* released.                                                               *)
SwitchConnection(c) ==
  /\ conn # c /\ used.switches < MaxSwitches
  /\ conn' = c
  /\ used' = [used EXCEPT !.switches = @ + 1]
  /\ UNCHANGED <<row, job, worker, held, fresh, agent, current, exec, item>>

-----------------------------------------------------------------------------
AgentStep(a) ==
  \/ LookUpJob(a) \/ ReadJobState(a) \/ ReplaceJob(a) \/ AddJob(a) \/ MarkQueued(a)

RequestStep(r) == FindExistingDelivery(r) \/ PersistNewDelivery(r) \/ AccountDuplicate(r)

MaintenanceStep(m) == MarkUnavailable(m) \/ MarkParserFailure(m) \/ RecoverClaim(m)

WorkerStep(w) ==
  \/ LoadDelivery(w) \/ ClaimDelivery(w) \/ Reload(w) \/ Validate(w)
  \/ FinishFailure(w) \/ PersistResult(w) \/ ListEvents(w) \/ ProductionIntake(w)
  \/ ObserveConversions(w) \/ MarkObserved(w) \/ Finish(w)

Next ==
  \/ \E r \in Receivers : RequestStep(r) \/ \E d \in Deliveries : Receive(r, d)
  \/ \E m \in Maintainers :
       \/ MaintenanceStep(m)
       \/ \E d \in Deliveries : SelectUnavailable(m, d) \/ RecoverSelect(m, d)
  \/ \E a \in Agents : AgentStep(a) \/ AgentFails(a)
  \/ \E w \in Workers :
       \/ WorkerStep(w)
       \/ WorkerThrows(w) \/ IntakeDeferred(w) \/ WorkerCrashes(w) \/ LoseLock(w)
       \/ \E d \in Deliveries : TakeJob(w, d)
  \/ \E d \in Deliveries :
       \/ BackoffElapses(d) \/ DetectStalled(d) \/ ClearExpiredPayload(d)
       \/ GraceElapses(d) \/ ClaimAges(d) \/ PayloadExpires(d)
  \/ \E c \in Connections : SwitchConnection(c)

Spec == Init /\ [][Next]_vars

(* A process goes on with what it has begun, BullMQ delivers every waiting *)
(* job, every delay ends, and each run of the maintenance goes through all *)
(* candidates.  Nobody has to send a request, change a connection or fail, *)
(* and no payload has to expire.                                           *)
Fairness ==
  /\ \A a \in Agents : WF_vars(AgentStep(a))
  /\ \A r \in Receivers : WF_vars(RequestStep(r))
  /\ \A m \in Maintainers : WF_vars(MaintenanceStep(m))
  /\ \A w \in Workers : WF_vars(WorkerStep(w))
  /\ \A d \in Deliveries :
       /\ SF_vars(\E w \in Workers : TakeJob(w, d))
       /\ SF_vars(\E m \in Maintainers : SelectUnavailable(m, d) \/ RecoverSelect(m, d))
       /\ WF_vars(BackoffElapses(d)) /\ WF_vars(DetectStalled(d)) /\ WF_vars(ClearExpiredPayload(d))
       /\ WF_vars(GraceElapses(d)) /\ WF_vars(ClaimAges(d))

FairSpec == Spec /\ Fairness

-----------------------------------------------------------------------------
(* A delivery that is processed or failed keeps its status, whatever late  *)
(* worker, late request task or second maintenance still writes to it.     *)
TerminalIsFinal ==
  [][\A d \in Deliveries : row[d].status \in Terminal => row'[d].status = row[d].status]_vars

(* A delivery is marked as observed (providerConversionsObservedAt), which *)
(* stops every later run from recording its conversions, only when they    *)
(* are recorded.                                                           *)
ObservedIsComplete == \A d \in Deliveries : row[d].observed => exec[d]

(* Nobody works on the delivery and no job will. *)
Quiet(d) ==
  /\ ~Live(job[d])
  /\ \A w \in Workers : worker[w].d # d
  /\ \A a \in Agents : agent[a].d # d

(* A processed delivery with an event for production has its production    *)
(* item once its processing is over, also when a worker died between the   *)
(* commit of the events and the intake: no later task looks for events     *)
(* without an item.                                                        *)
EligibleTaken ==
  \A d \in Eligible : row[d].status = "processed" /\ Quiet(d) => item[d]

(* So it is through any one crash, failed query or lost lock and through   *)
(* all redeliveries, while the intake does not fail, nobody changes the    *)
(* connection and no payload expires.                                      *)
TakenUndisturbed ==
  /\ used.faults <= 1 /\ used.deferred = 0 /\ used.switches = 0
  /\ \A d \in Eligible : row[d].payload = "stored"
  => EligibleTaken

(* The last attempt of the job was used: BullMQ keeps the job as failed,   *)
(* and the maintenance only looks at pending deliveries.                   *)
Exhausted(d) == row[d].status # "pending" /\ job[d].state = "failed"

(* Every accepted delivery is eventually processed or failed, also when    *)
(* the request that accepted it or a maintenance that claimed it died      *)
(* before the job was added; except one that waits for its paused          *)
(* connection, or whose job used all of its attempts.                      *)
AcceptedSettles ==
  \A d \in Deliveries :
    row[d].status \in {"pending", "queued", "processing"}
      ~> \/ row[d].status \in Terminal
         \/ row[d].status = "pending" /\ conn = "paused"
         \/ Exhausted(d)

(* The provider conversions of a processed delivery are eventually         *)
(* observed, unless its payload expired first or its job used all of its   *)
(* attempts.                                                               *)
ConversionsObserved ==
  \A d \in Deliveries :
    row[d].status = "processed"
      ~> (row[d].observed \/ row[d].payload # "stored" \/ Exhausted(d))
=============================================================================
