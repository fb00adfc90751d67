------------------------- MODULE ConversionDelivery -------------------------
(***************************************************************************)
(* Delivery of conversion events to the Meta Conversions API.              *)
(*                                                                         *)
(* A conversion event log is recorded by a producer (a production item, a  *)
(* provider conversion execution, the sync of an external ledger), handed  *)
(* to the queue "conversion-events" under a job id derived from the log,   *)
(* and sent by a worker of that queue.  Operators retry it from the audit  *)
(* screens, an administrator moves the ownership of external events        *)
(* between WppTrack and n8n, and a test event is sent by its HTTP handler  *)
(* without a job.  Every actor works on the log in several steps, each of  *)
(* them one query or one Redis command; the steps interleave freely, and   *)
(* any step may fail or be its process's last.                             *)
(***************************************************************************)
EXTENDS BullJob

CONSTANTS
  Logs,            \* conversion event logs, one per dedupeKey
  ExternalLogs,    \* those of an external connector
  ManualLogs,      \* those of sendManualTestEvent
  TrackedLogs,     \* those a provider conversion execution and a purchase
                   \* review refer to
  NoLog,           \* what an idle sender works on
  Workers,         \* workers of the queue (one per API process)
  Handlers,        \* HTTP handlers that send a test event
  Operators,       \* HTTP handlers that retry an event
  Owners,          \* the operators limited to transient failures
  InitialStatuses, \* outcomes of resolveExternalInitialStatus
  MaxFaults,       \* bound: crashes and failed queries or commands
  MaxRetries,      \* bound: operator retries
  MaxRuns,         \* bound: runs of the producer of a log
  MaxSwitches      \* bound: activations and rollbacks of the cutover

(* Status of a conversion event log, "absent" before it is recorded. *)
Incomplete == {"pending_value", "pending_meta_context", "not_eligible"}

Recorded == Incomplete \cup {"imported", "shadow_observed", "skipped", "ready_to_send"}

Outcomes == {"sent", "error", "not_configured"}

Statuses == {"absent"} \cup Recorded \cup Outcomes

ErrorCodes == {"none", "network", "rejected", "missing"}

ASSUME DeliveryAssumption ==
  /\ ExternalLogs \subseteq Logs /\ ManualLogs \subseteq Logs /\ TrackedLogs \subseteq Logs
  /\ ExternalLogs \cap ManualLogs = {} /\ TrackedLogs \cap (ExternalLogs \cup ManualLogs) = {}
  /\ NoLog \notin Logs
  /\ Workers \cap Handlers = {}
  /\ Owners \subseteq Operators
  /\ InitialStatuses \subseteq Recorded \ {"imported"}
  /\ MaxFaults \in Nat /\ MaxRetries \in Nat /\ MaxRuns \in Nat /\ MaxSwitches \in Nat

VARIABLES
  log,      \* status and errorCode of the row of each log
  owned,    \* an active cutover covers the event (TRUE when not external)
  job,      \* the job "conversion-send" of each log
  sender,   \* the workers and handlers inside sendReadyEvent
  op,       \* the operators inside retryConversionEvent
  prod,     \* the producer of each log
  cutover,  \* a cutover is active
  mirror,   \* technicalDelivery.state of the execution of a log
  review,   \* status of the purchase review of a log
  acked,    \* ghost: how often Meta acknowledged the event to a sender
  used      \* what was used of each bound

vars == <<log, owned, job, sender, op, prod, cutover, mirror, review, acked, used>>

Senders == Workers \cup Handlers

Row(status, err) == [status |-> status, err |-> err]

Rows == [status : Statuses, err : ErrorCodes]

Ready(l) == log[l].status = "ready_to_send"

Idle == [pc |-> "idle", log |-> NoLog, result |-> "none"]

(* The log of sender s. *)
On(s) == sender[s].log

(* What a send comes to: resolveDeliveryRoute gives no token, pixel or     *)
(* page ("missing"), or the post ends one way or another.                  *)
PostResults == {"sent", "network", "rejected", "missing"}

(* Where a sender may be, and with which result. *)
At(pc, result) ==
  \/ pc \in {"load", "own", "archive", "post"} /\ result = "none"
  \/ pc \in {"write", "mirror", "review"} /\ result \in PostResults
  \/ pc = "finish" /\ result \in PostResults \cup {"skipped", "threw"}

SenderPCs == {"load", "own", "archive", "post", "write", "mirror", "review", "finish"}

Results == PostResults \cup {"none", "skipped", "threw"}

OpPCs == {"idle", "claim", "getJob", "getState", "promote", "remove", "add", "compensate"}

OpIdle == [pc |-> "idle", log |-> NoLog, seen |-> Row("absent", "none")]

SenderRecs ==
  {Idle} \cup {r \in [pc : SenderPCs, log : Logs, result : Results] : At(r.pc, r.result)}

OpRecs == {OpIdle} \cup [pc : OpPCs \ {"idle"}, log : Logs, seen : Rows]

ProdRecs == [pc : {"idle", "again", "write", "enqueue"},
             snap : Statuses, delivery : Statuses, runs : 0..MaxRuns]

Mirrors == {"none", "queued", "sent", "blocked_configuration", "failed_retryable", "failed_permanent"}

Reviews == {"none", "approved", "sent", "failed"}

Used == [faults : 0..MaxFaults, retries : 0..MaxRetries, switches : 0..MaxSwitches]

TypeOK ==
  /\ log \in [Logs -> Rows]
  /\ owned \in [Logs -> BOOLEAN]
  /\ job \in [Logs -> Jobs]
  /\ sender \in [Senders -> SenderRecs]
  /\ op \in [Operators -> OpRecs]
  /\ prod \in [Logs -> ProdRecs]
  /\ cutover \in BOOLEAN
  /\ mirror \in [Logs -> Mirrors]
  /\ review \in [Logs -> Reviews]
  /\ acked \in [Logs -> Nat]
  /\ used \in Used

Init ==
  /\ log = [l \in Logs |-> Row("absent", "none")]
  /\ owned = [l \in Logs |-> l \notin ExternalLogs]
  /\ job = [l \in Logs |-> NoJob]
  /\ sender = [s \in Senders |-> Idle]
  /\ op = [o \in Operators |-> OpIdle]
  /\ prod = [l \in Logs |-> [pc |-> "idle", snap |-> "absent", delivery |-> "absent", runs |-> 0]]
  /\ cutover = FALSE
  /\ mirror = [l \in Logs |-> "none"]
  /\ review = [l \in Logs |-> "none"]
  /\ acked = [l \in Logs |-> 0]
  /\ used = [faults |-> 0, retries |-> 0, switches |-> 0]

(* A fault uses one of the MaxFaults. *)
Fault ==
  /\ used.faults < MaxFaults
  /\ used' = [used EXCEPT !.faults = @ + 1]

(***************************************************************************)
(* Recording.  The producer of a log is a queue job or a sync of its own,  *)
(* run by one worker at a time: find by dedupeKey, create or reconcile,    *)
(* enqueue.  It runs again when its source is redelivered.                 *)
(***************************************************************************)

(* The import of a lead's historical milestones: creates an "imported" log *)
(* or leaves the status of the existing one alone.                         *)
ImportHistorical(l) ==
  /\ l \in ExternalLogs
  /\ log[l].status = "absent"
  /\ log' = [log EXCEPT ![l] = Row("imported", "none")]
  /\ UNCHANGED <<owned, job, sender, op, prod, cutover, mirror, review, acked, used>>

(* recordExternalConversion: findUnique by dedupeKey. *)
FindExisting(l) ==
  /\ l \notin ManualLogs
  /\ \/ prod[l].pc = "again"
     \/ prod[l].pc = "idle" /\ prod[l].runs < MaxRuns
  /\ prod' = [prod EXCEPT ![l] =
       [pc |-> "write", snap |-> log[l].status, delivery |-> "absent",
        runs |-> IF prod[l].pc = "again" THEN prod[l].runs ELSE prod[l].runs + 1]]
  /\ UNCHANGED <<log, owned, job, sender, op, cutover, mirror, review, acked, used>>

(* An execution is materialized only with a routed lead and a value, so    *)
(* its event starts ready; the other producers meet every outcome.         *)
InitialOf(l) == IF l \in TrackedLogs THEN {"ready_to_send"} ELSE InitialStatuses

(* The producer p after the record, whose status is now known to it. *)
Stored(p, status) ==
  [pc |-> "enqueue", snap |-> p.snap, delivery |-> status, runs |-> p.runs]

(* Whether an active cutover covers the event: it may when one is active. *)
OwnershipOf(l) == IF l \in ExternalLogs THEN {FALSE, cutover} ELSE {TRUE}

(* The row is written when it is created, and when the snapshot was a      *)
(* historical event, whatever the row is by now.                           *)
Writes(l) ==
  \/ prod[l].snap = "absent" /\ log[l].status = "absent"
  \/ prod[l].snap = "imported"

(* The create, or the promotion by reconcileExistingExternalConversion;    *)
(* the execution and the review of a tracked log are in its transaction.   *)
CreateOrPromote(l) ==
  /\ prod[l].pc = "write" /\ Writes(l)
  /\ \E s \in InitialOf(l), b \in OwnershipOf(l) :
       /\ log' = [log EXCEPT ![l] = Row(s, "none")]
       /\ owned' = [owned EXCEPT ![l] = b]
       /\ prod' = [prod EXCEPT ![l] = Stored(prod[l], s)]
  /\ mirror' = IF l \in TrackedLogs THEN [mirror EXCEPT ![l] = "queued"] ELSE mirror
  /\ review' = IF l \in TrackedLogs THEN [review EXCEPT ![l] = "approved"] ELSE review
  /\ UNCHANGED <<job, sender, op, cutover, acked, used>>

(* A lost create (P2002) and a known event report the status of the row. *)
ReportKnown(l) ==
  /\ prod[l].pc = "write" /\ ~Writes(l)
  /\ prod' = [prod EXCEPT ![l] = Stored(prod[l], log[l].status)]
  /\ UNCHANGED <<log, owned, job, sender, op, cutover, mirror, review, acked, used>>

RecordExternalConversion(l) == CreateOrPromote(l) \/ ReportKnown(l)

(* enqueueSend, when the recorded status is ready_to_send.  An external    *)
(* event is enqueued when the sync's copy of the cutovers says it is live, *)
(* which may be out of date either way.                                    *)
EnqueueRecorded(l) ==
  /\ prod[l].pc = "enqueue"
  /\ prod' = [prod EXCEPT ![l].pc = "idle"]
  /\ \/ prod[l].delivery = "ready_to_send" /\ job' = [job EXCEPT ![l] = Add(@)]
     \/ /\ prod[l].delivery # "ready_to_send" \/ l \in ExternalLogs
        /\ UNCHANGED job
  /\ UNCHANGED <<log, owned, sender, op, cutover, mirror, review, acked, used>>

(* Mutant of ProducerFails: the failure is swallowed and nothing runs again. *)
ProducerGivesUp(l) ==
  /\ prod[l].pc \in {"write", "enqueue"}
  /\ Fault
  /\ prod' = [prod EXCEPT ![l].pc = "idle"]
  /\ UNCHANGED <<log, owned, job, sender, op, cutover, mirror, review, acked>>

(* The producer fails or dies at a step: a queue job runs again, a row of  *)
(* an external ledger is left behind until the ledger sends it again.      *)
ProducerFails(l) ==
  /\ prod[l].pc \in {"write", "enqueue"}
  /\ Fault
  /\ prod' = [prod EXCEPT ![l].pc = IF l \in ExternalLogs THEN "idle" ELSE "again"]
  /\ UNCHANGED <<log, owned, job, sender, op, cutover, mirror, review, acked>>

(***************************************************************************)
(* Sending: the worker of the queue and sendReadyEvent.                    *)
(***************************************************************************)

(* A worker takes a waiting job and enters sendReadyEvent. *)
TakeJob(w, l) ==
  /\ sender[w].pc = "idle"
  /\ job[l].state = "waiting"
  /\ job' = [job EXCEPT ![l] = Take(@)]
  /\ sender' = [sender EXCEPT ![w] = [pc |-> "load", log |-> l, result |-> "none"]]
  /\ UNCHANGED <<log, owned, op, prod, cutover, mirror, review, acked, used>>

(* The backoff of a failed attempt elapses. *)
BackoffElapses(l) ==
  /\ job[l].state = "delayed"
  /\ job' = [job EXCEPT ![l] = Promote(@)]
  /\ UNCHANGED <<log, owned, sender, op, prod, cutover, mirror, review, acked, used>>

(* sendManualTestEvent: a log of its own, sent at once by the handler when *)
(* it starts ready.                                                        *)
SendManualTestEvent(h, l) ==
  /\ l \in ManualLogs
  /\ sender[h].pc = "idle"
  /\ log[l].status = "absent"
  /\ \E s \in InitialStatuses \ {"not_eligible", "shadow_observed"} :
       /\ log' = [log EXCEPT ![l] = Row(s, "none")]
       /\ sender' = IF s = "ready_to_send"
                      THEN [sender EXCEPT ![h] = [pc |-> "load", log |-> l, result |-> "none"]]
                      ELSE sender
  /\ UNCHANGED <<owned, job, op, prod, cutover, mirror, review, acked, used>>

(* A step of sender s to pc with a result, of which nothing else changes   *)
(* than what the action says.                                              *)
Goto(s, pc, result) ==
  sender' = [sender EXCEPT ![s] = [pc |-> pc, log |-> On(s), result |-> result]]

(* Mutant of LoadLog: any status is sent. *)
LoadLogUnchecked(s) ==
  /\ sender[s].pc = "load"
  /\ Goto(s, "own", "none")
  /\ UNCHANGED <<log, owned, job, op, prod, cutover, mirror, review, acked, used>>

(* Loads the log; only a ready one is sent. *)
LoadLog(s) ==
  /\ sender[s].pc = "load"
  /\ IF Ready(On(s)) THEN Goto(s, "own", "none") ELSE Goto(s, "finish", "skipped")
  /\ UNCHANGED <<log, owned, job, op, prod, cutover, mirror, review, acked, used>>

(* externalCapiDeliveryOwnedByWppTrack. *)
CheckOwnership(s) ==
  /\ sender[s].pc = "own"
  /\ IF owned[On(s)] THEN Goto(s, "post", "none") ELSE Goto(s, "archive", "none")
  /\ UNCHANGED <<log, owned, job, op, prod, cutover, mirror, review, acked, used>>

(* A ready log that WppTrack does not own is observed only. *)
ArchiveUnowned(s) ==
  /\ sender[s].pc = "archive"
  /\ log' = IF Ready(On(s)) THEN [log EXCEPT ![On(s)] = Row("shadow_observed", "none")] ELSE log
  /\ Goto(s, "finish", "skipped")
  /\ UNCHANGED <<owned, job, op, prod, cutover, mirror, review, acked, used>>

(* Resolves the route and posts: no destination, or the answer of Meta.    *)
(* After a network error Meta may have taken the event all the same.       *)
PostEvent(s) ==
  /\ sender[s].pc = "post"
  /\ \E r \in PostResults :
       /\ Goto(s, "write", r)
       /\ acked' = IF r = "sent" THEN [acked EXCEPT ![On(s)] = @ + 1] ELSE acked
  /\ UNCHANGED <<log, owned, job, op, prod, cutover, mirror, review, used>>

StatusOf(result) ==
  CASE result = "sent" -> "sent"
    [] result = "missing" -> "not_configured"
    [] OTHER -> "error"

(* Mutant of WriteResult: the error code is stored as the status. *)
WriteResultCode(s) ==
  LET r == sender[s].result IN
  /\ sender[s].pc = "write"
  /\ log' = [log EXCEPT ![On(s)] = Row(r, "none")]
  /\ Goto(s, "mirror", r)
  /\ UNCHANGED <<owned, job, op, prod, cutover, mirror, review, acked, used>>

(* The row takes the result, whatever its status is by now. *)
WriteResult(s) ==
  LET r == sender[s].result IN
  /\ sender[s].pc = "write"
  /\ log' = [log EXCEPT ![On(s)] = Row(StatusOf(r), IF r = "sent" THEN "none" ELSE r)]
  /\ Goto(s, "mirror", r)
  /\ UNCHANGED <<owned, job, op, prod, cutover, mirror, review, acked, used>>

(* providerConversionTechnicalDelivery. *)
TechnicalDelivery(result) ==
  CASE result = "sent" -> "sent"
    [] result = "missing" -> "blocked_configuration"
    [] result = "network" -> "failed_retryable"
    [] OTHER -> "failed_permanent"

(* syncProviderConversionDelivery. *)
SyncExecution(s) ==
  LET l == On(s) IN
  /\ sender[s].pc = "mirror"
  /\ mirror' = IF l \in TrackedLogs
                 THEN [mirror EXCEPT ![l] = TechnicalDelivery(sender[s].result)] ELSE mirror
  /\ Goto(s, "review", sender[s].result)
  /\ UNCHANGED <<log, owned, job, op, prod, cutover, review, acked, used>>

(* Mutant of SyncReview: a review that failed before is not updated. *)
SyncReviewApproved(s) ==
  LET l == On(s) IN
  /\ sender[s].pc = "review"
  /\ review' = IF review[l] = "approved"
                 THEN [review EXCEPT ![l] = IF sender[s].result = "sent" THEN "sent" ELSE "failed"]
                 ELSE review
  /\ Goto(s, "finish", sender[s].result)
  /\ UNCHANGED <<log, owned, job, op, prod, cutover, mirror, acked, used>>

(* The purchase review of the log follows, unless it was already sent. *)
SyncReview(s) ==
  LET l == On(s) IN
  /\ sender[s].pc = "review"
  /\ review' = IF review[l] \in {"approved", "failed"}
                 THEN [review EXCEPT ![l] = IF sender[s].result = "sent" THEN "sent" ELSE "failed"]
                 ELSE review
  /\ Goto(s, "finish", sender[s].result)
  /\ UNCHANGED <<log, owned, job, op, prod, cutover, mirror, acked, used>>

(* Mutant of Finish: the exception is caught and the job completes. *)
FinishSwallows(s) ==
  /\ sender[s].pc = "finish"
  /\ job' = IF s \in Workers THEN [job EXCEPT ![On(s)] = NoJob] ELSE job
  /\ sender' = [sender EXCEPT ![s] = Idle]
  /\ UNCHANGED <<log, owned, op, prod, cutover, mirror, review, acked, used>>

(* The processor throws on an exception and on a network error, and the    *)
(* job fails; any other result completes it.  A handler answers its caller.*)
Finish(s) ==
  LET l == On(s) IN
  /\ sender[s].pc = "finish"
  /\ job' = IF s \notin Workers THEN job
            ELSE IF sender[s].result \in {"threw", "network"}
                   THEN [job EXCEPT ![l] = Fail(@)]
                   ELSE [job EXCEPT ![l] = NoJob]
  /\ sender' = [sender EXCEPT ![s] = Idle]
  /\ UNCHANGED <<log, owned, op, prod, cutover, mirror, review, acked, used>>

(* A query of sendReadyEvent fails: the exception reaches the processor. *)
SenderThrows(s) ==
  /\ sender[s].pc \in {"load", "own", "archive", "post", "write", "mirror", "review"}
  /\ Fault
  /\ Goto(s, "finish", "threw")
  /\ UNCHANGED <<log, owned, job, op, prod, cutover, mirror, review, acked>>

(* The process dies.  Its job stays active. *)
SenderCrashes(s) ==
  /\ sender[s].pc # "idle"
  /\ Fault
  /\ sender' = [sender EXCEPT ![s] = Idle]
  /\ UNCHANGED <<log, owned, job, op, prod, cutover, mirror, review, acked>>

(* An active job is held when a worker works on it. *)
Held(l) == \E w \in Workers : On(w) = l

(* BullMQ finds an active job whose lock expired. *)
DetectStalled(l) ==
  /\ job[l].state = "active" /\ ~Held(l)
  /\ job' = [job EXCEPT ![l] = Stall(@)]
  /\ UNCHANGED <<log, owned, sender, op, prod, cutover, mirror, review, acked, used>>

(***************************************************************************)
(* Retrying: retryConversionEvent of the diagnostics service, and the      *)
(* retrySend of the queue service that it calls.                           *)
(***************************************************************************)

(* Reads the log; incomplete events are refused, and an owner may retry    *)
(* only what failed on the network.                                        *)
ReadForRetry(o, l) ==
  /\ op[o].pc = "idle"
  /\ used.retries < MaxRetries
  /\ log[l].status \notin Incomplete \cup {"absent"}
  /\ o \in Owners => log[l] = Row("error", "network")
  /\ op' = [op EXCEPT ![o] = [pc |-> "claim", log |-> l, seen |-> log[l]]]
  /\ used' = [used EXCEPT !.retries = @ + 1]
  /\ UNCHANGED <<log, owned, job, sender, prod, cutover, mirror, review, acked>>

OpGoto(o, pc) == op' = [op EXCEPT ![o] = [pc |-> pc, log |-> op[o].log, seen |-> op[o].seen]]

OpDone(o) == op' = [op EXCEPT ![o] = OpIdle]

(* Mutant of ClaimRetry: the update names the id only. *)
ClaimRetryBlind(o) ==
  /\ op[o].pc = "claim"
  /\ log' = [log EXCEPT ![op[o].log] = Row("ready_to_send", "none")]
  /\ OpGoto(o, "getJob")
  /\ UNCHANGED <<owned, job, sender, prod, cutover, mirror, review, acked, used>>

(* Compare-and-set on the status and the error code that were read. *)
ClaimRetry(o) ==
  LET l == op[o].log IN
  /\ op[o].pc = "claim"
  /\ IF log[l] = op[o].seen
       THEN log' = [log EXCEPT ![l] = Row("ready_to_send", "none")] /\ OpGoto(o, "getJob")
       ELSE UNCHANGED log /\ OpDone(o)
  /\ UNCHANGED <<owned, job, sender, prod, cutover, mirror, review, acked, used>>

GetJob(o) ==
  /\ op[o].pc = "getJob"
  /\ OpGoto(o, IF job[op[o].log].state = "none" THEN "add" ELSE "getState")
  /\ UNCHANGED <<log, owned, job, sender, prod, cutover, mirror, review, acked, used>>

(* A delayed job is promoted, one that is active or waiting is left to     *)
(* itself, any other is replaced.                                          *)
GetState(o) ==
  LET state == job[op[o].log].state IN
  /\ op[o].pc = "getState"
  /\ CASE state = "delayed" -> OpGoto(o, "promote")
       [] state \in {"active", "waiting"} -> OpDone(o)
       [] OTHER -> OpGoto(o, "remove")
  /\ UNCHANGED <<log, owned, job, sender, prod, cutover, mirror, review, acked, used>>

(* job.promote() throws when the job is no longer delayed. *)
PromoteJob(o) ==
  LET l == op[o].log IN
  /\ op[o].pc = "promote"
  /\ IF job[l].state = "delayed"
       THEN job' = [job EXCEPT ![l] = Promote(@)] /\ OpDone(o)
       ELSE UNCHANGED job /\ OpGoto(o, "compensate")
  /\ UNCHANGED <<log, owned, sender, prod, cutover, mirror, review, acked, used>>

(* job.remove() throws when a worker holds the job. *)
RemoveJob(o) ==
  LET l == op[o].log IN
  /\ op[o].pc = "remove"
  /\ \/ /\ job[l].state = "active" => ~Held(l)
        /\ job' = [job EXCEPT ![l] = NoJob]
        /\ OpGoto(o, "add")
     \/ /\ job[l].state = "active"
        /\ UNCHANGED job
        /\ OpGoto(o, "compensate")
  /\ UNCHANGED <<log, owned, sender, prod, cutover, mirror, review, acked, used>>

(* Mutant of EnqueueRetry: the job gets a fresh id. *)
EnqueueRetryFresh(o) ==
  /\ op[o].pc = "add"
  /\ job' = [job EXCEPT ![op[o].log] = Add(NoJob)]
  /\ OpDone(o)
  /\ UNCHANGED <<log, owned, sender, prod, cutover, mirror, review, acked, used>>

(* enqueueSend. *)
EnqueueRetry(o) ==
  LET l == op[o].log IN
  /\ op[o].pc = "add"
  /\ job' = [job EXCEPT ![l] = Add(@)]
  /\ OpDone(o)
  /\ UNCHANGED <<log, owned, sender, prod, cutover, mirror, review, acked, used>>

(* Mutant of CompensateRetry: restores the row whatever its status. *)
CompensateRetryBlind(o) ==
  /\ op[o].pc = "compensate"
  /\ log' = [log EXCEPT ![op[o].log] = op[o].seen]
  /\ OpDone(o)
  /\ UNCHANGED <<owned, job, sender, prod, cutover, mirror, review, acked, used>>

(* The queue failed: a log that is still ready gets back what was read. *)
CompensateRetry(o) ==
  LET l == op[o].log IN
  /\ op[o].pc = "compensate"
  /\ log' = IF Ready(l) THEN [log EXCEPT ![l] = op[o].seen] ELSE log
  /\ OpDone(o)
  /\ UNCHANGED <<owned, job, sender, prod, cutover, mirror, review, acked, used>>

(* Redis refuses a command of retrySend. *)
QueueFails(o) ==
  /\ op[o].pc \in {"getJob", "getState", "promote", "remove", "add"}
  /\ Fault
  /\ OpGoto(o, "compensate")
  /\ UNCHANGED <<log, owned, job, sender, prod, cutover, mirror, review, acked>>

(* The process dies, or the query fails, in the middle of a retry. *)
OperatorCrashes(o) ==
  /\ op[o].pc # "idle"
  /\ Fault
  /\ OpDone(o)
  /\ UNCHANGED <<log, owned, job, sender, prod, cutover, mirror, review, acked>>

(***************************************************************************)
(* Cutover of external events.  Both directions archive the ready events   *)
(* of the connector; a cutover covers no event that occurred before it, so *)
(* the events on record stay outside a new one.                            *)
(***************************************************************************)

ArchiveReady ==
  log' = [l \in Logs |-> IF l \in ExternalLogs /\ Ready(l)
                           THEN Row("shadow_observed", "none") ELSE log[l]]

Switch ==
  /\ used.switches < MaxSwitches
  /\ used' = [used EXCEPT !.switches = @ + 1]

ActivateCapiCutover ==
  /\ ExternalLogs # {} /\ ~cutover
  /\ Switch
  /\ cutover' = TRUE
  /\ ArchiveReady
  /\ UNCHANGED <<owned, job, sender, op, prod, mirror, review, acked>>

RollbackCapiCutover ==
  /\ cutover
  /\ Switch
  /\ cutover' = FALSE
  /\ owned' = [l \in Logs |-> l \notin ExternalLogs]
  /\ ArchiveReady
  /\ UNCHANGED <<job, sender, op, prod, mirror, review, acked>>

-----------------------------------------------------------------------------
SenderStep(s) ==
  \/ LoadLog(s) \/ CheckOwnership(s) \/ ArchiveUnowned(s) \/ PostEvent(s)
  \/ WriteResult(s) \/ SyncExecution(s) \/ SyncReview(s) \/ Finish(s)

RetryStep(o) ==
  \/ ClaimRetry(o) \/ GetJob(o) \/ GetState(o) \/ PromoteJob(o) \/ RemoveJob(o)
  \/ EnqueueRetry(o) \/ CompensateRetry(o)

Next ==
  \/ \E l \in Logs :
       \/ ImportHistorical(l) \/ FindExisting(l) \/ RecordExternalConversion(l)
       \/ EnqueueRecorded(l) \/ ProducerFails(l)
       \/ BackoffElapses(l) \/ DetectStalled(l)
       \/ \E w \in Workers : TakeJob(w, l)
       \/ \E h \in Handlers : SendManualTestEvent(h, l)
       \/ \E o \in Operators : ReadForRetry(o, l)
  \/ \E s \in Senders : SenderStep(s) \/ SenderThrows(s) \/ SenderCrashes(s)
  \/ \E o \in Operators : RetryStep(o) \/ QueueFails(o) \/ OperatorCrashes(o)
  \/ ActivateCapiCutover \/ RollbackCapiCutover

Spec == Init /\ [][Next]_vars

(* What the deployment schedules: the workers run, the queue wakes delayed *)
(* jobs and finds stalled ones, and the queue job of a producer that       *)
(* failed runs again.  Nothing obliges an operator, a new run of a         *)
(* producer, a cutover or a fault to happen.                               *)
Fairness ==
  /\ \A s \in Senders : WF_vars(SenderStep(s))
  /\ \A l \in Logs :
       /\ WF_vars(\E w \in Workers : TakeJob(w, l))
       /\ WF_vars(BackoffElapses(l))
       /\ WF_vars(DetectStalled(l))
       /\ WF_vars(prod[l].pc = "again" /\ FindExisting(l))
       /\ WF_vars(RecordExternalConversion(l))
       /\ WF_vars(EnqueueRecorded(l))

FairSpec == Spec /\ Fairness

(***************************************************************************)
(* Properties.                                                             *)
(***************************************************************************)

Busy(s) == sender[s].pc # "idle"

(* sendReadyEvent writes the row without a guard; what keeps two of them   *)
(* from overwriting each other is the job id derived from the log: no two  *)
(* senders ever work on one log (test events, which are sent without a     *)
(* job, apart).                                                            *)
OneSender ==
  \A s, t \in Senders :
    s # t /\ Busy(s) /\ Busy(t) /\ On(s) \notin ManualLogs => On(s) # On(t)

(* When only transient failures may be retried, "sent" is final: no late   *)
(* failure, stale retry, compensation, cutover or redelivery of the source *)
(* moves the log out of it.                                                *)
SentIsFinal ==
  [][\A l \in Logs : log[l].status = "sent" => log'[l].status = "sent"]_vars

(* The life of an event, as its row tells it, and the attempts under way.  *)
LifeOf(status) ==
  CASE status = "absent" -> "none"
    [] status = "imported" -> "history"
    [] status = "ready_to_send" -> "ready"
    [] status = "shadow_observed" -> "archived"
    [] status = "sent" -> "sent"
    [] status \in {"error", "not_configured"} -> "failed"
    [] OTHER -> "kept"

Lives == [l \in Logs |-> LifeOf(log[l].status)]

(* A sender past its check of the row and before its write of it. *)
Committed(s) == sender[s].pc \in {"own", "archive", "post", "write"}

Sending == {l \in Logs : \E s \in Senders : Committed(s) /\ On(s) = l}

Life == INSTANCE EventLife WITH Events <- Logs, Foreign <- ExternalLogs, life <- Lives, sending <- Sending

(* Seen from outside, rows, jobs, workers, retries and cutovers amount to  *)
(* the life of an event: it is recorded once, sent by one attempt at a     *)
(* time, and what was sent, or left to n8n, is changed by no retry,        *)
(* compensation or redelivery, only by an attempt that had begun before.   *)
ImplementsLife == Life!LifeSpec

(* Then Meta also acknowledges an event twice only when a fault lost the   *)
(* first acknowledgement.                                                  *)
AckedOnce == \A l \in Logs : used.faults = 0 => acked[l] <= 1

(* The result that a row stands for. *)
ResultOf(row) == IF row.status = "sent" THEN "sent" ELSE row.err

(* Between sends the execution and the purchase review of a log tell the   *)
(* outcome of the row, also after a retry, when no step failed.            *)
DeliveryMirrored ==
  \A l \in TrackedLogs :
    used.faults = 0 /\ log[l].status \in Outcomes /\ (\A s \in Senders : On(s) # l)
      => /\ mirror[l] = TechnicalDelivery(ResultOf(log[l]))
         /\ review[l] = IF log[l].status = "sent" THEN "sent" ELSE "failed"

QueuedLogs == Logs \ (ExternalLogs \cup ManualLogs)

(* A ready event that no producer and no operator is working on has a job: *)
(* neither a crash between the record and the queue nor the end of a job   *)
(* leaves it behind.                                                       *)
ReadyIsQueued ==
  \A l \in QueuedLogs :
    Ready(l) /\ prod[l].pc = "idle" /\ (\A o \in Operators : op[o].log # l)
      => job[l].state # "none"

(* A ready event is eventually sent, refused or found unsendable, through  *)
(* one fault anywhere.                                                     *)
ReadyIsSettled == \A l \in QueuedLogs : Ready(l) ~> ~Ready(l)
=============================================================================
