----------------------------- MODULE LeadReplay -----------------------------
(***************************************************************************)
(* How an inbound event becomes a LeadSubmitted conversion: live, through  *)
(* a production item, or later, through an item of a replay batch that an  *)
(* operator authorized.  Which of the two is open to an event depends on   *)
(* when it was received and when its connection and channel were switched  *)
(* to production, which operators change meanwhile.                        *)
(*                                                                         *)
(* One connection with one channel.  Times are abstracted to the sets of   *)
(* events received since the connection, or the channel, was activated.    *)
(***************************************************************************)
EXTENDS BullJob, FiniteSets, Integers

CONSTANTS
  Events,      \* inbound events with an ad
  Refused,     \* events whose route or identity does not allow a conversion
  Batches,     \* replay batches
  NoBatch,
  NoEvent,
  MaxTroubles, \* bound: failed commands, crashes, a disabled replay, and
               \* changes of the status of connection and channel
  MaxRetries   \* bound: retries of one batch

ASSUME ReplayAssumption ==
  /\ NoBatch \notin Batches /\ NoEvent \notin Events /\ IsFiniteSet(Events)
  /\ MaxTroubles \in Nat /\ MaxRetries \in Nat

VARIABLES
  connection, \* InboundWebhookConnection: status, productionActivatedAt set, version
  chan,     \* InboundWebhookChannel, the same
  since,    \* events received since productionActivatedAt, of each
  certified, \* the connection's InboundWebhookParserRelease is certified
  expired,  \* events whose payload is no longer stored
  intake,   \* the intake of an event: a program counter
  item,     \* InboundWebhookProductionItem.status
  ritem,    \* InboundWebhookReplayItem
  batch,    \* InboundWebhookReplayBatch
  record,   \* who recorded the conversion under the event's dedupeKey
  ijob, bjob, \* jobs of production items and of batches
  iw, rw,   \* a worker of either queue
  repRequest, \* an operator of replays
  owner,    \* a request that changes connection or channel
  spent     \* troubles so far

replayVars == <<connection, chan, since, certified, expired, intake, item, ritem, batch, record, ijob, bjob, iw, rw, repRequest, owner, spent>>

ItemStatuses == {"none", "queued", "processing", "materialized", "duplicate", "failed"}

Terminal == {"materialized", "duplicate"}

BatchStatuses == {"none", "queued", "processing", "completed", "completed_with_failures", "failed"}

ActiveBatch == {"queued", "processing"}

ReplayItems == [status : ItemStatuses, batch : Batches \cup {NoBatch}, transient : BOOLEAN]

NoReplayItem == [status |-> "none", batch |-> NoBatch, transient |-> FALSE]

BatchRecs == [status : BatchStatuses, total : 0..Cardinality(Events), done : 0..Cardinality(Events),
              failed : Int, retries : 0..MaxRetries, doubted : BOOLEAN]

NoBatchRec == [status |-> "none", total |-> 0, done |-> 0, failed |-> 0, retries |-> 0, doubted |-> FALSE]

Outcome == {"none", "new", "known", "refused", "error"}

IdleItemWorker == [pc |-> "idle", e |-> NoEvent, res |-> "none"]

IdleReplayWorker == [pc |-> "idle", b |-> NoBatch, e |-> NoEvent, todo |-> {}, res |-> "none", count |-> <<0, 0>>]

IdleOp == [pc |-> "idle", b |-> NoBatch, seen |-> "none", pick |-> {}]

IdleOwner == [pc |-> "idle", to |-> "none", seen |-> 0, conn |-> "none"]

ReplayTypeOK ==
  /\ connection \in [status : {"observation", "production", "paused"}, activated : BOOLEAN, version : 0..MaxTroubles]
  /\ chan \in [status : {"active", "paused"}, activated : BOOLEAN, version : 0..MaxTroubles]
  /\ since \in [{"conn", "chan"} -> SUBSET Events]
  /\ certified \in BOOLEAN
  /\ expired \subseteq Events
  /\ intake \in [Events -> {"absent", "received", "read", "create", "enqueue", "done"}]
  /\ item \in [Events -> ItemStatuses]
  /\ ritem \in [Events -> ReplayItems]
  /\ batch \in [Batches -> BatchRecs]
  /\ record \in [Events -> {"none", "live", "replay"}]
  /\ ijob \in [Events -> Jobs] /\ bjob \in [Batches -> Jobs]
  /\ iw \in [pc : {"idle", "load", "mark", "record", "settle"}, e : Events \cup {NoEvent}, res : Outcome]
  /\ rw \in [pc : {"idle", "open", "start", "list", "next", "mark", "record", "settle", "count", "finish", "done"},
             b : Batches \cup {NoBatch}, e : Events \cup {NoEvent}, todo : SUBSET Events, res : Outcome,
             count : (0..Cardinality(Events)) \X (0..Cardinality(Events))]
  /\ repRequest \in [pc : {"idle", "select", "commit", "enqueue", "remove", "unavailable"},
             b : Batches \cup {NoBatch}, seen : {"none", "observation", "production"}, pick : SUBSET Events]
  /\ owner \in [pc : {"idle", "conn", "chan"}, to : {"none", "observation", "production", "paused", "active"},
                seen : 0..MaxTroubles, conn : {"none", "observation", "production", "paused"}]
  /\ spent \in 0..MaxTroubles

ReplayInit ==
  /\ connection \in {[status |-> "observation", activated |-> FALSE, version |-> 0],
               [status |-> "production", activated |-> TRUE, version |-> 0]}
  /\ chan = [status |-> "active", activated |-> connection.activated, version |-> 0]
  /\ since = [x \in {"conn", "chan"} |-> {}]
  /\ certified \in BOOLEAN /\ (connection.activated => certified)
  /\ expired = {}
  /\ intake = [e \in Events |-> "absent"]
  /\ item = [e \in Events |-> "none"]
  /\ ritem = [e \in Events |-> NoReplayItem]
  /\ batch = [b \in Batches |-> NoBatchRec]
  /\ record = [e \in Events |-> "none"]
  /\ ijob = [e \in Events |-> NoJob] /\ bjob = [b \in Batches |-> NoJob]
  /\ iw = IdleItemWorker /\ rw = IdleReplayWorker
  /\ repRequest = IdleOp /\ owner = IdleOwner
  /\ spent = 0

Trouble == spent < MaxTroubles /\ spent' = spent + 1

Stored(e) == intake[e] \notin {"absent", "received"}

-----------------------------------------------------------------------------
(* Receipt and intake. *)

ReceiveEvent(e) ==
  /\ intake[e] = "absent"
  /\ intake' = [intake EXCEPT ![e] = "received"]
  /\ since' = [conn |-> since["conn"] \cup (IF connection.activated THEN {e} ELSE {}),
               chan |-> since["chan"] \cup (IF chan.activated THEN {e} ELSE {})]
  /\ UNCHANGED <<connection, chan, certified, expired, item, ritem, batch, record, ijob, bjob, iw, rw, repRequest, owner, spent>>

StoreEvent(e) ==
  /\ intake[e] = "received"
  /\ intake' = [intake EXCEPT ![e] = "read"]
  /\ UNCHANGED <<connection, chan, since, certified, expired, item, ritem, batch, record, ijob, bjob, iw, rw, repRequest, owner, spent>>

(* The retention of the payload ends. *)
ExpirePayload(e) ==
  /\ Stored(e) /\ e \notin expired
  /\ Trouble
  /\ expired' = expired \cup {e}
  /\ UNCHANGED <<connection, chan, since, certified, intake, item, ritem, batch, record, ijob, bjob, iw, rw, repRequest, owner>>

(* A parser that has processed an event with an ad can be certified. *)
CertifyParser ==
  /\ ~certified /\ \E e \in Events : Stored(e)
  /\ certified' = TRUE
  /\ UNCHANGED <<connection, chan, since, expired, intake, item, ritem, batch, record, ijob, bjob, iw, rw, repRequest, owner, spent>>

(* isAfterActivationBoundary. *)
AfterBoundary(e) ==
  /\ certified
  /\ connection.status = "production" /\ connection.activated
  /\ chan.status = "active" /\ chan.activated
  /\ e \in since["conn"] /\ e \in since["chan"]

IntakeStep(e, pc) ==
  /\ intake' = [intake EXCEPT ![e] = pc]
  /\ UNCHANGED <<connection, chan, since, certified, expired, ritem, batch, record, bjob, iw, rw, repRequest, owner, spent>>

(* enqueueEligibleEvents: the query, the insert, the queue. *)
IntakeRead(e) ==
  /\ intake[e] = "read"
  /\ IntakeStep(e, IF ritem[e].status = "none" /\ item[e] = "none" /\ AfterBoundary(e) THEN "create" ELSE "done")
  /\ UNCHANGED <<item, ijob>>

IntakeCreate(e) ==
  /\ intake[e] = "create"
  /\ item' = [item EXCEPT ![e] = IF @ = "none" THEN "queued" ELSE @]
  /\ IntakeStep(e, "enqueue")
  /\ UNCHANGED ijob

Requeued(j) == IF Live(j) THEN j ELSE Add(NoJob)

IntakeEnqueue(e) ==
  /\ intake[e] = "enqueue"
  /\ ijob' = [ijob EXCEPT ![e] = IF item[e] = "queued" THEN Requeued(@) ELSE @]
  /\ IntakeStep(e, "done")
  /\ UNCHANGED item

(* A query fails and the intake is deferred, or an add fails and is counted. *)
IntakeFails(e) ==
  /\ intake[e] \in {"read", "create", "enqueue"}
  /\ Trouble
  /\ intake' = [intake EXCEPT ![e] = "done"]
  /\ UNCHANGED <<connection, chan, since, certified, expired, item, ritem, batch, record, ijob, bjob, iw, rw, repRequest, owner>>

(* recoverPendingItems: what has been queued or processing for too long. *)
RecoverItem(e) ==
  /\ item[e] \in {"queued", "processing"} /\ ~Live(ijob[e])
  /\ ijob' = [ijob EXCEPT ![e] = Requeued(@)]
  /\ UNCHANGED <<connection, chan, since, certified, expired, intake, item, ritem, batch, record, bjob, iw, rw, repRequest, owner, spent>>

-----------------------------------------------------------------------------
(* The worker of production items: InboundWebhookProductionService.        *)

Available(e) == e \notin expired

(* What materialize decides on the record that was loaded. *)
LiveOutcome(e) == IF AfterBoundary(e) /\ Available(e) /\ e \notin Refused THEN "none" ELSE "refused"

ItemStep(w) ==
  /\ iw' = w
  /\ UNCHANGED <<connection, chan, since, certified, expired, intake, ritem, batch, bjob, rw, repRequest, owner, spent>>

TakeItem(e) ==
  /\ iw.pc = "idle" /\ ijob[e].state = "waiting"
  /\ ijob' = [ijob EXCEPT ![e] = Take(@)]
  /\ ItemStep([pc |-> "load", e |-> e, res |-> "none"])
  /\ UNCHANGED <<item, record>>

LoadItem ==
  LET e == iw.e IN
  /\ iw.pc = "load"
  /\ IF item[e] \in Terminal
       THEN ItemStep(IdleItemWorker) /\ ijob' = [ijob EXCEPT ![e] = NoJob]
       ELSE ItemStep([pc |-> "mark", e |-> e, res |-> LiveOutcome(e)]) /\ UNCHANGED ijob
  /\ UNCHANGED <<item, record>>

MarkItem ==
  /\ iw.pc = "mark"
  /\ item' = [item EXCEPT ![iw.e] = "processing"]
  /\ ItemStep([iw EXCEPT !.pc = IF iw.res = "refused" THEN "settle" ELSE "record"])
  /\ UNCHANGED <<ijob, record>>

(* recordExternalConversion under the event's dedupeKey. *)
Recorded(e, by) == record' = [record EXCEPT ![e] = IF @ = "none" THEN by ELSE @]

KnownOrNew(e) == IF record[e] = "none" \/ record'[e] # record[e] THEN "new" ELSE "known"

RecordItem ==
  /\ iw.pc = "record"
  /\ Recorded(iw.e, "live")
  /\ ItemStep([iw EXCEPT !.pc = "settle", !.res = KnownOrNew(iw.e)])
  /\ UNCHANGED <<item, ijob>>

(* Mutant of ItemStatus: what did not record a conversion found one. *)
ItemStatusTwoWays(res) == IF res = "new" THEN "materialized" ELSE "duplicate"

ItemStatus(res) == CASE res = "new" -> "materialized" [] res = "known" -> "duplicate" [] OTHER -> "failed"

(* The outcome is written by id; a failure fails the attempt. *)
SettleItem ==
  LET e == iw.e IN
  /\ iw.pc = "settle"
  /\ item' = [item EXCEPT ![e] = ItemStatus(iw.res)]
  /\ ijob' = [ijob EXCEPT ![e] = IF iw.res \in {"refused", "error"} THEN Fail(@) ELSE NoJob]
  /\ ItemStep(IdleItemWorker)
  /\ UNCHANGED record

(* A command throws: outside the try block the attempt fails, inside it    *)
(* the item does.                                                          *)
ItemThrows ==
  /\ iw.pc # "idle" /\ Trouble
  /\ IF iw.pc = "record"
       THEN iw' = [iw EXCEPT !.pc = "settle", !.res = "error"] /\ UNCHANGED ijob
       ELSE iw' = IdleItemWorker /\ ijob' = [ijob EXCEPT ![iw.e] = Fail(@)]
  /\ UNCHANGED <<connection, chan, since, certified, expired, intake, item, ritem, batch, record, bjob, rw, repRequest, owner>>

ItemWorkerDies ==
  /\ iw.pc # "idle" /\ Trouble
  /\ iw' = IdleItemWorker
  /\ UNCHANGED <<connection, chan, since, certified, expired, intake, item, ritem, batch, record, ijob, bjob, rw, repRequest, owner>>

ItemStalled(e) ==
  /\ ijob[e].state = "active" /\ iw.e # e
  /\ ijob' = [ijob EXCEPT ![e] = Stall(@)]
  /\ UNCHANGED <<connection, chan, since, certified, expired, intake, item, ritem, batch, record, bjob, iw, rw, repRequest, owner, spent>>

ItemBackoff(e) ==
  /\ ijob[e].state = "delayed"
  /\ ijob' = [ijob EXCEPT ![e] = Promote(@)]
  /\ UNCHANGED <<connection, chan, since, certified, expired, intake, item, ritem, batch, record, bjob, iw, rw, repRequest, owner, spent>>

-----------------------------------------------------------------------------
(* Operators of replays: authorizeReplay, retryTransientFailures.          *)

OpStep(o) ==
  /\ repRequest' = o
  /\ UNCHANGED <<connection, chan, since, certified, expired, intake, item, record, ijob, iw, rw, owner>>

(* replayWindowEligible, with the connection as it was loaded. *)
InWindow(e, status) ==
  \/ status = "observation"
  \/ /\ status = "production" /\ connection.activated
     /\ ~chan.activated \/ e \notin since["conn"] \/ e \notin since["chan"]

(* The connection is loaded before the transaction begins. *)
Authorize(b) ==
  /\ repRequest.pc = "idle" /\ batch[b].status = "none" /\ bjob[b].state = "none"
  /\ certified /\ connection.status \in {"observation", "production"}
  /\ OpStep([IdleOp EXCEPT !.pc = "select", !.b = b, !.seen = connection.status])
  /\ UNCHANGED <<ritem, batch, bjob, spent>>

Candidates(status) ==
  {e \in Events : Stored(e) /\ e \notin Refused /\ Available(e) /\ ritem[e].status = "none" /\ item[e] = "none"
                  /\ InWindow(e, status)}

(* At most the limit of the selection is taken. *)
SelectEvents ==
  /\ repRequest.pc = "select"
  /\ \/ \E pick \in SUBSET Candidates(repRequest.seen) \ {{}} :
          /\ \A b \in Batches : batch[b].status \notin ActiveBatch
          /\ OpStep([repRequest EXCEPT !.pc = "commit", !.pick = pick])
     \/ /\ Candidates(repRequest.seen) = {} \/ \E b \in Batches : batch[b].status \in ActiveBatch
        /\ OpStep(IdleOp)
  /\ UNCHANGED <<ritem, batch, bjob, spent>>

(* Batch and items are inserted; an active batch of the connection or no   *)
(* item left makes the transaction fail.                                   *)
CommitBatch ==
  LET free == {e \in repRequest.pick : ritem[e].status = "none"} IN
  /\ repRequest.pc = "commit"
  /\ IF free = {} \/ \E b \in Batches : batch[b].status \in ActiveBatch
       THEN OpStep(IdleOp) /\ UNCHANGED <<ritem, batch>>
       ELSE /\ batch' = [batch EXCEPT ![repRequest.b] = [NoBatchRec EXCEPT !.status = "queued", !.total = Cardinality(free)]]
            /\ ritem' = [e \in Events |-> IF e \in free THEN [NoReplayItem EXCEPT !.status = "queued", !.batch = repRequest.b]
                                                       ELSE ritem[e]]
            /\ OpStep([repRequest EXCEPT !.pc = "enqueue", !.pick = {}])
  /\ UNCHANGED <<bjob, spent>>

EnqueueBatch ==
  /\ repRequest.pc = "enqueue"
  /\ bjob' = [bjob EXCEPT ![repRequest.b] = Requeued(@)]
  /\ OpStep(IdleOp)
  /\ UNCHANGED <<ritem, batch, spent>>

(* The command fails, before or after Redis took the job. *)
EnqueueFails ==
  /\ repRequest.pc = "enqueue" /\ Trouble
  /\ \E taken \in BOOLEAN : bjob' = [bjob EXCEPT ![repRequest.b] = IF taken THEN Requeued(@) ELSE @]
  /\ OpStep([repRequest EXCEPT !.pc = IF batch[repRequest.b].retries > 0 THEN "unavailable" ELSE "remove"])
  /\ UNCHANGED <<ritem, batch>>

InBatch(b) == {e \in Events : ritem[e].batch = b}

(* removeUnqueuedBatch: the items in any case, the batch when still queued. *)
RemoveBatch ==
  /\ repRequest.pc = "remove"
  /\ ritem' = [e \in Events |-> IF ritem[e].batch = repRequest.b THEN NoReplayItem ELSE ritem[e]]
  /\ batch' = [batch EXCEPT ![repRequest.b] = IF @.status = "queued" THEN NoBatchRec ELSE @]
  /\ OpStep(IdleOp)
  /\ UNCHANGED <<bjob, spent>>

Transient(b) == {e \in InBatch(b) : ritem[e].status = "failed" /\ ritem[e].transient}

(* getPreview, by which an operator decides: the stored events with an ad, *)
(* and of each kind it counts the events themselves.                       *)
Previewed == {e \in Events : Stored(e)}

AlreadyMaterialized(e) == ritem[e].status \in Terminal \/ item[e] \in Terminal

Offered(e) ==
  e \notin Refused /\ Available(e) /\ InWindow(e, connection.status) /\ ritem[e].status = "none" /\ item[e] = "none"

Preview ==
  [resolved |-> Previewed \ Refused,
   available |-> {e \in Previewed : Available(e)},
   materialized |-> {e \in Previewed : AlreadyMaterialized(e)},
   eligible |-> {e \in Previewed : Offered(e)},
   retryable |-> [b \in Batches |-> Transient(b) \ expired]]

(* One transaction; the other batches must be at rest. *)
RetryTransient(b) ==
  LET again == Transient(b) \ expired IN
  /\ repRequest.pc = "idle" /\ batch[b].retries < MaxRetries
  /\ batch[b].status \in {"completed_with_failures", "failed"} /\ again # {}
  /\ \A c \in Batches \ {b} : batch[c].status \notin ActiveBatch
  /\ ritem' = [e \in Events |-> IF e \in again THEN [ritem[e] EXCEPT !.status = "queued", !.transient = FALSE]
                                              ELSE ritem[e]]
  /\ batch' = [batch EXCEPT ![b].status = "queued", ![b].failed = @ - Cardinality(again), ![b].retries = @ + 1]
  /\ OpStep([IdleOp EXCEPT !.pc = "enqueue", !.b = b, !.pick = again])
  /\ UNCHANGED <<bjob, spent>>

CountOf(b, statuses, items) == Cardinality({e \in Events : items[e].batch = b /\ items[e].status \in statuses})

(* markRetryQueueUnavailable; "doubted" remembers that it was reached. *)
MarkUnavailable ==
  LET b == repRequest.b
      back == [e \in Events |-> IF e \in repRequest.pick /\ ritem[e].batch = b /\ ritem[e].status = "queued"
                                  THEN [ritem[e] EXCEPT !.status = "failed", !.transient = TRUE] ELSE ritem[e]] IN
  /\ repRequest.pc = "unavailable"
  /\ ritem' = back
  /\ batch' = [batch EXCEPT ![b].status = "completed_with_failures", ![b].failed = CountOf(b, {"failed"}, back),
                            ![b].doubted = TRUE]
  /\ OpStep(IdleOp)
  /\ UNCHANGED <<bjob, spent>>

-----------------------------------------------------------------------------
(* The worker of batches: processBatch.                                    *)

BatchStep(w) ==
  /\ rw' = w
  /\ UNCHANGED <<connection, chan, since, certified, expired, intake, item, ijob, iw, repRequest, owner>>

TakeBatch(b) ==
  /\ rw.pc = "idle" /\ bjob[b].state = "waiting"
  /\ bjob' = [bjob EXCEPT ![b] = Take(@)]
  /\ BatchStep([IdleReplayWorker EXCEPT !.pc = "open", !.b = b])
  /\ UNCHANGED <<ritem, batch, record, spent>>

(* failEntireBatch, in a process where replay is disabled. *)
FailEntireBatch ==
  LET b == rw.b
      lost == [e \in Events |-> IF ritem[e].batch = b /\ ritem[e].status \in ActiveBatch
                                  THEN [ritem[e] EXCEPT !.status = "failed", !.transient = TRUE] ELSE ritem[e]] IN
  /\ rw.pc = "open" /\ batch[b].status # "none" /\ Trouble
  /\ ritem' = lost
  /\ batch' = [batch EXCEPT ![b].status = "failed", ![b].failed = CountOf(b, {"failed"}, lost)]
  /\ BatchStep([rw EXCEPT !.pc = "done"])
  /\ UNCHANGED <<record, bjob>>

JobOver(j) ==
  /\ bjob' = [bjob EXCEPT ![rw.b] = j]
  /\ BatchStep(IdleReplayWorker)

(* Mutant of OpenBatch: only a queued batch is worked on. *)
OpenQueuedBatch ==
  LET s == batch[rw.b].status IN
  /\ rw.pc = "open"
  /\ CASE s = "none" -> JobOver(Fail(bjob[rw.b]))
       [] s = "queued" -> BatchStep([rw EXCEPT !.pc = "start"]) /\ UNCHANGED bjob
       [] OTHER -> BatchStep([rw EXCEPT !.pc = "done"]) /\ UNCHANGED bjob
  /\ UNCHANGED <<ritem, batch, record, spent>>

OpenBatch ==
  LET s == batch[rw.b].status IN
  /\ rw.pc = "open"
  /\ CASE s = "none" -> JobOver(Fail(bjob[rw.b]))
       [] s \in ActiveBatch -> BatchStep([rw EXCEPT !.pc = "start"]) /\ UNCHANGED bjob
       [] OTHER -> BatchStep([rw EXCEPT !.pc = "done"]) /\ UNCHANGED bjob
  /\ UNCHANGED <<ritem, batch, record, spent>>

(* A row that was deleted meanwhile makes the update throw. *)
StartBatch ==
  /\ rw.pc = "start"
  /\ IF batch[rw.b].status = "none"
       THEN JobOver(Fail(bjob[rw.b])) /\ UNCHANGED batch
       ELSE /\ batch' = [batch EXCEPT ![rw.b].status = "processing"]
            /\ BatchStep([rw EXCEPT !.pc = "list"]) /\ UNCHANGED bjob
  /\ UNCHANGED <<ritem, record, spent>>

ListItems ==
  /\ rw.pc = "list"
  /\ BatchStep([rw EXCEPT !.pc = "next", !.todo = {e \in InBatch(rw.b) : ritem[e].status \in ActiveBatch}])
  /\ UNCHANGED <<ritem, batch, record, bjob, spent>>

ReplayOutcome(e) ==
  IF connection.status \in {"observation", "production"} /\ InWindow(e, connection.status) /\ Available(e) /\ e \notin Refused
    THEN "none" ELSE "refused"

(* processItem reads the item with its event, connection and channel. *)
NextItem ==
  /\ rw.pc = "next"
  /\ IF rw.todo = {} THEN BatchStep([rw EXCEPT !.pc = "count"])
     ELSE \E e \in rw.todo :
       IF ritem[e].batch = rw.b /\ ritem[e].status \in ActiveBatch
         THEN BatchStep([rw EXCEPT !.pc = "mark", !.e = e, !.todo = @ \ {e}, !.res = ReplayOutcome(e)])
         ELSE BatchStep([rw EXCEPT !.todo = @ \ {e}])
  /\ UNCHANGED <<ritem, batch, record, bjob, spent>>

Present == ritem[rw.e].batch = rw.b

MarkReplayItem ==
  /\ rw.pc = "mark"
  /\ IF ~Present THEN JobOver(Fail(bjob[rw.b])) /\ UNCHANGED ritem
     ELSE /\ ritem' = [ritem EXCEPT ![rw.e].status = "processing", ![rw.e].transient = FALSE]
          /\ BatchStep([rw EXCEPT !.pc = IF rw.res = "refused" THEN "settle" ELSE "record"])
          /\ UNCHANGED bjob
  /\ UNCHANGED <<batch, record, spent>>

RecordReplay ==
  /\ rw.pc = "record"
  /\ Recorded(rw.e, "replay")
  /\ BatchStep([rw EXCEPT !.pc = "settle", !.res = KnownOrNew(rw.e)])
  /\ UNCHANGED <<ritem, batch, bjob, spent>>

SettleReplayItem ==
  /\ rw.pc = "settle"
  /\ IF ~Present THEN JobOver(Fail(bjob[rw.b])) /\ UNCHANGED ritem
     ELSE /\ ritem' = [ritem EXCEPT ![rw.e].status = ItemStatus(rw.res), ![rw.e].transient = rw.res = "error"]
          /\ BatchStep([rw EXCEPT !.pc = "next", !.e = NoEvent, !.res = "none"])
          /\ UNCHANGED bjob
  /\ UNCHANGED <<batch, record, spent>>

CountItems ==
  /\ rw.pc = "count"
  /\ BatchStep([rw EXCEPT !.pc = "finish", !.count = <<CountOf(rw.b, Terminal, ritem), CountOf(rw.b, {"failed"}, ritem)>>])
  /\ UNCHANGED <<ritem, batch, record, bjob, spent>>

FinishBatch ==
  /\ rw.pc = "finish"
  /\ batch' = [batch EXCEPT ![rw.b].status = IF rw.count[2] > 0 THEN "completed_with_failures" ELSE "completed",
                            ![rw.b].done = rw.count[1], ![rw.b].failed = rw.count[2]]
  /\ BatchStep([rw EXCEPT !.pc = "done"])
  /\ UNCHANGED <<ritem, record, bjob, spent>>

CompleteBatchJob ==
  /\ rw.pc = "done"
  /\ JobOver(NoJob)
  /\ UNCHANGED <<ritem, batch, record, spent>>

BatchThrows ==
  /\ rw.pc # "idle" /\ Trouble
  /\ IF rw.pc = "record"
       THEN BatchStep([rw EXCEPT !.pc = "settle", !.res = "error"]) /\ UNCHANGED bjob
       ELSE JobOver(Fail(bjob[rw.b]))
  /\ UNCHANGED <<ritem, batch, record>>

BatchWorkerDies ==
  /\ rw.pc # "idle" /\ Trouble
  /\ BatchStep(IdleReplayWorker)
  /\ UNCHANGED <<ritem, batch, record, bjob>>

BatchStalled(b) ==
  /\ bjob[b].state = "active" /\ rw.b # b
  /\ bjob' = [bjob EXCEPT ![b] = Stall(@)]
  /\ UNCHANGED <<connection, chan, since, certified, expired, intake, item, ritem, batch, record, ijob, iw, rw, repRequest, owner, spent>>

BatchBackoff(b) ==
  /\ bjob[b].state = "delayed"
  /\ bjob' = [bjob EXCEPT ![b] = Promote(@)]
  /\ UNCHANGED <<connection, chan, since, certified, expired, intake, item, ritem, batch, record, ijob, iw, rw, repRequest, owner, spent>>

-----------------------------------------------------------------------------
(* Changes of the settings: inbound-webhook-production-activation.ts.      *)

OwnerStep(o) ==
  /\ owner' = o
  /\ UNCHANGED <<certified, expired, intake, item, ritem, batch, record, ijob, bjob, iw, rw, repRequest>>

(* assertProductionReady. *)
ProductionReady == certified /\ chan.status = "active" /\ \A b \in Batches : batch[b].status \notin ActiveBatch

BeginConnection(s) ==
  /\ owner.pc = "idle" /\ Trouble
  /\ s \in {"observation", "production", "paused"} /\ (s = "production" => ProductionReady)
  /\ OwnerStep([pc |-> "conn", to |-> s, seen |-> connection.version, conn |-> connection.status])
  /\ UNCHANGED <<connection, chan, since>>

(* Compare-and-set on updatedAt, then the active channels. *)
CommitConnection ==
  LET s == owner.to
      fresh == s = "production" /\ ~(owner.conn = "production" /\ connection.activated) IN
  /\ owner.pc = "conn"
  /\ IF connection.version # owner.seen THEN UNCHANGED <<connection, chan, since>>
     ELSE /\ connection' = [status |-> s, activated |-> s = "production", version |-> connection.version + 1]
          /\ chan' = IF chan.status = "active"
                       THEN [chan EXCEPT !.activated = s = "production", !.version = @ + 1] ELSE chan
          /\ since' = [conn |-> IF s = "production" /\ ~fresh THEN since["conn"] ELSE {},
                       chan |-> IF chan.status = "active" THEN {} ELSE since["chan"]]
  /\ OwnerStep(IdleOwner)
  /\ UNCHANGED spent

BeginChannel(s) ==
  /\ owner.pc = "idle" /\ Trouble
  /\ s \in {"active", "paused"}
  /\ OwnerStep([pc |-> "chan", to |-> s, seen |-> chan.version, conn |-> connection.status])
  /\ UNCHANGED <<connection, chan, since>>

(* Whether the channel is in production follows from the connection as it  *)
(* was read.                                                               *)
CommitChannel ==
  LET live == owner.to = "active" /\ owner.conn = "production"
      kept == live /\ chan.status = "active" /\ chan.activated IN
  /\ owner.pc = "chan"
  /\ IF chan.version # owner.seen THEN UNCHANGED <<chan, since>>
     ELSE /\ chan' = [status |-> owner.to, activated |-> live, version |-> chan.version + 1]
          /\ since' = [since EXCEPT !["chan"] = IF kept THEN @ ELSE {}]
  /\ OwnerStep(IdleOwner)
  /\ UNCHANGED <<connection, spent>>

-----------------------------------------------------------------------------
ItemWork == LoadItem \/ MarkItem \/ RecordItem \/ SettleItem

BatchWork ==
  \/ OpenBatch \/ StartBatch \/ ListItems \/ NextItem \/ MarkReplayItem \/ RecordReplay \/ SettleReplayItem
  \/ CountItems \/ FinishBatch \/ CompleteBatchJob

OpWork == SelectEvents \/ CommitBatch \/ EnqueueBatch \/ RemoveBatch \/ MarkUnavailable

ReplayNext ==
  \/ \E e \in Events :
       \/ ReceiveEvent(e) \/ StoreEvent(e) \/ ExpirePayload(e)
       \/ IntakeRead(e) \/ IntakeCreate(e) \/ IntakeEnqueue(e) \/ IntakeFails(e) \/ RecoverItem(e)
       \/ TakeItem(e) \/ ItemStalled(e) \/ ItemBackoff(e)
  \/ CertifyParser
  \/ ItemWork \/ ItemThrows \/ ItemWorkerDies
  \/ \E b \in Batches : Authorize(b) \/ RetryTransient(b) \/ TakeBatch(b) \/ BatchStalled(b) \/ BatchBackoff(b)
  \/ OpWork \/ EnqueueFails
  \/ BatchWork \/ FailEntireBatch \/ BatchThrows \/ BatchWorkerDies
  \/ \E s \in {"observation", "production", "paused"} : BeginConnection(s)
  \/ \E s \in {"active", "paused"} : BeginChannel(s)
  \/ CommitConnection \/ CommitChannel

ReplaySpec == ReplayInit /\ [][ReplayNext]_replayVars

(* Workers go on with what they took, BullMQ delivers, an operator's       *)
(* request goes on, the recovery comes round.                              *)
ReplayFairness ==
  /\ WF_replayVars(ItemWork) /\ WF_replayVars(BatchWork) /\ WF_replayVars(OpWork)
  /\ \A e \in Events : SF_replayVars(TakeItem(e)) /\ WF_replayVars(ItemStalled(e) \/ ItemBackoff(e) \/ RecoverItem(e))
  /\ \A b \in Batches : SF_replayVars(TakeBatch(b)) /\ WF_replayVars(BatchStalled(b) \/ BatchBackoff(b))

-----------------------------------------------------------------------------
(* An event counts as materialized on one side only: when it was taken up  *)
(* live and by a replay, one of the two sees the other's conversion.       *)
MaterializedOnce ==
  \A e \in Events : ~(item[e] = "materialized" /\ ritem[e].status = "materialized")

(* The preview is right whenever it is read: what it counts as materialized *)
(* has a conversion, and what it offers to replay was not converted live.  *)
PreviewTruthful ==
  /\ \A e \in Preview.materialized : record[e] # "none"
  /\ \A e \in Preview.eligible : record[e] # "live"

(* The counters of a batch at rest are those of its items, also after      *)
(* retries, crashes and repeated runs.  A retry that was told the queue is *)
(* unavailable is left out: when Redis had taken the job all the same,     *)
(* markRetryQueueUnavailable ends a batch that a worker is still at, and   *)
(* no later run of the job counts its items again.                         *)
CountsAgree ==
  \A b \in Batches :
    batch[b].status \in {"completed", "completed_with_failures"} /\ ~batch[b].doubted /\ InBatch(b) # {} =>
      /\ batch[b].failed = CountOf(b, {"failed"}, ritem)
      /\ batch[b].done + batch[b].failed = batch[b].total

(* A batch whose job was queued comes to rest, so that the connection can  *)
(* be replayed and activated again, unless its job failed for good or an   *)
(* operator's retry met a job that was about to end.                       *)
BatchSettles ==
  \A b \in Batches : Live(bjob[b]) /\ batch[b].status # "none"
    ~> batch[b].status \notin ActiveBatch \/ batch[b].retries > 0 \/ bjob[b].state = "failed"

(* All three, of live processing, replays and retries at once              *)
(* (InboundWebhookReplayService, InboundWebhookProductionService).         *)
ReplaySafe == ReplayTypeOK /\ MaterializedOnce /\ PreviewTruthful /\ CountsAgree
=============================================================================
