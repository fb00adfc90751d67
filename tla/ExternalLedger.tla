--------------------------- MODULE ExternalLedger ---------------------------
(***************************************************************************)
(* The import of an external MySQL ledger: one connector of one workspace  *)
(* (ExternalDataService), its sync jobs (ExternalSyncQueueService,         *)
(* ExternalAutoSyncService, ExternalSyncProcessor), the two streams they   *)
(* page through (ExternalSyncService) and the ingestion of an event row    *)
(* (ExternalEventIngestionService).                                        *)
(*                                                                         *)
(* A sync is identified by its streams: jobs with different streams may    *)
(* run at the same time over the same cursors, records, leads and logs.    *)
(* updated_at is the number of changes the source has seen.                *)
(***************************************************************************)
EXTENDS BullJob, Integers, Sequences, FiniteSets

CONSTANTS
  Contacts,        \* leads of the source, one WppTrack lead each
  Native,          \* contacts whose lead another channel created
  Rows,            \* event rows of the source
  RowContact, RowType,
  Numbered,        \* rows with an external_event_id
  Organic,         \* rows without a ctwa_clid
  Legacy,          \* rows whose record an older release linked to an orphan lead
  TakenOver,       \* event types whose cutover was activated before
  Syncs,           \* jobs that may run, of "both", "events" and "leads"
  PageSize,        \* rowBatchSize
  MaxChanges,      \* bound: changes of the source
  MaxLedgerFaults, \* bound: failed or dying syncs
  MaxTurns         \* bound: switches of the connector

VARIABLES
  sourceLead,  \* the source's leads: updated_at (0: absent) and milestone
  sourceRow,   \* the source's events: updated_at (0: absent) and occurred_at
  changes,     \* changes of the source so far
  lead,        \* Lead.status
  leadRec,     \* ExternalIngestionRecord of stream leads
  eventRec,    \* ExternalIngestionRecord of stream events
  capiLog,     \* ConversionEventLog by dedupe key
  toSend,      \* logs given to the send queue
  cursor,      \* ExternalSyncCursor (NoCursor: no row)
  connector,   \* status, lastConnectionStatus, lastSyncStatus
  cutover,     \* the active cutovers: activatedAt (Never: none)
  gate,        \* the event type whose gate an operator has found open
  orphans,     \* records that still point at an orphan lead
  syncJob,     \* the queue's job of a sync
  sync,        \* the running syncs
  ledgerFaults, turns

ledgerVars == <<sourceLead, sourceRow, changes, lead, leadRec, eventRec, capiLog, toSend, cursor,
                connector, cutover, gate, orphans, syncJob, sync, ledgerFaults, turns>>

sourceVars == <<sourceLead, sourceRow, changes>>
ledgerRecords == <<lead, leadRec, eventRec, capiLog, toSend, orphans>>
controlVars == <<connector, cutover, gate, turns>>

-----------------------------------------------------------------------------
Streams(j) == CASE j = "both" -> <<"leads", "events">> [] j = "events" -> <<"events">> [] j = "leads" -> <<"leads">>

EventTypes == {"conversation_started", "qualified_lead", "purchase"}

Never == MaxChanges + 1

NoCursor == -1

(* Rows the sync itself derives from a lead's milestones. *)
Milestones == Contacts \X {"qualified_lead", "purchase"}

Ledger == Rows \cup Milestones

ContactOf(r) == IF r \in Rows THEN RowContact[r] ELSE r[1]
TypeOf(r) == IF r \in Rows THEN RowType[r] ELSE r[2]

(* buildExternalEventIdentity: the provider's event id, else the lead and  *)
(* the kind of event; a conversation has no other identity.                *)
Identified(r) == r \in Numbered \/ TypeOf(r) # "conversation_started"
KeyOf(r) == IF r \in Numbered THEN r ELSE <<ContactOf(r), TypeOf(r)>>

(* The timer syncs both streams; what an older release recorded has an     *)
(* identity.                                                               *)
ASSUME LedgerAssumption ==
  /\ IsFiniteSet(Contacts) /\ IsFiniteSet(Rows) /\ Rows \cap Milestones = {} /\ Native \subseteq Contacts
  /\ RowContact \in [Rows -> Contacts] /\ RowType \in [Rows -> EventTypes]
  /\ Numbered \subseteq Rows /\ Organic \subseteq Rows
  /\ Legacy \subseteq Rows /\ \A r \in Legacy : Identified(r)
  /\ TakenOver \subseteq EventTypes
  /\ Syncs \subseteq {"both", "events", "leads"} /\ "both" \in Syncs
  /\ PageSize \in Nat \ {0} /\ MaxChanges \in Nat /\ MaxLedgerFaults \in Nat /\ MaxTurns \in Nat

(* shouldFilterExternalConversationWithoutCtwa *)
Filtered(r) == r \in Organic /\ TypeOf(r) = "conversation_started"

NoRecord == [status |-> "none", linked |-> FALSE, log |-> FALSE]

(* todo is what is left of the page, part what comes next of its first row. *)
NoSync == [pc |-> "idle", refresh |-> FALSE, at |-> 1, cur |-> 0, todo |-> {}, part |-> "row", last |-> 0, full |-> FALSE,
           cut |-> [t \in EventTypes |-> Never], prior |-> NoRecord, created |-> FALSE, ready |-> FALSE,
           touched |-> {}, steady |-> {}, stale |-> {}]

EventStatuses == {"none", "imported", "duplicate", "pending_delivery", "rejected", "unmatched", "removed"}
EventRecords == [status : EventStatuses, linked : BOOLEAN, log : BOOLEAN]
LogStatuses == {"none", "imported", "shadow_observed", "not_eligible", "ready_to_send", "skipped"}

(* A row of a page, as it was read. *)
PageRows == [x : Rows \cup Contacts, at : 1..MaxChanges, as : {"active", "qualified", "converted", "none"}]

SyncRecords ==
  [pc : {"idle", "open", "begin", "page", "item", "record", "save", "deliver", "retry", "stale", "delete", "orphans", "complete"},
   refresh : BOOLEAN, at : 1..2, cur : 0..MaxChanges, todo : SUBSET PageRows,
   part : {"row", "lead", "qualified_lead", "purchase", "leadrec"}, last : 0..MaxChanges, full : BOOLEAN,
   cut : [EventTypes -> 0..Never], prior : EventRecords, created : BOOLEAN, ready : BOOLEAN,
   touched : SUBSET Contacts, steady : SUBSET Contacts, stale : SUBSET Contacts]

LedgerTypeOK ==
  /\ sourceLead \in [Contacts -> [at : 0..MaxChanges, milestone : {"active", "qualified", "converted"}]]
  /\ sourceRow \in [Rows -> [at : 0..MaxChanges, occurred : 0..MaxChanges]]
  /\ changes \in 0..MaxChanges
  /\ lead \in [Contacts -> {"none", "active", "qualified", "converted"}]
  /\ leadRec \in [Contacts -> {"none", "imported", "rejected", "removed"}]
  /\ eventRec \in [Ledger -> EventRecords]
  /\ capiLog \in [Ledger -> [status : LogStatuses, linked : BOOLEAN]]
  /\ toSend \subseteq Ledger /\ orphans \subseteq Rows
  /\ cursor \in [{"leads", "events"} -> NoCursor..MaxChanges]
  /\ connector \in [active : BOOLEAN, enabled : BOOLEAN, connected : BOOLEAN, last : {"none", "running", "completed", "failed"}]
  /\ cutover \in [EventTypes -> 0..Never] /\ gate \in EventTypes \cup {"none"}
  /\ syncJob \in [Syncs -> [bull : Jobs, refresh : BOOLEAN]]
  /\ sync \in [Syncs -> SyncRecords]
  /\ ledgerFaults \in 0..MaxLedgerFaults /\ turns \in 0..MaxTurns

(* The connector is tested and active; an older release left promotions    *)
(* recorded under a lead without messages.                                 *)
LedgerInit ==
  /\ sourceLead = [c \in Contacts |-> [at |-> 0, milestone |-> "active"]]
  /\ sourceRow = [r \in Rows |-> [at |-> 0, occurred |-> 0]]
  /\ changes = 0
  /\ lead = [c \in Contacts |-> IF c \in Native THEN "active" ELSE "none"]
  /\ leadRec = [c \in Contacts |-> "none"]
  /\ eventRec = [r \in Ledger |-> IF r \in Legacy THEN [status |-> "imported", linked |-> TRUE, log |-> TRUE] ELSE NoRecord]
  /\ capiLog = [k \in Ledger |-> IF k \in {KeyOf(r) : r \in Legacy} THEN [status |-> "ready_to_send", linked |-> TRUE]
                                 ELSE [status |-> "none", linked |-> FALSE]]
  /\ toSend = {} /\ orphans = Legacy
  /\ cursor = [s \in {"leads", "events"} |-> NoCursor]
  /\ connector = [active |-> TRUE, enabled |-> TRUE, connected |-> TRUE, last |-> "none"]
  /\ cutover = [t \in EventTypes |-> IF t \in TakenOver THEN 0 ELSE Never] /\ gate = "none"
  /\ syncJob = [j \in Syncs |-> [bull |-> NoJob, refresh |-> FALSE]]
  /\ sync = [j \in Syncs |-> NoSync]
  /\ ledgerFaults = 0 /\ turns = 0

-----------------------------------------------------------------------------
(* The source: views of another system's database.                         *)

WriteLead(c, m) ==
  /\ changes < MaxChanges /\ changes' = changes + 1
  /\ sourceLead' = [sourceLead EXCEPT ![c] = [at |-> changes + 1, milestone |-> m]]
  /\ UNCHANGED <<sourceRow, ledgerRecords, controlVars, cursor, syncJob, sync, ledgerFaults>>

DropLead(c) ==
  /\ changes < MaxChanges /\ changes' = changes + 1
  /\ sourceLead[c].at # 0
  /\ sourceLead' = [sourceLead EXCEPT ![c].at = 0]
  /\ sync' = [j \in Syncs |-> [sync[j] EXCEPT !.steady = @ \ {c}]]
  /\ UNCHANGED <<sourceRow, ledgerRecords, controlVars, cursor, syncJob, ledgerFaults>>

WriteRow(r) ==
  /\ changes < MaxChanges /\ changes' = changes + 1
  /\ sourceRow' = [sourceRow EXCEPT ![r] = [at |-> changes + 1, occurred |-> IF @.at = 0 THEN changes + 1 ELSE @.occurred]]
  /\ UNCHANGED <<sourceLead, ledgerRecords, controlVars, cursor, syncJob, sync, ledgerFaults>>

-----------------------------------------------------------------------------
(* The connector and its jobs.                                             *)

TestConnection(ok) ==
  /\ turns < MaxTurns /\ turns' = turns + 1
  /\ connector' = [connector EXCEPT !.connected = ok]
  /\ UNCHANGED <<sourceVars, ledgerRecords, cutover, gate, cursor, syncJob, sync, ledgerFaults>>

(* Reading is enabled after a successful test only; a connector with a     *)
(* cutover is not disabled.                                                *)
UpdateConnector(on) ==
  /\ turns < MaxTurns /\ turns' = turns + 1
  /\ on => connector.connected
  /\ ~on => \A t \in EventTypes : cutover[t] = Never
  /\ connector' = [connector EXCEPT !.active = on, !.enabled = on]
  /\ UNCHANGED <<sourceVars, ledgerRecords, cutover, gate, cursor, syncJob, sync, ledgerFaults>>

(* enqueueSync: a job of these streams that waits or runs is the answer,   *)
(* whatever was asked; a failed one is replaced.                           *)
Enqueued(j, refresh) ==
  IF Live(syncJob[j].bull) THEN syncJob
  ELSE [syncJob EXCEPT ![j] = [bull |-> Add(NoJob), refresh |-> refresh]]

EnqueueDueConnectors ==
  /\ connector.active /\ connector.enabled
  /\ syncJob' = Enqueued("both", FALSE)
  /\ UNCHANGED <<sourceVars, ledgerRecords, controlVars, cursor, sync, ledgerFaults>>

EnqueueSync(j) ==
  /\ connector.active /\ turns < MaxTurns /\ turns' = turns + 1
  /\ syncJob' = Enqueued(j, FALSE)
  /\ UNCHANGED <<sourceVars, ledgerRecords, connector, cutover, gate, cursor, sync, ledgerFaults>>

EnqueueLeadsReimport ==
  /\ "leads" \in Syncs /\ connector.active /\ connector.last # "running" /\ turns < MaxTurns /\ turns' = turns + 1
  /\ syncJob' = Enqueued("leads", TRUE)
  /\ UNCHANGED <<sourceVars, ledgerRecords, connector, cutover, gate, cursor, sync, ledgerFaults>>

-----------------------------------------------------------------------------
(* The gate of a cutover: buildReconciliations, for one event type.  The   *)
(* workspace's Meta connection and destination are configured.             *)

Accepted == {"imported", "duplicate"}

OfType(t) == {r \in Ledger : TypeOf(r) = t}

(* activeConversionLinks: the conversions of the accepted records. *)
ActiveLinks(t) == {KeyOf(r) : r \in {s \in OfType(t) : eventRec[s].status \in Accepted /\ eventRec[s].log}}

(* ingestionGroups and historicalGroups: records by what became of them. *)
RecordsOf(t, statuses) == {r \in OfType(t) : eventRec[r].status \in statuses}

(* The row of an event type: rejections for want of a lead are set aside,  *)
(* and what the sync derived from a lead's milestones is history.          *)
GateRow(t) ==
  [accepted |-> Cardinality(RecordsOf(t, Accepted)),
   historical |-> Cardinality(RecordsOf(t, Accepted) \cap Milestones),
   blockingRejected |-> Cardinality(RecordsOf(t, {"rejected"})),
   pending |-> Cardinality(RecordsOf(t, {"pending_delivery"})),
   expected |-> Cardinality(ActiveLinks(t))]

PaidKeys == {KeyOf(r) : r \in {s \in Ledger \ Organic : eventRec[s].log}}

(* deliveryGroups: the logs of the active links, by status and source. *)
Deliveries(t) ==
  LET logs == {k \in ActiveLinks(t) : capiLog[k].status # "none"}
  IN [matched |-> Cardinality(logs),
      notEligible |-> Cardinality({k \in logs : capiLog[k].status = "not_eligible"}),
      blocked |-> Cardinality({k \in logs \cap PaidKeys : capiLog[k].status \notin
                                 {"ready_to_send", "imported", "not_eligible", "shadow_observed"}})]

(* baseReadyForCutover *)
BaseReady ==
  /\ connector.active /\ connector.enabled /\ connector.connected
  /\ connector.last = "completed" /\ cursor["events"] # NoCursor

ReadyForCutover(t) ==
  LET row == GateRow(t)
      sent == Deliveries(t)
  IN
  /\ cutover[t] = Never /\ BaseReady
  /\ row.accepted - row.historical - sent.notEligible > 0
  /\ row.blockingRejected = 0 /\ row.pending = 0
  /\ sent.matched >= row.expected /\ sent.blocked = 0

(* activateCapiCutover reads the gate before its transaction. *)
OpenGate(t) ==
  /\ gate = "none" /\ turns < MaxTurns /\ turns' = turns + 1
  /\ ReadyForCutover(t)
  /\ gate' = t
  /\ UNCHANGED <<sourceVars, ledgerRecords, connector, cutover, cursor, syncJob, sync, ledgerFaults>>

(* The logs of this kind that were not sent are left to the other system.  *)
LeftToOther(t) ==
  [k \in Ledger |-> IF TypeOf(k) = t /\ capiLog[k].status = "ready_to_send"
                      THEN [capiLog[k] EXCEPT !.status = "shadow_observed"] ELSE capiLog[k]]

(* The transaction asks for no more than that the type is not taken over;  *)
(* a failure to enqueue the sync is swallowed.                             *)
ActivateCapiCutover ==
  /\ gate # "none" /\ gate' = "none"
  /\ IF cutover[gate] # Never THEN UNCHANGED <<cutover, capiLog, syncJob>>
     ELSE /\ cutover' = [cutover EXCEPT ![gate] = changes]
          /\ capiLog' = LeftToOther(gate)
          /\ syncJob' \in {syncJob} \cup (IF "events" \in Syncs THEN {Enqueued("events", FALSE)} ELSE {})
  /\ UNCHANGED <<sourceVars, lead, leadRec, eventRec, toSend, orphans, connector, turns, cursor, sync, ledgerFaults>>

(* A sync that has read the cutovers goes on delivering. *)
RollbackCapiCutover(t) ==
  /\ cutover[t] # Never /\ turns < MaxTurns /\ turns' = turns + 1
  /\ cutover' = [cutover EXCEPT ![t] = Never]
  /\ capiLog' = LeftToOther(t)
  /\ UNCHANGED <<sourceVars, lead, leadRec, eventRec, toSend, orphans, connector, gate, cursor, syncJob, sync, ledgerFaults>>

-----------------------------------------------------------------------------
(* A sync.                                                                 *)

Step(j, q) == sync' = [sync EXCEPT ![j] = q]

TakeSync(j) ==
  /\ syncJob[j].bull.state = "waiting" /\ sync[j].pc = "idle"
  /\ syncJob' = [syncJob EXCEPT ![j].bull = Take(@)]
  /\ Step(j, [NoSync EXCEPT !.pc = "open", !.refresh = syncJob[j].refresh])
  /\ UNCHANGED <<sourceVars, ledgerRecords, controlVars, cursor, ledgerFaults>>

(* The connector and its cutovers are read once, for the whole sync. *)
OpenSync(j) ==
  /\ sync[j].pc = "open"
  /\ IF connector.active
       THEN /\ connector' = [connector EXCEPT !.last = "running"]
            /\ Step(j, [sync[j] EXCEPT !.pc = "begin", !.cut = cutover])
            /\ syncJob' = syncJob
       ELSE connector' = connector /\ Step(j, NoSync) /\ syncJob' = [syncJob EXCEPT ![j].bull = Fail(@)]
  /\ UNCHANGED <<sourceVars, ledgerRecords, cutover, gate, turns, cursor, ledgerFaults>>

(* A mistake: a refresh goes on from the stored cursor. *)
StartStored(j) == LET at == cursor[Streams(j)[sync[j].at]] IN IF at = NoCursor THEN 0 ELSE at

(* syncLeads and syncEvents begin with the stored cursor, a refresh of the *)
(* projection with none.                                                   *)
StartCursor(j) ==
  LET at == cursor[Streams(j)[sync[j].at]] IN IF sync[j].refresh \/ at = NoCursor THEN 0 ELSE at

BeginStream(j) ==
  LET q == sync[j] IN
  /\ q.pc = "begin"
  /\ Step(j, [q EXCEPT !.pc = IF Streams(j)[q.at] = "events" THEN "orphans" ELSE "page", !.cur = StartCursor(j),
                       !.steady = {c \in Contacts : q.refresh /\ sourceLead[c].at # 0}])
  /\ UNCHANGED <<sourceVars, ledgerRecords, controlVars, cursor, syncJob, ledgerFaults>>

(* readLeadsPage, readEventsPage: the rows after the cursor in the order   *)
(* of updated_at, at most a page of them.                                  *)
After(at, cur) == {x \in DOMAIN at : at[x] > cur}

Page(at, cur) == {x \in After(at, cur) : Cardinality({y \in After(at, cur) : at[y] < at[x]}) < PageSize}

LeadsAt == [c \in Contacts |-> sourceLead[c].at]
RowsAt == [r \in Rows |-> sourceRow[r].at]

(* The stream a sync is in, and when its rows changed. *)
OnLeads(j) == Streams(j)[sync[j].at] = "leads"
StreamAt(j) == IF OnLeads(j) THEN LeadsAt ELSE RowsAt

(* A row as it was read, with the status its lead had then. *)
PageRow(j, x) == [x |-> x, at |-> StreamAt(j)[x], as |-> IF OnLeads(j) THEN sourceLead[x].milestone ELSE "none"]

(* The last row of a page is the new cursor; a page that is not full is    *)
(* the last of its stream.                                                 *)
PageRead(j, page) ==
  LET q == sync[j] IN
  [q EXCEPT !.pc = "item", !.full = Cardinality(page) >= PageSize,
            !.last = IF page = {} THEN q.cur ELSE CHOOSE n \in {StreamAt(j)[x] : x \in page} : \A x \in page : StreamAt(j)[x] =< n,
            !.todo = {PageRow(j, x) : x \in page}, !.part = IF OnLeads(j) THEN "lead" ELSE "row"]

(* A mistake: the cursor moves with the reading of the page. *)
ReadPageMoving(j) ==
  LET page == Page(StreamAt(j), sync[j].cur) IN
  /\ sync[j].pc = "page"
  /\ Step(j, PageRead(j, page))
  /\ cursor' = IF page = {} THEN cursor ELSE [cursor EXCEPT ![Streams(j)[sync[j].at]] = PageRead(j, page).last]
  /\ UNCHANGED <<sourceVars, ledgerRecords, controlVars, syncJob, ledgerFaults>>

ReadPage(j) ==
  /\ sync[j].pc = "page"
  /\ Step(j, PageRead(j, Page(StreamAt(j), sync[j].cur)))
  /\ UNCHANGED <<sourceVars, ledgerRecords, controlVars, cursor, syncJob, ledgerFaults>>

(* The rows of a page are taken in the order of updated_at. *)
Item(q) == CHOOSE i \in q.todo : \A k \in q.todo : i.at =< k.at

(* The event that is ingested: the row, or a milestone of the lead. *)
EventOf(q) == IF q.part = "row" THEN Item(q).x ELSE <<Item(q).x, q.part>>

Working(j, parts) == sync[j].pc = "item" /\ sync[j].todo # {} /\ sync[j].part \in parts

(* The parts of a row: an event is one; ingestLead has the lead, its       *)
(* milestones (projectHistoricalMilestones) and its record.                *)
NextPart(q) ==
  CASE q.part = "lead" /\ Item(q).as \in {"qualified", "converted"} -> "qualified_lead"
    [] q.part = "qualified_lead" /\ Item(q).as = "converted" -> "purchase"
    [] OTHER -> "leadrec"

Ingested(q) == [q EXCEPT !.pc = "item", !.prior = NoRecord, !.created = FALSE, !.ready = FALSE]

(* The loop goes on with the next row of the page. *)
NextLedgerRow(q) == [Ingested(q) EXCEPT !.todo = @ \ {Item(q)}, !.part = IF @ = "row" THEN "row" ELSE "lead"]

(* After a part of a lead comes its next part, after an event the next row. *)
NextSyncItem(q) == IF q.part = "row" THEN NextLedgerRow(q) ELSE [Ingested(q) EXCEPT !.part = NextPart(q)]

(* upsertFromWhatsappWebhook, then the status of the row, whatever the lead's was. *)
UpsertLead(j) ==
  /\ Working(j, {"lead"})
  /\ lead' = [lead EXCEPT ![Item(sync[j]).x] = Item(sync[j]).as]
  /\ Step(j, NextSyncItem(sync[j]))
  /\ UNCHANGED <<sourceVars, leadRec, eventRec, capiLog, toSend, orphans, controlVars, cursor, syncJob, ledgerFaults>>

(* Every upsert of a record says it was received now. *)
Touched(c, s) == [k \in Syncs |-> IF s[k].refresh THEN [s[k] EXCEPT !.touched = @ \cup {c}] ELSE s[k]]

SaveLeadRecord(j) ==
  LET c == Item(sync[j]).x IN
  /\ Working(j, {"leadrec"})
  /\ leadRec' = [leadRec EXCEPT ![c] = IF lead[c] = "none" THEN "rejected" ELSE "imported"]
  /\ sync' = Touched(c, [sync EXCEPT ![j] = NextLedgerRow(sync[j])])
  /\ UNCHANGED <<sourceVars, lead, eventRec, capiLog, toSend, orphans, controlVars, cursor, syncJob, ledgerFaults>>

-----------------------------------------------------------------------------
(* The ingestion of an event row.                                          *)

OccurredAt(r) == IF r \in Rows THEN sourceRow[r].occurred ELSE sourceLead[ContactOf(r)].at

(* isLiveEvent: without a cutover the other system sends. *)
IsLiveEvent(q, r) == q.cut[TypeOf(r)] # Never /\ OccurredAt(r) > q.cut[TypeOf(r)]

(* recordRejected; a milestone that is rejected rejects the row of its lead. *)
RejectRow(j, r, code) ==
  /\ eventRec' = [eventRec EXCEPT ![r].status = code]
  /\ IF sync[j].part = "row"
       THEN leadRec' = leadRec /\ Step(j, NextLedgerRow(sync[j]))
       ELSE /\ leadRec' = [leadRec EXCEPT ![Item(sync[j]).x] = "rejected"]
            /\ sync' = Touched(Item(sync[j]).x, [sync EXCEPT ![j] = NextLedgerRow(sync[j])])

HasLead(r) == lead[ContactOf(r)] # "none"

(* ingest: a row recorded before is only delivered, unless it had no lead. *)
(* A conversation creates its lead.                                        *)
FindEvent(j) ==
  LET q == sync[j]
      r == EventOf(q)
      begins == TypeOf(r) = "conversation_started"
      fresh == eventRec[r].status \in {"none", "unmatched"}
  IN
  /\ Working(j, {"row", "qualified_lead", "purchase"})
  /\ \/ Filtered(r) /\ Step(j, NextSyncItem(q)) /\ UNCHANGED <<lead, eventRec, leadRec>>
     \/ /\ ~Filtered(r) /\ fresh /\ ~HasLead(r) /\ ~begins
        /\ RejectRow(j, r, "unmatched") /\ UNCHANGED lead
     \/ /\ ~Filtered(r) /\ fresh /\ (HasLead(r) \/ begins)
        /\ lead' = IF HasLead(r) THEN lead ELSE [lead EXCEPT ![ContactOf(r)] = "active"]
        /\ IF Identified(r) THEN Step(j, [q EXCEPT !.pc = "record", !.prior = eventRec[r]]) /\ UNCHANGED <<eventRec, leadRec>>
           ELSE RejectRow(j, r, "rejected")
     \/ /\ ~Filtered(r) /\ ~fresh
        /\ Step(j, [q EXCEPT !.pc = "retry", !.prior = eventRec[r]]) /\ UNCHANGED <<lead, eventRec, leadRec>>
  /\ UNCHANGED <<sourceVars, capiLog, toSend, orphans, controlVars, cursor, syncJob, ledgerFaults>>

(* The status a log is created with. *)
DeliveryStatus(q, r) ==
  CASE r \in Milestones -> "imported"
    [] r \in Organic \ Milestones -> "not_eligible"
    [] r \in Rows \ (Organic \cup Milestones) /\ q.cut[TypeOf(r)] # Never /\ ~IsLiveEvent(q, r) -> "shadow_observed"
    [] OTHER -> "ready_to_send"

(* recordExternalConversion: a log that history imported is promoted.  A   *)
(* lead deleted since it was found refuses the log.                        *)
RecordEvent(j) ==
  LET q == sync[j]
      r == EventOf(q)
      old == capiLog[KeyOf(r)]
      new == DeliveryStatus(q, r)
      promoted == old.status = "none" \/ (old.status = "imported" /\ new # "imported")
      status == IF promoted THEN new ELSE old.status
  IN
  /\ q.pc = "record"
  /\ IF ~HasLead(r) THEN RejectRow(j, r, "rejected") /\ UNCHANGED capiLog
     ELSE /\ capiLog' = [capiLog EXCEPT ![KeyOf(r)] = [status |-> status, linked |-> TRUE]]
          /\ Step(j, [q EXCEPT !.pc = "save", !.created = promoted, !.ready = status = "ready_to_send"])
          /\ UNCHANGED <<eventRec, leadRec>>
  /\ UNCHANGED <<sourceVars, lead, toSend, orphans, controlVars, cursor, syncJob, ledgerFaults>>

(* updateLeadStatus *)
StatusAfter(r) ==
  IF r \in Milestones THEN lead[ContactOf(r)]
  ELSE CASE TypeOf(r) = "purchase" -> "converted"
         [] TypeOf(r) = "qualified_lead" /\ lead[ContactOf(r)] # "converted" -> "qualified"
         [] OTHER -> lead[ContactOf(r)]

(* The record is created, or the one without a lead completed; another     *)
(* sync that created it first makes this one reject the row.               *)
SaveEvent(j) ==
  LET q == sync[j]
      r == EventOf(q)
  IN
  /\ q.pc = "save"
  /\ IF ~HasLead(r) \/ (q.prior.status = "none" /\ eventRec[r].status # "none")
       THEN RejectRow(j, r, "rejected") /\ UNCHANGED lead
       ELSE /\ eventRec' = [eventRec EXCEPT ![r] = [status |-> IF q.created THEN "imported" ELSE "duplicate", linked |-> TRUE, log |-> TRUE]]
            /\ lead' = [lead EXCEPT ![ContactOf(r)] = StatusAfter(r)]
            /\ Step(j, [q EXCEPT !.pc = "deliver"])
            /\ UNCHANGED leadRec
  /\ UNCHANGED <<sourceVars, capiLog, toSend, orphans, controlVars, cursor, syncJob, ledgerFaults>>

(* A live row is enqueued; when the queue fails the record waits for the   *)
(* next time the row is read.                                              *)
DeliverEvent(j) ==
  LET q == sync[j]
      r == EventOf(q)
      send == q.ready /\ IsLiveEvent(q, r)
  IN
  /\ q.pc = "deliver"
  /\ \/ /\ toSend' = IF send THEN toSend \cup {KeyOf(r)} ELSE toSend
        /\ UNCHANGED <<eventRec, ledgerFaults>>
     \/ /\ send /\ ledgerFaults < MaxLedgerFaults /\ ledgerFaults' = ledgerFaults + 1
        /\ eventRec' = [eventRec EXCEPT ![r].status = "pending_delivery"]
        /\ UNCHANGED toSend
  /\ Step(j, NextSyncItem(q))
  /\ UNCHANGED <<sourceVars, lead, leadRec, capiLog, orphans, controlVars, cursor, syncJob>>

(* retryPendingDelivery; a failure of the queue is thrown (SyncThrows). *)
RetryEvent(j) ==
  LET q == sync[j]
      r == EventOf(q)
      send == /\ q.prior.log /\ IsLiveEvent(q, r)
              /\ q.prior.status = "pending_delivery" \/ capiLog[KeyOf(r)].status = "ready_to_send"
  IN
  /\ q.pc = "retry"
  /\ toSend' = IF send THEN toSend \cup {KeyOf(r)} ELSE toSend
  /\ eventRec' = IF send THEN [eventRec EXCEPT ![r].status = "imported"] ELSE eventRec
  /\ Step(j, NextSyncItem(q))
  /\ UNCHANGED <<sourceVars, lead, leadRec, capiLog, orphans, controlVars, cursor, syncJob, ledgerFaults>>

-----------------------------------------------------------------------------
(* The end of a page, of a stream and of a sync.                           *)

NextStream(j, q) == IF q.at = Len(Streams(j)) THEN [q EXCEPT !.pc = "complete"] ELSE [q EXCEPT !.pc = "begin", !.at = @ + 1]

(* The cursor moves after the page, to its last row, whatever became of    *)
(* the rows; it is written without a look at where it stands.  An empty    *)
(* page only touches it.                                                   *)
AdvanceCursor(j) ==
  LET q == sync[j] IN
  /\ q.pc = "item" /\ q.todo = {}
  /\ cursor' = IF q.refresh THEN cursor
               ELSE [cursor EXCEPT ![Streams(j)[q.at]] = IF q.last = q.cur /\ @ # NoCursor THEN @ ELSE q.last]
  /\ Step(j, CASE q.full -> [q EXCEPT !.pc = "page", !.cur = q.last, !.last = 0, !.full = FALSE]
               [] ~q.full /\ q.refresh -> [q EXCEPT !.pc = "stale", !.cur = 0, !.last = 0]
               [] OTHER -> NextStream(j, [q EXCEPT !.cur = 0, !.last = 0]))
  /\ UNCHANGED <<sourceVars, ledgerRecords, controlVars, syncJob, ledgerFaults>>

(* reconcileLeadSnapshot: the records not received since the refresh began. *)
FindStale(j) ==
  LET q == sync[j] IN
  /\ q.pc = "stale"
  /\ Step(j, [q EXCEPT !.pc = "delete", !.stale = {c \in Contacts : leadRec[c] \in {"imported", "rejected"}} \ q.touched])
  /\ UNCHANGED <<sourceVars, ledgerRecords, controlVars, cursor, syncJob, ledgerFaults>>

(* The lead of a stale record: its logs are skipped, its event records     *)
(* removed, and it is deleted; leads of other channels stay.               *)
DeleteLead(j, c) ==
  LET q == sync[j]
      logs == {KeyOf(r) : r \in {s \in Ledger : ContactOf(s) = c}}
  IN
  /\ q.pc = "delete" /\ c \in q.stale
  /\ IF lead[c] # "none" /\ c \notin Native
       THEN /\ capiLog' = [k \in Ledger |-> IF k \in logs /\ capiLog[k].linked THEN [status |-> "skipped", linked |-> FALSE] ELSE capiLog[k]]
            /\ eventRec' = [r \in Ledger |-> IF ContactOf(r) = c /\ eventRec[r].linked /\ r \notin orphans
                                               THEN [eventRec[r] EXCEPT !.status = "removed", !.linked = FALSE] ELSE eventRec[r]]
            /\ lead' = [lead EXCEPT ![c] = "none"]
       ELSE UNCHANGED <<capiLog, eventRec, lead>>
  /\ leadRec' = [leadRec EXCEPT ![c] = "removed"]
  /\ Step(j, [q EXCEPT !.stale = @ \ {c}])
  /\ UNCHANGED <<sourceVars, toSend, orphans, controlVars, cursor, syncJob, ledgerFaults>>

FinishRefresh(j) ==
  /\ sync[j].pc = "delete" /\ sync[j].stale = {}
  /\ Step(j, NextStream(j, sync[j]))
  /\ UNCHANGED <<sourceVars, ledgerRecords, controlVars, cursor, syncJob, ledgerFaults>>

(* reconcileLegacyOrphanPromotions: the record goes to the imported lead,  *)
(* or waits for one.                                                       *)
ReconcileOrphan(j, r) ==
  LET found == leadRec[ContactOf(r)] = "imported" /\ HasLead(r) IN
  /\ sync[j].pc = "orphans" /\ r \in orphans
  /\ orphans' = orphans \ {r}
  /\ IF found THEN lead' = [lead EXCEPT ![ContactOf(r)] = StatusAfter(r)] /\ UNCHANGED <<eventRec, capiLog>>
     ELSE /\ eventRec' = [eventRec EXCEPT ![r].status = "unmatched", ![r].linked = FALSE]
          /\ capiLog' = [capiLog EXCEPT ![KeyOf(r)] = [status |-> "skipped", linked |-> FALSE]]
          /\ UNCHANGED lead
  /\ UNCHANGED <<sourceVars, leadRec, toSend, controlVars, cursor, syncJob, sync, ledgerFaults>>

StartEvents(j) ==
  /\ sync[j].pc = "orphans" /\ orphans = {}
  /\ Step(j, [sync[j] EXCEPT !.pc = "page"])
  /\ UNCHANGED <<sourceVars, ledgerRecords, controlVars, cursor, syncJob, ledgerFaults>>

CompleteSync(j) ==
  /\ sync[j].pc = "complete"
  /\ connector' = [connector EXCEPT !.last = "completed"]
  /\ syncJob' = [syncJob EXCEPT ![j] = [bull |-> NoJob, refresh |-> FALSE]]
  /\ Step(j, NoSync)
  /\ UNCHANGED <<sourceVars, ledgerRecords, cutover, gate, turns, cursor, ledgerFaults>>

(* The source or the database fails: the sync is failed and its job retried. *)
SyncThrows(j) ==
  /\ sync[j].pc \notin {"idle", "open", "complete"}
  /\ ledgerFaults < MaxLedgerFaults /\ ledgerFaults' = ledgerFaults + 1
  /\ connector' = [connector EXCEPT !.last = "failed"]
  /\ syncJob' = [syncJob EXCEPT ![j].bull = Fail(@)]
  /\ Step(j, NoSync)
  /\ UNCHANGED <<sourceVars, ledgerRecords, cutover, gate, turns, cursor>>

SyncWorkerDies(j) ==
  /\ sync[j].pc # "idle"
  /\ ledgerFaults < MaxLedgerFaults /\ ledgerFaults' = ledgerFaults + 1
  /\ Step(j, NoSync)
  /\ UNCHANGED <<sourceVars, ledgerRecords, controlVars, cursor, syncJob>>

SyncStalled(j) ==
  /\ syncJob[j].bull.state = "active" /\ sync[j].pc = "idle"
  /\ syncJob' = [syncJob EXCEPT ![j].bull = Stall(@)]
  /\ UNCHANGED <<sourceVars, ledgerRecords, controlVars, cursor, sync, ledgerFaults>>

SyncBackoff(j) ==
  /\ syncJob[j].bull.state = "delayed"
  /\ syncJob' = [syncJob EXCEPT ![j].bull = Promote(@)]
  /\ UNCHANGED <<sourceVars, ledgerRecords, controlVars, cursor, sync, ledgerFaults>>

-----------------------------------------------------------------------------
SourceNext ==
  \/ \E c \in Contacts : DropLead(c) \/ \E m \in {"active", "qualified", "converted"} : WriteLead(c, m)
  \/ \E r \in Rows : WriteRow(r)

ConnectorNext ==
  \/ \E on \in BOOLEAN : TestConnection(on) \/ UpdateConnector(on)
  \/ EnqueueLeadsReimport
  \/ \E j \in Syncs : EnqueueSync(j)
  \/ ActivateCapiCutover
  \/ \E t \in EventTypes : OpenGate(t) \/ RollbackCapiCutover(t)

SyncStep(j) ==
  \/ TakeSync(j) \/ OpenSync(j) \/ BeginStream(j) \/ ReadPage(j)
  \/ UpsertLead(j) \/ SaveLeadRecord(j)
  \/ FindEvent(j) \/ RecordEvent(j) \/ SaveEvent(j) \/ DeliverEvent(j) \/ RetryEvent(j)
  \/ AdvanceCursor(j) \/ FindStale(j) \/ FinishRefresh(j) \/ StartEvents(j) \/ CompleteSync(j)
  \/ \E c \in Contacts : DeleteLead(j, c)
  \/ \E r \in Rows : ReconcileOrphan(j, r)
  \/ SyncStalled(j) \/ SyncBackoff(j)

LedgerNext ==
  \/ SourceNext \/ ConnectorNext \/ EnqueueDueConnectors
  \/ \E j \in Syncs : SyncStep(j) \/ SyncThrows(j) \/ SyncWorkerDies(j)

LedgerSpec == LedgerInit /\ [][LedgerNext]_ledgerVars

(* The timer of the automatic sync keeps firing, workers keep taking jobs  *)
(* and their steps end, a stalled job is found and a delay elapses.        *)
LedgerFairness == WF_ledgerVars(EnqueueDueConnectors) /\ \A j \in Syncs : WF_ledgerVars(SyncStep(j))

-----------------------------------------------------------------------------
(* The cursors never pass a row nobody recorded: pages are recorded whole  *)
(* before advanceCursor, and overlapping syncs, failures and restarts only *)
(* move a cursor to where some sync has been (external-sync.service.ts).   *)
CursorBehindRecords ==
  /\ \A r \in Rows : sourceRow[r].at \in 1..cursor["events"] /\ ~Filtered(r) => eventRec[r].status # "none"
  /\ \A c \in Contacts : sourceLead[c].at \in 1..cursor["leads"] => leadRec[c] # "none"

(* A refresh of the projection deletes a lead only if it was missing from  *)
(* the source at some time since the refresh began                         *)
(* (reconcileLeadSnapshot): rows that move while the refresh pages through *)
(* the source are still read.                                              *)
KeptWhileAtSource ==
  \A c \in Contacts : lead[c] # "none" /\ lead'[c] = "none"
     => \E j \in Syncs : sync[j].pc = "delete" /\ c \notin sync[j].steady

(* Both, and the types, when syncs, refreshes and imports overlap          *)
(* (ExternalSyncService, reconcileLeadSnapshot).                           *)
LedgerSafe == [][LedgerTypeOK' /\ KeptWhileAtSource /\ CursorBehindRecords']_ledgerVars

(* While the connector stays active and enabled, every event row of the    *)
(* source is recorded in the end, whatever fails on the way                *)
(* (ExternalAutoSyncService, enqueueSync).                                 *)
RowsRecorded ==
  \A r \in Rows : sourceRow[r].at # 0 /\ ~Filtered(r) ~> eventRec[r].status # "none" \/ ~connector.active
=============================================================================
