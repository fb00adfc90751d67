--------------------------- MODULE ReportQueries ---------------------------
(* What the report and audit pages of a workspace show: the requests of    *)
(* reporting.controller.ts, the reads of meta-reporting.service.ts and the *)
(* arithmetic of reporting-metrics.engine.ts.  A request makes several     *)
(* reads, none of them in a transaction with another, while messages,      *)
(* sends, corrections and Meta syncs go on changing what they read.        *)
EXTENDS Integers, FiniteSets, FiniteSetsExt, TLC

CONSTANTS
  ReportAccounts, Campaigns, AdSets, Ads,
  AccountOf,       \* the ad account of every campaign
  CampaignOf,      \* the campaign of every ad set
  AdSetOf,         \* the ad set of every ad
  Facts,           \* the ids of the leads and events that may be stored
  Fact,            \* the columns of each
  StatusMoves,     \* the statuses an event takes here
  Period,          \* the days of the report, the facts may be older
  Snapshot,        \* what Meta counted for an entity at the last sync
  PerDay,          \* what one of its daily rows counts
  FunnelVisible,   \* the stages a workspace chose to see
  ReportAsks,      \* the requests
  MaxPages,        \* bound on the pages asked for
  MaxTouches,      \* bound on the changes made around the requests
  NoOne, NoEntity, Unset

VARIABLES
  stored,     \* facts in the database
  status,     \* the status of every event
  corrected,  \* purchases with a value adjustment
  reported,   \* accounts that are reported
  class,      \* the WhatsApp classification of every entity
  daily,      \* <<entity, day>> of the daily insights stored
  touches,
  reader      \* the request: its step, the accounts it may show, its reads

world == <<stored, status, corrected, reported, class, daily>>

queryVars == <<world, touches, reader>>

Entities == Campaigns \cup AdSets \cup Ads

DeliveryStatuses ==
  {"pending_meta_context", "pending_value", "ready_to_send", "queued", "sent", "error",
   "imported", "not_eligible", "shadow_observed", "not_configured", "skipped"}

(* An entity's campaign: children carry the ids of their ancestors. *)
CampaignAbove(e) ==
  IF e \in Campaigns THEN e ELSE IF e \in AdSets THEN CampaignOf[e] ELSE CampaignOf[AdSetOf[e]]

LevelSet(level) ==
  CASE level = "campaigns" -> Campaigns [] level = "adsets" -> AdSets [] level = "ads" -> Ads

(* The column of a fact that a level's ids are compared with. *)
ScopeId(f, level) ==
  CASE level = "campaigns" -> Fact[f].campaign
    [] level = "adsets" -> Fact[f].adSet
    [] level = "ads" -> Fact[f].ad

ASSUME ReportConstants ==
  /\ AccountOf \in [Campaigns -> ReportAccounts]
  /\ CampaignOf \in [AdSets -> Campaigns]
  /\ AdSetOf \in [Ads -> AdSets]
  /\ Snapshot \in [Entities -> Nat] /\ PerDay \in [Entities -> Nat]
  /\ MaxTouches \in Nat
  /\ StatusMoves \subseteq DeliveryStatuses
  /\ Facts \subseteq Nat /\ DOMAIN Fact = Facts
  /\ \A f \in Facts : Fact[f].kind = "lead" => Fact[f].source = "unknown"

---------------------------------------------------------------------------
(* The arithmetic of a table.                                              *)

(* A row of a read is an id and its value; the other columns never change. *)
HasAttribution(f) == NoEntity # Fact[f].campaign \/ NoEntity # Fact[f].adSet
                     \/ NoEntity # Fact[f].ad \/ Fact[f].click

(* isOrganic: the source said, otherwise the lack of any attribution.  A   *)
(* lead is read without its source.                                        *)
IsOrganic(f) ==
  Fact[f].source = "organic" \/ (Fact[f].source = "unknown" /\ ~HasAttribution(f))

Talks(f) == Fact[f].kind = "lead" \/ Fact[f].name = "LeadSubmitted"

(* isPaidRealConversation and isPaidLeadEvent. *)
PaidConversation(f) == Talks(f) /\ ~IsOrganic(f) /\ (Fact[f].kind = "lead" => HasAttribution(f))

(* identityKey: the person, or the row itself when nobody is known.        *)
Identity(f) == IF Fact[f].person # NoOne THEN <<"person", Fact[f].person>> ELSE <<"row", f>>

Purchases(S) == {f \in S : Fact[f].kind = "event" /\ Fact[f].name = "Purchase"}

Earlier(f, g) == Fact[f].day < Fact[g].day \/ (Fact[f].day = Fact[g].day /\ f < g)

(* classifyPurchases: in order of time, a kind that was recorded is kept,  *)
(* otherwise the first purchase of a person in this table is the first.    *)
KindOf(S, f) ==
  IF Fact[f].purchase # Unset THEN Fact[f].purchase
  ELSE IF Fact[f].person # NoOne
          /\ \E g \in Purchases(S) : Fact[g].person = Fact[f].person /\ Earlier(g, f)
       THEN "repurchase" ELSE "first_purchase"

Ids(rows) == {r.id : r \in rows}

(* calculate: the numbers of a row, of the totals or of the summary, over  *)
(* the events and leads read and Meta's count.                             *)
Calculate(rows, meta) ==
  LET S == Ids(rows)
      cents(r) == r.cents
      worth(T) == MapThenSumSet(cents, {r \in rows : r.id \in T})
      bought == Purchases(S)
      first == {f \in bought : KindOf(S, f) = "first_purchase"}
      organic == {f \in bought : IsOrganic(f)}
  IN [meta |-> meta,
      real |-> Cardinality({Identity(f) : f \in {g \in S : PaidConversation(g)}}),
      organicLeads |-> Cardinality({Identity(f) : f \in {g \in S : Talks(g) /\ IsOrganic(g)}}),
      qualified |-> Cardinality({f \in S : Fact[f].name = "QualifiedLead"}),
      purchases |-> Cardinality(bought),
      first |-> Cardinality(first),
      again |-> Cardinality(bought \ first),
      trafficCents |-> worth(bought \ organic),
      organicCents |-> worth(organic),
      firstCents |-> worth(first),
      againCents |-> worth(bought \ first)]

(* funnelSteps: the visible stages, and under purchases the kinds that     *)
(* there are.  A stage without a number of its own counts its events.      *)
FunnelStep(rows, numbers, stage) ==
  CASE stage = "LeadSubmitted" -> numbers.real
    [] stage = "QualifiedLead" -> numbers.qualified
    [] stage = "Purchase" -> numbers.purchases
    [] stage = "first_purchase" -> numbers.first
    [] stage = "repurchase" -> numbers.again
    [] OTHER -> Cardinality({f \in Ids(rows) : Fact[f].name = stage})

FunnelStages(numbers) ==
  FunnelVisible
  \cup {kind \in {"first_purchase", "repurchase"} :
        /\ "Purchase" \in FunnelVisible
        /\ CASE kind = "first_purchase" -> numbers.first > 0 \/ numbers.firstCents > 0
             [] kind = "repurchase" -> numbers.again > 0 \/ numbers.againCents > 0}

(* dailyRealConversationCounts: an identity counts on its first day.       *)
FirstDay(S, identity) == Min({Fact[f].day : f \in {g \in S : Identity(g) = identity}})

(* A mistake: an identity counts on every day it is heard of. *)
DailyRealEach(rows, day) ==
  LET talks == {f \in Ids(rows) : PaidConversation(f)}
  IN Cardinality({Identity(f) : f \in {g \in talks : Fact[g].day = day}})

DailyReal(rows, day) ==
  LET talks == {f \in Ids(rows) : PaidConversation(f)}
      people == {Identity(f) : f \in talks}
  IN Cardinality({p \in people : FirstDay(talks, p) = day})

---------------------------------------------------------------------------
(* The reads of a request.                                                 *)

(* metaSnapshotWhere: entities of the accounts in scope, of the asked      *)
(* classification; the parents of an ad set's or an ad's row are read      *)
(* whatever their classification.                                          *)
InSnapshot(e, query, accounts) ==
  /\ AccountOf[CampaignAbove(e)] \in accounts
  /\ query.campaign \in {Unset, CampaignAbove(e)}
  /\ \/ query.class \in {"all", class[e]}
     \/ e \in Campaigns /\ query.level # "campaigns"

ChildrenNeeded(query) == query.class = "whatsapp" \/ (query.named # Unset /\ query.scope # "campaigns")

Delivered(query) == IF query.delivered THEN {"delivered"} ELSE {}

FirstReads(query) ==
  CASE query.level = "audit" -> {"page", "counts"}
    [] query.level = "campaigns" -> {"campaigns"} \cup Delivered(query)
                                  \cup (IF ChildrenNeeded(query) THEN {"adsets", "ads"} ELSE {})
    [] query.level = "adsets" -> {"campaigns", "adsets"} \cup Delivered(query)
                               \cup (IF query.named # Unset /\ query.scope = "ads" THEN {"ads"} ELSE {})
    [] query.level = "ads" -> {"campaigns", "adsets", "ads"} \cup Delivered(query)

LaterReads(query) ==
  IF query.level = "audit" THEN {}
  ELSE {"events", "leads"}
       \cup (IF query.level # "campaigns" \/ query.full THEN {"daily"} ELSE {})
       \cup (IF query.level = "campaigns" /\ query.full THEN {"allEvents", "allLeads"} ELSE {})

(* An entity's line: itself, its ancestors and what hangs below it.        *)
OnOneLine(e, g) ==
  /\ CampaignAbove(e) = CampaignAbove(g)
  /\ e \in AdSets /\ g \in AdSets => e = g
  /\ e \in AdSets /\ g \in Ads => AdSetOf[g] = e
  /\ e \in Ads /\ g \in AdSets => AdSetOf[e] = g
  /\ e \in Ads /\ g \in Ads => e = g

(* filterCampaignRecords, filterAdSetRecords, filterAdRecords: ask.kept    *)
(* stands for the status and selection filters; a name is looked for in    *)
(* the entities of its own level that were read.                           *)
RowsAsked(query, got) ==
  {e \in got[query.level] \cap query.kept :
    /\ query.delivered => e \in got.delivered
    /\ query.named # Unset => \E g \in got[query.scope] : g \in query.named /\ OnOneLine(e, g)}

(* summaryMetricScope: the whole workspace, unless an account is asked.    *)
SummaryScope(query, ids) == IF query.account = Unset THEN Unset ELSE ids

InReport(f, level, ids) ==
  Fact[f].day \in Period /\ (ids = Unset \/ ScopeId(f, level) \in ids)

(* getMetricConversionEvents: with the latest adjustment of a purchase,    *)
(* without the events that were skipped.                                   *)
MetricEvents(level, ids) ==
  {[id |-> f, cents |-> IF f \in corrected THEN Fact[f].corrected ELSE Fact[f].cents] :
   f \in {g \in stored : Fact[g].kind = "event" /\ status[g] # "skipped" /\ InReport(g, level, ids)}}

(* getLeads: by the first message, or by the row when it has none.         *)
Leads(level, ids) ==
  {[id |-> f, cents |-> 0] : f \in {g \in stored : Fact[g].kind = "lead" /\ InReport(g, level, ids)}}

---------------------------------------------------------------------------
(* The audit of conversion events.                                         *)

AuditStatuses(state) ==
  CASE state = "sent" -> {"sent"}
    [] state = "queued" -> {"ready_to_send", "queued"}
    [] state = "blocked" -> {"pending_meta_context", "pending_value", "not_configured"}
    [] state = "failed" -> {"error"}
    [] state = "not_eligible" -> {"not_eligible"}
    [] state = "shadow" -> {"shadow_observed"}
    [] state = "historical" -> {"imported"}
    [] state = "discarded" -> {"skipped"}

AuditStates == {"sent", "queued", "blocked", "failed", "not_eligible", "shadow", "historical",
                "discarded"}

(* conversionAuditDeliveryState: the state a status is shown under.        *)
DeliveryState(s) == CHOOSE state \in AuditStates : s \in AuditStatuses(state)

AuditSource(trigger) ==
  CASE trigger = "external_mysql" -> "external_integration"
    [] trigger \in {"keyword", "whatsapp_label"} -> "whatsapp_automation"
    [] trigger = "auto_lead" -> "system"
    [] trigger = "manual_test" -> "manual_test"
    [] OTHER -> "other"

AuditSourceWhere(source, trigger) ==
  CASE source = Unset -> TRUE
    [] source = "external_integration" -> trigger = "external_mysql"
    [] source = "whatsapp_automation" -> trigger \in {"keyword", "whatsapp_label", "inbound_webhook"}
    [] source = "system" -> trigger = "auto_lead"
    [] source = "manual_test" -> trigger = "manual_test"
    [] source = "other" -> trigger \notin {"external_mysql", "keyword", "whatsapp_label",
                                           "auto_lead", "manual_test"}

AuditSources == {"external_integration", "whatsapp_automation", "system", "manual_test", "other"}

(* The events an audit is about.  One created by itself for a conversation *)
(* without a click is left out.                                            *)
Audited(query) ==
  {f \in stored :
    /\ Fact[f].kind = "event" /\ Fact[f].day \in Period
    /\ query.state # Unset => status[f] \in AuditStatuses(query.state)
    /\ AuditSourceWhere(query.source, Fact[f].trigger)
    /\ ~(Fact[f].trigger = "auto_lead" /\ ~Fact[f].click)}

(* The newest events of a page, as the audit shows them.                   *)
AuditPage(query) ==
  LET newer(f) == Cardinality({g \in Audited(query) : Earlier(f, g)})
  IN {[id |-> f, source |-> AuditSource(Fact[f].trigger), state |-> DeliveryState(status[f])] :
      f \in {g \in Audited(query) :
              (query.page - 1) * query.size =< newer(g) /\ newer(g) < query.page * query.size}}

AuditCounts(query) == [s \in DeliveryStatuses |-> Cardinality({f \in Audited(query) : status[f] = s})]

StateCount(counts, state) ==
  LET count(s) == counts[s] IN MapThenSumSet(count, AuditStatuses(state))
---------------------------------------------------------------------------
(* The tables of a report, from what its request read.                     *)

Whole(got, e) == \A d \in Period : <<e, d>> \in got.daily

(* dailyComparisonAvailable and completeDailyEntityMetrics: the daily rows *)
(* are used when no shown entity misses a day.                             *)
DailyComplete(query, got) ==
  /\ query.level # "campaigns" \/ query.full
  /\ RowsAsked(query, got) # {}
  /\ \A e \in RowsAsked(query, got) : Whole(got, e)

DailySum(got, e) == Cardinality({d \in Period : <<e, d>> \in got.daily}) * PerDay[e]

(* campaignMetricOverrides: a campaign shown for its WhatsApp ad sets, or  *)
(* when none of them is one, for its WhatsApp ads.                         *)
ChildScope(query, got, c) ==
  IF query.level # "campaigns" \/ query.class # "whatsapp" \/ DailyComplete(query, got) THEN {}
  ELSE LET sets == {s \in got.adsets : CampaignOf[s] = c}
       IN IF sets # {} THEN sets ELSE {a \in got.ads : CampaignAbove(a) = c}

MetaCount(query, got, e) ==
  LET snapshot(g) == Snapshot[g]
  IN IF DailyComplete(query, got) THEN DailySum(got, e)
     ELSE IF ChildScope(query, got, e) # {} THEN MapThenSumSet(snapshot, ChildScope(query, got, e))
     ELSE Snapshot[e]

TotalMeta(query, got) ==
  LET count(e) == MetaCount(query, got, e) IN MapThenSumSet(count, RowsAsked(query, got))

(* toReportRow, toAdSetReportRow, toAdReportRow.                           *)
Row(query, got, e) ==
  LET children == ChildScope(query, got, e)
  IN Calculate({f \in got.events \cup got.leads :
                  /\ ScopeId(f.id, query.level) = e
                  /\ children = {} \/ Fact[f.id].adSet \in children \/ Fact[f.id].ad \in children},
               MetaCount(query, got, e))

Totals(query, got) == Calculate(got.events \cup got.leads, TotalMeta(query, got))

Summary(query, got) == Calculate(got.allEvents \cup got.allLeads, TotalMeta(query, got))

(* dailyComparison: one point for every day of the period.                 *)
DailyPoint(got, day) ==
  LET count(e) == IF <<e, day>> \in got.daily THEN PerDay[e] ELSE 0
  IN [meta |-> MapThenSumSet(count, Entities),
      real |-> DailyReal(got.allEvents \cup got.allLeads, day)]

---------------------------------------------------------------------------
(* The steps of a request.                                                 *)

NoReads == [r \in {"campaigns", "adsets", "ads", "delivered", "events", "leads", "allEvents",
                   "allLeads", "daily", "page"} |-> {}] @@ [counts |-> [s \in DeliveryStatuses |-> 0]]

Closed == [pc |-> "closed", todo |-> {}]

(* parsePositiveInteger, and the parsers of the filters: a parameter that  *)
(* is not given leaves its default, another value refuses the request.     *)
Positive(value, limit) == value = Unset \/ value \in 1..limit

OneOf(value, choices) == value = Unset \/ value \in choices

(* parseReportPeriod: both days or none, in order; the default is a week.  *)
PeriodGiven(raw) ==
  \/ raw.since = Unset /\ raw.until = Unset
  \/ raw.since # Unset /\ raw.until # Unset /\ raw.since =< raw.until

Understood(raw) ==
  /\ PeriodGiven(raw)
  /\ Positive(raw.page, MaxPages) /\ Positive(raw.size, 100)
  /\ IF raw.level = "audit"
       THEN /\ OneOf(raw.state, AuditStates)
            /\ OneOf(raw.source, AuditSources)
       ELSE /\ OneOf(raw.class, {"whatsapp", "needs_review", "excluded", "all"})
            /\ OneOf(raw.scope, {"campaigns", "adsets", "ads"})

Given(value, default) == IF value = Unset THEN default ELSE value

(* parseReportFilters and parseReportPagination: a report is whole unless  *)
(* a page of it is asked for, an audit is always paged.                    *)
Parsed(raw) ==
  IF raw.level = "audit" THEN [raw EXCEPT !.page = Given(@, 1), !.size = Given(@, 25)]
  ELSE [raw EXCEPT !.class = Given(@, "whatsapp"),
                   !.scope = Given(@, "campaigns"),
                   !.page = IF raw.page = Unset /\ raw.size = Unset THEN 0 ELSE Given(@, 1),
                   !.size = Given(@, 10)]

(* The controller has checked the session and the permission.  One request *)
(* is followed, another begins as it did.                                  *)
OpenReport(raw) ==
  /\ reader.pc = "closed" /\ Understood(raw)
  /\ LET query == Parsed(raw) IN
       reader' = [pc |-> IF query.level = "audit" THEN "first" ELSE "where", ask |-> query,
                  accounts |-> {}, todo |-> FirstReads(query), got |-> NoReads, shown |-> {},
                  moved |-> FALSE]
  /\ UNCHANGED <<world, touches>>

RefuseReport(raw) ==
  /\ reader.pc = "closed" /\ ~Understood(raw)
  /\ reader' = [Closed EXCEPT !.pc = "refused"]
  /\ UNCHANGED <<world, touches>>

(* metaHierarchyWhere: the accounts that are reported, before all else.    *)
ReadAccounts ==
  /\ reader.pc = "where"
  /\ reader' = [reader EXCEPT !.pc = "first",
                              !.accounts = {a \in reported : reader.ask.account \in {Unset, a}}]
  /\ UNCHANGED <<world, touches>>

Answered(r, query, ids) ==
  CASE r \in {"campaigns", "adsets", "ads"} ->
         {e \in LevelSet(r) : InSnapshot(e, query, reader.accounts)}
    [] r = "delivered" -> {e \in LevelSet(query.level) : \E d \in Period : <<e, d>> \in daily}
    [] r = "events" -> MetricEvents(query.level, ids)
    [] r = "leads" -> Leads(query.level, ids)
    [] r = "allEvents" -> MetricEvents(query.level, SummaryScope(query, ids))
    [] r = "allLeads" -> Leads(query.level, SummaryScope(query, ids))
    [] r = "daily" -> {d \in daily : d[1] \in ids /\ d[2] \in Period}
    [] r = "page" -> AuditPage(query)
    [] r = "counts" -> AuditCounts(query)

(* One of the reads that run together; the last lets the request go on.    *)
Read(r) ==
  /\ reader.pc \in {"first", "later"} /\ r \in reader.todo
  /\ reader' = [reader EXCEPT !.todo = @ \ {r},
                              !.got[r] = Answered(r, reader.ask, RowsAsked(reader.ask, reader.got))]
  /\ UNCHANGED <<world, touches>>

ReadMore ==
  /\ reader.pc = "first" /\ reader.todo = {} /\ reader.ask.level # "audit"
  /\ reader' = [reader EXCEPT !.pc = "later", !.todo = LaterReads(reader.ask)]
  /\ UNCHANGED <<world, touches>>

(* paginateRecords: rows are in the order of their names, which the model  *)
(* leaves open.                                                            *)
PageLength(query, n) ==
  IF query.page = 0 THEN n ELSE Max({0, Min({query.size, n - (query.page - 1) * query.size})})

AnswerReport ==
  /\ reader.pc \in {"first", "later"} /\ reader.todo = {}
  /\ (reader.pc = "first") = (reader.ask.level = "audit")
  /\ \E rows \in SUBSET (IF reader.ask.level = "audit" THEN {} ELSE RowsAsked(reader.ask, reader.got)) :
       /\ reader.ask.level # "audit" =>
            Cardinality(rows) = PageLength(reader.ask, Cardinality(RowsAsked(reader.ask, reader.got)))
       /\ reader' = [reader EXCEPT !.pc = "answered", !.shown = rows]
  /\ UNCHANGED <<world, touches>>

---------------------------------------------------------------------------
(* What changes meanwhile: the rest of the program, seen from its tables.  *)

Touch ==
  /\ touches < MaxTouches
  /\ touches' = touches + 1
  /\ reader' = IF reader.pc \in {"closed", "refused", "answered"} THEN reader ELSE [reader EXCEPT !.moved = TRUE]

StoreFact(f) ==
  /\ Touch /\ f \notin stored
  /\ stored' = stored \cup {f}
  /\ UNCHANGED <<status, corrected, reported, class, daily>>

MoveEvent(f, s) ==
  /\ Touch /\ f \in stored /\ f \in DOMAIN status /\ status[f] # s
  /\ status' = [status EXCEPT ![f] = s]
  /\ UNCHANGED <<stored, corrected, reported, class, daily>>

AdjustPurchase(f) ==
  /\ Touch /\ f \in Purchases(stored) \ corrected
  /\ corrected' = corrected \cup {f}
  /\ UNCHANGED <<stored, status, reported, class, daily>>

SwitchAccount(a) ==
  /\ Touch
  /\ reported' = IF a \in reported THEN reported \ {a} ELSE reported \cup {a}
  /\ UNCHANGED <<stored, status, corrected, class, daily>>

Reclassify(e, c) ==
  /\ Touch /\ class[e] # c
  /\ class' = [class EXCEPT ![e] = c]
  /\ UNCHANGED <<stored, status, corrected, reported, daily>>

SyncDay(e, d) ==
  /\ Touch
  /\ daily' = IF <<e, d>> \in daily THEN daily \ {<<e, d>>} ELSE daily \cup {<<e, d>>}
  /\ UNCHANGED <<stored, status, corrected, reported, class>>

QueryInit ==
  /\ stored \in SUBSET Facts
  /\ status = [f \in {g \in Facts : Fact[g].kind = "event"} |-> Fact[f].first]
  /\ corrected = {} /\ reported = ReportAccounts
  /\ class \in [Entities -> {"whatsapp", "needs_review"}]
  /\ daily \in {{}, Entities \X Period}
  /\ touches = 0 /\ reader = Closed

QueryNext ==
  \/ \E raw \in ReportAsks : OpenReport(raw) \/ RefuseReport(raw)
  \/ ReadAccounts
  \/ \E r \in DOMAIN NoReads : Read(r)
  \/ ReadMore
  \/ AnswerReport
  \/ \E f \in Facts : StoreFact(f) \/ AdjustPurchase(f) \/ \E s \in StatusMoves : MoveEvent(f, s)
  \/ \E a \in ReportAccounts : SwitchAccount(a)
  \/ \E e \in Entities : (\E c \in {"whatsapp", "needs_review"} : Reclassify(e, c))
                          \/ \E d \in Period : SyncDay(e, d)

QuerySpec == QueryInit /\ [][QueryNext]_queryVars

---------------------------------------------------------------------------
(* What a person reading the page may rely on.                             *)

ReportIsShown == reader.pc = "answered" /\ reader.ask.level # "audit"

(* Rows add up.  What the totals line counts is what the rows of all pages *)
(* count, and never less than they show: purchases, revenue, qualified     *)
(* leads and Meta's own count.  A person's first purchase is first in the  *)
(* row of every campaign that sold to them and once in the totals.         *)
RowsMakeTotals ==
  ReportIsShown =>
    LET query == reader.ask
        got == reader.got
        row(e) == Row(query, got, e)
        of(field) == LET pick(e) == row(e)[field] IN MapThenSumSet(pick, reader.shown)
        whole == reader.shown = RowsAsked(query, got)
        narrowed == \E e \in reader.shown : ChildScope(query, got, e) # {}
        totals == Totals(query, got)
    IN /\ \A field \in {"purchases", "qualified", "trafficCents", "organicCents"} :
            /\ of(field) =< totals[field]
            /\ whole /\ ~narrowed => of(field) = totals[field]
       /\ whole => of("meta") = totals.meta
       /\ whole /\ ~narrowed => totals.first =< of("first")
       /\ totals.real =< of("real") \/ ~whole \/ narrowed

(* The split of a table is a split: every purchase is a first one or not,  *)
(* the funnel's steps under purchases add up to them, and whoever bought   *)
(* did so for the first time once.                                         *)
PurchasesSplit ==
  ReportIsShown =>
    LET got == reader.got
        totals == Totals(reader.ask, got)
        step(stage) == FunnelStep(got.events \cup got.leads, totals, stage)
    IN /\ totals.firstCents + totals.againCents = totals.trafficCents + totals.organicCents
       /\ "Purchase" \in FunnelVisible =>
            step("Purchase") = MapThenSumSet(step, FunnelStages(totals) \ FunnelVisible)
       /\ \A p \in {Fact[f].person : f \in Purchases(Ids(got.events))} \ {NoOne} :
            LET his == {f \in Purchases(Ids(got.events)) : Fact[f].person = p}
                first == {f \in his : /\ Fact[f].purchase = Unset
                                      /\ KindOf(Ids(got.events), f) = "first_purchase"}
            IN /\ Cardinality(first) =< 1
               /\ (\A f \in his : Fact[f].purchase = Unset) => first # {}

(* The chart and the summary above it tell the same story: a conversation  *)
(* counts on one day, so the days add up to the summary, and when Meta's   *)
(* days are all there they add up to Meta's count in it.                   *)
DaysMakeSummary ==
  ReportIsShown /\ reader.ask.level = "campaigns" /\ reader.ask.full =>
    LET got == reader.got
        real(d) == DailyPoint(got, d).real
        meta(d) == DailyPoint(got, d).meta
        summary == Summary(reader.ask, got)
    IN /\ MapThenSumSet(real, Period) = summary.real
       /\ DailyComplete(reader.ask, got) => MapThenSumSet(meta, Period) = summary.meta

(* Totals and summary come from different reads.  When nothing changed     *)
(* around them the shown campaigns sell no more than the workspace, and    *)
(* exactly as much as a summary that was asked for the same account.       *)
StillIsConsistent ==
  ReportIsShown /\ reader.ask.level = "campaigns" /\ reader.ask.full /\ ~reader.moved =>
    LET totals == Totals(reader.ask, reader.got)
        summary == Summary(reader.ask, reader.got)
    IN /\ \A field \in {"purchases", "real", "trafficCents"} : totals[field] =< summary[field]
       /\ reader.ask.account # Unset => totals = summary

(* No row of a report is of an account its reader was not scoped to.       *)
RowsInScope ==
  ReportIsShown =>
    \A e \in reader.shown :
      /\ AccountOf[CampaignAbove(e)] \in reader.accounts
      /\ reader.ask.account \in {Unset, AccountOf[CampaignAbove(e)]}

(* The audit's cards add up to its total, since every status is shown      *)
(* under one state; an event listed under a filter carries the filter's    *)
(* label (the events of conversion rules, which both the automation and    *)
(* the other filter list, are labelled other); and when nothing changed    *)
(* the page is as long as the counts promise.                              *)
AuditAddsUp ==
  reader.pc = "answered" /\ reader.ask.level = "audit" =>
    LET query == reader.ask
        got == reader.got
        count(s) == got.counts[s]
        state(x) == StateCount(got.counts, x)
        total == MapThenSumSet(count, DeliveryStatuses)
    IN /\ MapThenSumSet(state, AuditStates) = total
       /\ \A e \in got.page :
            /\ query.state \in {Unset, e.state}
            /\ Fact[e.id].trigger # "inbound_webhook" => query.source \in {Unset, e.source}
       /\ ~reader.moved => Cardinality(got.page) = PageLength(query, total)

(* All of them, of every report and audit query, while rows are written    *)
(* between its reads (MetaReportingService).                               *)
ReportsAgree ==
  /\ RowsMakeTotals /\ PurchasesSplit /\ DaysMakeSummary
  /\ StillIsConsistent /\ RowsInScope /\ AuditAddsUp
=============================================================================
