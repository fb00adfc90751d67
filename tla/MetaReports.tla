---------------------------- MODULE MetaReports ----------------------------
(***************************************************************************)
(* The local copy of one Meta ad account: a campaign, its ad set and its   *)
(* ad, the manual WhatsApp classification of each, their status and budget *)
(* and the daily insights (MetaReportingService), filled by jobs that      *)
(* MetaReportSyncQueueService adds under a fresh id each time, so several  *)
(* may run at once, and that MetaReportAutoSyncService adds periodically.  *)
(* Meta itself is remote.                                                  *)
(***************************************************************************)
EXTENDS BullJob, FiniteSets

CONSTANTS
  Pulls,           \* bound: report syncs queued or running at a time
  Edits,           \* bound: operators changing Meta entities
  SetDestination,  \* what the ad set's destination says: "auto_whatsapp" or "none"
  Creative,        \* what the ad's call to action says: "creative_whatsapp" or "none"
  CampaignBudget,  \* the budget is the campaign's
  MaxUpsets        \* bound: failures of Meta, the database or a worker, overrides, and changes on Meta's own screen

VARIABLES
  remote,    \* Meta: status and budget of every level
  local,     \* MetaCampaign, MetaAdSet, MetaAd: status and budget
  cls,       \* whatsappClassification
  override,  \* classificationOverride
  leadAt,    \* a lead of the ad: none, known by its ad, or placed under ad set and campaign
  daily,     \* daily insights of the period are stored
  account,   \* MetaReportingAccount: active and syncStatus
  pull,      \* a sync
  pullJob,   \* its job
  edit,      \* an operator's change of a Meta entity
  upsets     \* failures and changes so far

reportVars == <<remote, local, cls, override, leadAt, daily, account, pull, pullJob, edit, upsets>>

Levels == {"campaign", "adset", "ad"}

Manual == {"manual_include", "manual_exclude"}

Classes == Manual \cup {"auto_whatsapp", "creative_whatsapp", "detected_by_leads", "not_whatsapp"}

Statuses == {"ACTIVE", "PAUSED"}

Entity == [status : Statuses, budget : 0..2]

NoPull == [pc |-> "idle", seen |-> [e \in Levels |-> [status |-> "ACTIVE", budget |-> 0]],
           decided |-> [e \in Levels |-> "not_whatsapp"], left |-> {}]

NoEdit == [pc |-> "idle", e |-> "ad", field |-> "status", to |-> [status |-> "ACTIVE", budget |-> 0]]

ReportTypeOK ==
  /\ remote \in [Levels -> Entity] /\ local \in [Levels -> Entity]
  /\ cls \in [Levels -> Classes] /\ override \in [Levels -> Manual \cup {"none"}]
  /\ leadAt \in {"none", "ad", "placed"} /\ daily \in BOOLEAN
  /\ account \in [active : BOOLEAN, sync : {"idle", "syncing", "synced", "error"}]
  /\ pull \in [Pulls -> [pc : {"idle", "start", "fetch", "classify", "upsert", "delete", "create", "place", "finish", "fail"},
                         seen : [Levels -> Entity], decided : [Levels -> Classes], left : SUBSET Levels]]
  /\ pullJob \in [Pulls -> Jobs]
  /\ edit \in [Edits -> [pc : {"idle", "call", "save", "done"}, e : Levels, field : {"status", "budget"}, to : Entity]]
  /\ upsets \in 0..MaxUpsets

(* The account was read before, when everything was active. *)
ReportInit ==
  /\ remote = [e \in Levels |-> [status |-> "ACTIVE", budget |-> IF e = (IF CampaignBudget THEN "campaign" ELSE "adset") THEN 1 ELSE 0]]
  /\ local = remote
  /\ cls = [e \in Levels |-> "not_whatsapp"] /\ override = [e \in Levels |-> "none"]
  /\ leadAt \in {"none", "ad"} /\ daily \in BOOLEAN
  /\ account = [active |-> TRUE, sync |-> "idle"]
  /\ pull = [s \in Pulls |-> NoPull] /\ pullJob = [s \in Pulls |-> NoJob]
  /\ edit = [o \in Edits |-> NoEdit]
  /\ upsets = 0

copied == <<local, cls, leadAt, daily>>

Upset == upsets < MaxUpsets /\ upsets' = upsets + 1

-----------------------------------------------------------------------------
(* Classification.                                                         *)

(* WhatsappCampaignClassifierService.classify *)
Classify(destination, creative, evidence, manual) ==
  CASE manual # "none" -> manual
    [] manual = "none" /\ destination # "none" -> destination
    [] manual = "none" /\ destination = "none" /\ creative # "none" -> creative
    [] OTHER -> IF evidence THEN "detected_by_leads" ELSE "not_whatsapp"

(* manualOverride: the override, or a classification that looks like one. *)
ManualOverride(e) == IF override[e] # "none" THEN override[e] ELSE IF cls[e] \in Manual THEN cls[e] ELSE "none"

(* campaignClassificationFromChildren: the strongest class of the children. *)
FromChildren(children) ==
  LET order == <<"manual_include", "auto_whatsapp", "creative_whatsapp", "detected_by_leads", "not_whatsapp", "manual_exclude">>
      found == {i \in 1..6 : order[i] \in children}
  IN IF found = {} THEN "not_whatsapp" ELSE order[CHOOSE i \in found : \A k \in found : i <= k]

OfAdSet(manual) == Classify(SetDestination, "none", leadAt = "placed", manual)
OfAd(manual) == Classify(SetDestination, Creative, leadAt # "none", manual)

Evidence == IF leadAt = "placed" THEN {"detected_by_leads"} ELSE {}

Decided ==
  LET s == OfAdSet(ManualOverride("adset"))
      a == OfAd(ManualOverride("ad"))
      c == ManualOverride("campaign")
  IN [e \in Levels |-> CASE e = "adset" -> s [] e = "ad" -> a
                         [] e = "campaign" -> IF c # "none" THEN c ELSE FromChildren({s, a} \cup Evidence)]

(* saveWhatsappClassificationOverride; without an override the class is    *)
(* found again from what is stored.                                        *)
SaveOverride(e, to) ==
  /\ Upset
  /\ override' = [override EXCEPT ![e] = to]
  /\ cls' = [cls EXCEPT ![e] = IF to # "none" THEN to
                                ELSE CASE e = "adset" -> OfAdSet("none") [] e = "ad" -> OfAd("none")
                                       [] e = "campaign" -> FromChildren({cls["adset"], cls["ad"]})]
  /\ UNCHANGED <<remote, local, leadAt, daily, account, pull, pullJob, edit>>

-----------------------------------------------------------------------------
(* Sync.                                                                   *)

SetAccountActive(on) ==
  /\ Upset
  /\ account.active # on /\ account' = [account EXCEPT !.active = on]
  /\ UNCHANGED <<remote, override, copied, pull, pullJob, edit>>

(* Somebody changes the entity on Meta's own screen. *)
ChangeAtMeta(e, st) ==
  /\ Upset
  /\ remote[e].status # st /\ remote' = [remote EXCEPT ![e].status = st]
  /\ UNCHANGED <<override, copied, account, pull, pullJob, edit>>

(* listReportingSyncTargets *)
Due == account.active

Queued(s) == pullJob[s].state \in {"none", "failed"} /\ pull[s].pc = "idle" /\ pullJob' = [pullJob EXCEPT ![s] = Add(NoJob)]

SyncDueWorkspaces(s) ==
  /\ Due /\ Queued(s)
  /\ UNCHANGED <<remote, override, copied, account, pull, edit, upsets>>

(* syncMetaReports, asked for by an operator. *)
EnqueueWorkspaceSync(s) ==
  /\ Due /\ Queued(s)
  /\ UNCHANGED <<remote, override, copied, account, pull, edit, upsets>>

TakePull(s) ==
  /\ pullJob[s].state = "waiting" /\ pull[s].pc = "idle"
  /\ pullJob' = [pullJob EXCEPT ![s] = Take(@)]
  /\ pull' = [pull EXCEPT ![s] = [NoPull EXCEPT !.pc = "start"]]
  /\ UNCHANGED <<remote, override, copied, account, edit, upsets>>

Pulling(s, q) == pull' = [pull EXCEPT ![s] = q]

JobThrows(s) == Pulling(s, NoPull) /\ pullJob' = [pullJob EXCEPT ![s] = Fail(@)]

(* The account must still be active; it is marked syncing. *)
StartPull(s) ==
  /\ pull[s].pc = "start"
  /\ IF account.active
       THEN account' = [account EXCEPT !.sync = "syncing"] /\ Pulling(s, [pull[s] EXCEPT !.pc = "fetch"]) /\ UNCHANGED pullJob
       ELSE account' = account /\ JobThrows(s)
  /\ UNCHANGED <<remote, override, copied, edit, upsets>>

(* The structure and the insights as Meta has them now.  Daily insights    *)
(* that do not add up are read day by day, and refused if they still do    *)
(* not (PullThrows).                                                       *)
FetchPull(s) ==
  /\ pull[s].pc = "fetch"
  /\ Pulling(s, [pull[s] EXCEPT !.pc = "classify", !.seen = remote])
  /\ UNCHANGED <<remote, override, copied, account, pullJob, edit, upsets>>

ClassifyPull(s) ==
  /\ pull[s].pc = "classify"
  /\ Pulling(s, [pull[s] EXCEPT !.pc = "upsert", !.decided = Decided, !.left = Levels])
  /\ UNCHANGED <<remote, override, copied, account, pullJob, edit, upsets>>

(* A mistake: the status of an entity that exists is not written again. *)
UpsertKeepsStatus(s, e) ==
  /\ pull[s].pc = "upsert" /\ e \in pull[s].left
  /\ local' = [local EXCEPT ![e].budget = pull[s].seen[e].budget]
  /\ cls' = [cls EXCEPT ![e] = pull[s].decided[e]]
  /\ Pulling(s, [pull[s] EXCEPT !.left = @ \ {e}, !.pc = IF pull[s].left = {e} THEN "delete" ELSE "upsert"])
  /\ UNCHANGED <<remote, override, leadAt, daily, account, pullJob, edit, upsets>>

(* upsertCampaign, upsertAdSet, upsertAd: at once and in any order, over   *)
(* whatever the rows hold now.                                             *)
UpsertEntity(s, e) ==
  /\ pull[s].pc = "upsert" /\ e \in pull[s].left
  /\ local' = [local EXCEPT ![e] = pull[s].seen[e]]
  /\ cls' = [cls EXCEPT ![e] = pull[s].decided[e]]
  /\ Pulling(s, [pull[s] EXCEPT !.left = @ \ {e}, !.pc = IF pull[s].left = {e} THEN "delete" ELSE "upsert"])
  /\ UNCHANGED <<remote, override, leadAt, daily, account, pullJob, edit, upsets>>

(* replaceCampaignDailyInsights and its siblings: the days of the period   *)
(* are deleted, then created; no transaction joins the two.                *)
DeleteDaily(s) ==
  /\ pull[s].pc = "delete"
  /\ daily' = FALSE
  /\ Pulling(s, [pull[s] EXCEPT !.pc = "create"])
  /\ UNCHANGED <<remote, override, local, cls, leadAt, account, pullJob, edit, upsets>>

(* Days another sync created meanwhile make the creation fail. *)
CreateDaily(s) ==
  /\ pull[s].pc = "create"
  /\ daily' = TRUE
  /\ Pulling(s, [pull[s] EXCEPT !.pc = IF daily THEN "fail" ELSE "place"])
  /\ UNCHANGED <<remote, override, local, cls, leadAt, account, pullJob, edit, upsets>>

(* reconcileTrackingHierarchy *)
PlaceLeads(s) ==
  /\ pull[s].pc = "place"
  /\ leadAt' = IF leadAt = "none" THEN "none" ELSE "placed"
  /\ Pulling(s, [pull[s] EXCEPT !.pc = "finish"])
  /\ UNCHANGED <<remote, override, local, cls, daily, account, pullJob, edit, upsets>>

FinishPull(s) ==
  /\ pull[s].pc = "finish"
  /\ account' = [account EXCEPT !.sync = "synced"]
  /\ Pulling(s, NoPull) /\ pullJob' = [pullJob EXCEPT ![s] = NoJob]
  /\ UNCHANGED <<remote, override, copied, edit, upsets>>

(* The only account of the job failed: it is marked and the job throws. *)
FailPull(s) ==
  /\ pull[s].pc = "fail"
  /\ account' = [account EXCEPT !.sync = "error"]
  /\ JobThrows(s)
  /\ UNCHANGED <<remote, override, copied, edit, upsets>>

PullThrows(s) ==
  /\ pull[s].pc \in {"fetch", "upsert", "delete", "create", "place"}
  /\ Upset
  /\ Pulling(s, [NoPull EXCEPT !.pc = "fail"])
  /\ UNCHANGED <<remote, override, copied, account, pullJob, edit>>

PullWorkerDies(s) ==
  /\ pull[s].pc # "idle"
  /\ Upset
  /\ Pulling(s, NoPull)
  /\ UNCHANGED <<remote, override, copied, account, pullJob, edit>>

PullStalled(s) ==
  /\ pullJob[s].state = "active" /\ pull[s].pc = "idle"
  /\ pullJob' = [pullJob EXCEPT ![s] = Stall(@)]
  /\ UNCHANGED <<remote, override, copied, account, pull, edit, upsets>>

PullBackoff(s) ==
  /\ pullJob[s].state = "delayed"
  /\ pullJob' = [pullJob EXCEPT ![s] = Promote(@)]
  /\ UNCHANGED <<remote, override, copied, account, pull, edit, upsets>>

-----------------------------------------------------------------------------
(* An operator pauses, activates or sets the budget of a Meta entity.      *)

(* updateMetaEntityStatus: what the operator saw must be what is stored,   *)
(* and the account active.                                                 *)
AskStatus(o, e, st) ==
  /\ edit[o].pc = "idle" /\ account.active /\ local[e].status # st
  /\ edit' = [edit EXCEPT ![o] = [pc |-> "call", e |-> e, field |-> "status", to |-> [local[e] EXCEPT !.status = st]]]
  /\ UNCHANGED <<remote, override, copied, account, pull, pullJob, upsets>>

(* updateMetaEntityBudget: an ad set has none while the campaign has one. *)
AskBudget(o, e, b) ==
  /\ edit[o].pc = "idle" /\ account.active /\ e \in {"campaign", "adset"}
  /\ local[e].budget \notin {0, b} /\ (e = "adset" => local["campaign"].budget = 0)
  /\ edit' = [edit EXCEPT ![o] = [pc |-> "call", e |-> e, field |-> "budget", to |-> [local[e] EXCEPT !.budget = b]]]
  /\ UNCHANGED <<remote, override, copied, account, pull, pullJob, upsets>>

Put(entity, q) == [entity EXCEPT ![q.e][q.field] = q.to[q.field]]

(* Meta takes the change; an answer that is lost is an error to the        *)
(* operator all the same.                                                  *)
CallMeta(o) ==
  LET q == edit[o]
      ends == [edit EXCEPT ![o] = [NoEdit EXCEPT !.pc = "done"]]
  IN
  /\ q.pc = "call"
  /\ \/ remote' = Put(remote, q) /\ edit' = [edit EXCEPT ![o].pc = "save"] /\ UNCHANGED upsets
     \/ /\ Upset
        /\ remote' \in {remote, Put(remote, q)} /\ edit' = ends
  /\ UNCHANGED <<override, copied, account, pull, pullJob>>

(* The copy is changed too; a failure leaves it to the next sync. *)
SaveEdit(o) ==
  LET q == edit[o] IN
  /\ q.pc = "save"
  /\ edit' = [edit EXCEPT ![o] = [NoEdit EXCEPT !.pc = "done"]]
  /\ \/ local' = Put(local, q) /\ UNCHANGED upsets
     \/ local' = local /\ Upset
  /\ UNCHANGED <<remote, override, cls, leadAt, daily, account, pull, pullJob>>

-----------------------------------------------------------------------------
PullStep(s) ==
  \/ TakePull(s) \/ StartPull(s) \/ FetchPull(s) \/ ClassifyPull(s)
  \/ \E e \in Levels : UpsertEntity(s, e)
  \/ DeleteDaily(s) \/ CreateDaily(s) \/ PlaceLeads(s) \/ FinishPull(s) \/ FailPull(s)
  \/ PullStalled(s) \/ PullBackoff(s)

ReportNext ==
  \/ \E e \in Levels, to \in {"manual_include", "none"} : SaveOverride(e, to)
  \/ \E on \in BOOLEAN : SetAccountActive(on)
  \/ \E e \in Levels, st \in Statuses : ChangeAtMeta(e, st)
  \/ \E s \in Pulls : SyncDueWorkspaces(s) \/ EnqueueWorkspaceSync(s) \/ PullStep(s) \/ PullThrows(s) \/ PullWorkerDies(s)
  \/ \E o \in Edits : \/ \E e \in Levels, st \in Statuses : AskStatus(o, e, st)
                      \/ \E e \in Levels, b \in 1..2 : AskBudget(o, e, b)
                      \/ CallMeta(o) \/ SaveEdit(o)

ReportSpec == ReportInit /\ [][ReportNext]_reportVars

(* The timer of the automatic sync keeps firing, workers keep taking jobs, *)
(* and every request ends.                                                 *)
ReportFairness ==
  /\ WF_reportVars(\E s \in Pulls : SyncDueWorkspaces(s))
  /\ \A s \in Pulls : WF_reportVars(PullStep(s))
  /\ \A o \in Edits : WF_reportVars(CallMeta(o) \/ SaveEdit(o))

-----------------------------------------------------------------------------
(* While the account stays active, the panel ends up showing what Meta     *)
(* has, the days of the period included: a sync that wrote an older        *)
(* reading over an operator's change, a change saved nowhere and days      *)
(* deleted by a sync that died are all repaired by a later one.            *)
PanelConverges == <>[](account.active => local = remote) /\ []<>(account.active => daily)

(* An override that stays is in force in the end, also when a sync that    *)
(* had read the row before wrote its own class over it.                    *)
OverrideTakesEffect ==
  \A e \in Levels : override[e] # "none" ~> override[e] = "none" \/ ~account.active \/ cls[e] = override[e]

(* Both, of overlapping syncs, edits and overrides (MetaReportingService). *)
PanelSettles == []ReportTypeOK /\ PanelConverges /\ OverrideTakesEffect
=============================================================================
