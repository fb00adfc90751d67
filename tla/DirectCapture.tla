--------------------------- MODULE DirectCapture ---------------------------
(***************************************************************************)
(* The direct WhatsApp path: the webhooks a UAZAPI instance posts, the     *)
(* lead and the conversion events they leave behind, the team messages and *)
(* chat labels evaluated by the provider conversion engine, the life of    *)
(* the instance itself, and the operator scripts that repair what a failed *)
(* handler lost.                                                           *)
(*                                                                         *)
(* A request handler runs as a sequence of awaited database calls, so each *)
(* call is a step of its own: handlers of several requests, of a           *)
(* redelivery of the same message included, interleave between them.       *)
(***************************************************************************)
EXTENDS FiniteSets, Integers

CONSTANTS Msgs,          \* messages the provider may post
          MsgContact,    \* the contact each message is about
          MsgAuthor,     \* "contact", "team", "none" (a chat update) or "meta"
          MsgLabels,     \* the chat labels a label update carries
          Paid,          \* messages that carry a click id (ctwa_clid)
          WithAd,        \* messages whose ad is known
          Named,         \* messages with an external event id
          LabelUpdates,  \* messages of the chat_labels kind
          LegacyMatches,        \* messages an active keyword or label rule matches
          LegacyNeedsValue, \* does that rule's event need a value it lacks
          Chats, SaleLabel,
          StoredKeys,    \* does the rule store the label's id beside its name
          Hooks,         \* requests that may be served
          NoMsg, MaxMishaps

ASSUME CaptureAssumption ==
    MsgContact \in [Msgs -> Chats] /\ NoMsg \notin Msgs /\ LegacyNeedsValue \in BOOLEAN /\ MaxMishaps \in Nat

VARIABLES instance,  \* WhatsappInstance row, and what its provider was told
          bridged,   \* the connection and channel of the instance: "none",
                     \* "observation", or "production" with the channel active
          ruleMode,      \* mode of the provider rule: "absent", "observation", "production"
          logged,    \* webhookLog rows by message
          captured,      \* per contact: "none", "noad" or "paid"
          event,     \* conversionEventLog status per dedupe key
          sendJobs,  \* events handed to the send queue
          chatLabels,\* uazapiChatLabelState per contact
          frozen,    \* the decision frozen for each occurrence
          run,       \* providerConversionRuleExecution status per occurrence
          runJobs,   \* executions handed to the production queue
          hook,      \* the request handlers
          mishaps    \* crashes and failed calls so far

captureVars == <<instance, bridged, ruleMode, logged, captured, event, sendJobs,
                 chatLabels, frozen, run, runJobs, hook, mishaps>>
ruleVars == <<frozen, run, runJobs>>
leadVars == <<captured, event, sendJobs>>
settingVars == <<instance, bridged, ruleMode>>

(* Dedupe keys: the contact's lead, the automatic or the legacy rule's      *)
(* event, and whether the key names an ad or says "missing_ad".             *)
EventKeys == Chats \X {"auto", "rule"} \X BOOLEAN

AutoKey(m) == <<MsgContact[m], "auto", m \in WithAd>>

RuleKey(m) == <<MsgContact[m], "rule", m \in WithAd>>

Steps == {"free", "log", "labels", "saveLabels", "evaluate", "freeze", "orchestrate",
          "queue", "lead", "findAuto", "createAuto", "findRule", "createRule", "send",
          "done", "failed"}

IdleHook == [at |-> "free", msg |-> NoMsg, fresh |-> {}, sees |-> "none",
             may |-> FALSE, made |-> {}]

CaptureTypeOK ==
    /\ instance \in [there : BOOLEAN, hooked : BOOLEAN]
    /\ bridged \in {"none", "observation", "production"}
    /\ ruleMode \in {"absent", "observation", "production"}
    /\ logged \subseteq Msgs
    /\ captured \in [Chats -> {"none", "noad", "paid"}]
    /\ event \in [EventKeys -> {"none", "pending_meta_context", "pending_attribution",
                                "pending_value", "ready", "ready_to_send"}]
    /\ sendJobs \subseteq EventKeys
    /\ chatLabels \in [Chats -> SUBSET UNION {MsgLabels[m] : m \in Msgs}]
    /\ frozen \in [Msgs -> {"none", "ignored_observation", "ignored_production",
                            "observation", "production"}]
    /\ run \in [Msgs -> {"none", "observed", "blocked", "eligible", "materialized"}]
    /\ runJobs \subseteq Msgs
    /\ \A h \in Hooks : hook[h].at \in Steps /\ hook[h].msg \in Msgs \cup {NoMsg}
    /\ mishaps \in 0..MaxMishaps

CaptureInit ==
    /\ instance = [there |-> FALSE, hooked |-> FALSE]
    /\ bridged = "none" /\ ruleMode = "absent"
    /\ logged = {}
    /\ captured = [c \in Chats |-> "none"]
    /\ event = [k \in EventKeys |-> "none"]
    /\ sendJobs = {}
    /\ chatLabels = [c \in Chats |-> {}]
    /\ frozen = [m \in Msgs |-> "none"]
    /\ run = [m \in Msgs |-> "none"]
    /\ runJobs = {}
    /\ hook = [h \in Hooks |-> IdleHook]
    /\ mishaps = 0

----------------------------------------------------------------------------
(* The instance.                                                            *)

(* The adapter never throws: every failure of a call is one of its answers. *)
ConfigureAnswers == {"configured", "not_configured", "error"}

DeleteAnswers == {"deleted", "not_configured", "error"}

ConnectionAnswers ==
    {"connected", "disconnected", "qr_required", "pending", "not_configured", "error"}

(* create() commits the row, then tells the provider where to post. What    *)
(* the provider answers is not looked at: the row stays either way.         *)
CreateInstance ==
    /\ ~instance.there
    /\ \E answer \in ConfigureAnswers :
          instance' = [there |-> TRUE, hooked |-> answer = "configured"]
    /\ UNCHANGED <<bridged, ruleMode, logged, leadVars, chatLabels, ruleVars, hook,
                   mishaps>>

(* ensureBridge: finds the channel of the instance or creates connection    *)
(* and channel in one transaction; the connection starts in observation.    *)
EnsuredBridge == IF bridged = "none" THEN "observation" ELSE bridged

(* refresh() stores the provider's answer, which nothing here reads, and,   *)
(* once connected, ensures the bridge; a bridge that fails is only logged.  *)
RefreshInstance ==
    /\ instance.there
    /\ \E answer \in ConnectionAnswers :
          bridged' \in {bridged} \cup (IF answer = "connected" THEN {EnsuredBridge} ELSE {})
    /\ UNCHANGED <<instance, ruleMode, logged, leadVars, chatLabels, ruleVars, hook, mishaps>>

(* remove() deletes the instance at the provider, then the row; label state *)
(* of the instance refuses the deletion and leaves a row the provider no    *)
(* longer posts for. The channel loses its instance (SetNull), and with it  *)
(* its rules lose the messages they were about.                             *)
RemoveInstance ==
    /\ instance.there
    /\ IF \E c \in Chats : chatLabels[c] # {}
       THEN /\ \E answer \in DeleteAnswers :
                  instance' = [instance EXCEPT !.hooked = @ /\ answer # "deleted"]
            /\ UNCHANGED <<bridged, ruleMode>>
       ELSE /\ instance' = [there |-> FALSE, hooked |-> FALSE]
            /\ bridged' = "none" /\ ruleMode' = "absent"
    /\ UNCHANGED <<logged, leadVars, chatLabels, ruleVars, hook, mishaps>>

(* The provider rule of the channel and its production gates, set by the    *)
(* services RuleSwitches models.                                            *)
SetCaptureRule ==
    /\ bridged # "none"
    /\ \/ ruleMode' \in {"absent", "observation", "production"} \ {ruleMode} /\ UNCHANGED bridged
       \/ bridged' \in {"observation", "production"} \ {bridged} /\ UNCHANGED ruleMode
    /\ UNCHANGED <<instance, logged, leadVars, chatLabels, ruleVars, hook, mishaps>>

----------------------------------------------------------------------------
(* A request.                                                               *)

HookGoTo(h, step) == hook' = [hook EXCEPT ![h].at = step]

(* isInboundMessage with a click id: the only messages that make a lead.    *)
MakesLead(m) == MsgAuthor[m] = "contact" /\ m \in Paid

AfterRules(m) == IF MakesLead(m) THEN "lead" ELSE "done"

AfterLog(m) ==
    CASE MsgAuthor[m] = "team" -> "evaluate"
      [] MsgAuthor[m] # "team" /\ m \in LabelUpdates -> "labels"
      [] OTHER -> AfterRules(m)

(* A request is authenticated against the instance, or against the page for *)
(* Meta, before anything is written; its idempotency key is then looked up. *)
ReceiveWebhook(h, m) ==
    /\ hook[h].at = "free"
    /\ MsgAuthor[m] # "meta" => instance.there /\ instance.hooked
    /\ hook' = [hook EXCEPT ![h] = [IdleHook EXCEPT
                   !.msg = m,
                   !.at = IF m \in Named /\ m \in logged THEN "done" ELSE "log"]]
    /\ UNCHANGED <<settingVars, logged, leadVars, chatLabels, ruleVars, mishaps>>

(* recordWebhookLog inserts the row; the unique key refuses the second of   *)
(* two deliveries that both looked it up in vain.                           *)
WriteWebhookLog(h) ==
    /\ hook[h].at = "log"
    /\ LET m == hook[h].msg IN
       IF m \in Named /\ m \in logged
       THEN HookGoTo(h, "failed") /\ UNCHANGED logged
       ELSE logged' = logged \cup {m} /\ HookGoTo(h, AfterLog(m))
    /\ UNCHANGED <<settingVars, leadVars, chatLabels, ruleVars, mishaps>>

(* evaluateLabels reads the stored labels of the chat ...                   *)
ReadChatLabels(h) ==
    /\ hook[h].at = "labels"
    /\ LET m == hook[h].msg IN
       hook' = [hook EXCEPT ![h].fresh = MsgLabels[m] \ chatLabels[MsgContact[m]],
                            ![h].at = "saveLabels"]
    /\ UNCHANGED <<settingVars, logged, leadVars, chatLabels, ruleVars, mishaps>>

(* ... and stores the new ones before anything was evaluated.               *)
SaveChatLabels(h) ==
    /\ hook[h].at = "saveLabels"
    /\ LET m == hook[h].msg IN
       /\ chatLabels' = [chatLabels EXCEPT ![MsgContact[m]] = MsgLabels[m]]
       /\ HookGoTo(h, IF SaleLabel \in hook[h].fresh THEN "evaluate" ELSE AfterRules(m))
    /\ UNCHANGED <<settingVars, logged, leadVars, ruleVars, mishaps>>

(* The paid lead resolver wants an ad and a click id.                       *)
ResolvedPaid(c) == captured[c] = "paid"

(* The decision of the engine on one rule: untracked leads are ignored.     *)
CaptureDecision(m) ==
    CASE ResolvedPaid(MsgContact[m]) -> ruleMode
      [] ~ResolvedPaid(MsgContact[m]) /\ ruleMode = "observation" -> "ignored_observation"
      [] OTHER -> "ignored_production"

(* matchLabels: by the id the rule stored, or by the name the provider's    *)
(* catalogue gives that id; a catalogue that fails answers nothing.         *)
MatchesRule(m, catalogue) == m \notin LabelUpdates \/ StoredKeys \/ catalogue

(* evaluateTeamMessage / evaluateLabels: ensure the bridge, load the rules  *)
(* of the channel, resolve the lead, ask for the labels, decide.            *)
EvaluateRules(h) ==
    /\ hook[h].at = "evaluate"
    /\ bridged' = IF instance.there THEN EnsuredBridge ELSE bridged
    /\ \E catalogue \in BOOLEAN : LET m == hook[h].msg IN
       IF ruleMode = "absent" \/ ~instance.there \/ ~MatchesRule(m, catalogue)
       THEN HookGoTo(h, AfterRules(m))
       ELSE hook' = [hook EXCEPT ![h].sees = CaptureDecision(m), ![h].may = bridged = "production",
                                 ![h].at = "freeze"]
    /\ UNCHANGED <<instance, ruleMode, logged, leadVars, chatLabels, ruleVars, mishaps>>

(* resolveDecision: the first decision of an occurrence is frozen, a later  *)
(* one reuses it.                                                           *)
Resolved(m, decision) == IF frozen[m] = "none" THEN decision ELSE frozen[m]

FreezeCaptured(h) ==
    /\ hook[h].at = "freeze"
    /\ LET m == hook[h].msg IN frozen' = [frozen EXCEPT ![m] = Resolved(m, hook[h].sees)]
    /\ HookGoTo(h, "orchestrate")
    /\ UNCHANGED <<settingVars, logged, leadVars, chatLabels, run, runJobs, mishaps>>

(* disposition / productionContextBlock for a decision of the given mode.   *)
Disposition(mode, gates) ==
    CASE mode # "production" -> "observed"
      [] mode = "production" /\ ~gates -> "blocked"
      [] OTHER -> "eligible"

(* A recovery that trusts the mode of today for every frozen decision.      *)
PlannedAnyway(m, mode, gates) == Disposition(mode, gates)

(* dispositionPlan and the orchestrator: an untracked match leaves only a   *)
(* blocked execution, and only where the rule was in observation.           *)
Planned(m, mode, gates) ==
    CASE frozen[m] = "ignored_observation" -> "blocked"
      [] frozen[m] = "ignored_production" -> "none"
      [] OTHER -> Disposition(mode, gates)

(* persistExecution: a terminal execution is kept, any other follows the    *)
(* disposition.                                                             *)
Persisted(m, state) ==
    IF state = "none" \/ run[m] = "materialized" THEN run[m] ELSE state

FrozenMode(m) == IF frozen[m] = "production" THEN "production" ELSE "observation"

OrchestrateCaptured(h) ==
    /\ hook[h].at = "orchestrate"
    /\ LET m == hook[h].msg
           plan == Planned(m, FrozenMode(m), hook[h].may)
       IN  /\ run' = [run EXCEPT ![m] = Persisted(m, plan)]
           /\ HookGoTo(h, IF plan # "none" /\ Persisted(m, plan) = "eligible"
                      THEN "queue" ELSE AfterRules(m))
    /\ UNCHANGED <<settingVars, logged, leadVars, chatLabels, frozen, runJobs, mishaps>>

QueueCaptured(h) ==
    /\ hook[h].at = "queue"
    /\ runJobs' = runJobs \cup {hook[h].msg}
    /\ HookGoTo(h, AfterRules(hook[h].msg))
    /\ UNCHANGED <<settingVars, logged, leadVars, chatLabels, frozen, run, mishaps>>

(* An error of an evaluation is logged and swallowed: the request goes on.  *)
EvaluationFails(h) ==
    /\ hook[h].at \in {"labels", "saveLabels", "evaluate", "freeze", "orchestrate", "queue"}
    /\ mishaps < MaxMishaps
    /\ mishaps' = mishaps + 1
    /\ HookGoTo(h, AfterRules(hook[h].msg))
    /\ UNCHANGED <<settingVars, logged, leadVars, chatLabels, ruleVars>>

----------------------------------------------------------------------------
(* The lead and its events.                                                 *)

(* upsertFromWhatsappWebhook: a known ad is never erased by a message that  *)
(* has none.                                                                *)
UpsertedLead(m) ==
    CASE m \in WithAd -> "paid"
      [] m \notin WithAd /\ captured[MsgContact[m]] = "none" -> "noad"
      [] OTHER -> captured[MsgContact[m]]

UpsertCapturedLead(h) ==
    /\ hook[h].at = "lead"
    /\ LET m == hook[h].msg IN captured' = [captured EXCEPT ![MsgContact[m]] = UpsertedLead(m)]
    /\ HookGoTo(h, "findAuto")
    /\ UNCHANGED <<settingVars, logged, event, sendJobs, chatLabels, ruleVars, mishaps>>

(* resolveInitialStatus.                                                    *)
InitialStatus(m, needsValue) ==
    CASE m \notin WithAd -> "pending_meta_context"
      [] m \in WithAd /\ needsValue -> "pending_value"
      [] OTHER -> "ready_to_send"

(* Looking a dedupe key up: an existing event is a duplicate.               *)
FindCaptured(h, at, key, create, otherwise) ==
    /\ hook[h].at = at
    /\ HookGoTo(h, IF event[key] = "none" THEN create ELSE otherwise)
    /\ UNCHANGED <<settingVars, logged, leadVars, chatLabels, ruleVars, mishaps>>

(* Inserting it: the unique key refuses the later of two, and the request   *)
(* fails with it.                                                           *)
CreateCaptured(h, at, key, status, then) ==
    /\ hook[h].at = at
    /\ IF event[key] # "none"
       THEN HookGoTo(h, "failed") /\ UNCHANGED event
       ELSE /\ event' = [event EXCEPT ![key] = status]
            /\ hook' = [hook EXCEPT ![h].made = @ \cup {key}, ![h].at = then]
    /\ UNCHANGED <<settingVars, logged, captured, sendJobs, chatLabels, ruleVars, mishaps>>

AfterAuto(m) == IF m \in LegacyMatches THEN "findRule" ELSE "send"

FindAuto(h) == LET m == hook[h].msg IN
    m # NoMsg /\ FindCaptured(h, "findAuto", AutoKey(m), "createAuto", AfterAuto(m))

CreateAuto(h) == LET m == hook[h].msg IN
    m # NoMsg /\ CreateCaptured(h, "createAuto", AutoKey(m), InitialStatus(m, FALSE),
                                AfterAuto(m))

FindRuleEvent(h) == LET m == hook[h].msg IN
    m # NoMsg /\ FindCaptured(h, "findRule", RuleKey(m), "createRule", "send")

CreateRuleEvent(h) == LET m == hook[h].msg IN
    m # NoMsg /\ CreateCaptured(h, "createRule", RuleKey(m),
                                InitialStatus(m, LegacyNeedsValue), "send")

(* listReadyLogIds of everything this request created.                      *)
ReadyLogs(h) == {k \in hook[h].made : event[k] = "ready_to_send"}

QueueReadyLogs(h) ==
    /\ hook[h].at = "send"
    /\ sendJobs' = sendJobs \cup ReadyLogs(h)
    /\ HookGoTo(h, "done")
    /\ UNCHANGED <<settingVars, logged, captured, event, chatLabels, ruleVars, mishaps>>

(* The process stops, or a database call throws, between two awaits.        *)
HandlerDies(h) ==
    /\ hook[h].at \notin {"free", "done", "failed"}
    /\ mishaps < MaxMishaps
    /\ mishaps' = mishaps + 1
    /\ HookGoTo(h, "failed")
    /\ UNCHANGED <<settingVars, logged, leadVars, chatLabels, ruleVars>>

----------------------------------------------------------------------------
(* Production and the operator's scripts.                                   *)

MaterializeCaptured(m) ==
    /\ m \in runJobs
    /\ runJobs' = runJobs \ {m}
    /\ run' = [run EXCEPT ![m] = IF @ = "eligible" THEN "materialized" ELSE @]
    /\ UNCHANGED <<settingVars, logged, leadVars, chatLabels, frozen, hook, mishaps>>

(* recoverDecision: orchestrates a frozen decision again, with the mode the *)
(* rule has now.                                                            *)
RecoverDecision(m) ==
    /\ frozen[m] # "none" /\ ruleMode # "absent"
    /\ LET plan == Planned(m, ruleMode, bridged = "production") IN
       /\ run' = [run EXCEPT ![m] = Persisted(m, plan)]
       /\ runJobs' = IF plan # "none" /\ Persisted(m, plan) = "eligible"
                     THEN runJobs \cup {m} ELSE runJobs
    /\ UNCHANGED <<settingVars, logged, leadVars, chatLabels, frozen, hook, mishaps>>

(* reprocess-uazapi-ctwa-webhooks: the lead and its LeadSubmitted from a    *)
(* logged message, under a status of the script's own.                      *)
ReprocessLogged(m) ==
    /\ m \in logged /\ m \in Paid /\ MsgAuthor[m] = "contact"
    /\ captured' = [captured EXCEPT ![MsgContact[m]] = UpsertedLead(m)]
    /\ event' = [event EXCEPT ![AutoKey(m)] =
                    IF @ # "none" THEN @
                    ELSE IF m \in WithAd THEN "ready" ELSE "pending_attribution"]
    /\ UNCHANGED <<settingVars, logged, sendJobs, chatLabels, ruleVars, hook, mishaps>>

(* repair-and-enqueue-capi-events: puts such events right and queues them.  *)
RepairEvents ==
    LET kept == {k \in EventKeys : k[2] = "auto" /\ k[3] /\ event[k] # "none"} IN
    /\ kept # {}
    /\ event' = [k \in EventKeys |-> IF k \in kept THEN "ready_to_send" ELSE event[k]]
    /\ sendJobs' = sendJobs \cup kept
    /\ UNCHANGED <<settingVars, logged, captured, chatLabels, ruleVars, hook, mishaps>>

----------------------------------------------------------------------------
HookStep(h) ==
    \/ WriteWebhookLog(h) \/ ReadChatLabels(h) \/ SaveChatLabels(h) \/ EvaluateRules(h)
    \/ FreezeCaptured(h) \/ OrchestrateCaptured(h) \/ QueueCaptured(h)
    \/ UpsertCapturedLead(h) \/ FindAuto(h) \/ CreateAuto(h) \/ FindRuleEvent(h)
    \/ CreateRuleEvent(h) \/ QueueReadyLogs(h)

CaptureNext ==
    \/ CreateInstance \/ RefreshInstance \/ RemoveInstance \/ SetCaptureRule \/ RepairEvents
    \/ \E h \in Hooks : HookStep(h) \/ EvaluationFails(h) \/ HandlerDies(h)
    \/ \E h \in Hooks, m \in Msgs : ReceiveWebhook(h, m)
    \/ \E m \in Msgs : MaterializeCaptured(m) \/ RecoverDecision(m) \/ ReprocessLogged(m)

CaptureSpec == CaptureInit /\ [][CaptureNext]_captureVars

----------------------------------------------------------------------------
(* What the lead list and the lead page read.                               *)

(* currentLifecycleEvent: the furthest stage the events reach; a first      *)
(* message alone is already a LeadSubmitted.                                *)
StageOf(c) ==
    IF \E ad \in BOOLEAN : event[<<c, "rule", ad>>] # "none" THEN "QualifiedLead"
    ELSE IF captured[c] # "none" THEN "LeadSubmitted" ELSE "none"

(* listLeadsPage filtered by an event: the leads that have it, and for      *)
(* LeadSubmitted every lead with a first message.                           *)
ListedLeads(name) ==
    LET kind == IF name = "LeadSubmitted" THEN "auto" ELSE "rule" IN
    {c \in Chats : /\ captured[c] # "none"
                   /\ \/ name = "LeadSubmitted"
                      \/ \E ad \in BOOLEAN : event[<<c, kind, ad>>] # "none"}

(* getLeadDetail.                                                           *)
LeadDetail(c) ==
    [stage |-> StageOf(c),
     events |-> {k \in EventKeys : k[1] = c /\ event[k] # "none"},
     webhooks |-> {m \in logged : MsgContact[m] = c}]

----------------------------------------------------------------------------
(* No resolved lead means no CAPI, ever: whatever the mode of the rule      *)
(* became, whoever orchestrated the occurrence again and whenever, an       *)
(* execution that may reach Meta belongs to a contact whose lead has both   *)
(* an ad and a click id.                                                    *)
EligibleIsPaid ==
    \A m \in Msgs : run[m] \in {"eligible", "materialized"} => captured[MsgContact[m]] = "paid"

(* When no request is being served and none was lost, every paid message    *)
(* that was logged has its lead, its LeadSubmitted and the event of the     *)
(* rule it matched, and what was ready to send is queued: duplicates,       *)
(* redeliveries and concurrent messages of one contact leave no gap, and    *)
(* the list finds the lead under the stage its page shows.                  *)
CapturedWhole ==
    (\A h \in Hooks : hook[h].at \in {"free", "done"}) =>
        \A m \in logged : MakesLead(m) =>
            /\ MsgContact[m] \in ListedLeads(LeadDetail(MsgContact[m]).stage)
            /\ \A k \in {AutoKey(m)} \cup (IF m \in LegacyMatches THEN {RuleKey(m)} ELSE {}) :
                  event[k] # "none" /\ (event[k] = "ready_to_send" => k \in sendJobs)

(* Both, and the types, of deliveries, labels and settings in any order    *)
(* (WebhooksController, UazapiProviderConversionService).                  *)
CaptureSafe == CaptureTypeOK /\ EligibleIsPaid /\ CapturedWhole
=============================================================================
