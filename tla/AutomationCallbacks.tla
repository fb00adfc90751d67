------------------------ MODULE AutomationCallbacks ------------------------
(***************************************************************************)
(* The callbacks a provider's automation posts to a rule's endpoint: how   *)
(* one is stored, decided, turned into an execution or a review and queued,*)
(* what a redelivery of it does, and the operator's ways to process it     *)
(* again (the latest observed one, a selection, an explicit reevaluation). *)
(*                                                                         *)
(* Every awaited database call is a step.  The decisions taken for one     *)
(* occurrence form a chain of versions, written under an advisory lock.    *)
(***************************************************************************)
EXTENDS FiniteSets, Integers, Sequences

CONSTANTS Callbacks,    \* execution keys the provider posts
          OneChannel,   \* does the rule have a single channel
          CallbackCalls, RequestKeys, NoCallback,
          MaxActivations, MaxDisturbances, MaxVersions, MaxCalls

(* A reevaluation's key is made from its request and is never "initial"     *)
(* (reevaluationEvaluationKey).                                             *)
ASSUME CallbackAssumption ==
    /\ NoCallback \notin Callbacks /\ "initial" \notin RequestKeys /\ OneChannel \in BOOLEAN
    /\ MaxActivations \in Nat /\ MaxDisturbances \in Nat /\ MaxVersions \in Nat /\ MaxCalls \in Nat

VARIABLES content,    \* what each callback holds, whenever it is posted
          ruleState,  \* the rule, its endpoint and its connection
          paidLead,   \* has the contact a single lead with ad and click id
          heard,      \* has the contact written on a channel of the rule
          stored,     \* inboundWebhookDelivery rows
          chain,      \* providerConversionDecisionAudit versions per callback
          execution,  \* providerConversionRuleExecution per callback
          reviewed,   \* the decision version of the callback's purchase review
          handed,     \* executions handed to the production queue
          answered,   \* callbacks whose ingestion answered "accepted"
          callbackCall, calls, disturbances

callbackVars == <<content, ruleState, paidLead, heard, stored, chain, execution, reviewed,
                  handed, answered, callbackCall, calls, disturbances>>
worldVars == <<content, ruleState, paidLead, heard>>

(* A callback the parser refuses, one of another event than the rule's, one  *)
(* without the value the rule's event requires, and a whole one.             *)
Contents == {"malformed", "unmatched", "unvalued", "whole"}
outcomeVars == <<execution, reviewed>>

NoDelivery == [known |-> FALSE, pending |-> FALSE, class |-> "none", epoch |-> 0]
NoExecution == [status |-> "none", version |-> 0]
Initial == "initial"
NoContext == [mode |-> "none", epoch |-> 0, connection |-> "none",
              channel |-> FALSE, paid |-> FALSE]
CallIdle == [step |-> "idle", kind |-> "none", cb |-> NoCallback, key |-> Initial,
         context |-> NoContext, found |-> 0, code |-> "none", version |-> 0,
         state |-> "none"]

(* assertFeatureEnabled, authenticateEndpoint, and the same conditions in   *)
(* revalidateEndpoint: a live rule and endpoint on a listening connection.  *)
EndpointServes ==
    /\ ruleState.live
    /\ ruleState.connection \in {"observation", "production"}

(* requireProductionAutomationEndpoint: only a rule that sends.             *)
EndpointSends ==
    /\ ruleState.live
    /\ ruleState.mode = "production" /\ ruleState.epoch > 0
    /\ ruleState.connection = "production"

CallbackInit ==
    /\ content \in [Callbacks -> Contents]
    /\ ruleState = [live |-> TRUE, mode |-> "observation", epoch |-> 0,
                    connection |-> "production"]
    /\ paidLead \in BOOLEAN
    /\ heard \in (IF OneChannel THEN {FALSE} ELSE BOOLEAN)
    /\ stored = [c \in Callbacks |-> NoDelivery]
    /\ chain = [c \in Callbacks |-> <<>>]
    /\ execution = [c \in Callbacks |-> NoExecution]
    /\ reviewed = [c \in Callbacks |-> 0]
    /\ handed = {}
    /\ answered = {}
    /\ callbackCall = [r \in CallbackCalls |-> CallIdle]
    /\ calls = 0
    /\ disturbances = 0

-----------------------------------------------------------------------------
(* What happens around the callbacks.                                       *)

ActivateCallbackRule ==
    /\ ruleState.live /\ ruleState.mode = "observation"
    /\ ruleState.epoch < MaxActivations
    /\ ruleState' = [ruleState EXCEPT !.mode = "production", !.epoch = @ + 1]

ObserveCallbackRule ==
    /\ ruleState.live /\ ruleState.mode = "production"
    /\ ruleState' = [ruleState EXCEPT !.mode = "observation"]

RemoveCallbackRule ==
    /\ ruleState.live
    /\ ruleState' = [ruleState EXCEPT !.live = FALSE]

(* The contact becomes a paid lead, or writes on one of the rule's channels. *)
ContactSeen ==
    \/ /\ ~paidLead /\ paidLead' = TRUE /\ UNCHANGED heard
    \/ /\ ~heard /\ ~OneChannel /\ heard' = TRUE /\ UNCHANGED paidLead

Disturbed == disturbances < MaxDisturbances /\ disturbances' = disturbances + 1

WorldMoves ==
    /\ \/ ActivateCallbackRule /\ UNCHANGED <<paidLead, heard, disturbances>>
       \/ Disturbed /\ ContactSeen /\ UNCHANGED ruleState
       \/ Disturbed /\ (ObserveCallbackRule \/ RemoveCallbackRule)
             /\ UNCHANGED <<paidLead, heard>>
    /\ UNCHANGED <<content, stored, chain, outcomeVars, handed, answered, callbackCall, calls>>

-----------------------------------------------------------------------------
(* Ingestion.                                                               *)

CallGoTo(r, step) == callbackCall' = [callbackCall EXCEPT ![r].step = step]
EndCall(r) == callbackCall' = [callbackCall EXCEPT ![r] = CallIdle]
CallAt(r, step) == callbackCall[r].step = step

CallStarts(r) == CallAt(r, "idle") /\ calls < MaxCalls /\ calls' = calls + 1

PostCallback(r, c) ==
    /\ CallStarts(r)
    /\ EndpointServes
    /\ callbackCall' = [callbackCall EXCEPT ![r] =
                          [CallIdle EXCEPT !.step = "find", !.kind = "ingest", !.cb = c]]
    /\ UNCHANGED <<worldVars, stored, chain, outcomeVars, handed, answered, disturbances>>

FindExistingDelivery(r) ==
    /\ CallAt(r, "find")
    /\ CallGoTo(r, IF stored[callbackCall[r].cb].known THEN "repeat" ELSE "persist")
    /\ UNCHANGED <<worldVars, stored, chain, outcomeVars, handed, answered, calls, disturbances>>

(* The transaction looks at the endpoint again; the unique ingress key of a *)
(* request that got in between sends this one to the raced branch.          *)
PersistDelivery(r) ==
    LET c == callbackCall[r].cb
    IN /\ CallAt(r, "persist")
       /\ \/ /\ ~EndpointServes
             /\ EndCall(r)
             /\ UNCHANGED stored
          \/ /\ EndpointServes /\ stored[c].known
             /\ CallGoTo(r, "raced")
             /\ UNCHANGED stored
          \/ /\ EndpointServes /\ ~stored[c].known
             /\ stored' = [stored EXCEPT ![c] =
                    [known |-> TRUE, pending |-> content[c] # "malformed",
                     class |-> IF content[c] = "malformed" THEN "invalid_payload"
                               ELSE "eligible_route_unresolved",
                     epoch |-> ruleState.epoch]]
             /\ CallGoTo(r, IF content[c] = "malformed" THEN "answer" ELSE "context")
       /\ UNCHANGED <<worldVars, chain, outcomeVars, handed, answered, calls, disturbances>>

(* recordDuplicate; a redelivery is then observed again, a raced one not.   *)
AfterRepeat(r) ==
    IF CallAt(r, "raced") \/ content[callbackCall[r].cb] = "malformed" THEN "answerRaced" ELSE "context"

RecordDuplicate(r) ==
    /\ CallAt(r, "repeat") \/ CallAt(r, "raced")
    /\ IF EndpointServes THEN CallGoTo(r, AfterRepeat(r)) ELSE EndCall(r)
    /\ UNCHANGED <<worldVars, stored, chain, outcomeVars, handed, answered, calls, disturbances>>

AnswerCallback(r) ==
    /\ CallAt(r, "answer") \/ CallAt(r, "answerRaced")
    /\ answered' = IF CallAt(r, "answer") /\ callbackCall[r].kind = "ingest"
                     THEN answered \union {callbackCall[r].cb} ELSE answered
    /\ EndCall(r)
    /\ UNCHANGED <<worldVars, stored, chain, outcomeVars, handed, calls, disturbances>>

-----------------------------------------------------------------------------
(* Observation, shared by ingestion, manual reprocessing and reevaluation.  *)

(* loadAutomationRule, resolveAutomationChannel and the paid lead.          *)
ReadContext(r) ==
    /\ CallAt(r, "context")
    /\ callbackCall' = [callbackCall EXCEPT
           ![r].step = IF ruleState.live THEN "latest" ELSE "stamp",
           ![r].context = IF ruleState.live
             THEN [mode |-> ruleState.mode, epoch |-> ruleState.epoch,
                   connection |-> ruleState.connection,
                   channel |-> heard \/ OneChannel, paid |-> paidLead]
             ELSE NoContext]
    /\ UNCHANGED <<worldVars, stored, chain, outcomeVars, handed, answered, calls, disturbances>>

(* The engines of MessageDecisions on what was read.  Without a channel the *)
(* legacy engine decides, and it takes no decision at all where the         *)
(* canonical one ignores or asks for a review.                              *)
CodeOf(c, context) ==
    CASE content[c] = "unmatched" -> "none"
      [] content[c] # "unmatched" /\ ~context.paid ->
            IF context.channel THEN "ignored_untracked_lead" ELSE "none"
      [] content[c] = "unvalued" /\ context.paid ->
            IF context.channel THEN "review_required" ELSE "none"
      [] OTHER -> "eligible"

FindLatestDecision(r) ==
    LET call == callbackCall[r]
        versions == Len(chain[call.cb])
    IN /\ CallAt(r, "latest")
       /\ CASE versions > 0 /\ call.kind # "reevaluate" ->
                 callbackCall' = [callbackCall EXCEPT
                    ![r].step = "dispose", ![r].found = versions, ![r].version = versions]
            [] versions = 0 /\ call.kind = "reevaluate"
                 /\ CodeOf(call.cb, call.context) # "none" -> EndCall(r)
            [] CodeOf(call.cb, call.context) = "none" /\ ~(versions > 0 /\ call.kind # "reevaluate") ->
                 CallGoTo(r, "stamp")
            [] OTHER ->
                 callbackCall' = [callbackCall EXCEPT
                    ![r].step = "freeze", ![r].found = versions,
                    ![r].code = CodeOf(call.cb, call.context)]
       /\ UNCHANGED <<worldVars, stored, chain, outcomeVars, handed, answered, calls, disturbances>>

(* Mutant: a reevaluation supersedes the version it read, latest or not.    *)
AnyTransition(call, versions) ==
    IF call.kind = "reevaluate" THEN versions > 0 ELSE versions = 0

(* assertVersionTransition: a first decision only where there is none, a    *)
(* reevaluation only of the latest.                                         *)
VersionTransition(call, versions) ==
    IF call.kind = "reevaluate" THEN versions > 0 /\ call.found = versions
    ELSE versions = 0

WithKey(c, key) == {i \in DOMAIN chain[c] : chain[c][i].key = key}

(* persist, under the lock of the occurrence: the same evaluation key with  *)
(* the same decision is that decision, with another it is refused.          *)
FreezeDecision(r) ==
    LET call == callbackCall[r]
        c == call.cb
        same == WithKey(c, call.key)
        made == [key |-> call.key, code |-> call.code, mode |-> call.context.mode,
                 over |-> IF call.kind = "reevaluate" THEN call.found ELSE 0]
    IN /\ CallAt(r, "freeze")
       /\ \/ /\ \E i \in same :
                  IF chain[c][i].code = made.code /\ chain[c][i].mode = made.mode
                    THEN callbackCall' = [callbackCall EXCEPT
                            ![r].step = "dispose", ![r].version = i]
                    ELSE EndCall(r)
             /\ UNCHANGED chain
          \/ /\ same = {} /\ ~VersionTransition(call, Len(chain[c]))
             /\ EndCall(r)
             /\ UNCHANGED chain
          \/ /\ same = {} /\ VersionTransition(call, Len(chain[c]))
             /\ Len(chain[c]) < MaxVersions
             /\ chain' = [chain EXCEPT ![c] = Append(@, made)]
             /\ callbackCall' = [callbackCall EXCEPT
                    ![r].step = "dispose", ![r].version = Len(chain[c]) + 1]
       /\ UNCHANGED <<worldVars, stored, outcomeVars, handed, answered, calls, disturbances>>

(* disposition: manual work follows the live rule's mode and forgets when   *)
(* the callback arrived.                                                    *)
DispositionOf(call) ==
    LET decision == chain[call.cb][call.version]
        manual == call.kind # "ingest"
        mode == IF manual THEN call.context.mode ELSE decision.mode
    IN CASE ~call.context.channel -> "blocked"
         [] call.context.channel /\ mode # "production" -> "observed"
         [] call.context.channel /\ mode = "production"
              /\ call.context.connection # "production" -> "blocked"
         [] call.context.channel /\ mode = "production"
              /\ call.context.connection = "production"
              /\ (call.context.epoch = 0
                    \/ (~manual /\ stored[call.cb].epoch < call.context.epoch)) -> "observed"
         [] OTHER -> "eligible"

Concluded == {"materialized", "duplicate"}

(* orchestrate and persistExecution: look, and write in a later step.       *)
Orchestrate(r) ==
    LET call == callbackCall[r]
        c == call.cb
        code == chain[c][call.version].code
        state == DispositionOf(call)
    IN /\ CallAt(r, "dispose")
       /\ \/ /\ code = "ignored_untracked_lead"
             /\ CallGoTo(r, "stamp") /\ UNCHANGED reviewed
          \/ /\ code = "review_required"
             /\ reviewed' = [reviewed EXCEPT ![c] = call.version]
             /\ CallGoTo(r, "stamp")
          \/ /\ code = "eligible"
             /\ callbackCall' = [callbackCall EXCEPT
                    ![r].state = IF execution[c].status \in Concluded
                                   THEN execution[c].status ELSE state,
                    ![r].step =
                       IF execution[c].status \in Concluded
                            \/ execution[c] = [status |-> state, version |-> call.version]
                         THEN "stamp" ELSE "upsert"]
             /\ UNCHANGED reviewed
       /\ UNCHANGED <<worldVars, stored, chain, execution, handed, answered, calls, disturbances>>

UpsertExecution(r) ==
    /\ CallAt(r, "upsert")
    /\ execution' = [execution EXCEPT ![callbackCall[r].cb] =
                       [status |-> callbackCall[r].state, version |-> callbackCall[r].version]]
    /\ CallGoTo(r, "stamp")
    /\ UNCHANGED <<worldVars, stored, chain, reviewed, handed, answered, calls, disturbances>>

(* automationDeliveryClassification.                                        *)
ClassOf(call) ==
    LET code == IF call.version = 0 THEN "none" ELSE chain[call.cb][call.version].code
    IN CASE code = "none" -> "unsupported_event"
         [] code = "ignored_untracked_lead" -> code
         [] code = "eligible" /\ call.state = "blocked" -> "eligible_route_unresolved"
         [] OTHER -> "eligible_route_resolved"

StampDelivery(r) ==
    LET call == callbackCall[r]
    IN /\ CallAt(r, "stamp")
       /\ stored' = [stored EXCEPT ![call.cb].pending = FALSE,
                                   ![call.cb].class = ClassOf(call)]
       /\ CallGoTo(r, IF call.state = "eligible" THEN "enqueue" ELSE "answer")
       /\ UNCHANGED <<worldVars, chain, outcomeVars, handed, answered, calls, disturbances>>

(* enqueueEligibleObservation: a queue that cannot be reached is logged and *)
(* left to the recovery sweep; the operator's call fails instead.           *)
EnqueueExecution(r) ==
    /\ CallAt(r, "enqueue")
    /\ \/ /\ handed' = handed \union {callbackCall[r].cb}
          /\ CallGoTo(r, "answer")
          /\ UNCHANGED disturbances
       \/ /\ Disturbed
          /\ IF callbackCall[r].kind = "reprocess" THEN EndCall(r) ELSE CallGoTo(r, "answer")
          /\ UNCHANGED handed
    /\ UNCHANGED <<worldVars, stored, chain, outcomeVars, answered, calls>>

-----------------------------------------------------------------------------
(* The operator.                                                            *)

Visible(c) == stored[c].known /\ stored[c].class # "ignored_untracked_lead"

LatestIs(c, code) == chain[c] # <<>> /\ chain[c][Len(chain[c])].code = code

Decided(c) == LatestIs(c, "eligible") /\ execution[c].version # Len(chain[c])

(* findAutomationDelivery: also one that the audit does not list.           *)
Findable(c) == stored[c].known

(* What the audit counts of the visible callbacks: executions by status and *)
(* the current decisions that no execution has.                             *)
Summary ==
    LET executed(states) == {c \in Callbacks : Visible(c) /\ execution[c].status \in states}
        decided(code) == {c \in Callbacks : Visible(c) /\ LatestIs(c, code) /\ execution[c].version # Len(chain[c])}
    IN [observed |-> executed({"observed"}) \union decided("eligible"),
        blocked |-> executed({"blocked"}) \union decided("review_required"),
        queued |-> executed({"eligible"}),
        materialized |-> executed({"materialized"}),
        failed |-> executed({"failed_retryable", "failed_permanent"}),
        recoverable |-> executed({"observed", "eligible", "blocked", "failed_retryable"}) \union decided("eligible")]

(* automationDecisionAuditStatus *)
DecisionStatus(c) ==
    CASE LatestIs(c, "review_required") -> "blocked"
      [] LatestIs(c, "eligible") -> "observed"
      [] OTHER -> "invalid_payload"

(* automationAuditItem: the status of a listed callback, and whether the    *)
(* operator is offered to process it again.                                 *)
AuditStatus(c) == IF execution[c].status # "none" THEN execution[c].status ELSE DecisionStatus(c)

Reprocessable(c) ==
    /\ Visible(c)
    /\ IF execution[c].status # "none"
         THEN execution[c].status \in {"observed", "eligible", "blocked", "failed_retryable"}
         ELSE LatestIs(c, "eligible")

(* reprocessLatestObserved: a decision without execution, else an observed  *)
(* execution, else a callback without any.                                  *)
LatestObserved ==
    LET decided == {c \in Callbacks : Visible(c) /\ Decided(c)}
        observed == {c \in Callbacks : Visible(c) /\ execution[c].status = "observed"}
        left == {c \in Callbacks : Visible(c) /\ execution[c] = NoExecution}
    IN CASE decided # {} -> decided
         [] decided = {} /\ observed # {} -> observed
         [] OTHER -> left

(* reprocessDelivery: what the current execution asks for.                  *)
ReprocessStep(c) ==
    CASE execution[c].status \in Concluded -> "skip"
      [] execution[c].status \in {"eligible", "failed_retryable"} -> "enqueue"
      [] execution[c].status = "failed_permanent" -> "skip"
      [] OTHER -> IF content[c] = "malformed" THEN "skip" ELSE "context"

StartReprocess(r, c) ==
    /\ ReprocessStep(c) # "skip"
    /\ callbackCall' = [callbackCall EXCEPT ![r] =
           [CallIdle EXCEPT !.step = ReprocessStep(c), !.kind = "reprocess", !.cb = c,
                        !.state = IF ReprocessStep(c) = "enqueue" THEN "eligible" ELSE "none"]]

Reprocess(r) ==
    /\ CallStarts(r)
    /\ EndpointSends
    /\ \/ \E c \in LatestObserved : StartReprocess(r, c)
       \/ \E c \in Callbacks : Findable(c) /\ StartReprocess(r, c)
    /\ UNCHANGED <<worldVars, stored, chain, outcomeVars, handed, answered, disturbances>>

Reevaluate(r, c, key) ==
    /\ CallStarts(r)
    /\ ruleState.live
    /\ Findable(c) /\ content[c] # "malformed"
    /\ callbackCall' = [callbackCall EXCEPT ![r] =
           [CallIdle EXCEPT !.step = "context", !.kind = "reevaluate", !.cb = c, !.key = key]]
    /\ UNCHANGED <<worldVars, stored, chain, outcomeVars, handed, answered, disturbances>>

(* The production worker, modelled in ProviderConversion.                   *)
Produce(c, outcome) ==
    /\ c \in handed
    /\ outcome # "materialized" => disturbances < MaxDisturbances
    /\ disturbances' = IF outcome = "materialized" THEN disturbances ELSE disturbances + 1
    /\ handed' = handed \ {c}
    /\ execution' = IF execution[c].status \in {"eligible", "failed_retryable"}
                      THEN [execution EXCEPT ![c].status = outcome] ELSE execution
    /\ UNCHANGED <<worldVars, stored, chain, reviewed, answered, callbackCall, calls>>

(* The process dies, or a database call fails, and nothing is answered.     *)
CallLost(r) ==
    /\ ~CallAt(r, "idle")
    /\ Disturbed
    /\ EndCall(r)
    /\ UNCHANGED <<worldVars, stored, chain, outcomeVars, handed, answered, calls>>

CallSteps(r) ==
    \/ FindExistingDelivery(r) \/ PersistDelivery(r) \/ RecordDuplicate(r)
    \/ ReadContext(r) \/ FindLatestDecision(r) \/ FreezeDecision(r)
    \/ Orchestrate(r) \/ UpsertExecution(r) \/ StampDelivery(r)
    \/ EnqueueExecution(r) \/ AnswerCallback(r)

CallbackNext ==
    \/ WorldMoves
    \/ \E r \in CallbackCalls :
          \/ \E c \in Callbacks : PostCallback(r, c)
          \/ Reprocess(r)
          \/ \E c \in Callbacks, key \in RequestKeys : Reevaluate(r, c, key)
          \/ CallSteps(r)
          \/ CallLost(r)
    \/ \E c \in Callbacks, outcome \in {"materialized", "failed_retryable", "failed_permanent"} :
          Produce(c, outcome)

CallbackSpec == CallbackInit /\ [][CallbackNext]_callbackVars

-----------------------------------------------------------------------------
ExecutionStates == {"none", "observed", "blocked", "eligible", "materialized",
                    "duplicate", "failed_retryable", "failed_permanent"}

(* Every row and every call holds values of its type.                       *)
CallbackTypeOK ==
    /\ ruleState.epoch \in 0..MaxActivations
    /\ \A c \in Callbacks :
          /\ stored[c].pending => stored[c].known
          /\ Len(chain[c]) <= MaxVersions
          /\ execution[c].status \in ExecutionStates
          /\ execution[c].version \in 0..Len(chain[c])
          /\ reviewed[c] \in 0..Len(chain[c])
    /\ handed \subseteq Callbacks /\ answered \subseteq Callbacks
    /\ \A r \in CallbackCalls : callbackCall[r].cb \in Callbacks \union {NoCallback}

(* A callback the provider was told is accepted, other than through the     *)
(* raced branch, has been evaluated: it never stays decision_pending, also  *)
(* when the request that stored it died before observing it and a later     *)
(* delivery found the row (ingest).                                         *)
AnsweredIsEvaluated == \A c \in answered : ~stored[c].pending

(* The versions of an occurrence form one line: the first is the initial    *)
(* evaluation and the only one, every other supersedes the one before it,   *)
(* and no request key made two.  Neither concurrent redeliveries nor        *)
(* concurrent reevaluations fork it (persist).                              *)
ChainIsLinear ==
    \A c \in Callbacks : \A i \in DOMAIN chain[c] :
        /\ chain[c][i].over = i - 1
        /\ chain[c][i].key = Initial <=> i = 1
        /\ \A j \in DOMAIN chain[c] : chain[c][i].key = chain[c][j].key => i = j

(* What the audit offers, reprocessing takes up (automationAuditItem,       *)
(* reprocessDelivery), and the summary counts every callback where the list *)
(* shows it: as recoverable, and as observed or blocked.                    *)
AuditAgrees ==
    \A c \in Callbacks :
        /\ Reprocessable(c) => ReprocessStep(c) # "skip" /\ c \in Summary.recoverable
        /\ Visible(c) /\ AuditStatus(c) = "observed" => c \in Summary.observed
        /\ Visible(c) /\ AuditStatus(c) = "blocked" => c \in Summary.blocked

(* All, of callbacks, repeats, reprocessing and reevaluations in any order  *)
(* (InboundConversionAutomationIngestionService,                            *)
(* ProviderConversionDecisionRepository).                                   *)
CallbacksSafe == CallbackTypeOK /\ AnsweredIsEvaluated /\ ChainIsLinear /\ AuditAgrees
=============================================================================
