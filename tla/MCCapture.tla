------------------------------ MODULE MCCapture ------------------------------
(* The ways a conversation becomes a conversion: the switches of rules,    *)
(* channels and connections, the direct webhooks, the decision on one      *)
(* message, automation callbacks, live processing beside replays, and the  *)
(* parsers of the webhooks.  A behaviour follows one of them, and the others *)
(* stay as they began.                                                     *)
EXTENDS RuleSwitches, DirectCapture, MessageDecisions, AutomationCallbacks, LeadReplay, WebhookParsers

CONSTANTS m1, m2, c1, l1, k1

VARIABLE focus

(* A paid first message, and an update that puts the sale label on the chat. *)
ContactOfMsg == [m \in Msgs |-> c1]

AuthorOfMsg == [m \in Msgs |-> IF m = m1 THEN "contact" ELSE "none"]

LabelsOfMsg == [m \in Msgs |-> IF m = m2 THEN {l1} ELSE {}]

(* Lines of two attributes, with and without a quantity, and two amounts of *)
(* which one stands beside the phrase of the rule.                         *)
Written(k, n, v, cents, phrase) == [key |-> k, quantity |-> n, value |-> v, cents |-> cents, phrase |-> phrase]

SomeLines ==
  {Written(1, NoQuantity, "a", 0, FALSE), Written(1, 2, "a", 0, TRUE), Written(2, NoQuantity, "x", 0, FALSE),
   Written(0, NoQuantity, Blank, 5, TRUE), Written(0, NoQuantity, Blank, 7, FALSE)}

SomeVariants ==
  {[accepts |-> <<{"a"}, {"x"}>>, cents |-> 3, active |-> TRUE], [accepts |-> <<{"a"}, {"y"}>>, cents |-> 4, active |-> TRUE]}

SomeReadings == [v \in {"a", "x", Blank} |-> {v}]

EventNames == {"Purchase", "AddToCart", "QualifiedLead"}

SomeRules ==
  {r \in [active : {TRUE}, event : EventNames, trigger : {"structured_catalog", "message_phrase", "provider_automation"},
          scope : {"team"}, cents : {0, 9}, currency : {"none", "BRL"}, valueMode : {"fixed", "message_extracted"}] :
     AcceptedRule(r) /\ (r.trigger = "structured_catalog" => r.cents = 0 /\ r.valueMode = "fixed")}

ByMessage(e, l, a) ==
  [source |-> "message", event |-> e, lead |-> l, catalog |-> "active", author |-> a, labels |-> "absent", channel |-> TRUE]

SomeSituations ==
  {ByMessage(e, "resolved", "bot") : e \in EventNames}
    \cup {ByMessage("Purchase", "paid_lead_not_found", "bot"), ByMessage("Purchase", "resolved", "contact")}
    \cup [source : {"automation"}, event : EventNames, lead : {"resolved", "paid_lead_not_found"}, catalog : {"none"},
          author : {"none"}, labels : {"absent", "own", "other"}, channel : BOOLEAN]

(* What a contact, a member and a bot may have written: with a click id and  *)
(* without, as a private note, in a group, and without an id in one second.  *)
SomeWritten ==
  {[id |-> "a", author |-> "contact", viaBot |-> TRUE, private |-> FALSE, group |-> FALSE, clid |-> TRUE, ad |-> TRUE, text |-> "t", second |-> 1],
   [id |-> "b", author |-> "contact", viaBot |-> FALSE, private |-> FALSE, group |-> TRUE, clid |-> FALSE, ad |-> TRUE, text |-> "t", second |-> 1],
   [id |-> "c", author |-> "member", viaBot |-> FALSE, private |-> FALSE, group |-> FALSE, clid |-> TRUE, ad |-> FALSE, text |-> "t", second |-> 2],
   [id |-> "d", author |-> "contact", viaBot |-> FALSE, private |-> TRUE, group |-> FALSE, clid |-> TRUE, ad |-> FALSE, text |-> "t", second |-> 2]}
  \cup [id : {NoId}, author : {"contact"}, viaBot : {FALSE}, private : {FALSE}, group : {FALSE}, clid : {FALSE},
        ad : {FALSE}, text : {"t", "u"}, second : {1, 2}]

WithId == {w \in SomeWritten : w.id # NoId}

Flaws(fields) == {NoFlaw} \cup [field : fields, how : {"none", "bad"}]

ItemOfMsg(w) == [msg |-> w, flaw |-> NoFlaw]

SingleBodies ==
  {x \in [provider : {"umbler", "waha", "zapi"}, event : {"message", "other"}, kind : {"chat", "other"}, delivery : {"d1", "d2"},
          item : {ItemOfMsg(w) : w \in SomeWritten}, changes : {<<>>},
          flaw : Flaws({"envelope", "type", "deliveryId", "payload", "payloadType", "content", "session", "connectedPhone",
                        "contactPhone", "messageId", "eventAt", "eventDate", "fromMe", "isPrivate", "text", "ad"})] :
     /\ x.provider # "zapi" => x.item.msg.id # NoId
     /\ x.provider = "zapi" => x.event = "message" /\ x.flaw # [field |-> "messageId", how |-> "none"]
     /\ x.provider # "umbler" => x.kind = "chat" /\ x.delivery = "d1"
     /\ x.flaw # NoFlaw => x.item.msg.id = "a" /\ x.kind = "chat" /\ x.event = "message"}

ChangesOf(items) == {[field |-> f, flaw |-> NoFlaw, items |-> items] : f \in {"messages", "statuses"}}

SomeChanges ==
  UNION {ChangesOf(items) : items \in {<<>>} \cup {<<ItemOfMsg(w)>> : w \in {v \in WithId : v.author = "contact"}}}
    \cup {[field |-> "messages", flaw |-> f, items |-> <<ItemOfMsg(w)>>] :
             f \in Flaws({"entryId", "changes", "field", "value", "channel"}), w \in {v \in WithId : v.id = "a"}}
    \cup {[field |-> "messages", flaw |-> NoFlaw, items |-> <<[msg |-> w, flaw |-> f], ItemOfMsg(v)>>] :
             f \in Flaws({"messageId", "text", "ad"}), w \in {u \in WithId : u.id = "a"}, v \in {u \in WithId : u.id = "b"}}

BatchBodies ==
  {x \in [provider : {"gupshup"}, flaw : Flaws({"envelope", "object"}), event : {"message"}, kind : {"chat"},
          changes : {<<>>} \cup {<<c>> : c \in SomeChanges} \cup {<<c, d>> : c \in SomeChanges, d \in ChangesOf(<<>>)}] :
     x.flaw # NoFlaw => x.changes = <<>>}

Carrier == {AbsentRecord, [there |-> TRUE, ad |-> TRUE, clid |-> FALSE], [there |-> TRUE, ad |-> FALSE, clid |-> TRUE]}

SomeDirect ==
  {[body |-> [there |-> TRUE, ad |-> a, clid |-> FALSE], referrals |-> <<r1, r2, r3>>, adsContext |-> AbsentRecord, adReply |-> y] :
     a \in BOOLEAN, r1 \in Carrier, r2 \in Carrier, r3 \in Carrier, y \in Carrier}

AllBodies == SingleBodies \cup BatchBodies

(* Of three calls the last is an operator's. *)
CallbackScene ==
  calls' = 3 /\ calls = 2 => \E r \in CallbackCalls : callbackCall'[r] # callbackCall[r] /\ callbackCall'[r].kind # "ingest"

PathInit ==
  /\ SwitchInit /\ CaptureInit /\ MessageInit /\ CallbackInit /\ ReplayInit /\ ParsersInit
  /\ focus \in {"switches", "capture", "messages", "callbacks", "replay", "parsers"}
  /\ focus # "replay" => connection.status = "observation" /\ ~certified
  /\ focus # "callbacks" => ~paidLead /\ ~heard /\ content[k1] = "whole"
  /\ content[k1] \in {"malformed", "unmatched"} => ~paidLead /\ ~heard  \* which are not looked at
  /\ focus # "parsers" => provider = "uazapi" /\ parsers = Providers /\ appId

PathNext ==
  /\ UNCHANGED focus
  /\ \/ focus = "switches" /\ SwitchNext /\ UNCHANGED <<captureVars, messageVars, callbackVars, replayVars, parserVars>>
     \/ focus = "capture" /\ CaptureNext /\ UNCHANGED <<switchVars, messageVars, callbackVars, replayVars, parserVars>>
     \/ focus = "messages" /\ MessageNext /\ UNCHANGED <<switchVars, captureVars, callbackVars, replayVars, parserVars>>
     \/ focus = "callbacks" /\ CallbackNext /\ CallbackScene /\ UNCHANGED <<switchVars, captureVars, messageVars, replayVars, parserVars>>
     \/ focus = "replay" /\ ReplayNext /\ UNCHANGED <<switchVars, captureVars, messageVars, callbackVars, parserVars>>
     \/ focus = "parsers" /\ ParsersNext /\ UNCHANGED <<switchVars, captureVars, messageVars, callbackVars, replayVars>>

PathSpec == PathInit /\ [][PathNext]_<<switchVars, captureVars, messageVars, callbackVars, replayVars, parserVars, focus>>

Permuted == Permutations(Hooks) \cup Permutations(RequestKeys)
=============================================================================
