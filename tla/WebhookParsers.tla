--------------------------- MODULE WebhookParsers ---------------------------
(***************************************************************************)
(* The parsers of the provider webhooks: Umbler, Gupshup, WAHA and Z-API   *)
(* deliveries become events with a dedupe key, a delivery whose ingress    *)
(* key is known is not parsed again, and events already stored are kept.   *)
(* Beside them the reading of the direct Uazapi webhooks.                  *)
(*                                                                         *)
(* A JSON field is "ok", "none" (null, missing or blank) or "bad" (another *)
(* type, too long, control characters); a body has at most one field that  *)
(* is not "ok", its flaw.                                                  *)
(***************************************************************************)
EXTENDS Integers, Sequences, FiniteSets

CONSTANTS
  WrittenMessages, \* messages of one contact with the business: records of
                   \* id, author, viaBot, private, group, clid, ad, text, second
  Bodies,          \* webhook bodies the four providers may send about them
  DirectBodies,    \* Uazapi bodies: where they carry an ad and a click id
  NoId,            \* a message that its provider sends without an id
  NoReading,       \* nothing has been read yet
  MaxBodies        \* bound: deliveries accepted in a behaviour

VARIABLES
  provider,  \* the provider of the connection that receives the deliveries
  parsers,   \* the providers whose parser the registry holds
  appId,     \* whether Gupshup sends its application id
  ingress,   \* ingress keys of the accepted deliveries
  eventRows, \* stored InboundWebhookEvent rows
  intact,    \* messages that came in a body without a flaw
  reading,   \* the last body and what its parser returned
  direct     \* the last Uazapi body and what was read from it

parserVars == <<provider, parsers, appId, ingress, eventRows, intact, reading, direct>>

NoFlaw == [field |-> "nothing", how |-> "ok"]

FieldOf(x, f) == IF x.flaw.field = f THEN x.flaw.how ELSE "ok"

BoundedString(x, f) == FieldOf(x, f) = "ok"

OptionalString(x, f) == FieldOf(x, f) # "bad"

Complete(x, required, optional) ==
  /\ \A f \in required : BoundedString(x, f)
  /\ \A f \in optional : OptionalString(x, f)

(* A parser result without events, and one with events.                    *)
EmptyParse(class, reason) == [classification |-> class, reason |-> reason, events |-> <<>>]

InvalidPayload == EmptyParse("invalid_payload", "payload_validation_failed")

Unsupported(reason) == EmptyParse("unsupported_event", reason)

DedupeKey(sender, org, channel, messageId) == <<sender, org, channel, messageId>>

ParsedEvent(key, w, class, reason, direction, hasCtwa) ==
  [key |-> key, written |-> w, classification |-> class, reason |-> reason,
   direction |-> direction, hasCtwa |-> hasCtwa]

OneEventResult(e) == [classification |-> e.classification, reason |-> e.reason, events |-> <<e>>]

-----------------------------------------------------------------------------
(* Umbler: one message per delivery.                                        *)
ClassificationForMessage(w) ==
  CASE w.private -> <<"ignored_private", "private_message">>
    [] ~w.private /\ w.author # "contact" -> <<"ignored_outbound", "message_not_from_contact">>
    [] ~w.private /\ w.author = "contact" /\ ~w.clid -> <<"ignored_no_ctwa", "ctwa_missing">>
    [] OTHER -> <<"eligible_route_unresolved", "route_resolution_pending">>

UmblerDirection(w) ==
  CASE w.viaBot \/ w.author \in {"bot", "member"} -> "outbound"
    [] ~w.viaBot /\ w.author = "contact" -> "inbound"
    [] OTHER -> "unknown"

(* The time of the message, or the delivery's when the message has none.    *)
UmblerTimestamp(x) ==
  IF FieldOf(x, "eventAt") = "none" THEN BoundedString(x, "eventDate") ELSE BoundedString(x, "eventAt")

UmblerKey(x) == DedupeKey("umbler", "organization", "channel", x.item.msg.id)

UmblerEvent(x, w, class) ==
  ParsedEvent(UmblerKey(x), w, class[1], class[2], UmblerDirection(w), w.clid)

ParseUmbler(x) ==
  CASE ~Complete(x, {"envelope", "type", "deliveryId"}, {}) -> InvalidPayload
    [] Complete(x, {"envelope", "type", "deliveryId"}, {}) /\ x.event # "message" ->
         Unsupported("event_type_unsupported")
    [] /\ x.event = "message" /\ x.kind # "chat"
       /\ Complete(x, {"envelope", "type", "deliveryId", "payload", "payloadType"}, {}) ->
         Unsupported("payload_type_unsupported")
    [] /\ x.event = "message" /\ x.kind = "chat" /\ UmblerTimestamp(x)
       /\ Complete(x, {"envelope", "type", "deliveryId", "payload", "payloadType", "content", "organization",
                       "channel", "connectedPhone", "contact", "contactPhone", "messageId", "source", "isPrivate"},
                   {"channelName", "contactName", "messageType", "text", "ad"}) ->
         OneEventResult(UmblerEvent(x, x.item.msg, ClassificationForMessage(x.item.msg)))
    [] OTHER -> InvalidPayload

-----------------------------------------------------------------------------
(* Gupshup: the envelope of the WhatsApp cloud, with messages in changes.    *)
GupshupMessageParsed(it) ==
  Complete(it, {"messageId", "from", "timestamp"}, {"messageType", "text", "contactName", "ad"})

GupshupEvent(it) ==
  ParsedEvent(DedupeKey("gupshup", IF appId THEN "application" ELSE "entry", "phone_number", it.msg.id),
              it.msg, IF it.msg.clid THEN "eligible_route_unresolved" ELSE "ignored_no_ctwa",
              IF it.msg.clid THEN "route_resolution_pending" ELSE "ctwa_missing", "inbound", it.msg.clid)

(* A change of an entry the parser reads: its entry and its field are there. *)
ChangeRead(c) == Complete(c, IF appId THEN {"changes", "field"} ELSE {"entryId", "changes", "field"}, {})

MessagesOf(c) ==
  IF ChangeRead(c) /\ c.field = "messages" /\ Complete(c, {"value", "channel", "connectedPhone"}, {})
    THEN c.items ELSE <<>>

(* One part that cannot be read makes the whole delivery invalid.           *)
InvalidChange(c) ==
  \/ ~ChangeRead(c)
  \/ c.field = "messages" /\ ~Complete(c, {"value", "channel", "connectedPhone"}, {})
  \/ \E i \in DOMAIN MessagesOf(c) : ~GupshupMessageParsed(MessagesOf(c)[i])

(* They are looked at only when every message could be read.                *)
GupshupEvents(c) == [i \in DOMAIN MessagesOf(c) |-> GupshupEvent(MessagesOf(c)[i])]

BatchResult(events) ==
  LET paid == \E i \in DOMAIN events : events[i].classification = "eligible_route_unresolved"
  IN [classification |-> IF paid THEN "eligible_route_unresolved" ELSE "ignored_no_ctwa",
      reason |-> IF paid THEN "route_resolution_pending" ELSE "ctwa_missing", events |-> events]

(* Bodies hold two changes at most.                                         *)
AllEvents(changes) ==
  IF Len(changes) = 1 THEN GupshupEvents(changes[1])
  ELSE GupshupEvents(changes[1]) \o GupshupEvents(changes[2])

ParseGupshup(x) ==
  CASE ~Complete(x, {"envelope", "object"}, {}) -> Unsupported("gupshup_observation_only")
    [] Complete(x, {"envelope", "object"}, {}) /\ (x.changes = <<>> \/ \E i \in DOMAIN x.changes : InvalidChange(x.changes[i])) ->
         InvalidPayload
    [] /\ Complete(x, {"envelope", "object"}, {}) /\ x.changes # <<>>
       /\ \A i \in DOMAIN x.changes : ~InvalidChange(x.changes[i]) /\ GupshupEvents(x.changes[i]) = <<>> ->
         Unsupported("message_event_not_found")
    [] OTHER -> BatchResult(AllEvents(x.changes))

-----------------------------------------------------------------------------
(* WAHA and Z-API: one message per delivery, a click id only where the      *)
(* operator's automation adds one, and no groups.                           *)
HasCtwa(w) == w.ad \/ w.clid

SessionEvent(sender, w, messageId, noCtwa) ==
  ParsedEvent(DedupeKey(sender, "session", "session", messageId), w,
              IF w.author = "contact" THEN "eligible_route_unresolved" ELSE "ignored_outbound",
              CASE w.author # "contact" -> "message_from_me"
                [] w.author = "contact" /\ HasCtwa(w) -> "route_resolution_pending"
                [] OTHER -> noCtwa,
              IF w.author = "contact" THEN "inbound" ELSE "outbound", HasCtwa(w))

ParseWaha(x) ==
  CASE ~Complete(x, {"envelope", "type", "session", "payload"}, {}) -> InvalidPayload
    [] Complete(x, {"envelope", "type", "session", "payload"}, {}) /\ x.event # "message" ->
         Unsupported("event_type_unsupported")
    [] /\ x.event = "message"
       /\ Complete(x, {"envelope", "type", "session", "payload", "contactPhone", "connectedPhone", "messageId",
                       "eventAt", "fromMe"}, {"messageType", "text", "ad"}) ->
         IF x.item.msg.group THEN Unsupported("group_messages_not_supported_in_v1")
         ELSE OneEventResult(SessionEvent("waha", x.item.msg, x.item.msg.id, "no_ctwa_in_waha_payload"))
    [] OTHER -> InvalidPayload

(* A hash that forgets the text.                                            *)
FallbackOfSecond(w) == <<"hash", w.second>>

(* The hash of the fields that tell messages without an id apart.           *)
FallbackMessageId(w) == <<"hash", w.second, w.text>>

ZapiMessageId(w) == IF w.id # NoId THEN <<"id", w.id>> ELSE FallbackMessageId(w)

ParseZapi(x) ==
  CASE ~Complete(x, {"envelope", "session", "connectedPhone", "contactPhone", "eventAt", "fromMe"},
                 {"text", "ad", "messageId"}) -> InvalidPayload
    [] /\ Complete(x, {"envelope", "session", "connectedPhone", "contactPhone", "eventAt", "fromMe"},
                   {"text", "ad", "messageId"})
       /\ x.item.msg.group -> Unsupported("group_not_supported_v1")
    [] OTHER -> OneEventResult(SessionEvent("zapi", x.item.msg, ZapiMessageId(x.item.msg), "no_ctwa_in_zapi_payload"))

-----------------------------------------------------------------------------
(* The registry, the ingress key and the rows.                              *)
Providers == {"umbler", "gupshup", "waha", "zapi"}

(* What the registry holds when nothing is passed to it.                    *)
DefaultParsers == {"umbler", "gupshup"}

Parse(x) ==
  CASE x.provider = "umbler" -> ParseUmbler(x)
    [] x.provider = "gupshup" -> ParseGupshup(x)
    [] x.provider = "waha" -> ParseWaha(x)
    [] OTHER -> ParseZapi(x)

(* The provider's id of the delivery, or the hash of the body.              *)
IngressKey(x) ==
  IF x.provider = "umbler" /\ BoundedString(x, "envelope") /\ BoundedString(x, "deliveryId")
    THEN <<"umbler", x.delivery>> ELSE <<"raw", x>>

(* createMany with skipDuplicates on the dedupe key.                        *)
CreateMany(rows, events) ==
  rows \cup {events[i] : i \in {j \in DOMAIN events :
    /\ \A r \in rows : r.key # events[j].key
    /\ \A k \in 1..(j - 1) : events[k].key # events[j].key}}

(* The messages that a body brings.                                         *)
MessagesIn(x) ==
  IF x.provider = "gupshup"
    THEN UNION {{x.changes[i].items[j].msg : j \in DOMAIN x.changes[i].items} :
                  i \in {k \in DOMAIN x.changes : x.changes[k].field = "messages"}}
    ELSE {x.item.msg}

FlawlessBody(x) ==
  /\ x.flaw = NoFlaw
  /\ IF x.provider = "gupshup"
       THEN \A i \in DOMAIN x.changes :
              /\ x.changes[i].flaw = NoFlaw /\ x.changes[i].field = "messages"
              /\ \A j \in DOMAIN x.changes[i].items : x.changes[i].items[j].flaw = NoFlaw
       ELSE x.event = "message" /\ x.kind = "chat" /\ ~(x.provider \in {"waha", "zapi"} /\ x.item.msg.group)

StoreParsed(x, result) ==
  /\ eventRows' = CreateMany(eventRows, result.events)
  /\ reading' = [body |-> x, result |-> result]
  /\ intact' = IF FlawlessBody(x) THEN intact \cup MessagesIn(x) ELSE intact

(* A delivery is accepted and parsed; a known ingress key is only counted.   *)
ReceiveBody(x) ==
  /\ x.provider = provider
  /\ IngressKey(x) \notin ingress
  /\ ingress' = ingress \cup {IngressKey(x)}
  /\ IF x.provider \in parsers
       THEN StoreParsed(x, Parse(x))
       ELSE UNCHANGED <<eventRows, reading, intact>>
  /\ UNCHANGED <<provider, parsers, appId, direct>>

-----------------------------------------------------------------------------
(* parseUazapiWebhook: the first source that carries a value wins.  The ad   *)
(* is looked for in the first referral that is there, the click id in all.   *)
AbsentRecord == [there |-> FALSE, ad |-> FALSE, clid |-> FALSE]

FirstReferral(b) ==
  LET there == {i \in DOMAIN b.referrals : b.referrals[i].there}
  IN IF there = {} THEN AbsentRecord ELSE b.referrals[CHOOSE i \in there : \A j \in there : i <= j]

FirstWith(sources, value) ==
  LET have == {i \in DOMAIN sources : sources[i].there /\ sources[i][value]}
  IN IF have = {} THEN 0 ELSE CHOOSE i \in have : \A j \in have : i <= j

AdSources(b) == <<b.body, FirstReferral(b), b.adsContext, b.adReply>>

ClickSources(b) == <<b.body, b.referrals[1], b.referrals[2], b.referrals[3], b.adReply>>

ParseUazapiWebhook(b) ==
  [ad   |-> FirstWith(AdSources(b), "ad"),
   clid |-> FirstWith(ClickSources(b), "clid")]

ReadDirect(b) ==
  /\ provider = "uazapi"
  /\ direct.body # b
  /\ direct' = [body |-> b, read |-> ParseUazapiWebhook(b)]
  /\ UNCHANGED <<provider, parsers, appId, ingress, eventRows, intact, reading>>

-----------------------------------------------------------------------------
(* A provider gives an id to one message.  Only Z-API may leave it out, and  *)
(* Gupshup delivers what contacts wrote, in a list of changes with lists of  *)
(* messages, in at most two changes here.                                    *)
IsList(s) == s \in Seq({s[i] : i \in DOMAIN s})

ASSUME ParserAssumption ==
  /\ MaxBodies \in Nat
  /\ \A w \in WrittenMessages : {w.private, w.group, w.clid, w.ad} \subseteq BOOLEAN
  /\ \A v, w \in WrittenMessages : v.id = w.id /\ w.id # NoId => v = w
  /\ \A x \in Bodies :
       /\ MessagesIn(x) \subseteq WrittenMessages
       /\ x.provider # "zapi" => \A w \in MessagesIn(x) : w.id # NoId
       /\ x.provider = "gupshup" =>
            /\ \A w \in MessagesIn(x) : w.author = "contact"
            /\ IsList(x.changes) /\ Len(x.changes) <= 2
            /\ \A i \in DOMAIN x.changes : IsList(x.changes[i].items)

ParsersInit ==
  /\ provider \in Providers \cup {"uazapi"}
  /\ parsers \in {DefaultParsers, Providers}
  /\ appId \in BOOLEAN
  /\ ingress = {} /\ eventRows = {} /\ intact = {}
  /\ reading = NoReading
  /\ direct = [body |-> NoReading, read |-> [ad |-> 0, clid |-> 0]]

ParsersNext ==
  \/ Cardinality(ingress) < MaxBodies /\ \E x \in Bodies : ReceiveBody(x)
  \/ \E b \in DirectBodies : ReadDirect(b)

ParsersSpec == ParsersInit /\ [][ParsersNext]_parserVars

Classifications ==
  {"eligible_route_unresolved", "ignored_no_ctwa", "ignored_outbound", "ignored_private"}

ParsersTypeOK ==
  /\ provider \in Providers \cup {"uazapi"} /\ parsers \subseteq Providers /\ appId \in BOOLEAN
  /\ Cardinality(ingress) <= MaxBodies
  /\ intact \subseteq WrittenMessages
  /\ \A r \in eventRows : r.written \in WrittenMessages /\ r.classification \in Classifications
  /\ reading = NoReading \/ reading.body \in Bodies
  /\ direct.body = NoReading \/ direct.body \in DirectBodies

(* Messages without an id that share their second and their text are one     *)
(* (fallbackMessageId).                                                     *)
TwinOf(w, v) == w.id = NoId /\ v.id = NoId /\ w.second = v.second /\ w.text = v.text

(* Whatever deliveries a provider repeats, splits or batches anew, a message *)
(* becomes one stored event (persistResult with skipDuplicates on the key).  *)
OneRowPerMessage ==
  \A r1, r2 \in eventRows : r1.written = r2.written \/ TwinOf(r1.written, r2.written) => r1 = r2

(* Two messages are never taken for one: a message that came in a body       *)
(* without a flaw has a row of its own.                                      *)
IntactHasRow == \A w \in intact : \E r \in eventRows : r.written = w \/ TwinOf(w, r.written)

(* A row that may become a lead is a message the contact wrote, not a private *)
(* note or a group's.                                                       *)
EligibleIsContacts ==
  \A r \in eventRows : r.classification = "eligible_route_unresolved" =>
    /\ r.written.author = "contact"
    /\ provider \in {"umbler", "gupshup"} => r.written.clid
    /\ provider = "umbler" => ~r.written.private
    /\ provider \in {"waha", "zapi"} => ~r.written.group

(* A Gupshup delivery is taken whole or not at all: rows are written for all *)
(* its messages, or one that cannot be read keeps all of them out.           *)
BatchIsWhole ==
  reading # NoReading /\ provider = "gupshup" /\ reading.result.events # <<>> =>
    \A w \in MessagesIn(reading.body) : \E r \in eventRows : r.written = w

(* A click id is found wherever a Uazapi webhook carries it, even where the  *)
(* ad is read from another part (firstStringFromRecords over the referrals). *)
ClickIsFound ==
  direct.body # NoReading =>
    (direct.read.clid = 0 <=> \A c \in {direct.body.body, direct.body.adReply} \cup {direct.body.referrals[i] : i \in 1..3} :
                                 ~(c.there /\ c.clid))

(* The parsers, together: one row per message, none lost or half a batch.    *)
ParsersSafe ==
  ParsersTypeOK /\ OneRowPerMessage /\ IntactHasRow /\ EligibleIsContacts /\ BatchIsWhole /\ ClickIsFound
=============================================================================
