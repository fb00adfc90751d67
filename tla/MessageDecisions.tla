-------------------------- MODULE MessageDecisions --------------------------
(***************************************************************************)
(* What one message, or one automation callback, of a provider means: the  *)
(* structured-catalogue parser, the canonical and the legacy decision      *)
(* engines, and the rollout that runs them side by side and records how    *)
(* they compare.                                                           *)
(*                                                                         *)
(* A message is a sequence of lines.  A line names an attribute of the     *)
(* catalogue ("Tamanho: 2x 3m") or none, carries one amount of money or    *)
(* none, and may hold the rule's phrase.  Spelling (accents, case, blanks, *)
(* currency signs) is abstracted to the token a line is normalised to.     *)
(***************************************************************************)
EXTENDS Integers, SequencesExt

CONSTANTS Attributes,   \* number of attributes of the catalogue, 1 or 2
          MessageLines, \* the lines a message is written from
          MaxLines,
          Variants,     \* the catalogue: [accepts, cents, active]
          Readings,     \* the tokens a written value is read as (3m as 3m and 3)
          DecisionRules, Situations, NoQuantity, Blank

ASSUME MessageAssumption ==
    /\ Attributes \in 1..2
    /\ MaxLines \in Nat
    /\ \A v \in Variants : v.cents \in Nat \ {0}

VARIABLES text,       \* the lines written so far
          verdict,    \* what the rollout answered, NoVerdict before
          comparison  \* the shadow comparison stored, NoComparison if none

messageVars == <<text, verdict, comparison>>

-----------------------------------------------------------------------------
(* The structured-catalogue parser.                                         *)

Unlabelled == 0
NoItem == <<>>
NoCents == 0

LinesOf(m) == {i \in DOMAIN m : m[i].key # Unlabelled}

(* One line of parseRawItems: the first attribute, or one the current item  *)
(* already has, closes that item and opens another.                         *)
OpensItem(current, ln) == ln.key = 1 \/ ln.key \in DOMAIN current

AddRawLine(acc, ln) ==
    LET opens == OpensItem(acc.current, ln)
        kept == IF opens THEN NoItem ELSE acc.current
        items == IF opens /\ acc.current # NoItem
                   THEN Append(acc.items, acc.current) ELSE acc.items
        it == (ln.key :> [quantity |-> ln.quantity, value |-> ln.value]) @@ kept
    IN CASE ln.key = Unlabelled -> acc
         [] ln.key # Unlabelled /\ Attributes = 1 -> [items |-> Append(items, it), current |-> NoItem]
         [] OTHER -> [items |-> items, current |-> it]

(* Mutant: the item still open at the end of the message is forgotten.      *)
ParseClosedItems(m) ==
    FoldLeft(AddRawLine, [items |-> <<>>, current |-> NoItem], m).items

AllItems(read) ==
    IF read.current = NoItem THEN read.items ELSE Append(read.items, read.current)

ParseRawItems(m) == AllItems(FoldLeft(AddRawLine, [items |-> <<>>, current |-> NoItem], m))

(* "2x 3m" is two of 3m; between 1 and 100, and only in the first attribute. *)
ParseQuantity(raw) ==
    IF raw.quantity = NoQuantity
      THEN [quantity |-> 1, value |-> raw.value, valid |-> TRUE]
      ELSE [quantity |-> raw.quantity, value |-> raw.value,
            valid |-> raw.quantity \in 1..100]

(* A value that kept its "2x" is a text no variant accepts.                  *)
MatchingVariants(values) ==
    {v \in Variants :
        /\ v.active
        /\ \A k \in 1..Attributes :
              /\ values[k].quantity = NoQuantity
              /\ Readings[values[k].value] \intersect v.accepts[k] # {}}

ParsedItem(first, values, filled, found) ==
    LET reason == CASE ~first.valid -> "invalid_quantity"
                    [] first.valid /\ filled # 1..Attributes -> "awaiting_data"
                    [] first.valid /\ filled = 1..Attributes /\ found = {} ->
                          "unknown_combination"
                    [] first.valid /\ filled = 1..Attributes /\ Cardinality(found) > 1 ->
                          "ambiguous_variant"
                    [] OTHER -> "matched"
    IN [reason |-> reason,
        filled |-> filled,
        quantity |-> IF first.valid THEN first.quantity ELSE 1,
        subtotal |-> IF reason = "matched"
                       THEN (CHOOSE v \in found : TRUE).cents * first.quantity
                       ELSE NoCents]

ItemOfValues(first, values) ==
    ParsedItem(first, values, {k \in 1..Attributes : values[k].value # Blank},
               MatchingVariants(values))

ItemOf(first, it) ==
    ItemOfValues(first, [k \in 1..Attributes |->
        CASE k = 1 -> [quantity |-> NoQuantity, value |-> first.value]
          [] k # 1 /\ k \in DOMAIN it -> it[k]
          [] OTHER -> [quantity |-> NoQuantity, value |-> Blank]])

ParseItem(it) ==
    ItemOf(ParseQuantity(IF 1 \in DOMAIN it THEN it[1]
                         ELSE [quantity |-> NoQuantity, value |-> Blank]), it)

(* The amount outside the catalogue's lines, if there is exactly one.        *)
ObservedPayment(m, excluded) ==
    LET amounts == {m[i].cents : i \in DOMAIN m \ excluded} \ {NoCents}
    IN IF Cardinality(amounts) = 1 THEN CHOOSE c \in amounts : TRUE ELSE NoCents

MatchedPhrase(m) == \E i \in DOMAIN m : m[i].phrase

EmptyResult(reason, class, items, observed) ==
    [matched |-> FALSE, reason |-> reason, classification |-> class,
     items |-> items, cents |-> NoCents, observed |-> observed, currency |-> "BRL"]

(* matchStructuredCatalogMessage, for an active catalogue: the first item    *)
(* that cannot be priced decides, and nothing is recognised without all.     *)
Unpriced(items) == {i \in DOMAIN items : items[i].reason # "matched"}

JudgedItems(items, observed) ==
    CASE \A i \in DOMAIN items : items[i].filled = {} ->
           EmptyResult("empty_template", "ignored", <<>>, observed)
      [] (\E i \in DOMAIN items : items[i].filled # {}) /\ Unpriced(items) # {} ->
           EmptyResult(items[CHOOSE i \in Unpriced(items) : \A j \in Unpriced(items) : i <= j].reason,
                       IF \A i \in Unpriced(items) : items[i].reason = "awaiting_data"
                         THEN "awaiting_data" ELSE "review_required",
                       items, observed)
      [] OTHER ->
           [matched |-> TRUE, reason |-> "matched", classification |-> "recognized",
            items |-> items, observed |-> observed, currency |-> "BRL",
            cents |-> FoldLeft(LAMBDA sum, it : sum + it.subtotal, 0, items)]

Priced(raw) == [i \in DOMAIN raw |-> ParseItem(raw[i])]

MatchCatalogMessage(m) ==
    IF MatchedPhrase(m)
      THEN JudgedItems(Priced(ParseRawItems(m)), ObservedPayment(m, LinesOf(m)))
      ELSE EmptyResult("trigger_missing", "ignored", <<>>, NoCents)

-----------------------------------------------------------------------------
(* The event catalogue and the settings of a rule.                          *)

ValuePolicy(ev) ==
    CASE ev \in {"Purchase", "InitiateCheckout"} -> "required"
      [] ev \in {"ViewContent", "AddToCart", "CartAbandoned", "OrderCreated"} -> "optional"
      [] OTHER -> "none"

DedupeMode(ev) ==
    IF ev \in {"LeadSubmitted", "QualifiedLead"} THEN "lifetime" ELSE "rolling_window"

NoCurrency == "none"

(* The rules the create schemas let through: an event without value takes   *)
(* no monetary field, one that requires a value and is "fixed" has one, and *)
(* a catalogue belongs to Purchase.                                         *)
AcceptedRule(r) ==
    /\ ValuePolicy(r.event) = "none" =>
          r.cents = NoCents /\ r.currency = NoCurrency /\ r.valueMode = "fixed"
    /\ ValuePolicy(r.event) # "none" => r.currency = "BRL"
    /\ ValuePolicy(r.event) = "required" /\ r.valueMode = "fixed"
          /\ r.trigger # "structured_catalog" => r.cents # NoCents
    /\ r.trigger = "structured_catalog" => r.event = "Purchase"
    /\ r.trigger = "provider_automation" => r.valueMode = "fixed"

AuthorAllowed(scope, author) ==
    CASE scope = "both" -> author \in {"contact", "organization_member", "bot"}
      [] scope = "contact" -> author = "contact"
      [] OTHER -> author \in {"organization_member", "bot"}

-----------------------------------------------------------------------------
(* The two engines.  A decision is what production and the audit read of it. *)

NoVerdict == [code |-> "none", reason |-> "none", lead |-> "none",
              event |-> "none", items |-> <<>>, cents |-> NoCents,
              observed |-> NoCents, currency |-> NoCurrency, dedupe |-> "none"]

DecisionOf(r, s, code, reason, match, dedupe) ==
    [code |-> code, reason |-> reason, lead |-> s.lead, event |-> s.event,
     items |-> match.items, cents |-> match.cents, observed |-> match.observed,
     currency |-> match.currency, dedupe |-> dedupe]

Valueless == [items |-> <<>>, cents |-> NoCents, observed |-> NoCents,
              currency |-> NoCurrency, matched |-> TRUE]

(* The message's own amount first when the rule extracts it, the configured *)
(* average otherwise.                                                       *)
Average(r, extracted) ==
    LET cents == IF extracted # NoCents THEN extracted ELSE r.cents
        currency == IF r.currency = NoCurrency /\ extracted # NoCents THEN "BRL" ELSE r.currency
        matched == cents # NoCents /\ currency # NoCurrency
    IN [items |-> <<>>, matched |-> matched,
        cents |-> IF matched THEN cents ELSE NoCents,
        observed |-> IF matched THEN extracted ELSE NoCents,
        currency |-> IF matched THEN currency ELSE r.currency]

AverageValueMatch(r, s, m) ==
    Average(r, IF r.valueMode = "message_extracted" /\ s.source = "message"
                 THEN ObservedPayment(m, {}) ELSE NoCents)

NotApplicable == [outcome |-> "not_applicable", reason |-> "none", match |-> Valueless]

CatalogOutcome(match) ==
    IF match.reason = "trigger_missing"
      THEN NotApplicable
      ELSE [outcome |-> CASE match.classification = "ignored" -> "ignored_empty_template"
                          [] match.classification # "ignored" /\ match.matched -> "eligible"
                          [] OTHER -> "review_required",
            reason |-> IF match.matched THEN "catalog_matched" ELSE match.reason,
            match |-> match]

ReadsCatalog(r, s) ==
    s.source = "message" /\ s.catalog = "active" /\ AuthorAllowed(r.scope, s.author)

EvaluateStructuredCatalog(r, s, m) ==
    IF ReadsCatalog(r, s) THEN CatalogOutcome(MatchCatalogMessage(m)) ELSE NotApplicable

(* What remains once a phrase or an automation has matched: the event's     *)
(* value policy.                                                            *)
ByPolicy(policy, match, reason) ==
    CASE policy = "required" /\ ~match.matched ->
           [outcome |-> "review_required", reason |-> "average_value_missing", match |-> match]
      [] policy # "none" /\ match.matched ->
           [outcome |-> "eligible", reason |-> reason, match |-> match]
      [] OTHER -> [outcome |-> "eligible", reason |-> reason, match |-> Valueless]

UnderValuePolicy(r, s, m, reason) ==
    ByPolicy(ValuePolicy(r.event), AverageValueMatch(r, s, m), reason)

EvaluatePhrase(r, s, m) ==
    IF s.source # "message" \/ ~AuthorAllowed(r.scope, s.author) \/ ~MatchedPhrase(m)
      THEN NotApplicable
      ELSE UnderValuePolicy(r, s, m, "average_value_message_matched")

(* Umbler's callback carries no labels; a UAZAPI label update must name one *)
(* of the rule's.                                                           *)
EvaluateAutomation(r, s, m) ==
    IF s.source # "automation" \/ s.labels = "other"
      THEN NotApplicable
      ELSE UnderValuePolicy(r, s, m, "automation_matched")

EvaluateRule(r, s, m) ==
    CASE ~r.active \/ s.event # r.event -> NotApplicable
      [] r.active /\ s.event = r.event /\ r.trigger = "structured_catalog" ->
            EvaluateStructuredCatalog(r, s, m)
      [] r.active /\ s.event = r.event /\ r.trigger = "message_phrase" ->
            EvaluatePhrase(r, s, m)
      [] OTHER -> EvaluateAutomation(r, s, m)

(* The engine's "duplicate" outcome needs a duplicateMatch in its context,  *)
(* which no caller passes: duplicates are found when an event is recorded.   *)
CanonicalVerdict(r, s, e) ==
    CASE e.outcome = "not_applicable" -> NoVerdict
      [] e.outcome = "ignored_empty_template" ->
           DecisionOf(r, s, e.outcome, "empty_template", e.match, "none")
      [] e.outcome \in {"review_required", "eligible"} /\ s.lead # "resolved" ->
           DecisionOf(r, s, "ignored_untracked_lead", s.lead, e.match, "none")
      [] OTHER -> DecisionOf(r, s, e.outcome, e.reason, e.match, DedupeMode(r.event))

Canonical(r, s, m) == CanonicalVerdict(r, s, EvaluateRule(r, s, m))

(* The previous engine: no paid lead, no decision; no average, no decision. *)
LegacyMatch(r) == [items |-> <<>>, cents |-> r.cents, observed |-> NoCents,
                   currency |-> r.currency]

LegacyDedupe(r) == IF r.event = "QualifiedLead" THEN "lifetime" ELSE "rolling_window"

LegacyCatalogVerdict(r, s, match) ==
    IF match.classification = "ignored"
      THEN NoVerdict
      ELSE DecisionOf(r, s, IF match.matched THEN "eligible" ELSE "review_required",
                      IF match.matched THEN "catalog_matched" ELSE match.reason,
                      match, LegacyDedupe(r))

LegacyCatalog(r, s, m) ==
    IF ReadsCatalog(r, s) THEN LegacyCatalogVerdict(r, s, MatchCatalogMessage(m)) ELSE NoVerdict

LegacyPhrase(r, s, m) ==
    IF \/ s.source # "message" \/ ~AuthorAllowed(r.scope, s.author)
       \/ ~MatchedPhrase(m) \/ r.cents = NoCents \/ r.currency = NoCurrency
      THEN NoVerdict
      ELSE DecisionOf(r, s, "eligible", "average_value_message_matched",
                      LegacyMatch(r), LegacyDedupe(r))

LegacyAutomation(r, s) ==
    CASE s.source # "automation" -> NoVerdict
      [] s.source = "automation" /\ r.event = "QualifiedLead" ->
            DecisionOf(r, s, "eligible", "automation_matched", Valueless, LegacyDedupe(r))
      [] s.source = "automation" /\ r.event # "QualifiedLead"
            /\ (r.cents = NoCents \/ r.currency = NoCurrency) -> NoVerdict
      [] OTHER -> DecisionOf(r, s, "eligible", "automation_matched", LegacyMatch(r),
                             LegacyDedupe(r))

LegacyEvaluate(r, s, m) ==
    CASE ~r.active \/ s.event # r.event \/ s.lead # "resolved" -> NoVerdict
      [] r.active /\ s.event = r.event /\ s.lead = "resolved"
            /\ r.trigger = "structured_catalog" -> LegacyCatalog(r, s, m)
      [] r.active /\ s.event = r.event /\ s.lead = "resolved"
            /\ r.trigger = "message_phrase" -> LegacyPhrase(r, s, m)
      [] OTHER -> LegacyAutomation(r, s)

-----------------------------------------------------------------------------
(* The rollout and its comparisons.                                         *)

ConversionOf(d) == <<d.items, d.cents, d.observed, d.currency>>

(* semanticProjection and mismatchCode: the dedupe policy is not compared.   *)
MismatchCode(legacy, canonical) ==
    CASE (legacy = NoVerdict) # (canonical = NoVerdict) -> "applicability_mismatch"
      [] legacy # NoVerdict /\ canonical # NoVerdict /\ legacy.code # canonical.code ->
            "decision_code_mismatch"
      [] legacy # NoVerdict /\ canonical # NoVerdict /\ legacy.code = canonical.code
            /\ legacy.lead # canonical.lead -> "lead_resolution_mismatch"
      [] legacy # NoVerdict /\ canonical # NoVerdict /\ legacy.code = canonical.code
            /\ legacy.lead = canonical.lead
            /\ ConversionOf(legacy) # ConversionOf(canonical) -> "conversion_payload_mismatch"
      [] legacy # NoVerdict /\ canonical # NoVerdict /\ legacy.code = canonical.code
            /\ legacy.lead = canonical.lead /\ ConversionOf(legacy) = ConversionOf(canonical)
            /\ legacy.reason # canonical.reason -> "reason_code_mismatch"
      [] OTHER -> "none"

NoComparison == [legacy |-> NoVerdict, canonical |-> NoVerdict, mismatch |-> "not_recorded"]

Compared(legacy, canonical) ==
    [legacy |-> legacy, canonical |-> canonical, mismatch |-> MismatchCode(legacy, canonical)]

ComparisonOf(r, s, m) == Compared(LegacyEvaluate(r, s, m), Canonical(r, s, m))

MessageInit ==
    /\ text = <<>>
    /\ verdict = NoVerdict
    /\ comparison = NoComparison

(* The author writes one more line.                                         *)
WriteLine(ln) ==
    /\ Len(text) < MaxLines
    /\ verdict = NoVerdict /\ comparison = NoComparison
    /\ text' = Append(text, ln)
    /\ UNCHANGED <<verdict, comparison>>

DecideCanonical(r, s) ==
    /\ verdict' = Canonical(r, s, text)
    /\ UNCHANGED <<text, comparison>>

DecideLegacy(r, s) ==
    /\ verdict' = LegacyEvaluate(r, s, text)
    /\ UNCHANGED <<text, comparison>>

(* Shadow: both engines run, the legacy decision is the one returned, and   *)
(* the comparison is stored unless the channel is unknown or storing fails. *)
DecideShadow(r, s, kept) ==
    /\ kept => s.channel
    /\ verdict' = LegacyEvaluate(r, s, text)
    /\ comparison' = IF kept THEN ComparisonOf(r, s, text) ELSE comparison
    /\ UNCHANGED text

Decide(r, s) ==
    \/ DecideCanonical(r, s)
    \/ DecideLegacy(r, s)
    \/ \E kept \in BOOLEAN : DecideShadow(r, s, kept)

(* A callback has no text; a message is judged when it is written.          *)
MessageNext ==
    \/ \E ln \in MessageLines : WriteLine(ln)
    \/ /\ verdict = NoVerdict /\ comparison = NoComparison
       /\ \E r \in DecisionRules, s \in Situations :
             /\ AcceptedRule(r)
             /\ s.source = "automation" => text = <<>>
             /\ Decide(r, s)

MessageSpec == MessageInit /\ [][MessageNext]_messageVars

-----------------------------------------------------------------------------
Codes == {"none", "ignored_empty_template", "ignored_untracked_lead",
          "review_required", "eligible"}

(* Messages are written from the given lines and every answer is one of the *)
(* decisions the engines know.                                              *)
MessageTypeOK ==
    /\ text \in Seq(MessageLines) /\ Len(text) <= MaxLines
    /\ verdict.code \in Codes
    /\ comparison.legacy.code \in Codes /\ comparison.canonical.code \in Codes

(* The value of a recognised catalogue message is the sum, over the lines   *)
(* that name the first attribute, of the quantity written there times the   *)
(* price of the one variant the lines up to the next such line describe: no *)
(* item is lost, counted twice or priced from a neighbour's lines           *)
(* (parseRawItems and matchStructuredCatalogMessage).                       *)
NextFirst(m, i) == {j \in DOMAIN m : j > i /\ m[j].key = 1}

ItemLines(m, i) == {j \in DOMAIN m : j >= i /\ \A n \in NextFirst(m, i) : j < n}

PriceAt(m, i) ==
    LET described == {v \in Variants :
                        /\ v.active
                        /\ \A k \in 1..Attributes : \E j \in ItemLines(m, i) :
                              m[j].key = k /\ Readings[m[j].value] \intersect v.accepts[k] # {}}
    IN IF described = {} THEN NoCents ELSE (CHOOSE v \in described : TRUE).cents

QuantityAt(m, i) == IF m[i].quantity = NoQuantity THEN 1 ELSE m[i].quantity

IsSum(m, match) ==
    match.matched =>
        match.cents =
            FoldLeft(LAMBDA sum, i : sum + PriceAt(m, i) * QuantityAt(m, i), 0,
                     SetToSeq({i \in DOMAIN m : m[i].key = 1}))

TotalIsSum == IsSum(text, MatchCatalogMessage(text))

(* Whatever a channel is switched to, a shadow comparison that says the two *)
(* engines match means production would have done the same with either: the *)
(* same decision, value, items, lead and the same dedupe policy, which the  *)
(* comparison itself never looks at (mismatchCode).                         *)
MatchMeansSame == comparison.mismatch = "none" => comparison.legacy = comparison.canonical

(* No event that requires a value is sent without one, by either engine and *)
(* whichever way its rule is triggered (conversionEventValuePolicy).        *)
RequiredHasValue ==
    verdict.code = "eligible" /\ ValuePolicy(verdict.event) = "required" =>
        verdict.cents > 0 /\ verdict.currency # NoCurrency

(* All three, and the types, for every message written from the given      *)
(* lines under every accepted rule (ProviderConversionEngineRolloutService). *)
DecisionsAgree == MessageTypeOK /\ TotalIsSum /\ MatchMeansSame /\ RequiredHasValue
=============================================================================
