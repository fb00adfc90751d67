---------------------------- MODULE CaptureProofs ----------------------------
(***************************************************************************)
(* The switches of rules, channels and connections, the callbacks of       *)
(* automations, replays beside live processing, the direct webhooks and    *)
(* the parsers, for every number of channels, callbacks, events, batches,  *)
(* messages, bodies and overlapping requests.                              *)
(***************************************************************************)
EXTENDS RuleSwitches, AutomationCallbacks, LeadReplay, DirectCapture, WebhookParsers, BullJobProofs,
        SequenceTheorems, FiniteSetTheorems, WellFoundedInduction, TLAPS

(***************************************************************************)
(* The switches.  A request under way knows what it will write.            *)
(***************************************************************************)
ConnStatuses == {"observation", "production", "paused"}

ConnRecs == [status : ConnStatuses, stamped : BOOLEAN, removed : BOOLEAN]

LineRecs == [status : {"discovered", "active", "paused"}, stamped : BOOLEAN]

ChangeRecs == [active : {"on", "off", "keep"}, mode : Modes \cup {"keep"}, lines : SUBSET Lines, phrases : BOOLEAN,
               catalog : {"keep", "first", "second"}]

ReadRecs == [active : BOOLEAN, mode : Modes, lines : SUBSET Lines]

RequestRecs == [kind : {"idle", "line", "conn", "rule", "rotate"}, line : Lines \cup {NoLine},
                to : ConnStatuses \cup {"", "active"}, seen : ConnStatuses \cup {""},
                read : ReadRecs, change : Changes \cup {Keep}, claim : BOOLEAN]

RequestKnows(q) ==
  /\ q.kind = "line" => q.line \in Lines /\ q.to \in {"active", "paused"}
  /\ q.kind = "conn" => q.to \in ConnStatuses

SwitchInv ==
  /\ SwitchTypeOK /\ RemovedStaysOff
  /\ request \in [Changers -> RequestRecs] /\ \A o \in Changers : RequestKnows(request[o])

LEMMA ChangesTyped == \A ch \in Changes \cup {Keep} : ch \in ChangeRecs
<1>1. Keep \in ChangeRecs
  BY DEF Keep, ChangeRecs, Modes
<1>2. /\ \A a \in {"on", "off"} : [Keep EXCEPT !.active = a] \in ChangeRecs
      /\ \A m \in Modes : [Keep EXCEPT !.mode = m] \in ChangeRecs
      /\ \A ls \in SUBSET Lines : [Keep EXCEPT !.lines = ls] \in ChangeRecs
      /\ [Keep EXCEPT !.phrases = TRUE] \in ChangeRecs
      /\ \A c \in {"first", "second"} : [Keep EXCEPT !.catalog = c] \in ChangeRecs
  BY <1>1 DEF ChangeRecs
<1>3. \A ls \in SUBSET Lines : [Keep EXCEPT !.mode = "production", !.lines = ls] \in ChangeRecs
  BY DEF ChangeRecs, Keep, Modes
<1> QED
  BY <1>1, <1>2, <1>3, Zenon DEF Changes

LEMMA IdleTyped == NoOp \in RequestRecs /\ RequestKnows(NoOp)
BY DEF NoOp, RequestRecs, RequestKnows, Read, NoRule, ReadRecs, Modes, ConnStatuses

LEMMA SwitchesStart == SwitchInit => SwitchInv
<1> SUFFICES ASSUME SwitchInit PROVE SwitchInv
  OBVIOUS
<1>1. conn \in ConnRecs /\ line \in [Lines -> LineRecs] /\ rule \in RuleRecs
  BY DEF SwitchInit, ConnRecs, ConnStatuses, LineRecs, RuleRecs, NoRule, Kinds, Modes
<1>2. request \in [Changers -> RequestRecs] /\ \A o \in Changers : request[o] = NoOp
  BY IdleTyped DEF SwitchInit
<1>3. /\ NoOp.kind = "idle" /\ NoOp.line = NoLine /\ NoOp.change = Keep /\ NoOp.claim = TRUE
      /\ NoOp.read \in [active : BOOLEAN, mode : Modes, lines : SUBSET Lines]
  BY DEF NoOp, Read, NoRule, Modes
<1>4. SwitchTypeOK
  BY <1>1, <1>2, <1>3, Zenon DEF SwitchTypeOK, SwitchInit, ConnRecs, ConnStatuses, LineRecs
<1> QED
  BY <1>2, <1>4, IdleTyped DEF SwitchInv, RemovedStaysOff, SwitchInit, NoRule

(* The end of a request leaves the others theirs, but for the claim. *)
LEMMA DoneTyped ==
  ASSUME request \in [Changers -> RequestRecs], \A x \in Changers : RequestKnows(request[x]),
         NEW o \in Changers, NEW wrote, Done(o, wrote)
  PROVE  request' \in [Changers -> RequestRecs] /\ \A x \in Changers : RequestKnows(request'[x])
<1>1. ASSUME NEW x \in Changers
      PROVE  /\ [request[x] EXCEPT !.claim = FALSE] \in RequestRecs
             /\ RequestKnows([request[x] EXCEPT !.claim = FALSE])
  <2>1. request[x] \in RequestRecs /\ RequestKnows(request[x])
    OBVIOUS
  <2> QED
    BY <2>1 DEF RequestRecs, RequestKnows
<1>2. \A x \in Changers : request'[x] \in {NoOp, request[x], [request[x] EXCEPT !.claim = FALSE]}
  BY DEF Done
<1>3. request' = [x \in Changers |-> request'[x]]
  BY DEF Done
<1>4. \A x \in Changers : request'[x] \in RequestRecs /\ RequestKnows(request'[x])
  BY <1>1, <1>2, IdleTyped
<1> QED
  BY <1>3, <1>4

LEMMA StartTyped ==
  ASSUME request \in [Changers -> RequestRecs], \A x \in Changers : RequestKnows(request[x]),
         NEW o \in Changers, NEW q \in RequestRecs, RequestKnows(q), Starts(o, q)
  PROVE  request' \in [Changers -> RequestRecs] /\ \A x \in Changers : RequestKnows(request'[x])
BY DEF Starts

(* Where one switch is written the others keep their types; a channel that *)
(* is cascaded or stamped is a channel.                                    *)
LEMMA LinesTyped ==
  ASSUME SwitchInv, NEW ls
  PROVE  /\ CascadeLines(ls) \in [Lines -> LineRecs]
         /\ \A f \in [Lines -> LineRecs] : \A to : StampLines(f, to) \in [Lines -> LineRecs]
<1>1. line \in [Lines -> LineRecs]
  BY DEF SwitchInv, SwitchTypeOK, LineRecs
<1>2. LineRow("active", conn.status) \in LineRecs
  BY DEF LineRow, LineRecs
<1>3. \A r \in LineRecs, b \in BOOLEAN : [r EXCEPT !.stamped = b] \in LineRecs
  BY DEF LineRecs
<1>4. CascadeLines(ls) \in [Lines -> LineRecs]
  BY <1>1, <1>2 DEF CascadeLines
<1>5. ASSUME NEW f \in [Lines -> LineRecs], NEW to PROVE StampLines(f, to) \in [Lines -> LineRecs]
  BY <1>3 DEF StampLines
<1> QED
  BY <1>4, <1>5

LEMMA CascadeTyped ==
  ASSUME SwitchInv, NEW ls, Cascade(ls)
  PROVE  conn' \in ConnRecs /\ ~conn'.removed /\ line' \in [Lines -> LineRecs]
<1>1. conn \in ConnRecs /\ ~conn.removed
  BY DEF SwitchInv, SwitchTypeOK, ConnRecs, ConnStatuses, Cascade, MayCascade
<1>2. line' \in [Lines -> LineRecs]
  BY LinesTyped DEF Cascade
<1>3. CASE conn.status = "production"
  BY <1>1, <1>2, <1>3 DEF Cascade
<1>4. CASE conn.status # "production"
  <2>1. conn' = [conn EXCEPT !.status = "production", !.stamped = TRUE]
    BY <1>4 DEF Cascade
  <2>2. conn' \in ConnRecs /\ ~conn'.removed
    BY <1>1, <2>1 DEF ConnRecs, ConnStatuses
  <2> QED
    BY <1>2, <2>2
<1> QED
  BY <1>3, <1>4

(* The connection and its channels. *)
LEMMA SwitchRows ==
  ASSUME SwitchInv, [SwitchNext]_switchVars
  PROVE  /\ conn' \in ConnRecs /\ line' \in [Lines -> LineRecs]
         /\ conn'.removed => conn'.status = "paused" /\ ~conn'.stamped
<1>1. /\ conn \in ConnRecs /\ line \in [Lines -> LineRecs]
      /\ conn.removed => conn.status = "paused" /\ ~conn.stamped
  BY DEF SwitchInv, SwitchTypeOK, ConnRecs, ConnStatuses, LineRecs, RemovedStaysOff
<1>2. CASE UNCHANGED <<conn, line>>
  BY <1>1, <1>2
<1>3. ASSUME NEW o \in Changers, WriteSwitch(o) PROVE conn' = conn /\ line' \in [Lines -> LineRecs]
  <2>1. LineRow(request[o].to, request[o].seen) \in LineRecs
    BY <1>3 DEF WriteSwitch, SwitchInv, RequestKnows, LineRow, LineRecs
  <2> QED
    BY <1>1, <1>3, <2>1 DEF WriteSwitch
<1>4. ASSUME NEW o \in Changers, WriteConnection(o)
      PROVE  conn' \in ConnRecs /\ ~conn'.removed /\ line' \in [Lines -> LineRecs]
  <2>1. request[o].to \in ConnStatuses /\ ~conn.removed
    BY <1>4 DEF WriteConnection, SwitchInv, RequestKnows
  <2>2. conn' \in ConnRecs /\ ~conn'.removed
    BY <1>1, <1>4, <2>1 DEF WriteConnection, ConnRecs
  <2> QED
    BY <1>1, <1>4, <2>2, LinesTyped DEF WriteConnection
<1>5. ASSUME NEW o \in Changers, RemoveConnection(o)
      PROVE  conn' \in ConnRecs /\ conn'.status = "paused" /\ ~conn'.stamped /\ line' = line
  BY <1>5 DEF RemoveConnection, ConnRecs, ConnStatuses
<1>6. ASSUME NEW ls, Cascade(ls) PROVE conn' \in ConnRecs /\ ~conn'.removed /\ line' \in [Lines -> LineRecs]
  BY <1>6, CascadeTyped
<1>7. ASSUME NEW o \in Changers, NEW k, NEW m, NEW ls, CreateRule(o, k, m, ls)
      PROVE  UNCHANGED <<conn, line>> \/ Cascade(ls)
  BY <1>7 DEF CreateRule
<1>8. ASSUME NEW o \in Changers, WriteRule(o) PROVE UNCHANGED <<conn, line>> \/ Cascade(CascadeOf(o))
  BY <1>8 DEF WriteRule
<1>9. \/ UNCHANGED <<conn, line>>
      \/ \E o \in Changers : \/ WriteSwitch(o) \/ WriteConnection(o) \/ RemoveConnection(o) \/ WriteRule(o)
                             \/ (\E k \in RuleKinds, m \in Modes, ls \in SUBSET Lines : CreateRule(o, k, m, ls))
  BY DEF SwitchNext, switchVars, ReadLine, ReadConnection, RotateSecret, RollBack, ReadEndpoint, RotateEndpoint, ReadRule,
         AdaptLegacyMessageRule, CreateLegacyRule, UpdateLegacyRule, RemoveRule, ExecutionRecorded, ReplayToggles
<1> QED
  BY <1>1, <1>2, <1>3, <1>4, <1>5, <1>6, <1>7, <1>8, <1>9

(* The rule: who removed it is the last to change its mode. *)
LEMMA RuleRows ==
  ASSUME SwitchInv, [SwitchNext]_switchVars
  PROVE  rule' \in RuleRecs /\ (rule'.there = "removed" => rule'.mode = "observation")
<1>1. rule \in RuleRecs /\ (rule.there = "removed" => rule.mode = "observation")
  BY DEF SwitchInv, SwitchTypeOK, RemovedStaysOff
<1> DEFINE Fine == rule' \in RuleRecs /\ (rule'.there = "removed" => rule'.mode = "observation")
<1>2. CASE UNCHANGED rule
  BY <1>1, <1>2
<1>3. ASSUME NEW o \in Changers, NEW k \in RuleKinds, NEW m \in Modes, NEW ls \in SUBSET Lines, CreateRule(o, k, m, ls)
      PROVE  Fine
  BY <1>3, RuleKindsAssumption DEF CreateRule, CreatedRule, NewCatalog, RuleRecs, Kinds
<1>4. CASE CreateLegacyRule
  BY <1>4 DEF CreateLegacyRule, NoRule, RuleRecs, Kinds, Modes
<1>5. CASE UpdateLegacyRule
  BY <1>1, <1>5 DEF UpdateLegacyRule, RuleRecs
<1>6. ASSUME NEW ls \in SUBSET Lines, AdaptLegacyMessageRule(ls) PROVE Fine
  BY <1>6 DEF AdaptLegacyMessageRule, NoRule, RuleRecs, Kinds, Modes
<1>7. ASSUME NEW o \in Changers, WriteRule(o) PROVE Fine
  <2> DEFINE ch == request[o].change
  <2>1. ch \in ChangeRecs /\ request[o].read \in ReadRecs
    BY ChangesTyped DEF SwitchInv, RequestRecs
  <2>2. EffectiveMode(o) \in Modes
    BY <2>1 DEF EffectiveMode, NextMode, ChangeRecs, ReadRecs, Modes
  <2>3. rule' = WrittenRule(o) /\ rule.there = "provider"
    BY <1>7 DEF WriteRule, StillThere, RuleThere
  <2> DEFINE active == IF ch.active = "keep" THEN rule.active ELSE ch.active = "on"
             mode == IF ch.mode # "keep" \/ ch.active = "off" \/ ch.phrases THEN EffectiveMode(o) ELSE rule.mode
             lines == IF ch.lines # {} THEN ch.lines ELSE rule.lines
             catalog == CatalogAfter(ch)
  <2>4. active \in BOOLEAN /\ mode \in Modes /\ lines \in SUBSET Lines /\ catalog \in {"none", "first", "second"}
    BY <1>1, <2>1, <2>2 DEF CatalogAfter, ChangeRecs, RuleRecs
  <2>5. rule' = [rule EXCEPT !.active = active, !.mode = mode, !.lines = lines, !.catalog = catalog]
    BY <2>3, Zenon DEF WrittenRule
  <2> HIDE DEF active, mode, lines, catalog
  <2>6. PICK a \in BOOLEAN, m \in Modes, ls \in SUBSET Lines, c \in {"none", "first", "second"} :
          rule' = [rule EXCEPT !.active = a, !.mode = m, !.lines = ls, !.catalog = c]
    BY <2>4, <2>5, Zenon
  <2>7. rule' \in RuleRecs /\ rule'.there = rule.there
    BY <1>1, <2>6 DEF RuleRecs
  <2> QED
    BY <2>3, <2>7
<1>8. ASSUME NEW o \in Changers, RotateEndpoint(o) PROVE Fine
  BY <1>1, <1>8 DEF RotateEndpoint, RuleRecs
<1>9. CASE RemoveRule
  BY <1>1, <1>9 DEF RemoveRule, RuleRecs, Modes
<1>10. \/ UNCHANGED rule \/ CreateLegacyRule \/ UpdateLegacyRule \/ RemoveRule
       \/ (\E o \in Changers : WriteRule(o) \/ RotateEndpoint(o))
       \/ (\E o \in Changers, k \in RuleKinds, m \in Modes, ls \in SUBSET Lines : CreateRule(o, k, m, ls))
       \/ (\E ls \in SUBSET Lines : AdaptLegacyMessageRule(ls))
  BY DEF SwitchNext, switchVars, ReadLine, ReadConnection, WriteSwitch, WriteConnection, RemoveConnection, RotateSecret,
         RollBack, ReadEndpoint, ReadRule, ExecutionRecorded, ReplayToggles
<1> QED
  BY <1>2, <1>3, <1>4, <1>5, <1>6, <1>7, <1>8, <1>9, <1>10

(* The requests. *)
LEMMA RequestRows ==
  ASSUME SwitchInv, [SwitchNext]_switchVars
  PROVE  request' \in [Changers -> RequestRecs] /\ \A o \in Changers : RequestKnows(request'[o])
<1> DEFINE Fine == request' \in [Changers -> RequestRecs] /\ \A o \in Changers : RequestKnows(request'[o])
<1>1. /\ request \in [Changers -> RequestRecs] /\ \A o \in Changers : RequestKnows(request[o])
      /\ conn.status \in ConnStatuses /\ rule \in RuleRecs
  BY DEF SwitchInv, SwitchTypeOK, ConnStatuses
<1>2. CASE UNCHANGED request
  BY <1>1, <1>2
<1>3. ASSUME NEW o \in Changers, NEW wrote, Done(o, wrote) PROVE Fine
  BY <1>1, <1>3, DoneTyped
<1>4. ASSUME NEW o \in Changers, NEW c \in Lines, NEW to \in {"active", "paused"}, ReadLine(o, c, to) PROVE Fine
  <2> DEFINE q == [NoOp EXCEPT !.kind = "line", !.line = c, !.to = to, !.seen = conn.status]
  <2>1. q \in RequestRecs /\ RequestKnows(q)
    BY <1>1, IdleTyped DEF RequestRecs, RequestKnows, ConnStatuses
  <2>2. Starts(o, q)
    BY <1>4 DEF ReadLine
  <2> HIDE DEF q
  <2> QED
    BY <1>1, <2>1, <2>2, StartTyped
<1>5. ASSUME NEW o \in Changers, NEW to \in ConnStatuses, ReadConnection(o, to) PROVE Fine
  <2> DEFINE q == [NoOp EXCEPT !.kind = "conn", !.to = to]
  <2>1. q \in RequestRecs /\ RequestKnows(q)
    BY IdleTyped DEF RequestRecs, RequestKnows
  <2>2. Starts(o, q)
    BY <1>5 DEF ReadConnection
  <2> HIDE DEF q
  <2> QED
    BY <1>1, <2>1, <2>2, StartTyped
<1>6. ASSUME NEW o \in Changers, NEW ch \in Changes, ReadRule(o, ch) PROVE Fine
  <2> DEFINE q == [NoOp EXCEPT !.kind = "rule", !.read = Read(rule), !.change = ch]
  <2>1. Read(rule) \in ReadRecs
    BY <1>1 DEF Read, ReadRecs, RuleRecs
  <2>2. q \in RequestRecs /\ RequestKnows(q)
    BY <2>1, IdleTyped DEF RequestRecs, RequestKnows
  <2>3. Starts(o, q)
    BY <1>6 DEF ReadRule
  <2> HIDE DEF q
  <2> QED
    BY <1>1, <2>2, <2>3, StartTyped
<1>7. ASSUME NEW o \in Changers, ReadEndpoint(o) PROVE Fine
  <2> DEFINE q == [NoOp EXCEPT !.kind = "rotate"]
  <2>1. q \in RequestRecs /\ RequestKnows(q)
    BY IdleTyped DEF RequestRecs, RequestKnows
  <2>2. Starts(o, q)
    BY <1>7 DEF ReadEndpoint
  <2> HIDE DEF q
  <2> QED
    BY <1>1, <2>1, <2>2, StartTyped
<1>8. ASSUME NEW o \in Changers,
             WriteSwitch(o) \/ WriteConnection(o) \/ RemoveConnection(o) \/ RotateSecret(o) \/ RollBack(o) \/ WriteRule(o)
               \/ RotateEndpoint(o) \/ (\E k \in RuleKinds, m \in Modes, ls \in SUBSET Lines : CreateRule(o, k, m, ls))
      PROVE  \E wrote : Done(o, wrote)
  BY <1>8 DEF WriteSwitch, WriteConnection, RemoveConnection, RotateSecret, RollBack, WriteRule, RotateEndpoint, CreateRule
<1>9. \/ UNCHANGED request
      \/ (\E o \in Changers, c \in Lines, to \in {"active", "paused"} : ReadLine(o, c, to))
      \/ (\E o \in Changers, to \in ConnStatuses : ReadConnection(o, to))
      \/ (\E o \in Changers, ch \in Changes : ReadRule(o, ch)) \/ (\E o \in Changers : ReadEndpoint(o))
      \/ (\E o \in Changers : \/ WriteSwitch(o) \/ WriteConnection(o) \/ RemoveConnection(o) \/ RotateSecret(o) \/ RollBack(o)
                              \/ WriteRule(o) \/ RotateEndpoint(o)
                              \/ (\E k \in RuleKinds, m \in Modes, ls \in SUBSET Lines : CreateRule(o, k, m, ls)))
  BY DEF SwitchNext, switchVars, ConnStatuses, AdaptLegacyMessageRule, CreateLegacyRule, UpdateLegacyRule, RemoveRule,
         ExecutionRecorded, ReplayToggles
<1> QED
  BY <1>2, <1>3, <1>4, <1>5, <1>6, <1>7, <1>8, <1>9

(* Whatever requests overlap, a removed rule is not in production again    *)
(* (updateRule reads the rule again before it commits, and the other       *)
(* writers ask for a rule that is there), and a removed connection stays   *)
(* paused (updateStatus and the cascade ask for one that is not removed).  *)
THEOREM RemovedForGood == SwitchSpec => []SwitchesSafe
<1>1. SwitchInv /\ [SwitchNext]_switchVars => SwitchInv'
  <2> SUFFICES ASSUME SwitchInv, [SwitchNext]_switchVars PROVE SwitchInv'
    OBVIOUS
  <2>1. /\ conn' \in ConnRecs /\ line' \in [Lines -> LineRecs]
        /\ conn'.removed => conn'.status = "paused" /\ ~conn'.stamped
    BY SwitchRows
  <2>2. rule' \in RuleRecs /\ (rule'.there = "removed" => rule'.mode = "observation")
    BY RuleRows
  <2>3. request' \in [Changers -> RequestRecs] /\ \A o \in Changers : RequestKnows(request'[o])
    BY RequestRows
  <2>4. history' \in BOOLEAN /\ replaying' \in BOOLEAN
    <3>1. history \in BOOLEAN /\ replaying \in BOOLEAN
      BY DEF SwitchInv, SwitchTypeOK
    <3> QED
      BY <3>1 DEF SwitchNext, switchVars, ReadLine, ReadConnection, WriteSwitch, WriteConnection, RemoveConnection, RotateSecret,
        RollBack, WriteRule, ReadEndpoint, RotateEndpoint, CreateRule, ReadRule, AdaptLegacyMessageRule, CreateLegacyRule,
        UpdateLegacyRule, RemoveRule, ExecutionRecorded, ReplayToggles
  <2>5. \A o \in Changers :
          /\ request'[o].kind \in {"idle", "line", "conn", "rule", "rotate"} /\ request'[o].line \in Lines \cup {NoLine}
          /\ request'[o].read \in ReadRecs /\ request'[o].change \in Changes \cup {Keep} /\ request'[o].claim \in BOOLEAN
    BY <2>3 DEF RequestRecs
  <2> QED
    BY <2>1, <2>2, <2>3, <2>4, <2>5, Zenon DEF SwitchInv, SwitchTypeOK, RemovedStaysOff, ConnRecs, ConnStatuses, LineRecs, ReadRecs
<1>2. SwitchInv => SwitchesSafe
  BY DEF SwitchInv, SwitchesSafe
<1> QED
  BY <1>1, <1>2, SwitchesStart, PTL DEF SwitchSpec

(***************************************************************************)
(* Automation callbacks.  A call under way is about a callback, one past   *)
(* the look-up about one that is stored, and what it has of the versions   *)
(* of its decision is there.                                               *)
(***************************************************************************)
Keys == {Initial} \cup RequestKeys

Codes == {"none", "ignored_untracked_lead", "review_required", "eligible"}

RuleModes == {"none", "observation", "production"}

Classes == {"none", "invalid_payload", "eligible_route_unresolved", "unsupported_event", "ignored_untracked_lead",
            "eligible_route_resolved"}

DeliveryRecs == [known : BOOLEAN, pending : BOOLEAN, class : Classes, epoch : 0..MaxActivations]

VersionRecs == [key : Keys, code : Codes, mode : RuleModes, over : Nat]

ExecutionRecs == [status : ExecutionStates, version : Nat]

Unstored == {"idle", "find", "persist"}

Judged == {"enqueue", "answer"}

Stages == Unstored \cup Judged \cup {"repeat", "raced", "answerRaced", "context", "latest", "freeze", "dispose", "upsert", "stamp"}

ContextRecs == [mode : RuleModes, epoch : 0..MaxActivations, connection : {"none", "observation", "production"},
                channel : BOOLEAN, paid : BOOLEAN]

CallRecs == [step : Stages,
             kind : {"none", "ingest", "reprocess", "reevaluate"}, cb : Callbacks \cup {NoCallback}, key : Keys,
             context : ContextRecs, found : Nat, code : Codes, version : Nat, state : ExecutionStates]

(* The call q, when ch are the versions and st the deliveries. *)
CallFine(q, ch, st) ==
  /\ q \in CallRecs
  /\ q.step # "idle" =>
       /\ q.cb \in Callbacks /\ q.version =< Len(ch[q.cb])
       /\ IF q.kind = "reevaluate" THEN q.key \in RequestKeys ELSE q.key = Initial
  /\ q.step \in {"dispose", "upsert"} => q.version > 0
  /\ q.step \notin Unstored => st[q.cb].known
  /\ q.step \in Judged /\ q.kind = "ingest" => ~st[q.cb].pending

CallbackTyped ==
  /\ content \in [Callbacks -> Contents] /\ paidLead \in BOOLEAN /\ heard \in BOOLEAN
  /\ ruleState \in [live : BOOLEAN, mode : RuleModes, epoch : 0..MaxActivations, connection : {"observation", "production"}]
  /\ stored \in [Callbacks -> DeliveryRecs] /\ chain \in [Callbacks -> Seq(VersionRecs)]
  /\ execution \in [Callbacks -> ExecutionRecs] /\ reviewed \in [Callbacks -> Nat]
  /\ handed \subseteq Callbacks /\ answered \subseteq Callbacks
  /\ callbackCall \in [CallbackCalls -> CallRecs]

CallbackInv ==
  /\ CallbackTyped /\ ChainIsLinear
  /\ \A c \in Callbacks :
       /\ stored[c].pending => stored[c].known
       /\ Len(chain[c]) =< MaxVersions /\ execution[c].version =< Len(chain[c]) /\ reviewed[c] =< Len(chain[c])
  /\ \A c \in answered : stored[c].known /\ ~stored[c].pending
  /\ \A r \in CallbackCalls : CallFine(callbackCall[r], chain, stored)

LEMMA CallIdleFine == \A ch, st : CallFine(CallIdle, ch, st)
BY CallbackAssumption DEF CallFine, CallIdle, CallRecs, ContextRecs, Stages, NoContext, Unstored, Judged, Keys, Initial, Codes, RuleModes, ExecutionStates

LEMMA CallbacksStart == CallbackInit => CallbackInv
<1> SUFFICES ASSUME CallbackInit PROVE CallbackInv
  OBVIOUS
<1>1. NoDelivery \in DeliveryRecs /\ ~NoDelivery.pending
  BY CallbackAssumption DEF NoDelivery, DeliveryRecs, Classes
<1>2. NoExecution \in ExecutionRecs /\ NoExecution.version = 0
  BY DEF NoExecution, ExecutionRecs, ExecutionStates
<1>3. <<>> \in Seq(VersionRecs) /\ Len(<<>>) = 0 /\ DOMAIN <<>> = {}
  OBVIOUS
<1>4. callbackCall \in [CallbackCalls -> CallRecs] /\ \A r \in CallbackCalls : CallFine(callbackCall[r], chain, stored)
  <2>1. CallIdle \in CallRecs
    BY CallIdleFine DEF CallFine
  <2> QED
    BY <2>1, CallIdleFine DEF CallbackInit
<1>5. ruleState \in [live : BOOLEAN, mode : RuleModes, epoch : 0..MaxActivations, connection : {"observation", "production"}]
  BY CallbackAssumption DEF CallbackInit, RuleModes
<1>6. CallbackTyped
  BY <1>1, <1>2, <1>3, <1>4, <1>5, CallbackAssumption DEF CallbackInit, CallbackTyped
<1>7. ChainIsLinear
  BY <1>3 DEF CallbackInit, ChainIsLinear
<1> QED
  BY <1>1, <1>2, <1>3, <1>4, <1>6, <1>7, CallbackAssumption DEF CallbackInit, CallbackInv

-----------------------------------------------------------------------------
(* Neither a version nor a stored callback goes away, and an evaluated one  *)
(* is not pending again.                                                    *)
Grown ==
  \A c \in Callbacks :
    /\ Len(chain[c]) =< Len(chain'[c])
    /\ stored[c].known => stored'[c].known
    /\ stored[c].known /\ ~stored[c].pending => ~stored'[c].pending

LEMMA KeyOfCall == ASSUME CallbackInv, NEW r \in CallbackCalls, callbackCall[r].step # "idle"
  PROVE  /\ callbackCall[r] \in CallRecs /\ callbackCall[r].cb \in Callbacks
         /\ callbackCall[r].version =< Len(chain[callbackCall[r].cb])
         /\ callbackCall[r].kind = "reevaluate" => callbackCall[r].key \in RequestKeys
         /\ callbackCall[r].kind # "reevaluate" => callbackCall[r].key = Initial
         /\ callbackCall[r].step \in {"dispose", "upsert"} => callbackCall[r].version > 0
         /\ callbackCall[r].step \notin Unstored => stored[callbackCall[r].cb].known
         /\ callbackCall[r].step \in Judged /\ callbackCall[r].kind = "ingest" => ~stored[callbackCall[r].cb].pending
BY Zenon DEF CallbackInv, CallFine

(* The class stamped on a delivery. *)
LEMMA ClassTyped == ASSUME CallbackInv, NEW r \in CallbackCalls, callbackCall[r].step # "idle" PROVE ClassOf(callbackCall[r]) \in Classes
<1> DEFINE q == callbackCall[r]
<1>1. q.cb \in Callbacks /\ q.version \in Nat /\ q.version =< Len(chain[q.cb])
  BY KeyOfCall DEF CallRecs
<1>2. chain[q.cb] \in Seq(VersionRecs)
  BY <1>1 DEF CallbackInv, CallbackTyped
<1>3. q.version # 0 => chain[q.cb][q.version] \in VersionRecs
  BY <1>1, <1>2
<1>4. q.version # 0 => chain[q.cb][q.version].code \in Codes
  BY <1>3 DEF VersionRecs
<1> HIDE DEF q
<1> QED
  BY <1>4 DEF ClassOf, Classes, Codes, q

LEMMA StoredSteps == ASSUME CallbackInv, [CallbackNext]_callbackVars
  PROVE  /\ stored' \in [Callbacks -> DeliveryRecs]
         /\ \A c \in Callbacks : /\ stored'[c].pending => stored'[c].known
                                 /\ stored[c].known => stored'[c].known
                                 /\ stored[c].known /\ ~stored[c].pending => ~stored'[c].pending
<1>1. /\ stored \in [Callbacks -> DeliveryRecs] /\ content \in [Callbacks -> Contents] /\ ruleState.epoch \in 0..MaxActivations
      /\ \A c \in Callbacks : stored[c].pending => stored[c].known
  BY DEF CallbackInv, CallbackTyped
<1>2. CASE UNCHANGED stored
  BY <1>1, <1>2
<1>3. CASE \E r \in CallbackCalls : PersistDelivery(r) /\ stored' # stored
  <2> PICK r \in CallbackCalls : PersistDelivery(r) /\ stored' # stored
    BY <1>3
  <2> DEFINE c == callbackCall[r].cb
             made == [known |-> TRUE, pending |-> content[c] # "malformed",
                      class |-> IF content[c] = "malformed" THEN "invalid_payload" ELSE "eligible_route_unresolved",
                      epoch |-> ruleState.epoch]
  <2>1. c \in Callbacks
    BY KeyOfCall DEF PersistDelivery, CallAt
  <2>2. ~stored[c].known /\ stored' = [stored EXCEPT ![c] = made]
    BY DEF PersistDelivery
  <2>3. made \in DeliveryRecs /\ made.known
    BY <1>1 DEF DeliveryRecs, Classes
  <2> HIDE DEF c, made
  <2> QED
    BY <1>1, <2>1, <2>2, <2>3
<1>4. CASE \E r \in CallbackCalls : StampDelivery(r)
  <2> PICK r \in CallbackCalls : StampDelivery(r)
    BY <1>4
  <2> DEFINE c == callbackCall[r].cb
             class == ClassOf(callbackCall[r])
             made == [stored[c] EXCEPT !.pending = FALSE, !.class = class]
  <2>1. c \in Callbacks /\ class \in Classes /\ stored[c].known
    BY KeyOfCall, ClassTyped DEF StampDelivery, CallAt, Unstored
  <2>2. stored' = [stored EXCEPT ![c].pending = FALSE, ![c].class = class]
    BY DEF StampDelivery
  <2> HIDE DEF c, class
  <2>3. stored[c] \in DeliveryRecs
    BY <1>1, <2>1
  <2>4. stored' = [stored EXCEPT ![c] = made]
    BY <1>1, <2>1, <2>2, <2>3 DEF DeliveryRecs
  <2>5. made \in DeliveryRecs /\ made.known /\ ~made.pending
    BY <2>1, <2>3 DEF DeliveryRecs
  <2> HIDE DEF made
  <2> QED
    BY <1>1, <2>1, <2>4, <2>5
<1> QED
  BY <1>2, <1>3, <1>4 DEF CallbackNext, callbackVars, WorldMoves, PostCallback, Reprocess, Reevaluate, CallSteps, CallLost, Produce,
     FindExistingDelivery, RecordDuplicate, ReadContext, FindLatestDecision, FreezeDecision, Orchestrate, UpsertExecution,
     EnqueueExecution, AnswerCallback

(* persist appends a version over the last one, under a key of its own. *)
LEMMA ChainSteps == ASSUME CallbackInv, [CallbackNext]_callbackVars
  PROVE  /\ chain' \in [Callbacks -> Seq(VersionRecs)] /\ ChainIsLinear'
         /\ \A c \in Callbacks : Len(chain'[c]) =< MaxVersions /\ Len(chain[c]) =< Len(chain'[c])
<1>1. /\ chain \in [Callbacks -> Seq(VersionRecs)] /\ ChainIsLinear
      /\ \A c \in Callbacks : Len(chain[c]) =< MaxVersions
  BY DEF CallbackInv, CallbackTyped
<1>2. CASE UNCHANGED chain
  BY <1>1, <1>2 DEF ChainIsLinear
<1>3. CASE \E r \in CallbackCalls : FreezeDecision(r) /\ chain' # chain
  <2> PICK r \in CallbackCalls : FreezeDecision(r) /\ chain' # chain
    BY <1>3
  <2> DEFINE q == callbackCall[r]
             c == q.cb
             made == [key |-> q.key, code |-> q.code, mode |-> q.context.mode,
                      over |-> IF q.kind = "reevaluate" THEN q.found ELSE 0]
  <2>1. /\ q \in CallRecs /\ c \in Callbacks
        /\ q.kind = "reevaluate" => q.key \in RequestKeys
        /\ q.kind # "reevaluate" => q.key = Initial
    BY KeyOfCall DEF FreezeDecision, CallAt
  <2>2. /\ WithKey(c, q.key) = {} /\ VersionTransition(q, Len(chain[c])) /\ Len(chain[c]) < MaxVersions
        /\ chain' = [chain EXCEPT ![c] = Append(chain[c], made)]
    BY DEF FreezeDecision
  <2>3. made \in VersionRecs /\ made.key = q.key /\ made.over = Len(chain[c]) /\ (made.key = Initial <=> Len(chain[c]) = 0)
    <3>1. q.key \in Keys /\ q.code \in Codes /\ q.context.mode \in RuleModes /\ q.found \in Nat
      BY <2>1 DEF CallRecs, ContextRecs
    <3>2. Initial \notin RequestKeys
      BY CallbackAssumption DEF Initial
    <3>3. Len(chain[c]) \in Nat
      BY <1>1, <2>1
    <3> HIDE DEF q, c
    <3> QED
      BY <2>1, <2>2, <3>1, <3>2, <3>3 DEF VersionRecs, VersionTransition
  <2>4. \A i \in DOMAIN chain[c] : chain[c][i].key # made.key
    BY <2>2, <2>3 DEF WithKey
  <2> HIDE DEF q, c, made
  <2> DEFINE old == chain[c]
             new == Append(old, made)
  <2>5. old \in Seq(VersionRecs)
    BY <1>1, <2>1
  <2>6. /\ new \in Seq(VersionRecs) /\ Len(new) = Len(old) + 1 /\ DOMAIN new = DOMAIN old \cup {Len(old) + 1}
        /\ DOMAIN old = 1..Len(old) /\ new[Len(old) + 1] = made /\ \A i \in DOMAIN old : new[i] = old[i]
    BY <2>3, <2>5
  <2>7. Len(old) \in Nat
    BY <2>5
  <2>8. \A i \in DOMAIN old : /\ old[i].over = i - 1 /\ (old[i].key = Initial <=> i = 1)
                              /\ \A j \in DOMAIN old : old[i].key = old[j].key => i = j
    BY <1>1, <2>1 DEF ChainIsLinear
  <2>9. \A i \in DOMAIN new : /\ new[i].over = i - 1 /\ (new[i].key = Initial <=> i = 1)
                              /\ \A j \in DOMAIN new : new[i].key = new[j].key => i = j
    <3> SUFFICES ASSUME NEW i \in DOMAIN new
                 PROVE  /\ new[i].over = i - 1 /\ (new[i].key = Initial <=> i = 1)
                        /\ \A j \in DOMAIN new : new[i].key = new[j].key => i = j
      OBVIOUS
    <3> HIDE DEF new
    <3>1. CASE i \in DOMAIN old
      BY <2>4, <2>6, <2>8, <3>1 DEF old
    <3>2. CASE i = Len(old) + 1
      <4>1. made.over = Len(old) /\ (made.key = Initial <=> Len(old) = 0) /\ \A j \in DOMAIN old : old[j].key # made.key
        BY <2>3, <2>4 DEF old
      <4> HIDE DEF old
      <4>2. i - 1 = Len(old) /\ (i = 1 <=> Len(old) = 0) /\ new[i] = made
        BY <2>6, <2>7, <3>2
      <4>3. \A j \in DOMAIN new : new[i].key = new[j].key => i = j
        BY <2>6, <3>2, <4>1, <4>2, Zenon
      <4> QED
        BY <4>1, <4>2, <4>3, Zenon
    <3> QED
      BY <2>6, <3>1, <3>2
  <2>10. chain'[c] = new /\ \A d \in Callbacks : d # c => chain'[d] = chain[d]
    BY <1>1, <2>1, <2>2
  <2>11. chain' \in [Callbacks -> Seq(VersionRecs)]
    BY <1>1, <2>1, <2>2, <2>6
  <2>12. Len(chain'[c]) =< MaxVersions /\ Len(chain[c]) =< Len(chain'[c])
    BY <2>2, <2>6, <2>7, <2>10, CallbackAssumption
  <2>13. \A d \in Callbacks : Len(chain[d]) \in Nat
    BY <1>1
  <2>14. ChainIsLinear'
    <3> HIDE DEF new
    <3> SUFFICES ASSUME NEW d \in Callbacks
                 PROVE  \A i \in DOMAIN chain'[d] : /\ chain'[d][i].over = i - 1 /\ (chain'[d][i].key = Initial <=> i = 1)
                                                    /\ \A j \in DOMAIN chain'[d] : chain'[d][i].key = chain'[d][j].key => i = j
      BY Zenon DEF ChainIsLinear
    <3>1. CASE d = c
      BY <2>9, <2>10, <3>1, Zenon
    <3>2. CASE d # c
      <4>1. chain'[d] = chain[d]
        BY <2>10, <3>2
      <4>2. \A i \in DOMAIN chain[d] : /\ chain[d][i].over = i - 1 /\ (chain[d][i].key = Initial <=> i = 1)
                                       /\ \A j \in DOMAIN chain[d] : chain[d][i].key = chain[d][j].key => i = j
        BY <1>1 DEF ChainIsLinear
      <4> QED
        BY <4>1, <4>2, Zenon
    <3> QED
      BY <3>1, <3>2
  <2>15. \A d \in Callbacks : Len(chain'[d]) =< MaxVersions /\ Len(chain[d]) =< Len(chain'[d])
    <3> HIDE DEF new, old
    <3>1. \A d \in Callbacks : d # c => Len(chain'[d]) = Len(chain[d]) /\ Len(chain[d]) =< MaxVersions
      BY <1>1, <2>10, Zenon
    <3> QED
      BY <2>12, <2>13, <3>1
  <2> QED
    BY <2>11, <2>14, <2>15
<1> QED
  BY <1>2, <1>3 DEF CallbackNext, callbackVars, WorldMoves, PostCallback, Reprocess, Reevaluate, CallSteps, CallLost, Produce,
     FindExistingDelivery, PersistDelivery, RecordDuplicate, ReadContext, FindLatestDecision, Orchestrate, UpsertExecution,
     StampDelivery, EnqueueExecution, AnswerCallback

LEMMA Grows == ASSUME CallbackInv, [CallbackNext]_callbackVars PROVE Grown
<1> SUFFICES ASSUME NEW c \in Callbacks
             PROVE  /\ Len(chain[c]) =< Len(chain'[c])
                    /\ stored[c].known => stored'[c].known
                    /\ stored[c].known /\ ~stored[c].pending => ~stored'[c].pending
  BY DEF Grown
<1>1. stored[c].known => stored'[c].known
  BY StoredSteps, Zenon
<1>2. stored[c].known /\ ~stored[c].pending => ~stored'[c].pending
  BY StoredSteps, Zenon
<1>3. Len(chain[c]) =< Len(chain'[c])
  BY ChainSteps, Zenon
<1> QED
  BY <1>1, <1>2, <1>3, Zenon

(* A call that is fine stays so while nothing goes away. *)
LEMMA StaysFine == ASSUME CallbackInv, Grown, chain' \in [Callbacks -> Seq(VersionRecs)], NEW q, CallFine(q, chain, stored)
                   PROVE  CallFine(q, chain', stored')
<1>1. \A c \in Callbacks : Len(chain[c]) \in Nat /\ Len(chain'[c]) \in Nat
  BY DEF CallbackInv, CallbackTyped
<1>2. q \in CallRecs /\ q.version \in Nat
  BY DEF CallFine, CallRecs
<1>3. q.step # "idle" => q.version =< Len(chain'[q.cb])
  BY <1>1, <1>2 DEF Grown, CallFine
<1>4. q.step \notin Unstored => q.step # "idle"
  BY DEF Unstored
<1>5. q.step \in Judged => q.step \notin Unstored
  BY DEF Judged, Unstored
<1> QED
  BY <1>3, <1>4, <1>5, Zenon DEF CallFine, Grown

(* All calls are fine, with cc the calls. *)
AllFine(cc, ch, st) == cc \in [CallbackCalls -> CallRecs] /\ \A r \in CallbackCalls : CallFine(cc[r], ch, st)

LEMMA OneCallMoves ==
  ASSUME CallbackInv, [CallbackNext]_callbackVars, NEW r \in CallbackCalls, NEW q,
         callbackCall' = [callbackCall EXCEPT ![r] = q], CallFine(q, chain', stored')
  PROVE  AllFine(callbackCall', chain', stored')
<1>1. callbackCall \in [CallbackCalls -> CallRecs] /\ \A s \in CallbackCalls : CallFine(callbackCall[s], chain, stored)
  BY DEF CallbackInv, CallbackTyped
<1>2. q \in CallRecs
  BY DEF CallFine
<1>3. \A s \in CallbackCalls : CallFine(callbackCall[s], chain', stored')
  BY <1>1, StaysFine, Grows, ChainSteps
<1> QED
  BY <1>1, <1>2, <1>3 DEF AllFine

LEMMA CallEnds == ASSUME CallbackInv, [CallbackNext]_callbackVars, NEW r \in CallbackCalls, EndCall(r)
                  PROVE  AllFine(callbackCall', chain', stored')
BY OneCallMoves, CallIdleFine DEF EndCall

(* A call under way goes on as q, about the same callback. *)
LEMMA CallGoesOn ==
  ASSUME CallbackInv, [CallbackNext]_callbackVars, NEW r \in CallbackCalls, callbackCall[r].step # "idle", NEW q \in CallRecs,
         callbackCall' = [callbackCall EXCEPT ![r] = q],
         q.cb = callbackCall[r].cb, q.kind = callbackCall[r].kind, q.key = callbackCall[r].key, q.step # "idle",
         q.version =< Len(chain'[q.cb]), q.step \in {"dispose", "upsert"} => q.version > 0,
         q.step \notin Unstored => stored'[q.cb].known,
         q.step \in Judged /\ q.kind = "ingest" => ~stored'[q.cb].pending
  PROVE  AllFine(callbackCall', chain', stored')
<1>1. CallFine(q, chain', stored')
  BY KeyOfCall, Zenon DEF CallFine
<1> QED
  BY <1>1, OneCallMoves

(* CallGoTo moves the step alone. *)
LEMMA CallStepsOn ==
  ASSUME CallbackInv, [CallbackNext]_callbackVars, NEW r \in CallbackCalls, callbackCall[r].step # "idle",
         NEW s \in Stages \ {"idle"}, CallGoTo(r, s),
         s \in {"dispose", "upsert"} => callbackCall[r].version > 0,
         s \notin Unstored => stored'[callbackCall[r].cb].known,
         s \in Judged /\ callbackCall[r].kind = "ingest" => ~stored'[callbackCall[r].cb].pending
  PROVE  AllFine(callbackCall', chain', stored')
<1> DEFINE q == [callbackCall[r] EXCEPT !.step = s]
<1>1. callbackCall[r] \in CallRecs /\ callbackCall \in [CallbackCalls -> CallRecs]
  BY KeyOfCall DEF CallbackInv, CallbackTyped
<1>2. callbackCall' = [callbackCall EXCEPT ![r] = q]
  BY <1>1 DEF CallGoTo
<1>3. /\ q \in CallRecs /\ q.step = s /\ q.cb = callbackCall[r].cb /\ q.kind = callbackCall[r].kind /\ q.key = callbackCall[r].key
      /\ q.version = callbackCall[r].version
  BY <1>1 DEF CallRecs
<1>4. callbackCall[r].version =< Len(chain'[callbackCall[r].cb])
  <2>1. callbackCall[r].version \in Nat /\ callbackCall[r].cb \in Callbacks /\ callbackCall[r].version =< Len(chain[callbackCall[r].cb])
    BY KeyOfCall DEF CallRecs
  <2>2. \A c \in Callbacks : Len(chain[c]) \in Nat /\ Len(chain'[c]) \in Nat /\ Len(chain[c]) =< Len(chain'[c])
    BY ChainSteps DEF CallbackInv, CallbackTyped
  <2> QED
    BY <2>1, <2>2
<1> HIDE DEF q
<1>5. /\ q.step # "idle" /\ q.version =< Len(chain'[q.cb]) /\ (q.step \in {"dispose", "upsert"} => q.version > 0)
      /\ q.step \notin Unstored => stored'[q.cb].known
      /\ q.step \in Judged /\ q.kind = "ingest" => ~stored'[q.cb].pending
  BY <1>3, <1>4, Zenon
<1> QED
  BY <1>2, <1>3, <1>5, CallGoesOn

-----------------------------------------------------------------------------
(* One lemma per kind of step. *)
LEMMA IngestionSteps ==
  ASSUME CallbackInv, [CallbackNext]_callbackVars, NEW r \in CallbackCalls,
         FindExistingDelivery(r) \/ PersistDelivery(r) \/ RecordDuplicate(r)
  PROVE  AllFine(callbackCall', chain', stored')
<1> DEFINE c == callbackCall[r].cb
<1>1. stored \in [Callbacks -> DeliveryRecs] /\ content \in [Callbacks -> Contents]
  BY DEF CallbackInv, CallbackTyped
<1>2. CASE FindExistingDelivery(r)
  <2> DEFINE s == IF stored[c].known THEN "repeat" ELSE "persist"
  <2>1. callbackCall[r].step # "idle" /\ CallGoTo(r, s) /\ stored' = stored
    BY <1>2 DEF FindExistingDelivery, CallAt
  <2>2. s \in Stages \ {"idle"} /\ s \notin Judged /\ s \notin {"dispose", "upsert"} /\ (s \notin Unstored => stored[c].known)
    BY DEF Stages, Judged, Unstored
  <2> HIDE DEF s
  <2> QED
    BY <2>1, <2>2, CallStepsOn
<1>3. CASE PersistDelivery(r)
  <2>1. callbackCall[r].step # "idle" /\ c \in Callbacks
    BY <1>3, KeyOfCall DEF PersistDelivery, CallAt
  <2>2. CASE EndCall(r)
    BY <2>2, CallEnds
  <2>3. CASE stored[c].known /\ CallGoTo(r, "raced") /\ stored' = stored
    <3>1. "raced" \in Stages \ {"idle"} /\ "raced" \notin Judged
      BY DEF Stages, Judged, Unstored
    <3> QED
      BY <2>1, <2>3, <3>1, CallStepsOn
  <2>4. CASE content[c] = "malformed" /\ CallGoTo(r, "answer") /\ stored'[c].known /\ ~stored'[c].pending
    <3>1. "answer" \in Stages \ {"idle"}
      BY DEF Stages, Judged, Unstored
    <3> QED
      BY <2>1, <2>4, <3>1, CallStepsOn
  <2>5. CASE content[c] # "malformed" /\ CallGoTo(r, "context") /\ stored'[c].known
    <3>1. "context" \in Stages \ {"idle"} /\ "context" \notin Judged
      BY DEF Stages, Judged, Unstored
    <3> QED
      BY <2>1, <2>5, <3>1, CallStepsOn
  <2>6. \/ EndCall(r)
        \/ (stored[c].known /\ CallGoTo(r, "raced") /\ stored' = stored)
        \/ /\ stored' = [stored EXCEPT ![c] =
                 [known |-> TRUE, pending |-> content[c] # "malformed",
                  class |-> IF content[c] = "malformed" THEN "invalid_payload" ELSE "eligible_route_unresolved",
                  epoch |-> ruleState.epoch]]
           /\ CallGoTo(r, IF content[c] = "malformed" THEN "answer" ELSE "context")
    BY <1>3 DEF PersistDelivery
  <2> DEFINE made == [known |-> TRUE, pending |-> content[c] # "malformed",
                      class |-> IF content[c] = "malformed" THEN "invalid_payload" ELSE "eligible_route_unresolved",
                      epoch |-> ruleState.epoch]
  <2>7. CASE stored' = [stored EXCEPT ![c] = made] /\ CallGoTo(r, IF content[c] = "malformed" THEN "answer" ELSE "context")
    <3>1. stored'[c] = made
      BY <1>1, <2>1, <2>7
    <3>2. made.known /\ (made.pending <=> content[c] # "malformed")
      OBVIOUS
    <3> HIDE DEF made
    <3>3. CASE content[c] = "malformed"
      BY <2>4, <2>7, <3>1, <3>2, <3>3
    <3>4. CASE content[c] # "malformed"
      BY <2>5, <2>7, <3>1, <3>2, <3>4
    <3> QED
      BY <3>3, <3>4
  <2> QED
    BY <2>2, <2>3, <2>6, <2>7, Zenon
<1>4. CASE RecordDuplicate(r)
  <2>1. CASE EndCall(r)
    BY <2>1, CallEnds
  <2>2. CASE CallGoTo(r, AfterRepeat(r))
    <3>1. callbackCall[r].step # "idle" /\ stored[c].known /\ stored' = stored
      BY <1>4, KeyOfCall DEF RecordDuplicate, CallAt, Unstored
    <3>2. AfterRepeat(r) \in Stages \ {"idle"} /\ AfterRepeat(r) \notin Judged /\ AfterRepeat(r) \notin {"dispose", "upsert"}
      BY DEF AfterRepeat, Stages, Judged, Unstored
    <3> QED
      BY <2>2, <3>1, <3>2, CallStepsOn
  <2> QED
    BY <1>4, <2>1, <2>2 DEF RecordDuplicate
<1> QED
  BY <1>2, <1>3, <1>4

LEMMA LaterSteps ==
  ASSUME CallbackInv, [CallbackNext]_callbackVars, NEW r \in CallbackCalls,
         UpsertExecution(r) \/ StampDelivery(r) \/ EnqueueExecution(r) \/ AnswerCallback(r) \/ CallLost(r)
  PROVE  AllFine(callbackCall', chain', stored')
<1> DEFINE c == callbackCall[r].cb
<1>1. "answer" \in Stages \ {"idle"} /\ "stamp" \in Stages \ {"idle"} /\ "enqueue" \in Stages \ {"idle"} /\ "stamp" \notin Judged
  BY DEF Stages, Judged, Unstored
<1>2. CASE EndCall(r)
  BY <1>2, CallEnds
<1>3. CASE UpsertExecution(r)
  <2>1. callbackCall[r].step # "idle" /\ stored[c].known /\ stored' = stored /\ CallGoTo(r, "stamp")
    BY <1>3, KeyOfCall DEF UpsertExecution, CallAt, Unstored
  <2> QED
    BY <1>1, <2>1, CallStepsOn
<1>4. CASE StampDelivery(r)
  <2> DEFINE s == IF callbackCall[r].state = "eligible" THEN "enqueue" ELSE "answer"
  <2>1. callbackCall[r].step # "idle" /\ stored[c].known /\ c \in Callbacks
    BY <1>4, KeyOfCall DEF StampDelivery, CallAt, Unstored
  <2>2. stored \in [Callbacks -> DeliveryRecs] /\ stored[c] \in DeliveryRecs
    BY <2>1 DEF CallbackInv, CallbackTyped
  <2>3. stored'[c].known /\ ~stored'[c].pending
    <3>1. stored' = [stored EXCEPT ![c].pending = FALSE, ![c].class = ClassOf(callbackCall[r])]
      BY <1>4 DEF StampDelivery
    <3> QED
      BY <2>1, <2>2, <3>1 DEF DeliveryRecs
  <2>4. CallGoTo(r, s)
    BY <1>4 DEF StampDelivery
  <2>5. s \in Stages \ {"idle"} /\ s \notin {"dispose", "upsert"}
    BY <1>1
  <2> HIDE DEF s
  <2> QED
    BY <2>1, <2>3, <2>4, <2>5, CallStepsOn
<1>5. CASE EnqueueExecution(r) /\ CallGoTo(r, "answer")
  <2>1. /\ callbackCall[r].step # "idle" /\ stored[c].known /\ stored' = stored
        /\ callbackCall[r].kind = "ingest" => ~stored[c].pending
    BY <1>5, KeyOfCall DEF EnqueueExecution, CallAt, Unstored, Judged
  <2> QED
    BY <1>1, <1>5, <2>1, CallStepsOn
<1> QED
  BY <1>2, <1>3, <1>4, <1>5 DEF EnqueueExecution, AnswerCallback, CallLost

LEMMA NewCalls ==
  ASSUME CallbackInv, [CallbackNext]_callbackVars, NEW r \in CallbackCalls,
         \/ (\E c \in Callbacks : PostCallback(r, c))
         \/ Reprocess(r)
         \/ (\E c \in Callbacks, key \in RequestKeys : Reevaluate(r, c, key))
  PROVE  AllFine(callbackCall', chain', stored')
<1>1. CallIdle \in CallRecs /\ CallIdle.version = 0 /\ CallIdle.key = Initial
  BY CallIdleFine DEF CallFine, CallIdle
<1>2. \A c \in Callbacks : Len(chain'[c]) \in Nat /\ 0 =< Len(chain'[c])
  BY ChainSteps
<1>3. CASE \E c \in Callbacks : PostCallback(r, c)
  <2> PICK c \in Callbacks : PostCallback(r, c)
    BY <1>3
  <2> DEFINE q == [CallIdle EXCEPT !.step = "find", !.kind = "ingest", !.cb = c]
  <2>1. q \in CallRecs /\ q.step = "find" /\ q.kind = "ingest" /\ q.cb = c /\ q.key = Initial /\ q.version = 0
    BY <1>1 DEF CallRecs, Stages, Unstored
  <2>2. callbackCall' = [callbackCall EXCEPT ![r] = q]
    BY DEF PostCallback
  <2> HIDE DEF q
  <2>3. CallFine(q, chain', stored')
    BY <1>2, <2>1 DEF CallFine, Unstored, Judged
  <2> QED
    BY <2>2, <2>3, OneCallMoves
<1>4. CASE Reprocess(r)
  <2>1. PICK c \in Callbacks : stored[c].known /\ StartReprocess(r, c) /\ stored' = stored
    BY <1>4 DEF Reprocess, LatestObserved, Visible, Findable
  <2> DEFINE s == ReprocessStep(c)
             t == IF s = "enqueue" THEN "eligible" ELSE "none"
             q == [CallIdle EXCEPT !.step = s, !.kind = "reprocess", !.cb = c, !.state = t]
  <2>2. callbackCall' = [callbackCall EXCEPT ![r] = q]
    BY <2>1 DEF StartReprocess
  <2>3. s \in {"enqueue", "context"}
    BY <2>1 DEF StartReprocess, ReprocessStep
  <2>4. t \in ExecutionStates
    BY DEF ExecutionStates
  <2> HIDE DEF s, t
  <2>5. q \in CallRecs /\ q.step = s /\ q.kind = "reprocess" /\ q.cb = c /\ q.key = Initial /\ q.version = 0
    BY <1>1, <2>3, <2>4 DEF CallRecs, Stages, Judged
  <2> HIDE DEF q
  <2>6. CallFine(q, chain', stored')
    BY <1>2, <2>1, <2>3, <2>5 DEF CallFine, Unstored, Judged
  <2> QED
    BY <2>2, <2>6, OneCallMoves
<1>5. CASE \E c \in Callbacks, key \in RequestKeys : Reevaluate(r, c, key)
  <2> PICK c \in Callbacks, key \in RequestKeys : Reevaluate(r, c, key)
    BY <1>5
  <2> DEFINE q == [CallIdle EXCEPT !.step = "context", !.kind = "reevaluate", !.cb = c, !.key = key]
  <2>1. q \in CallRecs /\ q.step = "context" /\ q.kind = "reevaluate" /\ q.cb = c /\ q.key = key /\ q.version = 0
    BY <1>1 DEF CallRecs, Stages, Keys
  <2>2. callbackCall' = [callbackCall EXCEPT ![r] = q] /\ stored[c].known /\ stored' = stored
    BY DEF Reevaluate, Findable
  <2> HIDE DEF q
  <2>3. CallFine(q, chain', stored')
    BY <1>2, <2>1, <2>2 DEF CallFine, Unstored, Judged
  <2> QED
    BY <2>2, <2>3, OneCallMoves
<1> QED
  BY <1>3, <1>4, <1>5

LEMMA ObservationSteps ==
  ASSUME CallbackInv, [CallbackNext]_callbackVars, NEW r \in CallbackCalls,
         ReadContext(r) \/ FindLatestDecision(r) \/ FreezeDecision(r) \/ Orchestrate(r)
  PROVE  AllFine(callbackCall', chain', stored')
<1> DEFINE o == callbackCall[r]
           c == o.cb
<1>1. /\ o \in CallRecs /\ c \in Callbacks /\ o.step # "idle" /\ o.version =< Len(chain[c]) /\ stored[c].known /\ stored' = stored
      /\ o.step = "dispose" => o.version > 0
  BY KeyOfCall DEF ReadContext, FindLatestDecision, FreezeDecision, Orchestrate, CallAt, Unstored
<1>2. /\ callbackCall \in [CallbackCalls -> CallRecs] /\ chain[c] \in Seq(VersionRecs) /\ Len(chain[c]) \in Nat
      /\ Len(chain'[c]) \in Nat /\ Len(chain[c]) =< Len(chain'[c]) /\ o.version \in Nat
  <2>1. callbackCall \in [CallbackCalls -> CallRecs] /\ chain[c] \in Seq(VersionRecs)
    BY <1>1 DEF CallbackInv, CallbackTyped
  <2>2. chain'[c] \in Seq(VersionRecs) /\ Len(chain[c]) =< Len(chain'[c])
    BY <1>1, ChainSteps
  <2>3. o.version \in Nat
    BY <1>1 DEF CallRecs
  <2> HIDE DEF o, c
  <2> QED
    BY <2>1, <2>2, <2>3
<1>3. \A s \in {"latest", "stamp", "freeze", "dispose", "upsert"} : s \in Stages \ {"idle"} /\ s \notin Judged /\ s \notin Unstored
  BY DEF Stages, Judged, Unstored
<1>4. o.version =< Len(chain'[c])
  BY <1>1, <1>2
<1>5. CASE EndCall(r)
  BY <1>5, CallEnds
<1>6. CASE CallGoTo(r, "stamp")
  BY <1>1, <1>3, <1>6, CallStepsOn
<1>7. ASSUME NEW s \in {"latest", "stamp", "freeze", "dispose", "upsert"}, NEW q \in CallRecs,
             callbackCall' = [callbackCall EXCEPT ![r] = q],
             q.step = s, q.cb = c, q.kind = o.kind, q.key = o.key, q.version =< Len(chain'[c]),
             s \in {"dispose", "upsert"} => q.version > 0
      PROVE  AllFine(callbackCall', chain', stored')
  BY <1>1, <1>3, <1>7, CallGoesOn
<1>8. CASE ReadContext(r)
  <2> DEFINE s == IF ruleState.live THEN "latest" ELSE "stamp"
             x == IF ruleState.live
                    THEN [mode |-> ruleState.mode, epoch |-> ruleState.epoch, connection |-> ruleState.connection,
                          channel |-> heard \/ OneChannel, paid |-> paidLead]
                    ELSE NoContext
             q == [o EXCEPT !.step = s, !.context = x]
  <2>1. callbackCall' = [callbackCall EXCEPT ![r].step = s, ![r].context = x]
    BY <1>8 DEF ReadContext
  <2>2. x \in ContextRecs
    BY CallbackAssumption DEF CallbackInv, CallbackTyped, ContextRecs, NoContext, RuleModes
  <2>3. s \in {"latest", "stamp"}
    OBVIOUS
  <2> HIDE DEF x, s
  <2>4. callbackCall' = [callbackCall EXCEPT ![r] = q]
    BY <1>2, <2>1
  <2>5. q \in CallRecs /\ q.step = s /\ q.cb = c /\ q.kind = o.kind /\ q.key = o.key /\ q.version = o.version
    BY <1>1, <1>3, <2>2, <2>3 DEF CallRecs
  <2> HIDE DEF q, o
  <2> QED
    BY <1>4, <1>7, <2>3, <2>4, <2>5
<1>9. CASE FindLatestDecision(r)
  <2> DEFINE n == Len(chain[c])
             k == CodeOf(c, o.context)
  <2>1. k \in Codes
    BY DEF CodeOf, Codes
  <2>2. CASE n > 0 /\ callbackCall' = [callbackCall EXCEPT ![r].step = "dispose", ![r].found = n, ![r].version = n]
    <3> DEFINE q == [o EXCEPT !.step = "dispose", !.found = n, !.version = n]
    <3>1. callbackCall' = [callbackCall EXCEPT ![r] = q]
      BY <1>2, <2>2
    <3>2. q \in CallRecs /\ q.step = "dispose" /\ q.cb = c /\ q.kind = o.kind /\ q.key = o.key /\ q.version = n
      BY <1>1, <1>2, <1>3 DEF CallRecs
    <3> HIDE DEF q
    <3>3. q.version > 0 /\ q.version =< Len(chain'[c])
      BY <1>2, <2>2, <3>2
    <3> HIDE DEF o, c
    <3> QED
      BY <1>7, <3>1, <3>2, <3>3
  <2>3. CASE callbackCall' = [callbackCall EXCEPT ![r].step = "freeze", ![r].found = n, ![r].code = k]
    <3> DEFINE q == [o EXCEPT !.step = "freeze", !.found = n, !.code = k]
    <3> HIDE DEF k
    <3>1. callbackCall' = [callbackCall EXCEPT ![r] = q]
      BY <1>2, <2>3
    <3>2. q \in CallRecs /\ q.step = "freeze" /\ q.cb = c /\ q.kind = o.kind /\ q.key = o.key /\ q.version = o.version
      BY <1>1, <1>2, <1>3, <2>1 DEF CallRecs
    <3> HIDE DEF q, o
    <3> QED
      BY <1>4, <1>7, <3>1, <3>2
  <2> QED
    BY <1>5, <1>6, <1>9, <2>2, <2>3 DEF FindLatestDecision
<1>10. CASE FreezeDecision(r)
  <2>1. ASSUME NEW i \in Nat, i > 0, i =< Len(chain'[c]), callbackCall' = [callbackCall EXCEPT ![r].step = "dispose", ![r].version = i]
        PROVE  AllFine(callbackCall', chain', stored')
    <3> DEFINE q == [o EXCEPT !.step = "dispose", !.version = i]
    <3>1. callbackCall' = [callbackCall EXCEPT ![r] = q]
      BY <1>2, <2>1
    <3>2. q \in CallRecs /\ q.step = "dispose" /\ q.cb = c /\ q.kind = o.kind /\ q.key = o.key /\ q.version = i
      BY <1>1, <1>2, <1>3 DEF CallRecs
    <3> HIDE DEF q, o
    <3> QED
      BY <1>7, <2>1, <3>1, <3>2
  <2>2. CASE \E i \in WithKey(c, o.key) : callbackCall' = [callbackCall EXCEPT ![r].step = "dispose", ![r].version = i]
    <3>1. PICK i \in DOMAIN chain[c] : callbackCall' = [callbackCall EXCEPT ![r].step = "dispose", ![r].version = i]
      BY <2>2 DEF WithKey
    <3>2. i \in Nat /\ i > 0 /\ i =< Len(chain'[c])
      BY <1>2, <3>1
    <3> QED
      BY <2>1, <3>1, <3>2
  <2>3. CASE /\ \E m : chain' = [chain EXCEPT ![c] = Append(chain[c], m)]
             /\ callbackCall' = [callbackCall EXCEPT ![r].step = "dispose", ![r].version = Len(chain[c]) + 1]
    <3>1. PICK m : chain' = [chain EXCEPT ![c] = Append(chain[c], m)]
      BY <2>3
    <3>2. chain \in [Callbacks -> Seq(VersionRecs)]
      BY DEF CallbackInv, CallbackTyped
    <3>3. chain'[c] = Append(chain[c], m)
      BY <1>1, <3>1, <3>2
    <3>4. Len(chain'[c]) = Len(chain[c]) + 1
      BY <1>2, <3>3
    <3> DEFINE i == Len(chain[c]) + 1
    <3>5. i \in Nat /\ i > 0 /\ i =< Len(chain'[c])
      BY <1>2, <3>4
    <3>6. callbackCall' = [callbackCall EXCEPT ![r].step = "dispose", ![r].version = i]
      BY <2>3
    <3> HIDE DEF i
    <3> QED
      BY <2>1, <3>5, <3>6
  <2> QED
    BY <1>5, <1>10, <2>2, <2>3 DEF FreezeDecision
<1>11. CASE Orchestrate(r)
  <2> DEFINE t == IF execution[c].status \in Concluded THEN execution[c].status ELSE DispositionOf(o)
             s == IF execution[c].status \in Concluded \/ execution[c] = [status |-> DispositionOf(o), version |-> o.version]
                    THEN "stamp" ELSE "upsert"
             q == [o EXCEPT !.state = t, !.step = s]
  <2>1. t \in ExecutionStates
    BY DEF Concluded, DispositionOf, ExecutionStates
  <2>2. s \in {"stamp", "upsert"} /\ o.version > 0
    BY <1>1, <1>11 DEF Orchestrate, CallAt
  <2>3. CASE callbackCall' = [callbackCall EXCEPT ![r].state = t, ![r].step = s]
    <3> HIDE DEF t, s
    <3>1. callbackCall' = [callbackCall EXCEPT ![r] = q]
      BY <1>2, <2>3
    <3>2. q \in CallRecs /\ q.step = s /\ q.cb = c /\ q.kind = o.kind /\ q.key = o.key /\ q.version = o.version
      BY <1>1, <1>2, <1>3, <2>1, <2>2 DEF CallRecs
    <3> HIDE DEF q, o
    <3> QED
      BY <1>4, <1>7, <2>2, <3>1, <3>2
  <2> QED
    BY <1>6, <1>11, <2>3 DEF Orchestrate
<1> QED
  BY <1>8, <1>9, <1>10, <1>11

LEMMA CallsStayFine == ASSUME CallbackInv, [CallbackNext]_callbackVars PROVE AllFine(callbackCall', chain', stored')
<1>1. CASE UNCHANGED callbackCall
  <2>1. callbackCall \in [CallbackCalls -> CallRecs] /\ \A s \in CallbackCalls : CallFine(callbackCall[s], chain, stored)
    BY DEF CallbackInv, CallbackTyped
  <2>2. \A s \in CallbackCalls : CallFine(callbackCall[s], chain', stored')
    BY <2>1, StaysFine, Grows, ChainSteps
  <2> QED
    BY <1>1, <2>1, <2>2 DEF AllFine
<1>2. \/ UNCHANGED callbackCall
      \/ \E r \in CallbackCalls :
           \/ (\E c \in Callbacks : PostCallback(r, c))
           \/ Reprocess(r)
           \/ (\E c \in Callbacks, key \in RequestKeys : Reevaluate(r, c, key))
           \/ CallSteps(r)
           \/ CallLost(r)
  BY DEF CallbackNext, callbackVars, WorldMoves, Produce
<1> QED
  BY <1>1, <1>2, IngestionSteps, ObservationSteps, LaterSteps, NewCalls DEF CallSteps

(* What the calls leave: executions and reviews of versions that are there, *)
(* and an answer only for a callback that has been evaluated.               *)
LEMMA OutcomeSteps == ASSUME CallbackInv, [CallbackNext]_callbackVars
  PROVE  /\ execution' \in [Callbacks -> ExecutionRecs] /\ reviewed' \in [Callbacks -> Nat]
         /\ \A c \in Callbacks : execution'[c].version =< Len(chain'[c]) /\ reviewed'[c] =< Len(chain'[c])
<1>1. /\ execution \in [Callbacks -> ExecutionRecs] /\ reviewed \in [Callbacks -> Nat]
      /\ \A c \in Callbacks : execution[c].version =< Len(chain[c]) /\ reviewed[c] =< Len(chain[c])
  BY DEF CallbackInv, CallbackTyped
<1>2. \A c \in Callbacks : Len(chain[c]) \in Nat /\ Len(chain'[c]) \in Nat /\ Len(chain[c]) =< Len(chain'[c])
  BY ChainSteps DEF CallbackInv, CallbackTyped
<1>3. \A c \in Callbacks : execution[c].version \in Nat /\ reviewed[c] \in Nat
  BY <1>1 DEF ExecutionRecs
<1>4. CASE UNCHANGED <<execution, reviewed>>
  BY <1>1, <1>2, <1>3, <1>4
<1>5. CASE \E r \in CallbackCalls : UpsertExecution(r)
  <2> PICK r \in CallbackCalls : UpsertExecution(r)
    BY <1>5
  <2> DEFINE c == callbackCall[r].cb
             made == [status |-> callbackCall[r].state, version |-> callbackCall[r].version]
  <2>1. c \in Callbacks /\ callbackCall[r] \in CallRecs /\ callbackCall[r].version =< Len(chain[c])
    BY KeyOfCall DEF UpsertExecution, CallAt
  <2>2. execution' = [execution EXCEPT ![c] = made] /\ reviewed' = reviewed /\ chain' = chain
    BY DEF UpsertExecution
  <2>3. made \in ExecutionRecs /\ made.version =< Len(chain[c])
    BY <2>1 DEF CallRecs, ExecutionRecs
  <2> HIDE DEF c, made
  <2> QED
    BY <1>1, <1>2, <1>3, <2>1, <2>2, <2>3
<1>6. CASE \E r \in CallbackCalls : Orchestrate(r) /\ reviewed' # reviewed
  <2> PICK r \in CallbackCalls : Orchestrate(r) /\ reviewed' # reviewed
    BY <1>6
  <2> DEFINE c == callbackCall[r].cb
             v == callbackCall[r].version
  <2>1. c \in Callbacks /\ v \in Nat /\ v =< Len(chain[c])
    BY KeyOfCall DEF Orchestrate, CallAt, CallRecs
  <2>2. reviewed' = [reviewed EXCEPT ![c] = v] /\ execution' = execution /\ chain' = chain
    BY DEF Orchestrate
  <2> HIDE DEF c, v
  <2> QED
    BY <1>1, <1>2, <1>3, <2>1, <2>2
<1>7. CASE \E c \in Callbacks, outcome \in {"materialized", "failed_retryable", "failed_permanent"} :
             Produce(c, outcome) /\ execution' # execution
  <2> PICK c \in Callbacks, outcome \in {"materialized", "failed_retryable", "failed_permanent"} :
             Produce(c, outcome) /\ execution' # execution
    BY <1>7
  <2> DEFINE made == [execution[c] EXCEPT !.status = outcome]
  <2>1. execution[c] \in ExecutionRecs
    BY <1>1
  <2>2. execution' = [execution EXCEPT ![c].status = outcome] /\ reviewed' = reviewed /\ chain' = chain
    BY DEF Produce
  <2>3. execution' = [execution EXCEPT ![c] = made]
    BY <1>1, <2>2
  <2>4. made \in ExecutionRecs /\ made.version = execution[c].version
    BY <2>1 DEF ExecutionRecs, ExecutionStates
  <2> HIDE DEF made
  <2> QED
    BY <1>1, <1>2, <1>3, <2>2, <2>3, <2>4
<1> QED
  BY <1>4, <1>5, <1>6, <1>7 DEF CallbackNext, callbackVars, outcomeVars, WorldMoves, PostCallback, Reprocess, Reevaluate, CallSteps,
     CallLost, Produce, FindExistingDelivery, PersistDelivery, RecordDuplicate, ReadContext, FindLatestDecision, FreezeDecision,
     Orchestrate, StampDelivery, EnqueueExecution, AnswerCallback

LEMMA AnsweredSteps == ASSUME CallbackInv, [CallbackNext]_callbackVars
  PROVE  /\ handed' \subseteq Callbacks /\ answered' \subseteq Callbacks
         /\ \A c \in answered' : stored'[c].known /\ ~stored'[c].pending
<1>1. /\ handed \subseteq Callbacks /\ answered \subseteq Callbacks
      /\ \A c \in answered : stored[c].known /\ ~stored[c].pending
  BY DEF CallbackInv, CallbackTyped
<1>2. \A c \in Callbacks : stored[c].known /\ ~stored[c].pending => stored'[c].known /\ ~stored'[c].pending
  BY StoredSteps, Zenon
<1>3. handed' \subseteq Callbacks
  <2>1. CASE UNCHANGED handed
    BY <1>1, <2>1
  <2>2. CASE \E r \in CallbackCalls : EnqueueExecution(r)
    <3> PICK r \in CallbackCalls : EnqueueExecution(r)
      BY <2>2
    <3>1. callbackCall[r].cb \in Callbacks
      BY KeyOfCall DEF EnqueueExecution, CallAt
    <3>2. handed' = handed \/ handed' = handed \cup {callbackCall[r].cb}
      BY DEF EnqueueExecution
    <3> QED
      BY <1>1, <3>1, <3>2
  <2>3. CASE \E c \in Callbacks, outcome \in {"materialized", "failed_retryable", "failed_permanent"} : Produce(c, outcome)
    BY <1>1, <2>3 DEF Produce
  <2> QED
    BY <2>1, <2>2, <2>3 DEF CallbackNext, callbackVars, WorldMoves, PostCallback, Reprocess, Reevaluate, CallSteps,
       CallLost, FindExistingDelivery, PersistDelivery, RecordDuplicate, ReadContext, FindLatestDecision, FreezeDecision,
       Orchestrate, UpsertExecution, StampDelivery, AnswerCallback
<1>4. \A c \in answered' : c \in Callbacks /\ stored[c].known /\ ~stored[c].pending
  <2>1. CASE UNCHANGED answered
    BY <1>1, <2>1
  <2>2. CASE \E r \in CallbackCalls : AnswerCallback(r)
    <3> PICK r \in CallbackCalls : AnswerCallback(r)
      BY <2>2
    <3>1. CASE callbackCall[r].step = "answer" /\ callbackCall[r].kind = "ingest"
      <4>1. callbackCall[r].cb \in Callbacks /\ stored[callbackCall[r].cb].known /\ ~stored[callbackCall[r].cb].pending
        BY <3>1, KeyOfCall DEF Judged, Unstored
      <4>2. answered' = answered \cup {callbackCall[r].cb}
        BY <3>1 DEF AnswerCallback, CallAt
      <4> QED
        BY <1>1, <4>1, <4>2
    <3>2. CASE ~(callbackCall[r].step = "answer" /\ callbackCall[r].kind = "ingest")
      <4>1. answered' = answered
        BY <3>2 DEF AnswerCallback, CallAt
      <4> QED
        BY <1>1, <4>1
    <3> QED
      BY <3>1, <3>2
  <2> QED
    BY <2>1, <2>2 DEF CallbackNext, callbackVars, WorldMoves, PostCallback, Reprocess, Reevaluate, CallSteps,
       CallLost, Produce, FindExistingDelivery, PersistDelivery, RecordDuplicate, ReadContext, FindLatestDecision, FreezeDecision,
       Orchestrate, UpsertExecution, StampDelivery, EnqueueExecution
<1> QED
  BY <1>2, <1>3, <1>4

LEMMA WorldSteps == ASSUME CallbackInv, [CallbackNext]_callbackVars
  PROVE  /\ content' \in [Callbacks -> Contents] /\ paidLead' \in BOOLEAN /\ heard' \in BOOLEAN
         /\ ruleState' \in [live : BOOLEAN, mode : RuleModes, epoch : 0..MaxActivations, connection : {"observation", "production"}]
<1> DEFINE R == [live : BOOLEAN, mode : RuleModes, epoch : 0..MaxActivations, connection : {"observation", "production"}]
<1>1. content \in [Callbacks -> Contents] /\ paidLead \in BOOLEAN /\ heard \in BOOLEAN /\ ruleState \in R
  BY DEF CallbackInv, CallbackTyped
<1>2. CASE UNCHANGED worldVars
  BY <1>1, <1>2 DEF worldVars
<1>3. CASE WorldMoves
  <2>1. content' = content /\ paidLead' \in BOOLEAN /\ heard' \in BOOLEAN
    BY <1>1, <1>3 DEF WorldMoves, ContactSeen
  <2>2. CASE ActivateCallbackRule
    <3>1. ruleState.epoch + 1 \in 0..MaxActivations
      BY <1>1, <2>2, CallbackAssumption DEF ActivateCallbackRule
    <3> DEFINE n == ruleState.epoch + 1
    <3>2. ruleState' = [ruleState EXCEPT !.mode = "production", !.epoch = n]
      BY <2>2 DEF ActivateCallbackRule
    <3> HIDE DEF n
    <3>3. n \in 0..MaxActivations
      BY <3>1 DEF n
    <3>4. ruleState' \in R
      BY <1>1, <3>2, <3>3 DEF RuleModes
    <3> QED
      BY <1>1, <2>1, <3>4
  <2>3. CASE ObserveCallbackRule \/ RemoveCallbackRule
    <3>1. ruleState' \in R
      BY <1>1, <2>3 DEF ObserveCallbackRule, RemoveCallbackRule, RuleModes
    <3> QED
      BY <1>1, <2>1, <3>1
  <2>4. CASE ruleState' = ruleState
    BY <1>1, <2>1, <2>4
  <2> QED
    BY <1>3, <2>2, <2>3, <2>4 DEF WorldMoves
<1> QED
  BY <1>2, <1>3 DEF CallbackNext, callbackVars, worldVars, PostCallback, Reprocess, Reevaluate, CallSteps,
     CallLost, Produce, FindExistingDelivery, PersistDelivery, RecordDuplicate, ReadContext, FindLatestDecision, FreezeDecision,
     Orchestrate, UpsertExecution, StampDelivery, EnqueueExecution, AnswerCallback

-----------------------------------------------------------------------------
(* What the audit rests on: a callback the parser refused is never decided  *)
(* and never executed, and an execution without status has no version.      *)
Unread == {"idle", "find", "persist", "repeat", "raced", "answer", "answerRaced"}

CallReads(q) ==
  /\ q.step \notin Unread => content[q.cb] # "malformed"
  /\ q.step = "upsert" => q.state # "none"

AuditInv ==
  /\ \A r \in CallbackCalls : CallReads(callbackCall[r])
  /\ \A c \in Callbacks :
       /\ content[c] = "malformed" => chain[c] = <<>> /\ execution[c].status = "none"
       /\ execution[c].status = "none" => execution[c].version = 0

LEMMA AuditStarts == CallbackInit => AuditInv
BY DEF CallbackInit, AuditInv, CallReads, Unread, CallIdle, NoExecution

LEMMA ContentStays == ASSUME CallbackInv, [CallbackNext]_callbackVars PROVE content' = content
BY DEF CallbackNext, callbackVars, worldVars, WorldMoves, PostCallback, Reprocess, Reevaluate, CallSteps,
   CallLost, Produce, FindExistingDelivery, PersistDelivery, RecordDuplicate, ReadContext, FindLatestDecision, FreezeDecision,
   Orchestrate, UpsertExecution, StampDelivery, EnqueueExecution, AnswerCallback

(* The calls. *)
LEMMA OneCallReads ==
  ASSUME CallbackInv, AuditInv, NEW r \in CallbackCalls, NEW q, callbackCall' = [callbackCall EXCEPT ![r] = q], content' = content, 
         q.step \notin Unread => content[q.cb] # "malformed", q.step = "upsert" => q.state # "none"
  PROVE  \A s \in CallbackCalls : CallReads(callbackCall[s])'
<1>1. callbackCall \in [CallbackCalls -> CallRecs] /\ \A s \in CallbackCalls : CallReads(callbackCall[s])
  BY DEF CallbackInv, CallbackTyped, AuditInv
<1>2. \A s \in CallbackCalls : callbackCall'[s] = IF s = r THEN q ELSE callbackCall[s]
  BY <1>1
<1> QED
  BY <1>1, <1>2, Zenon DEF CallReads

LEMMA GoingOnReads ==
  ASSUME CallbackInv, AuditInv, NEW r \in CallbackCalls, NEW s, CallGoTo(r, s), content' = content, s # "upsert",
         s \notin Unread => content[callbackCall[r].cb] # "malformed"
  PROVE  \A x \in CallbackCalls : CallReads(callbackCall[x])'
<1> DEFINE q == [callbackCall[r] EXCEPT !.step = s]
<1>1. callbackCall[r] \in CallRecs /\ callbackCall \in [CallbackCalls -> CallRecs]
  BY DEF CallbackInv, CallbackTyped
<1>2. callbackCall' = [callbackCall EXCEPT ![r] = q]
  BY <1>1 DEF CallGoTo
<1>3. q.step = s /\ q.cb = callbackCall[r].cb
  BY <1>1 DEF CallRecs
<1> HIDE DEF q
<1> QED
  BY <1>2, <1>3, OneCallReads

LEMMA EndingReads ==
  ASSUME CallbackInv, AuditInv, NEW r \in CallbackCalls, EndCall(r), content' = content
  PROVE  \A x \in CallbackCalls : CallReads(callbackCall[x])'
<1>1. CallIdle.step \in Unread /\ CallIdle.step # "upsert"
  BY DEF CallIdle, Unread
<1> QED
  BY <1>1, OneCallReads DEF EndCall

LEMMA StartingReads ==
  ASSUME CallbackInv, AuditInv, NEW r \in CallbackCalls, content' = content,
         \/ \E c \in Callbacks : PostCallback(r, c)
         \/ Reprocess(r)
         \/ \E c \in Callbacks, key \in RequestKeys : Reevaluate(r, c, key)
  PROVE  \A x \in CallbackCalls : CallReads(callbackCall[x])'
<1>1. CASE \E c \in Callbacks : PostCallback(r, c)
  <2> PICK c \in Callbacks : PostCallback(r, c)
    BY <1>1
  <2> DEFINE q == [CallIdle EXCEPT !.step = "find", !.kind = "ingest", !.cb = c]
  <2>1. callbackCall' = [callbackCall EXCEPT ![r] = q] /\ q.step = "find"
    BY DEF PostCallback, CallIdle
  <2>2. "find" \in Unread
    BY DEF Unread
  <2> HIDE DEF q
  <2> QED
    BY <2>1, <2>2, OneCallReads
<1>2. CASE Reprocess(r)
  <2>1. PICK c \in Callbacks : StartReprocess(r, c)
    BY <1>2 DEF Reprocess, LatestObserved
  <2> DEFINE s == ReprocessStep(c)
             t == IF s = "enqueue" THEN "eligible" ELSE "none"
             q == [CallIdle EXCEPT !.step = s, !.kind = "reprocess", !.cb = c, !.state = t]
  <2>2. callbackCall' = [callbackCall EXCEPT ![r] = q]
    BY <2>1 DEF StartReprocess
  <2>3. s \in {"enqueue", "context"}
    BY <2>1 DEF StartReprocess, ReprocessStep
  <2>4. content[c] # "malformed"
    BY <2>1 DEF StartReprocess, ReprocessStep, AuditInv, Concluded
  <2> HIDE DEF s, t
  <2>5. q.step = s /\ q.cb = c
    BY DEF CallIdle
  <2> HIDE DEF q
  <2> QED
    BY <2>2, <2>3, <2>4, <2>5, OneCallReads
<1>3. CASE \E c \in Callbacks, key \in RequestKeys : Reevaluate(r, c, key)
  <2> PICK c \in Callbacks, key \in RequestKeys : Reevaluate(r, c, key)
    BY <1>3
  <2> DEFINE q == [CallIdle EXCEPT !.step = "context", !.kind = "reevaluate", !.cb = c, !.key = key]
  <2>1. q.step = "context" /\ q.cb = c
    BY DEF CallIdle
  <2>2. callbackCall' = [callbackCall EXCEPT ![r] = q] /\ content[c] # "malformed"
    BY DEF Reevaluate
  <2> HIDE DEF q
  <2> QED
    BY <2>1, <2>2, OneCallReads
<1> QED
  BY <1>1, <1>2, <1>3

(* A call that has read the callback goes on with one that can be read. *)
LEMMA ReadingReads ==
  ASSUME CallbackInv, AuditInv, NEW r \in CallbackCalls, content' = content, callbackCall[r].step \notin Unread,
         NEW q, callbackCall' = [callbackCall EXCEPT ![r] = q], q.cb = callbackCall[r].cb, q.step = "upsert" => q.state # "none"
  PROVE  \A x \in CallbackCalls : CallReads(callbackCall[x])'
<1>1. content[callbackCall[r].cb] # "malformed"
  BY DEF AuditInv, CallReads
<1> QED
  BY <1>1, OneCallReads

LEMMA IngestingReads ==
  ASSUME CallbackInv, AuditInv, NEW r \in CallbackCalls, content' = content,
         FindExistingDelivery(r) \/ PersistDelivery(r) \/ RecordDuplicate(r) \/ AnswerCallback(r) \/ CallLost(r)
           \/ EnqueueExecution(r) \/ UpsertExecution(r) \/ StampDelivery(r)
  PROVE  \A x \in CallbackCalls : CallReads(callbackCall[x])'
<1>1. CASE EndCall(r)
  BY <1>1, EndingReads
<1>2. CASE \E s \in Unread : CallGoTo(r, s)
  <2>1. "upsert" \notin Unread
    BY DEF Unread
  <2> QED
    BY <1>2, <2>1, GoingOnReads
<1>3. CASE CallGoTo(r, "context") /\ content[callbackCall[r].cb] # "malformed"
  BY <1>3, GoingOnReads
<1>4. CASE callbackCall[r].step \notin Unread /\ \E s \in {"stamp", "enqueue", "answer"} : CallGoTo(r, s)
  <2>1. content[callbackCall[r].cb] # "malformed"
    BY <1>4 DEF AuditInv, CallReads
  <2> QED
    BY <1>4, <2>1, GoingOnReads
<1>5. CASE FindExistingDelivery(r)
  BY <1>2, <1>5 DEF FindExistingDelivery, Unread
<1>6. CASE PersistDelivery(r)
  BY <1>1, <1>2, <1>3, <1>6 DEF PersistDelivery, Unread
<1>7. CASE RecordDuplicate(r)
  BY <1>1, <1>2, <1>3, <1>7 DEF RecordDuplicate, AfterRepeat, Unread
<1>8. CASE AnswerCallback(r) \/ CallLost(r)
  BY <1>1, <1>8 DEF AnswerCallback, CallLost
<1>9. CASE EnqueueExecution(r) \/ UpsertExecution(r) \/ StampDelivery(r)
  BY <1>1, <1>4, <1>9 DEF EnqueueExecution, UpsertExecution, StampDelivery, CallAt, Unread
<1> QED
  BY <1>5, <1>6, <1>7, <1>8, <1>9

LEMMA ObservingReads ==
  ASSUME CallbackInv, AuditInv, NEW r \in CallbackCalls, content' = content,
         ReadContext(r) \/ FindLatestDecision(r) \/ FreezeDecision(r) \/ Orchestrate(r)
  PROVE  \A x \in CallbackCalls : CallReads(callbackCall[x])'
<1> DEFINE o == callbackCall[r]
<1>1. o \in CallRecs /\ callbackCall \in [CallbackCalls -> CallRecs]
  BY DEF CallbackInv, CallbackTyped
<1>2. o.step \in {"context", "latest", "freeze", "dispose"} /\ o.step \notin Unread
  BY DEF ReadContext, FindLatestDecision, FreezeDecision, Orchestrate, CallAt, Unread
<1>3. content[o.cb] # "malformed"
  BY <1>2 DEF AuditInv, CallReads
<1>4. CASE EndCall(r)
  BY <1>4, EndingReads
<1>5. CASE CallGoTo(r, "stamp")
  BY <1>3, <1>5, GoingOnReads
<1>6. ASSUME NEW s \in {"stamp", "latest"}, NEW x, callbackCall' = [callbackCall EXCEPT ![r].step = s, ![r].context = x]
      PROVE  \A y \in CallbackCalls : CallReads(callbackCall[y])'
  <2> DEFINE q == [o EXCEPT !.step = s, !.context = x]
  <2>1. callbackCall' = [callbackCall EXCEPT ![r] = q] /\ q.step = s /\ q.cb = o.cb
    BY <1>1, <1>6 DEF CallRecs
  <2> HIDE DEF q, o
  <2> QED
    BY <1>2, <2>1, ReadingReads DEF o
<1>7. ASSUME NEW n, NEW v, callbackCall' = [callbackCall EXCEPT ![r].step = "dispose", ![r].found = n, ![r].version = v]
      PROVE  \A y \in CallbackCalls : CallReads(callbackCall[y])'
  <2> DEFINE q == [o EXCEPT !.step = "dispose", !.found = n, !.version = v]
  <2>1. callbackCall' = [callbackCall EXCEPT ![r] = q] /\ q.step = "dispose" /\ q.cb = o.cb
    BY <1>1, <1>7 DEF CallRecs
  <2> HIDE DEF q, o
  <2> QED
    BY <1>2, <2>1, ReadingReads DEF o
<1>8. ASSUME NEW n, NEW k, callbackCall' = [callbackCall EXCEPT ![r].step = "freeze", ![r].found = n, ![r].code = k]
      PROVE  \A y \in CallbackCalls : CallReads(callbackCall[y])'
  <2> DEFINE q == [o EXCEPT !.step = "freeze", !.found = n, !.code = k]
  <2>1. callbackCall' = [callbackCall EXCEPT ![r] = q] /\ q.step = "freeze" /\ q.cb = o.cb
    BY <1>1, <1>8 DEF CallRecs
  <2> HIDE DEF q, o
  <2> QED
    BY <1>2, <2>1, ReadingReads DEF o
<1>9. ASSUME NEW v, callbackCall' = [callbackCall EXCEPT ![r].step = "dispose", ![r].version = v]
      PROVE  \A y \in CallbackCalls : CallReads(callbackCall[y])'
  <2> DEFINE q == [o EXCEPT !.step = "dispose", !.version = v]
  <2>1. callbackCall' = [callbackCall EXCEPT ![r] = q] /\ q.step = "dispose" /\ q.cb = o.cb
    BY <1>1, <1>9 DEF CallRecs
  <2> HIDE DEF q, o
  <2> QED
    BY <1>2, <2>1, ReadingReads DEF o
<1>10. ASSUME NEW s, NEW t, t # "none", callbackCall' = [callbackCall EXCEPT ![r].state = t, ![r].step = s]
      PROVE  \A y \in CallbackCalls : CallReads(callbackCall[y])'
  <2> DEFINE q == [o EXCEPT !.state = t, !.step = s]
  <2>1. callbackCall' = [callbackCall EXCEPT ![r] = q] /\ q.state = t /\ q.cb = o.cb
    BY <1>1, <1>10 DEF CallRecs
  <2> HIDE DEF q, o
  <2> QED
    BY <1>2, <1>10, <2>1, ReadingReads DEF o
<1>11. CASE ReadContext(r)
  <2>1. (IF ruleState.live THEN "latest" ELSE "stamp") \in {"stamp", "latest"}
    OBVIOUS
  <2> QED
    BY <1>6, <1>11, <2>1 DEF ReadContext
<1>12. CASE FindLatestDecision(r)
  BY <1>4, <1>5, <1>7, <1>8, <1>12 DEF FindLatestDecision
<1>13. CASE FreezeDecision(r)
  BY <1>4, <1>9, <1>13 DEF FreezeDecision
<1>14. CASE Orchestrate(r)
  <2> DEFINE t == IF execution[o.cb].status \in Concluded THEN execution[o.cb].status ELSE DispositionOf(o)
             s == IF execution[o.cb].status \in Concluded \/ execution[o.cb] = [status |-> DispositionOf(o), version |-> o.version]
                    THEN "stamp" ELSE "upsert"
  <2>1. t # "none"
    BY DEF Concluded, DispositionOf
  <2>2. CallGoTo(r, "stamp") \/ callbackCall' = [callbackCall EXCEPT ![r].state = t, ![r].step = s]
    BY <1>14 DEF Orchestrate
  <2> HIDE DEF t, s
  <2> QED
    BY <1>5, <1>10, <2>1, <2>2
<1> QED
  BY <1>11, <1>12, <1>13, <1>14

(* The rows. *)
LEMMA RowsRead ==
  ASSUME CallbackInv, AuditInv, [CallbackNext]_callbackVars
  PROVE  \A c \in Callbacks :
           /\ content[c] = "malformed" => chain'[c] = <<>> /\ execution'[c].status = "none"
           /\ execution'[c].status = "none" => execution'[c].version = 0
<1>1. /\ execution \in [Callbacks -> ExecutionRecs] /\ chain \in [Callbacks -> Seq(VersionRecs)]
      /\ \A c \in Callbacks : /\ content[c] = "malformed" => chain[c] = <<>> /\ execution[c].status = "none"
                              /\ execution[c].status = "none" => execution[c].version = 0
  BY DEF CallbackInv, CallbackTyped, AuditInv
<1>2. CASE UNCHANGED <<chain, execution>>
  BY <1>1, <1>2
<1>3. CASE \E r \in CallbackCalls : FreezeDecision(r)
  <2> PICK r \in CallbackCalls : FreezeDecision(r)
    BY <1>3
  <2> DEFINE k == callbackCall[r].cb
  <2>1. content[k] # "malformed" /\ k \in Callbacks
    BY KeyOfCall DEF FreezeDecision, CallAt, AuditInv, CallReads, Unread
  <2>2. execution' = execution /\ \A c \in Callbacks : c # k => chain'[c] = chain[c]
    BY <1>1 DEF FreezeDecision, outcomeVars
  <2> HIDE DEF k
  <2> QED
    BY <1>1, <2>1, <2>2
<1>4. CASE \E r \in CallbackCalls : UpsertExecution(r)
  <2> PICK r \in CallbackCalls : UpsertExecution(r)
    BY <1>4
  <2> DEFINE k == callbackCall[r].cb
             made == [status |-> callbackCall[r].state, version |-> callbackCall[r].version]
  <2>1. content[k] # "malformed" /\ k \in Callbacks /\ made.status # "none"
    BY KeyOfCall DEF UpsertExecution, CallAt, AuditInv, CallReads, Unread
  <2>2. chain' = chain /\ execution' = [execution EXCEPT ![k] = made]
    BY DEF UpsertExecution
  <2> HIDE DEF k, made
  <2> QED
    BY <1>1, <2>1, <2>2
<1>5. CASE \E c \in Callbacks, outcome \in {"materialized", "failed_retryable", "failed_permanent"} : Produce(c, outcome)
  <2> PICK k \in Callbacks, outcome \in {"materialized", "failed_retryable", "failed_permanent"} : Produce(k, outcome)
    BY <1>5
  <2>1. CASE UNCHANGED execution
    BY <1>1, <2>1 DEF Produce
  <2>2. CASE execution[k].status \in {"eligible", "failed_retryable"} /\ execution' = [execution EXCEPT ![k].status = outcome]
    <3> DEFINE made == [execution[k] EXCEPT !.status = outcome]
    <3>1. execution' = [execution EXCEPT ![k] = made] /\ made.status = outcome
      BY <1>1, <2>2 DEF ExecutionRecs
    <3>2. content[k] # "malformed" /\ chain' = chain
      BY <1>1, <2>2 DEF Produce
    <3> HIDE DEF made
    <3> QED
      BY <1>1, <3>1, <3>2
  <2> QED
    BY <2>1, <2>2 DEF Produce
<1> QED
  BY <1>2, <1>3, <1>4, <1>5 DEF CallbackNext, callbackVars, outcomeVars, WorldMoves, PostCallback, Reprocess, Reevaluate, CallSteps,
     CallLost, FindExistingDelivery, PersistDelivery, RecordDuplicate, ReadContext, FindLatestDecision,
     Orchestrate, StampDelivery, EnqueueExecution, AnswerCallback

LEMMA AuditStays == ASSUME CallbackInv, AuditInv, [CallbackNext]_callbackVars PROVE AuditInv'
<1>1. content' = content
  BY ContentStays
<1>2. \A r \in CallbackCalls : CallReads(callbackCall[r])'
  <2>1. CASE UNCHANGED callbackCall
    BY <1>1, <2>1 DEF AuditInv, CallReads
  <2>2. \/ UNCHANGED callbackCall
        \/ \E r \in CallbackCalls :
             \/ (\E c \in Callbacks : PostCallback(r, c))
             \/ Reprocess(r)
             \/ (\E c \in Callbacks, key \in RequestKeys : Reevaluate(r, c, key))
             \/ CallSteps(r)
             \/ CallLost(r)
    BY DEF CallbackNext, callbackVars, WorldMoves, Produce
  <2> QED
    BY <1>1, <2>1, <2>2, StartingReads, IngestingReads, ObservingReads DEF CallSteps
<1>3. \A c \in Callbacks :
        /\ content'[c] = "malformed" => chain'[c] = <<>> /\ execution'[c].status = "none"
        /\ execution'[c].status = "none" => execution'[c].version = 0
  BY <1>1, RowsRead
<1> QED
  BY <1>2, <1>3 DEF AuditInv

LEMMA AuditFollows == ASSUME CallbackInv, AuditInv PROVE AuditAgrees
<1> SUFFICES ASSUME NEW c \in Callbacks
             PROVE  /\ Reprocessable(c) => ReprocessStep(c) # "skip" /\ c \in Summary.recoverable
                    /\ Visible(c) /\ AuditStatus(c) = "observed" => c \in Summary.observed
                    /\ Visible(c) /\ AuditStatus(c) = "blocked" => c \in Summary.blocked
  BY DEF AuditAgrees
<1>1. /\ content[c] = "malformed" => chain[c] = <<>> /\ execution[c].status = "none"
      /\ execution[c].status = "none" => execution[c].version = 0
  BY DEF AuditInv
<1>2. chain[c] \in Seq(VersionRecs) /\ (chain[c] # <<>> => Len(chain[c]) # 0)
  BY EmptySeq DEF CallbackInv, CallbackTyped
<1>3. ASSUME Reprocessable(c) PROVE ReprocessStep(c) # "skip"
  BY <1>1, <1>3 DEF Reprocessable, ReprocessStep, LatestIs, Concluded
<1>4. ASSUME NEW k, execution[c].status = "none", LatestIs(c, k) PROVE execution[c].version # Len(chain[c])
  BY <1>1, <1>2, <1>4 DEF LatestIs
<1>5. ASSUME Reprocessable(c) PROVE c \in Summary.recoverable
  BY <1>4, <1>5 DEF Reprocessable, Summary
<1>6. ASSUME Visible(c), AuditStatus(c) = "observed" PROVE c \in Summary.observed
  BY <1>4, <1>6 DEF AuditStatus, DecisionStatus, Summary
<1>7. ASSUME Visible(c), AuditStatus(c) = "blocked" PROVE c \in Summary.blocked
  BY <1>4, <1>7 DEF AuditStatus, DecisionStatus, Summary
<1> QED
  BY <1>3, <1>5, <1>6, <1>7

(* For any number of callbacks, overlapping deliveries, operator requests   *)
(* and faults: a callback answered as accepted has been evaluated, and the  *)
(* decisions of an occurrence form one line of versions, each over the one  *)
(* before and under a key of its own, because persist appends under the     *)
(* lock only after assertVersionTransition; and what the audit offers an    *)
(* operator, reprocessing takes up and the summary counts.                  *)
THEOREM CallbacksStaySafe == CallbackSpec => []CallbacksSafe
<1>1. CallbackInv /\ [CallbackNext]_callbackVars => CallbackInv'
  <2> SUFFICES ASSUME CallbackInv, [CallbackNext]_callbackVars PROVE CallbackInv'
    OBVIOUS
  <2>1. callbackCall' \in [CallbackCalls -> CallRecs] /\ \A r \in CallbackCalls : CallFine(callbackCall'[r], chain', stored')
    BY CallsStayFine DEF AllFine
  <2>2. CallbackTyped'
    BY <2>1, WorldSteps, StoredSteps, ChainSteps, OutcomeSteps, AnsweredSteps, Zenon DEF CallbackTyped
  <2>3. \A c \in Callbacks : stored'[c].pending => stored'[c].known
    BY StoredSteps, Zenon
  <2>4. \A c \in Callbacks : Len(chain'[c]) =< MaxVersions
    BY ChainSteps, Zenon
  <2>5. \A c \in Callbacks : execution'[c].version =< Len(chain'[c]) /\ reviewed'[c] =< Len(chain'[c])
    BY OutcomeSteps, Zenon
  <2>6. ChainIsLinear'
    BY ChainSteps
  <2>7. \A c \in answered' : stored'[c].known /\ ~stored'[c].pending
    BY AnsweredSteps
  <2> QED
    BY <2>1, <2>2, <2>3, <2>4, <2>5, <2>6, <2>7, Zenon DEF CallbackInv
<1>2. CallbackInv /\ AuditInv => CallbacksSafe
  <2> SUFFICES ASSUME CallbackInv, AuditInv PROVE CallbacksSafe
    OBVIOUS
  <2>1. \A c \in Callbacks : /\ execution[c].status \in ExecutionStates
                             /\ execution[c].version \in 0..Len(chain[c]) /\ reviewed[c] \in 0..Len(chain[c])
    BY DEF CallbackInv, CallbackTyped, ExecutionRecs
  <2>2. \A c \in Callbacks : (stored[c].pending => stored[c].known) /\ Len(chain[c]) <= MaxVersions
    BY DEF CallbackInv
  <2>3. ruleState.epoch \in 0..MaxActivations /\ handed \subseteq Callbacks /\ answered \subseteq Callbacks
    BY DEF CallbackInv, CallbackTyped
  <2>4. \A r \in CallbackCalls : callbackCall[r].cb \in Callbacks \cup {NoCallback}
    BY DEF CallbackInv, CallbackTyped, CallRecs
  <2>5. CallbackTypeOK
    BY <2>1, <2>2, <2>3, <2>4, Zenon DEF CallbackTypeOK
  <2>6. AnsweredIsEvaluated /\ ChainIsLinear
    BY DEF CallbackInv, AnsweredIsEvaluated
  <2> QED
    BY <2>5, <2>6, AuditFollows DEF CallbacksSafe
<1>3. CallbackInv /\ AuditInv /\ [CallbackNext]_callbackVars => AuditInv'
  BY AuditStays
<1> QED
  BY <1>1, <1>2, <1>3, CallbacksStart, AuditStarts, PTL DEF CallbackSpec

(***************************************************************************)
(* Live processing, replays and retries of inbound events.                 *)
(***************************************************************************)
ConnectionRecs == [status : {"observation", "production", "paused"}, activated : BOOLEAN, version : 0..MaxTroubles]

ChanRecs == [status : {"active", "paused"}, activated : BOOLEAN, version : 0..MaxTroubles]

IntakePlaces == {"absent", "received", "read", "create", "enqueue", "done"}

Sizes == 0..Cardinality(Events)

ItemWorkers == [pc : {"idle", "load", "mark", "record", "settle"}, e : Events \cup {NoEvent}, res : Outcome]

ReplayWorkers ==
  [pc : {"idle", "open", "start", "list", "next", "mark", "record", "settle", "count", "finish", "done"},
   b : Batches \cup {NoBatch}, e : Events \cup {NoEvent}, todo : SUBSET Events, res : Outcome, count : Sizes \X Sizes]

ReplayRequests ==
  [pc : {"idle", "select", "commit", "enqueue", "remove", "unavailable"},
   b : Batches \cup {NoBatch}, seen : {"none", "observation", "production"}, pick : SUBSET Events]

Owners == [pc : {"idle", "conn", "chan"}, to : {"none", "observation", "production", "paused", "active"},
           seen : 0..MaxTroubles, conn : {"none", "observation", "production", "paused"}]

(* A change of the settings is paid for before it is made. *)
SettingsInv ==
  /\ connection \in ConnectionRecs /\ chan \in ChanRecs /\ since \in [{"conn", "chan"} -> SUBSET Events]
  /\ certified \in BOOLEAN /\ expired \subseteq Events /\ intake \in [Events -> IntakePlaces]
  /\ owner \in Owners /\ spent \in 0..MaxTroubles
  /\ connection.version =< spent /\ chan.version =< spent
  /\ owner.pc # "idle" => connection.version < spent /\ chan.version < spent
  /\ owner.pc = "conn" => owner.to \in {"observation", "production", "paused"}
  /\ owner.pc = "chan" => owner.to \in {"active", "paused"}

(* The live side: who holds an item or a job has an item that is there, and *)
(* says "new" only of the conversion it recorded.                           *)
LiveInv ==
  /\ item \in [Events -> ItemStatuses] /\ record \in [Events -> {"none", "live", "replay"}]
  /\ ijob \in [Events -> Jobs] /\ iw \in ItemWorkers
  /\ \A e \in Events :
       /\ item[e] = "materialized" => record[e] = "live"
       /\ item[e] = "duplicate" => record[e] # "none"
       /\ record[e] = "live" \/ ijob[e].state # "none" => item[e] # "none"
  /\ iw.pc # "idle" => iw.e \in Events /\ item[iw.e] # "none"
  /\ iw.res = "new" => iw.e \in Events /\ record[iw.e] = "live"
  /\ iw.res = "known" => iw.e \in Events /\ record[iw.e] # "none"

AtItem == {"mark", "record", "settle"}

AtItems == AtItem \cup {"next", "count", "finish"}

Rest == {"completed", "completed_with_failures"}

Items(f, b) == {e \in Events : f[e].batch = b}

(* The replay side, in parts: an item x, the row r of batch b with the items *)
(* f, an operator's request q and a worker w with the rows bs.               *)
ItemFine(x) == x.status = "none" <=> x.batch = NoBatch

BatchFine(r, f, b) ==
  /\ r.status = "none" => r = NoBatchRec /\ Items(f, b) = {}
  /\ r.doubted => r.retries > 0
  /\ Items(f, b) # {} => r.total = Cardinality(Items(f, b))
  /\ r.status \in Rest /\ ~r.doubted /\ Items(f, b) # {} =>
       r.failed = CountOf(b, {"failed"}, f) /\ r.done + r.failed = r.total

RequestFine(q, bs) ==
  /\ q.pc # "idle" => q.b \in Batches
  /\ q.pc \in {"select", "commit"} => bs[q.b].status = "none"
  /\ q.pc = "remove" => bs[q.b].retries = 0
  /\ q.pc = "unavailable" => bs[q.b].retries > 0

WorkerFine(w, bs, f) ==
  /\ w.pc # "idle" => w.b \in Batches
  /\ w.pc \in AtItem => w.e \in Events
  /\ w.pc \in {"count", "finish"} => w.todo = {}
  /\ w.pc \in AtItems \cup {"list"} =>
       bs[w.b].status # "none" /\ (~bs[w.b].doubted => bs[w.b].status = "processing")
  /\ w.pc \in AtItems /\ ~bs[w.b].doubted =>
       \A e \in Items(f, w.b) : f[e].status \in ActiveBatch => e \in w.todo \/ (w.pc \in AtItem /\ e = w.e)
  /\ w.pc = "finish" /\ ~bs[w.b].doubted /\ Items(f, w.b) # {} =>
       w.count = <<CountOf(w.b, Terminal, f), CountOf(w.b, {"failed"}, f)>>

ReplaySideTyped ==
  /\ ritem \in [Events -> ReplayItems] /\ batch \in [Batches -> BatchRecs] /\ bjob \in [Batches -> Jobs]
  /\ rw \in ReplayWorkers /\ repRequest \in ReplayRequests

ReplayRecorded ==
  /\ \A e \in Events :
       /\ ritem[e].status = "materialized" => record[e] = "replay"
       /\ ritem[e].status = "duplicate" => record[e] # "none"
  /\ rw.res = "new" => rw.e \in Events /\ record[rw.e] = "replay"
  /\ rw.res = "known" => rw.e \in Events /\ record[rw.e] # "none"

ReplaySideFine ==
  /\ ReplaySideTyped
  /\ \A e \in Events : ItemFine(ritem[e])
  /\ \A b \in Batches : BatchFine(batch[b], ritem, b)
  /\ RequestFine(repRequest, batch) /\ WorkerFine(rw, batch, ritem)

ReplayInv == SettingsInv /\ LiveInv /\ ReplaySideFine /\ ReplayRecorded

-----------------------------------------------------------------------------
(* The kinds of steps, and what each leaves alone. *)
SettingsStep ==
  \/ \E e \in Events : ReceiveEvent(e) \/ StoreEvent(e) \/ ExpirePayload(e) \/ IntakeRead(e) \/ IntakeFails(e)
  \/ CertifyParser
  \/ \E s \in {"observation", "production", "paused"} : BeginConnection(s)
  \/ \E s \in {"active", "paused"} : BeginChannel(s)
  \/ CommitConnection \/ CommitChannel

LiveStep ==
  \/ \E e \in Events : IntakeCreate(e) \/ IntakeEnqueue(e) \/ RecoverItem(e) \/ TakeItem(e) \/ ItemStalled(e) \/ ItemBackoff(e)
  \/ LoadItem \/ MarkItem \/ RecordItem \/ SettleItem \/ ItemThrows \/ ItemWorkerDies

OperatorStep ==
  \/ \E b \in Batches : Authorize(b) \/ RetryTransient(b)
  \/ SelectEvents \/ CommitBatch \/ EnqueueBatch \/ EnqueueFails \/ RemoveBatch \/ MarkUnavailable

WorkerStep ==
  \/ \E b \in Batches : TakeBatch(b) \/ BatchStalled(b) \/ BatchBackoff(b)
  \/ OpenBatch \/ StartBatch \/ ListItems \/ NextItem \/ MarkReplayItem \/ RecordReplay \/ SettleReplayItem
  \/ CountItems \/ FinishBatch \/ CompleteBatchJob \/ FailEntireBatch \/ BatchThrows \/ BatchWorkerDies

LEMMA StepKinds == ReplayNext => SettingsStep \/ LiveStep \/ OperatorStep \/ WorkerStep
BY DEF ReplayNext, ItemWork, BatchWork, OpWork, SettingsStep, LiveStep, OperatorStep, WorkerStep

LEMMA SettingsFrame == SettingsStep => UNCHANGED <<item, ijob, iw, record, ritem, batch, bjob, rw, repRequest>> /\ (spent' = spent \/ Trouble)
BY DEF SettingsStep, ReceiveEvent, StoreEvent, ExpirePayload, IntakeRead, IntakeFails, IntakeStep, CertifyParser, BeginConnection,
   BeginChannel, CommitConnection, CommitChannel, OwnerStep

LEMMA LiveFrame == LiveStep =>
  UNCHANGED <<connection, chan, since, certified, expired, owner, ritem, batch, bjob, rw, repRequest>> /\ (spent' = spent \/ Trouble)
BY DEF LiveStep, IntakeCreate, IntakeEnqueue, IntakeStep, RecoverItem, TakeItem, ItemStalled, ItemBackoff, LoadItem, MarkItem,
   RecordItem, SettleItem, ItemThrows, ItemWorkerDies, ItemStep

LEMMA OperatorFrame == OperatorStep =>
  UNCHANGED <<connection, chan, since, certified, expired, owner, intake, item, ijob, iw, record, rw>> /\ (spent' = spent \/ Trouble)
BY DEF OperatorStep, Authorize, RetryTransient, SelectEvents, CommitBatch, EnqueueBatch, EnqueueFails, RemoveBatch, MarkUnavailable, OpStep

LEMMA WorkerFrame == WorkerStep =>
  UNCHANGED <<connection, chan, since, certified, expired, owner, intake, item, ijob, iw, repRequest>> /\ (spent' = spent \/ Trouble)
<1>1. ASSUME \/ \E b \in Batches : TakeBatch(b) \/ BatchStalled(b) \/ BatchBackoff(b)
             \/ StartBatch \/ ListItems \/ MarkReplayItem \/ RecordReplay \/ SettleReplayItem
             \/ CountItems \/ FinishBatch \/ CompleteBatchJob \/ FailEntireBatch \/ BatchThrows \/ BatchWorkerDies
      PROVE  UNCHANGED <<connection, chan, since, certified, expired, owner, intake, item, ijob, iw, repRequest>> /\ (spent' = spent \/ Trouble)
  BY <1>1 DEF TakeBatch, BatchStalled, BatchBackoff, StartBatch, ListItems, MarkReplayItem, RecordReplay, SettleReplayItem,
     CountItems, FinishBatch, CompleteBatchJob, FailEntireBatch, BatchThrows, BatchWorkerDies, BatchStep, JobOver
<1>2. ASSUME OpenBatch \/ NextItem
      PROVE  UNCHANGED <<connection, chan, since, certified, expired, owner, intake, item, ijob, iw, repRequest>> /\ (spent' = spent \/ Trouble)
  BY <1>2 DEF OpenBatch, NextItem, BatchStep, JobOver
<1> QED
  BY <1>1, <1>2 DEF WorkerStep

LEMMA RequeuedTyped == \A j \in Jobs : Requeued(j) \in Jobs
BY JobTyping DEF Requeued

LEMMA SizesOfSubsets == \A S \in SUBSET Events : IsFiniteSet(S) /\ Cardinality(S) \in Sizes /\ Cardinality(S) \in Nat
BY ReplayAssumption, FS_Subset, FS_CardinalityType DEF Sizes

-----------------------------------------------------------------------------
(* The settings. *)
LEMMA SettingsStay == ASSUME ReplayInv, [ReplayNext]_replayVars PROVE SettingsInv'
<1> USE ReplayAssumption
<1>1. SettingsInv
  BY DEF ReplayInv
<1>2. ASSUME UNCHANGED <<connection, chan, since, certified, expired, owner>>, intake' \in [Events -> IntakePlaces],
             spent' = spent \/ Trouble
      PROVE  SettingsInv'
  BY <1>1, <1>2 DEF SettingsInv, Trouble, ConnectionRecs, ChanRecs
<1>3. CASE UNCHANGED replayVars
  BY <1>1, <1>2, <1>3 DEF replayVars, SettingsInv
<1>4. CASE LiveStep
  <2>1. intake' \in [Events -> IntakePlaces]
    BY <1>1, <1>4 DEF SettingsInv, IntakePlaces, LiveStep, IntakeCreate, IntakeEnqueue, IntakeStep, RecoverItem, TakeItem,
       ItemStalled, ItemBackoff, LoadItem, MarkItem, RecordItem, SettleItem, ItemThrows, ItemWorkerDies, ItemStep
  <2> QED
    BY <1>2, <1>4, <2>1, LiveFrame
<1>5. CASE OperatorStep \/ WorkerStep
  BY <1>1, <1>2, <1>5, OperatorFrame, WorkerFrame DEF SettingsInv
<1>6. CASE SettingsStep
  <2>1. CASE \E e \in Events : ReceiveEvent(e) \/ StoreEvent(e) \/ ExpirePayload(e) \/ IntakeRead(e) \/ IntakeFails(e)
    <3>1. UNCHANGED <<connection, chan, certified, owner>> /\ (spent' = spent \/ Trouble)
      BY <2>1 DEF ReceiveEvent, StoreEvent, ExpirePayload, IntakeRead, IntakeFails, IntakeStep
    <3>2. intake' \in [Events -> IntakePlaces]
      BY <1>1, <2>1 DEF SettingsInv, IntakePlaces, ReceiveEvent, StoreEvent, ExpirePayload, IntakeRead, IntakeFails, IntakeStep
    <3>3. since' \in [{"conn", "chan"} -> SUBSET Events] /\ expired' \subseteq Events
      BY <1>1, <2>1 DEF SettingsInv, ReceiveEvent, StoreEvent, ExpirePayload, IntakeRead, IntakeFails, IntakeStep
    <3> QED
      BY <1>1, <3>1, <3>2, <3>3 DEF SettingsInv, Trouble, ConnectionRecs, ChanRecs
  <2>2. CASE CertifyParser
    BY <1>1, <2>2 DEF SettingsInv, CertifyParser
  <2>3. CASE \E s \in {"observation", "production", "paused"} : BeginConnection(s)
    BY <1>1, <2>3 DEF SettingsInv, BeginConnection, OwnerStep, Trouble, ConnectionRecs, ChanRecs, Owners
  <2>4. CASE \E s \in {"active", "paused"} : BeginChannel(s)
    BY <1>1, <2>4 DEF SettingsInv, BeginChannel, OwnerStep, Trouble, ConnectionRecs, ChanRecs, Owners
  <2>5. IdleOwner \in Owners /\ IdleOwner.pc = "idle"
    BY DEF IdleOwner, Owners
  <2>6. CASE CommitConnection
    <3>1. UNCHANGED <<certified, expired, intake, spent>> /\ owner' = IdleOwner /\ owner.pc = "conn"
      BY <2>6 DEF CommitConnection, OwnerStep
    <3>2. CASE UNCHANGED <<connection, chan, since>>
      BY <1>1, <2>5, <3>1, <3>2 DEF SettingsInv
    <3>3. CASE connection.version = owner.seen
      <4> DEFINE live == owner.to = "production"
      <4>1. /\ connection' = [status |-> owner.to, activated |-> live, version |-> connection.version + 1]
            /\ chan' = chan \/ chan' = [chan EXCEPT !.activated = live, !.version = @ + 1]
            /\ since' \in [{"conn", "chan"} -> SUBSET Events]
        BY <1>1, <2>6, <3>3 DEF CommitConnection, SettingsInv
      <4>2. connection' \in ConnectionRecs /\ connection'.version = connection.version + 1
        BY <1>1, <3>1, <4>1 DEF SettingsInv, ConnectionRecs
      <4>3. chan' \in ChanRecs /\ chan'.version =< spent
        <5>1. chan = [status |-> chan.status, activated |-> chan.activated, version |-> chan.version]
          BY <1>1 DEF SettingsInv, ChanRecs
        <5>2. chan.version \in Nat /\ chan.version < spent /\ chan \in ChanRecs
          BY <1>1, <3>1 DEF SettingsInv, ChanRecs
        <5>3. chan' = chan \/ chan' = [status |-> chan.status, activated |-> live, version |-> chan.version + 1]
          BY <4>1, <5>1
        <5>4. chan.version + 1 \in 0..MaxTroubles /\ live \in BOOLEAN /\ chan.version + 1 =< spent /\ chan.version =< spent
          BY <1>1, <5>2 DEF SettingsInv
        <5> HIDE DEF live
        <5> QED
          BY <5>2, <5>3, <5>4 DEF ChanRecs
      <4> QED
        BY <1>1, <2>5, <3>1, <4>1, <4>2, <4>3 DEF SettingsInv, ConnectionRecs
    <3> QED
      BY <2>6, <3>2, <3>3 DEF CommitConnection
  <2>7. CASE CommitChannel
    <3>1. UNCHANGED <<connection, certified, expired, intake, spent>> /\ owner' = IdleOwner /\ owner.pc = "chan"
      BY <2>7 DEF CommitChannel, OwnerStep
    <3>2. CASE UNCHANGED <<chan, since>>
      BY <1>1, <2>5, <3>1, <3>2 DEF SettingsInv
    <3>3. CASE chan.version = owner.seen
      <4>1. /\ chan' = [status |-> owner.to, activated |-> (owner.to = "active" /\ owner.conn = "production"), version |-> chan.version + 1]
            /\ since' \in [{"conn", "chan"} -> SUBSET Events]
        BY <1>1, <2>7, <3>3 DEF CommitChannel, SettingsInv
      <4>2. chan' \in ChanRecs /\ chan'.version = chan.version + 1
        BY <1>1, <3>1, <4>1 DEF SettingsInv, ChanRecs
      <4> QED
        BY <1>1, <2>5, <3>1, <4>1, <4>2 DEF SettingsInv, ChanRecs
    <3> QED
      BY <2>7, <3>2, <3>3 DEF CommitChannel
  <2> QED
    BY <1>6, <2>1, <2>2, <2>3, <2>4, <2>6, <2>7 DEF SettingsStep
<1> QED
  BY <1>3, <1>4, <1>5, <1>6, StepKinds

-----------------------------------------------------------------------------
(* The live side. *)
LEMMA RecordedOnce ==
  ASSUME record \in [Events -> {"none", "live", "replay"}], NEW k \in Events, NEW by \in {"live", "replay"}, Recorded(k, by)
  PROVE  /\ record' \in [Events -> {"none", "live", "replay"}]
         /\ \A e \in Events : record[e] # "none" => record'[e] = record[e]
         /\ \A e \in Events \ {k} : record'[e] = record[e]
         /\ record[k] = "none" => record'[k] = by
         /\ KnownOrNew(k) \in {"new", "known"}
         /\ KnownOrNew(k) = "new" => record'[k] = by
         /\ KnownOrNew(k) = "known" => record'[k] # "none"
BY DEF Recorded, KnownOrNew

(* Replays record what no one has recorded. *)
LEMMA WorkerRecords == ASSUME ReplayInv, WorkerStep
  PROVE  /\ record' \in [Events -> {"none", "live", "replay"}]
         /\ \A e \in Events : record'[e] = record[e] \/ (record[e] = "none" /\ record'[e] = "replay")
<1>1. record \in [Events -> {"none", "live", "replay"}]
  BY DEF ReplayInv, LiveInv
<1>2. CASE UNCHANGED record
  BY <1>1, <1>2
<1>3. CASE RecordReplay
  <2>1. rw.e \in Events /\ Recorded(rw.e, "replay")
    BY <1>3 DEF RecordReplay, ReplayInv, ReplaySideFine, WorkerFine, AtItem
  <2> QED
    BY <1>1, <2>1 DEF Recorded
<1>4. UNCHANGED record \/ RecordReplay
  <2>1. ASSUME OpenBatch \/ NextItem PROVE UNCHANGED record
    BY <2>1 DEF OpenBatch, NextItem
  <2> QED
    BY <2>1 DEF WorkerStep, TakeBatch, BatchStalled, BatchBackoff, StartBatch, ListItems, MarkReplayItem, SettleReplayItem,
       CountItems, FinishBatch, CompleteBatchJob, FailEntireBatch, BatchThrows, BatchWorkerDies
<1> QED
  BY <1>2, <1>3, <1>4

LEMMA LiveStays == ASSUME ReplayInv, [ReplayNext]_replayVars PROVE LiveInv'
<1>1. LiveInv
  BY DEF ReplayInv
<1>2. CASE UNCHANGED <<item, ijob, iw, record>>
  BY <1>1, <1>2 DEF LiveInv
<1>3. CASE WorkerStep
  <2>1. UNCHANGED <<item, ijob, iw>>
    BY <1>3, WorkerFrame
  <2> QED
    BY <1>1, <1>3, <2>1, WorkerRecords DEF LiveInv
<1>4. ASSUME NEW k \in Events, NEW j \in Jobs, ijob' = [ijob EXCEPT ![k] = j], item[k] # "none" \/ j.state = "none",
             UNCHANGED <<item, record>>,
             iw' = iw \/ (iw' \in ItemWorkers /\ iw'.res \notin {"new", "known"}
                            /\ (iw'.pc # "idle" => iw'.e \in Events /\ item[iw'.e] # "none"))
      PROVE  LiveInv'
  BY <1>1, <1>4 DEF LiveInv
<1>5. IdleItemWorker \in ItemWorkers /\ IdleItemWorker.pc = "idle" /\ IdleItemWorker.res = "none"
  BY DEF IdleItemWorker, ItemWorkers, Outcome
<1>6. ASSUME NEW e \in Events, IntakeCreate(e) PROVE LiveInv'
  BY <1>1, <1>6 DEF LiveInv, IntakeCreate, IntakeStep, ItemStatuses
<1>7. ASSUME NEW e \in Events, IntakeEnqueue(e) PROVE LiveInv'
  <2> DEFINE j == IF item[e] = "queued" THEN Requeued(ijob[e]) ELSE ijob[e]
  <2>1. ijob' = [ijob EXCEPT ![e] = j] /\ UNCHANGED <<item, record, iw>>
    BY <1>7 DEF IntakeEnqueue, IntakeStep
  <2>2. j \in Jobs /\ (item[e] # "none" \/ j.state = "none")
    BY <1>1, RequeuedTyped DEF LiveInv
  <2> HIDE DEF j
  <2> QED
    BY <1>4, <2>1, <2>2
<1>8. ASSUME NEW e \in Events, RecoverItem(e) PROVE LiveInv'
  <2> DEFINE j == Requeued(ijob[e])
  <2>1. ijob' = [ijob EXCEPT ![e] = j] /\ UNCHANGED <<item, record, iw>> /\ item[e] # "none"
    BY <1>8 DEF RecoverItem
  <2>2. j \in Jobs
    BY <1>1, RequeuedTyped DEF LiveInv
  <2> HIDE DEF j
  <2> QED
    BY <1>4, <2>1, <2>2
<1>9. ASSUME NEW e \in Events, TakeItem(e) PROVE LiveInv'
  <2> DEFINE j == Take(ijob[e])
             w == [pc |-> "load", e |-> e, res |-> "none"]
  <2>1. ijob' = [ijob EXCEPT ![e] = j] /\ UNCHANGED <<item, record>> /\ iw' = w /\ ijob[e].state = "waiting"
    BY <1>9 DEF TakeItem, ItemStep
  <2>2. j \in Jobs /\ item[e] # "none"
    BY <1>1, <2>1, JobTyping DEF LiveInv
  <2>3. w \in ItemWorkers /\ w.res \notin {"new", "known"} /\ w.e = e
    BY DEF ItemWorkers, Outcome
  <2> HIDE DEF j, w
  <2> QED
    BY <1>4, <2>1, <2>2, <2>3
<1>10. ASSUME NEW e \in Events, ItemStalled(e) \/ ItemBackoff(e) PROVE LiveInv'
  <2>1. PICK j \in {Stall(ijob[e]), Promote(ijob[e])} :
          ijob' = [ijob EXCEPT ![e] = j] /\ UNCHANGED <<item, record, iw>> /\ ijob[e].state # "none"
    BY <1>10 DEF ItemStalled, ItemBackoff
  <2>2. j \in Jobs /\ item[e] # "none"
    BY <1>1, <2>1, JobTyping DEF LiveInv
  <2> QED
    BY <1>4, <2>1, <2>2
<1>11. CASE LoadItem
  <2>1. iw.e \in Events /\ item[iw.e] # "none" /\ UNCHANGED <<item, record>>
    BY <1>1, <1>11 DEF LoadItem, LiveInv
  <2>2. CASE iw' = IdleItemWorker /\ ijob' = [ijob EXCEPT ![iw.e] = NoJob]
    <3>1. NoJob \in Jobs
      BY <1>1, <2>1, JobTyping DEF LiveInv
    <3> QED
      BY <1>4, <1>5, <2>1, <2>2, <3>1
  <2>3. CASE iw' = [pc |-> "mark", e |-> iw.e, res |-> LiveOutcome(iw.e)] /\ UNCHANGED ijob
    <3> DEFINE w == [pc |-> "mark", e |-> iw.e, res |-> LiveOutcome(iw.e)]
    <3>1. w \in ItemWorkers /\ w.e = iw.e /\ w.res \notin {"new", "known"}
      BY <2>1 DEF ItemWorkers, Outcome, LiveOutcome
    <3>2. iw' = w
      BY <2>3
    <3> HIDE DEF w
    <3> QED
      BY <1>1, <2>1, <2>3, <3>1, <3>2 DEF LiveInv
  <2> QED
    BY <1>11, <2>2, <2>3 DEF LoadItem, ItemStep
<1>12. CASE MarkItem
  <2> DEFINE s == IF iw.res = "refused" THEN "settle" ELSE "record"
             w == [iw EXCEPT !.pc = s]
  <2>1. iw.e \in Events /\ UNCHANGED <<ijob, record>> /\ item' = [item EXCEPT ![iw.e] = "processing"] /\ iw' = w
    BY <1>1, <1>12 DEF MarkItem, ItemStep, LiveInv
  <2>2. s \in {"settle", "record"}
    OBVIOUS
  <2> HIDE DEF s
  <2>3. w \in ItemWorkers /\ w.e = iw.e /\ w.res = iw.res
    BY <1>1, <2>2 DEF LiveInv, ItemWorkers
  <2> HIDE DEF w
  <2> QED
    BY <1>1, <2>1, <2>3 DEF LiveInv, ItemStatuses
<1>13. CASE RecordItem
  <2> DEFINE r == KnownOrNew(iw.e)
             w == [iw EXCEPT !.pc = "settle", !.res = r]
  <2>1. iw.e \in Events /\ item[iw.e] # "none" /\ UNCHANGED <<item, ijob>> /\ iw' = w /\ Recorded(iw.e, "live")
    BY <1>1, <1>13 DEF RecordItem, ItemStep, LiveInv
  <2>2. /\ record' \in [Events -> {"none", "live", "replay"}]
        /\ \A e \in Events : record[e] # "none" => record'[e] = record[e]
        /\ \A e \in Events \ {iw.e} : record'[e] = record[e]
        /\ r \in {"new", "known"} /\ (r = "new" => record'[iw.e] = "live") /\ (r = "known" => record'[iw.e] # "none")
    BY <1>1, <2>1, RecordedOnce DEF LiveInv
  <2> HIDE DEF r
  <2>3. w \in ItemWorkers /\ w.e = iw.e /\ w.res = r
    BY <1>1, <2>2 DEF LiveInv, ItemWorkers, Outcome
  <2> HIDE DEF w
  <2> QED
    BY <1>1, <2>1, <2>2, <2>3 DEF LiveInv
<1>14. CASE SettleItem
  <2> DEFINE s == ItemStatus(iw.res)
             j == IF iw.res \in {"refused", "error"} THEN Fail(ijob[iw.e]) ELSE NoJob
  <2>1. /\ iw.e \in Events /\ iw' = IdleItemWorker /\ UNCHANGED record
        /\ item' = [item EXCEPT ![iw.e] = s] /\ ijob' = [ijob EXCEPT ![iw.e] = j]
    BY <1>1, <1>14 DEF SettleItem, ItemStep, LiveInv
  <2>2. /\ s \in {"materialized", "duplicate", "failed"}
        /\ s = "materialized" => iw.res = "new"
        /\ s = "duplicate" => iw.res = "known"
    BY DEF ItemStatus
  <2>3. j \in Jobs
    BY <1>1, <2>1, JobTyping DEF LiveInv
  <2> HIDE DEF s, j
  <2> QED
    BY <1>1, <1>5, <2>1, <2>2, <2>3 DEF LiveInv, ItemStatuses
<1>15. CASE ItemThrows
  <2>1. iw.e \in Events /\ item[iw.e] # "none" /\ UNCHANGED <<item, record>>
    BY <1>1, <1>15 DEF ItemThrows, LiveInv
  <2>2. CASE iw' = [iw EXCEPT !.pc = "settle", !.res = "error"] /\ UNCHANGED ijob
    <3>1. iw' \in ItemWorkers /\ iw'.e = iw.e /\ iw'.res = "error"
      BY <1>1, <2>2 DEF LiveInv, ItemWorkers, Outcome
    <3> QED
      BY <1>1, <2>1, <2>2, <3>1 DEF LiveInv
  <2>3. CASE iw' = IdleItemWorker /\ ijob' = [ijob EXCEPT ![iw.e] = Fail(ijob[iw.e])]
    <3>1. Fail(ijob[iw.e]) \in Jobs
      BY <1>1, <2>1, JobTyping DEF LiveInv
    <3> QED
      BY <1>4, <1>5, <2>1, <2>3, <3>1
  <2> QED
    BY <1>15, <2>2, <2>3 DEF ItemThrows
<1>16. CASE ItemWorkerDies
  <2>1. iw' = IdleItemWorker /\ UNCHANGED <<item, record, ijob>>
    BY <1>16 DEF ItemWorkerDies
  <2> QED
    BY <1>1, <1>5, <2>1 DEF LiveInv
<1>17. CASE LiveStep
  BY <1>6, <1>7, <1>8, <1>9, <1>10, <1>11, <1>12, <1>13, <1>14, <1>15, <1>16, <1>17 DEF LiveStep
<1>18. CASE UNCHANGED replayVars \/ SettingsStep \/ OperatorStep
  BY <1>2, <1>18, SettingsFrame, OperatorFrame DEF replayVars
<1> QED
  BY <1>3, <1>17, <1>18, StepKinds

-----------------------------------------------------------------------------
(* The replay side: what stays as it is. *)
LEMMA SameCounts ==
  ASSUME NEW f, NEW g, NEW b, \A e \in Events : f[e].batch = b \/ g[e].batch = b => g[e] = f[e]
  PROVE  Items(g, b) = Items(f, b) /\ \A st : CountOf(b, st, g) = CountOf(b, st, f)
<1>1. Items(g, b) = Items(f, b)
  BY DEF Items
<1>2. ASSUME NEW st PROVE CountOf(b, st, g) = CountOf(b, st, f)
  <2>1. {e \in Events : g[e].batch = b /\ g[e].status \in st} = {e \in Events : f[e].batch = b /\ f[e].status \in st}
    OBVIOUS
  <2> QED
    BY <2>1 DEF CountOf
<1> QED
  BY <1>1, <1>2

LEMMA OtherBatch ==
  ASSUME NEW f, NEW g, NEW b, NEW r, \A e \in Events : f[e].batch = b \/ g[e].batch = b => g[e] = f[e], BatchFine(r, f, b)
  PROVE  BatchFine(r, g, b)
BY SameCounts DEF BatchFine

LEMMA OtherWorker ==
  ASSUME NEW f, NEW g, NEW w, NEW bs, NEW cs, WorkerFine(w, bs, f),
         w.pc \in AtItems \cup {"list"} =>
           cs[w.b] = bs[w.b] /\ \A e \in Events : f[e].batch = w.b \/ g[e].batch = w.b => g[e] = f[e]
  PROVE  WorkerFine(w, cs, g)
<1>1. CASE w.pc \in AtItems \cup {"list"}
  <2>1. Items(g, w.b) = Items(f, w.b) /\ \A st : CountOf(w.b, st, g) = CountOf(w.b, st, f)
    BY <1>1, SameCounts
  <2>2. \A e \in Items(f, w.b) : g[e] = f[e]
    BY <1>1 DEF Items
  <2> QED
    BY <1>1, <2>1, <2>2 DEF WorkerFine
<1>2. CASE w.pc \notin AtItems \cup {"list"}
  BY <1>2 DEF WorkerFine, AtItems, AtItem
<1> QED
  BY <1>1, <1>2

LEMMA RequestMoves ==
  ASSUME ReplayInv, UNCHANGED <<ritem, batch, rw>>, bjob' \in [Batches -> Jobs],
         repRequest' \in ReplayRequests, RequestFine(repRequest', batch)
  PROVE  ReplaySideFine'
<1>1. ReplaySideFine
  BY DEF ReplayInv
<1>2. ReplaySideTyped'
  BY <1>1 DEF ReplaySideFine, ReplaySideTyped
<1> QED
  BY <1>1, <1>2 DEF ReplaySideFine

LEMMA WorkerMoves ==
  ASSUME ReplayInv, UNCHANGED <<ritem, batch, repRequest>>, bjob' \in [Batches -> Jobs],
         rw' \in ReplayWorkers, WorkerFine(rw', batch, ritem)
  PROVE  ReplaySideFine'
<1>1. ReplaySideFine
  BY DEF ReplayInv
<1>2. ReplaySideTyped'
  BY <1>1 DEF ReplaySideFine, ReplaySideTyped
<1> QED
  BY <1>1, <1>2 DEF ReplaySideFine

LEMMA IdleFine == /\ IdleOp \in ReplayRequests /\ \A bs : RequestFine(IdleOp, bs)
                  /\ IdleReplayWorker \in ReplayWorkers /\ \A bs, f : WorkerFine(IdleReplayWorker, bs, f)
<1>1. 0 \in Sizes
  BY SizesOfSubsets DEF Sizes
<1> QED
  BY <1>1 DEF IdleOp, ReplayRequests, RequestFine, IdleReplayWorker, ReplayWorkers, WorkerFine, Outcome, AtItem, AtItems

LEMMA BatchJobs == ASSUME ReplayInv, NEW b \in Batches
  PROVE  /\ Requeued(bjob[b]) \in Jobs /\ bjob[b] \in Jobs /\ NoJob \in Jobs
         /\ Take(bjob[b]) \in Jobs /\ Promote(bjob[b]) \in Jobs /\ Fail(bjob[b]) \in Jobs /\ Stall(bjob[b]) \in Jobs
<1>1. bjob[b] \in Jobs
  BY DEF ReplayInv, ReplaySideFine, ReplaySideTyped
<1> QED
  BY <1>1, JobTyping, RequeuedTyped

(* Requests that change no row of items or batches. *)
LEMMA RequestSteps ==
  ASSUME ReplayInv, (\E b \in Batches : Authorize(b)) \/ SelectEvents \/ EnqueueBatch \/ EnqueueFails
  PROVE  ReplaySideFine'
<1>1. /\ repRequest \in ReplayRequests /\ bjob \in [Batches -> Jobs] /\ batch \in [Batches -> BatchRecs]
      /\ RequestFine(repRequest, batch)
  BY DEF ReplayInv, ReplaySideFine, ReplaySideTyped
<1>2. UNCHANGED <<ritem, batch, rw>>
  BY DEF Authorize, SelectEvents, EnqueueBatch, EnqueueFails, OpStep
<1>3. ASSUME NEW b \in Batches, Authorize(b) PROVE ReplaySideFine'
  <2> DEFINE q == [IdleOp EXCEPT !.pc = "select", !.b = b, !.seen = connection.status]
  <2>1. repRequest' = q /\ UNCHANGED bjob /\ batch[b].status = "none" /\ connection.status \in {"observation", "production"}
    BY <1>3 DEF Authorize, OpStep
  <2>2. q \in ReplayRequests /\ q.pc = "select" /\ q.b = b
    BY <2>1 DEF IdleOp, ReplayRequests
  <2> HIDE DEF q
  <2>3. RequestFine(q, batch)
    BY <2>1, <2>2 DEF RequestFine
  <2> QED
    BY <1>1, <1>2, <2>1, <2>2, <2>3, RequestMoves
<1>4. CASE SelectEvents
  <2>1. CASE repRequest' = IdleOp
    BY <1>1, <1>2, <1>4, <2>1, RequestMoves, IdleFine DEF SelectEvents
  <2>2. CASE \E pick \in SUBSET Events : repRequest' = [repRequest EXCEPT !.pc = "commit", !.pick = pick]
    <3>1. repRequest.pc = "select"
      BY <1>4 DEF SelectEvents
    <3>2. repRequest' \in ReplayRequests /\ repRequest'.pc = "commit" /\ repRequest'.b = repRequest.b
      BY <1>1, <2>2 DEF ReplayRequests
    <3>3. RequestFine(repRequest', batch)
      BY <1>1, <3>1, <3>2 DEF RequestFine
    <3> QED
      BY <1>1, <1>2, <1>4, <3>2, <3>3, RequestMoves DEF SelectEvents
  <2>3. \A status : Candidates(status) \subseteq Events
    BY DEF Candidates
  <2> QED
    BY <1>4, <2>1, <2>2, <2>3 DEF SelectEvents, OpStep
<1>5. CASE EnqueueBatch
  <2>1. repRequest.b \in Batches /\ bjob' = [bjob EXCEPT ![repRequest.b] = Requeued(bjob[repRequest.b])] /\ repRequest' = IdleOp
    BY <1>1, <1>5 DEF EnqueueBatch, OpStep, RequestFine
  <2>2. bjob' \in [Batches -> Jobs]
    BY <1>1, <2>1, BatchJobs
  <2> QED
    BY <1>2, <2>1, <2>2, RequestMoves, IdleFine
<1>6. CASE EnqueueFails
  <2> DEFINE s == IF batch[repRequest.b].retries > 0 THEN "unavailable" ELSE "remove"
             q == [repRequest EXCEPT !.pc = s]
  <2>1. repRequest.b \in Batches /\ repRequest' = q
    BY <1>1, <1>6 DEF EnqueueFails, OpStep, RequestFine
  <2>2. bjob' \in [Batches -> Jobs]
    BY <1>1, <1>6, <2>1, BatchJobs DEF EnqueueFails
  <2>3. s \in {"unavailable", "remove"} /\ batch[repRequest.b].retries \in Nat
    BY <1>1, <2>1 DEF BatchRecs
  <2>4. (s = "unavailable" => batch[repRequest.b].retries > 0) /\ (s = "remove" => batch[repRequest.b].retries = 0)
    BY <2>3
  <2> HIDE DEF s
  <2>5. q \in ReplayRequests /\ q.pc = s /\ q.b = repRequest.b
    BY <1>1, <2>3 DEF ReplayRequests
  <2> HIDE DEF q
  <2>6. RequestFine(q, batch)
    BY <2>1, <2>3, <2>4, <2>5 DEF RequestFine
  <2> QED
    BY <1>2, <2>1, <2>2, <2>5, <2>6, RequestMoves
<1> QED
  BY <1>3, <1>4, <1>5, <1>6

(* A step writes the row of batch k and items of that batch only. *)
LEMMA RowsMove ==
  ASSUME ReplayInv, NEW k \in Batches, NEW r \in BatchRecs, batch' = [batch EXCEPT ![k] = r], BatchFine(r, ritem', k),
         ritem' \in [Events -> ReplayItems], \A e \in Events : ItemFine(ritem'[e]),
         \A e \in Events : ritem'[e] # ritem[e] => {ritem[e].batch, ritem'[e].batch} \subseteq {k, NoBatch},
         bjob' \in [Batches -> Jobs], repRequest' \in ReplayRequests, RequestFine(repRequest', batch'),
         rw' \in ReplayWorkers, WorkerFine(rw', batch', ritem')
  PROVE  ReplaySideFine'
<1>1. ReplaySideFine /\ batch \in [Batches -> BatchRecs]
  BY DEF ReplayInv, ReplaySideFine, ReplaySideTyped
<1>2. ReplaySideTyped'
  BY <1>1 DEF ReplaySideTyped
<1>3. ASSUME NEW b \in Batches, b # k PROVE BatchFine(batch'[b], ritem', b)
  <2>1. \A e \in Events : ritem[e].batch = b \/ ritem'[e].batch = b => ritem'[e] = ritem[e]
    BY <1>3, ReplayAssumption
  <2>2. batch'[b] = batch[b] /\ BatchFine(batch[b], ritem, b)
    BY <1>1, <1>3 DEF ReplaySideFine
  <2> QED
    BY <2>1, <2>2, OtherBatch
<1>4. \A b \in Batches : BatchFine(batch'[b], ritem', b)
  BY <1>1, <1>3
<1> QED
  BY <1>2, <1>4 DEF ReplaySideFine

LEMMA WorkerElsewhere ==
  ASSUME ReplayInv, NEW k \in Batches, NEW r, batch' = [batch EXCEPT ![k] = r],
         \A e \in Events : ritem'[e] # ritem[e] => {ritem[e].batch, ritem'[e].batch} \subseteq {k, NoBatch},
         rw.pc \in AtItems \cup {"list"} => rw.b # k
  PROVE  WorkerFine(rw, batch', ritem')
<1>1. WorkerFine(rw, batch, ritem) /\ batch \in [Batches -> BatchRecs]
  BY DEF ReplayInv, ReplaySideFine, ReplaySideTyped
<1>2. rw.pc \in AtItems \cup {"list"} => rw.b \in Batches
  BY <1>1 DEF WorkerFine, AtItems, AtItem
<1>3. rw.pc \in AtItems \cup {"list"} =>
        batch'[rw.b] = batch[rw.b] /\ \A e \in Events : ritem[e].batch = rw.b \/ ritem'[e].batch = rw.b => ritem'[e] = ritem[e]
  BY <1>1, <1>2, ReplayAssumption
<1> QED
  BY <1>1, <1>3, OtherWorker

(* The transaction of authorizeReplay. *)
LEMMA CommitStep == ASSUME ReplayInv, CommitBatch PROVE ReplaySideFine'
<1> DEFINE k == repRequest.b
           free == {e \in repRequest.pick : ritem[e].status = "none"}
           r == [NoBatchRec EXCEPT !.status = "queued", !.total = Cardinality(free)]
           q == [repRequest EXCEPT !.pc = "enqueue", !.pick = {}]
           x == [NoReplayItem EXCEPT !.status = "queued", !.batch = k]
<1>1. /\ repRequest \in ReplayRequests /\ ritem \in [Events -> ReplayItems] /\ bjob \in [Batches -> Jobs] /\ batch \in [Batches -> BatchRecs]
      /\ RequestFine(repRequest, batch) /\ WorkerFine(rw, batch, ritem) /\ rw \in ReplayWorkers
      /\ \A e \in Events : ItemFine(ritem[e])
      /\ \A b \in Batches : BatchFine(batch[b], ritem, b)
  BY DEF ReplayInv, ReplaySideFine, ReplaySideTyped
<1>2. k \in Batches /\ batch[k].status = "none" /\ UNCHANGED <<bjob, rw>>
  BY <1>1 DEF CommitBatch, RequestFine, OpStep
<1>3. free \subseteq Events
  BY <1>1 DEF ReplayRequests
<1>4. Cardinality(free) \in Sizes /\ Cardinality(free) \in Nat
  BY <1>3, SizesOfSubsets
<1>5. CASE OpStep(IdleOp) /\ UNCHANGED <<ritem, batch>>
  BY <1>1, <1>2, <1>5, RequestMoves, IdleFine DEF OpStep
<1>6. CASE batch' = [batch EXCEPT ![k] = r] /\ ritem' = [e \in Events |-> IF e \in free THEN x ELSE ritem[e]] /\ repRequest' = q
  <2>1. x \in ReplayItems /\ ItemFine(x) /\ x.batch = k
    BY <1>2, ReplayAssumption DEF NoReplayItem, ReplayItems, ItemStatuses, ItemFine
  <2>2. r \in BatchRecs /\ r.status = "queued" /\ ~r.doubted /\ r.total = Cardinality(free)
    <3> DEFINE n == Cardinality(free)
    <3>1. n \in 0..Cardinality(Events) /\ 0 \in 0..Cardinality(Events) /\ 0 \in Int /\ 0 \in 0..MaxRetries
      BY <1>4, SizesOfSubsets, ReplayAssumption DEF Sizes
    <3> HIDE DEF n
    <3>2. [NoBatchRec EXCEPT !.status = "queued", !.total = n] \in BatchRecs
      BY <3>1 DEF NoBatchRec, BatchRecs, BatchStatuses
    <3>3. /\ [NoBatchRec EXCEPT !.status = "queued", !.total = n].total = n
          /\ [NoBatchRec EXCEPT !.status = "queued", !.total = n].status = "queued"
          /\ ~[NoBatchRec EXCEPT !.status = "queued", !.total = n].doubted
      BY DEF NoBatchRec
    <3> QED
      BY <3>2, <3>3 DEF n
  <2>3. \A e \in free : ritem[e].batch = NoBatch
    BY <1>1, <1>3 DEF ItemFine
  <2>4. Items(ritem, k) = {}
    BY <1>1, <1>2 DEF BatchFine
  <2>5. q \in ReplayRequests /\ q.pc = "enqueue" /\ q.b = k
    BY <1>1 DEF ReplayRequests
  <2> HIDE DEF x, r, q
  <2>6. ritem' \in [Events -> ReplayItems] /\ \A e \in Events : ItemFine(ritem'[e])
    BY <1>1, <1>6, <2>1
  <2>7. \A e \in Events : ritem'[e] # ritem[e] => {ritem[e].batch, ritem'[e].batch} \subseteq {k, NoBatch}
    BY <1>6, <2>1, <2>3
  <2>8. Items(ritem', k) = free
    BY <1>3, <1>6, <2>1, <2>4 DEF Items
  <2>9. BatchFine(r, ritem', k)
    BY <2>2, <2>8 DEF BatchFine, Rest
  <2>10. RequestFine(q, batch')
    BY <1>2, <2>5 DEF RequestFine
  <2>11. rw.pc \in AtItems \cup {"list"} => rw.b # k
    BY <1>1, <1>2 DEF WorkerFine
  <2>12. WorkerFine(rw, batch', ritem')
    BY <1>2, <1>6, <2>7, <2>11, WorkerElsewhere
  <2> HIDE DEF k
  <2> QED
    BY <1>1, <1>2, <1>6, <2>2, <2>5, <2>6, <2>7, <2>9, <2>10, <2>12, RowsMove
<1> QED
  BY <1>5, <1>6 DEF CommitBatch, OpStep

(* removeUnqueuedBatch *)
LEMMA RemoveStep == ASSUME ReplayInv, RemoveBatch PROVE ReplaySideFine'
<1> DEFINE k == repRequest.b
           r == IF batch[k].status = "queued" THEN NoBatchRec ELSE batch[k]
<1>1. /\ ritem \in [Events -> ReplayItems] /\ bjob \in [Batches -> Jobs] /\ batch \in [Batches -> BatchRecs]
      /\ RequestFine(repRequest, batch) /\ WorkerFine(rw, batch, ritem) /\ rw \in ReplayWorkers
      /\ \A e \in Events : ItemFine(ritem[e])
      /\ \A b \in Batches : BatchFine(batch[b], ritem, b)
  BY DEF ReplayInv, ReplaySideFine, ReplaySideTyped
<1>2. k \in Batches /\ batch[k].retries = 0 /\ UNCHANGED <<bjob, rw>> /\ repRequest' = IdleOp
  BY <1>1 DEF RemoveBatch, RequestFine, OpStep
<1>3. ritem' = [e \in Events |-> IF ritem[e].batch = k THEN NoReplayItem ELSE ritem[e]] /\ batch' = [batch EXCEPT ![k] = r]
  BY DEF RemoveBatch
<1>4. NoReplayItem \in ReplayItems /\ ItemFine(NoReplayItem) /\ NoReplayItem.batch = NoBatch
  BY DEF NoReplayItem, ReplayItems, ItemStatuses, ItemFine
<1>5. NoBatchRec \in BatchRecs /\ ~NoBatchRec.doubted /\ NoBatchRec.status = "none"
  BY SizesOfSubsets, ReplayAssumption DEF NoBatchRec, BatchRecs, BatchStatuses, Sizes
<1>6. ritem' \in [Events -> ReplayItems] /\ \A e \in Events : ItemFine(ritem'[e])
  BY <1>1, <1>3, <1>4
<1>7. \A e \in Events : ritem'[e] # ritem[e] => {ritem[e].batch, ritem'[e].batch} \subseteq {k, NoBatch}
  BY <1>3, <1>4
<1>8. Items(ritem', k) = {}
  BY <1>2, <1>3, <1>4, ReplayAssumption DEF Items
<1>9. r \in BatchRecs /\ BatchFine(r, ritem', k)
  BY <1>1, <1>2, <1>5, <1>8 DEF BatchFine, Rest
<1>10. WorkerFine(rw, batch', ritem')
  <2>1. CASE rw.pc \in AtItems \cup {"list"} /\ rw.b = k
    <3>1. ~batch[k].doubted
      BY <1>1, <1>2 DEF BatchFine
    <3>2. batch[k].status = "processing"
      BY <1>1, <2>1, <3>1 DEF WorkerFine
    <3>3. batch'[k] = batch[k]
      BY <1>1, <1>2, <1>3, <3>2
    <3> QED
      BY <1>1, <1>8, <2>1, <3>3 DEF WorkerFine
  <2>2. CASE ~(rw.pc \in AtItems \cup {"list"} /\ rw.b = k)
    BY <1>2, <1>3, <1>7, <2>2, WorkerElsewhere
  <2> QED
    BY <2>1, <2>2
<1> HIDE DEF k, r
<1> QED
  BY <1>1, <1>2, <1>3, <1>6, <1>7, <1>9, <1>10, RowsMove, IdleFine

(* The rows of items that keep their batch. *)
LEMMA SameMembers ==
  ASSUME NEW f, NEW g, NEW b, \A e \in Events : g[e].batch = f[e].batch
  PROVE  Items(g, b) = Items(f, b)
BY DEF Items

LEMMA RetryStep == ASSUME ReplayInv, NEW k \in Batches, RetryTransient(k) PROVE ReplaySideFine'
<1> DEFINE again == Transient(k) \ expired
           n == batch[k].failed - Cardinality(again)
           m == batch[k].retries + 1
           r == [batch[k] EXCEPT !.status = "queued", !.failed = n, !.retries = m]
           q == [IdleOp EXCEPT !.pc = "enqueue", !.b = k, !.pick = again]
<1>1. /\ ritem \in [Events -> ReplayItems] /\ bjob \in [Batches -> Jobs] /\ batch \in [Batches -> BatchRecs]
      /\ WorkerFine(rw, batch, ritem) /\ rw \in ReplayWorkers
      /\ \A e \in Events : ItemFine(ritem[e])
      /\ \A b \in Batches : BatchFine(batch[b], ritem, b)
  BY DEF ReplayInv, ReplaySideFine, ReplaySideTyped
<1>2. /\ UNCHANGED <<bjob, rw>> /\ repRequest' = q /\ batch[k].retries < MaxRetries
      /\ batch[k].status \in {"completed_with_failures", "failed"}
      /\ ritem' = [e \in Events |-> IF e \in again THEN [ritem[e] EXCEPT !.status = "queued", !.transient = FALSE] ELSE ritem[e]]
      /\ batch' = [batch EXCEPT ![k].status = "queued", ![k].failed = @ - Cardinality(again), ![k].retries = @ + 1]
  BY DEF RetryTransient, OpStep
<1>3. again \subseteq Events /\ \A e \in again : ritem[e].batch = k
  BY DEF Transient, InBatch
<1>4. n \in Int /\ m \in 0..MaxRetries /\ m > 0
  <2>1. Cardinality(again) \in Nat
    BY <1>3, SizesOfSubsets
  <2>2. batch[k].failed \in Int /\ batch[k].retries \in 0..MaxRetries
    BY <1>1 DEF BatchRecs
  <2>3. batch[k].retries < MaxRetries
    BY <1>2
  <2> QED
    BY <2>1, <2>2, <2>3, ReplayAssumption
<1>5. batch' = [batch EXCEPT ![k] = r]
  BY <1>1, <1>2
<1> HIDE DEF n, m
<1>6. /\ r \in BatchRecs /\ r.status = "queued" /\ r.doubted = batch[k].doubted /\ r.retries = m /\ r.total = batch[k].total
  BY <1>1, <1>4 DEF BatchRecs, BatchStatuses
<1>7. q \in ReplayRequests /\ q.pc = "enqueue" /\ q.b = k
  BY <1>3 DEF ReplayRequests, IdleOp
<1> HIDE DEF r, q
<1>8. \A e \in again : LET y == [ritem[e] EXCEPT !.status = "queued", !.transient = FALSE]
                       IN  y \in ReplayItems /\ y.batch = k /\ ItemFine(y)
  BY <1>1, <1>3, ReplayAssumption DEF ReplayItems, ItemStatuses, ItemFine
<1>9. ritem' \in [Events -> ReplayItems] /\ \A e \in Events : ItemFine(ritem'[e]) /\ ritem'[e].batch = ritem[e].batch
  BY <1>1, <1>2, <1>3, <1>8
<1>10. \A e \in Events : ritem'[e] # ritem[e] => {ritem[e].batch, ritem'[e].batch} \subseteq {k, NoBatch}
  BY <1>2, <1>3, <1>8
<1>11. Items(ritem', k) = Items(ritem, k)
  BY <1>9, SameMembers
<1>12. BatchFine(r, ritem', k)
  BY <1>1, <1>4, <1>6, <1>11 DEF BatchFine, Rest
<1>13. RequestFine(q, batch')
  BY <1>7 DEF RequestFine
<1>14. WorkerFine(rw, batch', ritem')
  <2>1. CASE rw.pc \in AtItems \cup {"list"} /\ rw.b = k
    <3>1. batch[k].doubted
      BY <1>1, <1>2, <2>1 DEF WorkerFine
    <3>2. batch'[k].status = "queued" /\ batch'[k].doubted
      BY <1>1, <1>5, <1>6, <3>1
    <3> QED
      BY <1>1, <2>1, <3>2 DEF WorkerFine
  <2>2. CASE ~(rw.pc \in AtItems \cup {"list"} /\ rw.b = k)
    BY <1>5, <1>10, <2>2, WorkerElsewhere
  <2> QED
    BY <2>1, <2>2
<1> QED
  BY <1>1, <1>2, <1>5, <1>6, <1>7, <1>9, <1>10, <1>12, <1>13, <1>14, RowsMove

(* markRetryQueueUnavailable *)
LEMMA UnavailableStep == ASSUME ReplayInv, MarkUnavailable PROVE ReplaySideFine'
<1> DEFINE k == repRequest.b
           lost == {e \in repRequest.pick : ritem[e].batch = k /\ ritem[e].status = "queued"}
           n == CountOf(k, {"failed"}, ritem')
           r == [batch[k] EXCEPT !.status = "completed_with_failures", !.failed = n, !.doubted = TRUE]
<1>1. /\ ritem \in [Events -> ReplayItems] /\ bjob \in [Batches -> Jobs] /\ batch \in [Batches -> BatchRecs]
      /\ RequestFine(repRequest, batch) /\ WorkerFine(rw, batch, ritem) /\ rw \in ReplayWorkers
      /\ \A e \in Events : ItemFine(ritem[e])
      /\ \A b \in Batches : BatchFine(batch[b], ritem, b)
  BY DEF ReplayInv, ReplaySideFine, ReplaySideTyped
<1>2. k \in Batches /\ batch[k].retries > 0 /\ UNCHANGED <<bjob, rw>> /\ repRequest' = IdleOp
  BY <1>1 DEF MarkUnavailable, RequestFine, OpStep
<1>3. /\ ritem' = [e \in Events |-> IF e \in lost THEN [ritem[e] EXCEPT !.status = "failed", !.transient = TRUE] ELSE ritem[e]]
      /\ batch' = [batch EXCEPT ![k].status = "completed_with_failures", ![k].failed = n, ![k].doubted = TRUE]
  BY DEF MarkUnavailable
<1>4. n \in Int
  <2>1. {e \in Events : ritem'[e].batch = k /\ ritem'[e].status \in {"failed"}} \in SUBSET Events
    OBVIOUS
  <2> QED
    BY <2>1, SizesOfSubsets DEF CountOf
<1>5. batch' = [batch EXCEPT ![k] = r]
  BY <1>1, <1>2, <1>3
<1> HIDE DEF n
<1>6. /\ r \in BatchRecs /\ r.status = "completed_with_failures" /\ r.doubted /\ r.retries = batch[k].retries /\ r.total = batch[k].total
  BY <1>1, <1>2, <1>4 DEF BatchRecs, BatchStatuses
<1> HIDE DEF r
<1>7. \A e \in lost \cap Events : LET y == [ritem[e] EXCEPT !.status = "failed", !.transient = TRUE]
                                  IN  y \in ReplayItems /\ y.batch = k /\ ItemFine(y)
  BY <1>1, <1>2, ReplayAssumption DEF ReplayItems, ItemStatuses, ItemFine
<1>8. ritem' \in [Events -> ReplayItems] /\ \A e \in Events : ItemFine(ritem'[e]) /\ ritem'[e].batch = ritem[e].batch
  BY <1>1, <1>3, <1>7
<1>9. \A e \in Events : ritem'[e] # ritem[e] => {ritem[e].batch, ritem'[e].batch} \subseteq {k, NoBatch}
  BY <1>3, <1>7
<1>10. Items(ritem', k) = Items(ritem, k)
  BY <1>8, SameMembers
<1>11. BatchFine(r, ritem', k)
  BY <1>1, <1>2, <1>6, <1>10 DEF BatchFine, Rest
<1>12. WorkerFine(rw, batch', ritem')
  <2>1. CASE rw.pc \in AtItems \cup {"list"} /\ rw.b = k
    <3>1. batch'[k].status = "completed_with_failures" /\ batch'[k].doubted
      BY <1>1, <1>2, <1>5, <1>6
    <3> QED
      BY <1>1, <2>1, <3>1 DEF WorkerFine
  <2>2. CASE ~(rw.pc \in AtItems \cup {"list"} /\ rw.b = k)
    BY <1>2, <1>5, <1>9, <2>2, WorkerElsewhere
  <2> QED
    BY <2>1, <2>2
<1> HIDE DEF k
<1> QED
  BY <1>1, <1>2, <1>5, <1>6, <1>8, <1>9, <1>11, <1>12, RowsMove, IdleFine

-----------------------------------------------------------------------------
(* The worker of batches. *)
LEMMA RequestStays ==
  ASSUME ReplayInv, NEW k \in Batches, NEW r, batch' = [batch EXCEPT ![k] = r], batch[k].status # "none",
         r.retries = batch[k].retries
  PROVE  RequestFine(repRequest, batch')
<1>1. RequestFine(repRequest, batch) /\ batch \in [Batches -> BatchRecs]
  BY DEF ReplayInv, ReplaySideFine, ReplaySideTyped
<1>2. \A b \in Batches : batch'[b] = IF b = k THEN r ELSE batch[b]
  BY <1>1
<1> QED
  BY <1>1, <1>2 DEF RequestFine

LEMMA WorkerEnds == ASSUME ReplayInv, WorkerStep, UNCHANGED <<ritem, batch>>, rw' = IdleReplayWorker,
                           bjob' = bjob \/ (rw.b \in Batches /\ \E j \in Jobs : bjob' = [bjob EXCEPT ![rw.b] = j])
  PROVE  ReplaySideFine'
<1>1. bjob \in [Batches -> Jobs]
  BY DEF ReplayInv, ReplaySideFine, ReplaySideTyped
<1>2. bjob' \in [Batches -> Jobs] /\ UNCHANGED repRequest
  BY <1>1, WorkerFrame
<1> QED
  BY <1>2, WorkerMoves, IdleFine

(* A worker that only goes on. *)
LEMMA WorkerPasses ==
  ASSUME ReplayInv, UNCHANGED <<ritem, batch, bjob, repRequest>>, NEW s \in {"start", "done"}, rw.pc # "idle", rw' = [rw EXCEPT !.pc = s]
  PROVE  ReplaySideFine'
<1>1. rw \in ReplayWorkers /\ bjob \in [Batches -> Jobs] /\ WorkerFine(rw, batch, ritem)
  BY DEF ReplayInv, ReplaySideFine, ReplaySideTyped
<1>2. rw' \in ReplayWorkers /\ rw'.pc = s /\ rw'.b \in Batches
  BY <1>1 DEF ReplayWorkers, WorkerFine
<1>3. WorkerFine(rw', batch, ritem)
  BY <1>2 DEF WorkerFine, AtItem, AtItems
<1> QED
  BY <1>1, <1>2, <1>3, WorkerMoves

LEMMA PassingSteps ==
  ASSUME ReplayInv, WorkerStep,
         \/ \E b \in Batches : BatchStalled(b) \/ BatchBackoff(b)
         \/ OpenBatch \/ CompleteBatchJob \/ BatchWorkerDies
  PROVE  ReplaySideFine'
<1>1. /\ bjob \in [Batches -> Jobs] /\ rw \in ReplayWorkers /\ WorkerFine(rw, batch, ritem) /\ UNCHANGED repRequest
      /\ ritem' = ritem /\ batch' = batch
  <2>1. OpenBatch => UNCHANGED <<ritem, batch>>
    BY DEF OpenBatch
  <2> QED
    BY <2>1, WorkerFrame DEF ReplayInv, ReplaySideFine, ReplaySideTyped, BatchStalled, BatchBackoff, CompleteBatchJob, BatchWorkerDies
<1>2. ASSUME NEW b \in Batches, BatchStalled(b) \/ BatchBackoff(b) PROVE ReplaySideFine'
  <2>1. UNCHANGED rw /\ \E j \in {Stall(bjob[b]), Promote(bjob[b])} : bjob' = [bjob EXCEPT ![b] = j]
    BY <1>2 DEF BatchStalled, BatchBackoff
  <2>2. bjob' \in [Batches -> Jobs]
    BY <1>1, <2>1, BatchJobs
  <2> QED
    BY <1>1, <2>1, <2>2, WorkerMoves
<1>3. CASE OpenBatch
  <2>1. rw.b \in Batches
    BY <1>1, <1>3 DEF OpenBatch, WorkerFine
  <2>2. CASE JobOver(Fail(bjob[rw.b]))
    BY <1>1, <2>1, <2>2, WorkerEnds, BatchJobs DEF JobOver, BatchStep
  <2>3. CASE UNCHANGED bjob /\ \E s \in {"start", "done"} : rw' = [rw EXCEPT !.pc = s]
    <3>1. rw.pc # "idle"
      BY <1>3 DEF OpenBatch
    <3> QED
      BY <1>1, <2>1, <2>3, <3>1, WorkerPasses
  <2> QED
    BY <1>3, <2>2, <2>3 DEF OpenBatch, BatchStep
<1>4. CASE CompleteBatchJob
  <2>1. rw.b \in Batches
    BY <1>1, <1>4 DEF CompleteBatchJob, WorkerFine
  <2> QED
    BY <1>1, <1>4, <2>1, WorkerEnds, BatchJobs DEF CompleteBatchJob, JobOver, BatchStep
<1>5. CASE BatchWorkerDies
  BY <1>1, <1>5, WorkerEnds DEF BatchWorkerDies, BatchStep
<1> QED
  BY <1>2, <1>3, <1>4, <1>5

LEMMA TakeStep == ASSUME ReplayInv, NEW b \in Batches, TakeBatch(b) PROVE ReplaySideFine'
<1> DEFINE w == [IdleReplayWorker EXCEPT !.pc = "open", !.b = b]
<1>1. UNCHANGED <<ritem, batch, repRequest>> /\ rw' = w /\ bjob' = [bjob EXCEPT ![b] = Take(bjob[b])]
  BY DEF TakeBatch, BatchStep
<1>2. bjob' \in [Batches -> Jobs]
  BY <1>1, BatchJobs DEF ReplayInv, ReplaySideFine, ReplaySideTyped
<1>3. w \in ReplayWorkers /\ w.pc = "open" /\ w.b = b
  BY IdleFine DEF ReplayWorkers, IdleReplayWorker
<1> HIDE DEF w
<1>4. WorkerFine(w, batch, ritem)
  BY <1>3 DEF WorkerFine, AtItem, AtItems
<1> QED
  BY <1>1, <1>2, <1>3, <1>4, WorkerMoves

(* What the worker knows of the batch it is at. *)
LEMMA AtWork == ASSUME ReplayInv, WorkerStep, rw.pc # "idle"
  PROVE  /\ rw \in ReplayWorkers /\ rw.b \in Batches /\ WorkerFine(rw, batch, ritem) /\ UNCHANGED repRequest
         /\ ritem \in [Events -> ReplayItems] /\ bjob \in [Batches -> Jobs] /\ batch \in [Batches -> BatchRecs]
         /\ repRequest \in ReplayRequests /\ \A e \in Events : ItemFine(ritem[e])
         /\ \A b \in Batches : BatchFine(batch[b], ritem, b)
BY WorkerFrame DEF ReplayInv, ReplaySideFine, ReplaySideTyped, WorkerFine

(* failEntireBatch and the start of processBatch. *)
LEMMA OpeningSteps == ASSUME ReplayInv, WorkerStep, FailEntireBatch \/ StartBatch PROVE ReplaySideFine'
<1> DEFINE k == rw.b
<1>1. /\ rw \in ReplayWorkers /\ k \in Batches /\ UNCHANGED repRequest
      /\ ritem \in [Events -> ReplayItems] /\ bjob \in [Batches -> Jobs] /\ batch \in [Batches -> BatchRecs]
      /\ repRequest \in ReplayRequests /\ \A e \in Events : ItemFine(ritem[e])
      /\ BatchFine(batch[k], ritem, k)
  BY AtWork DEF FailEntireBatch, StartBatch
<1>2. CASE FailEntireBatch
  <2> DEFINE lost == {e \in Events : ritem[e].batch = k /\ ritem[e].status \in ActiveBatch}
             n == CountOf(k, {"failed"}, ritem')
             r == [batch[k] EXCEPT !.status = "failed", !.failed = n]
             w == [rw EXCEPT !.pc = "done"]
  <2>1. /\ ritem' = [e \in Events |-> IF e \in lost THEN [ritem[e] EXCEPT !.status = "failed", !.transient = TRUE] ELSE ritem[e]]
        /\ batch' = [batch EXCEPT ![k].status = "failed", ![k].failed = n]
        /\ rw' = w /\ UNCHANGED bjob /\ batch[k].status # "none"
    BY <1>2 DEF FailEntireBatch, BatchStep
  <2>2. n \in Int
    <3>1. {e \in Events : ritem'[e].batch = k /\ ritem'[e].status \in {"failed"}} \in SUBSET Events
      OBVIOUS
    <3> QED
      BY <3>1, SizesOfSubsets DEF CountOf
  <2>3. batch' = [batch EXCEPT ![k] = r]
    BY <1>1, <2>1
  <2> HIDE DEF n
  <2>4. r \in BatchRecs /\ r.status = "failed" /\ r.doubted = batch[k].doubted /\ r.retries = batch[k].retries /\ r.total = batch[k].total
    BY <1>1, <2>2 DEF BatchRecs, BatchStatuses
  <2>5. w \in ReplayWorkers /\ w.pc = "done" /\ w.b = k
    BY <1>1 DEF ReplayWorkers
  <2> HIDE DEF r, w
  <2>6. \A e \in lost : LET y == [ritem[e] EXCEPT !.status = "failed", !.transient = TRUE]
                        IN  y \in ReplayItems /\ y.batch = k /\ ItemFine(y)
    BY <1>1, ReplayAssumption DEF ReplayItems, ItemStatuses, ItemFine
  <2>7. ritem' \in [Events -> ReplayItems] /\ \A e \in Events : ItemFine(ritem'[e]) /\ ritem'[e].batch = ritem[e].batch
    BY <1>1, <2>1, <2>6
  <2>8. \A e \in Events : ritem'[e] # ritem[e] => {ritem[e].batch, ritem'[e].batch} \subseteq {k, NoBatch}
    BY <2>1, <2>6
  <2>9. Items(ritem', k) = Items(ritem, k)
    BY <2>7, SameMembers
  <2>10. BatchFine(r, ritem', k)
    BY <1>1, <2>4, <2>9 DEF BatchFine, Rest
  <2>11. WorkerFine(w, batch', ritem')
    BY <1>1, <2>5 DEF WorkerFine, AtItem, AtItems
  <2>12. RequestFine(repRequest, batch')
    BY <1>1, <2>1, <2>3, <2>4, RequestStays
  <2> HIDE DEF k
  <2> QED
    BY <1>1, <2>1, <2>3, <2>4, <2>5, <2>7, <2>8, <2>10, <2>11, <2>12, RowsMove
<1>3. CASE StartBatch
  <2>1. CASE UNCHANGED <<ritem, batch>> /\ JobOver(Fail(bjob[k]))
    BY <1>1, <2>1, WorkerEnds, BatchJobs DEF JobOver, BatchStep
  <2>2. CASE batch[k].status # "none" /\ batch' = [batch EXCEPT ![k].status = "processing"] /\ rw' = [rw EXCEPT !.pc = "list"]
               /\ UNCHANGED <<ritem, bjob>>
    <3> DEFINE r == [batch[k] EXCEPT !.status = "processing"]
               w == [rw EXCEPT !.pc = "list"]
    <3>1. batch' = [batch EXCEPT ![k] = r] /\ rw' = w
      BY <1>1, <2>2
    <3>2. r \in BatchRecs /\ r.status = "processing" /\ r.doubted = batch[k].doubted /\ r.retries = batch[k].retries /\ r.total = batch[k].total
      BY <1>1 DEF BatchRecs, BatchStatuses
    <3>3. w \in ReplayWorkers /\ w.pc = "list" /\ w.b = k
      BY <1>1 DEF ReplayWorkers
    <3> HIDE DEF r, w
    <3>4. BatchFine(r, ritem', k)
      BY <1>1, <2>2, <3>2 DEF BatchFine, Rest
    <3>5. WorkerFine(w, batch', ritem')
      BY <1>1, <3>1, <3>2, <3>3 DEF WorkerFine, AtItem, AtItems
    <3>6. RequestFine(repRequest, batch')
      BY <1>1, <2>2, <3>1, <3>2, RequestStays
    <3> HIDE DEF k
    <3> QED
      BY <1>1, <2>2, <3>1, <3>2, <3>3, <3>4, <3>5, <3>6, RowsMove
  <2> QED
    BY <1>3, <2>1, <2>2 DEF StartBatch, BatchStep
<1> QED
  BY <1>2, <1>3

(* The worker looks at items and counts them. *)
LEMMA LookingSteps ==
  ASSUME ReplayInv, WorkerStep, ListItems \/ NextItem \/ CountItems \/ RecordReplay
  PROVE  ReplaySideFine'
<1> DEFINE k == rw.b
<1>1. rw.pc # "idle" /\ UNCHANGED <<ritem, batch, bjob>>
  <2>1. NextItem => rw.pc # "idle" /\ UNCHANGED <<ritem, batch, bjob>>
    BY DEF NextItem
  <2> QED
    BY <2>1 DEF ListItems, CountItems, RecordReplay
<1>2. rw \in ReplayWorkers /\ k \in Batches /\ WorkerFine(rw, batch, ritem) /\ UNCHANGED repRequest /\ bjob \in [Batches -> Jobs]
  BY <1>1, AtWork
<1>3. SUFFICES rw' \in ReplayWorkers /\ WorkerFine(rw', batch, ritem)
  BY <1>1, <1>2, WorkerMoves
<1>4. CASE ListItems
  <2> DEFINE t == {e \in InBatch(k) : ritem[e].status \in ActiveBatch}
  <2>1. rw' = [rw EXCEPT !.pc = "next", !.todo = t] /\ rw.pc = "list" /\ t \subseteq Events
    BY <1>4 DEF ListItems, BatchStep, InBatch
  <2>2. \A e \in Items(ritem, k) : ritem[e].status \in ActiveBatch => e \in t
    BY DEF Items, InBatch
  <2> HIDE DEF t
  <2>3. rw' \in ReplayWorkers /\ rw'.pc = "next" /\ rw'.b = k /\ rw'.todo = t
    BY <1>2, <2>1 DEF ReplayWorkers
  <2> QED
    BY <1>2, <2>1, <2>2, <2>3 DEF WorkerFine, AtItem, AtItems
<1>5. CASE NextItem
  <2>1. rw.pc = "next"
    BY <1>5 DEF NextItem
  <2>2. CASE rw.todo = {} /\ rw' = [rw EXCEPT !.pc = "count"]
    <3>1. rw' \in ReplayWorkers /\ rw'.pc = "count" /\ rw'.b = k /\ rw'.todo = {}
      BY <1>2, <2>2 DEF ReplayWorkers
    <3> QED
      BY <1>2, <2>1, <2>2, <3>1 DEF WorkerFine, AtItem, AtItems
  <2>3. ASSUME NEW e \in rw.todo, rw' = [rw EXCEPT !.pc = "mark", !.e = e, !.todo = @ \ {e}, !.res = ReplayOutcome(e)]
        PROVE  rw' \in ReplayWorkers /\ WorkerFine(rw', batch, ritem)
    <3> DEFINE t == rw.todo \ {e}
               x == ReplayOutcome(e)
    <3>1. e \in Events /\ t \subseteq Events /\ x \in Outcome /\ rw' = [rw EXCEPT !.pc = "mark", !.e = e, !.todo = t, !.res = x]
      BY <1>2, <2>3 DEF ReplayWorkers, ReplayOutcome, Outcome
    <3> HIDE DEF x
    <3>2. rw' \in ReplayWorkers /\ rw'.pc = "mark" /\ rw'.b = k /\ rw'.todo = t /\ rw'.e = e
      BY <1>2, <3>1 DEF ReplayWorkers
    <3> QED
      BY <1>2, <2>1, <3>1, <3>2 DEF WorkerFine, AtItem, AtItems
  <2>4. ASSUME NEW e \in rw.todo, ~(ritem[e].batch = k /\ ritem[e].status \in ActiveBatch), rw' = [rw EXCEPT !.todo = @ \ {e}]
        PROVE  rw' \in ReplayWorkers /\ WorkerFine(rw', batch, ritem)
    <3> DEFINE t == rw.todo \ {e}
    <3>1. t \subseteq Events /\ rw' = [rw EXCEPT !.todo = t]
      BY <1>2, <2>4 DEF ReplayWorkers
    <3>2. rw' \in ReplayWorkers /\ rw'.pc = "next" /\ rw'.b = k /\ rw'.todo = t
      BY <1>2, <2>1, <3>1 DEF ReplayWorkers
    <3> QED
      BY <1>2, <2>1, <2>4, <3>2 DEF WorkerFine, AtItem, AtItems, Items
  <2> QED
    BY <1>5, <2>2, <2>3, <2>4 DEF NextItem, BatchStep
<1>6. CASE CountItems
  <2> DEFINE c == <<CountOf(k, Terminal, ritem), CountOf(k, {"failed"}, ritem)>>
  <2>1. rw' = [rw EXCEPT !.pc = "finish", !.count = c] /\ rw.pc = "count"
    BY <1>6 DEF CountItems, BatchStep
  <2>2. c \in Sizes \X Sizes
    <3>1. \A st : {e \in Events : ritem[e].batch = k /\ ritem[e].status \in st} \in SUBSET Events
      OBVIOUS
    <3> QED
      BY <3>1, SizesOfSubsets DEF CountOf
  <2>3. rw' \in ReplayWorkers /\ rw'.pc = "finish" /\ rw'.b = k /\ rw'.todo = rw.todo /\ rw'.count = c
    <3> HIDE DEF c
    <3> QED
      BY <1>2, <2>1, <2>2 DEF ReplayWorkers
  <2> QED
    BY <1>2, <2>1, <2>3 DEF WorkerFine, AtItem, AtItems
<1>7. CASE RecordReplay
  <2> DEFINE x == KnownOrNew(rw.e)
  <2>1. rw' = [rw EXCEPT !.pc = "settle", !.res = x] /\ rw.pc = "record" /\ x \in Outcome
    BY <1>7 DEF RecordReplay, BatchStep, KnownOrNew, Outcome
  <2> HIDE DEF x
  <2>2. rw' \in ReplayWorkers /\ rw'.pc = "settle" /\ rw'.b = k /\ rw'.todo = rw.todo /\ rw'.e = rw.e
    BY <1>2, <2>1 DEF ReplayWorkers
  <2> QED
    BY <1>2, <2>1, <2>2 DEF WorkerFine, AtItem, AtItems
<1> QED
  BY <1>4, <1>5, <1>6, <1>7

(* The worker writes the item it is at. *)
LEMMA ItemWritten ==
  ASSUME ReplayInv, WorkerStep, rw.pc \in AtItem, ritem[rw.e].batch = rw.b, NEW st \in ItemStatuses \ {"none"}, NEW tr \in BOOLEAN,
         ritem' = [ritem EXCEPT ![rw.e].status = st, ![rw.e].transient = tr], UNCHANGED <<batch, bjob>>,
         rw' \in ReplayWorkers, rw'.b = rw.b, rw'.todo = rw.todo,
         \/ rw'.pc \in AtItem /\ rw'.e = rw.e
         \/ rw'.pc = "next" /\ st \notin ActiveBatch
  PROVE  ReplaySideFine'
<1> DEFINE k == rw.b
           y == [ritem[rw.e] EXCEPT !.status = st, !.transient = tr]
           r == batch[k]
<1>1. /\ rw \in ReplayWorkers /\ k \in Batches /\ WorkerFine(rw, batch, ritem) /\ UNCHANGED repRequest
      /\ ritem \in [Events -> ReplayItems] /\ bjob \in [Batches -> Jobs] /\ batch \in [Batches -> BatchRecs]
      /\ repRequest \in ReplayRequests /\ \A e \in Events : ItemFine(ritem[e])
      /\ BatchFine(batch[k], ritem, k)
  BY AtWork DEF AtItem
<1>2. rw.e \in Events /\ batch[k].status # "none" /\ (~batch[k].doubted => batch[k].status = "processing")
  BY <1>1 DEF WorkerFine, AtItems
<1>3. ritem' = [ritem EXCEPT ![rw.e] = y]
  BY <1>1, <1>2
<1>4. y \in ReplayItems /\ y.batch = k /\ y.status = st /\ ItemFine(y)
  BY <1>1, <1>2, ReplayAssumption DEF ReplayItems, ItemFine
<1> HIDE DEF y
<1>5. ritem' \in [Events -> ReplayItems] /\ \A e \in Events : ItemFine(ritem'[e]) /\ ritem'[e].batch = ritem[e].batch
  BY <1>1, <1>2, <1>3, <1>4
<1>6. \A e \in Events : ritem'[e] # ritem[e] => {ritem[e].batch, ritem'[e].batch} \subseteq {k, NoBatch}
  BY <1>1, <1>2, <1>3, <1>4
<1>7. Items(ritem', k) = Items(ritem, k)
  BY <1>5 DEF Items
<1>8. BatchFine(r, ritem', k)
  BY <1>1, <1>2, <1>7 DEF BatchFine, Rest
<1>9. \A e \in Events : ritem'[e].status = IF e = rw.e THEN st ELSE ritem[e].status
  BY <1>1, <1>2, <1>3, <1>4
<1>10. batch' = batch /\ WorkerFine(rw', batch', ritem')
  <2>1. ~batch[k].doubted => \A e \in Items(ritem, k) : ritem[e].status \in ActiveBatch => e \in rw.todo \/ e = rw.e
    BY <1>1 DEF WorkerFine, AtItem, AtItems
  <2>2. \A e \in Items(ritem, k) : e \in Events
    BY DEF Items
  <2>3. CASE rw'.pc \in AtItem /\ rw'.e = rw.e
    <3>1. ~batch[k].doubted => \A e \in Items(ritem', k) : ritem'[e].status \in ActiveBatch => e \in rw'.todo \/ e = rw'.e
      BY <1>7, <1>9, <2>1, <2>2, <2>3
    <3> QED
      BY <1>1, <1>2, <2>3, <3>1 DEF WorkerFine, AtItem, AtItems
  <2>4. CASE rw'.pc = "next" /\ st \notin ActiveBatch
    <3>1. ~batch[k].doubted => \A e \in Items(ritem', k) : ritem'[e].status \in ActiveBatch => e \in rw'.todo
      BY <1>7, <1>9, <2>1, <2>2, <2>4
    <3> QED
      BY <1>1, <1>2, <2>4, <3>1 DEF WorkerFine, AtItem, AtItems
  <2> QED
    BY <2>3, <2>4
<1>11. batch' = [batch EXCEPT ![k] = r] /\ r \in BatchRecs
  BY <1>1
<1>12. RequestFine(repRequest, batch')
  BY <1>1, <1>2, <1>11, RequestStays
<1> HIDE DEF k, r
<1> QED
  BY <1>1, <1>5, <1>6, <1>8, <1>10, <1>11, <1>12, RowsMove

LEMMA WritingSteps == ASSUME ReplayInv, WorkerStep, MarkReplayItem \/ SettleReplayItem \/ BatchThrows PROVE ReplaySideFine'
<1>1. rw.pc # "idle"
  BY DEF MarkReplayItem, SettleReplayItem, BatchThrows
<1>2. /\ rw \in ReplayWorkers /\ rw.b \in Batches /\ WorkerFine(rw, batch, ritem) /\ UNCHANGED repRequest
      /\ bjob \in [Batches -> Jobs]
  BY <1>1, AtWork
<1>3. CASE UNCHANGED <<ritem, batch>> /\ JobOver(Fail(bjob[rw.b]))
  BY <1>2, <1>3, WorkerEnds, BatchJobs DEF JobOver, BatchStep
<1>4. CASE MarkReplayItem
  <2> DEFINE s == IF rw.res = "refused" THEN "settle" ELSE "record"
  <2>1. CASE Present /\ ritem' = [ritem EXCEPT ![rw.e].status = "processing", ![rw.e].transient = FALSE] /\ rw' = [rw EXCEPT !.pc = s]
               /\ UNCHANGED <<batch, bjob>>
    <3>1. s \in {"settle", "record"}
      OBVIOUS
    <3> HIDE DEF s
    <3>2. rw' \in ReplayWorkers /\ rw'.pc = s /\ rw'.b = rw.b /\ rw'.todo = rw.todo /\ rw'.e = rw.e
      BY <1>2, <2>1, <3>1 DEF ReplayWorkers
    <3>3. rw.pc \in AtItem /\ s \in AtItem /\ "processing" \in ItemStatuses \ {"none"} /\ ritem[rw.e].batch = rw.b
      BY <1>4, <2>1, <3>1 DEF MarkReplayItem, AtItem, ItemStatuses, Present
    <3> QED
      BY <2>1, <3>2, <3>3, ItemWritten
  <2> QED
    BY <1>3, <1>4, <2>1 DEF MarkReplayItem, BatchStep
<1>5. CASE SettleReplayItem
  <2> DEFINE st == ItemStatus(rw.res)
             tr == rw.res = "error"
  <2>1. CASE Present /\ ritem' = [ritem EXCEPT ![rw.e].status = st, ![rw.e].transient = tr]
               /\ rw' = [rw EXCEPT !.pc = "next", !.e = NoEvent, !.res = "none"] /\ UNCHANGED <<batch, bjob>>
    <3>1. st \in ItemStatuses \ {"none"} /\ st \notin ActiveBatch /\ tr \in BOOLEAN
      BY DEF ItemStatus, ItemStatuses, ActiveBatch
    <3>2. rw' \in ReplayWorkers /\ rw'.pc = "next" /\ rw'.b = rw.b /\ rw'.todo = rw.todo
      BY <1>2, <2>1 DEF ReplayWorkers, Outcome
    <3>3. rw.pc \in AtItem /\ ritem[rw.e].batch = rw.b
      BY <1>5, <2>1 DEF SettleReplayItem, AtItem, Present
    <3> HIDE DEF st, tr
    <3> QED
      BY <2>1, <3>1, <3>2, <3>3, ItemWritten
  <2> QED
    BY <1>3, <1>5, <2>1 DEF SettleReplayItem, BatchStep
<1>6. CASE BatchThrows
  <2>1. UNCHANGED <<ritem, batch>>
    BY <1>6 DEF BatchThrows
  <2>2. CASE rw.pc = "record" /\ rw' = [rw EXCEPT !.pc = "settle", !.res = "error"] /\ UNCHANGED bjob
    <3>1. rw' \in ReplayWorkers /\ rw'.pc = "settle" /\ rw'.b = rw.b /\ rw'.todo = rw.todo /\ rw'.e = rw.e
      BY <1>2, <2>2 DEF ReplayWorkers, Outcome
    <3>2. WorkerFine(rw', batch, ritem)
      BY <1>2, <2>2, <3>1 DEF WorkerFine, AtItem, AtItems
    <3> QED
      BY <1>2, <2>1, <2>2, <3>1, <3>2, WorkerMoves
  <2> QED
    BY <1>3, <1>6, <2>1, <2>2 DEF BatchThrows, BatchStep
<1> QED
  BY <1>4, <1>5, <1>6

(* Of the items of a batch none of which is active, each is counted once. *)
LEMMA CountsAddUp ==
  ASSUME NEW f \in [Events -> ReplayItems], NEW b \in Batches, \A e \in Events : ItemFine(f[e]),
         \A e \in Items(f, b) : f[e].status \notin ActiveBatch
  PROVE  /\ CountOf(b, Terminal, f) + CountOf(b, {"failed"}, f) = Cardinality(Items(f, b))
         /\ CountOf(b, Terminal, f) \in Nat /\ CountOf(b, {"failed"}, f) \in Nat
<1> DEFINE done == {e \in Events : f[e].batch = b /\ f[e].status \in Terminal}
           lost == {e \in Events : f[e].batch = b /\ f[e].status \in {"failed"}}
<1>1. /\ IsFiniteSet(done) /\ IsFiniteSet(lost) /\ Cardinality(done) \in Nat /\ Cardinality(lost) \in Nat
  BY SizesOfSubsets
<1>2. \A e \in Events : f[e].batch = b => f[e].status \in Terminal \cup {"failed"}
  BY ReplayAssumption DEF ItemFine, Items, ReplayItems, ItemStatuses, ActiveBatch, Terminal
<1>3. done \cup lost = Items(f, b)
  BY <1>2 DEF Items
<1>4. done \cap lost = {}
  BY DEF Terminal
<1>5. Cardinality(done \cup lost) = Cardinality(done) + Cardinality(lost) - Cardinality(done \cap lost)
  BY <1>1, FS_Union
<1>6. Cardinality(done \cap lost) = 0
  BY <1>4, FS_EmptySet
<1>7. Cardinality(done \cup lost) = Cardinality(Items(f, b))
  BY <1>3, Zenon
<1> DEFINE m == Cardinality(done)
           n == Cardinality(lost)
<1>8. m = CountOf(b, Terminal, f) /\ n = CountOf(b, {"failed"}, f)
  BY DEF CountOf
<1>9. Cardinality(Items(f, b)) = m + n - 0 /\ m \in Nat /\ n \in Nat
  BY <1>1, <1>5, <1>6, <1>7, Zenon
<1> HIDE DEF m, n
<1> QED
  BY <1>8, <1>9

(* The end of processBatch. *)
LEMMA FinishStep == ASSUME ReplayInv, WorkerStep, FinishBatch PROVE ReplaySideFine'
<1> DEFINE k == rw.b
           st == IF rw.count[2] > 0 THEN "completed_with_failures" ELSE "completed"
           d == rw.count[1]
           n == rw.count[2]
           r == [batch[k] EXCEPT !.status = st, !.done = d, !.failed = n]
           w == [rw EXCEPT !.pc = "done"]
<1>1. /\ rw \in ReplayWorkers /\ k \in Batches /\ WorkerFine(rw, batch, ritem) /\ UNCHANGED repRequest
      /\ ritem \in [Events -> ReplayItems] /\ bjob \in [Batches -> Jobs] /\ batch \in [Batches -> BatchRecs]
      /\ repRequest \in ReplayRequests /\ \A e \in Events : ItemFine(ritem[e])
      /\ BatchFine(batch[k], ritem, k)
  BY AtWork DEF FinishBatch
<1>2. /\ rw.pc = "finish" /\ UNCHANGED <<ritem, bjob>> /\ rw' = w
      /\ batch' = [batch EXCEPT ![k].status = st, ![k].done = d, ![k].failed = n]
  BY DEF FinishBatch, BatchStep
<1>3. batch' = [batch EXCEPT ![k] = r]
  BY <1>1, <1>2
<1>4. st \in Rest /\ d \in Sizes /\ n \in Sizes /\ n \in Int
  BY <1>1, SizesOfSubsets DEF Rest, ReplayWorkers, Sizes
<1>5. batch[k].status # "none"
  BY <1>1, <1>2 DEF WorkerFine, AtItems
<1>6. ASSUME ~batch[k].doubted, Items(ritem, k) # {}
      PROVE  n = CountOf(k, {"failed"}, ritem) /\ d + n = batch[k].total
  <2>1. d = CountOf(k, Terminal, ritem) /\ n = CountOf(k, {"failed"}, ritem)
    BY <1>1, <1>2, <1>6 DEF WorkerFine
  <2>2. \A e \in Items(ritem, k) : ritem[e].status \notin ActiveBatch
    BY <1>1, <1>2, <1>6 DEF WorkerFine, AtItems, AtItem
  <2>3. CountOf(k, Terminal, ritem) + CountOf(k, {"failed"}, ritem) = Cardinality(Items(ritem, k))
    BY <1>1, <2>2, CountsAddUp
  <2>4. batch[k].total = Cardinality(Items(ritem, k))
    BY <1>1, <1>6 DEF BatchFine
  <2> QED
    BY <2>1, <2>3, <2>4
<1> HIDE DEF st, d, n
<1>7. /\ r \in BatchRecs /\ r.status = st /\ r.doubted = batch[k].doubted /\ r.retries = batch[k].retries /\ r.total = batch[k].total
      /\ r.done = d /\ r.failed = n
  BY <1>1, <1>4 DEF BatchRecs, BatchStatuses, Rest, Sizes
<1>8. w \in ReplayWorkers /\ w.pc = "done" /\ w.b = k
  BY <1>1 DEF ReplayWorkers
<1> HIDE DEF r, w
<1>9. BatchFine(r, ritem', k)
  BY <1>1, <1>2, <1>4, <1>6, <1>7 DEF BatchFine, Rest
<1>10. WorkerFine(w, batch', ritem')
  BY <1>1, <1>8 DEF WorkerFine, AtItem, AtItems
<1>11. RequestFine(repRequest, batch')
  BY <1>1, <1>3, <1>5, <1>7, RequestStays
<1> HIDE DEF k
<1> QED
  BY <1>1, <1>2, <1>3, <1>7, <1>8, <1>9, <1>10, <1>11, RowsMove

LEMMA ReplaySideStays == ASSUME ReplayInv, [ReplayNext]_replayVars PROVE ReplaySideFine'
<1>1. CASE UNCHANGED <<ritem, batch, bjob, rw, repRequest>>
  BY <1>1 DEF ReplayInv, ReplaySideFine, ReplaySideTyped
<1>2. CASE UNCHANGED replayVars \/ SettingsStep \/ LiveStep
  BY <1>1, <1>2, SettingsFrame, LiveFrame DEF replayVars
<1>3. CASE OperatorStep
  BY <1>3, RequestSteps, CommitStep, RemoveStep, RetryStep, UnavailableStep DEF OperatorStep
<1>4. CASE WorkerStep
  BY <1>4, PassingSteps, TakeStep, OpeningSteps, LookingSteps, WritingSteps, FinishStep DEF WorkerStep
<1> QED
  BY <1>2, <1>3, <1>4, StepKinds

(* What is recorded of a conversion stays. *)
LEMMA RecordKept == ASSUME ReplayInv, [ReplayNext]_replayVars
  PROVE  \A e \in Events : record[e] # "none" => record'[e] = record[e]
<1>1. CASE UNCHANGED record
  BY <1>1
<1>2. CASE UNCHANGED replayVars \/ SettingsStep \/ OperatorStep
  BY <1>1, <1>2, SettingsFrame, OperatorFrame DEF replayVars
<1>3. CASE WorkerStep
  BY <1>3, WorkerRecords
<1>4. CASE RecordItem
  <2>1. iw.e \in Events /\ Recorded(iw.e, "live") /\ record \in [Events -> {"none", "live", "replay"}]
    BY <1>4 DEF RecordItem, ReplayInv, LiveInv
  <2> QED
    BY <2>1, RecordedOnce
<1>5. CASE LiveStep
  <2>1. UNCHANGED record \/ RecordItem
    BY <1>5 DEF LiveStep, IntakeCreate, IntakeEnqueue, IntakeStep, RecoverItem, TakeItem, ItemStalled, ItemBackoff, LoadItem,
       MarkItem, SettleItem, ItemThrows, ItemWorkerDies
  <2> QED
    BY <1>1, <1>4, <2>1
<1> QED
  BY <1>2, <1>3, <1>5, StepKinds

(* An operator takes no item for converted. *)
LEMMA OperatorsConvertNothing == ASSUME ReplayInv, OperatorStep
  PROVE  \A e \in Events : ritem'[e].status = ritem[e].status \/ ritem'[e].status \notin Terminal
<1> DEFINE Goal == \A e \in Events : ritem'[e].status = ritem[e].status \/ ritem'[e].status \notin Terminal
<1>1. ritem \in [Events -> ReplayItems]
  BY DEF ReplayInv, ReplaySideFine, ReplaySideTyped
<1>2. CASE UNCHANGED ritem
  BY <1>2
<1>3. ASSUME NEW S, NEW x, x.status \notin Terminal, ritem' = [e \in Events |-> IF e \in S THEN x ELSE ritem[e]]
      PROVE  Goal
  BY <1>3
<1>4. ASSUME NEW S, NEW st \in {"queued", "failed"}, NEW tr \in BOOLEAN,
             ritem' = [e \in Events |-> IF e \in S THEN [ritem[e] EXCEPT !.status = st, !.transient = tr] ELSE ritem[e]]
      PROVE  Goal
  <2> SUFFICES ASSUME NEW e \in Events PROVE ritem'[e].status = ritem[e].status \/ ritem'[e].status \notin Terminal
    OBVIOUS
  <2>1. [ritem[e] EXCEPT !.status = st, !.transient = tr].status = st
    BY <1>1 DEF ReplayItems
  <2> QED
    BY <1>4, <2>1 DEF Terminal
<1>5. CASE CommitBatch
  <2> DEFINE S == {e \in repRequest.pick : ritem[e].status = "none"}
             x == [NoReplayItem EXCEPT !.status = "queued", !.batch = repRequest.b]
  <2>1. UNCHANGED ritem \/ ritem' = [e \in Events |-> IF e \in S THEN x ELSE ritem[e]]
    BY <1>5 DEF CommitBatch
  <2>2. x.status \notin Terminal
    BY DEF NoReplayItem, Terminal
  <2> HIDE DEF S, x
  <2> QED
    BY <1>2, <1>3, <2>1, <2>2
<1>6. CASE RemoveBatch
  <2> DEFINE S == {e \in Events : ritem[e].batch = repRequest.b}
  <2>1. ritem' = [e \in Events |-> IF e \in S THEN NoReplayItem ELSE ritem[e]]
    BY <1>6 DEF RemoveBatch
  <2>2. NoReplayItem.status \notin Terminal
    BY DEF NoReplayItem, Terminal
  <2> HIDE DEF S
  <2> QED
    BY <1>3, <2>1, <2>2
<1>7. ASSUME NEW b \in Batches, RetryTransient(b) PROVE Goal
  <2> DEFINE S == Transient(b) \ expired
  <2>1. ritem' = [e \in Events |-> IF e \in S THEN [ritem[e] EXCEPT !.status = "queued", !.transient = FALSE] ELSE ritem[e]]
    BY <1>7 DEF RetryTransient
  <2> HIDE DEF S, Goal
  <2> QED
    BY <1>4, <2>1
<1>8. CASE MarkUnavailable
  <2> SUFFICES ASSUME NEW e \in Events PROVE ritem'[e].status = ritem[e].status \/ ritem'[e].status \notin Terminal
    OBVIOUS
  <2>1. ritem'[e] = ritem[e] \/ ritem'[e] = [ritem[e] EXCEPT !.status = "failed", !.transient = TRUE]
    BY <1>8 DEF MarkUnavailable
  <2>2. [ritem[e] EXCEPT !.status = "failed", !.transient = TRUE].status = "failed"
    BY <1>1 DEF ReplayItems
  <2> QED
    BY <2>1, <2>2 DEF Terminal
<1>9. CASE SelectEvents \/ EnqueueBatch \/ EnqueueFails \/ \E b \in Batches : Authorize(b)
  BY <1>2, <1>9 DEF SelectEvents, EnqueueBatch, EnqueueFails, Authorize
<1> QED
  BY <1>5, <1>6, <1>7, <1>8, <1>9 DEF OperatorStep

(* A worker says of an item what it recorded of it. *)
LEMMA WorkersConvert == ASSUME ReplayInv, WorkerStep
  PROVE  /\ \A e \in Events : \/ ritem'[e].status = ritem[e].status \/ ritem'[e].status \notin Terminal
                              \/ e = rw.e /\ ritem'[e].status = ItemStatus(rw.res)
         /\ \/ rw'.res = rw.res /\ rw'.e = rw.e
            \/ rw'.res \notin {"new", "known"}
            \/ RecordReplay
<1> DEFINE Items2 == \A e \in Events : \/ ritem'[e].status = ritem[e].status \/ ritem'[e].status \notin Terminal
                                       \/ e = rw.e /\ ritem'[e].status = ItemStatus(rw.res)
           Words == \/ rw'.res = rw.res /\ rw'.e = rw.e
                    \/ rw'.res \notin {"new", "known"}
                    \/ RecordReplay
<1>1. ritem \in [Events -> ReplayItems] /\ rw \in ReplayWorkers
  BY DEF ReplayInv, ReplaySideFine, ReplaySideTyped
<1>2. IdleReplayWorker.res = "none"
  BY DEF IdleReplayWorker
<1>3. CASE UNCHANGED ritem /\ (rw' = IdleReplayWorker \/ rw' = rw)
  BY <1>2, <1>3
<1>4. CASE \E b \in Batches : TakeBatch(b) \/ BatchStalled(b) \/ BatchBackoff(b)
  <2>1. [IdleReplayWorker EXCEPT !.pc = "open", !.b = rw'.b].res = "none"
    BY DEF IdleReplayWorker
  <2>2. ASSUME NEW b, rw' = [IdleReplayWorker EXCEPT !.pc = "open", !.b = b] PROVE rw'.res = "none"
    BY <2>2 DEF IdleReplayWorker
  <2> QED
    BY <1>3, <1>4, <2>2 DEF TakeBatch, BatchStalled, BatchBackoff, BatchStep
<1>5. ASSUME NEW p, rw' = [rw EXCEPT !.pc = p] PROVE rw'.res = rw.res /\ rw'.e = rw.e
  BY <1>1, <1>5 DEF ReplayWorkers
<1>6. CASE OpenBatch
  BY <1>3, <1>5, <1>6 DEF OpenBatch, JobOver, BatchStep
<1>7. CASE StartBatch \/ CompleteBatchJob \/ BatchWorkerDies
  BY <1>3, <1>5, <1>7 DEF StartBatch, CompleteBatchJob, BatchWorkerDies, JobOver, BatchStep
<1>8. CASE FinishBatch
  BY <1>5, <1>8 DEF FinishBatch, BatchStep
<1>9. CASE FailEntireBatch
  <2>1. Words
    BY <1>5, <1>9 DEF FailEntireBatch, BatchStep
  <2>2. ASSUME NEW e \in Events PROVE ritem'[e].status = ritem[e].status \/ ritem'[e].status \notin Terminal
    <3>1. ritem'[e] = ritem[e] \/ ritem'[e] = [ritem[e] EXCEPT !.status = "failed", !.transient = TRUE]
      BY <1>9 DEF FailEntireBatch
    <3>2. [ritem[e] EXCEPT !.status = "failed", !.transient = TRUE].status = "failed"
      BY <1>1 DEF ReplayItems
    <3> QED
      BY <3>1, <3>2 DEF Terminal
  <2> QED
    BY <2>1, <2>2
<1>10. CASE ListItems
  <2> DEFINE t == {e \in InBatch(rw.b) : ritem[e].status \in ActiveBatch}
  <2>1. rw' = [rw EXCEPT !.pc = "next", !.todo = t] /\ UNCHANGED ritem
    BY <1>10 DEF ListItems, BatchStep
  <2> HIDE DEF t
  <2> QED
    BY <1>1, <2>1 DEF ReplayWorkers
<1>11. CASE NextItem
  <2>1. UNCHANGED ritem
    BY <1>11 DEF NextItem
  <2>2. CASE rw' = [rw EXCEPT !.pc = "count"]
    BY <1>5, <2>1, <2>2
  <2>3. ASSUME NEW e \in rw.todo, rw' = [rw EXCEPT !.pc = "mark", !.e = e, !.todo = @ \ {e}, !.res = ReplayOutcome(e)]
        PROVE  rw'.res \notin {"new", "known"}
    <3> DEFINE x == ReplayOutcome(e)
               t == rw.todo \ {e}
    <3>1. x \in {"none", "refused"} /\ rw' = [rw EXCEPT !.pc = "mark", !.e = e, !.todo = t, !.res = x]
      BY <2>3 DEF ReplayOutcome
    <3> HIDE DEF x, t
    <3> QED
      BY <1>1, <3>1 DEF ReplayWorkers
  <2>4. ASSUME NEW e \in rw.todo, rw' = [rw EXCEPT !.todo = @ \ {e}] PROVE rw'.res = rw.res /\ rw'.e = rw.e
    BY <1>1, <2>4 DEF ReplayWorkers
  <2> QED
    BY <1>11, <2>1, <2>2, <2>3, <2>4 DEF NextItem, BatchStep
<1>12. CASE MarkReplayItem
  <2>1. CASE UNCHANGED ritem /\ rw' = IdleReplayWorker
    BY <1>3, <2>1
  <2>2. CASE ritem' = [ritem EXCEPT ![rw.e].status = "processing", ![rw.e].transient = FALSE]
               /\ rw' = [rw EXCEPT !.pc = IF rw.res = "refused" THEN "settle" ELSE "record"]
    <3>1. Words
      BY <1>5, <2>2
    <3>2. ASSUME NEW e \in Events PROVE ritem'[e].status = ritem[e].status \/ ritem'[e].status = "processing"
      BY <1>1, <2>2 DEF ReplayItems
    <3> QED
      BY <3>1, <3>2 DEF Terminal
  <2> QED
    BY <1>12, <2>1, <2>2 DEF MarkReplayItem, JobOver, BatchStep
<1>13. CASE SettleReplayItem
  <2>1. CASE UNCHANGED ritem /\ rw' = IdleReplayWorker
    BY <1>3, <2>1
  <2> DEFINE st == ItemStatus(rw.res)
             tr == rw.res = "error"
  <2>2. CASE ritem' = [ritem EXCEPT ![rw.e].status = st, ![rw.e].transient = tr]
               /\ rw' = [rw EXCEPT !.pc = "next", !.e = NoEvent, !.res = "none"]
    <3>1. rw'.res = "none"
      BY <1>1, <2>2 DEF ReplayWorkers
    <3> HIDE DEF st, tr
    <3>2. ASSUME NEW e \in Events PROVE ritem'[e].status = ritem[e].status \/ (e = rw.e /\ ritem'[e].status = st)
      BY <1>1, <2>2 DEF ReplayItems
    <3> QED
      BY <3>1, <3>2 DEF st
  <2> QED
    BY <1>13, <2>1, <2>2 DEF SettleReplayItem, JobOver, BatchStep
<1>14. CASE RecordReplay
  BY <1>14 DEF RecordReplay
<1>15. CASE CountItems
  <2> DEFINE c == <<CountOf(rw.b, Terminal, ritem), CountOf(rw.b, {"failed"}, ritem)>>
  <2>1. rw' = [rw EXCEPT !.pc = "finish", !.count = c] /\ UNCHANGED ritem
    BY <1>15 DEF CountItems, BatchStep
  <2> HIDE DEF c
  <2> QED
    BY <1>1, <2>1 DEF ReplayWorkers
<1>16. CASE BatchThrows
  <2>1. CASE rw' = [rw EXCEPT !.pc = "settle", !.res = "error"] /\ UNCHANGED ritem
    BY <1>1, <2>1 DEF ReplayWorkers
  <2> QED
    BY <1>3, <1>16, <2>1 DEF BatchThrows, JobOver, BatchStep
<1> QED
  BY <1>4, <1>6, <1>7, <1>8, <1>9, <1>10, <1>11, <1>12, <1>13, <1>14, <1>15, <1>16 DEF WorkerStep

LEMMA ReplayRecordedStays == ASSUME ReplayInv, [ReplayNext]_replayVars PROVE ReplayRecorded'
<1>1. ReplayRecorded /\ \A e \in Events : record[e] # "none" => record'[e] = record[e]
  BY RecordKept DEF ReplayInv
<1>2. CASE UNCHANGED <<ritem, rw>>
  BY <1>1, <1>2 DEF ReplayRecorded
<1>3. CASE UNCHANGED replayVars \/ SettingsStep \/ LiveStep
  BY <1>2, <1>3, SettingsFrame, LiveFrame DEF replayVars
<1>4. CASE OperatorStep
  <2>1. UNCHANGED rw
    BY <1>4, OperatorFrame
  <2> QED
    BY <1>1, <1>4, <2>1, OperatorsConvertNothing DEF ReplayRecorded, Terminal
<1>5. CASE WorkerStep
  <2>1. \A e \in Events : \/ ritem'[e].status = ritem[e].status \/ ritem'[e].status \notin Terminal
                          \/ e = rw.e /\ ritem'[e].status = ItemStatus(rw.res)
    BY <1>5, WorkersConvert
  <2>2. /\ ItemStatus(rw.res) = "materialized" => rw.res = "new"
        /\ ItemStatus(rw.res) = "duplicate" => rw.res = "known"
    BY DEF ItemStatus
  <2>3. \A e \in Events : /\ ritem'[e].status = "materialized" => record'[e] = "replay"
                          /\ ritem'[e].status = "duplicate" => record'[e] # "none"
    BY <1>1, <2>1, <2>2 DEF ReplayRecorded, Terminal
  <2>4. CASE RecordReplay
    <3> DEFINE x == KnownOrNew(rw.e)
    <3>1. rw.e \in Events /\ Recorded(rw.e, "replay") /\ record \in [Events -> {"none", "live", "replay"}] /\ rw \in ReplayWorkers
      BY <2>4 DEF RecordReplay, ReplayInv, LiveInv, ReplaySideFine, ReplaySideTyped, WorkerFine, AtItem
    <3>2. (x = "new" => record'[rw.e] = "replay") /\ (x = "known" => record'[rw.e] # "none")
      BY <3>1, RecordedOnce
    <3>3. rw' = [rw EXCEPT !.pc = "settle", !.res = x]
      BY <2>4 DEF RecordReplay, BatchStep
    <3> HIDE DEF x
    <3>4. rw'.res = x /\ rw'.e = rw.e
      BY <3>1, <3>3 DEF ReplayWorkers
    <3> QED
      BY <2>3, <3>1, <3>2, <3>4 DEF ReplayRecorded
  <2> QED
    BY <1>1, <1>5, <2>3, <2>4, WorkersConvert DEF ReplayRecorded
<1> QED
  BY <1>3, <1>4, <1>5, StepKinds

LEMMA ReplayStarts == ReplayInit => ReplayInv
<1> SUFFICES ASSUME ReplayInit PROVE ReplayInv
  OBVIOUS
<1> USE ReplayAssumption
<1>1. SettingsInv
  <2>1. connection \in ConnectionRecs /\ chan \in ChanRecs /\ connection.version = 0 /\ chan.version = 0
    <3>1. connection \in ConnectionRecs /\ connection.version = 0 /\ connection.activated \in BOOLEAN
      <4>1. PICK s \in {"observation", "production"}, a \in BOOLEAN : connection = [status |-> s, activated |-> a, version |-> 0]
        BY DEF ReplayInit
      <4> QED
        BY <4>1 DEF ConnectionRecs
    <3>2. chan = [status |-> "active", activated |-> connection.activated, version |-> 0]
      BY DEF ReplayInit
    <3>3. chan.version = 0 /\ chan.status = "active" /\ chan.activated = connection.activated
      BY <3>2
    <3>4. 0 \in 0..MaxTroubles
      OBVIOUS
    <3> HIDE ReplayAssumption
    <3> QED
      BY <3>1, <3>2, <3>3, <3>4 DEF ChanRecs
  <2>2. owner \in Owners /\ owner.pc = "idle"
    BY DEF ReplayInit, IdleOwner, Owners
  <2> QED
    BY <2>1, <2>2 DEF ReplayInit, SettingsInv, IntakePlaces
<1>2. LiveInv
  <2>1. NoJob \in Jobs /\ NoJob.state = "none"
    BY MaxAttemptsAssumption, MaxStalledAssumption DEF NoJob, Jobs, JobStates
  <2>2. iw \in ItemWorkers /\ iw.pc = "idle" /\ iw.res = "none"
    BY DEF ReplayInit, IdleItemWorker, ItemWorkers, Outcome
  <2> QED
    BY <2>1, <2>2 DEF ReplayInit, LiveInv, ItemStatuses
<1>3. NoReplayItem \in ReplayItems /\ NoReplayItem.status = "none" /\ NoReplayItem.batch = NoBatch
  BY DEF NoReplayItem, ReplayItems, ItemStatuses
<1>4. NoBatchRec \in BatchRecs /\ NoBatchRec.status = "none" /\ NoBatchRec.doubted = FALSE
  BY SizesOfSubsets DEF NoBatchRec, BatchRecs, BatchStatuses, Sizes
<1>5. ReplaySideFine
  <2>1. NoJob \in Jobs
    BY MaxAttemptsAssumption, MaxStalledAssumption DEF NoJob, Jobs, JobStates
  <2>2. rw \in ReplayWorkers /\ repRequest \in ReplayRequests /\ RequestFine(repRequest, batch) /\ WorkerFine(rw, batch, ritem)
    BY IdleFine DEF ReplayInit
  <2>3. ASSUME NEW b \in Batches PROVE BatchFine(batch[b], ritem, b)
    <3>1. Items(ritem, b) = {} /\ batch[b] = NoBatchRec
      BY <1>3 DEF Items, ReplayInit
    <3> QED
      BY <1>4, <3>1 DEF BatchFine, Rest
  <2>4. ritem \in [Events -> ReplayItems] /\ batch \in [Batches -> BatchRecs] /\ bjob \in [Batches -> Jobs]
    BY <1>3, <1>4, <2>1 DEF ReplayInit
  <2>5. \A e \in Events : ItemFine(ritem[e])
    BY <1>3 DEF ReplayInit, ItemFine
  <2> QED
    BY <2>2, <2>3, <2>4, <2>5 DEF ReplaySideFine, ReplaySideTyped
<1>6. ReplayRecorded
  <2>1. rw.res = "none"
    BY DEF ReplayInit, IdleReplayWorker
  <2> QED
    BY <1>3, <2>1 DEF ReplayRecorded, ReplayInit
<1> QED
  BY <1>1, <1>2, <1>5, <1>6 DEF ReplayInv

LEMMA ReplayInvIsSafe == ReplayInv => ReplaySafe
<1> SUFFICES ASSUME ReplayInv PROVE ReplaySafe
  OBVIOUS
<1>1. ReplayTypeOK
  BY Zenon DEF ReplayInv, SettingsInv, LiveInv, ReplaySideFine, ReplaySideTyped, ReplayTypeOK, ConnectionRecs, ChanRecs, IntakePlaces,
     Sizes, ItemWorkers, ReplayWorkers, ReplayRequests, Owners
<1>2. MaterializedOnce
  BY DEF ReplayInv, LiveInv, ReplayRecorded, MaterializedOnce
<1>3. PreviewTruthful
  <2>1. \A e \in Preview.materialized : e \in Events /\ AlreadyMaterialized(e)
    BY DEF Preview, Previewed
  <2>2. \A e \in Preview.eligible : e \in Events /\ item[e] = "none"
    BY DEF Preview, Previewed, Offered
  <2> QED
    BY <2>1, <2>2 DEF PreviewTruthful, AlreadyMaterialized, Terminal, ReplayInv, LiveInv, ReplayRecorded
<1>4. CountsAgree
  <2>1. \A b \in Batches : BatchFine(batch[b], ritem, b)
    BY DEF ReplayInv, ReplaySideFine
  <2>2. \A b \in Batches : InBatch(b) = Items(ritem, b)
    BY DEF InBatch, Items
  <2> QED
    BY <2>1, <2>2 DEF CountsAgree, BatchFine, Rest
<1> QED
  BY <1>1, <1>2, <1>3, <1>4 DEF ReplaySafe

(* In every reachable state of live processing, replays and retries, for   *)
(* any events, batches, troubles and retries: an event is materialized on  *)
(* one side only, the preview is right, and the counters of a batch at     *)
(* rest are those of its items (InboundWebhookReplayService,               *)
(* InboundWebhookProductionService).                                       *)
THEOREM ReplaysStaySafe == ReplaySpec => []ReplaySafe
<1>1. ReplayInit => ReplayInv
  BY ReplayStarts
<1>2. ReplayInv /\ [ReplayNext]_replayVars => ReplayInv'
  BY SettingsStay, LiveStays, ReplaySideStays, ReplayRecordedStays DEF ReplayInv
<1>3. ReplayInv => ReplaySafe
  BY ReplayInvIsSafe
<1> QED
  BY <1>1, <1>2, <1>3, PTL DEF ReplaySpec

(***************************************************************************)
(* The direct webhooks.                                                    *)
(***************************************************************************)
KnownLabels == UNION {MsgLabels[m] : m \in Msgs}

Decisions == {"none", "ignored_observation", "ignored_production", "observation", "production"}

EventStates == {"none", "pending_meta_context", "pending_attribution", "pending_value", "ready", "ready_to_send"}

RunStates == {"none", "observed", "blocked", "eligible", "materialized"}

HookRecs == [at : Steps, msg : Msgs \cup {NoMsg}, fresh : SUBSET KnownLabels, sees : Decisions, may : BOOLEAN,
             made : SUBSET EventKeys]

RowsTyped ==
  /\ instance \in [there : BOOLEAN, hooked : BOOLEAN]
  /\ bridged \in {"none", "observation", "production"}
  /\ ruleMode \in {"absent", "observation", "production"}
  /\ logged \subseteq Msgs
  /\ captured \in [Chats -> {"none", "noad", "paid"}]
  /\ event \in [EventKeys -> EventStates]
  /\ sendJobs \subseteq EventKeys
  /\ chatLabels \in [Chats -> SUBSET KnownLabels]
  /\ frozen \in [Msgs -> Decisions]
  /\ run \in [Msgs -> RunStates]
  /\ runJobs \subseteq Msgs
  /\ mishaps \in 0..MaxMishaps

HooksTyped == hook \in [Hooks -> HookRecs] /\ \A h \in Hooks : hook[h].at # "free" => hook[h].msg \in Msgs

CaptureTyped == RowsTyped /\ HooksTyped

(* A decision for a tracked lead was made on a paid one, and is followed    *)
(* only once it is frozen.                                                  *)
Tracked == {"observation", "production"}

DecidedOnPaid ==
  /\ \A m \in Msgs : frozen[m] \in Tracked \/ run[m] \in {"eligible", "materialized"} => captured[MsgContact[m]] = "paid"
  /\ \A h \in Hooks :
       /\ hook[h].at = "freeze" => hook[h].sees # "none" /\ (hook[h].sees \in Tracked => captured[MsgContact[hook[h].msg]] = "paid")
       /\ hook[h].at = "orchestrate" => frozen[hook[h].msg] # "none"

(* What a message must still lead to is done, or a request that was not     *)
(* lost is on its way to it.                                                *)
BeforeLead == {"labels", "saveLabels", "evaluate", "freeze", "orchestrate", "queue", "lead"}

BeforeAuto == BeforeLead \cup {"findAuto", "createAuto"}

BeforeRule == BeforeAuto \cup {"findRule", "createRule"}

AwaitSend == {"findRule", "createRule", "send"}

On(h, m, steps) == hook[h].msg = m /\ hook[h].at \in steps

LeadDue(m) == captured[MsgContact[m]] # "none" \/ \E h \in Hooks : On(h, m, BeforeLead)

AutoDue(m) == event[AutoKey(m)] # "none" \/ \E h \in Hooks : On(h, m, BeforeAuto)

RuleDue(m) == event[RuleKey(m)] # "none" \/ \E h \in Hooks : On(h, m, BeforeRule)

SendDue(k) ==
  event[k] = "ready_to_send" => k \in sendJobs \/ \E h \in Hooks : k \in hook[h].made /\ hook[h].at \in AwaitSend

LostRequest == \E h \in Hooks : hook[h].at = "failed"

NothingForgotten ==
  /\ \A m \in logged : MakesLead(m) => LeadDue(m) /\ AutoDue(m) /\ (m \in LegacyMatches => RuleDue(m))
  /\ \A k \in EventKeys : SendDue(k)

CaptureInv == CaptureTyped /\ DecidedOnPaid /\ (LostRequest \/ NothingForgotten)

-----------------------------------------------------------------------------
(* A request that goes on keeps its message. *)
Moved(h, s) ==
  /\ hook' = [hook EXCEPT ![h] = hook'[h]] /\ hook'[h] \in HookRecs
  /\ hook'[h].at = s /\ hook'[h].msg = hook[h].msg

LEMMA GoesTo ==
  ASSUME CaptureTyped, NEW h \in Hooks, NEW s \in Steps, HookGoTo(h, s)
  PROVE  Moved(h, s) /\ hook'[h].made = hook[h].made
BY DEF CaptureTyped, HooksTyped, HookGoTo, Moved, HookRecs

LEMMA MovedTyped ==
  ASSUME CaptureTyped, NEW h \in Hooks, NEW s \in Steps, Moved(h, s), hook[h].at # "free"
  PROVE  HooksTyped'
BY DEF CaptureTyped, HooksTyped, Moved

LEMMA PlacesAfter ==
  \A m : /\ AfterRules(m) \in Steps \ {"free", "freeze", "orchestrate", "failed"} /\ AfterLog(m) \in Steps \ {"free", "freeze", "orchestrate", "failed"}
         /\ AfterAuto(m) \in {"findRule", "send"} /\ (m \in LegacyMatches => AfterAuto(m) = "findRule")
         /\ MakesLead(m) => AfterRules(m) = "lead" /\ AfterLog(m) \in {"labels", "lead"}
BY DEF AfterRules, AfterLog, AfterAuto, Steps, MakesLead

(* Leads, events and what was lost stay. *)
LEMMA KeysTyped == \A m \in Msgs : AutoKey(m) \in EventKeys /\ RuleKey(m) \in EventKeys
<1> SUFFICES ASSUME NEW m \in Msgs PROVE AutoKey(m) \in EventKeys /\ RuleKey(m) \in EventKeys
  OBVIOUS
<1> DEFINE c == MsgContact[m]
           ad == m \in WithAd
<1>1. c \in Chats /\ ad \in BOOLEAN
  BY CaptureAssumption
<1>2. AutoKey(m) = <<c, "auto", ad>> /\ RuleKey(m) = <<c, "rule", ad>>
  BY DEF AutoKey, RuleKey
<1> HIDE DEF c, ad
<1> QED
  BY <1>1, <1>2 DEF EventKeys

LEMMA LostStays ==
  ASSUME CaptureInv, NEW h \in Hooks, NEW s \in Steps, Moved(h, s), hook[h].at # "failed", LostRequest
  PROVE  LostRequest'
BY DEF LostRequest, Moved, CaptureInv, CaptureTyped, HooksTyped

LEMMA LostNow ==
  ASSUME CaptureInv, NEW h \in Hooks, Moved(h, "failed")
  PROVE  LostRequest'
BY DEF LostRequest, Moved, CaptureInv, CaptureTyped, HooksTyped

LEMMA ForgetsNothing ==
  ASSUME CaptureInv, NEW h \in Hooks, NEW s \in Steps, Moved(h, s), hook[h].at \notin {"free", "failed"},
         \A c \in Chats : captured[c] # "none" => captured'[c] # "none",
         \A k \in EventKeys : event[k] # "none" => event'[k] # "none",
         \A m \in logged' : MakesLead(m) => m \in logged \/ (m = hook[h].msg /\ s \in BeforeLead),
         MakesLead(hook[h].msg) =>
           /\ hook[h].at \in BeforeLead => s \in BeforeLead \/ captured'[MsgContact[hook[h].msg]] # "none"
           /\ hook[h].at \in BeforeAuto => s \in BeforeAuto \/ event'[AutoKey(hook[h].msg)] # "none"
           /\ hook[h].at \in BeforeRule /\ hook[h].msg \in LegacyMatches => s \in BeforeRule \/ event'[RuleKey(hook[h].msg)] # "none",
         \A k \in EventKeys : event'[k] = "ready_to_send" =>
           \/ event[k] = "ready_to_send" /\ ~(k \in hook[h].made /\ hook[h].at \in AwaitSend)
           \/ k \in sendJobs'
           \/ k \in hook'[h].made /\ s \in AwaitSend,
         sendJobs \subseteq sendJobs', logged' \subseteq Msgs
  PROVE  (LostRequest \/ NothingForgotten)'
<1>1. CASE LostRequest
  BY <1>1, LostStays
<1>2. CASE NothingForgotten
  <2>1. hook \in [Hooks -> HookRecs] /\ hook'[h].at = s /\ hook'[h].msg = hook[h].msg /\ \A g \in Hooks \ {h} : hook'[g] = hook[g]
    BY DEF CaptureInv, CaptureTyped, HooksTyped, Moved
  <2>2. BeforeLead \subseteq BeforeAuto /\ BeforeAuto \subseteq BeforeRule
    BY DEF BeforeAuto, BeforeRule
  <2>3. ASSUME NEW m \in logged', MakesLead(m) PROVE (LeadDue(m) /\ AutoDue(m) /\ (m \in LegacyMatches => RuleDue(m)))'
    <3>1. m \in Msgs /\ MsgContact[m] \in Chats /\ AutoKey(m) \in EventKeys /\ RuleKey(m) \in EventKeys
      BY <2>3, KeysTyped, CaptureAssumption
    <3>2. CASE m = hook[h].msg /\ s \in BeforeLead
      BY <2>1, <2>2, <3>2 DEF LeadDue, AutoDue, RuleDue, On
    <3>3. CASE m \in logged
      <4>1. LeadDue(m) /\ AutoDue(m) /\ (m \in LegacyMatches => RuleDue(m))
        BY <1>2, <2>3, <3>3 DEF NothingForgotten
      <4>2. LeadDue(m)'
        BY <2>1, <2>3, <3>1, <4>1 DEF LeadDue, On
      <4>3. AutoDue(m)'
        <5>1. AutoKey(m)' = AutoKey(m)
          BY DEF AutoKey
        <5> QED
          BY <2>1, <2>3, <3>1, <4>1, <5>1 DEF AutoDue, On
      <4>4. m \in LegacyMatches => RuleDue(m)'
        <5>1. RuleKey(m)' = RuleKey(m)
          BY DEF RuleKey
        <5> QED
          BY <2>1, <2>3, <3>1, <4>1, <5>1 DEF RuleDue, On
      <4> QED
        BY <4>2, <4>3, <4>4
    <3> QED
      BY <2>3, <3>2, <3>3
  <2>4. ASSUME NEW k \in EventKeys PROVE SendDue(k)'
    <3>1. SendDue(k)
      BY <1>2 DEF NothingForgotten
    <3> QED
      BY <2>1, <3>1 DEF SendDue
  <2> QED
    BY <2>3, <2>4 DEF NothingForgotten, MakesLead
<1> QED
  BY <1>1, <1>2 DEF CaptureInv

LEMMA DecisionsKept ==
  ASSUME CaptureInv, NEW h \in Hooks, NEW s \in Steps, Moved(h, s), s \notin {"freeze", "orchestrate"}, UNCHANGED <<frozen, run>>,
         \A c \in Chats : captured[c] = "paid" => captured'[c] = "paid", hook[h].at # "free"
  PROVE  DecidedOnPaid'
<1>1. DecidedOnPaid /\ CaptureTyped
  BY DEF CaptureInv
<1>2. hook \in [Hooks -> HookRecs] /\ hook'[h].at = s /\ hook'[h].msg = hook[h].msg /\ \A g \in Hooks \ {h} : hook'[g] = hook[g]
  BY <1>1 DEF CaptureTyped, HooksTyped, Moved
<1>3. \A m \in Msgs : MsgContact[m] \in Chats
  BY CaptureAssumption
<1>4. \A g \in Hooks : hook[g].at # "free" => hook[g].msg \in Msgs
  BY <1>1 DEF CaptureTyped, HooksTyped
<1> QED
  BY <1>1, <1>2, <1>3, <1>4 DEF DecidedOnPaid

-----------------------------------------------------------------------------
(* Evaluating the rules, up to the lead. *)
LEMMA RulesForgetNothing ==
  ASSUME CaptureInv, NEW h \in Hooks, NEW s \in Steps, Moved(h, s), hook[h].at \in BeforeLead, UNCHANGED <<logged, leadVars>>,
         MakesLead(hook[h].msg) => s \in BeforeLead
  PROVE  (LostRequest \/ NothingForgotten)'
<1>1. UNCHANGED <<logged, captured, event, sendJobs>> /\ hook[h].at \notin AwaitSend \cup {"free", "failed"}
  BY DEF leadVars, BeforeLead, AwaitSend
<1>2. logged \subseteq Msgs
  BY DEF CaptureInv, CaptureTyped, RowsTyped
<1>3. s \in BeforeLead => s \in BeforeAuto /\ s \in BeforeRule
  BY DEF BeforeAuto, BeforeRule
<1> QED
  BY <1>1, <1>2, <1>3, ForgetsNothing

LEMMA LabelSteps == ASSUME CaptureInv, NEW h \in Hooks, ReadChatLabels(h) \/ SaveChatLabels(h) PROVE CaptureInv'
<1> DEFINE m == hook[h].msg
<1>1. CaptureTyped /\ hook[h].at \in {"labels", "saveLabels"} /\ m \in Msgs /\ hook[h] \in HookRecs /\ MsgContact[m] \in Chats
  BY CaptureAssumption DEF CaptureInv, CaptureTyped, HooksTyped, ReadChatLabels, SaveChatLabels
<1>2. \E s \in Steps \ {"free", "freeze", "orchestrate"} : Moved(h, s) /\ (MakesLead(m) => s \in BeforeLead)
  <2>1. CASE ReadChatLabels(h)
    <3> DEFINE f == MsgLabels[m] \ chatLabels[MsgContact[m]]
    <3>1. f \in SUBSET KnownLabels /\ hook' = [hook EXCEPT ![h].fresh = f, ![h].at = "saveLabels"]
      BY <1>1, <2>1 DEF ReadChatLabels, KnownLabels
    <3> HIDE DEF f
    <3>2. "saveLabels" \in Steps \ {"free", "freeze", "orchestrate"} /\ "saveLabels" \in BeforeLead
      BY DEF Steps, BeforeLead
    <3>3. Moved(h, "saveLabels")
      BY <1>1, <3>1, <3>2 DEF CaptureTyped, HooksTyped, Moved, HookRecs
    <3> QED
      BY <3>2, <3>3
  <2>2. CASE SaveChatLabels(h)
    <3> DEFINE s == IF SaleLabel \in hook[h].fresh THEN "evaluate" ELSE AfterRules(m)
    <3>1. HookGoTo(h, s)
      BY <2>2 DEF SaveChatLabels
    <3>2. s \in Steps \ {"free", "freeze", "orchestrate"} /\ (MakesLead(m) => s \in BeforeLead)
      BY PlacesAfter DEF Steps, BeforeLead
    <3> HIDE DEF s
    <3> QED
      BY <1>1, <3>1, <3>2, GoesTo
  <2> QED
    BY <2>1, <2>2
<1>3. PICK s \in Steps \ {"free", "freeze", "orchestrate"} : Moved(h, s) /\ (MakesLead(m) => s \in BeforeLead)
  BY <1>2
<1>4. UNCHANGED <<instance, bridged, ruleMode, logged, captured, event, sendJobs, frozen, run, runJobs, mishaps>>
  BY DEF ReadChatLabels, SaveChatLabels, settingVars, leadVars, ruleVars
<1>5. chatLabels' \in [Chats -> SUBSET KnownLabels]
  <2>1. MsgLabels[m] \subseteq KnownLabels
    BY <1>1 DEF KnownLabels
  <2> QED
    BY <1>1, <2>1 DEF CaptureTyped, RowsTyped, ReadChatLabels, SaveChatLabels
<1>6. CaptureTyped'
  <2>1. RowsTyped'
    BY <1>1, <1>4, <1>5 DEF CaptureTyped, RowsTyped
  <2> QED
    BY <1>1, <1>3, <2>1, MovedTyped DEF CaptureTyped
<1>7. DecidedOnPaid'
  BY <1>1, <1>3, <1>4, DecisionsKept
<1>8. (LostRequest \/ NothingForgotten)'
  BY <1>1, <1>3, <1>4, RulesForgetNothing DEF BeforeLead, leadVars
<1> QED
  BY <1>6, <1>7, <1>8 DEF CaptureInv

LEMMA FailedEvaluation == ASSUME CaptureInv, NEW h \in Hooks, EvaluationFails(h) PROVE CaptureInv'
<1> DEFINE m == hook[h].msg
           s == AfterRules(m)
<1>1. CaptureTyped /\ hook[h].at \in BeforeLead /\ m \in Msgs /\ hook[h].at # "free"
  BY DEF CaptureInv, CaptureTyped, HooksTyped, EvaluationFails, BeforeLead
<1>2. s \in Steps \ {"free", "freeze", "orchestrate"} /\ Moved(h, s) /\ (MakesLead(m) => s \in BeforeLead)
  BY <1>1, GoesTo, PlacesAfter DEF EvaluationFails, BeforeLead
<1>3. UNCHANGED <<instance, bridged, ruleMode, logged, captured, event, sendJobs, chatLabels, frozen, run, runJobs>> /\ mishaps' \in 0..MaxMishaps
  BY <1>1, CaptureAssumption DEF EvaluationFails, settingVars, leadVars, ruleVars, CaptureTyped, RowsTyped
<1> HIDE DEF s
<1>4. RowsTyped' /\ HooksTyped'
  BY <1>1, <1>2, <1>3, MovedTyped DEF CaptureTyped, RowsTyped
<1>5. DecidedOnPaid'
  BY <1>1, <1>2, <1>3, DecisionsKept
<1>6. (LostRequest \/ NothingForgotten)'
  BY <1>1, <1>2, <1>3, RulesForgetNothing DEF leadVars
<1> QED
  BY <1>4, <1>5, <1>6 DEF CaptureInv, CaptureTyped

(* What is decided of a message is decided on the lead as it is. *)
LEMMA EvaluateStep == ASSUME CaptureInv, NEW h \in Hooks, EvaluateRules(h) PROVE CaptureInv'
<1> DEFINE m == hook[h].msg
           d == CaptureDecision(m)
<1>1. CaptureTyped /\ hook[h].at = "evaluate" /\ m \in Msgs /\ hook[h] \in HookRecs /\ hook[h].at \in BeforeLead
  BY DEF CaptureInv, CaptureTyped, HooksTyped, EvaluateRules, BeforeLead
<1>2. /\ UNCHANGED <<instance, ruleMode, logged, captured, event, sendJobs, chatLabels, frozen, run, runJobs, mishaps>>
      /\ bridged' \in {"none", "observation", "production"}
  BY <1>1 DEF EvaluateRules, leadVars, ruleVars, CaptureTyped, RowsTyped, EnsuredBridge
<1>3. RowsTyped'
  BY <1>1, <1>2 DEF CaptureTyped, RowsTyped
<1>4. CASE HookGoTo(h, AfterRules(m))
  <2> DEFINE s == AfterRules(m)
  <2>1. s \in Steps \ {"free", "freeze", "orchestrate"} /\ Moved(h, s) /\ (MakesLead(m) => s \in BeforeLead)
    BY <1>1, <1>4, GoesTo, PlacesAfter DEF BeforeLead
  <2> HIDE DEF s
  <2>2. HooksTyped'
    BY <1>1, <2>1, MovedTyped
  <2>3. DecidedOnPaid'
    BY <1>1, <1>2, <2>1, DecisionsKept
  <2>4. (LostRequest \/ NothingForgotten)'
    BY <1>1, <1>2, <2>1, RulesForgetNothing DEF leadVars
  <2> QED
    BY <1>3, <2>2, <2>3, <2>4 DEF CaptureInv, CaptureTyped
<1>5. CASE ruleMode # "absent" /\ hook' = [hook EXCEPT ![h].sees = d, ![h].may = bridged = "production", ![h].at = "freeze"]
  <2> DEFINE b == bridged = "production"
  <2>1. d \in Decisions \ {"none"} /\ (d \in Tracked => captured[MsgContact[m]] = "paid") /\ b \in BOOLEAN
    BY <1>1, <1>5 DEF CaptureDecision, ResolvedPaid, Decisions, Tracked, CaptureTyped, RowsTyped
  <2>2. hook' = [hook EXCEPT ![h].sees = d, ![h].may = b, ![h].at = "freeze"]
    BY <1>5
  <2>3. "freeze" \in Steps /\ "freeze" \in BeforeLead
    BY DEF Steps, BeforeLead
  <2> HIDE DEF d, b
  <2>4. Moved(h, "freeze") /\ hook'[h].sees = d
    BY <1>1, <2>1, <2>2, <2>3 DEF CaptureTyped, HooksTyped, Moved, HookRecs
  <2>5. HooksTyped'
    BY <1>1, <2>3, <2>4, MovedTyped
  <2>6. DecidedOnPaid'
    <3>1. hook'[h].at = "freeze" /\ hook'[h].msg = m /\ \A g \in Hooks \ {h} : hook'[g] = hook[g]
      BY <1>1, <2>4 DEF Moved, CaptureTyped, HooksTyped
    <3> QED
      BY <1>2, <2>1, <2>4, <3>1 DEF DecidedOnPaid, CaptureInv
  <2>7. (LostRequest \/ NothingForgotten)'
    BY <1>1, <1>2, <2>3, <2>4, RulesForgetNothing DEF leadVars
  <2> QED
    BY <1>3, <2>5, <2>6, <2>7 DEF CaptureInv, CaptureTyped
<1> QED
  BY <1>4, <1>5 DEF EvaluateRules

LEMMA FreezeStep == ASSUME CaptureInv, NEW h \in Hooks, FreezeCaptured(h) PROVE CaptureInv'
<1> DEFINE m == hook[h].msg
           d == Resolved(m, hook[h].sees)
<1>1. CaptureTyped /\ hook[h].at = "freeze" /\ m \in Msgs /\ hook[h] \in HookRecs /\ hook[h].at \in BeforeLead
  BY DEF CaptureInv, CaptureTyped, HooksTyped, FreezeCaptured, BeforeLead
<1>2. /\ UNCHANGED <<instance, bridged, ruleMode, logged, captured, event, sendJobs, chatLabels, run, runJobs, mishaps>>
      /\ frozen' = [frozen EXCEPT ![m] = d]
  BY DEF FreezeCaptured, leadVars, settingVars
<1>3. d \in Decisions \ {"none"} /\ (d \in Tracked => captured[MsgContact[m]] = "paid")
  BY <1>1 DEF Resolved, CaptureInv, DecidedOnPaid, CaptureTyped, RowsTyped, HookRecs
<1>4. "orchestrate" \in Steps /\ "orchestrate" \in BeforeLead /\ Moved(h, "orchestrate")
  BY <1>1, GoesTo DEF Steps, BeforeLead, FreezeCaptured
<1> HIDE DEF d
<1>5. RowsTyped' /\ HooksTyped'
  BY <1>1, <1>2, <1>3, <1>4, MovedTyped DEF CaptureTyped, RowsTyped
<1>6. DecidedOnPaid'
  <2>1. hook'[h].at = "orchestrate" /\ hook'[h].msg = m /\ \A g \in Hooks \ {h} : hook'[g] = hook[g]
    BY <1>1, <1>4 DEF Moved, CaptureTyped, HooksTyped
  <2>2. frozen'[m] = d /\ \A x \in Msgs \ {m} : frozen'[x] = frozen[x]
    BY <1>1, <1>2 DEF CaptureTyped, RowsTyped
  <2>3. \A g \in Hooks : hook[g].at # "free" => hook[g].msg \in Msgs
    BY <1>1 DEF CaptureTyped, HooksTyped
  <2> QED
    BY <1>2, <1>3, <2>1, <2>2, <2>3 DEF DecidedOnPaid, CaptureInv
<1>7. (LostRequest \/ NothingForgotten)'
  BY <1>1, <1>2, <1>4, RulesForgetNothing DEF leadVars
<1> QED
  BY <1>5, <1>6, <1>7 DEF CaptureInv, CaptureTyped

(* What is planned for a frozen decision: nothing that may reach Meta      *)
(* unless the lead is paid.                                                *)
LEMMA PlansOnPaid ==
  ASSUME CaptureInv, NEW m \in Msgs, frozen[m] # "none", NEW mode \in {"observation", "production"}, NEW gates \in BOOLEAN
  PROVE  /\ Planned(m, mode, gates) \in {"none", "observed", "blocked", "eligible"}
         /\ Persisted(m, Planned(m, mode, gates)) \in RunStates
         /\ Persisted(m, Planned(m, mode, gates)) \in {"eligible", "materialized"} => captured[MsgContact[m]] = "paid"
<1>1. frozen[m] \in Decisions /\ run[m] \in RunStates
  BY DEF CaptureInv, CaptureTyped, RowsTyped
<1>2. Planned(m, mode, gates) \in {"none", "observed", "blocked", "eligible"}
  BY DEF Planned, Disposition
<1>3. Planned(m, mode, gates) = "eligible" => frozen[m] \in Tracked
  BY <1>1 DEF Planned, Disposition, Decisions, Tracked
<1>4. Persisted(m, Planned(m, mode, gates)) \in {run[m], Planned(m, mode, gates)}
  BY DEF Persisted
<1> QED
  BY <1>1, <1>2, <1>3, <1>4 DEF RunStates, CaptureInv, DecidedOnPaid

(* An execution is written. *)
LEMMA RunDecided ==
  ASSUME CaptureInv, NEW m \in Msgs, NEW x \in RunStates, run' = [run EXCEPT ![m] = x],
         x \in {"eligible", "materialized"} => captured[MsgContact[m]] = "paid", UNCHANGED <<frozen, captured>>,
         \A h \in Hooks : hook'[h] = hook[h] \/ hook'[h].at \notin {"freeze", "orchestrate"}
  PROVE  DecidedOnPaid'
<1>1. run \in [Msgs -> RunStates] /\ DecidedOnPaid
  BY DEF CaptureInv, CaptureTyped, RowsTyped
<1> QED
  BY <1>1 DEF DecidedOnPaid

LEMMA OrchestrateStep == ASSUME CaptureInv, NEW h \in Hooks, OrchestrateCaptured(h) PROVE CaptureInv'
<1> DEFINE m == hook[h].msg
           p == Planned(m, FrozenMode(m), hook[h].may)
           x == Persisted(m, p)
           s == IF p # "none" /\ x = "eligible" THEN "queue" ELSE AfterRules(m)
<1>1. CaptureTyped /\ hook[h].at = "orchestrate" /\ m \in Msgs /\ hook[h] \in HookRecs /\ hook[h].at \in BeforeLead
  BY DEF CaptureInv, CaptureTyped, HooksTyped, OrchestrateCaptured, BeforeLead
<1>2. /\ UNCHANGED <<instance, bridged, ruleMode, logged, captured, event, sendJobs, chatLabels, frozen, runJobs, mishaps>>
      /\ run' = [run EXCEPT ![m] = x] /\ HookGoTo(h, s)
  BY DEF OrchestrateCaptured, leadVars, settingVars
<1>3. x \in RunStates /\ (x \in {"eligible", "materialized"} => captured[MsgContact[m]] = "paid")
  <2>1. frozen[m] # "none" /\ FrozenMode(m) \in {"observation", "production"} /\ hook[h].may \in BOOLEAN
    BY <1>1 DEF CaptureInv, DecidedOnPaid, FrozenMode, HookRecs
  <2> QED
    BY <1>1, <2>1, PlansOnPaid
<1>4. s \in Steps \ {"free", "freeze", "orchestrate"} /\ (MakesLead(m) => s \in BeforeLead)
  BY PlacesAfter DEF BeforeLead, Steps
<1> HIDE DEF x, s
<1>5. Moved(h, s)
  BY <1>1, <1>2, <1>4, GoesTo
<1>6. RowsTyped' /\ HooksTyped'
  BY <1>1, <1>2, <1>3, <1>4, <1>5, MovedTyped DEF CaptureTyped, RowsTyped
<1>7. DecidedOnPaid'
  <2>1. \A g \in Hooks : hook'[g] = hook[g] \/ hook'[g].at \notin {"freeze", "orchestrate"}
    BY <1>1, <1>4, <1>5 DEF Moved, CaptureTyped, HooksTyped
  <2> QED
    BY <1>1, <1>2, <1>3, <2>1, RunDecided
<1>8. (LostRequest \/ NothingForgotten)'
  BY <1>1, <1>2, <1>4, <1>5, RulesForgetNothing DEF leadVars
<1> QED
  BY <1>6, <1>7, <1>8 DEF CaptureInv, CaptureTyped

LEMMA QueueStep == ASSUME CaptureInv, NEW h \in Hooks, QueueCaptured(h) PROVE CaptureInv'
<1> DEFINE m == hook[h].msg
           s == AfterRules(m)
<1>1. CaptureTyped /\ hook[h].at = "queue" /\ hook[h].at \in BeforeLead /\ m \in Msgs
  BY DEF CaptureInv, CaptureTyped, HooksTyped, QueueCaptured, BeforeLead
<1>2. s \in Steps \ {"free", "freeze", "orchestrate"} /\ Moved(h, s) /\ (MakesLead(m) => s \in BeforeLead)
  BY <1>1, GoesTo, PlacesAfter DEF QueueCaptured, BeforeLead
<1>3. /\ UNCHANGED <<instance, bridged, ruleMode, logged, captured, event, sendJobs, chatLabels, frozen, run, mishaps>>
      /\ runJobs' \subseteq Msgs
  BY <1>1 DEF QueueCaptured, settingVars, leadVars, CaptureTyped, RowsTyped
<1> HIDE DEF s
<1>4. RowsTyped' /\ HooksTyped'
  BY <1>1, <1>2, <1>3, MovedTyped DEF CaptureTyped, RowsTyped
<1>5. DecidedOnPaid'
  BY <1>1, <1>2, <1>3, DecisionsKept
<1>6. (LostRequest \/ NothingForgotten)'
  BY <1>1, <1>2, <1>3, RulesForgetNothing DEF leadVars
<1> QED
  BY <1>4, <1>5, <1>6 DEF CaptureInv, CaptureTyped

-----------------------------------------------------------------------------
(* The lead and its events. *)
LEMMA LeadNeverLost ==
  ASSUME CaptureInv, NEW m \in Msgs
  PROVE  /\ UpsertedLead(m) \in {"noad", "paid"}
         /\ captured[MsgContact[m]] = "paid" => UpsertedLead(m) = "paid"
<1>1. captured[MsgContact[m]] \in {"none", "noad", "paid"}
  BY CaptureAssumption DEF CaptureInv, CaptureTyped, RowsTyped
<1> QED
  BY <1>1 DEF UpsertedLead

LEMMA LeadStep == ASSUME CaptureInv, NEW h \in Hooks, UpsertCapturedLead(h) PROVE CaptureInv'
<1> DEFINE m == hook[h].msg
           c == MsgContact[m]
           x == UpsertedLead(m)
<1>1. CaptureTyped /\ hook[h].at = "lead" /\ m \in Msgs /\ c \in Chats
  BY CaptureAssumption DEF CaptureInv, CaptureTyped, HooksTyped, UpsertCapturedLead
<1>2. /\ UNCHANGED <<instance, bridged, ruleMode, logged, event, sendJobs, chatLabels, frozen, run, runJobs, mishaps>>
      /\ captured' = [captured EXCEPT ![c] = x]
  BY DEF UpsertCapturedLead, settingVars, ruleVars
<1>3. "findAuto" \in Steps \ {"free", "freeze", "orchestrate"} /\ Moved(h, "findAuto")
  BY <1>1, GoesTo DEF UpsertCapturedLead, Steps
<1>4. x \in {"noad", "paid"} /\ (captured[c] = "paid" => x = "paid")
  BY <1>1, LeadNeverLost
<1> HIDE DEF x
<1>5. /\ captured' \in [Chats -> {"none", "noad", "paid"}] /\ captured'[c] # "none"
      /\ \A y \in Chats : (captured[y] # "none" => captured'[y] # "none") /\ (captured[y] = "paid" => captured'[y] = "paid")
  BY <1>1, <1>2, <1>4 DEF CaptureTyped, RowsTyped
<1>6. RowsTyped' /\ HooksTyped'
  BY <1>1, <1>2, <1>3, <1>5, MovedTyped DEF CaptureTyped, RowsTyped
<1>7. DecidedOnPaid'
  BY <1>1, <1>2, <1>3, <1>5, DecisionsKept
<1>8. (LostRequest \/ NothingForgotten)'
  <2>1. "findAuto" \in BeforeAuto /\ "findAuto" \in BeforeRule /\ "lead" \notin AwaitSend
    BY DEF BeforeAuto, BeforeRule, AwaitSend
  <2>2. logged \subseteq Msgs
    BY <1>1 DEF CaptureTyped, RowsTyped
  <2> QED
    BY <1>1, <1>2, <1>3, <1>5, <2>1, <2>2, ForgetsNothing
<1> QED
  BY <1>6, <1>7, <1>8 DEF CaptureInv, CaptureTyped

(* A step of a request that changes neither lead nor executions. *)
LEMMA EventMove ==
  ASSUME CaptureInv, NEW h \in Hooks, NEW s \in Steps \ {"free", "freeze", "orchestrate"}, Moved(h, s), hook[h].at # "free",
         UNCHANGED <<settingVars, captured, chatLabels, ruleVars>>, logged' \subseteq Msgs, event' \in [EventKeys -> EventStates],
         sendJobs' \subseteq EventKeys, mishaps' \in 0..MaxMishaps, (LostRequest \/ NothingForgotten)'
  PROVE  CaptureInv'
<1>1. CaptureTyped /\ UNCHANGED <<instance, bridged, ruleMode, captured, chatLabels, frozen, run, runJobs>>
  BY DEF CaptureInv, settingVars, ruleVars
<1>2. RowsTyped' /\ HooksTyped'
  BY <1>1, MovedTyped DEF CaptureTyped, RowsTyped
<1>3. DecidedOnPaid'
  BY <1>1, DecisionsKept
<1> QED
  BY <1>2, <1>3 DEF CaptureInv, CaptureTyped

LEMMA FindStep ==
  ASSUME CaptureInv, NEW h \in Hooks, NEW key \in EventKeys, NEW at, NEW create, NEW otherwise,
         FindCaptured(h, at, key, create, otherwise),
         \/ /\ at = "findAuto" /\ create = "createAuto" /\ key = AutoKey(hook[h].msg) /\ otherwise = AfterAuto(hook[h].msg)
         \/ at = "findRule" /\ create = "createRule" /\ key = RuleKey(hook[h].msg) /\ otherwise = "send"
  PROVE  CaptureInv'
<1> DEFINE m == hook[h].msg
           s == IF event[key] = "none" THEN create ELSE otherwise
<1>1. CaptureTyped /\ hook[h].at = at /\ at \in {"findAuto", "findRule"} /\ logged \subseteq Msgs /\ sendJobs \subseteq EventKeys
  BY DEF CaptureInv, CaptureTyped, RowsTyped, FindCaptured
<1>2. UNCHANGED <<settingVars, logged, captured, event, sendJobs, chatLabels, ruleVars, mishaps>> /\ HookGoTo(h, s)
  BY DEF FindCaptured, leadVars
<1>3. s \in Steps \ {"free", "freeze", "orchestrate"}
  BY PlacesAfter DEF Steps
<1>4. /\ event[key] = "none" => s = create
      /\ event[key] # "none" => s = otherwise
  OBVIOUS
<1> HIDE DEF s
<1>5. Moved(h, s) /\ hook'[h].made = hook[h].made
  BY <1>1, <1>2, <1>3, GoesTo
<1>6. at = "findAuto" => /\ at \notin AwaitSend /\ at \notin BeforeLead
                         /\ s \in BeforeAuto \/ event[AutoKey(m)] # "none"
                         /\ s \in BeforeRule \/ m \notin LegacyMatches
  BY <1>4, PlacesAfter DEF BeforeLead, BeforeAuto, BeforeRule, AwaitSend
<1>7. at = "findRule" => /\ s \in AwaitSend /\ at \notin BeforeAuto /\ at \notin BeforeLead
                         /\ s \in BeforeRule \/ event[RuleKey(m)] # "none"
  BY <1>4 DEF BeforeLead, BeforeAuto, BeforeRule, AwaitSend
<1>8. (LostRequest \/ NothingForgotten)'
  BY <1>1, <1>2, <1>3, <1>5, <1>6, <1>7, ForgetsNothing
<1>9. event \in [EventKeys -> EventStates] /\ mishaps \in 0..MaxMishaps
  BY <1>1 DEF CaptureTyped, RowsTyped
<1> QED
  BY <1>1, <1>2, <1>3, <1>5, <1>8, <1>9, EventMove

LEMMA CreateStep ==
  ASSUME CaptureInv, NEW h \in Hooks, NEW key \in EventKeys, NEW at, NEW status \in EventStates \ {"none"}, NEW then,
         CreateCaptured(h, at, key, status, then),
         \/ at = "createAuto" /\ key = AutoKey(hook[h].msg) /\ then = AfterAuto(hook[h].msg)
         \/ at = "createRule" /\ key = RuleKey(hook[h].msg) /\ then = "send"
  PROVE  CaptureInv'
<1> DEFINE m == hook[h].msg
<1>1. /\ CaptureTyped /\ hook[h].at = at /\ at \in {"createAuto", "createRule"} /\ logged \subseteq Msgs /\ sendJobs \subseteq EventKeys
      /\ event \in [EventKeys -> EventStates] /\ mishaps \in 0..MaxMishaps /\ hook \in [Hooks -> HookRecs]
  BY DEF CaptureInv, CaptureTyped, RowsTyped, HooksTyped, CreateCaptured
<1>2. UNCHANGED <<settingVars, logged, captured, sendJobs, chatLabels, ruleVars, mishaps>>
  BY DEF CreateCaptured
<1>3. then \in {"findRule", "send"} /\ then \in Steps \ {"free", "freeze", "orchestrate"} /\ then \in AwaitSend
  BY PlacesAfter DEF Steps, AwaitSend
<1>4. CASE HookGoTo(h, "failed") /\ UNCHANGED event
  <2>1. "failed" \in Steps \ {"free", "freeze", "orchestrate"}
    BY DEF Steps
  <2>2. Moved(h, "failed")
    BY <1>1, <1>4, <2>1, GoesTo
  <2> QED
    BY <1>1, <1>2, <1>4, <2>1, <2>2, LostNow, EventMove
<1>5. CASE event' = [event EXCEPT ![key] = status] /\ hook' = [hook EXCEPT ![h].made = @ \cup {key}, ![h].at = then]
  <2>1. Moved(h, then) /\ hook'[h].made = hook[h].made \cup {key}
    BY <1>1, <1>3, <1>5 DEF Moved, HookRecs
  <2>2. event' \in [EventKeys -> EventStates] /\ event'[key] # "none" /\ \A k \in EventKeys \ {key} : event'[k] = event[k]
    BY <1>1, <1>5
  <2>3. \A k \in EventKeys : event[k] # "none" => event'[k] # "none"
    BY <2>2
  <2>4. at = "createAuto" => at \notin BeforeLead /\ (then \in BeforeRule \/ m \notin LegacyMatches) /\ event'[AutoKey(m)] # "none"
    BY <2>2, PlacesAfter DEF BeforeLead, BeforeAuto, BeforeRule
  <2>5. at = "createRule" => at \notin BeforeLead /\ at \notin BeforeAuto /\ event'[RuleKey(m)] # "none"
    BY <2>2 DEF BeforeLead, BeforeAuto
  <2>6. \A k \in EventKeys : event'[k] = "ready_to_send" =>
          \/ event[k] = "ready_to_send" /\ ~(k \in hook[h].made /\ hook[h].at \in AwaitSend)
          \/ k \in hook'[h].made /\ then \in AwaitSend
    BY <1>3, <2>1, <2>2
  <2>7. (LostRequest \/ NothingForgotten)'
    BY <1>1, <1>2, <1>3, <2>1, <2>3, <2>4, <2>5, <2>6, ForgetsNothing
  <2> QED
    BY <1>1, <1>2, <1>3, <2>1, <2>2, <2>7, EventMove
<1> QED
  BY <1>4, <1>5 DEF CreateCaptured

LEMMA EventSteps ==
  ASSUME CaptureInv, NEW h \in Hooks, FindAuto(h) \/ CreateAuto(h) \/ FindRuleEvent(h) \/ CreateRuleEvent(h)
  PROVE  CaptureInv'
<1> DEFINE m == hook[h].msg
<1>1. m \in Msgs
  <2>1. hook[h].msg \in Msgs \cup {NoMsg}
    BY DEF CaptureInv, CaptureTyped, HooksTyped, HookRecs
  <2> QED
    BY <2>1 DEF FindAuto, CreateAuto, FindRuleEvent, CreateRuleEvent
<1>2. AutoKey(m) \in EventKeys /\ RuleKey(m) \in EventKeys
  BY <1>1, KeysTyped
<1>3. \A v \in BOOLEAN : InitialStatus(m, v) \in EventStates \ {"none"}
  BY DEF InitialStatus, EventStates
<1>4. CASE FindAuto(h)
  BY <1>2, <1>4, FindStep DEF FindAuto
<1>5. CASE FindRuleEvent(h)
  BY <1>2, <1>5, FindStep DEF FindRuleEvent
<1>6. CASE CreateAuto(h)
  BY <1>2, <1>3, <1>6, CreateStep DEF CreateAuto
<1>7. CASE CreateRuleEvent(h)
  BY <1>2, <1>3, <1>7, CreateStep, CaptureAssumption DEF CreateRuleEvent
<1> QED
  BY <1>4, <1>5, <1>6, <1>7

LEMMA SendStep == ASSUME CaptureInv, NEW h \in Hooks, QueueReadyLogs(h) PROVE CaptureInv'
<1>1. /\ CaptureTyped /\ hook[h].at = "send" /\ logged \subseteq Msgs /\ sendJobs \subseteq EventKeys /\ hook[h] \in HookRecs
      /\ event \in [EventKeys -> EventStates] /\ mishaps \in 0..MaxMishaps
  BY DEF CaptureInv, CaptureTyped, RowsTyped, HooksTyped, QueueReadyLogs
<1>2. UNCHANGED <<settingVars, logged, captured, event, chatLabels, ruleVars, mishaps>> /\ sendJobs' = sendJobs \cup ReadyLogs(h)
  BY DEF QueueReadyLogs
<1>3. "done" \in Steps \ {"free", "freeze", "orchestrate"} /\ Moved(h, "done")
  BY <1>1, GoesTo DEF QueueReadyLogs, Steps
<1>4. "send" \notin BeforeLead /\ "send" \notin BeforeAuto /\ "send" \notin BeforeRule
  BY DEF BeforeLead, BeforeAuto, BeforeRule
<1>5. sendJobs' \subseteq EventKeys /\ sendJobs \subseteq sendJobs'
  BY <1>1, <1>2 DEF ReadyLogs, HookRecs
<1>6. \A k \in EventKeys : event'[k] = "ready_to_send" => (event[k] = "ready_to_send" /\ k \notin hook[h].made) \/ k \in sendJobs'
  BY <1>2 DEF ReadyLogs
<1>7. (LostRequest \/ NothingForgotten)'
  BY <1>1, <1>2, <1>3, <1>4, <1>5, <1>6, ForgetsNothing
<1> QED
  BY <1>1, <1>2, <1>3, <1>5, <1>7, EventMove

-----------------------------------------------------------------------------
(* A request begins, and may be lost. *)
LEMMA LogStep == ASSUME CaptureInv, NEW h \in Hooks, WriteWebhookLog(h) PROVE CaptureInv'
<1> DEFINE m == hook[h].msg
           s == AfterLog(m)
<1>1. /\ CaptureTyped /\ hook[h].at = "log" /\ m \in Msgs /\ logged \subseteq Msgs /\ sendJobs \subseteq EventKeys
      /\ event \in [EventKeys -> EventStates] /\ mishaps \in 0..MaxMishaps
  BY DEF CaptureInv, CaptureTyped, RowsTyped, HooksTyped, WriteWebhookLog
<1>2. UNCHANGED <<settingVars, captured, event, sendJobs, chatLabels, ruleVars, mishaps>>
  BY DEF WriteWebhookLog, leadVars
<1>3. "failed" \in Steps \ {"free", "freeze", "orchestrate"} /\ s \in Steps \ {"free", "freeze", "orchestrate"}
  BY PlacesAfter DEF Steps
<1>4. CASE HookGoTo(h, "failed") /\ UNCHANGED logged
  BY <1>1, <1>2, <1>3, <1>4, GoesTo, LostNow, EventMove
<1>5. CASE logged' = logged \cup {m} /\ HookGoTo(h, s)
  <2>1. MakesLead(m) => s \in BeforeLead
    BY PlacesAfter DEF BeforeLead
  <2>2. "log" \notin BeforeLead /\ "log" \notin BeforeAuto /\ "log" \notin BeforeRule /\ "log" \notin AwaitSend
    BY DEF BeforeLead, BeforeAuto, BeforeRule, AwaitSend
  <2> HIDE DEF s
  <2>3. Moved(h, s) /\ logged' \subseteq Msgs
    BY <1>1, <1>3, <1>5, GoesTo
  <2>4. \A x \in logged' : MakesLead(x) => x \in logged \/ (x = m /\ s \in BeforeLead)
    BY <1>5, <2>1
  <2>5. (LostRequest \/ NothingForgotten)'
    BY <1>1, <1>2, <1>3, <2>2, <2>3, <2>4, ForgetsNothing
  <2> QED
    BY <1>1, <1>2, <1>3, <2>3, <2>5, EventMove
<1> QED
  BY <1>4, <1>5 DEF WriteWebhookLog

LEMMA DyingStep == ASSUME CaptureInv, NEW h \in Hooks, HandlerDies(h) PROVE CaptureInv'
<1>1. /\ CaptureTyped /\ hook[h].at # "free" /\ logged \subseteq Msgs /\ sendJobs \subseteq EventKeys
      /\ event \in [EventKeys -> EventStates] /\ mishaps' \in 0..MaxMishaps
  BY CaptureAssumption DEF CaptureInv, CaptureTyped, RowsTyped, HandlerDies
<1>2. UNCHANGED <<settingVars, logged, captured, event, sendJobs, chatLabels, ruleVars>>
  BY DEF HandlerDies, leadVars
<1>3. "failed" \in Steps \ {"free", "freeze", "orchestrate"} /\ Moved(h, "failed")
  BY <1>1, GoesTo DEF HandlerDies, Steps
<1> QED
  BY <1>1, <1>2, <1>3, LostNow, EventMove

LEMMA ReceiveStep == ASSUME CaptureInv, NEW h \in Hooks, NEW m \in Msgs, ReceiveWebhook(h, m) PROVE CaptureInv'
<1> DEFINE s == IF m \in Named /\ m \in logged THEN "done" ELSE "log"
           w == [IdleHook EXCEPT !.msg = m, !.at = s]
<1>1. /\ CaptureTyped /\ hook[h].at = "free" /\ hook' = [hook EXCEPT ![h] = w] /\ hook \in [Hooks -> HookRecs]
      /\ UNCHANGED <<instance, bridged, ruleMode, logged, captured, event, sendJobs, chatLabels, frozen, run, runJobs, mishaps>>
  BY DEF CaptureInv, CaptureTyped, HooksTyped, ReceiveWebhook, settingVars, leadVars, ruleVars
<1>2. s \in {"done", "log"} /\ s \in Steps
  BY DEF Steps
<1> HIDE DEF s
<1>3. w \in HookRecs /\ w.at = s /\ w.msg = m
  BY <1>2 DEF IdleHook, HookRecs, Decisions
<1> HIDE DEF w
<1>4. hook'[h] = w /\ \A g \in Hooks \ {h} : hook'[g] = hook[g]
  BY <1>1
<1>5. RowsTyped' /\ HooksTyped'
  BY <1>1, <1>3, <1>4 DEF CaptureTyped, RowsTyped, HooksTyped
<1>6. DecidedOnPaid'
  BY <1>1, <1>2, <1>3, <1>4 DEF CaptureInv, DecidedOnPaid
<1>7. "free" \notin BeforeLead /\ "free" \notin BeforeAuto /\ "free" \notin BeforeRule /\ "free" \notin AwaitSend
  BY DEF BeforeLead, BeforeAuto, BeforeRule, AwaitSend
<1>8. LostRequest => LostRequest'
  BY <1>1, <1>4 DEF LostRequest
<1>9. NothingForgotten => NothingForgotten'
  <2>1. \A x : LeadDue(x) => LeadDue(x)'
    BY <1>1, <1>4, <1>7 DEF LeadDue, On
  <2>2. \A x : AutoDue(x) => AutoDue(x)'
    BY <1>1, <1>4, <1>7 DEF AutoDue, On, AutoKey
  <2>3. \A x : RuleDue(x) => RuleDue(x)'
    BY <1>1, <1>4, <1>7 DEF RuleDue, On, RuleKey
  <2>4. \A k : SendDue(k) => SendDue(k)'
    BY <1>1, <1>4, <1>7 DEF SendDue
  <2> QED
    BY <1>1, <2>1, <2>2, <2>3, <2>4 DEF NothingForgotten
<1> QED
  BY <1>5, <1>6, <1>8, <1>9 DEF CaptureInv, CaptureTyped

-----------------------------------------------------------------------------
(* Settings, production and the scripts: no request moves. *)
LEMMA NoRequestMoves ==
  ASSUME CaptureInv, UNCHANGED <<hook, logged>>, RowsTyped',
         \A c \in Chats : captured[c] # "none" => captured'[c] # "none",
         \A k \in EventKeys : event[k] # "none" => event'[k] # "none",
         \A k \in EventKeys : event'[k] = "ready_to_send" => event[k] = "ready_to_send" \/ k \in sendJobs', sendJobs \subseteq sendJobs'
  PROVE  (LostRequest \/ NothingForgotten)' /\ CaptureTyped'
<1>1. CaptureTyped' /\ logged \subseteq Msgs
  BY DEF CaptureInv, CaptureTyped, RowsTyped, HooksTyped
<1>2. LostRequest => LostRequest'
  BY DEF LostRequest
<1>3. ASSUME NothingForgotten PROVE NothingForgotten'
  <2>1. \A k \in EventKeys : SendDue(k)'
    BY <1>3 DEF NothingForgotten, SendDue
  <2>2. ASSUME NEW m \in logged, MakesLead(m) PROVE (LeadDue(m) /\ AutoDue(m) /\ (m \in LegacyMatches => RuleDue(m)))'
    <3>1. LeadDue(m) /\ AutoDue(m) /\ (m \in LegacyMatches => RuleDue(m))
      BY <1>3, <2>2 DEF NothingForgotten
    <3>2. MsgContact[m] \in Chats /\ AutoKey(m) \in EventKeys /\ RuleKey(m) \in EventKeys
      BY <1>1, <2>2, KeysTyped, CaptureAssumption
    <3>3. LeadDue(m)'
      BY <3>1, <3>2 DEF LeadDue, On
    <3>4. AutoDue(m)'
      <4>1. AutoKey(m)' = AutoKey(m)
        BY DEF AutoKey
      <4> QED
        BY <3>1, <3>2, <4>1 DEF AutoDue, On
    <3>5. m \in LegacyMatches => RuleDue(m)'
      <4>1. RuleKey(m)' = RuleKey(m)
        BY DEF RuleKey
      <4> QED
        BY <3>1, <3>2, <4>1 DEF RuleDue, On
    <3> QED
      BY <3>3, <3>4, <3>5
  <2> QED
    BY <2>1, <2>2 DEF NothingForgotten
<1> QED
  BY <1>1, <1>2, <1>3 DEF CaptureInv

LEMMA SettingSteps ==
  ASSUME CaptureInv, CreateInstance \/ RefreshInstance \/ RemoveInstance \/ SetCaptureRule
  PROVE  CaptureInv'
<1>1. UNCHANGED <<logged, captured, event, sendJobs, chatLabels, frozen, run, runJobs, hook, mishaps>> /\ RowsTyped
  BY DEF CreateInstance, RefreshInstance, RemoveInstance, SetCaptureRule, leadVars, ruleVars, CaptureInv, CaptureTyped
<1>2. ruleMode' \in {"absent", "observation", "production"} /\ bridged' \in {"none", "observation", "production"}
  BY <1>1 DEF CreateInstance, RefreshInstance, RemoveInstance, SetCaptureRule, EnsuredBridge, RowsTyped
<1>3. instance' \in [there : BOOLEAN, hooked : BOOLEAN]
  <2>1. instance \in [there : BOOLEAN, hooked : BOOLEAN]
    BY <1>1 DEF RowsTyped
  <2>2. CASE UNCHANGED instance
    BY <2>1, <2>2
  <2>3. ASSUME NEW t \in BOOLEAN, NEW k \in BOOLEAN, instance' = [there |-> t, hooked |-> k] PROVE instance' \in [there : BOOLEAN, hooked : BOOLEAN]
    BY <2>3
  <2>4. CASE CreateInstance
    <3>1. PICK a \in ConfigureAnswers : instance' = [there |-> TRUE, hooked |-> (a = "configured")]
      BY <2>4 DEF CreateInstance
    <3> DEFINE k == a = "configured"
    <3>2. k \in BOOLEAN /\ instance' = [there |-> TRUE, hooked |-> k]
      BY <3>1
    <3> HIDE DEF k
    <3> QED
      BY <2>3, <3>2
  <2>5. CASE RemoveInstance
    <3>1. CASE instance' = [there |-> FALSE, hooked |-> FALSE]
      BY <2>3, <3>1
    <3>2. ASSUME NEW a \in DeleteAnswers, instance' = [instance EXCEPT !.hooked = @ /\ a # "deleted"]
          PROVE  instance' \in [there : BOOLEAN, hooked : BOOLEAN]
      <4> DEFINE k == instance.hooked /\ a # "deleted"
      <4>1. k \in BOOLEAN /\ instance' = [instance EXCEPT !.hooked = k]
        BY <3>2
      <4> HIDE DEF k
      <4> QED
        BY <2>1, <4>1
    <3> QED
      BY <2>5, <3>1, <3>2 DEF RemoveInstance
  <2> QED
    BY <2>2, <2>4, <2>5 DEF RefreshInstance, SetCaptureRule
<1>4. RowsTyped'
  BY <1>1, <1>2, <1>3 DEF RowsTyped
<1>5. DecidedOnPaid'
  BY <1>1 DEF CaptureInv, DecidedOnPaid
<1> QED
  BY <1>1, <1>4, <1>5, NoRequestMoves DEF CaptureInv

LEMMA ProductionSteps ==
  ASSUME CaptureInv, NEW m \in Msgs, MaterializeCaptured(m) \/ RecoverDecision(m)
  PROVE  CaptureInv'
<1>1. UNCHANGED <<instance, bridged, ruleMode, logged, captured, event, sendJobs, chatLabels, frozen, hook, mishaps>> /\ RowsTyped
  BY DEF MaterializeCaptured, RecoverDecision, settingVars, leadVars, CaptureInv, CaptureTyped
<1>2. runJobs' \subseteq Msgs
  BY <1>1 DEF MaterializeCaptured, RecoverDecision, RowsTyped
<1>3. PICK x \in RunStates : /\ run' = [run EXCEPT ![m] = x]
                             /\ x \in {"eligible", "materialized"} => captured[MsgContact[m]] = "paid"
  <2>1. CASE MaterializeCaptured(m)
    <3> DEFINE x == IF run[m] = "eligible" THEN "materialized" ELSE run[m]
    <3>1. run' = [run EXCEPT ![m] = x]
      BY <2>1 DEF MaterializeCaptured
    <3>2. x \in RunStates /\ (x \in {"eligible", "materialized"} => run[m] \in {"eligible", "materialized"})
      BY <1>1 DEF RowsTyped, RunStates
    <3>3. run[m] \in {"eligible", "materialized"} => captured[MsgContact[m]] = "paid"
      BY DEF CaptureInv, DecidedOnPaid
    <3> HIDE DEF x
    <3> QED
      BY <3>1, <3>2, <3>3
  <2>2. CASE RecoverDecision(m)
    <3> DEFINE b == bridged = "production"
               x == Persisted(m, Planned(m, ruleMode, b))
    <3>1. run' = [run EXCEPT ![m] = x] /\ b \in BOOLEAN
      BY <2>2 DEF RecoverDecision
    <3>2. frozen[m] # "none" /\ ruleMode \in {"observation", "production"}
      BY <1>1, <2>2 DEF RecoverDecision, RowsTyped
    <3> HIDE DEF b
    <3>3. x \in RunStates /\ (x \in {"eligible", "materialized"} => captured[MsgContact[m]] = "paid")
      BY <3>1, <3>2, PlansOnPaid
    <3> HIDE DEF x
    <3> QED
      BY <3>1, <3>3
  <2> QED
    BY <2>1, <2>2
<1>4. RowsTyped'
  BY <1>1, <1>2, <1>3 DEF RowsTyped
<1>5. DecidedOnPaid'
  BY <1>1, <1>3, RunDecided
<1> QED
  BY <1>1, <1>4, <1>5, NoRequestMoves DEF CaptureInv

LEMMA ScriptSteps ==
  ASSUME CaptureInv, RepairEvents \/ \E m \in Msgs : ReprocessLogged(m)
  PROVE  CaptureInv'
<1>1. /\ UNCHANGED <<instance, bridged, ruleMode, logged, chatLabels, frozen, run, runJobs, hook, mishaps>> /\ RowsTyped
      /\ DecidedOnPaid
  BY DEF RepairEvents, ReprocessLogged, settingVars, ruleVars, CaptureInv, CaptureTyped
<1>2. CASE RepairEvents
  <2> DEFINE kept == {k \in EventKeys : k[2] = "auto" /\ k[3] /\ event[k] # "none"}
  <2>1. /\ event' = [k \in EventKeys |-> IF k \in kept THEN "ready_to_send" ELSE event[k]]
        /\ sendJobs' = sendJobs \cup kept /\ UNCHANGED captured
    BY <1>2 DEF RepairEvents
  <2>2. kept \subseteq EventKeys /\ \A k \in kept : event[k] # "none"
    OBVIOUS
  <2> HIDE DEF kept
  <2>3. RowsTyped'
    BY <1>1, <2>1, <2>2 DEF RowsTyped, EventStates
  <2>4. DecidedOnPaid'
    BY <1>1, <2>1 DEF DecidedOnPaid
  <2> QED
    BY <1>1, <2>1, <2>2, <2>3, <2>4, NoRequestMoves DEF CaptureInv
<1>3. ASSUME NEW m \in Msgs, ReprocessLogged(m) PROVE CaptureInv'
  <2> DEFINE c == MsgContact[m]
             x == UpsertedLead(m)
             k == AutoKey(m)
             v == IF event[k] # "none" THEN event[k] ELSE IF m \in WithAd THEN "ready" ELSE "pending_attribution"
  <2>1. /\ captured' = [captured EXCEPT ![c] = x] /\ event' = [event EXCEPT ![k] = v] /\ UNCHANGED sendJobs
        /\ c \in Chats /\ k \in EventKeys
    BY <1>3, KeysTyped, CaptureAssumption DEF ReprocessLogged
  <2>2. x \in {"noad", "paid"} /\ (captured[c] = "paid" => x = "paid")
    BY LeadNeverLost
  <2>3. v \in EventStates \ {"none"} /\ (v = "ready_to_send" => event[k] = v)
    BY <1>1, <2>1 DEF RowsTyped, EventStates
  <2> HIDE DEF c, x, k, v
  <2>4. /\ captured' \in [Chats -> {"none", "noad", "paid"}]
        /\ \A y \in Chats : (captured[y] # "none" => captured'[y] # "none") /\ (captured[y] = "paid" => captured'[y] = "paid")
    BY <1>1, <2>1, <2>2 DEF RowsTyped
  <2>5. /\ event' \in [EventKeys -> EventStates]
        /\ \A y \in EventKeys : (event[y] # "none" => event'[y] # "none") /\ (event'[y] = "ready_to_send" => event[y] = "ready_to_send")
    BY <1>1, <2>1, <2>3 DEF RowsTyped
  <2>6. RowsTyped'
    BY <1>1, <2>1, <2>4, <2>5 DEF RowsTyped
  <2>7. \A y \in Msgs : MsgContact[y] \in Chats
    BY CaptureAssumption
  <2>8. \A h \in Hooks : hook[h].at # "free" => hook[h].msg \in Msgs
    BY DEF CaptureInv, CaptureTyped, HooksTyped
  <2>9. DecidedOnPaid'
    BY <1>1, <2>4, <2>7, <2>8 DEF DecidedOnPaid
  <2> QED
    BY <1>1, <2>1, <2>4, <2>5, <2>6, <2>9, NoRequestMoves DEF CaptureInv
<1> QED
  BY <1>2, <1>3

-----------------------------------------------------------------------------
LEMMA CaptureStarts == CaptureInit => CaptureInv
<1> SUFFICES ASSUME CaptureInit PROVE CaptureInv
  OBVIOUS
<1>1. IdleHook \in HookRecs /\ IdleHook.at = "free"
  BY DEF IdleHook, HookRecs, Steps, Decisions
<1>2. HooksTyped
  BY <1>1 DEF CaptureInit, HooksTyped
<1>3. RowsTyped
  BY CaptureAssumption DEF CaptureInit, RowsTyped, EventStates, Decisions, RunStates
<1>4. DecidedOnPaid
  BY <1>1 DEF CaptureInit, DecidedOnPaid, Tracked
<1>5. NothingForgotten
  BY DEF CaptureInit, NothingForgotten, SendDue
<1> QED
  BY <1>2, <1>3, <1>4, <1>5 DEF CaptureInv, CaptureTyped

LEMMA CaptureStays == CaptureInv /\ [CaptureNext]_captureVars => CaptureInv'
<1> SUFFICES ASSUME CaptureInv, [CaptureNext]_captureVars PROVE CaptureInv'
  OBVIOUS
<1>1. CASE UNCHANGED captureVars
  <2>1. UNCHANGED <<instance, bridged, ruleMode, logged, captured, event, sendJobs, chatLabels, frozen, run, runJobs, hook, mishaps>>
    BY <1>1 DEF captureVars
  <2>2. RowsTyped' /\ DecidedOnPaid'
    BY <2>1 DEF CaptureInv, CaptureTyped, RowsTyped, DecidedOnPaid
  <2> QED
    BY <2>1, <2>2, NoRequestMoves DEF CaptureInv
<1>2. ASSUME NEW h \in Hooks, HookStep(h) PROVE CaptureInv'
  BY <1>2, LogStep, LabelSteps, EvaluateStep, FreezeStep, OrchestrateStep, QueueStep, LeadStep, EventSteps, SendStep DEF HookStep
<1>3. ASSUME NEW h \in Hooks, EvaluationFails(h) \/ HandlerDies(h) PROVE CaptureInv'
  BY <1>3, FailedEvaluation, DyingStep
<1> QED
  BY <1>1, <1>2, <1>3, ReceiveStep, SettingSteps, ProductionSteps, ScriptSteps DEF CaptureNext

LEMMA CaptureInvIsSafe == CaptureInv => CaptureSafe
<1> SUFFICES ASSUME CaptureInv PROVE CaptureSafe
  OBVIOUS
<1>1. CaptureTypeOK
  <2>1. \A h \in Hooks : hook[h].at \in Steps /\ hook[h].msg \in Msgs \cup {NoMsg}
    BY DEF CaptureInv, CaptureTyped, HooksTyped, HookRecs
  <2> QED
    BY <2>1, Zenon DEF CaptureInv, CaptureTyped, RowsTyped, CaptureTypeOK, KnownLabels, Decisions, RunStates, EventStates
<1>2. EligibleIsPaid
  BY DEF CaptureInv, DecidedOnPaid, EligibleIsPaid
<1>3. CapturedWhole
  <2> SUFFICES ASSUME \A h \in Hooks : hook[h].at \in {"free", "done"}, NEW m \in logged, MakesLead(m)
               PROVE  /\ MsgContact[m] \in ListedLeads(LeadDetail(MsgContact[m]).stage)
                      /\ \A k \in {AutoKey(m)} \cup (IF m \in LegacyMatches THEN {RuleKey(m)} ELSE {}) :
                            event[k] # "none" /\ (event[k] = "ready_to_send" => k \in sendJobs)
    BY DEF CapturedWhole
  <2>1. NothingForgotten /\ m \in Msgs
    BY DEF CaptureInv, LostRequest, CaptureTyped, RowsTyped
  <2>2. \A st \in {BeforeLead, BeforeAuto, BeforeRule, AwaitSend} : "free" \notin st /\ "done" \notin st
    BY DEF BeforeLead, BeforeAuto, BeforeRule, AwaitSend
  <2>3. captured[MsgContact[m]] # "none" /\ event[AutoKey(m)] # "none" /\ (m \in LegacyMatches => event[RuleKey(m)] # "none")
    BY <2>1, <2>2 DEF NothingForgotten, LeadDue, AutoDue, RuleDue, On
  <2>4. \A k \in EventKeys : event[k] = "ready_to_send" => k \in sendJobs
    BY <2>1, <2>2 DEF NothingForgotten, SendDue
  <2>5. AutoKey(m) \in EventKeys /\ RuleKey(m) \in EventKeys /\ MsgContact[m] \in Chats
    BY <2>1, KeysTyped, CaptureAssumption
  <2>6. MsgContact[m] \in ListedLeads(LeadDetail(MsgContact[m]).stage)
    <3> DEFINE c == MsgContact[m]
    <3>1. LeadDetail(c).stage = StageOf(c) /\ c \in Chats
      BY <2>5 DEF LeadDetail
    <3> HIDE DEF c
    <3>2. CASE \E ad \in BOOLEAN : event[<<c, "rule", ad>>] # "none"
      <4>1. StageOf(c) = "QualifiedLead"
        BY <3>2 DEF StageOf
      <4> QED
        BY <2>3, <3>1, <3>2, <4>1 DEF ListedLeads, c
    <3>3. CASE ~ \E ad \in BOOLEAN : event[<<c, "rule", ad>>] # "none"
      <4>1. StageOf(c) = "LeadSubmitted"
        BY <2>3, <3>3 DEF StageOf, c
      <4> QED
        BY <2>3, <3>1, <4>1 DEF ListedLeads, c
    <3> QED
      BY <3>2, <3>3 DEF c
  <2> QED
    BY <2>3, <2>4, <2>5, <2>6
<1> QED
  BY <1>1, <1>2, <1>3 DEF CaptureSafe

(* In every reachable state of the direct path, for any messages, contacts, *)
(* overlapping requests and mishaps: only a paid lead's execution may reach *)
(* Meta, and once every request has ended well no paid message is left      *)
(* without its lead, its events and their jobs (WebhooksController,         *)
(* UazapiProviderConversionService).                                        *)
THEOREM CaptureStaysSafe == CaptureSpec => []CaptureSafe
<1>1. CaptureInit => CaptureInv
  BY CaptureStarts
<1>2. CaptureInv /\ [CaptureNext]_captureVars => CaptureInv'
  BY CaptureStays
<1>3. CaptureInv => CaptureSafe
  BY CaptureInvIsSafe
<1> QED
  BY <1>1, <1>2, <1>3, PTL DEF CaptureSpec

(***************************************************************************)
(* The parsers.  What is stored of a message follows from the message and  *)
(* the connection alone, so that its key finds it again.                   *)
(***************************************************************************)
RowOf(p, w) ==
  CASE p = "umbler" -> UmblerEvent([item |-> [msg |-> w]], w, ClassificationForMessage(w))
    [] p = "gupshup" -> GupshupEvent([msg |-> w])
    [] p = "waha" -> SessionEvent("waha", w, w.id, "no_ctwa_in_waha_payload")
    [] p = "zapi" -> SessionEvent("zapi", w, ZapiMessageId(w), "no_ctwa_in_zapi_payload")

Parseable(p, w) ==
  /\ w \in WrittenMessages
  /\ p # "zapi" => w.id # NoId
  /\ p = "gupshup" => w.author = "contact"
  /\ p \in {"waha", "zapi"} => ~w.group

HasRow(rows, p, w) == \E r \in rows : r.key = RowOf(p, w).key

ParserRows(p, rows) ==
  /\ \A r \in rows : Parseable(p, r.written) /\ r = RowOf(p, r.written)
  /\ \A r1, r2 \in rows : r1.key = r2.key => r1 = r2

IntactInv == \A w \in intact : Parseable(provider, w) /\ HasRow(eventRows, provider, w)

DirectInv ==
  direct.body = NoReading \/ (direct.body \in DirectBodies /\ direct.read = ParseUazapiWebhook(direct.body))

ParserInv ==
  /\ provider \in Providers \cup {"uazapi"} /\ parsers \subseteq Providers /\ appId \in BOOLEAN
  /\ IsFiniteSet(ingress) /\ Cardinality(ingress) <= MaxBodies
  /\ provider = "uazapi" => eventRows = {} /\ intact = {}
  /\ provider # "uazapi" => ParserRows(provider, eventRows) /\ IntactInv
  /\ reading = NoReading \/ (reading.body \in Bodies /\ provider # "uazapi")
  /\ BatchIsWhole
  /\ DirectInv

(* A row says which message it is of, by a key that tells messages apart.   *)
LEMMA RowFields ==
  ASSUME NEW p \in Providers, NEW w \in WrittenMessages
  PROVE  /\ RowOf(p, w).written = w
         /\ RowOf(p, w).key = CASE p = "umbler" -> <<"umbler", "organization", "channel", w.id>>
                                [] p = "gupshup" -> <<"gupshup", IF appId THEN "application" ELSE "entry", "phone_number", w.id>>
                                [] p = "waha" -> <<"waha", "session", "session", w.id>>
                                [] p = "zapi" -> <<"zapi", "session", "session", ZapiMessageId(w)>>
<1>1. CASE p = "umbler"
  BY <1>1 DEF RowOf, UmblerEvent, ParsedEvent, UmblerKey, DedupeKey
<1>2. CASE p = "gupshup"
  BY <1>2 DEF RowOf, GupshupEvent, ParsedEvent, DedupeKey
<1>3. CASE p = "waha"
  BY <1>3 DEF RowOf, SessionEvent, ParsedEvent, DedupeKey
<1>4. CASE p = "zapi"
  BY <1>4 DEF RowOf, SessionEvent, ParsedEvent, DedupeKey
<1> QED BY <1>1, <1>2, <1>3, <1>4 DEF Providers

LEMMA SameKey ==
  ASSUME NEW p \in Providers, NEW v, NEW w, Parseable(p, v), Parseable(p, w), RowOf(p, v).key = RowOf(p, w).key
  PROVE  v = w \/ TwinOf(w, v)
<1>0. v \in WrittenMessages /\ w \in WrittenMessages
  BY DEF Parseable
<1>1. CASE p # "zapi"
  <2>1. v.id = w.id
    BY <1>0, <1>1, RowFields DEF Providers
  <2>2. w.id # NoId
    BY <1>1 DEF Parseable
  <2> QED BY <1>0, <2>1, <2>2, ParserAssumption
<1>2. CASE p = "zapi"
  <2>1. ZapiMessageId(v) = ZapiMessageId(w)
    BY <1>0, <1>2, RowFields DEF Providers
  <2>2. CASE v.id # NoId
    BY <1>0, <2>1, <2>2, ParserAssumption DEF ZapiMessageId, FallbackMessageId
  <2>3. CASE v.id = NoId
    BY <2>1, <2>3 DEF ZapiMessageId, FallbackMessageId, TwinOf
  <2> QED BY <2>2, <2>3
<1> QED BY <1>1, <1>2

LEMMA TwinsShareKey ==
  ASSUME NEW p \in Providers, NEW v, NEW w, Parseable(p, v), Parseable(p, w), TwinOf(v, w)
  PROVE  RowOf(p, v).key = RowOf(p, w).key
<1>1. p = "zapi" /\ v \in WrittenMessages /\ w \in WrittenMessages
  BY DEF Parseable, TwinOf
<1>2. ZapiMessageId(v) = ZapiMessageId(w)
  BY DEF ZapiMessageId, FallbackMessageId, TwinOf
<1> QED BY <1>1, <1>2, RowFields DEF Providers

(* createMany keeps the rows, adds one per new key, and leaves no key out.  *)
LEMMA FirstOfKey ==
  ASSUME NEW S, S \subseteq Nat, S # {}
  PROVE  \E k \in S : \A j \in S : k =< j
<1>1. PICK k \in S : \A j \in S : ~(<<j, k>> \in OpToRel(<, Nat))
  BY WFMin, NatLessThanWellFounded, Zenon
<1>2. \A j \in S : ~(j < k)
  BY <1>1 DEF OpToRel
<1> QED BY <1>2

LEMMA CreateManyRows ==
  ASSUME NEW p, NEW rows, NEW T, NEW events \in Seq(T), ParserRows(p, rows),
         \A j \in DOMAIN events : Parseable(p, events[j].written) /\ events[j] = RowOf(p, events[j].written)
  PROVE  /\ ParserRows(p, CreateMany(rows, events))
         /\ rows \subseteq CreateMany(rows, events)
         /\ \A j \in DOMAIN events : \E r \in CreateMany(rows, events) : r.key = events[j].key
<1> DEFINE New(j) == /\ \A r \in rows : r.key # events[j].key
                     /\ \A k \in 1..(j - 1) : events[k].key # events[j].key
<1>0. DOMAIN events = 1..Len(events) /\ Len(events) \in Nat
  OBVIOUS
<1>1. \A r : r \in CreateMany(rows, events) <=> r \in rows \/ \E j \in DOMAIN events : New(j) /\ r = events[j]
  BY DEF CreateMany
<1> HIDE DEF New
<1>2. \A r \in CreateMany(rows, events) : Parseable(p, r.written) /\ r = RowOf(p, r.written)
  BY <1>1 DEF ParserRows
<1>3. ASSUME NEW i \in DOMAIN events, NEW j \in DOMAIN events, New(i), New(j), events[i].key = events[j].key
      PROVE  i = j
  <2>1. CASE i < j
    BY <1>0, <1>3, <2>1 DEF New
  <2>2. CASE j < i
    BY <1>0, <1>3, <2>2 DEF New
  <2> QED BY <1>0, <2>1, <2>2
<1>4. ASSUME NEW r1 \in CreateMany(rows, events), NEW r2 \in CreateMany(rows, events), r1.key = r2.key
      PROVE  r1 = r2
  <2>1. CASE r1 \in rows /\ r2 \in rows
    BY <1>4, <2>1 DEF ParserRows
  <2>2. CASE r1 \notin rows
    <3>1. PICK i \in DOMAIN events : New(i) /\ r1 = events[i]
      BY <1>1, <2>2
    <3>2. r2 \notin rows
      BY <1>4, <3>1 DEF New
    <3>3. PICK j \in DOMAIN events : New(j) /\ r2 = events[j]
      BY <1>1, <3>2
    <3> QED BY <1>3, <1>4, <3>1, <3>3
  <2>3. CASE r2 \notin rows
    <3>1. PICK i \in DOMAIN events : New(i) /\ r2 = events[i]
      BY <1>1, <2>3
    <3>2. r1 \notin rows
      BY <1>4, <3>1 DEF New
    <3>3. PICK j \in DOMAIN events : New(j) /\ r1 = events[j]
      BY <1>1, <3>2
    <3> QED BY <1>3, <1>4, <3>1, <3>3
  <2> QED BY <2>1, <2>2, <2>3
<1>5. ASSUME NEW j \in DOMAIN events
      PROVE  \E r \in CreateMany(rows, events) : r.key = events[j].key
  <2>1. CASE \E r \in rows : r.key = events[j].key
    BY <1>1, <2>1
  <2>2. CASE \A r \in rows : r.key # events[j].key
    <3> DEFINE S == {i \in DOMAIN events : events[i].key = events[j].key}
    <3>1. S \subseteq Nat /\ S # {}
      BY <1>0, <1>5
    <3>2. PICK k \in S : \A i \in S : k <= i
      BY <3>1, FirstOfKey, Zenon
    <3>3. k \in DOMAIN events /\ events[k].key = events[j].key
      BY <3>2
    <3>4. \A i \in 1..(k - 1) : events[i].key # events[k].key
      BY <1>0, <3>2, <3>3
    <3>5. New(k)
      BY <2>2, <3>3, <3>4 DEF New
    <3> QED BY <1>1, <3>3, <3>5
  <2> QED BY <2>1, <2>2
<1>6. rows \subseteq CreateMany(rows, events)
  BY <1>1
<1> QED BY <1>2, <1>4, <1>5, <1>6 DEF ParserRows

(* What each parser returns: nothing, or the rows of its messages.          *)
Returns(x, events) ==
  /\ \E T : events \in Seq(T)
  /\ \A j \in DOMAIN events : \E w \in MessagesIn(x) : Parseable(x.provider, w) /\ events[j] = RowOf(x.provider, w)
  /\ FlawlessBody(x) \/ (x.provider = "gupshup" /\ events # <<>>) =>
       \A w \in MessagesIn(x) : \E j \in DOMAIN events : events[j] = RowOf(x.provider, w)

LEMMA NoEvents ==
  ASSUME NEW x, ~FlawlessBody(x) \/ MessagesIn(x) = {}
  PROVE  Returns(x, <<>>)
<1>1. <<>> \in Seq({}) /\ DOMAIN <<>> = {}
  OBVIOUS
<1> QED BY <1>1 DEF Returns

LEMMA OneEvent ==
  ASSUME NEW x, x.provider # "gupshup", Parseable(x.provider, x.item.msg)
  PROVE  Returns(x, <<RowOf(x.provider, x.item.msg)>>)
<1> DEFINE r == RowOf(x.provider, x.item.msg)
<1>1. <<r>> \in Seq({r}) /\ DOMAIN <<r>> = {1} /\ <<r>>[1] = r
  OBVIOUS
<1>2. MessagesIn(x) = {x.item.msg}
  BY DEF MessagesIn
<1> QED BY <1>1, <1>2 DEF Returns

LEMMA FlawlessFields ==
  ASSUME NEW x, x.flaw = NoFlaw, NEW required, NEW optional
  PROVE  Complete(x, required, optional)
BY DEF NoFlaw, Complete, BoundedString, OptionalString, FieldOf

LEMMA UmblerReturns ==
  ASSUME NEW x \in Bodies, x.provider = "umbler"
  PROVE  Returns(x, ParseUmbler(x).events)
<1> DEFINE w == x.item.msg
           header == Complete(x, {"envelope", "type", "deliveryId"}, {})
           typed == Complete(x, {"envelope", "type", "deliveryId", "payload", "payloadType"}, {})
           whole == Complete(x, {"envelope", "type", "deliveryId", "payload", "payloadType", "content", "organization",
                                 "channel", "connectedPhone", "contact", "contactPhone", "messageId", "source", "isPrivate"},
                             {"channelName", "contactName", "messageType", "text", "ad"})
<1>1. Parseable(x.provider, w)
  BY ParserAssumption DEF MessagesIn, Parseable
<1>2. OneEventResult(UmblerEvent(x, w, ClassificationForMessage(w))).events = <<RowOf("umbler", w)>>
  BY DEF OneEventResult, RowOf, UmblerEvent, UmblerKey
<1>3. InvalidPayload.events = <<>> /\ \A reason : Unsupported(reason).events = <<>>
  BY DEF InvalidPayload, Unsupported, EmptyParse
<1>4. FlawlessBody(x) => header /\ typed /\ whole /\ x.event = "message" /\ x.kind = "chat" /\ UmblerTimestamp(x)
  <2>1. FlawlessBody(x) => x.flaw = NoFlaw /\ x.event = "message" /\ x.kind = "chat"
    BY DEF FlawlessBody
  <2>2. x.flaw = NoFlaw => UmblerTimestamp(x)
    BY DEF UmblerTimestamp, NoFlaw, BoundedString, FieldOf
  <2> QED BY <2>1, <2>2, FlawlessFields
<1>5. whole => header
  BY DEF Complete
<1>6. ParseUmbler(x).events = <<RowOf("umbler", w)>> \/ (ParseUmbler(x).events = <<>> /\ ~FlawlessBody(x))
  <2> HIDE DEF header, typed, whole
  <2>1. ParseUmbler(x) =
          CASE ~header -> InvalidPayload
            [] header /\ x.event # "message" -> Unsupported("event_type_unsupported")
            [] x.event = "message" /\ x.kind # "chat" /\ typed -> Unsupported("payload_type_unsupported")
            [] x.event = "message" /\ x.kind = "chat" /\ UmblerTimestamp(x) /\ whole ->
                 OneEventResult(UmblerEvent(x, w, ClassificationForMessage(w)))
            [] OTHER -> InvalidPayload
    BY DEF ParseUmbler, header, typed, whole
  <2> QED BY <1>2, <1>3, <1>4, <1>5, <2>1
<1> QED BY <1>1, <1>6, NoEvents, OneEvent

LEMMA SessionReturns ==
  ASSUME NEW x \in Bodies, x.provider \in {"waha", "zapi"}
  PROVE  Returns(x, Parse(x).events)
<1> DEFINE w == x.item.msg
           p == x.provider
           one == OneEventResult(RowOf(p, w))
<1>1. ~w.group => Parseable(p, w)
  BY ParserAssumption DEF MessagesIn, Parseable
<1>2. one.events = <<RowOf(p, w)>>
  BY DEF OneEventResult
<1>3. InvalidPayload.events = <<>> /\ \A reason : Unsupported(reason).events = <<>>
  BY DEF InvalidPayload, Unsupported, EmptyParse
<1>4. FlawlessBody(x) => x.flaw = NoFlaw /\ x.event = "message" /\ ~w.group
  BY DEF FlawlessBody
<1>5. (Parse(x).events = <<RowOf(p, w)>> /\ ~w.group) \/ (Parse(x).events = <<>> /\ ~FlawlessBody(x))
  <2>1. CASE p = "waha"
    <3> DEFINE header == Complete(x, {"envelope", "type", "session", "payload"}, {})
               whole == Complete(x, {"envelope", "type", "session", "payload", "contactPhone", "connectedPhone", "messageId",
                                     "eventAt", "fromMe"}, {"messageType", "text", "ad"})
    <3>1. FlawlessBody(x) => header /\ whole
      BY <1>4, FlawlessFields
    <3>2. whole => header
      BY DEF Complete
    <3>3. one = OneEventResult(SessionEvent("waha", w, w.id, "no_ctwa_in_waha_payload"))
      BY <2>1 DEF RowOf
    <3> HIDE DEF header, whole, one
    <3>4. Parse(x) =
            CASE ~header -> InvalidPayload
              [] header /\ x.event # "message" -> Unsupported("event_type_unsupported")
              [] x.event = "message" /\ whole -> IF w.group THEN Unsupported("group_messages_not_supported_in_v1") ELSE one
              [] OTHER -> InvalidPayload
      BY <2>1, <3>3 DEF Parse, ParseWaha, header, whole
    <3> QED BY <1>2, <1>3, <1>4, <3>1, <3>2, <3>4
  <2>2. CASE p = "zapi"
    <3> DEFINE whole == Complete(x, {"envelope", "session", "connectedPhone", "contactPhone", "eventAt", "fromMe"},
                                 {"text", "ad", "messageId"})
    <3>1. FlawlessBody(x) => whole
      BY <1>4, FlawlessFields
    <3>2. one = OneEventResult(SessionEvent("zapi", w, ZapiMessageId(w), "no_ctwa_in_zapi_payload"))
      BY <2>2 DEF RowOf
    <3> HIDE DEF whole, one
    <3>3. Parse(x) =
            CASE ~whole -> InvalidPayload
              [] whole /\ w.group -> Unsupported("group_not_supported_v1")
              [] OTHER -> one
      BY <2>2, <3>2 DEF Parse, ParseZapi, whole
    <3> QED BY <1>2, <1>3, <1>4, <3>1, <3>3
  <2> QED BY <2>1, <2>2
<1> QED BY <1>1, <1>5, NoEvents, OneEvent

(* A change that can be read gives the rows of its messages in their order. *)
LEMMA ChangeEvents ==
  ASSUME NEW x \in Bodies, x.provider = "gupshup", NEW i \in DOMAIN x.changes, ~InvalidChange(x.changes[i])
  PROVE  LET c == x.changes[i] IN
         /\ GupshupEvents(c) \in Seq({RowOf("gupshup", w) : w \in MessagesIn(x)})
         /\ c.field = "messages" =>
              /\ DOMAIN GupshupEvents(c) = DOMAIN c.items
              /\ \A j \in DOMAIN c.items : GupshupEvents(c)[j] = RowOf("gupshup", c.items[j].msg)
<1> DEFINE c == x.changes[i]
           T == {RowOf("gupshup", w) : w \in MessagesIn(x)}
<1>1. \A it : GupshupEvent(it) = RowOf("gupshup", it.msg)
  BY DEF GupshupEvent, RowOf
<1>2. CASE c.field = "messages"
  <2>1. MessagesOf(c) = c.items
    BY <1>2 DEF InvalidChange, MessagesOf
  <2>2. \A j \in DOMAIN c.items : c.items[j].msg \in MessagesIn(x)
    BY <1>2 DEF MessagesIn
  <2>3. GupshupEvents(c) = [j \in DOMAIN c.items |-> RowOf("gupshup", c.items[j].msg)]
    BY <1>1, <2>1 DEF GupshupEvents
  <2>4. DOMAIN c.items = 1..Len(c.items) /\ Len(c.items) \in Nat
    BY ParserAssumption DEF IsList
  <2>5. \A j \in 1..Len(c.items) : RowOf("gupshup", c.items[j].msg) \in T
    BY <2>2, <2>4
  <2> HIDE DEF T, c
  <2>6. GupshupEvents(c) \in Seq(T)
    BY <2>3, <2>4, <2>5
  <2> QED BY <2>3, <2>6 DEF c, T
<1>3. CASE c.field # "messages"
  <2>1. MessagesOf(c) = <<>>
    BY <1>3 DEF MessagesOf
  <2>2. GupshupEvents(c) = <<>>
    BY <2>1 DEF GupshupEvents
  <2> QED BY <1>3, <2>2
<1> QED BY <1>2, <1>3

LEMMA GupshupReturns ==
  ASSUME NEW x \in Bodies, x.provider = "gupshup"
  PROVE  Returns(x, ParseGupshup(x).events)
<1> DEFINE header == Complete(x, {"envelope", "object"}, {})
           broken == \E i \in DOMAIN x.changes : InvalidChange(x.changes[i])
           silent == \A i \in DOMAIN x.changes : ~InvalidChange(x.changes[i]) /\ GupshupEvents(x.changes[i]) = <<>>
           T == {RowOf("gupshup", w) : w \in MessagesIn(x)}
<1>1. InvalidPayload.events = <<>> /\ \A reason : Unsupported(reason).events = <<>>
  BY DEF InvalidPayload, Unsupported, EmptyParse
<1>2. FlawlessBody(x) => header /\ ~broken
  <2> SUFFICES ASSUME FlawlessBody(x) PROVE header /\ ~broken
    OBVIOUS
  <2>1. header
    BY FlawlessFields DEF FlawlessBody
  <2>2. ASSUME NEW i \in DOMAIN x.changes PROVE ~InvalidChange(x.changes[i])
    <3> DEFINE c == x.changes[i]
    <3>1. c.flaw = NoFlaw /\ \A j \in DOMAIN c.items : c.items[j].flaw = NoFlaw
      BY DEF FlawlessBody
    <3>2. ChangeRead(c) /\ Complete(c, {"value", "channel", "connectedPhone"}, {})
      BY <3>1, FlawlessFields DEF ChangeRead
    <3>3. \A j \in DOMAIN c.items : GupshupMessageParsed(c.items[j])
      BY <3>1, FlawlessFields DEF GupshupMessageParsed
    <3>4. MessagesOf(c) = c.items \/ MessagesOf(c) = <<>>
      BY DEF MessagesOf
    <3> QED BY <3>2, <3>3, <3>4 DEF InvalidChange
  <2> QED BY <2>1, <2>2
<1>3. x.changes = <<>> => MessagesIn(x) = {}
  BY DEF MessagesIn
<1>4. silent => MessagesIn(x) = {}
  <2>1. ASSUME silent, NEW i \in DOMAIN x.changes, x.changes[i].field = "messages" PROVE DOMAIN x.changes[i].items = {}
    <3>1. ~InvalidChange(x.changes[i]) /\ GupshupEvents(x.changes[i]) = <<>>
      BY <2>1
    <3>2. DOMAIN GupshupEvents(x.changes[i]) = DOMAIN x.changes[i].items
      BY <2>1, <3>1, ChangeEvents
    <3> QED BY <3>1, <3>2
  <2> QED BY <2>1 DEF MessagesIn
<1>5. DOMAIN x.changes = 1..Len(x.changes) /\ Len(x.changes) \in 0..2 /\ (x.changes = <<>> <=> Len(x.changes) = 0)
  <2>1. IsList(x.changes) /\ Len(x.changes) <= 2
    BY ParserAssumption
  <2>2. PICK S : x.changes \in Seq(S)
    BY <2>1 DEF IsList
  <2>3. DOMAIN x.changes = 1..Len(x.changes) /\ Len(x.changes) \in Nat
    BY <2>2
  <2>4. x.changes = <<>> <=> Len(x.changes) = 0
    BY <2>2, EmptySeq
  <2>5. Len(x.changes) \in 0..2
    <3> DEFINE n == Len(x.changes)
    <3>1. n \in Nat /\ n <= 2
      BY <2>1, <2>3
    <3> HIDE DEF n
    <3>2. n \in 0..2
      BY <3>1
    <3> QED BY <3>2 DEF n
  <2> QED BY <2>3, <2>4, <2>5
<1>6. ASSUME x.changes # <<>>, ~broken
      PROVE  Returns(x, AllEvents(x.changes))
  <2> DEFINE E(i) == GupshupEvents(x.changes[i])
             A == AllEvents(x.changes)
  <2>1. \A i \in DOMAIN x.changes : E(i) \in Seq(T)
    BY <1>6, ChangeEvents
  <2>2. A \in Seq(T) /\ \A i \in DOMAIN x.changes : \A j \in DOMAIN E(i) : \E k \in DOMAIN A : A[k] = E(i)[j]
    <3> HIDE DEF T, E
    <3>1. CASE Len(x.changes) = 1
      BY <1>5, <2>1, <3>1 DEF AllEvents, E
    <3>2. CASE Len(x.changes) = 2
      <4>1. A = E(1) \o E(2) /\ DOMAIN x.changes = {1, 2}
        BY <1>5, <3>2 DEF AllEvents, E
      <4>2. E(1) \in Seq(T) /\ E(2) \in Seq(T)
        BY <2>1, <4>1
      <4>3. A \in Seq(T) /\ Len(A) = Len(E(1)) + Len(E(2))
        BY <4>1, <4>2, ConcatProperties
      <4>4. \A j \in DOMAIN E(1) : j \in DOMAIN A /\ A[j] = E(1)[j]
        BY <4>1, <4>2, <4>3, ConcatProperties
      <4>5. \A j \in DOMAIN E(2) : Len(E(1)) + j \in DOMAIN A /\ A[Len(E(1)) + j] = E(2)[j]
        BY <4>1, <4>2, <4>3, ConcatProperties
      <4> QED BY <4>1, <4>3, <4>4, <4>5
    <3> QED BY <1>5, <1>6, <3>1, <3>2
  <2>3. ASSUME NEW w \in MessagesIn(x)
        PROVE  \E k \in DOMAIN A : A[k] = RowOf("gupshup", w)
    <3>1. PICK i \in DOMAIN x.changes : x.changes[i].field = "messages" /\ \E j \in DOMAIN x.changes[i].items : w = x.changes[i].items[j].msg
      BY <2>3 DEF MessagesIn
    <3>2. PICK j \in DOMAIN x.changes[i].items : w = x.changes[i].items[j].msg
      BY <3>1
    <3>3. j \in DOMAIN E(i) /\ E(i)[j] = RowOf("gupshup", w)
      BY <1>6, <3>1, <3>2, ChangeEvents
    <3> QED BY <2>2, <3>3
  <2>4. \A w \in MessagesIn(x) : Parseable("gupshup", w)
    BY ParserAssumption DEF Parseable
  <2>5. \A k \in DOMAIN A : A[k] \in T
    BY <2>2
  <2> QED BY <2>2, <2>3, <2>4, <2>5 DEF Returns
<1>7. \A events : BatchResult(events).events = events
  BY DEF BatchResult
<1>8. ParseGupshup(x) =
        CASE ~header -> Unsupported("gupshup_observation_only")
          [] header /\ (x.changes = <<>> \/ broken) -> InvalidPayload
          [] header /\ x.changes # <<>> /\ silent -> Unsupported("message_event_not_found")
          [] OTHER -> BatchResult(AllEvents(x.changes))
  BY DEF ParseGupshup
<1> HIDE DEF header, broken, silent
<1>9. CASE ~header \/ x.changes = <<>> \/ broken \/ silent
  <2>1. ParseGupshup(x).events = <<>>
    <3>1. silent => ~broken
      BY DEF silent, broken
    <3> QED BY <1>1, <1>8, <1>9, <3>1
  <2> QED BY <1>2, <1>3, <1>4, <1>9, <2>1, NoEvents
<1>10. CASE header /\ x.changes # <<>> /\ ~broken /\ ~silent
  BY <1>6, <1>7, <1>8, <1>10
<1> QED BY <1>9, <1>10

LEMMA ParseReturns ==
  ASSUME NEW x \in Bodies, x.provider \in Providers
  PROVE  Returns(x, Parse(x).events)
<1>1. x.provider = "umbler" => Parse(x) = ParseUmbler(x)
  BY DEF Parse
<1>2. x.provider = "gupshup" => Parse(x) = ParseGupshup(x)
  BY DEF Parse
<1> QED BY <1>1, <1>2, UmblerReturns, GupshupReturns, SessionReturns DEF Providers

LEMMA ParserInvInit ==
  ASSUME ParsersInit
  PROVE  ParserInv
<1>1. IsFiniteSet(ingress) /\ Cardinality(ingress) <= MaxBodies
  BY FS_EmptySet, ParserAssumption DEF ParsersInit
<1>2. DefaultParsers \subseteq Providers
  BY DEF DefaultParsers, Providers
<1> QED BY <1>1, <1>2 DEF ParsersInit, ParserInv, ParserRows, IntactInv, BatchIsWhole, DirectInv

LEMMA AcceptOneMore ==
  ASSUME IsFiniteSet(ingress), Cardinality(ingress) < MaxBodies, NEW k, k \notin ingress
  PROVE  IsFiniteSet(ingress \cup {k}) /\ Cardinality(ingress \cup {k}) <= MaxBodies
<1>1. Cardinality(ingress) \in Nat
  BY FS_CardinalityType
<1>2. IsFiniteSet(ingress \cup {k}) /\ Cardinality(ingress \cup {k}) = Cardinality(ingress) + 1
  BY FS_AddElement
<1> QED BY <1>1, <1>2, ParserAssumption

LEMMA RowsAfterParse ==
  ASSUME NEW x \in Bodies, x.provider \in Providers, NEW rows, ParserRows(x.provider, rows)
  PROVE  LET all == CreateMany(rows, Parse(x).events) IN
         /\ ParserRows(x.provider, all)
         /\ rows \subseteq all
         /\ FlawlessBody(x) \/ (x.provider = "gupshup" /\ Parse(x).events # <<>>) =>
              \A w \in MessagesIn(x) : Parseable(x.provider, w) /\ HasRow(all, x.provider, w)
<1> DEFINE p == x.provider
           events == Parse(x).events
           all == CreateMany(rows, events)
<1>1. Returns(x, events)
  BY ParseReturns
<1> HIDE DEF events
<1>2. PICK T : events \in Seq(T)
  BY <1>1 DEF Returns
<1>3. \A j \in DOMAIN events : Parseable(p, events[j].written) /\ events[j] = RowOf(p, events[j].written)
  <2>1. \A j \in DOMAIN events : \E w \in MessagesIn(x) : Parseable(p, w) /\ events[j] = RowOf(p, w)
    BY <1>1 DEF Returns
  <2>2. \A w : Parseable(p, w) => RowOf(p, w).written = w
    BY RowFields DEF Parseable
  <2> QED BY <2>1, <2>2
<1>4. /\ ParserRows(p, all) /\ rows \subseteq all
      /\ \A j \in DOMAIN events : \E r \in all : r.key = events[j].key
  BY <1>2, <1>3, CreateManyRows
<1>5. ASSUME FlawlessBody(x) \/ (p = "gupshup" /\ events # <<>>), NEW w \in MessagesIn(x)
      PROVE  Parseable(p, w) /\ HasRow(all, p, w)
  <2>1. PICK j \in DOMAIN events : events[j] = RowOf(p, w)
    BY <1>1, <1>5 DEF Returns
  <2>2. w \in WrittenMessages
    BY <1>5, ParserAssumption
  <2>3. RowOf(p, w).written = w
    BY <2>2, RowFields
  <2>4. Parseable(p, w)
    BY <1>3, <2>1, <2>3, Zenon
  <2>5. HasRow(all, p, w)
    BY <1>4, <2>1 DEF HasRow
  <2> QED BY <2>4, <2>5
<1> QED BY <1>4, <1>5 DEF events

LEMMA ReceiveBodyInv ==
  ASSUME ParserInv, Cardinality(ingress) < MaxBodies, NEW x \in Bodies, ReceiveBody(x)
  PROVE  ParserInv'
<1>1. UNCHANGED <<provider, parsers, appId, direct>> /\ x.provider = provider
  BY DEF ReceiveBody
<1>2. \A p, w : RowOf(p, w)' = RowOf(p, w)
  BY <1>1 DEF RowOf, GupshupEvent
<1>3. IsFiniteSet(ingress') /\ Cardinality(ingress') <= MaxBodies
  BY AcceptOneMore DEF ReceiveBody, ParserInv
<1>4. DirectInv'
  BY <1>1 DEF ParserInv, DirectInv
<1>5. CASE x.provider \notin parsers
  <2>1. UNCHANGED <<eventRows, reading, intact>>
    BY <1>5 DEF ReceiveBody
  <2> QED BY <1>1, <1>2, <1>3, <1>4, <2>1 DEF ParserInv, ParserRows, IntactInv, HasRow, BatchIsWhole
<1>6. CASE x.provider \in parsers
  <2> DEFINE all == CreateMany(eventRows, Parse(x).events)
  <2>1. /\ eventRows' = all /\ reading' = [body |-> x, result |-> Parse(x)]
        /\ intact' = IF FlawlessBody(x) THEN intact \cup MessagesIn(x) ELSE intact
    BY <1>6 DEF ReceiveBody, StoreParsed
  <2>2. x.provider \in Providers /\ provider # "uazapi"
    BY <1>1, <1>6 DEF ParserInv, Providers
  <2>3. ParserRows(provider, eventRows) /\ IntactInv
    BY <2>2 DEF ParserInv
  <2>4. /\ ParserRows(provider, all) /\ eventRows \subseteq all
        /\ FlawlessBody(x) \/ (provider = "gupshup" /\ Parse(x).events # <<>>) =>
             \A w \in MessagesIn(x) : Parseable(provider, w) /\ HasRow(all, provider, w)
    BY <1>1, <2>2, <2>3, RowsAfterParse
  <2> HIDE DEF all
  <2>5. ParserRows(provider, eventRows)'
    BY <1>1, <1>2, <2>1, <2>4 DEF ParserRows
  <2>6. IntactInv'
    <3>1. \A w \in intact' : Parseable(provider, w) /\ HasRow(all, provider, w)
      BY <2>1, <2>3, <2>4 DEF IntactInv, HasRow
    <3> QED BY <1>1, <1>2, <2>1, <3>1 DEF IntactInv, HasRow
  <2>7. ASSUME provider = "gupshup", Parse(x).events # <<>>, NEW w \in MessagesIn(x)
        PROVE  \E r \in all : r.written = w
    <3>1. PICK r \in all : r.key = RowOf(provider, w).key
      BY <2>4, <2>7 DEF HasRow
    <3>2. Parseable(provider, w) /\ Parseable(provider, r.written) /\ r = RowOf(provider, r.written)
      BY <2>4, <2>7, <3>1 DEF ParserRows
    <3>3. r.written = w \/ TwinOf(w, r.written)
      BY <1>1, <2>2, <3>1, <3>2, SameKey
    <3> QED BY <2>7, <3>1, <3>2, <3>3 DEF TwinOf, Parseable
  <2>8. BatchIsWhole'
    BY <1>1, <2>1, <2>7 DEF BatchIsWhole
  <2> QED BY <1>1, <1>3, <1>4, <2>1, <2>2, <2>5, <2>6, <2>8 DEF ParserInv
<1> QED BY <1>5, <1>6

LEMMA ParserInvStep ==
  ASSUME ParserInv, [ParsersNext]_parserVars
  PROVE  ParserInv'
<1>1. CASE \E x \in Bodies : Cardinality(ingress) < MaxBodies /\ ReceiveBody(x)
  BY <1>1, ReceiveBodyInv
<1>2. CASE UNCHANGED <<provider, parsers, appId, ingress, eventRows, intact, reading>> /\ DirectInv'
  <2>1. \A p, w : RowOf(p, w)' = RowOf(p, w)
    BY <1>2 DEF RowOf, GupshupEvent
  <2> QED BY <1>2, <2>1 DEF ParserInv, ParserRows, IntactInv, HasRow, BatchIsWhole
<1>3. CASE \E b \in DirectBodies : ReadDirect(b)
  BY <1>2, <1>3 DEF ReadDirect, DirectInv
<1>4. CASE UNCHANGED parserVars
  BY <1>2, <1>4 DEF parserVars, ParserInv, DirectInv
<1> QED BY <1>1, <1>3, <1>4 DEF ParsersNext

(* The first of the sources that have the value is one of them. *)
LEMMA ClickFirst ==
  ASSUME NEW b
  PROVE  ParseUazapiWebhook(b).clid = 0 <=>
           \A c \in {b.body, b.adReply} \cup {b.referrals[i] : i \in 1..3} : ~(c.there /\ c.clid)
<1> DEFINE s == ClickSources(b)
           have == {i \in DOMAIN s : s[i].there /\ s[i]["clid"]}
<1>1. DOMAIN s = 1..5 /\ s[1] = b.body /\ s[2] = b.referrals[1] /\ s[3] = b.referrals[2] /\ s[4] = b.referrals[3] /\ s[5] = b.adReply
  BY DEF ClickSources
<1>2. have = {} <=> \A c \in {b.body, b.adReply} \cup {b.referrals[i] : i \in 1..3} : ~(c.there /\ c.clid)
  <2>1. 1..3 = {1, 2, 3} /\ 1..5 = {1, 2, 3, 4, 5}
    OBVIOUS
  <2> HIDE DEF s
  <2> QED BY <1>1, <2>1
<1>3. have # {} => \E i \in have : \A j \in have : i <= j
  <2>1. have \subseteq Nat
    BY <1>1
  <2> HIDE DEF have
  <2> QED BY <2>1, FirstOfKey, Zenon
<1>4. ParseUazapiWebhook(b).clid = IF have = {} THEN 0 ELSE CHOOSE i \in have : \A j \in have : i <= j
  BY DEF ParseUazapiWebhook, FirstWith
<1>5. have # {} => (CHOOSE i \in have : \A j \in have : i <= j) \in have
  BY <1>3
<1>6. 0 \notin have
  BY <1>1
<1> HIDE DEF have
<1> QED BY <1>2, <1>4, <1>5, <1>6

LEMMA ParserInvSafe ==
  ASSUME ParserInv
  PROVE  ParsersSafe
<1>0. ASSUME NEW w \in WrittenMessages
      PROVE  w.private \in BOOLEAN /\ w.group \in BOOLEAN /\ w.clid \in BOOLEAN
  BY <1>0, ParserAssumption
<1>1. eventRows # {} \/ intact # {} => provider \in Providers /\ ParserRows(provider, eventRows) /\ IntactInv
  BY DEF ParserInv
<1>2. OneRowPerMessage
  <2> SUFFICES ASSUME NEW r1 \in eventRows, NEW r2 \in eventRows, r1.written = r2.written \/ TwinOf(r1.written, r2.written)
               PROVE  r1 = r2
    BY DEF OneRowPerMessage
  <2>1. /\ Parseable(provider, r1.written) /\ r1 = RowOf(provider, r1.written)
        /\ Parseable(provider, r2.written) /\ r2 = RowOf(provider, r2.written)
        /\ r1.key = r2.key => r1 = r2
    BY <1>1 DEF ParserRows
  <2>2. r1.key = r2.key
    BY <1>1, <2>1, TwinsShareKey
  <2> QED BY <2>1, <2>2
<1>3. IntactHasRow
  <2> SUFFICES ASSUME NEW w \in intact PROVE \E r \in eventRows : r.written = w \/ TwinOf(w, r.written)
    BY DEF IntactHasRow
  <2>1. PICK r \in eventRows : r.key = RowOf(provider, w).key
    BY <1>1 DEF IntactInv, HasRow
  <2>2. Parseable(provider, w) /\ Parseable(provider, r.written) /\ r = RowOf(provider, r.written)
    BY <1>1 DEF IntactInv, ParserRows
  <2>3. r.written = w \/ TwinOf(w, r.written)
    BY <1>1, <2>1, <2>2, SameKey
  <2> QED BY <2>3
<1>4. ASSUME NEW r \in eventRows
      PROVE  /\ r.written \in WrittenMessages /\ r.classification \in Classifications
             /\ r.classification = "eligible_route_unresolved" =>
                  /\ r.written.author = "contact"
                  /\ provider \in {"umbler", "gupshup"} => r.written.clid
                  /\ provider = "umbler" => ~r.written.private
                  /\ provider \in {"waha", "zapi"} => ~r.written.group
  <2> DEFINE w == r.written
  <2>1. provider \in Providers /\ Parseable(provider, w) /\ r = RowOf(provider, w)
    BY <1>1, <1>4 DEF ParserRows
  <2>2. w \in WrittenMessages /\ w.private \in BOOLEAN /\ w.clid \in BOOLEAN
    BY <1>0, <2>1 DEF Parseable
  <2>3. CASE provider = "umbler"
    <3>1. r.classification = ClassificationForMessage(w)[1]
      BY <2>1, <2>3 DEF RowOf, UmblerEvent, ParsedEvent
    <3> QED BY <2>2, <2>3, <3>1 DEF ClassificationForMessage, Classifications
  <2>4. CASE provider = "gupshup"
    <3>1. r.classification = IF w.clid THEN "eligible_route_unresolved" ELSE "ignored_no_ctwa"
      BY <2>1, <2>4 DEF RowOf, GupshupEvent, ParsedEvent
    <3> QED BY <2>1, <2>2, <2>4, <3>1 DEF Classifications, Parseable
  <2>5. CASE provider \in {"waha", "zapi"}
    <3>1. r.classification = IF w.author = "contact" THEN "eligible_route_unresolved" ELSE "ignored_outbound"
      BY <2>1, <2>5 DEF RowOf, SessionEvent, ParsedEvent
    <3> QED BY <2>1, <2>2, <2>5, <3>1 DEF Classifications, Parseable
  <2> QED BY <2>1, <2>3, <2>4, <2>5 DEF Providers
<1>5. EligibleIsContacts
  BY <1>4 DEF EligibleIsContacts
<1>6. ParsersTypeOK
  <2>1. intact \subseteq WrittenMessages
    BY <1>1 DEF IntactInv, Parseable
  <2> QED BY <1>4, <2>1 DEF ParserInv, DirectInv, ParsersTypeOK
<1>7. ClickIsFound
  BY ClickFirst DEF ParserInv, DirectInv, ClickIsFound
<1> QED BY <1>2, <1>3, <1>5, <1>6, <1>7 DEF ParserInv, ParsersSafe

(* Whatever bodies the four providers send, flawed, repeated or batched     *)
(* anew: a message becomes one event and none that came without a flaw is   *)
(* lost or taken for another, an event that may become a lead is one the    *)
(* contact wrote, a Gupshup delivery is stored whole or not at all, and a   *)
(* click id is found wherever a Uazapi webhook carries it.                  *)
THEOREM ParsersStaySafe == ParsersSpec => []ParsersSafe
<1>1. ParsersInit => ParserInv
  BY ParserInvInit
<1>2. ParserInv /\ [ParsersNext]_parserVars => ParserInv'
  BY ParserInvStep
<1>3. ParserInv => ParsersSafe
  BY ParserInvSafe
<1> QED BY <1>1, <1>2, <1>3, PTL DEF ParsersSpec
=============================================================================
