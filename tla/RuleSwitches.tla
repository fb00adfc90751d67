---------------------------- MODULE RuleSwitches ----------------------------
(***************************************************************************)
(* The three switches that decide whether a provider's conversions are     *)
(* sent: the status of the inbound connection                              *)
(* (InboundWebhookConnectionsService), the status of its channels          *)
(* (inbound-webhook-production-activation) and the mode of a conversion    *)
(* rule (ProviderConversionRulesService, ConversionRulesService).  The     *)
(* requests are transactions at read committed: they read rows, and write  *)
(* them later, some behind a claim on updatedAt and some not.              *)
(***************************************************************************)
EXTENDS Naturals, FiniteSets

CONSTANTS
  Lines,        \* InboundWebhookChannel rows of the connection
  Routed,       \* those with a complete, valid Meta route
  NeedsRoute,   \* metaRouteRequiredForProvider: every provider but uazapi
  Certified,    \* the connection's parser release is certified
  RuleKinds,    \* triggers that rules are created with
  LegacyEdits,  \* provider rules are also edited through the legacy endpoint
  Changers,     \* bound: requests under way at a time
  NoLine

VARIABLES
  conn,      \* InboundWebhookConnection: status, productionActivatedAt, removedAt
  line,      \* InboundWebhookChannel: status, productionActivatedAt
  rule,      \* ConversionRule, ProviderConversionRuleConfig, endpoint, catalog
  history,   \* the rule has executions
  replaying, \* a replay batch of the connection is queued or processing
  request    \* requests under way

switchVars == <<conn, line, rule, history, replaying, request>>

Kinds == {"message_phrase", "provider_automation", "structured_catalog"}

(* The triggers a provider rule may have (createRule). *)
ASSUME RuleKindsAssumption == RuleKinds \subseteq Kinds

Modes == {"observation", "production"}

NoRule == [there |-> "none", kind |-> "message_phrase", active |-> FALSE, mode |-> "observation", lines |-> {},
           catalog |-> "none", endpoint |-> "none"]

Keep == [active |-> "keep", mode |-> "keep", lines |-> {}, phrases |-> FALSE, catalog |-> "keep"]

(* What updateRule still uses of the rule it read. *)
Read(r) == [active |-> r.active, mode |-> r.mode, lines |-> r.lines]

NoOp == [kind |-> "idle", line |-> NoLine, to |-> "", seen |-> "", read |-> Read(NoRule), change |-> Keep, claim |-> TRUE]

(* What an operator changes in one request: one thing, or the switch       *)
(* together with the channels.                                             *)
Changes ==
  {[Keep EXCEPT !.active = a] : a \in {"on", "off"}} \cup {[Keep EXCEPT !.mode = m] : m \in Modes}
  \cup {[Keep EXCEPT !.lines = ls] : ls \in (SUBSET Lines) \ {{}}}
  \cup {[Keep EXCEPT !.mode = "production", !.lines = ls] : ls \in (SUBSET Lines) \ {{}}}
  \cup {[Keep EXCEPT !.phrases = TRUE]} \cup {[Keep EXCEPT !.catalog = c] : c \in {"first", "second"}}

RuleRecs == [there : {"none", "legacy", "provider", "removed"}, kind : Kinds \cup {"keyword"}, active : BOOLEAN, mode : Modes,
             lines : SUBSET Lines, catalog : {"none", "first", "second"}, endpoint : {"none", "live", "removed"}]

SwitchTypeOK ==
  /\ conn \in [status : {"observation", "production", "paused"}, stamped : BOOLEAN, removed : BOOLEAN]
  /\ line \in [Lines -> [status : {"discovered", "active", "paused"}, stamped : BOOLEAN]]
  /\ rule \in RuleRecs /\ history \in BOOLEAN /\ replaying \in BOOLEAN
  /\ \A o \in Changers :
       /\ request[o].kind \in {"idle", "line", "conn", "rule", "rotate"} /\ request[o].line \in Lines \cup {NoLine}
       /\ request[o].read \in [active : BOOLEAN, mode : Modes, lines : SUBSET Lines] /\ request[o].change \in Changes \cup {Keep} /\ request[o].claim \in BOOLEAN

(* createConnection or ensureBridge made the connection; its channels were *)
(* discovered.                                                             *)
SwitchInit ==
  /\ conn = [status |-> "observation", stamped |-> FALSE, removed |-> FALSE]
  /\ line = [c \in Lines |-> [status |-> "discovered", stamped |-> FALSE]]
  /\ rule = NoRule /\ history = FALSE /\ replaying = FALSE /\ request = [o \in Changers |-> NoOp]

-----------------------------------------------------------------------------
(* Requests.                                                               *)

Starts(o, q) == request[o].kind = "idle" /\ request' = [request EXCEPT ![o] = q]

(* The request ends; the rows it wrote lose the claims others hold on      *)
(* their updatedAt.                                                        *)
Done(o, wrote) ==
  request' = [x \in Changers |-> IF x = o THEN NoOp
                          ELSE IF (request[x].kind = "line" /\ request[x].line \in wrote) \/ (request[x].kind = "conn" /\ "conn" \in wrote)
                            THEN [request[x] EXCEPT !.claim = FALSE] ELSE request[x]]

(* A request fails, by its own checks or otherwise, and is rolled back. *)
RollBack(o) == request[o].kind # "idle" /\ Done(o, {}) /\ UNCHANGED <<conn, line, rule, history, replaying>>

Activable(c) == NeedsRoute => c \in Routed

(* applyInboundWebhookChannelStatus: the row a channel gets when the       *)
(* connection stood at s.                                                  *)
LineRow(to, s) == [status |-> to, stamped |-> to = "active" /\ s = "production"]

(* assertProductionReady for the channels ls. *)
LinesReady(ls) ==
  LET act == {c \in Lines : ls[c].status = "active"} IN
  Certified /\ act # {} /\ (\A c \in act : Activable(c)) /\ ~replaying

(* applyInboundWebhookConnectionStatus: what it does to the active         *)
(* channels.                                                               *)
StampLines(ls, to) == [c \in Lines |-> IF ls[c].status = "active" THEN [ls[c] EXCEPT !.stamped = to = "production"] ELSE ls[c]]

-----------------------------------------------------------------------------
(* The connection and its channels.                                        *)

(* updateChannelStatus reads the channel and the status of its connection. *)
ReadLine(o, c, to) ==
  /\ ~conn.removed /\ (to = "active" => Activable(c))
  /\ Starts(o, [NoOp EXCEPT !.kind = "line", !.line = c, !.to = to, !.seen = conn.status])
  /\ UNCHANGED <<conn, line, rule, history, replaying>>

WriteSwitch(o) ==
  /\ request[o].kind = "line" /\ request[o].claim /\ ~conn.removed
  /\ line' = [line EXCEPT ![request[o].line] = LineRow(request[o].to, request[o].seen)]
  /\ Done(o, {request[o].line}) /\ UNCHANGED <<conn, rule, history, replaying>>

(* updateStatus reads the connection and, for production, what must be     *)
(* ready.                                                                  *)
ReadConnection(o, to) ==
  /\ ~conn.removed /\ (to = "production" => LinesReady(line))
  /\ Starts(o, [NoOp EXCEPT !.kind = "conn", !.to = to])
  /\ UNCHANGED <<conn, line, rule, history, replaying>>

WriteConnection(o) ==
  /\ request[o].kind = "conn" /\ request[o].claim /\ ~conn.removed
  /\ conn' = [conn EXCEPT !.status = request[o].to, !.stamped = request[o].to = "production"]
  /\ line' = StampLines(line, request[o].to)
  /\ Done(o, {"conn"} \cup {c \in Lines : line[c].status = "active"}) /\ UNCHANGED <<rule, history, replaying>>

(* removeConnection; rotateSecret writes the same row and changes neither  *)
(* switch.                                                                 *)
RemoveConnection(o) ==
  /\ request[o].kind = "idle" /\ ~conn.removed
  /\ conn' = [status |-> "paused", stamped |-> FALSE, removed |-> TRUE]
  /\ Done(o, {"conn"}) /\ UNCHANGED <<line, rule, history, replaying>>

RotateSecret(o) ==
  /\ request[o].kind = "idle" /\ ~conn.removed
  /\ Done(o, {"conn"}) /\ UNCHANGED <<conn, line, rule, history, replaying>>

(* A replay is authorized for a connection in observation, and ends. *)
ReplayToggles ==
  /\ replaying \/ (conn.status = "observation" /\ ~conn.removed)
  /\ replaying' = ~replaying /\ UNCHANGED <<conn, line, rule, history, request>>

-----------------------------------------------------------------------------
(* Rules.                                                                  *)

(* cascadeProductionActivation: the channels of the rule first, then the   *)
(* connection, both with the checks of their own switches.                 *)
CascadeLines(ls) ==
  [c \in Lines |-> IF c \in ls /\ (line[c].status # "active" \/ (conn.status = "production" /\ ~line[c].stamped))
                     THEN LineRow("active", conn.status) ELSE line[c]]

MayCascade(ls) ==
  /\ ~conn.removed
  /\ \A c \in ls : CascadeLines(ls)[c] # line[c] => Activable(c)
  /\ conn.status # "production" => LinesReady(CascadeLines(ls))

Cascade(ls) ==
  /\ MayCascade(ls)
  /\ IF conn.status = "production" THEN line' = CascadeLines(ls) /\ UNCHANGED conn
     ELSE /\ line' = StampLines(CascadeLines(ls), "production")
          /\ conn' = [conn EXCEPT !.status = "production", !.stamped = TRUE]

Cascaded(ls) ==
  {c \in Lines : CascadeLines(ls)[c] # line[c]}
  \cup (IF conn.status = "production" THEN {} ELSE {"conn"} \cup {c \in Lines : CascadeLines(ls)[c].status = "active"})

(* assertModeAllowed *)
ModeAllowed(mode) == mode = "production" => Certified

(* createCatalog *)
NewCatalog(kind) == IF kind = "structured_catalog" THEN "first" ELSE "none"

(* createRule: the rule with its endpoint for an automation and its        *)
(* catalog for a structured rule ...                                       *)
CreatedRule(kind, mode, ls) ==
  [there |-> "provider", kind |-> kind, active |-> TRUE, mode |-> mode, lines |-> ls,
   catalog |-> NewCatalog(kind), endpoint |-> IF kind = "provider_automation" THEN "live" ELSE "none"]

(* ... its checks on the connection and the channels, and the cascade when *)
(* it is created in production.                                            *)
CreateRule(o, kind, mode, ls) ==
  /\ request[o].kind = "idle" /\ rule.there = "none" /\ ~conn.removed /\ ls # {}
  /\ ModeAllowed(mode) /\ rule' = CreatedRule(kind, mode, ls)
  /\ IF mode = "production" THEN Cascade(ls) /\ Done(o, Cascaded(ls)) ELSE Done(o, {}) /\ UNCHANGED <<conn, line>>
  /\ UNCHANGED <<history, replaying>>

(* ConversionRulesService: createRule and updateRule know nothing of the   *)
(* provider configuration.                                                 *)
CreateLegacyRule ==
  /\ rule.there = "none" /\ rule' = [NoRule EXCEPT !.there = "legacy", !.kind = "keyword", !.active = TRUE]
  /\ UNCHANGED <<conn, line, history, replaying, request>>

UpdateLegacyRule ==
  /\ rule.there = "legacy" \/ (LegacyEdits /\ rule.there \in {"provider", "removed"})
  /\ rule' = [rule EXCEPT !.active = ~@]
  /\ UNCHANGED <<conn, line, history, replaying, request>>

(* adaptLegacyMessageRule: a keyword rule becomes a message rule of the    *)
(* provider, in observation.                                               *)
AdaptLegacyMessageRule(ls) ==
  /\ rule.there = "legacy" /\ ~conn.removed /\ ls # {}
  /\ rule' = [NoRule EXCEPT !.there = "provider", !.active = TRUE, !.lines = ls]
  /\ UNCHANGED <<conn, line, history, replaying, request>>

(* requireRule *)
RuleThere == rule.there = "provider" /\ ~conn.removed

(* catalogAliasUpdates: the same products, attributes and prices. *)
AliasesOnly(r, ch) == ch.catalog \in {"keep", r.catalog}

(* A catalog with executions may only get other aliases. *)
CatalogEditable(r, ch) == AliasesOnly(r, ch) \/ ~history

(* assertUpdateMatchesRule: the fields must fit the rule, and only an      *)
(* active rule goes to production.                                         *)
ChangeFits(r, ch) ==
  /\ ch.catalog # "keep" => r.kind = "structured_catalog"
  /\ ch.phrases => r.kind # "provider_automation"
  /\ ch.mode = "production" => r.active

(* updateRule reads the rule ... *)
ReadRule(o, ch) ==
  /\ RuleThere /\ ChangeFits(rule, ch) /\ CatalogEditable(rule, ch) /\ ModeAllowed(ch.mode)
  /\ Starts(o, [NoOp EXCEPT !.kind = "rule", !.read = Read(rule), !.change = ch])
  /\ UNCHANGED <<conn, line, rule, history, replaying>>

(* ... and writes the fields of the request: a mode written along with     *)
(* other fields is the one it read.                                        *)
NextMode(ch) == IF ch.active = "off" THEN "observation" ELSE ch.mode

EffectiveMode(o) == IF NextMode(request[o].change) = "keep" THEN request[o].read.mode ELSE NextMode(request[o].change)

(* replaceCatalog *)
CatalogAfter(ch) == IF ch.catalog # "keep" THEN ch.catalog ELSE rule.catalog

WrittenRule(o) ==
  LET ch == request[o].change IN
  [rule EXCEPT !.active = IF ch.active = "keep" THEN @ ELSE ch.active = "on",
               !.mode = IF ch.mode # "keep" \/ ch.active = "off" \/ ch.phrases THEN EffectiveMode(o) ELSE @,
               !.lines = IF ch.lines # {} THEN ch.lines ELSE @,
               !.catalog = CatalogAfter(ch)]

(* The cascade runs for an edit that turns sending on or changes the       *)
(* channels of a rule it read as sending.                                  *)
Cascades(o) ==
  LET ch == request[o].change IN
  /\ EffectiveMode(o) = "production" /\ (ch.active = "on" \/ (ch.active = "keep" /\ request[o].read.active))
  /\ ch.mode # "keep" \/ ch.active = "on" \/ ch.lines # {}

CascadeOf(o) == IF request[o].change.lines # {} THEN request[o].change.lines ELSE request[o].read.lines

(* Mutant: the rule is not read again. *)
Anyhow(o) == TRUE

(* The rule is read again before the commit: a rule or a connection        *)
(* removed meanwhile rolls the edit back.                                  *)
StillThere(o) == RuleThere

WriteRule(o) ==
  /\ request[o].kind = "rule" /\ StillThere(o)
  /\ rule' = WrittenRule(o)
  /\ IF Cascades(o) THEN Cascade(CascadeOf(o)) /\ Done(o, Cascaded(CascadeOf(o))) ELSE Done(o, {}) /\ UNCHANGED <<conn, line>>
  /\ UNCHANGED <<history, replaying>>

(* rotateEndpoint: its rule is read once. *)
ReadEndpoint(o) ==
  /\ RuleThere /\ rule.endpoint # "none"
  /\ Starts(o, [NoOp EXCEPT !.kind = "rotate"]) /\ UNCHANGED <<conn, line, rule, history, replaying>>

RotateEndpoint(o) ==
  /\ request[o].kind = "rotate" /\ rule' = [rule EXCEPT !.endpoint = "live"]
  /\ Done(o, {}) /\ UNCHANGED <<conn, line, history, replaying>>

(* removeRule *)
RemoveRule ==
  /\ RuleThere
  /\ rule' = [rule EXCEPT !.there = "removed", !.active = FALSE, !.mode = "observation",
                          !.endpoint = IF @ = "none" THEN "none" ELSE "removed"]
  /\ UNCHANGED <<conn, line, history, replaying, request>>

(* An execution of the rule is recorded; only the catalog asks for them. *)
ExecutionRecorded ==
  /\ RuleThere /\ rule.active /\ rule.kind = "structured_catalog" /\ ~history /\ history' = TRUE /\ UNCHANGED <<conn, line, rule, replaying, request>>

SwitchNext ==
  \/ \E o \in Changers, c \in Lines, to \in {"active", "paused"} : ReadLine(o, c, to)
  \/ \E o \in Changers, to \in {"observation", "production", "paused"} : ReadConnection(o, to)
  \/ \E o \in Changers :
       \/ WriteSwitch(o) \/ WriteConnection(o) \/ RemoveConnection(o) \/ RotateSecret(o) \/ RollBack(o)
       \/ WriteRule(o) \/ ReadEndpoint(o) \/ RotateEndpoint(o)
  \/ \E o \in Changers, k \in RuleKinds, m \in Modes, ls \in SUBSET Lines : CreateRule(o, k, m, ls)
  \/ \E o \in Changers, ch \in Changes : ReadRule(o, ch)
  \/ \E ls \in SUBSET Lines : AdaptLegacyMessageRule(ls)
  \/ CreateLegacyRule \/ UpdateLegacyRule \/ RemoveRule \/ ExecutionRecorded \/ ReplayToggles

SwitchSpec == SwitchInit /\ [][SwitchNext]_switchVars

-----------------------------------------------------------------------------
(* Properties.                                                             *)

(* A rule that was removed is not in production again, and a connection    *)
(* that was removed stays paused, whatever requests were under way when it *)
(* was removed.                                                            *)
RemovedStaysOff ==
  /\ rule.there = "removed" => rule.mode = "observation"
  /\ conn.removed => conn.status = "paused" /\ ~conn.stamped

(* That, and the types, whatever requests overlap                          *)
(* (InboundWebhookConnectionsService, ProviderConversionRulesService).     *)
SwitchesSafe == SwitchTypeOK /\ RemovedStaysOff
=============================================================================
