----------------------------- MODULE MCPlatform -----------------------------
(* The parts of a workspace that people work on: accounts, teams, Meta     *)
(* connections, the external ledger and the reports; and what watches over *)
(* the installation: its licence and the alerts to its operators.  They    *)
(* share no state; a behaviour follows one of them, and the others stay as *)
(* they began.                                                             *)
EXTENDS Accounts, Teams, MetaConnections, ExternalLedger, ReportQueries, License, OpsAlerts, TLC

CONSTANTS c1, q1, k1, k2, g1, g2, d1, h1, h2, o

VARIABLE focus

platformVars == <<accountVars, teamVars, metaVars, ledgerVars, queryVars, licenseVars, alertVars, focus>>

RowContacts == [r \in Rows |-> c1]

RowTypes == [r \in Rows |-> "qualified_lead"]

(* A workspace of two accounts with a campaign each, two ad sets and an ad. *)
OfAccount == (k1 :> h1) @@ (k2 :> h2)

OfCampaign == (g1 :> k1) @@ (g2 :> k2)

OfAdSet == d1 :> g1

Columns(kind, name, person, place, click, source, day, cents, purchase, trigger, first) ==
  [kind |-> kind, name |-> name, person |-> person, campaign |-> place[1], adSet |-> place[2],
   ad |-> place[3], click |-> click, source |-> source, day |-> day, cents |-> cents,
   corrected |-> cents + 1, purchase |-> purchase, trigger |-> trigger, first |-> first]

(* A person who answers two campaigns and buys through both, and a sale of *)
(* another system without a click.                                         *)
StoredFacts ==
  <<Columns("lead", "lead", o, <<k1, g1, NoEntity>>, TRUE, "unknown", 1, 0, Unset, "none", "none"),
    Columns("event", "LeadSubmitted", o, <<k2, g2, NoEntity>>, TRUE, "unknown", 2, 0, Unset,
            "auto_lead", "sent"),
    Columns("event", "Purchase", o, <<k1, g1, d1>>, TRUE, "paid", 1, 1, Unset,
            "inbound_webhook", "sent"),
    Columns("event", "Purchase", o, <<k2, g2, NoEntity>>, TRUE, "organic", 2, 2, Unset,
            "keyword", "queued"),
    Columns("event", "Purchase", NoOne, <<k1, NoEntity, NoEntity>>, FALSE, "unknown", 2, 1,
            "repurchase", "external_mysql", "pending_meta_context")>>

FiveEach == [e \in Entities |-> 5]

TwoADay == [e \in Entities |-> 2]

Table(level, kind, account) ==
  [level |-> level, class |-> kind, account |-> account, campaign |-> Unset, full |-> FALSE,
   named |-> Unset, scope |-> Unset, kept |-> Entities, delivered |-> FALSE, page |-> Unset,
   size |-> Unset, since |-> Unset, until |-> Unset]

Audit(state, source, page, size) ==
  [level |-> "audit", state |-> state, source |-> source, page |-> page, size |-> size,
   since |-> Unset, until |-> Unset]

SomeAsks ==
  {[Table("campaigns", Unset, Unset) EXCEPT !.full = TRUE],
   [Table("campaigns", "all", h1) EXCEPT !.full = TRUE],
   [Table("campaigns", "all", Unset) EXCEPT !.page = 2, !.size = 1],
   [Table("campaigns", "all", Unset) EXCEPT !.named = {g1}, !.scope = "adsets", !.delivered = TRUE],
   Table("adsets", "whatsapp", Unset), Table("ads", "all", h1),
   Audit("queued", Unset, Unset, 2), Audit(Unset, "other", 1, 1), Audit(Unset, Unset, 0, 10)}

ReadOrder == <<"campaigns", "adsets", "ads", "delivered", "events", "leads", "allEvents", "allLeads",
               "daily", "page", "counts">>

(* Reads between which nothing changes commute: they are taken in one      *)
(* order, except that some wait for the change.                            *)
ReadsInOrder ==
  LET at(r) == CHOOSE i \in DOMAIN ReadOrder : ReadOrder[i] = r
      together == IF reader.pc = "first" THEN FirstReads(reader.ask) ELSE LaterReads(reader.ask)
  IN \A r \in reader.todo \ reader'.todo :
       IF touches = MaxTouches THEN \A s \in reader.todo : at(r) =< at(s)
       ELSE \A s \in together \ reader.todo : at(s) < at(r)

(* A change before the request is one of the initial states. *)
TouchedWhileRead == touches' # touches => reader.pc \in {"where", "first", "later"}

(* An installation that has a licence key and one that has none. *)
TwoEnvs == {[key |-> TRUE, identity |-> TRUE, server |-> TRUE],
            [key |-> FALSE, identity |-> FALSE, server |-> FALSE]}

(* Time passes and the server changes its mind while the API listens, and  *)
(* not everything happens in one behaviour.                                *)
LicenseScene ==
  /\ moves' + boots' + licTries' =< 3
  /\ clock' # clock \/ moves' # moves => phase = "up"
  /\ writes' # writes => clock > 0

TwoSettings ==
  {[enabled |-> TRUE, phones |-> Phones, silence |-> TRUE, threshold |-> t, debounce |-> 1 - t] : t \in {0, 1}}

TwoProviders == <<"nod_api", "waha">>

(* The scan of the connections and the checks of the providers are apart. *)
AlertScene ==
  \/ UNCHANGED watchVars /\ swept = 0
  \/ UNCHANGED settingVars /\ hour = 0 /\ saves = 0 /\ lineMoves = 0 /\ scan = NoScan

(* A request that only leaves an audit row is the first one and leaves it  *)
(* before the next begins; only the row of a failed login is lost, and     *)
(* only its window passes.  The last request comes alone.                  *)
AccountScene ==
  /\ requested = 3 /\ requested' = 4 => \A r \in Requests : areq[r] = Idle
  /\ requested = 1 /\ requested' = 2 => \A r \in Requests : areq[r].pc # "note" \/ areq[r].op = "verify"
  /\ areq' = areq /\ tries' # tries => requested = 1 /\ \E u \in Users : tries[u]["login"] > 0
  /\ \A r \in Requests : areq'[r] # areq[r] =>
       /\ areq[r] = Idle /\ areq'[r].pc = "note" => requested = 0
       /\ areq[r].pc \in {"record", "note"} /\ tries' = tries =>
            areq[r].op = "login" \/ tries[areq[r].u][areq[r].op] = Limit

(* Rows are interchangeable: they are written in order. *)
LedgerScene == \A r \in Rows : sourceRow'[r].at # 0 => sourceRow'[q1].at # 0

PlatformInit ==
  /\ AccountInit /\ TeamInit /\ MetaInit /\ LedgerInit /\ QueryInit /\ LicenseInit /\ AlertsInit
  /\ focus \in {"accounts", "teams", "meta", "ledger", "reports", "license", "alerts"}
  /\ Facts \ stored \in {{}} \cup (IF focus = "reports" THEN {{1}, {3}} ELSE {})
  /\ \A e \in Entities : class[e] = "whatsapp"
  /\ focus # "reports" => daily = {}
  /\ focus # "accounts" => Owners = Users
  /\ focus # "license" => mind = "active" /\ env.key
  /\ focus # "alerts" => alertSet = NoSettings /\ \A c \in Lines : line[c].status = "observation" /\ line[c].last = 0

(* Tokens are interchangeable: they are issued in order. *)
InOrder(f, unused) == \A i \in DOMAIN f : i > 1 /\ f[i] # unused => f[i - 1] # unused

PlatformNext ==
  /\ UNCHANGED focus
  /\ \/ /\ focus = "accounts" /\ AccountNext /\ AccountScene
        /\ UNCHANGED <<teamVars, metaVars, ledgerVars, queryVars, licenseVars, alertVars>>
     \/ /\ focus = "teams" /\ TeamNext
        /\ UNCHANGED <<accountVars, metaVars, ledgerVars, queryVars, licenseVars, alertVars>>
     \/ /\ focus = "meta" /\ MetaNext
        /\ UNCHANGED <<accountVars, teamVars, ledgerVars, queryVars, licenseVars, alertVars>>
     \/ /\ focus = "ledger" /\ LedgerNext /\ LedgerScene
        /\ UNCHANGED <<accountVars, teamVars, metaVars, queryVars, licenseVars, alertVars>>
     \/ /\ focus = "reports" /\ QueryNext /\ ReadsInOrder /\ TouchedWhileRead
        /\ UNCHANGED <<accountVars, teamVars, metaVars, ledgerVars, licenseVars, alertVars>>
     \/ /\ focus = "license" /\ LicenseNext /\ LicenseScene
        /\ UNCHANGED <<accountVars, teamVars, metaVars, ledgerVars, queryVars, alertVars>>
     \/ /\ focus = "alerts" /\ AlertsNext /\ AlertScene
        /\ UNCHANGED <<accountVars, teamVars, metaVars, ledgerVars, queryVars, licenseVars>>
  /\ InOrder(token, NoTokenRec)'

PlatformSpec == PlatformInit /\ [][PlatformNext]_platformVars

Permuted == Permutations(Users)
=============================================================================
