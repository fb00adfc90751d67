-------------------------- MODULE MetaConnections --------------------------
(***************************************************************************)
(* How a workspace reaches Meta: the OAuth integration of the social login *)
(* (MetaConnectionsService), the normalized credentials, business          *)
(* connections, reporting accounts and conversion destinations             *)
(* (MetaManualConnectionsService, MetaAssetsService), the destination of   *)
(* each ad (MetaAdDestinationRoutingService) and the route a conversion    *)
(* takes (MetaConnectionResolverService).  Most requests read, ask Meta,   *)
(* and write what they decided, so others may write in between.            *)
(***************************************************************************)
EXTENDS Naturals, FiniteSets

CONSTANTS
  Bms,         \* business managers
  AdAccounts,  \* ad accounts
  HomeAccount, \* the account of the ad the model follows
  Targets,     \* conversion destinations: pairs of a pixel and a page
  ShowsPage,   \* the ad's creative names a page
  PageHits,    \* destinations whose page the ad names
  PixelHits,   \* destinations whose pixel the ad names
  SharedPage,  \* destinations of one and the same page
  NoBm, NoTarget,
  Asks,        \* bound: requests under way at a time
  MaxAsked     \* bound: requests in all

ASSUME MetaAssumption ==
  HomeAccount \in AdAccounts /\ NoBm \notin Bms /\ NoTarget \notin Targets /\ ShowsPage \in BOOLEAN /\ MaxAsked \in Nat

VARIABLES
  integration, \* MetaIntegration: present, advanced routing, CAPI token, primary destination, selected business
  snapshot,    \* MetaAssetSnapshot of the root and of the selected business
  credential,  \* MetaCredential by source
  bmConn,      \* MetaBusinessConnection by business manager
  adAcct,      \* MetaReportingAccount
  targets,     \* MetaConversionDestination: configured
  allowed,     \* MetaReportingAccountDestination: active pairs
  assigned,    \* MetaAdDestinationAssignment of the ad
  ask,         \* requests under way
  asked        \* requests so far

metaVars == <<integration, snapshot, credential, bmConn, adAcct, targets, allowed, assigned, ask, asked>>

Sources == {"oauth", "manual"}

Unconnected == [cred |-> "none", status |-> "active", dflt |-> NoTarget]

Detached == [known |-> TRUE, active |-> FALSE, bm |-> NoBm, to |-> NoTarget]

Unassigned == [by |-> "none", to |-> NoTarget]

NoIntegration == [on |-> FALSE, advanced |-> FALSE, capi |-> FALSE, primary |-> NoTarget, selected |-> NoBm]

NoAsk == [op |-> "none", pc |-> "idle", src |-> "manual", bm |-> NoBm, acct |-> HomeAccount, accts |-> {}, to |-> NoTarget,
          tos |-> {}, replace |-> FALSE, old |-> NoTarget, held |-> TRUE]

MetaTypeOK ==
  /\ integration \in [on : BOOLEAN, advanced : BOOLEAN, capi : BOOLEAN, primary : Targets \cup {NoTarget}, selected : Bms \cup {NoBm}]
  /\ snapshot \in [root : {"none", "ok", "error"}, business : {"none", "ok", "partial"}]
  /\ credential \in [Sources -> {"none", "pending", "active"}]
  /\ bmConn \in [Bms -> [cred : Sources \cup {"none"}, status : {"active", "paused", "validation_required"}, dflt : Targets \cup {NoTarget}]]
  /\ adAcct \in [AdAccounts -> [known : BOOLEAN, active : BOOLEAN, bm : Bms \cup {NoBm}, to : Targets \cup {NoTarget}]]
  /\ targets \subseteq Targets /\ allowed \subseteq AdAccounts \X Targets
  /\ assigned \in [by : {"none", "automatic", "manual"}, to : Targets \cup {NoTarget}]
  /\ ask \in [Asks -> [op : {"none", "credential", "prepare", "oauth", "assets", "connect", "rotate", "test", "account", "ad", "reconcile", "advanced"},
                       pc : {"idle", "meta", "check", "write"}, src : Sources, bm : Bms \cup {NoBm}, acct : AdAccounts, accts : SUBSET AdAccounts,
                       to : Targets \cup {NoTarget}, tos : SUBSET Targets, replace : BOOLEAN, old : Targets \cup {NoTarget}, held : BOOLEAN]]
  /\ asked \in 0..MaxAsked

(* A workspace that nobody connected yet. *)
MetaInit ==
  /\ integration = NoIntegration /\ snapshot = [root |-> "none", business |-> "none"]
  /\ credential = [s \in Sources |-> "none"] /\ bmConn = [b \in Bms |-> Unconnected]
  /\ adAcct = [a \in AdAccounts |-> [Detached EXCEPT !.known = FALSE]]
  /\ targets = {} /\ allowed = {} /\ assigned = Unassigned
  /\ ask = [r \in Asks |-> NoAsk] /\ asked = 0

routing == <<bmConn, adAcct, targets, allowed, assigned>>
login == <<integration, snapshot>>

-----------------------------------------------------------------------------
(* Routes.                                                                 *)

(* isNormalizedRoutingEnabled *)
Normalized == (\E b \in Bms : bmConn[b].cred # "none") /\ (integration.on => integration.advanced)

(* listReportingSyncTargets: the accounts a report sync is queued for. *)
SyncTargets ==
  IF Normalized
    THEN {a \in AdAccounts : /\ adAcct[a].active /\ adAcct[a].bm # NoBm
                             /\ bmConn[adAcct[a].bm].status = "active" /\ credential[bmConn[adAcct[a].bm].cred] = "active"}
    ELSE {a \in AdAccounts : adAcct[a].active /\ integration.on}

(* The destinations of an account: the allowed ones, or else its own, or   *)
(* else the default of its connection.                                     *)
TargetsOf(a) ==
  LET own == {t \in Targets : <<a, t>> \in allowed}
      fallback == IF adAcct[a].to # NoTarget THEN adAcct[a].to
                  ELSE IF adAcct[a].bm # NoBm THEN bmConn[adAcct[a].bm].dflt ELSE NoTarget
  IN IF own # {} THEN own ELSE {fallback} \cap Targets

(* destinationCandidates *)
Candidates(ts) == ts \cap (IF ShowsPage THEN PageHits ELSE PixelHits)

(* resolveCapiRoute for a conversion of the ad: the destination, or none   *)
(* when the send is refused.                                               *)
CapiRoute ==
  LET a == adAcct[HomeAccount] IN
  IF ~Normalized THEN integration.primary
  ELSE IF ~a.active \/ a.bm = NoBm \/ bmConn[a.bm].status # "active" \/ credential[bmConn[a.bm].cred] # "active" THEN NoTarget
  ELSE IF assigned.to # NoTarget THEN assigned.to
  ELSE IF a.to # NoTarget THEN a.to ELSE bmConn[a.bm].dflt

-----------------------------------------------------------------------------
(* Requests.                                                               *)

BeginAsk(r, q) ==
  /\ ask[r].pc = "idle" /\ asked < MaxAsked /\ asked' = asked + 1
  /\ ask' = [ask EXCEPT ![r] = q]

AskAt(r, op, pc) == ask[r].op = op /\ ask[r].pc = pc

Ends(r) == ask' = [ask EXCEPT ![r] = NoAsk] /\ UNCHANGED asked

Once == asked < MaxAsked /\ asked' = asked + 1

(* createCredential: the workspace must not have an OAuth integration. *)
AskCredential(r) ==
  /\ ~integration.on
  /\ BeginAsk(r, [NoAsk EXCEPT !.op = "credential", !.pc = "write"])
  /\ UNCHANGED <<login, credential, routing>>

SaveCredential(r) ==
  /\ AskAt(r, "credential", "write")
  /\ credential' = [credential EXCEPT !["manual"] = IF @ = "active" THEN "active" ELSE "pending"]
  /\ Ends(r) /\ UNCHANGED <<login, routing>>

(* prepareOAuthCredential *)
AskPrepare(r) ==
  /\ integration.on
  /\ BeginAsk(r, [NoAsk EXCEPT !.op = "prepare", !.pc = "write"])
  /\ UNCHANGED <<login, credential, routing>>

SavePrepared(r) ==
  /\ AskAt(r, "prepare", "write")
  /\ credential' = [credential EXCEPT !["oauth"] = "active"]
  /\ Ends(r) /\ UNCHANGED <<login, routing>>

(* saveOAuthConnection: refused once there is a manual credential; BMs of  *)
(* an earlier login must be validated again.                               *)
AskOAuth(r) ==
  /\ credential["manual"] = "none"
  /\ BeginAsk(r, [NoAsk EXCEPT !.op = "oauth", !.pc = "write"])
  /\ UNCHANGED <<login, credential, routing>>

SaveOAuthConnection(r) ==
  LET again == credential["oauth"] # "none" IN
  /\ AskAt(r, "oauth", "write")
  /\ integration' = [integration EXCEPT !.on = TRUE, !.advanced = @ /\ ~again]
  /\ credential' = [credential EXCEPT !["oauth"] = IF again THEN "active" ELSE "none"]
  /\ bmConn' = [b \in Bms |-> IF bmConn[b].cred = "oauth" THEN [bmConn[b] EXCEPT !.status = "validation_required"] ELSE bmConn[b]]
  /\ Ends(r) /\ UNCHANGED <<snapshot, adAcct, targets, allowed, assigned>>

(* A row that goes takes itself out of the requests that hold its id. *)
Lose(src) == ask' = [r \in Asks |-> IF ask[r].src = src THEN [ask[r] EXCEPT !.held = FALSE] ELSE ask[r]]

DetachFrom(bs) == adAcct' = [a \in AdAccounts |-> IF adAcct[a].bm \in bs THEN Detached ELSE adAcct[a]]

(* disconnectOAuthConnection: accounts, connections, credential and        *)
(* integration in one transaction; destinations and snapshots stay.        *)
DisconnectOAuthConnection ==
  LET gone == {b \in Bms : bmConn[b].cred = "oauth"} IN
  /\ Once /\ integration.on
  /\ integration' = NoIntegration
  /\ DetachFrom(gone) /\ bmConn' = [b \in Bms |-> IF b \in gone THEN Unconnected ELSE bmConn[b]]
  /\ credential' = [credential EXCEPT !["oauth"] = "none"] /\ Lose("oauth")
  /\ UNCHANGED <<snapshot, targets, allowed, assigned>>

(* refreshAssets: the snapshots, then the business that was asked for; an  *)
(* integration that went meanwhile is an error of the root snapshot.       *)
AskAssets(r, b) ==
  /\ integration.on
  /\ BeginAsk(r, [NoAsk EXCEPT !.op = "assets", !.pc = "write", !.bm = b])
  /\ UNCHANGED <<login, credential, routing>>

RefreshAssets(r) ==
  LET b == ask[r].bm
      moves == b \notin {NoBm, integration.selected}
  IN
  /\ AskAt(r, "assets", "write")
  /\ \/ /\ snapshot' \in [root : {IF moves /\ ~integration.on THEN "error" ELSE "ok"}, business : {"ok", "partial"}]
        /\ integration' = IF moves /\ integration.on THEN [integration EXCEPT !.selected = b] ELSE integration
     \/ snapshot' = [snapshot EXCEPT !.root = "error"] /\ UNCHANGED integration
  /\ Ends(r) /\ UNCHANGED <<credential, routing>>

SaveAssetSelection(b) ==
  /\ Once /\ integration.on /\ integration' = [integration EXCEPT !.selected = b]
  /\ UNCHANGED <<snapshot, credential, routing, ask>>

SaveCapiToken(set) ==
  /\ Once /\ integration.on /\ integration' = [integration EXCEPT !.capi = set]
  /\ UNCHANGED <<snapshot, credential, routing, ask>>

(* saveConversionDestination *)
SaveConversionDestination(t) ==
  /\ Once /\ targets' = targets \cup {t}
  /\ integration' = IF integration.on THEN [integration EXCEPT !.primary = t] ELSE integration
  /\ UNCHANGED <<snapshot, credential, bmConn, adAcct, allowed, assigned, ask>>

SaveReportingAccount(a) ==
  /\ Once /\ adAcct' = [adAcct EXCEPT ![a].known = TRUE, ![a].active = TRUE]
  /\ UNCHANGED <<login, credential, bmConn, targets, allowed, assigned, ask>>

SetReportingAccountActive(a, on) ==
  /\ Once /\ adAcct[a].known /\ adAcct' = [adAcct EXCEPT ![a].active = on]
  /\ UNCHANGED <<login, credential, bmConn, targets, allowed, assigned, ask>>

-----------------------------------------------------------------------------
(* Business connections.                                                   *)

(* createBusinessConnection: the path and the credential are checked       *)
(* before Meta is asked about the business, its accounts and the           *)
(* destination; who holds the accounts is checked after.                   *)
AskConnect(r, src, b, accts, t, replace) ==
  /\ integration.on <=> src = "oauth"
  /\ credential[src] # "none"
  /\ BeginAsk(r, [NoAsk EXCEPT !.op = "connect", !.pc = "check", !.src = src, !.bm = b, !.accts = accts, !.to = t, !.replace = replace])
  /\ UNCHANGED <<login, credential, routing>>

CheckConnect(r) ==
  LET q == ask[r] IN
  /\ AskAt(r, "connect", "check")
  /\ ask' = [ask EXCEPT ![r] = IF \E a \in q.accts : adAcct[a].bm # NoBm /\ (adAcct[a].bm # q.bm \/ bmConn[q.bm].cred = "none") THEN NoAsk
                               ELSE [q EXCEPT !.pc = "write", !.old = bmConn[q.bm].dflt]]
  /\ UNCHANGED <<login, credential, routing, asked>>

(* The transaction; a credential that went makes it fail.  Accounts that   *)
(* are replaced are detached, and only then are the allowed destinations   *)
(* of the connection's inactive accounts taken back.                       *)
CommitConnect(r) ==
  LET q == ask[r]
      dflt == IF ~q.replace /\ q.old # NoTarget THEN q.old ELSE q.to
      joined == [a \in AdAccounts |->
                   IF a \in q.accts
                     THEN [known |-> TRUE, active |-> TRUE, bm |-> q.bm,
                           to |-> IF adAcct[a].known THEN adAcct[a].to ELSE IF dflt = q.to THEN NoTarget ELSE q.to]
                   ELSE IF q.replace /\ adAcct[a].bm = q.bm /\ adAcct[a].active THEN Detached ELSE adAcct[a]]
  IN
  /\ AskAt(r, "connect", "write") /\ Ends(r)
  /\ IF ~q.held THEN UNCHANGED <<credential, routing>>
     ELSE /\ targets' = targets \cup {q.to}
          /\ bmConn' = [bmConn EXCEPT ![q.bm] = [cred |-> q.src, status |-> "active", dflt |-> dflt]]
          /\ adAcct' = joined
          /\ allowed' = {p \in allowed \cup (q.accts \X {q.to}) : ~(q.replace /\ joined[p[1]].bm = q.bm /\ ~joined[p[1]].active)}
          /\ credential' = [credential EXCEPT ![q.src] = "active"]
          /\ UNCHANGED assigned
  /\ UNCHANGED login

(* rotateCredential: Meta accepts the new token for all that hangs on it. *)
AskRotate(r) ==
  /\ credential["manual"] # "none"
  /\ BeginAsk(r, [NoAsk EXCEPT !.op = "rotate", !.pc = "write"])
  /\ UNCHANGED <<login, credential, routing>>

RotateCredential(r) ==
  /\ AskAt(r, "rotate", "write") /\ Ends(r)
  /\ IF ~ask[r].held THEN UNCHANGED <<credential, bmConn>>
     ELSE /\ credential' = [credential EXCEPT !["manual"] = "active"]
          /\ bmConn' = [b \in Bms |-> IF bmConn[b].cred = "manual" THEN [bmConn[b] EXCEPT !.status = "active"] ELSE bmConn[b]]
  /\ UNCHANGED <<login, adAcct, targets, allowed, assigned>>

(* setBusinessConnectionStatus *)
SetBusinessConnectionStatus(b, st) ==
  /\ Once /\ bmConn[b].cred # "none" /\ (st = "active" => credential[bmConn[b].cred] = "active")
  /\ bmConn' = [bmConn EXCEPT ![b].status = st]
  /\ UNCHANGED <<login, credential, adAcct, targets, allowed, assigned, ask>>

(* removeBusinessConnection: the last connection of a manual credential    *)
(* takes it along; the last of the login switches advanced routing off.    *)
RemoveBusinessConnection(b) ==
  LET src == bmConn[b].cred
      last == \A x \in Bms \ {b} : bmConn[x].cred # src
  IN
  /\ Once /\ src # "none"
  /\ DetachFrom({b}) /\ bmConn' = [bmConn EXCEPT ![b] = Unconnected]
  /\ credential' = IF last /\ src = "manual" THEN [credential EXCEPT !["manual"] = "none"] ELSE credential
  /\ integration' = IF last /\ src = "oauth" THEN [integration EXCEPT !.advanced = FALSE] ELSE integration
  /\ IF last /\ src = "manual" THEN Lose("manual") ELSE UNCHANGED ask
  /\ UNCHANGED <<snapshot, targets, allowed, assigned>>

(* testBusinessConnection: a connection Meta accepts is active, also one   *)
(* that was paused meanwhile; one it refuses needs validation.             *)
AskTest(r, b) ==
  /\ bmConn[b].cred # "none" /\ bmConn[b].dflt # NoTarget
  /\ BeginAsk(r, [NoAsk EXCEPT !.op = "test", !.pc = "write", !.src = bmConn[b].cred, !.bm = b])
  /\ UNCHANGED <<login, credential, routing>>

TestBusinessConnection(r) ==
  LET b == ask[r].bm IN
  /\ AskAt(r, "test", "write") /\ Ends(r)
  /\ IF bmConn[b].cred # ask[r].src \/ ~ask[r].held THEN UNCHANGED <<bmConn, credential>>
     ELSE \/ /\ bmConn' = [bmConn EXCEPT ![b].status = "active"]
             /\ credential' = [credential EXCEPT ![ask[r].src] = "active"]
          \/ bmConn' = [bmConn EXCEPT ![b].status = "validation_required"] /\ UNCHANGED credential
  /\ UNCHANGED <<login, adAcct, targets, allowed, assigned>>

(* setOAuthAdvancedRouting: every active account has an active business    *)
(* and a destination, and every active business has accounts.              *)
AskAdvanced(r, on) ==
  LET up == {b \in Bms : bmConn[b].cred = "oauth" /\ bmConn[b].status = "active"}
      live == {a \in AdAccounts : adAcct[a].active}
  IN
  /\ integration.on
  /\ on => /\ \A a \in live : adAcct[a].bm \in up /\ TargetsOf(a) # {}
           /\ up # {} /\ \A b \in up : bmConn[b].dflt # NoTarget /\ \E a \in live : adAcct[a].bm = b
  /\ BeginAsk(r, [NoAsk EXCEPT !.op = "advanced", !.pc = "write", !.replace = on])
  /\ UNCHANGED <<login, credential, routing>>

SetOAuthAdvancedRouting(r) ==
  /\ AskAt(r, "advanced", "write") /\ Ends(r)
  /\ integration' = IF integration.on THEN [integration EXCEPT !.advanced = ask[r].replace] ELSE integration
  /\ UNCHANGED <<snapshot, credential, routing>>

-----------------------------------------------------------------------------
(* Destinations of accounts and of the ad.                                 *)

(* setReportingAccountDestination: one destination per page, the default   *)
(* among the allowed ones; assignments to others go, and the ads are       *)
(* reconciled.                                                             *)
AskAccountDestination(r, a, t, ts) ==
  /\ adAcct[a].bm # NoBm /\ ts \subseteq targets /\ t \in ts \cup {NoTarget}
  /\ Cardinality(ts \cap SharedPage) <= 1
  /\ BeginAsk(r, [NoAsk EXCEPT !.op = "account", !.pc = "write", !.acct = a, !.to = t, !.tos = ts])
  /\ UNCHANGED <<login, credential, routing>>

SaveAccountDestination(r) ==
  LET q == ask[r] IN
  /\ AskAt(r, "account", "write")
  /\ adAcct' = [adAcct EXCEPT ![q.acct].to = q.to]
  /\ allowed' = {p \in allowed : p[1] # q.acct} \cup ({q.acct} \X q.tos)
  /\ assigned' = IF q.acct = HomeAccount /\ assigned.to \notin q.tos THEN Unassigned ELSE assigned
  /\ ask' = [ask EXCEPT ![r] = [NoAsk EXCEPT !.op = "reconcile", !.pc = "check", !.acct = q.acct]]
  /\ UNCHANGED <<login, credential, bmConn, targets, asked>>

(* A report sync reconciles the ads it has read. *)
SyncReconciles(r, a) ==
  /\ a \in SyncTargets
  /\ BeginAsk(r, [NoAsk EXCEPT !.op = "reconcile", !.pc = "check", !.acct = a])
  /\ UNCHANGED <<login, credential, routing>>

(* reconcileReportingAccount: an ad without a manual assignment gets the   *)
(* only destination that fits it, if the account has several.              *)
ReadReconcile(r) ==
  LET ts == TargetsOf(ask[r].acct)
      fit == Candidates(ts)
  IN
  /\ AskAt(r, "reconcile", "check")
  /\ ask' = [ask EXCEPT ![r].pc = "write",
               ![r].tos = IF ask[r].acct = HomeAccount /\ Cardinality(ts) > 1 /\ assigned.by # "manual" /\ Cardinality(fit) = 1 THEN fit ELSE {}]
  /\ UNCHANGED <<login, credential, routing, asked>>

(* A mistake: every assignment is deleted before the new ones are made. *)
WriteOver(r) ==
  /\ AskAt(r, "reconcile", "write") /\ Ends(r)
  /\ assigned' = CASE ask[r].acct # HomeAccount -> assigned
                   [] ask[r].acct = HomeAccount /\ ask[r].tos = {} -> Unassigned
                   [] OTHER -> [by |-> "automatic", to |-> CHOOSE t \in ask[r].tos : TRUE]
  /\ UNCHANGED <<login, credential, bmConn, adAcct, targets, allowed>>

(* Automatic assignments go; new ones do not replace what is there.        *)
WriteReconcile(r) ==
  /\ AskAt(r, "reconcile", "write") /\ Ends(r)
  /\ assigned' = CASE ask[r].acct # HomeAccount \/ assigned.by = "manual" -> assigned
                   [] ask[r].acct = HomeAccount /\ assigned.by # "manual" /\ ask[r].tos = {} -> Unassigned
                   [] OTHER -> [by |-> "automatic", to |-> CHOOSE t \in ask[r].tos : TRUE]
  /\ UNCHANGED <<login, credential, bmConn, adAcct, targets, allowed>>

(* setAdDestination: the destination must be one of the account's; none    *)
(* gives the ad back to the automatic choice.                              *)
AskAdDestination(r, t) ==
  LET ts == TargetsOf(HomeAccount) IN
  /\ adAcct[HomeAccount].bm # NoBm /\ t \in ts \cup {NoTarget}
  /\ BeginAsk(r, [NoAsk EXCEPT !.op = "ad", !.pc = "write", !.to = t, !.tos = IF Cardinality(Candidates(ts)) = 1 THEN Candidates(ts) ELSE {}])
  /\ UNCHANGED <<login, credential, routing>>

SaveAdDestination(r) ==
  LET q == ask[r] IN
  /\ AskAt(r, "ad", "write") /\ Ends(r)
  /\ assigned' = CASE q.to # NoTarget -> [by |-> "manual", to |-> q.to]
                   [] q.to = NoTarget /\ q.tos # {} -> [by |-> "automatic", to |-> CHOOSE t \in q.tos : TRUE]
                   [] OTHER -> Unassigned
  /\ UNCHANGED <<login, credential, bmConn, adAcct, targets, allowed>>

(* Meta, or the database, refuses; a test is answered above. *)
MetaRefuses(r) ==
  /\ ask[r].op \in {"credential", "prepare", "connect", "rotate", "account", "reconcile"}
  /\ Ends(r) /\ UNCHANGED <<login, credential, routing>>

-----------------------------------------------------------------------------
MetaNext ==
  \/ \E r \in Asks :
       \/ AskCredential(r) \/ SaveCredential(r) \/ AskPrepare(r) \/ SavePrepared(r) \/ AskOAuth(r) \/ SaveOAuthConnection(r)
       \/ \E b \in Bms \cup {NoBm} : AskAssets(r, b)
       \/ RefreshAssets(r)
       \/ \E s \in Sources, b \in Bms, as \in (SUBSET AdAccounts) \ {{}}, t \in Targets, rep \in BOOLEAN : AskConnect(r, s, b, as, t, rep)
       \/ CheckConnect(r) \/ CommitConnect(r) \/ AskRotate(r) \/ RotateCredential(r)
       \/ \E b \in Bms : AskTest(r, b)
       \/ TestBusinessConnection(r)
       \/ \E on \in BOOLEAN : AskAdvanced(r, on)
       \/ SetOAuthAdvancedRouting(r)
       \/ \E a \in AdAccounts, t \in Targets \cup {NoTarget}, ts \in SUBSET Targets : AskAccountDestination(r, a, t, ts)
       \/ SaveAccountDestination(r) \/ ReadReconcile(r) \/ WriteReconcile(r)
       \/ \E a \in AdAccounts : SyncReconciles(r, a)
       \/ \E t \in Targets \cup {NoTarget} : AskAdDestination(r, t)
       \/ SaveAdDestination(r) \/ MetaRefuses(r)
  \/ DisconnectOAuthConnection
  \/ \E b \in Bms : SaveAssetSelection(b) \/ RemoveBusinessConnection(b)
  \/ \E b \in Bms, st \in {"active", "paused"} : SetBusinessConnectionStatus(b, st)
  \/ \E set \in BOOLEAN : SaveCapiToken(set)
  \/ \E t \in Targets : SaveConversionDestination(t)
  \/ \E a \in AdAccounts : SaveReportingAccount(a)
  \/ \E a \in AdAccounts, on \in BOOLEAN : SetReportingAccountActive(a, on)

MetaSpec == MetaInit /\ [][MetaNext]_metaVars

-----------------------------------------------------------------------------
(* The destination an operator chose for an ad stays his: a reconciliation *)
(* that read the assignments before he chose never changes it.             *)
ManualStays ==
  assigned.by = "manual" /\ assigned' # assigned
     => \E r \in Asks : ask[r].op \in {"ad", "account"} /\ ask'[r] # ask[r]

(* Nothing routes through a login that was disconnected: without the       *)
(* integration no business connection uses its credential, also when one   *)
(* was being made meanwhile.                                               *)
DisconnectedRoutesNothing == \A b \in Bms : bmConn[b].cred = "oauth" => integration.on

(* A conversion of the ad goes nowhere, or to a destination that somebody  *)
(* set up, whatever account, business or ad it was assigned through.       *)
SendsToConfigured == Normalized => CapiRoute \in targets \cup {NoTarget}

(* All three, and the types, while connections are made, tested, rotated and    *)
(* undone and ads assigned and reconciled (MetaManualConnectionsService,   *)
(* MetaConnectionsService, MetaAdDestinationRoutingService).               *)
MetaRoutesSafe == [][MetaTypeOK' /\ ManualStays /\ DisconnectedRoutesNothing' /\ SendsToConfigured']_metaVars
=============================================================================
