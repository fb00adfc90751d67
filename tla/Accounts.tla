------------------------------- MODULE Accounts -------------------------------
(***************************************************************************)
(* Users, sessions, single-use links and platform roles: AuthService,      *)
(* PlatformAdminService, the bootstrap of the first owner, and the part of *)
(* PlatformWorkspaceAccessService that provisions the owner of a client.   *)
(*                                                                         *)
(* A request is read ... commit; requests interleave in between.  Writers  *)
(* of platform roles and of activation links hold an advisory lock of the  *)
(* installation for the length of their transaction.                       *)
(***************************************************************************)
EXTENDS Naturals, FiniteSets

CONSTANTS
  Users,        \* e-mail addresses, each with at most one account
  Tokens,       \* bound: AuthActionToken rows
  Sessions,     \* bound: AuthSession rows
  Requests,     \* bound: requests under way at a time
  MaxRequested, \* bound: requests to this component
  NoUser, NoToken, NoRequest,
  Limit         \* failed logins, or requests of a link, per window and user

ASSUME AccountsAssumption ==
  MaxRequested \in Nat /\ Limit \in Nat /\ NoRequest \notin Requests

VARIABLES
  user,     \* User
  token,    \* AuthActionToken
  session,  \* AuthSession
  lock,     \* acquirePlatformRoleLock: the request that holds it
  areq,     \* a request under way
  requested, \* requests so far
  tries,    \* audit rows a rate limit counts, as far as the limit
  effects   \* ghost: how often a link took effect

accountVars == <<user, token, session, lock, areq, requested, tries, effects>>

Roles == {"none", "operator", "owner"}

Types == {"reset", "verify", "activate"}

Limited == {"login", "reset", "verify"}

UserRecs == [in : BOOLEAN, pw : Nat, role : Roles, verified : BOOLEAN, google : BOOLEAN, client : BOOLEAN]

Absent == [in |-> FALSE, pw |-> 0, role |-> "none", verified |-> FALSE, google |-> FALSE, client |-> FALSE]

NoTokenRec == [state |-> "none", type |-> "reset", u |-> NoUser, client |-> FALSE]

NoSession == [u |-> NoUser, live |-> FALSE, pw |-> 0, support |-> FALSE]

Idle == [pc |-> "idle", op |-> "none", u |-> NoUser, t |-> NoToken, pw |-> 0, seen |-> {}]

TokenRecs == [state : {"none", "unused", "used"}, type : Types, u : Users \cup {NoUser}, client : BOOLEAN]

SessionRecs == [u : Users \cup {NoUser}, live : BOOLEAN, pw : Nat, support : BOOLEAN]

RequestRecs ==
  [pc : {"idle", "commit", "open", "lock", "read", "write", "record", "note"},
   op : Types \cup Roles \cup {"register", "login", "google", "join", "invite", "client", "link"},
   u : Users \cup {NoUser}, t : Tokens \cup {NoToken}, pw : Nat, seen : SUBSET Tokens]

AccountTypeOK ==
  /\ user \in [Users -> UserRecs]
  /\ token \in [Tokens -> TokenRecs]
  /\ session \in [Sessions -> SessionRecs]
  /\ lock \in Requests \cup {NoRequest}
  /\ areq \in [Requests -> RequestRecs]
  /\ requested \in 0..MaxRequested
  /\ tries \in [Users -> [Limited -> 0..Limit]]
  /\ effects \in [Tokens -> Nat]

(* bootstrapPlatformAdminUser created, or promoted, the first owner, who   *)
(* may have made others owners since.                                      *)
AccountInit ==
  /\ \E owners \in (SUBSET Users) \ {{}} :
       user = [u \in Users |-> IF u \in owners
                               THEN [Absent EXCEPT !.in = TRUE, !.pw = 1, !.role = "owner", !.verified = TRUE]
                               ELSE Absent]
  /\ token = [t \in Tokens |-> NoTokenRec]
  /\ session = [s \in Sessions |-> NoSession]
  /\ lock = NoRequest
  /\ areq = [r \in Requests |-> Idle] /\ requested = 0
  /\ tries = [u \in Users |-> [w \in Limited |-> 0]]
  /\ effects = [t \in Tokens |-> 0]

Begin(r, q) ==
  /\ areq[r] = Idle /\ requested < MaxRequested
  /\ areq' = [areq EXCEPT ![r] = q] /\ requested' = requested + 1

Becomes(r, q) == areq' = [areq EXCEPT ![r] = q] /\ UNCHANGED requested

Goto(r, pc) == Becomes(r, [areq[r] EXCEPT !.pc = pc])

Finish(r) == Becomes(r, Idle)

Owners == {u \in Users : user[u].role = "owner"}

-----------------------------------------------------------------------------
(* Signing in and out.                                                     *)

(* register: the address is looked up, and again under the locks. *)
Register(r, u) ==
  /\ ~user[u].in
  /\ Begin(r, [Idle EXCEPT !.pc = "lock", !.op = "register", !.u = u])
  /\ UNCHANGED <<user, token, session, lock, tries, effects>>

CommitRegister(r) ==
  LET u == areq[r].u IN
  /\ areq[r].pc = "read" /\ areq[r].op = "register"
  /\ IF user[u].in THEN UNCHANGED user /\ Finish(r)
     ELSE /\ user' = [user EXCEPT ![u] = [Absent EXCEPT !.in = TRUE, !.pw = 1, !.client = TRUE]]
          /\ Becomes(r, [areq[r] EXCEPT !.pc = "open", !.pw = 1])
  /\ lock' = NoRequest
  /\ UNCHANGED <<token, session, tries, effects>>

(* assertLoginNotRateLimited.  Every limit counts first and records later: *)
(* requests that overlap may all be let in.                                *)
LoginAllowed(u) == tries[u]["login"] < Limit

(* login: the limit, then the password as it is read now. *)
LogIn(r, u) ==
  /\ user[u].pw > 0 /\ LoginAllowed(u)
  /\ Begin(r, [Idle EXCEPT !.pc = "open", !.op = "login", !.u = u, !.pw = user[u].pw])
  /\ UNCHANGED <<user, token, session, lock, tries, effects>>

(* validateEmailLogin: no such account, no password or a wrong one. *)
LogInFails(r, u) ==
  /\ LoginAllowed(u)
  /\ Begin(r, [Idle EXCEPT !.pc = "note", !.op = "login", !.u = u])
  /\ UNCHANGED <<user, token, session, lock, tries, effects>>

(* recordLoginFailure, recordPasswordResetRequest and                      *)
(* recordEmailVerificationRequest: the request goes on, or was over, also  *)
(* when the audit row cannot be written.                                   *)
Record(r) ==
  LET q == areq[r]
      n == tries[q.u][q.op] IN
  /\ q.pc \in {"record", "note"}
  /\ \/ tries' = [tries EXCEPT ![q.u][q.op] = IF n < Limit THEN n + 1 ELSE n]
     \/ UNCHANGED tries
  /\ IF q.pc = "record" THEN Goto(r, "read") ELSE Finish(r)
  /\ UNCHANGED <<user, token, session, lock, effects>>

(* Only the rows of the last minutes, or hour, are counted. *)
WindowPasses(u, w) ==
  /\ \E n \in 0..Limit : n < tries[u][w] /\ tries' = [tries EXCEPT ![u][w] = n]
  /\ UNCHANGED <<user, token, session, lock, areq, requested, effects>>

(* authenticateGoogleProfile: a known Google id, or the address is linked. *)
GoogleLogIn(r, u) ==
  /\ user[u].in
  /\ Begin(r, [Idle EXCEPT !.pc = IF user[u].google THEN "open" ELSE "commit", !.op = "google", !.u = u, !.pw = user[u].pw])
  /\ UNCHANGED <<user, token, session, lock, tries, effects>>

LinkGoogle(r) ==
  /\ areq[r].pc = "commit" /\ areq[r].op = "google"
  /\ user' = [user EXCEPT ![areq[r].u].google = TRUE, ![areq[r].u].verified = TRUE]
  /\ Goto(r, "open")
  /\ UNCHANGED <<token, session, lock, tries, effects>>

(* acceptInviteForNewUser: the account as it is looked up, as the          *)
(* transaction reads it, and the password written by id.                   *)
Join(r, u) ==
  /\ user[u].pw = 0
  /\ Begin(r, [Idle EXCEPT !.pc = "commit", !.op = "join", !.u = u])
  /\ UNCHANGED <<user, token, session, lock, tries, effects>>

CommitJoin(r) ==
  /\ areq[r].pc = "commit" /\ areq[r].op = "join"
  /\ IF user[areq[r].u].pw = 0 THEN Goto(r, "write") ELSE Finish(r)
  /\ UNCHANGED <<user, token, session, lock, tries, effects>>

NewSession(u, pw) ==
  \E s \in Sessions :
    /\ session[s] = NoSession
    /\ session' = [session EXCEPT ![s] = [u |-> u, live |-> TRUE, pw |-> pw, support |-> FALSE]]

WriteJoin(r) ==
  LET u == areq[r].u IN
  /\ areq[r].pc = "write" /\ areq[r].op = "join"
  /\ user' = [user EXCEPT ![u].in = TRUE, ![u].pw = @ + 1, ![u].verified = TRUE]
  /\ NewSession(u, user[u].pw + 1)
  /\ Finish(r)
  /\ UNCHANGED <<token, lock, tries, effects>>

OpenSession(r) ==
  /\ areq[r].pc = "open"
  /\ NewSession(areq[r].u, areq[r].pw)
  /\ Finish(r)
  /\ UNCHANGED <<user, token, lock, tries, effects>>

LogOut(s) ==
  /\ session[s].live
  /\ session' = [session EXCEPT ![s].live = FALSE, ![s].support = FALSE]
  /\ UNCHANGED <<user, token, lock, areq, requested, tries, effects>>

(* setSupportWorkspace, for who has a platform role. *)
SupportWorkspace(s) ==
  /\ session[s].live /\ user[session[s].u].role # "none"
  /\ session' = [session EXCEPT ![s].support = ~@]
  /\ UNCHANGED <<user, token, lock, areq, requested, tries, effects>>

-----------------------------------------------------------------------------
(* Links that are used once.                                               *)

(* isPasswordResetRequestRateLimited. *)
ResetAllowed(u) == tries[u]["reset"] < Limit

(* requestPasswordReset counts, records in any case, then issues. *)
RequestReset(r, u) ==
  /\ Begin(r, [Idle EXCEPT !.pc = IF user[u].pw > 0 /\ ResetAllowed(u) THEN "record" ELSE "note",
                           !.op = "reset", !.u = u])
  /\ UNCHANGED <<user, token, session, lock, tries, effects>>

(* isEmailVerificationRequestRateLimited. *)
VerificationAllowed(u) == tries[u]["verify"] < Limit

(* requestEmailVerificationForUser counts, issues, then records. *)
RequestVerification(r, u) ==
  /\ user[u].in
  /\ Begin(r, [Idle EXCEPT !.pc = IF ~user[u].verified /\ VerificationAllowed(u) THEN "read" ELSE "note",
                           !.op = "verify", !.u = u])
  /\ UNCHANGED <<user, token, session, lock, tries, effects>>

TokenTypeOf(op) == IF op \in {"reset", "verify"} THEN op ELSE "activate"

Outstanding(u, type) == {t \in Tokens : token[t].u = u /\ token[t].type = type /\ token[t].state = "unused"}

MayActivate(u) == user[u].pw = 0 /\ (user[u].client \/ user[u].role = "operator")

(* The links that the transaction's first statement sees; an activation    *)
(* link for who is activated, or is nobody's owner or operator, is refused. *)
ReadLinks(r) ==
  LET q == areq[r]
      refused == q.op = "link" /\ ~MayActivate(q.u) IN
  /\ q.pc = "read" /\ q.op \in {"reset", "verify", "link"}
  /\ IF refused THEN Finish(r)
     ELSE Becomes(r, [q EXCEPT !.pc = "write", !.seen = Outstanding(q.u, TokenTypeOf(q.op))])
  /\ lock' = IF refused THEN NoRequest ELSE lock
  /\ UNCHANGED <<user, token, session, tries, effects>>

(* They are used up, and the new one is inserted. *)
IssueLink(r) ==
  LET q == areq[r] IN
  /\ q.pc = "write" /\ q.op \in {"reset", "verify", "link"}
  /\ \E new \in Tokens :
       /\ token[new].state = "none"
       /\ token' = [t \in Tokens |->
            IF t = new THEN [state |-> "unused", type |-> TokenTypeOf(q.op), u |-> q.u, client |-> user[q.u].client]
            ELSE IF t \in q.seen THEN [token[t] EXCEPT !.state = "used"] ELSE token[t]]
  /\ IF q.op = "verify" THEN Goto(r, "note") ELSE Finish(r)
  /\ lock' = IF lock = r THEN NoRequest ELSE lock
  /\ UNCHANGED <<user, session, tries, effects>>

(* resetPassword, confirmEmailVerification, activateProvisionedAccount:    *)
(* the link is looked up; the password is hashed meanwhile.                *)
UseLink(r, t) ==
  /\ token[t].state = "unused"
  /\ token[t].type = "activate" => user[token[t].u].pw = 0
  /\ Begin(r, [Idle EXCEPT !.pc = IF token[t].type = "activate" THEN "lock" ELSE "commit",
                           !.op = token[t].type, !.u = token[t].u, !.t = t])
  /\ UNCHANGED <<user, token, session, lock, tries, effects>>

(* consumeActionTokenInTransaction. *)
Consumable(t) == token[t].state = "unused"

Consume(t) ==
  /\ token' = [x \in Tokens |-> IF token[x].u = token[t].u /\ token[x].type = token[t].type /\ token[x].state = "unused"
                                  THEN [token[x] EXCEPT !.state = "used"] ELSE token[x]]
  /\ effects' = [effects EXCEPT ![t] = @ + 1]

CommitReset(r) ==
  LET u == areq[r].u IN
  /\ areq[r].pc = "commit" /\ areq[r].op = "reset"
  /\ IF Consumable(areq[r].t)
       THEN /\ Consume(areq[r].t)
            /\ user' = [user EXCEPT ![u].pw = @ + 1]
            /\ session' = [s \in Sessions |-> IF session[s].u = u
                                               THEN [session[s] EXCEPT !.live = FALSE, !.support = FALSE] ELSE session[s]]
       ELSE UNCHANGED <<token, effects, user, session>>
  /\ Finish(r)
  /\ UNCHANGED <<lock, tries>>

CommitVerification(r) ==
  /\ areq[r].pc = "commit" /\ areq[r].op = "verify"
  /\ IF Consumable(areq[r].t)
       THEN Consume(areq[r].t) /\ user' = [user EXCEPT ![areq[r].u].verified = TRUE]
       ELSE UNCHANGED <<token, effects, user>>
  /\ Finish(r)
  /\ UNCHANGED <<session, lock, tries>>

(* The owner of a client, or an operator; the session opens in the same    *)
(* transaction.                                                            *)
CommitActivation(r) ==
  LET u == areq[r].u
      t == areq[r].t IN
  /\ areq[r].pc = "read" /\ areq[r].op = "activate"
  /\ IF Consumable(t) /\ user[u].pw = 0 /\ (token[t].client \/ user[u].role = "operator")
       THEN /\ Consume(t) /\ NewSession(u, 1)
            /\ user' = [user EXCEPT ![u].pw = 1, ![u].verified = TRUE]
       ELSE UNCHANGED <<token, effects, user, session>>
  /\ Finish(r)
  /\ lock' = NoRequest
  /\ UNCHANGED tries

-----------------------------------------------------------------------------
(* Writers under the lock.                                                 *)

LockRole(r) ==
  /\ areq[r].pc = "lock" /\ lock = NoRequest
  /\ lock' = r
  /\ Goto(r, "read")
  /\ UNCHANGED <<user, token, session, tries, effects>>

(* An owner signed in when the request began. *)
ByOwner(r, q) == Owners # {} /\ Begin(r, q) /\ UNCHANGED <<user, token, session, lock, tries, effects>>

(* invitePlatformOperator, reissuePlatformOperatorInvitation. *)
InviteOperator(r, u) == ByOwner(r, [Idle EXCEPT !.pc = "lock", !.op = "invite", !.u = u])

(* createWorkspace; the responsible may be an account that exists. *)
ProvisionClient(r, u) ==
  user[u].role = "none" /\ ByOwner(r, [Idle EXCEPT !.pc = "lock", !.op = "client", !.u = u])

(* reissueClientOwnerActivation, createClientOwnerActivationLink. *)
ActivationLink(r, u) == ByOwner(r, [Idle EXCEPT !.pc = "lock", !.op = "link", !.u = u])

(* assertResponsibleCanBeProvisioned: nobody of the platform; an operator  *)
(* is invited again, and no other account.                                 *)
Provisionable(u, op) ==
  ~user[u].in \/ (user[u].role = IF op = "invite" THEN "operator" ELSE "none")

(* The account of the owner of the new workspace, which may exist. *)
ClientAccount(u) ==
  IF user[u].in THEN [user[u] EXCEPT !.client = TRUE] ELSE [Absent EXCEPT !.in = TRUE, !.client = TRUE]

OperatorAccount(u) == IF user[u].in THEN user[u] ELSE [Absent EXCEPT !.in = TRUE, !.role = "operator"]

(* The account is created, or taken as it is; who has no password gets a   *)
(* link, in the same transaction.                                          *)
Provision(r) ==
  LET q == areq[r]
      u == q.u IN
  /\ q.pc = "read" /\ q.op \in {"invite", "client"}
  /\ IF Provisionable(u, q.op)
       THEN /\ user' = [user EXCEPT ![u] = IF q.op = "invite" THEN OperatorAccount(u) ELSE ClientAccount(u)]
            /\ IF user[u].pw = 0
                 THEN Becomes(r, [q EXCEPT !.op = "link"]) /\ UNCHANGED lock
                 ELSE Finish(r) /\ lock' = NoRequest
       ELSE UNCHANGED user /\ Finish(r) /\ lock' = NoRequest
  /\ UNCHANGED <<token, session, tries, effects>>

(* updatePlatformUserRole, by another owner or to the same role. *)
ChangeRole(r, by, u, role) ==
  /\ user[by].role = "owner" /\ (u = by => role = "owner")
  /\ Begin(r, [Idle EXCEPT !.pc = "lock", !.op = role, !.u = u])
  /\ UNCHANGED <<user, token, session, lock, tries, effects>>

(* Mutant of MayChange: the owners are not counted. *)
MayChangeAny(u, role) == user[u].role # "none" /\ (role = "owner" => user[u].pw > 0)

MayChange(u, role) ==
  /\ user[u].role # "none"
  /\ user[u].role = "owner" /\ role # "owner" => Cardinality(Owners) > 1
  /\ role = "owner" /\ user[u].role = "operator" => user[u].pw > 0

CommitRole(r) ==
  LET q == areq[r] IN
  /\ q.pc = "read" /\ q.op \in Roles
  /\ user' = IF MayChange(q.u, q.op) THEN [user EXCEPT ![q.u].role = q.op] ELSE user
  /\ lock' = NoRequest
  /\ Finish(r)
  /\ UNCHANGED <<token, session, tries, effects>>

-----------------------------------------------------------------------------
AccountStep(r) ==
  \/ CommitRegister(r) \/ LinkGoogle(r) \/ OpenSession(r) \/ Record(r)
  \/ ReadLinks(r) \/ IssueLink(r) \/ CommitJoin(r) \/ WriteJoin(r)
  \/ CommitReset(r) \/ CommitVerification(r) \/ CommitActivation(r)
  \/ LockRole(r) \/ Provision(r) \/ CommitRole(r)

AccountNext ==
  \/ \E r \in Requests :
       \/ AccountStep(r)
       \/ \E u \in Users :
            \/ Register(r, u) \/ LogIn(r, u) \/ LogInFails(r, u) \/ GoogleLogIn(r, u) \/ Join(r, u)
            \/ RequestReset(r, u) \/ RequestVerification(r, u)
            \/ InviteOperator(r, u) \/ ProvisionClient(r, u) \/ ActivationLink(r, u)
            \/ \E by \in Users, role \in Roles : ChangeRole(r, by, u, role)
       \/ \E t \in Tokens : UseLink(r, t)
  \/ \E s \in Sessions : LogOut(s) \/ SupportWorkspace(s)
  \/ \E u \in Users, w \in Limited : WindowPasses(u, w)

AccountSpec == AccountInit /\ [][AccountNext]_accountVars

-----------------------------------------------------------------------------
(* The installation keeps an owner who can sign in, whatever owners do to  *)
(* each other at the same time.                                            *)
OwnerRemains == \E u \in Users : user[u].role = "owner" /\ user[u].pw > 0

(* Of the activation links of a user at most one is good, and no link of   *)
(* any kind takes effect twice.                                            *)
LinksGoodOnce ==
  /\ \A u \in Users : Cardinality(Outstanding(u, "activate")) <= 1
  /\ \A t \in Tokens : effects[t] <= 1

(* Both, and the types, in every interleaving of sign-ins, links and role  *)
(* changes (AuthService, PlatformAdminService,                             *)
(* PlatformWorkspaceAccessService).                                        *)
AccountsSafe == AccountTypeOK /\ OwnerRemains /\ LinksGoodOnce
=============================================================================
