--------------------------- MODULE WorkspaceProofs ---------------------------
(***************************************************************************)
(* Proofs about Accounts, Teams, MetaConnections and ChannelRoutes, for    *)
(* every value of their constants: the installation keeps an owner, links  *)
(* are good once, nobody joins a workspace through an invitation that is   *)
(* no longer good, its conversions go to destinations that somebody set    *)
(* up, never through a login that was disconnected, and an event that was  *)
(* taken keeps the destination its route gave it.                          *)
(***************************************************************************)
EXTENDS Accounts, Teams, MetaConnections, ChannelRoutes, FiniteSetTheorems, TLAPS

USE DEF ActivateSession

(* A set whose members are all equal. *)
LEMMA AtMostOne ==
  ASSUME NEW S, \A x \in S, y \in S : x = y
  PROVE  Cardinality(S) <= 1
<1>1. CASE S = {}
  BY <1>1, FS_EmptySet
<1>2. CASE S # {}
  <2>1. PICK x \in S : S = {x}
    BY <1>2
  <2> QED
    BY <2>1, FS_Singleton
<1> QED
  BY <1>1, <1>2

-----------------------------------------------------------------------------
(* Accounts.                                                               *)

(* Who records an audit row knows for which limit. *)
Noted(q) == (q.pc = "record" => q.op = "reset") /\ (q.pc = "note" => q.op \in Limited)

(* Those at work work for a user, and so does a link. *)
AtWork ==
  /\ \A r \in Requests : (areq[r].pc # "idle" => areq[r].u \in Users) /\ Noted(areq[r])
  /\ \A t \in Tokens : token[t].state # "none" => token[t].u \in Users

OwnerCanSignIn ==
  /\ \A u \in Users : (user[u].role # "none" => user[u].in) /\ (user[u].role = "owner" => user[u].pw > 0)
  /\ \E u \in Users : user[u].role = "owner"

(* The part of a request that is a transaction under the lock. *)
UnderLock(q) == q.pc \in {"read", "write"} /\ q.op \notin {"reset", "verify", "join"}

LockHeld == \A r \in Requests : UnderLock(areq[r]) => lock = r

(* A link about to be issued knows every activation link it replaces. *)
SeenAll ==
  \A r \in Requests :
    /\ areq[r].pc = "write" /\ areq[r].op = "link" => Outstanding(areq[r].u, "activate") \subseteq areq[r].seen
    /\ \A t \in areq[r].seen : token[t].state # "none"

OneGood ==
  \A u \in Users : \A s \in Outstanding(u, "activate"), t \in Outstanding(u, "activate") : s = t

EffectOnce ==
  \A t \in Tokens : effects[t] <= 1 /\ (token[t].state # "used" => effects[t] = 0)

AccountsInv == AccountTypeOK /\ AtWork /\ OwnerCanSignIn /\ LockHeld /\ SeenAll /\ OneGood /\ EffectOnce

LEMMA AccountsInitially == AccountInit => AccountsInv
<1> SUFFICES ASSUME AccountInit PROVE AccountsInv
  OBVIOUS
<1>1. PICK owners \in (SUBSET Users) \ {{}} :
        user = [u \in Users |-> IF u \in owners
                               THEN [Absent EXCEPT !.in = TRUE, !.pw = 1, !.role = "owner", !.verified = TRUE]
                               ELSE Absent]
  BY DEF AccountInit
<1>2. user \in [Users -> UserRecs]
  <2>1. Absent \in UserRecs /\ [Absent EXCEPT !.in = TRUE, !.pw = 1, !.role = "owner", !.verified = TRUE] \in UserRecs
    BY DEF UserRecs, Absent, Roles
  <2> QED
    BY <1>1, <2>1
<1>3. OwnerCanSignIn
  <2> DEFINE first == [Absent EXCEPT !.in = TRUE, !.pw = 1, !.role = "owner", !.verified = TRUE]
  <2>1. first.in /\ first.pw = 1 /\ first.role = "owner" /\ Absent.role = "none"
    BY DEF Absent
  <2>2. \A u \in Users : user[u] = IF u \in owners THEN first ELSE Absent
    BY <1>1
  <2> HIDE DEF first
  <2>3. \A u \in Users : user[u] = first \/ user[u] = Absent
    BY <2>2
  <2>4. \E u \in Users : user[u] = first
    <3>1. PICK u \in owners : u \in Users
      BY <1>1
    <3> QED
      BY <2>2, <3>1
  <2> QED
    BY <2>1, <2>3, <2>4 DEF OwnerCanSignIn
<1>4. token \in [Tokens -> TokenRecs] /\ session \in [Sessions -> SessionRecs] /\ areq \in [Requests -> RequestRecs]
  BY DEF AccountInit, TokenRecs, SessionRecs, RequestRecs, NoTokenRec, NoSession, Idle, Types, Roles
<1>5. requested \in 0..MaxRequested /\ effects \in [Tokens -> Nat]
      /\ tries \in [Users -> [Limited -> 0..Limit]]
  BY AccountsAssumption DEF AccountInit
<1>6. AtWork /\ LockHeld /\ SeenAll /\ OneGood /\ EffectOnce
  BY DEF AccountInit, AtWork, Noted, LockHeld, UnderLock, SeenAll, OneGood, Outstanding, EffectOnce, NoTokenRec, Idle
<1> QED
  BY <1>2, <1>3, <1>4, <1>5, <1>6 DEF AccountsInv, AccountTypeOK, AccountInit

(* What a step does to the users: somebody's record is replaced, and an    *)
(* owner who is not the last may cease to be one.                          *)
LEMMA UserReplaced ==
  ASSUME user \in [Users -> UserRecs], OwnerCanSignIn, NEW u \in Users, NEW x \in UserRecs,
         user' = [user EXCEPT ![u] = x],
         x.role # "none" => x.in, x.role = "owner" => x.pw > 0,
         user[u].role = "owner" /\ x.role # "owner" => \E v \in Users \ {u} : user[v].role = "owner"
  PROVE  user' \in [Users -> UserRecs] /\ OwnerCanSignIn'
BY DEF OwnerCanSignIn

(* Users and links are written by the steps of a request that was begun. *)
LEMMA BegunBeforeWritten ==
  ASSUME [AccountNext]_accountVars
  PROVE  UNCHANGED <<user, token, effects>> \/ \E r \in Requests : AccountStep(r)
<1>1. ASSUME NEW r \in Requests, NEW u \in Users,
             \/ Register(r, u) \/ LogIn(r, u) \/ LogInFails(r, u) \/ GoogleLogIn(r, u) \/ Join(r, u)
             \/ RequestReset(r, u) \/ RequestVerification(r, u)
             \/ InviteOperator(r, u) \/ ProvisionClient(r, u) \/ ActivationLink(r, u)
      PROVE  UNCHANGED <<user, token, effects>>
  BY <1>1 DEF Register, LogIn, LogInFails, GoogleLogIn, Join, RequestReset, RequestVerification,
              InviteOperator, ProvisionClient, ActivationLink, ByOwner
<1>2. ASSUME NEW r \in Requests, NEW u \in Users, NEW by \in Users, NEW role \in Roles, ChangeRole(r, by, u, role)
      PROVE  UNCHANGED <<user, token, effects>>
  BY <1>2 DEF ChangeRole
<1>3. ASSUME NEW r \in Requests, NEW t \in Tokens, UseLink(r, t)
      PROVE  UNCHANGED <<user, token, effects>>
  BY <1>3 DEF UseLink
<1>4. ASSUME NEW s \in Sessions, LogOut(s) \/ SupportWorkspace(s)
      PROVE  UNCHANGED <<user, token, effects>>
  BY <1>4 DEF LogOut, SupportWorkspace
<1>5. ASSUME NEW u \in Users, NEW w \in Limited, WindowPasses(u, w)
      PROVE  UNCHANGED <<user, token, effects>>
  BY <1>5 DEF WindowPasses
<1>6. CASE UNCHANGED accountVars
  BY <1>6 DEF accountVars
<1>7. CASE AccountNext
  BY <1>1, <1>2, <1>3, <1>4, <1>5, <1>7, Zenon DEF AccountNext
<1> QED
  BY <1>6, <1>7

LEMMA UserSteps ==
  ASSUME AccountsInv, [AccountNext]_accountVars
  PROVE  user' \in [Users -> UserRecs] /\ OwnerCanSignIn'
<1> DEFINE Goal == user' \in [Users -> UserRecs] /\ OwnerCanSignIn'
<1>0. /\ user \in [Users -> UserRecs] /\ OwnerCanSignIn
      /\ \A r \in Requests : areq[r].pc # "idle" => areq[r].u \in Users /\ user[areq[r].u] \in UserRecs
  BY DEF AccountsInv, AccountTypeOK, AtWork
<1>1. ASSUME UNCHANGED user PROVE Goal
  BY <1>0, <1>1 DEF OwnerCanSignIn
<1>2. ASSUME NEW r \in Requests, CommitRegister(r) PROVE Goal
  <2>1. areq[r].u \in Users
    BY <1>0, <1>2 DEF CommitRegister
  <2>2. CASE ~user[areq[r].u].in
    <3>1. [Absent EXCEPT !.in = TRUE, !.pw = 1, !.client = TRUE] \in UserRecs
          /\ [Absent EXCEPT !.in = TRUE, !.pw = 1, !.client = TRUE].role = "none"
      BY DEF Absent, UserRecs, Roles
    <3>2. user[areq[r].u].role # "owner"
      BY <1>0, <2>1, <2>2 DEF OwnerCanSignIn
    <3> QED
      BY <1>0, <1>2, <2>1, <2>2, <3>1, <3>2, UserReplaced DEF CommitRegister
  <2> QED
    BY <1>1, <1>2, <2>2 DEF CommitRegister
<1>3. ASSUME NEW u \in Users, NEW x \in UserRecs, user' = [user EXCEPT ![u] = x],
             x.role = user[u].role, user[u].in => x.in, user[u].pw > 0 => x.pw > 0
      PROVE  Goal
  BY <1>0, <1>3, UserReplaced DEF OwnerCanSignIn
<1>4. ASSUME NEW r \in Requests, LinkGoogle(r) PROVE Goal
  <2> DEFINE x == [user[areq[r].u] EXCEPT !.google = TRUE, !.verified = TRUE]
  <2>1. areq[r].u \in Users /\ user[areq[r].u] \in UserRecs
    BY <1>0, <1>4 DEF LinkGoogle
  <2>2. x \in UserRecs /\ x.role = user[areq[r].u].role /\ x.in = user[areq[r].u].in /\ x.pw = user[areq[r].u].pw
    BY <2>1 DEF UserRecs
  <2>3. user' = [user EXCEPT ![areq[r].u] = x]
    BY <1>4 DEF LinkGoogle
  <2> QED
    BY <1>3, <2>1, <2>2, <2>3
<1>5. ASSUME NEW r \in Requests, WriteJoin(r) PROVE Goal
  <2>1. areq[r].u \in Users
    BY <1>0, <1>5 DEF WriteJoin
  <2>2. user' = [user EXCEPT ![areq[r].u].in = TRUE, ![areq[r].u].pw = @ + 1, ![areq[r].u].verified = TRUE]
    BY <1>5 DEF WriteJoin
  <2>3. CASE user' = [user EXCEPT ![areq[r].u].in = TRUE, ![areq[r].u].pw = @ + 1, ![areq[r].u].verified = TRUE]
    <3>1. /\ user' \in [Users -> UserRecs]
          /\ user'[areq[r].u].role = user[areq[r].u].role /\ user'[areq[r].u].pw > 0
          /\ user[areq[r].u].in => user'[areq[r].u].in
          /\ \A v \in Users \ {areq[r].u} : user'[v] = user[v]
      BY <1>0, <2>1, <2>3 DEF UserRecs
    <3> QED
      BY <1>0, <2>1, <3>1 DEF OwnerCanSignIn
  <2> QED
    BY <1>1, <2>2, <2>3
<1>6. ASSUME NEW r \in Requests, CommitReset(r) PROVE Goal
  <2> DEFINE x == [user[areq[r].u] EXCEPT !.pw = @ + 1]
  <2>1. areq[r].u \in Users /\ user[areq[r].u] \in UserRecs
    BY <1>0, <1>6 DEF CommitReset
  <2>2. x \in UserRecs /\ x.role = user[areq[r].u].role /\ x.in = user[areq[r].u].in /\ x.pw > 0
    BY <2>1 DEF UserRecs
  <2>3. user' = user \/ user' = [user EXCEPT ![areq[r].u] = x]
    BY <1>6 DEF CommitReset
  <2> QED
    BY <1>1, <1>3, <2>1, <2>2, <2>3
<1>7. ASSUME NEW r \in Requests, CommitVerification(r) PROVE Goal
  <2> DEFINE x == [user[areq[r].u] EXCEPT !.verified = TRUE]
  <2>1. areq[r].u \in Users /\ user[areq[r].u] \in UserRecs
    BY <1>0, <1>7 DEF CommitVerification
  <2>2. x \in UserRecs /\ x.role = user[areq[r].u].role /\ x.in = user[areq[r].u].in /\ x.pw = user[areq[r].u].pw
    BY <2>1 DEF UserRecs
  <2>3. user' = user \/ user' = [user EXCEPT ![areq[r].u] = x]
    BY <1>7 DEF CommitVerification
  <2> QED
    BY <1>1, <1>3, <2>1, <2>2, <2>3
<1>8. ASSUME NEW r \in Requests, CommitActivation(r) PROVE Goal
  <2>1. areq[r].u \in Users
    BY <1>0, <1>8 DEF CommitActivation
  <2>2. user' = user \/ user' = [user EXCEPT ![areq[r].u].pw = 1, ![areq[r].u].verified = TRUE]
    BY <1>8 DEF CommitActivation
  <2>3. CASE user' = [user EXCEPT ![areq[r].u].pw = 1, ![areq[r].u].verified = TRUE]
    <3>1. /\ user' \in [Users -> UserRecs]
          /\ user'[areq[r].u].role = user[areq[r].u].role /\ user'[areq[r].u].pw > 0
          /\ user[areq[r].u].in => user'[areq[r].u].in
          /\ \A v \in Users \ {areq[r].u} : user'[v] = user[v]
      BY <1>0, <2>1, <2>3 DEF UserRecs
    <3> QED
      BY <1>0, <2>1, <3>1 DEF OwnerCanSignIn
  <2> QED
    BY <1>1, <2>2, <2>3
<1>9. ASSUME NEW r \in Requests, Provision(r) PROVE Goal
  <2>1. areq[r].u \in Users /\ user[areq[r].u] \in UserRecs
    BY <1>0, <1>9 DEF Provision
  <2>2. CASE ~user[areq[r].u].in
    <3> DEFINE y == [Absent EXCEPT !.in = TRUE, !.role = "operator"]
               z == [Absent EXCEPT !.in = TRUE, !.client = TRUE]
    <3>4. y \in UserRecs /\ z \in UserRecs /\ y.role = "operator" /\ z.role = "none" /\ y.in
      BY DEF Absent, UserRecs, Roles
    <3>5. user' = [user EXCEPT ![areq[r].u] = y] \/ user' = [user EXCEPT ![areq[r].u] = z]
      BY <1>9, <2>2 DEF Provision, Provisionable, ClientAccount, OperatorAccount
    <3> HIDE DEF y, z
    <3>1. PICK x \in {y, z} : user' = [user EXCEPT ![areq[r].u] = x]
      BY <3>5
    <3>2. x \in UserRecs /\ x.role # "owner" /\ (x.role # "none" => x.in)
      BY <3>1, <3>4
    <3>3. user[areq[r].u].role # "owner"
      BY <1>0, <2>1, <2>2 DEF OwnerCanSignIn
    <3> QED
      BY <1>0, <2>1, <3>1, <3>2, <3>3, UserReplaced
  <2>3. CASE user[areq[r].u].in
    <3> DEFINE x == [user[areq[r].u] EXCEPT !.client = TRUE]
    <3>3. user' = user \/ user' = [user EXCEPT ![areq[r].u] = user[areq[r].u]] \/ user' = [user EXCEPT ![areq[r].u] = x]
      BY <1>9, <2>1, <2>3 DEF Provision, ClientAccount, OperatorAccount
    <3>1. user' = user \/ user' = [user EXCEPT ![areq[r].u] = x]
      BY <1>0, <2>1, <3>3
    <3>2. x \in UserRecs /\ x.role = user[areq[r].u].role /\ x.in = user[areq[r].u].in /\ x.pw = user[areq[r].u].pw
      BY <2>1 DEF UserRecs
    <3> QED
      BY <1>1, <1>3, <2>1, <3>1, <3>2
  <2> QED
    BY <2>2, <2>3
<1>10. ASSUME NEW r \in Requests, CommitRole(r) PROVE Goal
  <2> DEFINE u == areq[r].u
             role == areq[r].op
             x == [user[u] EXCEPT !.role = role]
  <2>1. u \in Users /\ user[u] \in UserRecs /\ role \in Roles
    BY <1>0, <1>10 DEF CommitRole
  <2>2. x \in UserRecs /\ x.role = role /\ x.in = user[u].in /\ x.pw = user[u].pw
    BY <2>1 DEF UserRecs
  <2>3. CASE MayChange(u, role)
    <3>1. user' = [user EXCEPT ![u] = x]
      BY <1>10, <2>3 DEF CommitRole
    <3>2. x.in /\ (role = "owner" => x.pw > 0)
      <4>1. user[u].role # "none" /\ user[u].in
        BY <1>0, <2>1, <2>3 DEF MayChange, OwnerCanSignIn
      <4>2. CASE user[u].role = "owner"
        BY <1>0, <2>1, <2>2, <4>1, <4>2 DEF OwnerCanSignIn
      <4>3. CASE user[u].role = "operator"
        BY <2>2, <2>3, <4>1, <4>3 DEF MayChange
      <4> QED
        BY <2>1, <4>1, <4>2, <4>3 DEF UserRecs, Roles
    <3>3. ASSUME user[u].role = "owner", role # "owner" PROVE \E v \in Users \ {u} : user[v].role = "owner"
      <4>1. Cardinality(Owners) > 1
        BY <2>3, <3>3 DEF MayChange
      <4>2. ASSUME \A v \in Users \ {u} : user[v].role # "owner" PROVE FALSE
        <5>1. Owners = {u}
          BY <2>1, <3>3, <4>2 DEF Owners
        <5>2. Cardinality({u}) = 1
          BY FS_Singleton, Zenon
        <5>3. Cardinality(Owners) = 1
          BY <5>1, <5>2, Zenon
        <5> QED
          BY <4>1, <5>3
      <4> QED
        BY <4>2
    <3> QED
      BY <1>0, <2>1, <2>2, <3>1, <3>2, <3>3, UserReplaced
  <2>4. CASE ~MayChange(u, role)
    BY <1>1, <1>10, <2>4 DEF CommitRole
  <2> QED
    BY <2>3, <2>4
<1> QED
  <2>1. \/ UNCHANGED user
        \/ \E r \in Requests :
             \/ CommitRegister(r) \/ LinkGoogle(r) \/ WriteJoin(r) \/ CommitReset(r) \/ CommitVerification(r)
             \/ CommitActivation(r) \/ Provision(r) \/ CommitRole(r)
    BY BegunBeforeWritten DEF AccountStep, OpenSession, Record, ReadLinks, IssueLink, CommitJoin, LockRole
  <2> QED
    BY <1>1, <1>2, <1>4, <1>5, <1>6, <1>7, <1>8, <1>9, <1>10, <2>1

(* The requests of the next state, and the lock. *)
RequestsFine ==
  /\ areq \in [Requests -> RequestRecs] /\ lock \in Requests \cup {NoRequest}
  /\ \A r \in Requests : (areq[r].pc # "idle" => areq[r].u \in Users) /\ Noted(areq[r])
  /\ LockHeld

(* A request to begin with. *)
Opening(q) == q \in RequestRecs /\ q.u \in Users /\ ~UnderLock(q) /\ Noted(q)

(* A request goes on; the lock is taken when it is free and released by    *)
(* the request that holds it.                                              *)
LEMMA RequestReplaced ==
  ASSUME RequestsFine, NEW r \in Requests, NEW q \in RequestRecs, areq' = [areq EXCEPT ![r] = q],
         q.pc # "idle" => q.u \in Users, Noted(q),
         \/ lock' = lock /\ (UnderLock(q) => lock = r)
         \/ lock = NoRequest /\ lock' = r
         \/ lock = r /\ lock' = NoRequest /\ ~UnderLock(q)
  PROVE  RequestsFine'
<1>1. areq'[r] = q /\ \A x \in Requests \ {r} : areq'[x] = areq[x]
  BY DEF RequestsFine
<1>2. /\ areq' \in [Requests -> RequestRecs] /\ lock' \in Requests \cup {NoRequest}
      /\ \A x \in Requests : (areq'[x].pc # "idle" => areq'[x].u \in Users) /\ Noted(areq'[x])
  BY <1>1 DEF RequestsFine
<1>3. ASSUME NEW x \in Requests, UnderLock(areq'[x]) PROVE lock' = x
  <2>1. CASE x = r
    BY <1>1, <1>3, <2>1
  <2>2. CASE x # r
    BY <1>1, <1>3, <2>2, AccountsAssumption DEF RequestsFine, LockHeld
  <2> QED
    BY <2>1, <2>2
<1> QED
  BY <1>2, <1>3 DEF RequestsFine, LockHeld

LEMMA RequestSteps ==
  ASSUME AccountsInv, [AccountNext]_accountVars
  PROVE  RequestsFine'
<1>0. RequestsFine /\ user \in [Users -> UserRecs] /\ token \in [Tokens -> TokenRecs] /\ AtWork
  BY DEF AccountsInv, AccountTypeOK, AtWork, RequestsFine
<1>1. ASSUME UNCHANGED <<areq, lock>> PROVE RequestsFine'
  BY <1>0, <1>1 DEF RequestsFine, LockHeld
<1>2. Idle \in RequestRecs /\ Idle.pc = "idle" /\ ~UnderLock(Idle) /\ Noted(Idle)
  BY DEF Idle, RequestRecs, UnderLock, Types, Roles, Noted
<1>3. ASSUME NEW r \in Requests, Finish(r), lock' = lock \/ (lock = r /\ lock' = NoRequest) PROVE RequestsFine'
  BY <1>0, <1>2, <1>3, RequestReplaced DEF Finish, Becomes
<1>4. ASSUME NEW r \in Requests, NEW q, Begin(r, q), UNCHANGED lock, Opening(q)
      PROVE  RequestsFine'
  BY <1>0, <1>4, RequestReplaced DEF Begin, Opening
<1>5. ASSUME NEW pc \in {"lock", "commit", "open"}, NEW u \in Users,
             NEW op \in {"register", "login", "google", "join", "invite", "client", "link"} \cup Roles
      PROVE  /\ Opening([Idle EXCEPT !.pc = pc, !.op = op, !.u = u])
             /\ \A pw \in Nat : Opening([Idle EXCEPT !.pc = pc, !.op = op, !.u = u, !.pw = pw])
  BY DEF Opening, Idle, RequestRecs, UnderLock, Types, Roles, Noted, Limited
<1>6. ASSUME NEW r \in Requests, NEW u \in Users,
             Register(r, u) \/ LogIn(r, u) \/ GoogleLogIn(r, u) \/ Join(r, u)
      PROVE  RequestsFine'
  <2>1. user[u].pw \in Nat
    BY <1>0 DEF UserRecs
  <2>2. CASE Register(r, u)
    <3>1. Opening([Idle EXCEPT !.pc = "lock", !.op = "register", !.u = u])
      BY <1>5
    <3> QED
      BY <1>4, <2>2, <3>1 DEF Register
  <2>3. CASE LogIn(r, u)
    <3>1. Opening([Idle EXCEPT !.pc = "open", !.op = "login", !.u = u, !.pw = user[u].pw])
      BY <1>5, <2>1
    <3> QED
      BY <1>4, <2>3, <3>1 DEF LogIn
  <2>4. CASE GoogleLogIn(r, u)
    <3>1. PICK pc \in {"open", "commit"} :
            Begin(r, [Idle EXCEPT !.pc = pc, !.op = "google", !.u = u, !.pw = user[u].pw]) /\ UNCHANGED lock
      BY <2>4 DEF GoogleLogIn
    <3>2. Opening([Idle EXCEPT !.pc = pc, !.op = "google", !.u = u, !.pw = user[u].pw])
      BY <1>5, <2>1
    <3> QED
      BY <1>4, <3>1, <3>2
  <2>5. CASE Join(r, u)
    <3>1. Opening([Idle EXCEPT !.pc = "commit", !.op = "join", !.u = u])
      BY <1>5
    <3> QED
      BY <1>4, <2>5, <3>1 DEF Join
  <2> QED
    BY <1>6, <2>2, <2>3, <2>4, <2>5
<1>7. ASSUME NEW r \in Requests, NEW u \in Users,
             InviteOperator(r, u) \/ ProvisionClient(r, u) \/ ActivationLink(r, u)
      PROVE  RequestsFine'
  <2>1. PICK op \in {"invite", "client", "link"} :
          Begin(r, [Idle EXCEPT !.pc = "lock", !.op = op, !.u = u]) /\ UNCHANGED lock
    BY <1>7 DEF InviteOperator, ProvisionClient, ActivationLink, ByOwner
  <2>2. Opening([Idle EXCEPT !.pc = "lock", !.op = op, !.u = u])
    BY <1>5
  <2> QED
    BY <1>4, <2>1, <2>2
<1>8. ASSUME NEW r \in Requests, NEW u \in Users, NEW by \in Users, NEW role \in Roles, ChangeRole(r, by, u, role)
      PROVE  RequestsFine'
  <2>1. Opening([Idle EXCEPT !.pc = "lock", !.op = role, !.u = u])
    BY <1>5
  <2> QED
    BY <1>4, <1>8, <2>1 DEF ChangeRole
<1>9. ASSUME NEW r \in Requests, NEW u \in Users, RequestReset(r, u) \/ RequestVerification(r, u)
      PROVE  RequestsFine'
  <2>1. PICK op \in {"reset", "verify"}, pc \in {"read", "record", "note"} :
          /\ pc = "record" => op = "reset"
          /\ Begin(r, [Idle EXCEPT !.pc = pc, !.op = op, !.u = u]) /\ UNCHANGED lock
    <3>1. CASE RequestReset(r, u)
      BY <3>1 DEF RequestReset
    <3>2. CASE RequestVerification(r, u)
      BY <3>2 DEF RequestVerification
    <3> QED
      BY <1>9, <3>1, <3>2
  <2>2. Opening([Idle EXCEPT !.pc = pc, !.op = op, !.u = u])
    BY <2>1 DEF Opening, Idle, RequestRecs, UnderLock, Types, Roles, Noted, Limited
  <2> QED
    BY <1>4, <2>1, <2>2
<1>10. ASSUME NEW r \in Requests, NEW u \in Users, LogInFails(r, u) PROVE RequestsFine'
  <2>1. Opening([Idle EXCEPT !.pc = "note", !.op = "login", !.u = u])
    BY DEF Opening, Idle, RequestRecs, UnderLock, Types, Roles, Noted, Limited
  <2> QED
    BY <1>4, <1>10, <2>1 DEF LogInFails
<1>11. ASSUME NEW r \in Requests, NEW t \in Tokens, UseLink(r, t) PROVE RequestsFine'
  <2>1. token[t].u \in Users /\ token[t].type \in Types
    BY <1>0, <1>11 DEF UseLink, AtWork, TokenRecs
  <2>2. PICK pc \in {"lock", "commit"} :
          Begin(r, [Idle EXCEPT !.pc = pc, !.op = token[t].type, !.u = token[t].u, !.t = t]) /\ UNCHANGED lock
    BY <1>11 DEF UseLink
  <2>3. Opening([Idle EXCEPT !.pc = pc, !.op = token[t].type, !.u = token[t].u, !.t = t])
    BY <2>1 DEF Opening, Idle, RequestRecs, UnderLock, Types, Roles, Noted, Limited
  <2> QED
    BY <1>4, <2>2, <2>3
<1>12. ASSUME NEW r \in Requests, areq[r].pc # "idle", NEW pc \in {"commit", "open", "lock", "read", "write", "note"}
       PROVE  /\ areq[r] \in RequestRecs /\ areq[r].u \in Users
              /\ [areq[r] EXCEPT !.pc = pc] \in RequestRecs /\ [areq[r] EXCEPT !.pc = pc].u = areq[r].u
              /\ [areq[r] EXCEPT !.pc = pc].pc = pc /\ [areq[r] EXCEPT !.pc = pc].op = areq[r].op
              /\ pc # "note" \/ areq[r].op \in Limited => Noted([areq[r] EXCEPT !.pc = pc])
  <2>1. /\ areq[r] \in RequestRecs /\ areq[r].u \in Users
        /\ [areq[r] EXCEPT !.pc = pc] \in RequestRecs /\ [areq[r] EXCEPT !.pc = pc].u = areq[r].u
        /\ [areq[r] EXCEPT !.pc = pc].pc = pc /\ [areq[r] EXCEPT !.pc = pc].op = areq[r].op
    BY <1>0, <1>12 DEF RequestsFine, RequestRecs
  <2> QED
    BY <1>12, <2>1 DEF Noted
<1>13. ASSUME NEW r \in Requests, areq[r].pc = "read", areq[r].op \notin {"reset", "verify", "join"}
       PROVE  lock = r /\ areq[r] \in RequestRecs /\ areq[r].u \in Users
  BY <1>0, <1>13 DEF UnderLock, RequestsFine, LockHeld
<1>14. ASSUME NEW r \in Requests, CommitRegister(r) PROVE RequestsFine'
  <2>0. lock = r /\ areq[r] \in RequestRecs /\ areq[r].u \in Users /\ areq[r].pc # "idle"
    BY <1>13, <1>14 DEF CommitRegister
  <2>1. CASE Finish(r) /\ lock' = NoRequest
    BY <1>3, <2>0, <2>1
  <2>2. CASE Becomes(r, [areq[r] EXCEPT !.pc = "open", !.pw = 1]) /\ lock' = NoRequest
    <3>1. PICK x \in RequestRecs : x = [areq[r] EXCEPT !.pc = "open"] /\ x.pc = "open" /\ x.u = areq[r].u
      BY <1>12, <2>0
    <3>5. [x EXCEPT !.pw = 1] \in RequestRecs /\ [x EXCEPT !.pw = 1].pc = x.pc /\ [x EXCEPT !.pw = 1].u = x.u
      BY <3>1 DEF RequestRecs
    <3>2. PICK q \in RequestRecs : q = [x EXCEPT !.pw = 1] /\ q.pc = "open" /\ q.u = areq[r].u
      BY <3>1, <3>5, Zenon
    <3>3. q = [areq[r] EXCEPT !.pc = "open", !.pw = 1]
      BY <3>1, <3>2, Zenon
    <3>4. areq' = [areq EXCEPT ![r] = q] /\ ~UnderLock(q) /\ Noted(q)
      BY <2>2, <3>2, <3>3 DEF Becomes, UnderLock, Noted
    <3> QED
      BY <1>0, <2>0, <2>2, <3>2, <3>4, RequestReplaced
  <2> QED
    BY <1>14, <2>1, <2>2 DEF CommitRegister
<1>15. ASSUME NEW r \in Requests, LinkGoogle(r) PROVE RequestsFine'
  <2>1. /\ [areq[r] EXCEPT !.pc = "open"] \in RequestRecs /\ areq[r].u \in Users
        /\ [areq[r] EXCEPT !.pc = "open"].u = areq[r].u /\ Noted([areq[r] EXCEPT !.pc = "open"]) /\ ~UnderLock([areq[r] EXCEPT !.pc = "open"])
    BY <1>12, <1>15 DEF LinkGoogle, UnderLock
  <2> QED
    BY <1>0, <1>15, <2>1, RequestReplaced DEF LinkGoogle, Goto, Becomes
<1>16. ASSUME NEW r \in Requests, OpenSession(r) \/ WriteJoin(r) \/ CommitReset(r) \/ CommitVerification(r)
       PROVE  RequestsFine'
  BY <1>3, <1>16 DEF OpenSession, WriteJoin, CommitReset, CommitVerification
<1>17. ASSUME NEW r \in Requests, CommitJoin(r) PROVE RequestsFine'
  <2>1. CASE Finish(r)
    BY <1>3, <1>17, <2>1 DEF CommitJoin
  <2>2. CASE Goto(r, "write")
    <3>1. /\ [areq[r] EXCEPT !.pc = "write"] \in RequestRecs /\ areq[r].u \in Users
          /\ [areq[r] EXCEPT !.pc = "write"].u = areq[r].u /\ Noted([areq[r] EXCEPT !.pc = "write"])
          /\ ~UnderLock([areq[r] EXCEPT !.pc = "write"])
      BY <1>12, <1>17 DEF CommitJoin, UnderLock
    <3> QED
      BY <1>0, <1>17, <2>2, <3>1, RequestReplaced DEF CommitJoin, Goto, Becomes
  <2> QED
    BY <1>17, <2>1, <2>2 DEF CommitJoin
<1>18. ASSUME NEW r \in Requests, ReadLinks(r) PROVE RequestsFine'
  <2>1. areq[r].pc = "read" /\ areq[r] \in RequestRecs /\ areq[r].u \in Users
    BY <1>12, <1>18 DEF ReadLinks
  <2>2. CASE areq[r].op = "link" /\ ~MayActivate(areq[r].u)
    BY <1>3, <1>13, <1>18, <2>2 DEF ReadLinks
  <2>3. CASE ~(areq[r].op = "link" /\ ~MayActivate(areq[r].u))
    <3> DEFINE found == Outstanding(areq[r].u, TokenTypeOf(areq[r].op))
    <3>1. PICK x \in RequestRecs : /\ x = [areq[r] EXCEPT !.pc = "write"] /\ x.pc = "write" /\ x.u = areq[r].u
                                   /\ x.op = areq[r].op
      BY <1>12, <2>1
    <3>2. found \subseteq Tokens
      BY DEF Outstanding
    <3> HIDE DEF found
    <3>7. /\ [x EXCEPT !.seen = found] \in RequestRecs /\ [x EXCEPT !.seen = found].pc = x.pc
          /\ [x EXCEPT !.seen = found].u = x.u /\ [x EXCEPT !.seen = found].op = x.op
      BY <3>1, <3>2 DEF RequestRecs
    <3>3. PICK q \in RequestRecs : q = [x EXCEPT !.seen = found] /\ q.pc = "write" /\ q.u = areq[r].u /\ q.op = areq[r].op
      BY <3>1, <3>7, Zenon
    <3>4. q = [areq[r] EXCEPT !.pc = "write", !.seen = found]
      BY <3>1, <3>3, Zenon
    <3>5. areq' = [areq EXCEPT ![r] = q] /\ lock' = lock
      BY <1>18, <2>3, <3>4 DEF ReadLinks, Becomes, found
    <3>6. (UnderLock(q) => lock = r) /\ Noted(q)
      BY <1>0, <2>1, <3>3 DEF UnderLock, RequestsFine, LockHeld, Noted
    <3> QED
      BY <1>0, <2>1, <3>3, <3>5, <3>6, RequestReplaced
  <2> QED
    BY <2>2, <2>3
<1>19. ASSUME NEW r \in Requests, IssueLink(r) PROVE RequestsFine'
  <2>1. CASE areq[r].op # "verify"
    BY <1>3, <1>19, <2>1 DEF IssueLink
  <2>2. CASE areq[r].op = "verify"
    <3>1. /\ [areq[r] EXCEPT !.pc = "note"] \in RequestRecs /\ areq[r].u \in Users
          /\ [areq[r] EXCEPT !.pc = "note"].u = areq[r].u /\ Noted([areq[r] EXCEPT !.pc = "note"])
          /\ ~UnderLock([areq[r] EXCEPT !.pc = "note"])
      BY <1>12, <1>19, <2>2 DEF IssueLink, UnderLock, Limited
    <3>2. areq' = [areq EXCEPT ![r] = [areq[r] EXCEPT !.pc = "note"]] /\ (lock' = lock \/ (lock = r /\ lock' = NoRequest))
      BY <1>19, <2>2 DEF IssueLink, Goto, Becomes
    <3> QED
      BY <1>0, <3>1, <3>2, RequestReplaced
  <2> QED
    BY <2>1, <2>2
<1>25. ASSUME NEW r \in Requests, Record(r) PROVE RequestsFine'
  <2>1. CASE Finish(r)
    BY <1>3, <1>25, <2>1 DEF Record
  <2>2. CASE Goto(r, "read") /\ areq[r].op = "reset"
    <3>1. /\ [areq[r] EXCEPT !.pc = "read"] \in RequestRecs /\ areq[r].u \in Users
          /\ [areq[r] EXCEPT !.pc = "read"].u = areq[r].u /\ Noted([areq[r] EXCEPT !.pc = "read"])
          /\ ~UnderLock([areq[r] EXCEPT !.pc = "read"])
      BY <1>12, <1>25, <2>2 DEF Record, UnderLock, Limited
    <3> QED
      BY <1>0, <1>25, <2>2, <3>1, RequestReplaced DEF Record, Goto, Becomes
  <2> QED
    BY <1>0, <1>25, <2>1, <2>2 DEF Record, RequestsFine, Noted
<1>20. ASSUME NEW r \in Requests, CommitActivation(r) \/ CommitRole(r) PROVE RequestsFine'
  <2>1. lock = r
    BY <1>13, <1>20 DEF CommitActivation, CommitRole, Roles
  <2>2. Finish(r) /\ lock' = NoRequest
    BY <1>20 DEF CommitActivation, CommitRole
  <2> QED
    BY <1>3, <2>1, <2>2
<1>21. ASSUME NEW r \in Requests, LockRole(r) PROVE RequestsFine'
  <2>1. /\ [areq[r] EXCEPT !.pc = "read"] \in RequestRecs /\ areq[r].u \in Users
        /\ [areq[r] EXCEPT !.pc = "read"].u = areq[r].u /\ Noted([areq[r] EXCEPT !.pc = "read"])
    BY <1>12, <1>21 DEF LockRole
  <2> QED
    BY <1>0, <1>21, <2>1, RequestReplaced DEF LockRole, Goto, Becomes
<1>22. ASSUME NEW r \in Requests, Provision(r) PROVE RequestsFine'
  <2>0. lock = r /\ areq[r] \in RequestRecs /\ areq[r].u \in Users
    BY <1>13, <1>22 DEF Provision
  <2>1. CASE Finish(r) /\ lock' = NoRequest
    BY <1>3, <2>0, <2>1
  <2>2. CASE Becomes(r, [areq[r] EXCEPT !.op = "link"]) /\ UNCHANGED lock
    <3>1. /\ [areq[r] EXCEPT !.op = "link"] \in RequestRecs /\ [areq[r] EXCEPT !.op = "link"].u = areq[r].u
          /\ Noted([areq[r] EXCEPT !.op = "link"])
      BY <1>22, <2>0 DEF RequestRecs, Provision, Noted
    <3> QED
      BY <1>0, <2>0, <2>2, <3>1, RequestReplaced DEF Becomes
  <2> QED
    BY <1>22, <2>1, <2>2 DEF Provision
<1>23. ASSUME NEW s \in Sessions, LogOut(s) \/ SupportWorkspace(s) PROVE RequestsFine'
  BY <1>1, <1>23 DEF LogOut, SupportWorkspace
<1>26. ASSUME NEW u \in Users, NEW w \in Limited, WindowPasses(u, w) PROVE RequestsFine'
  BY <1>1, <1>26 DEF WindowPasses
<1>24. ASSUME UNCHANGED accountVars PROVE RequestsFine'
  BY <1>1, <1>24 DEF accountVars
<1> QED
  BY <1>6, <1>7, <1>8, <1>9, <1>10, <1>11, <1>14, <1>15, <1>16, <1>17, <1>18, <1>19, <1>20, <1>21, <1>22, <1>23, <1>24, <1>25,
     <1>26 DEF AccountNext, AccountStep

(* The links of the next state. *)
LinksFine ==
  /\ token \in [Tokens -> TokenRecs] /\ effects \in [Tokens -> Nat]
  /\ \A t \in Tokens : token[t].state # "none" => token[t].u \in Users
  /\ SeenAll /\ OneGood /\ EffectOnce

Issuing(q) == q.pc = "write" /\ q.op = "link"

(* Nobody gets to the point of issuing a link. *)
NoIssuer ==
  \A r \in Requests : (Issuing(areq'[r]) => areq'[r] = areq[r]) /\ areq'[r].seen \subseteq areq[r].seen

LEMMA IssuerSteps ==
  ASSUME AccountsInv, [AccountNext]_accountVars
  PROVE  NoIssuer \/ \E r \in Requests : ReadLinks(r)
<1>0. areq \in [Requests -> RequestRecs]
  BY DEF AccountsInv, AccountTypeOK
<1>1. ASSUME NEW r \in Requests, NEW q, areq' = [areq EXCEPT ![r] = q], ~Issuing(q), q.seen \subseteq areq[r].seen
      PROVE  NoIssuer
  BY <1>0, <1>1 DEF NoIssuer
<1>2. ~Issuing(Idle) /\ Idle.seen = {}
  BY DEF Issuing, Idle
<1>12. ASSUME NEW r \in Requests, NEW q, Begin(r, q), q.pc # "write", q.seen = {} PROVE NoIssuer
  BY <1>1, <1>12 DEF Begin, Issuing
<1>13. ASSUME NEW pc \in {"lock", "commit", "open", "read", "record", "note"}, NEW op, NEW v
       PROVE  /\ [Idle EXCEPT !.pc = pc, !.op = op, !.u = v].pc # "write"
              /\ [Idle EXCEPT !.pc = pc, !.op = op, !.u = v].seen = {}
  BY DEF Idle
<1>14. ASSUME NEW pc \in {"lock", "commit", "open", "read", "record", "note"}, NEW op, NEW v, NEW x
       PROVE  /\ [Idle EXCEPT !.pc = pc, !.op = op, !.u = v, !.pw = x].pc # "write"
              /\ [Idle EXCEPT !.pc = pc, !.op = op, !.u = v, !.pw = x].seen = {}
              /\ [Idle EXCEPT !.pc = pc, !.op = op, !.u = v, !.t = x].pc # "write"
              /\ [Idle EXCEPT !.pc = pc, !.op = op, !.u = v, !.t = x].seen = {}
  BY DEF Idle
<1>15. ASSUME NEW r \in Requests, NEW t \in Tokens, UseLink(r, t) PROVE NoIssuer
  <2>1. PICK pc \in {"lock", "commit"} :
          Begin(r, [Idle EXCEPT !.pc = pc, !.op = token[t].type, !.u = token[t].u, !.t = t])
    BY <1>15 DEF UseLink
  <2>2. /\ [Idle EXCEPT !.pc = pc, !.op = token[t].type, !.u = token[t].u, !.t = t].pc # "write"
        /\ [Idle EXCEPT !.pc = pc, !.op = token[t].type, !.u = token[t].u, !.t = t].seen = {}
    BY <1>14
  <2> QED
    BY <1>12, <2>1, <2>2
<1>3. ASSUME NEW r \in Requests, NEW u \in Users,
             \/ Register(r, u) \/ LogIn(r, u) \/ LogInFails(r, u) \/ GoogleLogIn(r, u) \/ Join(r, u)
             \/ RequestReset(r, u) \/ RequestVerification(r, u)
             \/ InviteOperator(r, u) \/ ProvisionClient(r, u) \/ ActivationLink(r, u)
             \/ \E by \in Users, role \in Roles : ChangeRole(r, by, u, role)
      PROVE  NoIssuer
  <2>1. CASE LogIn(r, u) \/ GoogleLogIn(r, u)
    <3>1. PICK pc \in {"open", "commit"}, op \in {"login", "google"} :
            Begin(r, [Idle EXCEPT !.pc = pc, !.op = op, !.u = u, !.pw = user[u].pw])
      BY <2>1 DEF LogIn, GoogleLogIn
    <3>2. /\ [Idle EXCEPT !.pc = pc, !.op = op, !.u = u, !.pw = user[u].pw].pc # "write"
          /\ [Idle EXCEPT !.pc = pc, !.op = op, !.u = u, !.pw = user[u].pw].seen = {}
      BY <1>14
    <3> QED
      BY <1>12, <3>1, <3>2
  <2>3. ASSUME NEW pc \in {"lock", "commit", "open", "read", "record", "note"}, NEW op,
               Begin(r, [Idle EXCEPT !.pc = pc, !.op = op, !.u = u])
        PROVE  NoIssuer
    <3>1. /\ [Idle EXCEPT !.pc = pc, !.op = op, !.u = u].pc # "write"
          /\ [Idle EXCEPT !.pc = pc, !.op = op, !.u = u].seen = {}
      BY <1>13
    <3> QED
      BY <1>12, <2>3, <3>1
  <2>2. CASE RequestReset(r, u) \/ RequestVerification(r, u)
    <3>1. PICK op \in {"reset", "verify"}, pc \in {"read", "record", "note"} :
            Begin(r, [Idle EXCEPT !.pc = pc, !.op = op, !.u = u])
      BY <2>2 DEF RequestReset, RequestVerification
    <3> QED
      BY <2>3, <3>1
  <2>4. CASE Register(r, u) \/ Join(r, u) \/ LogInFails(r, u)
    BY <2>3, <2>4 DEF Register, Join, LogInFails
  <2>5. CASE InviteOperator(r, u) \/ ProvisionClient(r, u) \/ ActivationLink(r, u)
    BY <2>3, <2>5 DEF InviteOperator, ProvisionClient, ActivationLink, ByOwner
  <2>6. CASE \E by \in Users, role \in Roles : ChangeRole(r, by, u, role)
    BY <2>3, <2>6 DEF ChangeRole
  <2> QED
    BY <1>3, <2>1, <2>2, <2>4, <2>5, <2>6
<1>4. ASSUME NEW r \in Requests,
             \/ OpenSession(r) \/ WriteJoin(r) \/ CommitReset(r) \/ CommitVerification(r)
             \/ CommitActivation(r) \/ CommitRole(r)
      PROVE  NoIssuer
  <2>1. Finish(r)
    BY <1>4 DEF OpenSession, WriteJoin, CommitReset, CommitVerification, CommitActivation, CommitRole
  <2> QED
    BY <1>1, <1>2, <2>1 DEF Finish, Becomes
<1>5. ASSUME NEW r \in Requests, LinkGoogle(r) \/ LockRole(r) \/ CommitJoin(r) \/ IssueLink(r) \/ Record(r)
      PROVE  NoIssuer
  <2>1. CASE Finish(r)
    BY <1>1, <1>2, <2>1 DEF Finish, Becomes
  <2>2. ASSUME NEW pc, Goto(r, pc), pc # "write" \/ areq[r].op # "link" PROVE NoIssuer
    <3>1. ~Issuing([areq[r] EXCEPT !.pc = pc]) /\ [areq[r] EXCEPT !.pc = pc].seen = areq[r].seen
      BY <1>0, <2>2 DEF Issuing, RequestRecs
    <3> QED
      BY <1>1, <2>2, <3>1 DEF Goto, Becomes
  <2>3. Finish(r) \/ Goto(r, "open") \/ Goto(r, "read") \/ Goto(r, "note") \/ (Goto(r, "write") /\ areq[r].op # "link")
    <3>1. CommitJoin(r) => Finish(r) \/ (Goto(r, "write") /\ areq[r].op # "link")
      BY DEF CommitJoin
    <3>2. (LinkGoogle(r) => Goto(r, "open")) /\ (LockRole(r) => Goto(r, "read"))
      BY DEF LinkGoogle, LockRole
    <3>3. IssueLink(r) \/ Record(r) => Finish(r) \/ Goto(r, "note") \/ Goto(r, "read")
      BY DEF IssueLink, Record
    <3> QED
      BY <1>5, <3>1, <3>2, <3>3
  <2> QED
    BY <2>1, <2>2, <2>3
<1>6. ASSUME NEW r \in Requests, CommitRegister(r) \/ Provision(r) PROVE NoIssuer
  <2>1. CASE Finish(r)
    BY <1>1, <1>2, <2>1 DEF Finish, Becomes
  <2>2. CASE Becomes(r, [areq[r] EXCEPT !.op = "link"]) /\ areq[r].pc = "read"
    <3>1. ~Issuing([areq[r] EXCEPT !.op = "link"]) /\ [areq[r] EXCEPT !.op = "link"].seen = areq[r].seen
      BY <1>0, <2>2 DEF Issuing, RequestRecs
    <3> QED
      BY <1>1, <2>2, <3>1 DEF Becomes
  <2>3. CASE Becomes(r, [areq[r] EXCEPT !.pc = "open", !.pw = 1]) /\ areq[r].op = "register"
    <3>1. PICK x : x = [areq[r] EXCEPT !.pc = "open"]
      OBVIOUS
    <3>2. x.op = "register" /\ x \in RequestRecs /\ x.seen = areq[r].seen
      BY <1>0, <2>3, <3>1 DEF RequestRecs
    <3>3. [x EXCEPT !.pw = 1].op = "register" /\ [x EXCEPT !.pw = 1].seen = areq[r].seen
      BY <3>2 DEF RequestRecs
    <3>4. /\ [areq[r] EXCEPT !.pc = "open", !.pw = 1].op = "register"
          /\ [areq[r] EXCEPT !.pc = "open", !.pw = 1].seen = areq[r].seen
      BY <3>1, <3>3, Zenon
    <3>5. ~Issuing([areq[r] EXCEPT !.pc = "open", !.pw = 1])
      BY <3>4 DEF Issuing
    <3> QED
      BY <1>1, <2>3, <3>4, <3>5 DEF Becomes
  <2>4. CASE CommitRegister(r)
    BY <2>1, <2>3, <2>4 DEF CommitRegister
  <2>5. CASE Provision(r)
    BY <2>1, <2>2, <2>5 DEF Provision
  <2> QED
    BY <1>6, <2>4, <2>5
<1>7. ASSUME UNCHANGED areq PROVE NoIssuer
  BY <1>7 DEF NoIssuer
<1>8. ASSUME NEW s \in Sessions, LogOut(s) \/ SupportWorkspace(s) PROVE UNCHANGED areq
  BY <1>8 DEF LogOut, SupportWorkspace
<1>16. ASSUME NEW u \in Users, NEW w \in Limited, WindowPasses(u, w) PROVE UNCHANGED areq
  BY <1>16 DEF WindowPasses
<1>9. ASSUME NEW r \in Requests, AccountStep(r) PROVE NoIssuer \/ ReadLinks(r)
  BY <1>4, <1>5, <1>6, <1>9 DEF AccountStep
<1>10. UNCHANGED accountVars => UNCHANGED areq
  BY DEF accountVars
<1>11. \/ \E r \in Requests : AccountStep(r)
       \/ \E s \in Sessions : LogOut(s) \/ SupportWorkspace(s)
       \/ \E u \in Users, w \in Limited : WindowPasses(u, w)
       \/ UNCHANGED accountVars
       \/ NoIssuer
  BY <1>3, <1>15 DEF AccountNext
<1> QED
  BY <1>7, <1>8, <1>9, <1>10, <1>11, <1>16

(* A count of one user and one limit. *)
LEMMA Counted ==
  ASSUME tries \in [Users -> [Limited -> 0..Limit]], NEW u \in Users, NEW w \in Limited, NEW n \in 0..Limit
  PROVE  [tries EXCEPT ![u][w] = n] \in [Users -> [Limited -> 0..Limit]]
<1> DEFINE f == [tries[u] EXCEPT ![w] = n]
           Counts == [Limited -> 0..Limit]
<1>1. [tries EXCEPT ![u][w] = n] = [tries EXCEPT ![u] = f]
  OBVIOUS
<1>2. f \in Counts /\ tries \in [Users -> Counts]
  OBVIOUS
<1>3. [tries EXCEPT ![u] = f] \in [Users -> Counts]
  <2> HIDE DEF f, Counts
  <2> QED
    BY <1>2
<1> QED
  BY <1>1, <1>3

(* A step that uses links up and issues none. *)
LEMMA LinksUsed ==
  ASSUME LinksFine, NoIssuer, areq \in [Requests -> RequestRecs], token' \in [Tokens -> TokenRecs], effects' \in [Tokens -> Nat],
         \A t \in Tokens :
           /\ token'[t].u = token[t].u /\ token'[t].type = token[t].type
           /\ token'[t].state \in {token[t].state, "used"} /\ (token[t].state = "none" => token'[t].state = "none")
           /\ effects'[t] = effects[t] \/ (effects[t] = 0 /\ effects'[t] = 1 /\ token'[t].state = "used")
  PROVE  LinksFine'
<1>1. \A u, type : Outstanding(u, type)' \subseteq Outstanding(u, type)
  BY DEF Outstanding
<1>2. SeenAll'
  <2>1. \A r \in Requests : areq'[r].seen \subseteq Tokens
    BY DEF NoIssuer, RequestRecs
  <2>2. \A r \in Requests : \A t \in areq'[r].seen : token'[t].state # "none"
    BY <2>1 DEF NoIssuer, LinksFine, SeenAll
  <2>3. ASSUME NEW r \in Requests, Issuing(areq'[r]), NEW t \in Tokens,
               token'[t].u = areq'[r].u, token'[t].type = "activate", token'[t].state = "unused"
        PROVE  t \in areq'[r].seen
    <3>1. areq'[r] = areq[r] /\ Issuing(areq[r])
      BY <2>3 DEF NoIssuer
    <3>2. t \in Outstanding(areq[r].u, "activate")
      BY <2>3, <3>1 DEF Outstanding
    <3> QED
      BY <3>1, <3>2 DEF LinksFine, SeenAll, Issuing
  <2> QED
    BY <2>2, <2>3 DEF SeenAll, Issuing, Outstanding
<1>3. OneGood'
  BY <1>1 DEF LinksFine, OneGood
<1>4. EffectOnce'
  BY DEF LinksFine, EffectOnce
<1>5. \A t \in Tokens : token'[t].state # "none" => token'[t].u \in Users
  BY DEF LinksFine
<1> QED
  BY <1>2, <1>3, <1>4, <1>5 DEF LinksFine

LEMMA LinkSteps ==
  ASSUME AccountsInv, [AccountNext]_accountVars
  PROVE  LinksFine'
<1>0. LinksFine /\ areq \in [Requests -> RequestRecs] /\ user \in [Users -> UserRecs] /\ AtWork /\ LockHeld
  BY DEF AccountsInv, AccountTypeOK, AtWork, LinksFine
<1>1. ASSUME UNCHANGED <<token, effects>>, NoIssuer PROVE LinksFine'
  BY <1>0, <1>1, LinksUsed DEF LinksFine
<1>2. ASSUME NEW t, Consumable(t), Consume(t), NoIssuer PROVE LinksFine'
  <2>1. ASSUME NEW x \in Tokens
        PROVE  /\ token'[x] \in TokenRecs /\ token'[x].u = token[x].u /\ token'[x].type = token[x].type
               /\ token'[x].state \in {token[x].state, "used"} /\ (token[x].state = "none" => token'[x].state = "none")
               /\ x = t => token'[x].state = "used"
    <3>1. token[x] \in TokenRecs
      BY <1>0 DEF LinksFine
    <3>2. CASE token[x].u = token[t].u /\ token[x].type = token[t].type /\ token[x].state = "unused"
      BY <1>2, <3>1, <3>2 DEF Consume, TokenRecs
    <3>3. CASE ~(token[x].u = token[t].u /\ token[x].type = token[t].type /\ token[x].state = "unused")
      <4>1. token'[x] = token[x] /\ x # t
        BY <1>2, <3>3 DEF Consume, Consumable
      <4> QED
        BY <3>1, <4>1
    <3> QED
      BY <3>2, <3>3
  <2>2. token' \in [Tokens -> TokenRecs]
    BY <1>2, <2>1 DEF Consume
  <2>3. t \in Tokens => effects[t] = 0
    BY <1>0, <1>2 DEF LinksFine, EffectOnce, Consumable
  <2>4. effects' \in [Tokens -> Nat] /\ \A x \in Tokens : effects'[x] = effects[x] \/ (x = t /\ effects[x] = 0 /\ effects'[x] = 1)
    <3>1. effects \in [Tokens -> Nat] /\ effects' = [effects EXCEPT ![t] = effects[t] + 1]
      BY <1>0, <1>2 DEF LinksFine, Consume
    <3>2. CASE t \in Tokens
      BY <2>3, <3>1, <3>2
    <3>3. CASE t \notin Tokens
      BY <3>1, <3>3
    <3> QED
      BY <3>2, <3>3
  <2> QED
    BY <1>0, <1>2, <2>1, <2>2, <2>4, LinksUsed
<1>3. ASSUME NEW r \in Requests, CommitReset(r) \/ CommitVerification(r) \/ CommitActivation(r), NoIssuer PROVE LinksFine'
  <2>1. UNCHANGED <<token, effects>> \/ (Consumable(areq[r].t) /\ Consume(areq[r].t))
    BY <1>3 DEF CommitReset, CommitVerification, CommitActivation
  <2> QED
    BY <1>1, <1>2, <1>3, <2>1
<1>4. ASSUME NEW r \in Requests, ReadLinks(r) PROVE LinksFine'
  <2>1. UNCHANGED <<token, effects>> /\ (\A x \in Requests \ {r} : areq'[x] = areq[x])
    BY <1>0, <1>4 DEF ReadLinks, Finish, Becomes
  <2>2. \A u, type : Outstanding(u, type)' = Outstanding(u, type)
    BY <2>1 DEF Outstanding
  <2> DEFINE found == Outstanding(areq[r].u, TokenTypeOf(areq[r].op))
  <2>6. areq'[r] = Idle \/ (areq'[r].u = areq[r].u /\ areq'[r].op = areq[r].op /\ areq'[r].seen = found)
    <3>1. areq'[r] = Idle \/ areq'[r] = [areq[r] EXCEPT !.pc = "write", !.seen = found]
      BY <1>0, <1>4 DEF ReadLinks, Finish, Becomes
    <3>2. PICK x : x = [areq[r] EXCEPT !.pc = "write"]
      OBVIOUS
    <3>3. x \in RequestRecs /\ x.u = areq[r].u /\ x.op = areq[r].op
      BY <1>0, <3>2 DEF RequestRecs
    <3> HIDE DEF found
    <3>4. [x EXCEPT !.seen = found].u = x.u /\ [x EXCEPT !.seen = found].op = x.op /\ [x EXCEPT !.seen = found].seen = found
      BY <3>3 DEF RequestRecs
    <3>5. areq'[r] = Idle \/ areq'[r] = [x EXCEPT !.seen = found]
      BY <3>1, <3>2, Zenon
    <3> QED
      BY <3>3, <3>4, <3>5, Zenon
  <2>3. Issuing(areq'[r]) => Outstanding(areq'[r].u, "activate") \subseteq areq'[r].seen
    BY <2>6 DEF found, TokenTypeOf, Issuing, Idle
  <2>5. \A t \in areq'[r].seen : token[t].state # "none"
    BY <2>6 DEF found, Outstanding, Idle
  <2>4. SeenAll'
    BY <1>0, <2>1, <2>2, <2>3, <2>5 DEF LinksFine, SeenAll, Issuing
  <2> QED
    BY <1>0, <2>1, <2>2, <2>4 DEF LinksFine, OneGood, EffectOnce
<1>5. ASSUME NEW r \in Requests, IssueLink(r), NoIssuer PROVE LinksFine'
  <2> DEFINE q == areq[r]
             made == [state |-> "unused", type |-> TokenTypeOf(q.op), u |-> q.u, client |-> user[q.u].client]
  <2>1. q.u \in Users /\ q.op \in {"reset", "verify", "link"} /\ UNCHANGED effects /\ q.pc = "write"
    BY <1>0, <1>5 DEF IssueLink, AtWork
  <2>2. PICK new \in Tokens :
          /\ token[new].state = "none"
          /\ token' = [t \in Tokens |-> IF t = new THEN made
                                        ELSE IF t \in q.seen THEN [token[t] EXCEPT !.state = "used"] ELSE token[t]]
    BY <1>5 DEF IssueLink
  <2>3. made \in TokenRecs /\ made.state = "unused" /\ made.u = q.u /\ made.type = TokenTypeOf(q.op)
    BY <1>0, <2>1 DEF TokenRecs, UserRecs, TokenTypeOf, Types
  <2> HIDE DEF made
  <2>4. token'[new] = made
    BY <2>2
  <2>5. ASSUME NEW t \in Tokens \ {new}
        PROVE  /\ token'[t] \in TokenRecs /\ token'[t].u = token[t].u /\ token'[t].type = token[t].type
               /\ token'[t].state \in {token[t].state, "used"}
               /\ t \in q.seen => token'[t].state = "used"
    <3>1. token[t] \in TokenRecs
      BY <1>0 DEF LinksFine
    <3>2. CASE t \in q.seen
      BY <2>2, <3>1, <3>2 DEF TokenRecs
    <3>3. CASE t \notin q.seen
      BY <2>2, <3>1, <3>3
    <3> QED
      BY <3>2, <3>3
  <2>6. token' \in [Tokens -> TokenRecs]
    BY <2>2, <2>3, <2>4, <2>5
  <2>7. /\ \A u, type : Outstanding(u, type)' \subseteq Outstanding(u, type) \cup {new}
        /\ \A u, type : new \in Outstanding(u, type)' => u = q.u /\ type = TokenTypeOf(q.op)
        /\ \A u, type : Outstanding(u, type)' \cap q.seen \subseteq {new}
    BY <2>3, <2>4, <2>5 DEF Outstanding
  <2>8. OneGood'
    <3> SUFFICES ASSUME NEW u \in Users, NEW s \in Outstanding(u, "activate")', NEW t \in Outstanding(u, "activate")'
                 PROVE  s = t
      BY DEF OneGood
    <3>1. CASE s # new /\ t # new
      BY <1>0, <2>7, <3>1 DEF LinksFine, OneGood
    <3>2. CASE new \in {s, t}
      <4>1. u = q.u /\ q.op = "link"
        BY <2>1, <2>7, <3>2 DEF TokenTypeOf
      <4>2. Outstanding(u, "activate") \subseteq q.seen
        BY <1>0, <2>1, <4>1 DEF LinksFine, SeenAll
      <4> QED
        BY <2>7, <4>2
    <3> QED
      BY <3>1, <3>2
  <2>9. SeenAll'
    <3>1. ASSUME NEW x \in Requests, Issuing(areq'[x])
          PROVE  areq'[x] = areq[x] /\ Outstanding(areq[x].u, "activate")' \subseteq areq[x].seen
      <4>1. areq'[x] = areq[x]
        BY <1>5, <3>1 DEF NoIssuer
      <4>2. x # r
        <5>1. areq'[r] = Idle \/ areq'[r] = [areq[r] EXCEPT !.pc = "note"]
          BY <1>0, <1>5 DEF IssueLink, Finish, Goto, Becomes
        <5>2. Idle.pc = "idle" /\ [areq[r] EXCEPT !.pc = "note"].pc = "note"
          BY <1>0 DEF RequestRecs, Idle
        <5> QED
          BY <3>1, <5>1, <5>2 DEF Issuing
      <4>3. lock = x
        BY <1>0, <3>1, <4>1 DEF LockHeld, Issuing, UnderLock
      <4>4. q.op # "link"
        BY <1>0, <2>1, <4>2, <4>3 DEF LockHeld, UnderLock
      <4>5. new \notin Outstanding(areq[x].u, "activate")'
        BY <2>1, <2>7, <4>4 DEF TokenTypeOf
      <4>6. Outstanding(areq[x].u, "activate") \subseteq areq[x].seen
        BY <1>0, <3>1, <4>1 DEF LinksFine, SeenAll, Issuing
      <4> QED
        BY <2>7, <4>1, <4>5, <4>6
    <3>2. ASSUME NEW x \in Requests, NEW t \in areq'[x].seen PROVE token'[t].state # "none"
      <4>1. t \in areq[x].seen /\ t \in Tokens
        BY <1>0, <1>5, <3>2 DEF NoIssuer, RequestRecs
      <4>2. token[t].state # "none"
        BY <1>0, <4>1 DEF LinksFine, SeenAll
      <4> QED
        BY <2>2, <2>5, <4>1, <4>2
    <3> QED
      <4>1. ASSUME NEW x \in Requests, Issuing(areq'[x]) PROVE (Outstanding(areq[x].u, "activate") \subseteq areq[x].seen)'
        <5>1. {t \in Tokens : token'[t].u = areq'[x].u /\ token'[t].type = "activate" /\ token'[t].state = "unused"} \subseteq areq'[x].seen
          BY <3>1, <4>1 DEF Outstanding
        <5> QED
          BY <5>1 DEF Outstanding
      <4> QED
        BY <3>2, <4>1 DEF SeenAll, Issuing
  <2>10. EffectOnce' /\ effects' \in [Tokens -> Nat]
    BY <1>0, <2>1, <2>2, <2>3, <2>4, <2>5 DEF LinksFine, EffectOnce
  <2>11. \A t \in Tokens : token'[t].state # "none" => token'[t].u \in Users
    <3> SUFFICES ASSUME NEW t \in Tokens, token'[t].state # "none" PROVE token'[t].u \in Users
      OBVIOUS
    <3>1. CASE t = new
      BY <2>1, <2>3, <2>4, <3>1
    <3>2. CASE t # new
      <4>1. token'[t].u = token[t].u
        BY <2>5, <3>2
      <4>2. token[t].state # "none"
        BY <1>0, <2>2, <3>2 DEF LinksFine, SeenAll
      <4> QED
        BY <1>0, <4>1, <4>2 DEF LinksFine
    <3> QED
      BY <3>1, <3>2
  <2> QED
    BY <2>6, <2>8, <2>9, <2>10, <2>11 DEF LinksFine
<1>6. ASSUME NEW r \in Requests, AccountStep(r)
      PROVE  UNCHANGED <<token, effects>> \/ CommitReset(r) \/ CommitVerification(r) \/ CommitActivation(r) \/ IssueLink(r)
  BY <1>6 DEF AccountStep, CommitRegister, LinkGoogle, OpenSession, Record, ReadLinks, CommitJoin, WriteJoin, LockRole, Provision, CommitRole
<1>7. UNCHANGED <<token, effects>> \/ \E r \in Requests : AccountStep(r)
  BY BegunBeforeWritten
<1>9. CASE \E r \in Requests : ReadLinks(r)
  BY <1>4, <1>9
<1>10. CASE NoIssuer
  BY <1>1, <1>3, <1>5, <1>6, <1>7, <1>10
<1> QED
  BY <1>9, <1>10, IssuerSteps

LEMMA SessionSteps ==
  ASSUME AccountsInv, [AccountNext]_accountVars
  PROVE  session' \in [Sessions -> SessionRecs]
<1>0. /\ session \in [Sessions -> SessionRecs] /\ user \in [Users -> UserRecs] /\ areq \in [Requests -> RequestRecs]
      /\ \A r \in Requests : areq[r].pc # "idle" => areq[r].u \in Users
  BY DEF AccountsInv, AccountTypeOK, AtWork
<1>1. ASSUME NEW u \in Users, NEW pw \in Nat, NewSession(u, pw) PROVE session' \in [Sessions -> SessionRecs]
  BY <1>0, <1>1 DEF NewSession, SessionRecs
<1>2. ASSUME NEW r \in Requests, WriteJoin(r) PROVE session' \in [Sessions -> SessionRecs]
  <2>1. areq[r].u \in Users /\ user[areq[r].u].pw + 1 \in Nat
    BY <1>0, <1>2 DEF WriteJoin, UserRecs
  <2> QED
    BY <1>1, <1>2, <2>1 DEF WriteJoin
<1>3. ASSUME NEW r \in Requests, OpenSession(r) PROVE session' \in [Sessions -> SessionRecs]
  <2>1. areq[r].u \in Users /\ areq[r].pw \in Nat
    BY <1>0, <1>3 DEF OpenSession, RequestRecs
  <2> QED
    BY <1>1, <1>3, <2>1 DEF OpenSession
<1>4. ASSUME NEW r \in Requests, CommitActivation(r) PROVE session' \in [Sessions -> SessionRecs]
  <2>1. areq[r].u \in Users
    BY <1>0, <1>4 DEF CommitActivation
  <2> QED
    BY <1>0, <1>1, <1>4, <2>1 DEF CommitActivation
<1>5. ASSUME NEW s \in Sessions, NEW live \in BOOLEAN, NEW support \in BOOLEAN
      PROVE  [session[s] EXCEPT !.live = live, !.support = support] \in SessionRecs
  <2>1. PICK x \in SessionRecs : x = [session[s] EXCEPT !.live = live]
    BY <1>0 DEF SessionRecs
  <2>2. [x EXCEPT !.support = support] \in SessionRecs
    BY DEF SessionRecs
  <2> QED
    BY <2>1, <2>2, Zenon
<1>6. ASSUME NEW r \in Requests, CommitReset(r) PROVE session' \in [Sessions -> SessionRecs]
  <2>1. CASE UNCHANGED session
    BY <1>0, <2>1
  <2>2. CASE session' = [s \in Sessions |-> IF session[s].u = areq[r].u
                                            THEN [session[s] EXCEPT !.live = FALSE, !.support = FALSE] ELSE session[s]]
    BY <1>0, <1>5, <2>2
  <2> QED
    BY <1>6, <2>1, <2>2 DEF CommitReset
<1>7. ASSUME NEW s \in Sessions, LogOut(s) PROVE session' \in [Sessions -> SessionRecs]
  BY <1>0, <1>7 DEF LogOut, SessionRecs
<1>8. ASSUME NEW s \in Sessions, SupportWorkspace(s) PROVE session' \in [Sessions -> SessionRecs]
  BY <1>0, <1>8 DEF SupportWorkspace, SessionRecs
<1>9. ASSUME NEW r \in Requests, AccountStep(r)
      PROVE  UNCHANGED session \/ OpenSession(r) \/ WriteJoin(r) \/ CommitReset(r) \/ CommitActivation(r)
  BY <1>9 DEF AccountStep, CommitRegister, LinkGoogle, Record, ReadLinks, IssueLink, CommitJoin, CommitVerification, LockRole,
              Provision, CommitRole
<1>10. \/ UNCHANGED session \/ \E r \in Requests : AccountStep(r)
       \/ \E s \in Sessions : LogOut(s) \/ SupportWorkspace(s)
  BY DEF AccountNext, accountVars, Register, LogIn, LogInFails, GoogleLogIn, Join, RequestReset,
         RequestVerification, InviteOperator, ProvisionClient, ActivationLink, ByOwner, ChangeRole, UseLink, WindowPasses
<1> QED
  BY <1>0, <1>2, <1>3, <1>4, <1>6, <1>7, <1>8, <1>9, <1>10

LEMMA LimitSteps ==
  ASSUME AccountsInv, [AccountNext]_accountVars
  PROVE  /\ requested' \in 0..MaxRequested
         /\ tries' \in [Users -> [Limited -> 0..Limit]]
<1>0. /\ requested \in 0..MaxRequested /\ tries \in [Users -> [Limited -> 0..Limit]]
      /\ MaxRequested \in Nat /\ Limit \in Nat
  BY AccountsAssumption DEF AccountsInv, AccountTypeOK
<1>1. ASSUME NEW r, NEW q, Begin(r, q) PROVE requested' \in 0..MaxRequested
  BY <1>0, <1>1 DEF Begin
<1>2. ASSUME NEW r \in Requests, AccountStep(r)
      PROVE  UNCHANGED requested /\ tries' \in [Users -> [Limited -> 0..Limit]]
  <2>1. UNCHANGED requested
    <3>1. \E q : Becomes(r, q)
      BY <1>2 DEF AccountStep, CommitRegister, LinkGoogle, OpenSession, Record, ReadLinks, IssueLink, CommitJoin, WriteJoin,
                  CommitReset, CommitVerification, CommitActivation, LockRole, Provision, CommitRole, Finish, Goto
    <3> QED
      BY <3>1 DEF Becomes
  <2>2. UNCHANGED tries \/ Record(r)
    BY <1>2 DEF AccountStep, CommitRegister, LinkGoogle, OpenSession, ReadLinks, IssueLink, CommitJoin, WriteJoin, CommitReset,
                CommitVerification, CommitActivation, LockRole, Provision, CommitRole
  <2>3. CASE Record(r)
    <3>1. areq[r].u \in Users /\ areq[r].op \in Limited
      BY <2>3 DEF Record, AccountsInv, AtWork, Noted, Limited
    <3>2. PICK n \in 0..Limit : UNCHANGED tries \/ tries' = [tries EXCEPT ![areq[r].u][areq[r].op] = n]
      <4>1. tries[areq[r].u][areq[r].op] \in 0..Limit
        BY <1>0, <3>1
      <4> DEFINE m == IF tries[areq[r].u][areq[r].op] < Limit THEN tries[areq[r].u][areq[r].op] + 1
                      ELSE tries[areq[r].u][areq[r].op]
      <4>2. m \in 0..Limit
        BY <1>0, <4>1
      <4>3. UNCHANGED tries \/ tries' = [tries EXCEPT ![areq[r].u][areq[r].op] = m]
        BY <2>3 DEF Record
      <4> QED
        BY <4>2, <4>3
    <3>4. CASE tries' = [tries EXCEPT ![areq[r].u][areq[r].op] = n]
      BY <1>0, <2>1, <3>1, <3>4, Counted
    <3>5. CASE UNCHANGED tries
      BY <1>0, <2>1, <3>5
    <3> QED
      BY <3>2, <3>4, <3>5, Zenon
  <2> QED
    BY <1>0, <2>1, <2>2, <2>3
<1>3. ASSUME NEW s \in Sessions, LogOut(s) \/ SupportWorkspace(s) PROVE UNCHANGED <<requested, tries>>
  BY <1>3 DEF LogOut, SupportWorkspace
<1>4. ASSUME NEW u \in Users, NEW w \in Limited, WindowPasses(u, w)
      PROVE  UNCHANGED requested /\ tries' \in [Users -> [Limited -> 0..Limit]]
  <2>1. PICK n \in 0..Limit : tries' = [tries EXCEPT ![u][w] = n]
    BY <1>4 DEF WindowPasses
  <2> QED
    BY <1>0, <1>4, <2>1, Counted DEF WindowPasses
<1>5. ASSUME NEW r \in Requests, NEW u \in Users,
             \/ Register(r, u) \/ LogIn(r, u) \/ LogInFails(r, u) \/ GoogleLogIn(r, u) \/ Join(r, u)
             \/ RequestReset(r, u) \/ RequestVerification(r, u)
             \/ InviteOperator(r, u) \/ ProvisionClient(r, u) \/ ActivationLink(r, u)
             \/ \E by \in Users, role \in Roles : ChangeRole(r, by, u, role)
      PROVE  UNCHANGED tries /\ \E q : Begin(r, q)
  <2>1. CASE \/ Register(r, u) \/ LogIn(r, u) \/ LogInFails(r, u) \/ GoogleLogIn(r, u) \/ Join(r, u)
             \/ RequestReset(r, u) \/ RequestVerification(r, u)
    BY <2>1 DEF Register, LogIn, LogInFails, GoogleLogIn, Join, RequestReset, RequestVerification
  <2>2. CASE InviteOperator(r, u) \/ ProvisionClient(r, u) \/ ActivationLink(r, u)
    BY <2>2 DEF InviteOperator, ProvisionClient, ActivationLink, ByOwner
  <2>3. CASE \E by \in Users, role \in Roles : ChangeRole(r, by, u, role)
    BY <2>3 DEF ChangeRole
  <2> QED
    BY <1>5, <2>1, <2>2, <2>3
<1>6. ASSUME NEW r \in Requests, NEW t \in Tokens, UseLink(r, t) PROVE UNCHANGED tries /\ \E q : Begin(r, q)
  BY <1>6 DEF UseLink
<1>7. CASE UNCHANGED accountVars
  BY <1>0, <1>7 DEF accountVars
<1>8. CASE AccountNext
  BY <1>0, <1>1, <1>2, <1>3, <1>4, <1>5, <1>6, <1>8 DEF AccountNext
<1> QED
  BY <1>7, <1>8

(* Whatever sign-ins, links, invitations and role changes overlap, the     *)
(* installation keeps an owner with a password (updatePlatformUserRole     *)
(* counts the owners under the advisory lock of the roles), at most one    *)
(* activation link of a user is good (links are issued under that lock),   *)
(* and no link takes effect twice (consumeActionTokenInTransaction).       *)
THEOREM AccountsStaySafe == AccountSpec => []AccountsSafe
<1>1. AccountsInv /\ [AccountNext]_accountVars => AccountsInv'
  <2> SUFFICES ASSUME AccountsInv, [AccountNext]_accountVars PROVE AccountsInv'
    OBVIOUS
  <2>1. user' \in [Users -> UserRecs] /\ OwnerCanSignIn'
    BY UserSteps
  <2>2. RequestsFine'
    BY RequestSteps
  <2>3. LinksFine'
    BY LinkSteps
  <2>4. session' \in [Sessions -> SessionRecs]
    BY SessionSteps
  <2>5. requested' \in 0..MaxRequested /\ tries' \in [Users -> [Limited -> 0..Limit]]
    BY LimitSteps
  <2>6. AccountTypeOK'
    BY <2>1, <2>2, <2>3, <2>4, <2>5 DEF AccountTypeOK, RequestsFine, LinksFine
  <2> QED
    BY <2>1, <2>2, <2>3, <2>6 DEF AccountsInv, RequestsFine, LinksFine, AtWork
<1>2. AccountsInv => AccountsSafe
  <2> SUFFICES ASSUME AccountsInv PROVE AccountsSafe
    OBVIOUS
  <2>1. OwnerRemains
    BY DEF AccountsInv, OwnerCanSignIn, OwnerRemains
  <2>2. \A u \in Users : Cardinality(Outstanding(u, "activate")) <= 1
    BY AtMostOne DEF AccountsInv, OneGood
  <2>3. \A t \in Tokens : effects[t] <= 1
    BY DEF AccountsInv, EffectOnce
  <2> QED
    BY <2>1, <2>2, <2>3 DEF AccountsSafe, LinksGoodOnce, AccountsInv
<1> QED
  BY <1>1, <1>2, AccountsInitially, PTL DEF AccountSpec

-----------------------------------------------------------------------------
(* Teams.                                                                  *)

(* What a request under way works on. *)
CallOn(q) ==
  /\ q.pc \in {"role", "manager", "remove", "claim", "activate", "repair"} => q.u \in People
  /\ q.pc = "role" => q.to \in {"admin", "member"}
  /\ q.pc \in {"queue", "undelivered", "resend", "revoke", "claim"} => q.i \in Invites

(* The acceptance of an invitation is for the person it was sent to. *)
Addressed ==
  /\ \A i \in Invites : invite[i].status # "none" => invite[i].u \in People
  /\ \A c \in Calls : teamCall[c].pc \in {"resend", "revoke", "claim"} => invite[teamCall[c].i].status # "none"
  /\ \A c \in Calls : teamCall[c].pc = "claim" => invite[teamCall[c].i].u = teamCall[c].u

TeamInv == TeamTypeOK /\ Addressed /\ \A c \in Calls : CallOn(teamCall[c])

LEMMA TeamInitially == TeamInit => TeamInv
<1> SUFFICES ASSUME TeamInit PROVE TeamInv
  OBVIOUS
<1> USE TeamsAssumption
<1>1. member \in [People -> MemberRecs]
  BY DEF TeamInit, MemberRecs, MemberRoles, NoMember
<1>2. invite \in [Invites -> InviteRecs]
  BY DEF TeamInit, InviteRecs, NoInviteRec
<1>3. NoCall \in CallRecs /\ NoCall.pc = "idle"
  BY DEF CallRecs, NoCall, NoMember, MemberRecs
<1>4. teamCall \in [Calls -> CallRecs] /\ called \in 0..MaxCalled
  BY <1>3 DEF TeamInit
<1>5. active \in [People -> BOOLEAN] /\ signedIn \in [People -> BOOLEAN] /\ last \in [People -> BOOLEAN]
  BY DEF TeamInit
<1>6. Addressed /\ \A c \in Calls : CallOn(teamCall[c])
  BY <1>3 DEF TeamInit, Addressed, CallOn, NoInviteRec
<1> QED
  BY <1>1, <1>2, <1>4, <1>5, <1>6 DEF TeamInv, TeamTypeOK

(* Members come only by an acceptance. *)
LEMMA MemberSteps ==
  ASSUME TeamInv, [TeamNext]_teamVars
  PROVE  member' \in [People -> MemberRecs] /\ JoinsByGoodLink
<1> DEFINE Goal == member' \in [People -> MemberRecs] /\ JoinsByGoodLink
<1>0. /\ member \in [People -> MemberRecs] /\ invite \in [Invites -> InviteRecs] /\ teamCall \in [Calls -> CallRecs]
      /\ Addressed /\ \A c \in Calls : CallOn(teamCall[c])
  BY DEF TeamInv, TeamTypeOK
<1>1. ASSUME UNCHANGED member PROVE Goal
  BY <1>0, <1>1 DEF JoinsByGoodLink
<1>2. ASSUME NEW u \in People, member[u] # NoMember, NEW x \in MemberRecs, member' = [member EXCEPT ![u] = x] PROVE Goal
  BY <1>0, <1>2 DEF JoinsByGoodLink
<1>3. ASSUME NEW c \in Calls, WriteRole(c) PROVE Goal
  <2> DEFINE q == teamCall[c]
             x == [role |-> q.to, manager |-> q.to = "admin" /\ q.seen.manager]
  <2>1. q.u \in People /\ q.to \in {"admin", "member"} /\ q.seen \in MemberRecs
    BY <1>0, <1>3 DEF WriteRole, CallOn, CallRecs
  <2>2. x \in MemberRecs
    BY <2>1 DEF MemberRecs, MemberRoles
  <2>3. CASE member[q.u] = NoMember
    BY <1>1, <1>3, <2>3 DEF WriteRole
  <2>4. CASE member[q.u] # NoMember
    <3>1. member' = [member EXCEPT ![q.u] = x]
      BY <1>3, <2>4 DEF WriteRole
    <3> QED
      BY <1>2, <2>1, <2>2, <2>4, <3>1
  <2> QED
    BY <2>3, <2>4
<1>4. ASSUME NEW c \in Calls, WriteManager(c) PROVE Goal
  <2> DEFINE q == teamCall[c]
             x == [member[q.u] EXCEPT !.manager = q.to = "on"]
  <2>1. q.u \in People
    BY <1>0, <1>4 DEF WriteManager, CallOn
  <2>2. x \in MemberRecs
    BY <1>0, <2>1 DEF MemberRecs
  <2>3. CASE member[q.u] = NoMember
    BY <1>1, <1>4, <2>3 DEF WriteManager
  <2>4. CASE member[q.u] # NoMember
    <3>1. member' = [member EXCEPT ![q.u] = x]
      BY <1>4, <2>4 DEF WriteManager
    <3> QED
      BY <1>2, <2>1, <2>2, <2>4, <3>1
  <2> QED
    BY <2>3, <2>4
<1>5. ASSUME NEW c \in Calls, RemoveMember(c) PROVE Goal
  <2>1. teamCall[c].u \in People /\ NoMember \in MemberRecs
    BY <1>0, <1>5 DEF RemoveMember, CallOn, NoMember, MemberRecs
  <2>2. UNCHANGED member \/ (member[teamCall[c].u] # NoMember /\ member' = [member EXCEPT ![teamCall[c].u] = NoMember])
    BY <1>5 DEF RemoveMember
  <2> QED
    BY <1>1, <1>2, <2>1, <2>2
<1>6. ASSUME NEW c \in Calls, AcceptInvite(c) PROVE Goal
  <2> DEFINE q == teamCall[c]
             x == [role |-> invite[q.i].role, manager |-> FALSE]
  <2>1. q.u \in People /\ q.i \in Invites /\ invite[q.i].u = q.u
    BY <1>0, <1>6 DEF AcceptInvite, CallOn, Addressed
  <2>2. x \in MemberRecs
    BY <1>0, <2>1 DEF InviteRecs, MemberRecs, MemberRoles
  <2>3. CASE UNCHANGED member
    BY <1>1, <2>3
  <2>4. CASE Claimable(q) /\ member' = [member EXCEPT ![q.u] = x] /\ invite' = [invite EXCEPT ![q.i].status = "accepted"]
    <3>1. member' \in [People -> MemberRecs] /\ \A u \in People \ {q.u} : member'[u] = member[u]
      BY <1>0, <2>1, <2>2, <2>4
    <3>2. invite[q.i].status \in Actionable /\ invite'[q.i].status = "accepted"
      BY <1>0, <2>1, <2>4 DEF Claimable, InviteRecs
    <3> QED
      BY <2>1, <3>1, <3>2 DEF JoinsByGoodLink
  <2> QED
    BY <1>6, <2>3, <2>4 DEF AcceptInvite
<1>7. ASSUME NEW c \in Calls, TeamStep(c)
      PROVE  UNCHANGED member \/ WriteRole(c) \/ WriteManager(c) \/ RemoveMember(c) \/ AcceptInvite(c)
  BY <1>7 DEF TeamStep, QueueInvite, MarkInviteDeliveryFailed, ResendInvite, RevokeInvite, SetActive, RepairSession
<1>8. UNCHANGED member \/ \E c \in Calls : TeamStep(c)
  BY DEF TeamNext, teamVars, AskRole, AskRemove, AskManager, AskActive, GetSession, CreateInvite, OpenInvite, AskInvite,
         InviteGetsLate, ExpireInvite, SignIn
<1> QED
  BY <1>1, <1>3, <1>4, <1>5, <1>6, <1>7, <1>8

(* An invitation keeps its address once it is made. *)
InvitesKept ==
  /\ invite' \in [Invites -> InviteRecs]
  /\ \A i \in Invites :
       /\ invite[i].status # "none" => invite'[i].status # "none" /\ invite'[i].u = invite[i].u
       /\ invite'[i].status # "none" => invite'[i].u \in People

LEMMA InviteSteps ==
  ASSUME TeamInv, [TeamNext]_teamVars
  PROVE  InvitesKept
<1>0. /\ invite \in [Invites -> InviteRecs] /\ teamCall \in [Calls -> CallRecs]
      /\ Addressed /\ \A c \in Calls : CallOn(teamCall[c])
  BY DEF TeamInv, TeamTypeOK
<1>1. ASSUME UNCHANGED invite PROVE InvitesKept
  BY <1>0, <1>1 DEF InvitesKept, Addressed
<1>2. ASSUME NEW i \in Invites, invite[i].status # "none",
             NEW status \in Actionable \cup {"accepted", "revoked", "expired"},
             invite' = [invite EXCEPT ![i].status = status]
      PROVE  InvitesKept
  BY <1>0, <1>2 DEF InvitesKept, Addressed, InviteRecs, Actionable
<1>3. ASSUME NEW c \in Calls, ResendInvite(c), invite[teamCall[c].i].status # "none" PROVE InvitesKept
  <2> DEFINE i == teamCall[c].i
  <2>1. i \in Invites
    BY <1>0, <1>3 DEF ResendInvite, CallOn
  <2>2. invite[i].link + 1 \in 0..MaxLinks
    BY <1>0, <1>3, <2>1, TeamsAssumption DEF ResendInvite, InviteRecs
  <2>3. PICK n \in 0..MaxLinks : invite' = [invite EXCEPT ![i].status = "pending", ![i].link = n, ![i].late = FALSE]
    BY <1>3, <2>2 DEF ResendInvite
  <2>4. /\ invite' \in [Invites -> InviteRecs] /\ invite'[i].status = "pending" /\ invite'[i].u = invite[i].u
        /\ \A j \in Invites \ {i} : invite'[j] = invite[j]
    BY <1>0, <2>1, <2>3 DEF InviteRecs, Actionable
  <2> QED
    BY <1>0, <1>3, <2>4 DEF InvitesKept, Addressed
<1>4. ASSUME NEW c \in Calls, NEW by \in People, NEW i \in Invites, NEW u \in People, NEW role \in {"admin", "member"},
             CreateInvite(c, by, i, u, role)
      PROVE  InvitesKept
  <2>1. 1 \in 0..MaxLinks
    BY TeamsAssumption
  <2>2. /\ invite' \in [Invites -> InviteRecs] /\ invite'[i].u = u /\ invite[i].status = "none"
        /\ \A j \in Invites \ {i} : invite'[j] = invite[j]
    BY <1>0, <1>4, <2>1 DEF CreateInvite, InviteRecs, Actionable
  <2> QED
    BY <1>0, <2>2 DEF InvitesKept, Addressed
<1>5. ASSUME NEW i \in Invites, InviteGetsLate(i) PROVE InvitesKept
  BY <1>0, <1>5 DEF InviteGetsLate, InvitesKept, Addressed, InviteRecs
<1>6. ASSUME NEW i \in Invites, ExpireInvite(i) PROVE InvitesKept
  BY <1>0, <1>2, <1>6 DEF ExpireInvite, Actionable
<1>7. ASSUME NEW c \in Calls, MarkInviteDeliveryFailed(c) PROVE InvitesKept
  <2>1. teamCall[c].i \in Invites
    BY <1>0, <1>7 DEF MarkInviteDeliveryFailed, CallOn
  <2>2. \/ UNCHANGED invite
        \/ invite[teamCall[c].i].status = "pending" /\ invite' = [invite EXCEPT ![teamCall[c].i].status = "failed"]
    BY <1>7 DEF MarkInviteDeliveryFailed
  <2> QED
    BY <1>1, <1>2, <2>1, <2>2 DEF Actionable
<1>8. ASSUME NEW c \in Calls, RevokeInvite(c), invite[teamCall[c].i].status # "none" PROVE InvitesKept
  <2>1. teamCall[c].i \in Invites
    BY <1>0, <1>8 DEF RevokeInvite, CallOn
  <2> QED
    BY <1>2, <1>8, <2>1 DEF RevokeInvite
<1>9. ASSUME NEW c \in Calls, AcceptInvite(c) PROVE InvitesKept
  <2>1. teamCall[c].i \in Invites /\ invite[teamCall[c].i].status # "none"
    BY <1>0, <1>9 DEF AcceptInvite, CallOn, Addressed
  <2>2. UNCHANGED invite \/ invite' = [invite EXCEPT ![teamCall[c].i].status = "accepted"]
    BY <1>9 DEF AcceptInvite
  <2> QED
    BY <1>1, <1>2, <2>1, <2>2
<1>10. ASSUME NEW c \in Calls, TeamStep(c)
       PROVE  \/ UNCHANGED invite
              \/ MarkInviteDeliveryFailed(c) \/ ResendInvite(c) \/ RevokeInvite(c) \/ AcceptInvite(c)
  BY <1>10 DEF TeamStep, WriteRole, WriteManager, RemoveMember, QueueInvite, SetActive, RepairSession
<1>11. ASSUME NEW c \in Calls, teamCall[c].pc \in {"resend", "revoke"} PROVE invite[teamCall[c].i].status # "none"
  BY <1>0, <1>11 DEF Addressed
<1>12. \/ UNCHANGED invite \/ \E c \in Calls : TeamStep(c)
       \/ \E c \in Calls, u \in People, by \in People, i \in Invites, role \in {"admin", "member"} : CreateInvite(c, by, i, u, role)
       \/ \E i \in Invites : InviteGetsLate(i) \/ ExpireInvite(i)
  BY DEF TeamNext, teamVars, AskRole, AskRemove, AskManager, AskActive, GetSession, OpenInvite, AskInvite, SignIn
<1>13. ASSUME NEW c \in Calls, TeamStep(c) PROVE InvitesKept
  BY <1>1, <1>3, <1>7, <1>8, <1>9, <1>10, <1>11, <1>13 DEF ResendInvite, RevokeInvite
<1> QED
  BY <1>1, <1>4, <1>5, <1>6, <1>12, <1>13

(* A request that works on what is there. *)
CallFine(q) ==
  /\ q \in CallRecs /\ CallOn(q)
  /\ q.pc \in {"resend", "revoke", "claim"} => invite[q.i].status # "none"
  /\ q.pc = "claim" => invite[q.i].u = q.u

LEMMA CallSteps ==
  ASSUME TeamInv, [TeamNext]_teamVars
  PROVE  /\ teamCall' \in [Calls -> CallRecs] /\ called' \in 0..MaxCalled
         /\ \A c \in Calls : CallFine(teamCall'[c]) \/ (teamCall'[c].pc = "queue" /\ CallOn(teamCall'[c]))
<1> DEFINE Fine(q) == CallFine(q) \/ (q \in CallRecs /\ q.pc = "queue" /\ CallOn(q))
           Goal == /\ teamCall' \in [Calls -> CallRecs] /\ called' \in 0..MaxCalled
                   /\ \A c \in Calls : CallFine(teamCall'[c]) \/ (teamCall'[c].pc = "queue" /\ CallOn(teamCall'[c]))
<1>0. /\ teamCall \in [Calls -> CallRecs] /\ called \in 0..MaxCalled /\ member \in [People -> MemberRecs]
      /\ invite \in [Invites -> InviteRecs] /\ Addressed
      /\ \A c \in Calls : CallFine(teamCall[c])
  BY DEF TeamInv, TeamTypeOK, CallFine, Addressed
<1>1. ASSUME NEW c \in Calls, NEW q, teamCall' = [teamCall EXCEPT ![c] = q], called' \in 0..MaxCalled, Fine(q) PROVE Goal
  BY <1>0, <1>1 DEF CallFine
<1>2. ASSUME NEW c \in Calls, NEW q, Ask(c, q), Fine(q) PROVE Goal
  <2>1. called' \in 0..MaxCalled
    BY <1>0, <1>2, TeamsAssumption DEF Ask
  <2> QED
    BY <1>1, <1>2, <2>1 DEF Ask
<1>3. ASSUME NEW c \in Calls, NEW q, GoesOn(c, q), Fine(q) PROVE Goal
  BY <1>0, <1>1, <1>3 DEF GoesOn
<1>4. Fine(NoCall)
  <2>1. NoMember \in MemberRecs /\ 0 \in 0..MaxLinks
    BY TeamsAssumption DEF NoMember, MemberRecs
  <2>2. NoCall \in CallRecs /\ NoCall.pc = "idle"
    BY <2>1 DEF CallRecs, NoCall
  <2> QED
    BY <2>2 DEF CallFine, CallOn
<1>5. ASSUME UNCHANGED <<teamCall, called>> PROVE Goal
  BY <1>0, <1>5 DEF CallFine
<1>6. NoMember \in MemberRecs /\ 0 \in 0..MaxLinks /\ 1 \in 0..MaxLinks
  BY TeamsAssumption DEF NoMember, MemberRecs
<1>7. ASSUME NEW c \in Calls, NEW by \in People, NEW u \in People, NEW to \in {"admin", "member"}, AskRole(c, by, u, to) PROVE Goal
  <2>1. member[u] \in MemberRecs
    BY <1>0
  <2> DEFINE q == [NoCall EXCEPT !.pc = "role", !.u = u, !.seen = member[u], !.to = to]
  <2>2. q \in CallRecs /\ q.pc = "role" /\ q.u = u /\ q.to = to
    BY <1>6, <2>1 DEF CallRecs, NoCall
  <2>3. Ask(c, q)
    BY <1>7 DEF AskRole
  <2> HIDE DEF q
  <2>4. Fine(q)
    BY <2>2 DEF CallFine, CallOn
  <2> QED
    BY <1>2, <2>3, <2>4
<1>8. ASSUME NEW c \in Calls, NEW u \in People, NEW to \in {"on", "off"}, AskManager(c, u, to) PROVE Goal
  <2> DEFINE q == [NoCall EXCEPT !.pc = "manager", !.u = u, !.to = to]
  <2>1. q \in CallRecs /\ q.pc = "manager" /\ q.u = u
    BY <1>6 DEF CallRecs, NoCall
  <2>2. Ask(c, q)
    BY <1>8 DEF AskManager
  <2> HIDE DEF q
  <2>3. Fine(q)
    BY <2>1 DEF CallFine, CallOn
  <2> QED
    BY <1>2, <2>2, <2>3
<1>9. ASSUME NEW c \in Calls, NEW u \in People, AskActive(c, u) \/ \E by \in People : AskRemove(c, by, u) PROVE Goal
  <2>1. PICK pc \in {"remove", "activate"} : Ask(c, [NoCall EXCEPT !.pc = pc, !.u = u])
    BY <1>9 DEF AskActive, AskRemove
  <2> DEFINE q == [NoCall EXCEPT !.pc = pc, !.u = u]
  <2>2. q \in CallRecs /\ q.pc = pc /\ q.u = u
    BY <1>6 DEF CallRecs, NoCall
  <2>3. Ask(c, q)
    BY <2>1
  <2> HIDE DEF q
  <2>4. Fine(q)
    BY <2>2 DEF CallFine, CallOn
  <2> QED
    BY <1>2, <2>3, <2>4
<1>10. ASSUME NEW c \in Calls, NEW u \in People, GetSession(c, u) PROVE Goal
  <2>1. member[u] \in MemberRecs
    BY <1>0
  <2> DEFINE q == [NoCall EXCEPT !.pc = "repair", !.u = u, !.seen = member[u]]
  <2>2. q \in CallRecs /\ q.pc = "repair" /\ q.u = u
    BY <1>6, <2>1 DEF CallRecs, NoCall
  <2>3. Ask(c, q)
    BY <1>10 DEF GetSession
  <2> HIDE DEF q
  <2>4. Fine(q)
    BY <2>2 DEF CallFine, CallOn
  <2> QED
    BY <1>2, <2>3, <2>4
<1>11. ASSUME NEW c \in Calls, NEW by \in People, NEW i \in Invites, NEW u \in People, NEW role \in {"admin", "member"},
              CreateInvite(c, by, i, u, role)
       PROVE  Goal
  <2> DEFINE q == [NoCall EXCEPT !.pc = "queue", !.i = i, !.link = 1]
  <2>1. q \in CallRecs /\ q.pc = "queue" /\ q.i = i
    BY <1>6 DEF CallRecs, NoCall
  <2>2. Ask(c, q)
    BY <1>11 DEF CreateInvite
  <2> HIDE DEF q
  <2>3. Fine(q)
    BY <2>1 DEF CallFine, CallOn
  <2> QED
    BY <1>2, <2>2, <2>3
<1>12. ASSUME NEW c \in Calls, NEW i \in Invites, NEW to \in {"none", "new"}, OpenInvite(c, i, to) PROVE Goal
  <2>1. invite[i].status # "none" /\ invite[i].u \in People /\ invite[i].link \in 0..MaxLinks
    BY <1>0, <1>12 DEF OpenInvite, Addressed, InviteRecs, Actionable
  <2>2. PICK u \in People, n \in 0..MaxLinks : u = invite[i].u /\ n = invite[i].link
    BY <2>1
  <2> DEFINE q == [NoCall EXCEPT !.pc = "claim", !.u = u, !.i = i, !.link = n, !.to = to]
  <2>3. q \in CallRecs /\ q.pc = "claim" /\ q.u = u /\ q.i = i
    BY <1>6 DEF CallRecs, NoCall
  <2>4. Ask(c, q)
    BY <1>12, <2>2 DEF OpenInvite
  <2> HIDE DEF q
  <2>5. Fine(q)
    BY <2>1, <2>2, <2>3 DEF CallFine, CallOn
  <2> QED
    BY <1>2, <2>4, <2>5
<1>13. ASSUME NEW c \in Calls, NEW by \in People, NEW i \in Invites, NEW pc \in {"resend", "revoke"}, AskInvite(c, by, i, pc) PROVE Goal
  <2> DEFINE q == [NoCall EXCEPT !.pc = pc, !.i = i]
  <2>1. q \in CallRecs /\ q.pc = pc /\ q.i = i
    BY <1>6 DEF CallRecs, NoCall
  <2>2. Ask(c, q) /\ invite[i].status # "none"
    BY <1>13 DEF AskInvite
  <2> HIDE DEF q
  <2>3. Fine(q)
    BY <2>1, <2>2 DEF CallFine, CallOn
  <2> QED
    BY <1>2, <2>2, <2>3
<1>14. ASSUME NEW c \in Calls, Reply(c) PROVE Goal
  BY <1>3, <1>4, <1>14 DEF Reply
<1>15. ASSUME NEW c \in Calls, QueueInvite(c) PROVE Goal
  <2>1. CASE GoesOn(c, [teamCall[c] EXCEPT !.pc = "undelivered"])
    <3>1. teamCall[c] \in CallRecs /\ teamCall[c].i \in Invites
      BY <1>0, <1>15 DEF QueueInvite, CallFine, CallOn
    <3> DEFINE q == [teamCall[c] EXCEPT !.pc = "undelivered"]
    <3>2. q \in CallRecs /\ q.pc = "undelivered" /\ q.i = teamCall[c].i
      BY <3>1 DEF CallRecs
    <3>3. GoesOn(c, q)
      BY <2>1
    <3> HIDE DEF q
    <3>4. Fine(q)
      BY <3>1, <3>2 DEF CallFine, CallOn
    <3> QED
      BY <1>3, <3>3, <3>4
  <2> QED
    BY <1>14, <1>15, <2>1 DEF QueueInvite
<1>16. ASSUME NEW c \in Calls, ResendInvite(c) PROVE Goal
  <2>1. teamCall[c] \in CallRecs /\ teamCall[c].i \in Invites
    BY <1>0, <1>16 DEF ResendInvite, CallFine, CallOn
  <2>2. PICK n \in 0..MaxLinks : n = invite[teamCall[c].i].link + 1
    BY <1>0, <1>16, <2>1, TeamsAssumption DEF ResendInvite, InviteRecs
  <2>9. /\ [teamCall[c] EXCEPT !.pc = "queue"] \in CallRecs /\ [teamCall[c] EXCEPT !.pc = "queue"].pc = "queue"
        /\ [teamCall[c] EXCEPT !.pc = "queue"].i = teamCall[c].i
    BY <2>1 DEF CallRecs
  <2>3. PICK x \in CallRecs : x = [teamCall[c] EXCEPT !.pc = "queue"] /\ x.pc = "queue" /\ x.i = teamCall[c].i
    BY <2>9, Zenon
  <2>4. [x EXCEPT !.link = n] \in CallRecs /\ [x EXCEPT !.link = n].pc = x.pc /\ [x EXCEPT !.link = n].i = x.i
    BY <2>3 DEF CallRecs
  <2>5. PICK q \in CallRecs : q = [x EXCEPT !.link = n] /\ q.pc = "queue" /\ q.i = teamCall[c].i
    BY <2>3, <2>4, Zenon
  <2>6. q = [teamCall[c] EXCEPT !.pc = "queue", !.link = invite[teamCall[c].i].link + 1]
    BY <2>2, <2>3, <2>5, Zenon
  <2>7. GoesOn(c, q)
    BY <1>16, <2>6 DEF ResendInvite
  <2>8. Fine(q)
    BY <2>1, <2>5 DEF CallOn
  <2> QED
    BY <1>3, <2>7, <2>8
<1>17. ASSUME NEW c \in Calls, TeamStep(c) PROVE Goal
  <2>1. Reply(c) \/ QueueInvite(c) \/ ResendInvite(c)
    BY <1>17 DEF TeamStep, WriteRole, WriteManager, RemoveMember, MarkInviteDeliveryFailed, RevokeInvite, AcceptInvite,
                 SetActive, RepairSession
  <2> QED
    BY <1>14, <1>15, <1>16, <2>1
<1>18. ASSUME (\E i \in Invites : InviteGetsLate(i) \/ ExpireInvite(i)) \/ (\E u \in People : SignIn(u)) \/ UNCHANGED teamVars
       PROVE  Goal
  BY <1>5, <1>18 DEF InviteGetsLate, ExpireInvite, SignIn, teamVars
<1> HIDE DEF Goal
<1>19. Goal
  BY <1>7, <1>8, <1>9, <1>10, <1>11, <1>12, <1>13, <1>17, <1>18 DEF TeamNext
<1> QED
  BY <1>19 DEF Goal

LEMMA SignedSteps ==
  ASSUME TeamInv, [TeamNext]_teamVars
  PROVE  active' \in [People -> BOOLEAN] /\ signedIn' \in [People -> BOOLEAN] /\ last' \in [People -> BOOLEAN]
<1>0. active \in [People -> BOOLEAN] /\ signedIn \in [People -> BOOLEAN] /\ last \in [People -> BOOLEAN]
  BY DEF TeamInv, TeamTypeOK
<1> DEFINE Goal == active' \in [People -> BOOLEAN] /\ signedIn' \in [People -> BOOLEAN] /\ last' \in [People -> BOOLEAN]
<1>1. ASSUME NEW u \in People, SignIn(u) PROVE Goal
  BY <1>0, <1>1 DEF SignIn
<1>2. ASSUME NEW c \in Calls, SetActive(c) PROVE Goal
  BY <1>0, <1>2 DEF SetActive
<1>3. ASSUME NEW c \in Calls, RepairSession(c) PROVE Goal
  <2>1. UNCHANGED <<signedIn, last>> /\ \E x \in BOOLEAN : active' = [active EXCEPT ![teamCall[c].u] = x] \/ UNCHANGED active
    BY <1>0, <1>3 DEF RepairSession
  <2> QED
    BY <1>0, <2>1
<1>4. ASSUME NEW c \in Calls, AcceptInvite(c) PROVE Goal
  BY <1>0, <1>4 DEF AcceptInvite
<1>5. ASSUME NEW c \in Calls, RemoveMember(c) PROVE Goal
  BY <1>0, <1>5 DEF RemoveMember
<1>6. ASSUME NEW c \in Calls, TeamStep(c)
      PROVE  UNCHANGED <<active, signedIn, last>> \/ SetActive(c) \/ RepairSession(c) \/ AcceptInvite(c) \/ RemoveMember(c)
  BY <1>6 DEF TeamStep, WriteRole, WriteManager, QueueInvite, MarkInviteDeliveryFailed, ResendInvite, RevokeInvite
<1>7. UNCHANGED <<active, signedIn, last>> \/ (\E c \in Calls : TeamStep(c)) \/ \E u \in People : SignIn(u)
  BY DEF TeamNext, teamVars, AskRole, AskRemove, AskManager, AskActive, GetSession, CreateInvite, OpenInvite, AskInvite,
         InviteGetsLate, ExpireInvite
<1> QED
  BY <1>0, <1>1, <1>2, <1>3, <1>4, <1>5, <1>6, <1>7

(* Nobody becomes a member except by an invitation that is addressed to    *)
(* that person and still good at that moment, and that is used up by it:   *)
(* acceptInvite and acceptInviteForNewUser claim the invitation by link,   *)
(* status and expiry in the transaction that creates the member, and the   *)
(* requests that write a member ask for one that is there.                 *)
THEOREM JoinsAreGood == TeamSpec => TeamsSafe
<1>1. TeamInv /\ [TeamNext]_teamVars => TeamInv' /\ JoinsByGoodLink
  <2> SUFFICES ASSUME TeamInv, [TeamNext]_teamVars PROVE TeamInv' /\ JoinsByGoodLink
    OBVIOUS
  <2>1. member' \in [People -> MemberRecs] /\ JoinsByGoodLink
    BY MemberSteps
  <2>2. InvitesKept
    BY InviteSteps
  <2>3. /\ teamCall' \in [Calls -> CallRecs] /\ called' \in 0..MaxCalled
        /\ \A c \in Calls : CallFine(teamCall'[c]) \/ (teamCall'[c].pc = "queue" /\ CallOn(teamCall'[c]))
    BY CallSteps
  <2>4. active' \in [People -> BOOLEAN] /\ signedIn' \in [People -> BOOLEAN] /\ last' \in [People -> BOOLEAN]
    BY SignedSteps
  <2>5. TeamTypeOK'
    BY <2>1, <2>2, <2>3, <2>4 DEF TeamTypeOK, InvitesKept
  <2>6. \A c \in Calls : CallOn(teamCall'[c])
    BY <2>3 DEF CallFine
  <2>7. Addressed'
    <3>1. \A i \in Invites : invite'[i].status # "none" => invite'[i].u \in People
      BY <2>2 DEF InvitesKept
    <3>2. ASSUME NEW c \in Calls, teamCall'[c].pc \in {"resend", "revoke", "claim"}
          PROVE  /\ invite'[teamCall'[c].i].status # "none"
                 /\ teamCall'[c].pc = "claim" => invite'[teamCall'[c].i].u = teamCall'[c].u
      <4>1. CallFine(teamCall'[c]) /\ teamCall'[c].i \in Invites
        BY <2>3, <2>6, <3>2 DEF CallOn
      <4> QED
        BY <2>2, <3>2, <4>1 DEF CallFine, InvitesKept
    <3> QED
      BY <3>1, <3>2 DEF Addressed
  <2> QED
    BY <2>1, <2>5, <2>6, <2>7 DEF TeamInv
<1>2. TeamInv /\ TeamInv' /\ [TeamNext]_teamVars => [JoinsByGoodLink /\ TeamTypeOK']_teamVars
  BY <1>1 DEF TeamInv
<1>3. TeamInv /\ [TeamNext]_teamVars => TeamInv'
  BY <1>1
<1> QED
  BY <1>2, <1>3, TeamInitially, PTL DEF TeamSpec, TeamsSafe

-----------------------------------------------------------------------------
(***************************************************************************)
(* Routes to Meta.  Every destination a row or a request names, other than *)
(* the one a connection is being made with, is one that somebody set up,   *)
(* and a connection being made with the login's credential still holds it  *)
(* only while the login is there.                                          *)
(***************************************************************************)
IntegrationRecs == [on : BOOLEAN, advanced : BOOLEAN, capi : BOOLEAN, primary : Targets \cup {NoTarget}, selected : Bms \cup {NoBm}]

BmRecs == [cred : Sources \cup {"none"}, status : {"active", "paused", "validation_required"}, dflt : Targets \cup {NoTarget}]

AcctRecs == [known : BOOLEAN, active : BOOLEAN, bm : Bms \cup {NoBm}, to : Targets \cup {NoTarget}]

AssignRecs == [by : {"none", "automatic", "manual"}, to : Targets \cup {NoTarget}]

AskOps == {"none", "credential", "prepare", "oauth", "assets", "connect", "rotate", "test", "account", "ad", "reconcile", "advanced"}

AskRecs == [op : AskOps, pc : {"idle", "meta", "check", "write"}, src : Sources, bm : Bms \cup {NoBm}, acct : AdAccounts,
            accts : SUBSET AdAccounts, to : Targets \cup {NoTarget}, tos : SUBSET Targets, replace : BOOLEAN,
            old : Targets \cup {NoTarget}, held : BOOLEAN]

(* The request q, when ts are the destinations set up and on says whether  *)
(* there is a login.                                                       *)
AskKnows(q, ts, on) ==
  /\ q \in AskRecs /\ q.tos \subseteq ts /\ q.old \in ts \cup {NoTarget}
  /\ q.op # "connect" => q.to \in ts \cup {NoTarget}
  /\ q.op \in {"connect", "test"} => q.bm \in Bms
  /\ q.op = "connect" => q.to \in Targets
  /\ q.op = "connect" /\ q.src = "oauth" /\ q.held => on

AsksKnow(as, ts, on) == as \in [Asks -> AskRecs] /\ \A r \in Asks : AskKnows(as[r], ts, on)

RowsKnown ==
  /\ \A b \in Bms : bmConn[b].dflt \in targets \cup {NoTarget}
  /\ \A a \in AdAccounts : adAcct[a].to \in targets \cup {NoTarget}
  /\ allowed \subseteq AdAccounts \X targets
  /\ assigned.to \in targets \cup {NoTarget}

MetaInv == MetaTypeOK /\ DisconnectedRoutesNothing /\ RowsKnown /\ AsksKnow(ask, targets, integration.on)

LEMMA MetaTyped == ASSUME MetaInv
  PROVE  /\ integration \in IntegrationRecs /\ bmConn \in [Bms -> BmRecs] /\ adAcct \in [AdAccounts -> AcctRecs]
         /\ assigned \in AssignRecs /\ targets \subseteq Targets /\ ask \in [Asks -> AskRecs]
         /\ credential \in [Sources -> {"none", "pending", "active"}] /\ asked \in 0..MaxAsked
         /\ snapshot \in [root : {"none", "ok", "error"}, business : {"none", "ok", "partial"}]
         /\ allowed \subseteq AdAccounts \X Targets
BY Zenon DEF MetaInv, MetaTypeOK, IntegrationRecs, BmRecs, AcctRecs, AssignRecs, AsksKnow

LEMMA NoAskKnows == \A ts, on : AskKnows(NoAsk, ts, on)
BY MetaAssumption DEF AskKnows, NoAsk, AskRecs, AskOps, Sources

LEMMA MetaStarts == MetaInit => MetaInv
<1> SUFFICES ASSUME MetaInit PROVE MetaInv
  OBVIOUS
<1>1. NoIntegration \in IntegrationRecs /\ Unconnected \in BmRecs /\ Unconnected.dflt = NoTarget /\ Unconnected.cred = "none"
  BY DEF NoIntegration, IntegrationRecs, Unconnected, BmRecs
<1>2. [Detached EXCEPT !.known = FALSE] \in AcctRecs /\ [Detached EXCEPT !.known = FALSE].to = NoTarget
  BY DEF Detached, AcctRecs
<1>3. Unassigned \in AssignRecs /\ Unassigned.to = NoTarget
  BY DEF Unassigned, AssignRecs
<1>4. AsksKnow(ask, targets, integration.on)
  <2>1. NoAsk \in AskRecs
    BY NoAskKnows DEF AskKnows
  <2> QED
    BY <2>1, NoAskKnows DEF AsksKnow, MetaInit
<1>5. RowsKnown
  BY <1>1, <1>2, <1>3 DEF MetaInit, RowsKnown
<1>6. DisconnectedRoutesNothing
  BY <1>1 DEF MetaInit, DisconnectedRoutesNothing
<1>7. /\ integration \in IntegrationRecs /\ bmConn \in [Bms -> BmRecs] /\ adAcct \in [AdAccounts -> AcctRecs] /\ assigned \in AssignRecs
  BY <1>1, <1>2, <1>3 DEF MetaInit
<1>8. /\ snapshot \in [root : {"none", "ok", "error"}, business : {"none", "ok", "partial"}]
      /\ credential \in [Sources -> {"none", "pending", "active"}] /\ targets \subseteq Targets /\ allowed \subseteq AdAccounts \X Targets
      /\ asked \in 0..MaxAsked
  BY MetaAssumption DEF MetaInit
<1>9. MetaTypeOK
  BY <1>4, <1>7, <1>8, Zenon DEF MetaTypeOK, IntegrationRecs, BmRecs, AcctRecs, AssignRecs, AsksKnow, AskRecs, AskOps
<1> QED
  BY <1>4, <1>5, <1>6, <1>9 DEF MetaInv

-----------------------------------------------------------------------------
(* The requests begin, go on, and are at times a single transaction. *)
MetaAsks(r) ==
  \/ AskCredential(r) \/ AskPrepare(r) \/ AskOAuth(r) \/ AskRotate(r) \/ (\E b \in Bms \cup {NoBm} : AskAssets(r, b))
  \/ (\E src \in Sources, b \in Bms, as \in (SUBSET AdAccounts) \ {{}}, t \in Targets, rep \in BOOLEAN :
        AskConnect(r, src, b, as, t, rep))
  \/ (\E b \in Bms : AskTest(r, b)) \/ (\E on \in BOOLEAN : AskAdvanced(r, on))
  \/ (\E a \in AdAccounts, t \in Targets \cup {NoTarget}, ts \in SUBSET Targets : AskAccountDestination(r, a, t, ts))
  \/ (\E a \in AdAccounts : SyncReconciles(r, a)) \/ (\E t \in Targets \cup {NoTarget} : AskAdDestination(r, t))

MetaWrites(r) ==
  \/ SaveCredential(r) \/ SavePrepared(r) \/ SaveOAuthConnection(r) \/ RefreshAssets(r) \/ CheckConnect(r) \/ CommitConnect(r)
  \/ RotateCredential(r) \/ TestBusinessConnection(r) \/ SetOAuthAdvancedRouting(r) \/ SaveAccountDestination(r)
  \/ ReadReconcile(r) \/ WriteReconcile(r) \/ SaveAdDestination(r) \/ MetaRefuses(r)

MetaTransaction ==
  \/ DisconnectOAuthConnection
  \/ (\E b \in Bms : SaveAssetSelection(b) \/ RemoveBusinessConnection(b))
  \/ (\E b \in Bms, st \in {"active", "paused"} : SetBusinessConnectionStatus(b, st))
  \/ (\E set \in BOOLEAN : SaveCapiToken(set))
  \/ (\E t \in Targets : SaveConversionDestination(t))
  \/ (\E a \in AdAccounts : SaveReportingAccount(a))
  \/ (\E a \in AdAccounts, on \in BOOLEAN : SetReportingAccountActive(a, on))

LEMMA MetaCases == ASSUME [MetaNext]_metaVars
  PROVE  UNCHANGED metaVars \/ MetaTransaction \/ (\E r \in Asks : MetaAsks(r)) \/ (\E r \in Asks : MetaWrites(r))
BY DEF MetaNext, MetaAsks, MetaWrites, MetaTransaction

LEMMA AsksOnlyAsk == ASSUME NEW r \in Asks, MetaAsks(r)
  PROVE  UNCHANGED <<integration, snapshot, credential, bmConn, adAcct, targets, allowed, assigned>>
BY DEF MetaAsks, AskCredential, AskPrepare, AskOAuth, AskRotate, AskAssets, AskConnect, AskTest, AskAdvanced, AskAccountDestination,
   SyncReconciles, AskAdDestination, login, routing

(* The login, the credentials and the destinations.  Only a disconnection  *)
(* takes the login away, and no destination is removed.                    *)
LEMMA LoginSteps == ASSUME MetaInv, [MetaNext]_metaVars
  PROVE  /\ integration' \in IntegrationRecs /\ (integration.on /\ ~DisconnectOAuthConnection => integration'.on)
         /\ targets' \subseteq Targets /\ targets \subseteq targets' /\ asked' \in 0..MaxAsked
<1>1. /\ integration \in IntegrationRecs /\ targets \subseteq Targets /\ asked \in 0..MaxAsked /\ MaxAsked \in Nat
      /\ \A r \in Asks : ask[r] \in AskRecs
  BY MetaTyped, MetaAssumption
<1>2. \A r \in Asks : ask[r].to \in Targets \cup {NoTarget} /\ (ask[r].op = "connect" => ask[r].to \in Targets)
                      /\ ask[r].bm \in Bms \cup {NoBm} /\ ask[r].replace \in BOOLEAN
  BY <1>1 DEF MetaInv, AsksKnow, AskKnows, AskRecs
<1>3. targets' \subseteq Targets /\ targets \subseteq targets'
  <2>1. CASE UNCHANGED targets
    BY <1>1, <2>1
  <2>2. CASE \E t \in Targets : SaveConversionDestination(t)
    BY <1>1, <2>2 DEF SaveConversionDestination
  <2>3. CASE \E r \in Asks : CommitConnect(r)
    BY <1>1, <1>2, <2>1, <2>3 DEF CommitConnect, AskAt, routing
  <2> QED
    BY <2>1, <2>2, <2>3, MetaCases, AsksOnlyAsk DEF metaVars, MetaWrites, MetaTransaction, SaveCredential, SavePrepared,
       SaveOAuthConnection, RefreshAssets, CheckConnect, RotateCredential, TestBusinessConnection, SetOAuthAdvancedRouting,
       SaveAccountDestination, ReadReconcile, WriteReconcile, SaveAdDestination, MetaRefuses, DisconnectOAuthConnection,
       SaveAssetSelection, RemoveBusinessConnection, SetBusinessConnectionStatus, SaveCapiToken, SaveReportingAccount,
       SetReportingAccountActive, routing
<1>4. asked' \in 0..MaxAsked
  <2> DEFINE AtMostOneMore == asked' = asked \/ (asked < MaxAsked /\ asked' = asked + 1)
  <2>1. ASSUME NEW r \in Asks, MetaWrites(r) PROVE AtMostOneMore
    BY <2>1 DEF MetaWrites, SaveCredential, SavePrepared, SaveOAuthConnection, RefreshAssets, CheckConnect, CommitConnect,
       RotateCredential, TestBusinessConnection, SetOAuthAdvancedRouting, SaveAccountDestination, ReadReconcile, WriteReconcile,
       SaveAdDestination, MetaRefuses, Ends
  <2>2. ASSUME NEW r \in Asks, NEW q, BeginAsk(r, q) PROVE AtMostOneMore
    BY <2>2 DEF BeginAsk
  <2>3. ASSUME MetaTransaction PROVE AtMostOneMore
    BY <2>3 DEF Once, MetaTransaction, DisconnectOAuthConnection, SaveAssetSelection, RemoveBusinessConnection,
       SetBusinessConnectionStatus, SaveCapiToken, SaveReportingAccount, SetReportingAccountActive, SaveConversionDestination
  <2>4. ASSUME NEW r \in Asks, MetaAsks(r) PROVE AtMostOneMore
    <3> HIDE DEF AtMostOneMore
    <3> QED
      BY <2>2, <2>4 DEF MetaAsks, AskCredential, AskPrepare, AskOAuth, AskRotate, AskAssets, AskConnect, AskTest, AskAdvanced,
         AskAccountDestination, SyncReconciles, AskAdDestination
  <2>6. AtMostOneMore
    BY <2>1, <2>3, <2>4, MetaCases DEF metaVars
  <2> QED
    BY <1>1, <2>6
<1>5. integration' \in IntegrationRecs /\ (integration.on /\ ~DisconnectOAuthConnection => integration'.on)
  <2>1. CASE UNCHANGED integration
    BY <1>1, <2>1
  <2>2. CASE DisconnectOAuthConnection
    BY <2>2 DEF DisconnectOAuthConnection, NoIntegration, IntegrationRecs
  <2>3. ASSUME NEW r \in Asks, SaveOAuthConnection(r) \/ RefreshAssets(r) \/ SetOAuthAdvancedRouting(r)
        PROVE  integration' \in IntegrationRecs /\ (integration.on => integration'.on)
    <3>1. CASE SaveOAuthConnection(r)
      <4> DEFINE adv == integration.advanced /\ ~(credential["oauth"] # "none")
      <4>1. integration' = [integration EXCEPT !.on = TRUE, !.advanced = adv] /\ adv \in BOOLEAN
        BY <1>1, <3>1 DEF SaveOAuthConnection, IntegrationRecs
      <4> HIDE DEF adv
      <4> QED
        BY <1>1, <4>1 DEF IntegrationRecs
    <3>2. CASE RefreshAssets(r)
      BY <1>1, <1>2, <3>2 DEF RefreshAssets, IntegrationRecs
    <3>3. CASE SetOAuthAdvancedRouting(r)
      BY <1>1, <1>2, <3>3 DEF SetOAuthAdvancedRouting, IntegrationRecs
    <3> QED
      BY <2>3, <3>1, <3>2, <3>3
  <2>4. ASSUME NEW b \in Bms, SaveAssetSelection(b) \/ RemoveBusinessConnection(b)
        PROVE  integration' \in IntegrationRecs /\ (integration.on => integration'.on)
    BY <1>1, <2>4 DEF SaveAssetSelection, RemoveBusinessConnection, IntegrationRecs
  <2>5. ASSUME NEW set \in BOOLEAN, SaveCapiToken(set) PROVE integration' \in IntegrationRecs /\ (integration.on => integration'.on)
    BY <1>1, <2>5 DEF SaveCapiToken, IntegrationRecs
  <2>6. ASSUME NEW t \in Targets, SaveConversionDestination(t) PROVE integration' \in IntegrationRecs /\ (integration.on => integration'.on)
    BY <1>1, <2>6 DEF SaveConversionDestination, IntegrationRecs
  <2>7. \/ UNCHANGED integration \/ DisconnectOAuthConnection
        \/ (\E r \in Asks : SaveOAuthConnection(r) \/ RefreshAssets(r) \/ SetOAuthAdvancedRouting(r))
        \/ (\E b \in Bms : SaveAssetSelection(b) \/ RemoveBusinessConnection(b))
        \/ (\E set \in BOOLEAN : SaveCapiToken(set)) \/ (\E t \in Targets : SaveConversionDestination(t))
    BY MetaCases, AsksOnlyAsk DEF metaVars, login, MetaWrites, MetaTransaction, SaveCredential, SavePrepared, CheckConnect,
       CommitConnect, RotateCredential, TestBusinessConnection, SaveAccountDestination, ReadReconcile, WriteReconcile,
       SaveAdDestination, MetaRefuses, SetBusinessConnectionStatus, SaveReportingAccount, SetReportingAccountActive
  <2> QED
    BY <2>1, <2>2, <2>3, <2>4, <2>5, <2>6, <2>7
<1> QED
  BY <1>3, <1>4, <1>5

LEMMA CredentialSteps == ASSUME MetaInv, [MetaNext]_metaVars
  PROVE  /\ credential' \in [Sources -> {"none", "pending", "active"}]
         /\ snapshot' \in [root : {"none", "ok", "error"}, business : {"none", "ok", "partial"}]
<1>1. /\ credential \in [Sources -> {"none", "pending", "active"}] /\ \A r \in Asks : ask[r].src \in Sources
      /\ snapshot \in [root : {"none", "ok", "error"}, business : {"none", "ok", "partial"}]
  BY MetaTyped DEF AskRecs
<1>2. credential' \in [Sources -> {"none", "pending", "active"}]
  <2>1. CASE UNCHANGED credential
    BY <1>1, <2>1
  <2>2. ASSUME NEW src \in Sources, NEW x \in {"none", "pending", "active"}, credential' = [credential EXCEPT ![src] = x]
        PROVE  credential' \in [Sources -> {"none", "pending", "active"}]
    BY <1>1, <2>2
  <2>3. \/ UNCHANGED credential
        \/ \E src \in Sources, x \in {"none", "pending", "active"} : credential' = [credential EXCEPT ![src] = x]
    BY <1>1, MetaCases, AsksOnlyAsk DEF metaVars, routing, Sources, MetaWrites, MetaTransaction, SaveCredential, SavePrepared,
       SaveOAuthConnection, RefreshAssets, CheckConnect, CommitConnect, RotateCredential, TestBusinessConnection,
       SetOAuthAdvancedRouting, SaveAccountDestination, ReadReconcile, WriteReconcile, SaveAdDestination, MetaRefuses,
       DisconnectOAuthConnection, SaveAssetSelection, RemoveBusinessConnection, SetBusinessConnectionStatus, SaveCapiToken,
       SaveReportingAccount, SetReportingAccountActive, SaveConversionDestination
  <2> QED
    BY <2>1, <2>2, <2>3
<1>3. snapshot' \in [root : {"none", "ok", "error"}, business : {"none", "ok", "partial"}]
  <2>1. CASE UNCHANGED snapshot
    BY <1>1, <2>1
  <2>2. CASE \E r \in Asks : RefreshAssets(r)
    BY <1>1, <2>2 DEF RefreshAssets
  <2> QED
    BY <2>1, <2>2, MetaCases, AsksOnlyAsk DEF metaVars, login, MetaWrites, MetaTransaction, SaveCredential, SavePrepared,
       SaveOAuthConnection, CheckConnect, CommitConnect, RotateCredential, TestBusinessConnection,
       SetOAuthAdvancedRouting, SaveAccountDestination, ReadReconcile, WriteReconcile, SaveAdDestination, MetaRefuses,
       DisconnectOAuthConnection, SaveAssetSelection, RemoveBusinessConnection, SetBusinessConnectionStatus, SaveCapiToken,
       SaveReportingAccount, SetReportingAccountActive, SaveConversionDestination
<1> QED
  BY <1>2, <1>3

(* What a request under way knows, field by field. *)
LEMMA AskFields == ASSUME MetaInv, NEW r \in Asks
  PROVE  /\ ask[r] \in AskRecs /\ ask[r].tos \subseteq targets /\ ask[r].old \in targets \cup {NoTarget}
         /\ ask[r].op # "connect" => ask[r].to \in targets \cup {NoTarget}
         /\ ask[r].op \in {"connect", "test"} => ask[r].bm \in Bms
         /\ ask[r].op = "connect" => ask[r].to \in Targets
         /\ ask[r].op = "connect" /\ ask[r].src = "oauth" /\ ask[r].held => integration.on
         /\ ask[r].src \in Sources /\ ask[r].acct \in AdAccounts /\ ask[r].accts \subseteq AdAccounts
BY Zenon DEF MetaInv, AsksKnow, AskKnows, AskRecs

(* Connections of business managers: their default is set up, and the      *)
(* login's are there only with the login.                                  *)
ConnFine(f) == f \in [Bms -> BmRecs] /\ \A b \in Bms : f[b].dflt \in targets' \cup {NoTarget} /\ (f[b].cred = "oauth" => integration'.on)

LEMMA BmSteps == ASSUME MetaInv, [MetaNext]_metaVars PROVE ConnFine(bmConn')
<1>1. /\ bmConn \in [Bms -> BmRecs] /\ targets \subseteq targets' /\ targets \subseteq Targets
      /\ \A b \in Bms : bmConn[b].dflt \in targets \cup {NoTarget} /\ (bmConn[b].cred = "oauth" => integration.on)
  BY MetaTyped, LoginSteps DEF MetaInv, RowsKnown, DisconnectedRoutesNothing
<1>2. ~DisconnectOAuthConnection => ConnFine(bmConn)
  BY <1>1, LoginSteps DEF ConnFine
<1>3. Unconnected \in BmRecs /\ Unconnected.dflt = NoTarget /\ Unconnected.cred = "none"
  BY DEF Unconnected, BmRecs
<1>4. CASE DisconnectOAuthConnection
  <2>1. bmConn' = [b \in Bms |-> IF b \in {x \in Bms : bmConn[x].cred = "oauth"} THEN Unconnected ELSE bmConn[b]]
    BY <1>4 DEF DisconnectOAuthConnection
  <2> QED
    BY <1>1, <1>3, <2>1 DEF ConnFine
<1> SUFFICES ASSUME ~DisconnectOAuthConnection PROVE ConnFine(bmConn')
  BY <1>4
<1>5. CASE UNCHANGED bmConn
  BY <1>2, <1>5
<1>6. ASSUME NEW b \in Bms, NEW x \in BmRecs, bmConn' = [bmConn EXCEPT ![b] = x], x.dflt \in targets' \cup {NoTarget},
             x.cred = "oauth" => integration'.on
      PROVE  ConnFine(bmConn')
  BY <1>2, <1>6 DEF ConnFine
<1>7. \A x \in BmRecs, st \in {"active", "paused", "validation_required"} :
        [x EXCEPT !.status = st] \in BmRecs /\ [x EXCEPT !.status = st].dflt = x.dflt /\ [x EXCEPT !.status = st].cred = x.cred
  BY DEF BmRecs
<1>8. ASSUME NEW b \in Bms, NEW st \in {"active", "paused", "validation_required"}, bmConn' = [bmConn EXCEPT ![b].status = st]
      PROVE  ConnFine(bmConn')
  <2> DEFINE x == [bmConn[b] EXCEPT !.status = st]
  <2>1. bmConn' = [bmConn EXCEPT ![b] = x]
    BY <1>1, <1>8
  <2>2. bmConn[b] \in BmRecs
    BY <1>1
  <2>3. x \in BmRecs /\ x.dflt = bmConn[b].dflt /\ x.cred = bmConn[b].cred
    BY <1>7, <2>2
  <2> HIDE DEF x
  <2>4. x.dflt \in targets' \cup {NoTarget} /\ (x.cred = "oauth" => integration'.on)
    BY <1>2, <2>3 DEF ConnFine
  <2> QED
    BY <1>6, <2>1, <2>3, <2>4
<1>9. ASSUME NEW s, NEW st \in {"active", "paused", "validation_required"},
             bmConn' = [b \in Bms |-> IF bmConn[b].cred = s THEN [bmConn[b] EXCEPT !.status = st] ELSE bmConn[b]]
      PROVE  ConnFine(bmConn')
  <2>1. \A b \in Bms : bmConn[b] \in BmRecs
    BY <1>1
  <2>2. \A b \in Bms : bmConn'[b] \in BmRecs /\ bmConn'[b].dflt = bmConn[b].dflt /\ bmConn'[b].cred = bmConn[b].cred
    BY <1>7, <1>9, <2>1
  <2>3. bmConn' \in [Bms -> BmRecs]
    BY <1>9, <2>2
  <2> QED
    BY <1>2, <2>2, <2>3 DEF ConnFine
<1>10. ASSUME NEW r \in Asks, CommitConnect(r), bmConn' # bmConn PROVE ConnFine(bmConn')
  <2> DEFINE q == ask[r]
             dflt == IF ~q.replace /\ q.old # NoTarget THEN q.old ELSE q.to
             x == [cred |-> q.src, status |-> "active", dflt |-> dflt]
  <2>1. q.op = "connect" /\ q.held /\ bmConn' = [bmConn EXCEPT ![q.bm] = x] /\ targets' = targets \cup {q.to}
    BY <1>10 DEF CommitConnect, AskAt, routing
  <2>2. q.bm \in Bms /\ q.to \in Targets /\ q.src \in Sources /\ q.old \in targets \cup {NoTarget} /\ (q.src = "oauth" => integration.on)
    BY <2>1, AskFields
  <2>3. dflt \in targets' /\ dflt \in Targets
    BY <1>1, <2>1, <2>2
  <2>4. q.src = "oauth" => integration'.on
    BY <2>2, LoginSteps
  <2> HIDE DEF dflt
  <2>5. x \in BmRecs /\ x.dflt = dflt /\ x.cred = q.src
    BY <2>2, <2>3 DEF BmRecs
  <2> HIDE DEF x, q
  <2> QED
    BY <1>6, <2>1, <2>2, <2>3, <2>4, <2>5
<1>11. ASSUME NEW r \in Asks, TestBusinessConnection(r), bmConn' # bmConn PROVE ConnFine(bmConn')
  <2>1. ask[r].bm \in Bms
    BY <1>11, AskFields DEF TestBusinessConnection, AskAt
  <2> QED
    BY <1>8, <1>11, <2>1 DEF TestBusinessConnection
<1>12. ASSUME NEW r \in Asks, SaveOAuthConnection(r) \/ RotateCredential(r) PROVE ConnFine(bmConn')
  BY <1>5, <1>9, <1>12 DEF SaveOAuthConnection, RotateCredential
<1>13. ASSUME NEW b \in Bms, RemoveBusinessConnection(b) PROVE ConnFine(bmConn')
  BY <1>3, <1>6, <1>13 DEF RemoveBusinessConnection
<1>14. ASSUME NEW b \in Bms, NEW st \in {"active", "paused"}, SetBusinessConnectionStatus(b, st) PROVE ConnFine(bmConn')
  BY <1>8, <1>14 DEF SetBusinessConnectionStatus
<1>15. \/ UNCHANGED bmConn
       \/ (\E r \in Asks : \/ (CommitConnect(r) /\ bmConn' # bmConn) \/ (TestBusinessConnection(r) /\ bmConn' # bmConn)
                           \/ SaveOAuthConnection(r) \/ RotateCredential(r))
       \/ (\E b \in Bms : RemoveBusinessConnection(b))
       \/ (\E b \in Bms, st \in {"active", "paused"} : SetBusinessConnectionStatus(b, st))
  BY MetaCases, AsksOnlyAsk DEF metaVars, routing, MetaWrites, MetaTransaction, SaveCredential, SavePrepared,
     RefreshAssets, CheckConnect, SetOAuthAdvancedRouting, SaveAccountDestination, ReadReconcile, WriteReconcile,
     SaveAdDestination, MetaRefuses, SaveAssetSelection, SaveCapiToken, SaveReportingAccount, SetReportingAccountActive,
     SaveConversionDestination
<1> QED
  BY <1>5, <1>10, <1>11, <1>12, <1>13, <1>14, <1>15

AcctsFine(f) == f \in [AdAccounts -> AcctRecs] /\ \A a \in AdAccounts : f[a].to \in targets' \cup {NoTarget}

(* Accounts name a destination that is set up, or none. *)
LEMMA AcctSteps == ASSUME MetaInv, [MetaNext]_metaVars PROVE AcctsFine(adAcct')
<1>1. /\ adAcct \in [AdAccounts -> AcctRecs] /\ targets \subseteq targets' /\ targets' \subseteq Targets
      /\ \A a \in AdAccounts : adAcct[a].to \in targets' \cup {NoTarget}
  BY MetaTyped, LoginSteps DEF MetaInv, RowsKnown
<1>2. AcctsFine(adAcct)
  BY <1>1 DEF AcctsFine
<1>3. Detached \in AcctRecs /\ Detached.to = NoTarget
  BY DEF Detached, AcctRecs
<1>4. ASSUME UNCHANGED adAcct PROVE AcctsFine(adAcct')
  BY <1>2, <1>4
<1>5. ASSUME NEW bs, DetachFrom(bs) PROVE AcctsFine(adAcct')
  BY <1>1, <1>3, <1>5 DEF DetachFrom, AcctsFine
<1>6. ASSUME NEW a \in AdAccounts, NEW x \in AcctRecs, adAcct' = [adAcct EXCEPT ![a] = x], x.to \in targets' \cup {NoTarget}
      PROVE  AcctsFine(adAcct')
  BY <1>1, <1>6 DEF AcctsFine
<1>7. \A a \in AdAccounts : adAcct[a] \in AcctRecs
  BY <1>1
<1>8. ASSUME NEW a \in AdAccounts, SaveReportingAccount(a) PROVE AcctsFine(adAcct')
  <2> DEFINE x == [adAcct[a] EXCEPT !.known = TRUE, !.active = TRUE]
  <2>1. adAcct' = [adAcct EXCEPT ![a] = x]
    BY <1>1, <1>8 DEF SaveReportingAccount
  <2>2. x \in AcctRecs /\ x.to = adAcct[a].to
    BY <1>7 DEF AcctRecs
  <2> HIDE DEF x
  <2> QED
    BY <1>1, <1>6, <2>1, <2>2
<1>9. ASSUME NEW a \in AdAccounts, NEW on \in BOOLEAN, SetReportingAccountActive(a, on) PROVE AcctsFine(adAcct')
  <2> DEFINE x == [adAcct[a] EXCEPT !.active = on]
  <2>1. adAcct' = [adAcct EXCEPT ![a] = x]
    BY <1>1, <1>9 DEF SetReportingAccountActive
  <2>2. x \in AcctRecs /\ x.to = adAcct[a].to
    BY <1>7 DEF AcctRecs
  <2> HIDE DEF x
  <2> QED
    BY <1>1, <1>6, <2>1, <2>2
<1>10. ASSUME NEW r \in Asks, SaveAccountDestination(r) PROVE AcctsFine(adAcct')
  <2> DEFINE a == ask[r].acct
             t == ask[r].to
             x == [adAcct[a] EXCEPT !.to = t]
  <2>1. a \in AdAccounts /\ t \in targets \cup {NoTarget}
    BY <1>10, AskFields DEF SaveAccountDestination, AskAt
  <2>2. adAcct' = [adAcct EXCEPT ![a].to = t]
    BY <1>10 DEF SaveAccountDestination
  <2> HIDE DEF a, t
  <2>3. adAcct' = [adAcct EXCEPT ![a] = x]
    BY <1>1, <2>1, <2>2
  <2>4. x \in AcctRecs /\ x.to = t
    BY <1>1, <1>7, <2>1 DEF AcctRecs
  <2> HIDE DEF x
  <2> QED
    BY <1>1, <1>6, <2>1, <2>3, <2>4
<1>11. ASSUME NEW r \in Asks, CommitConnect(r), adAcct' # adAcct PROVE AcctsFine(adAcct')
  <2> DEFINE q == ask[r]
             dflt == IF ~q.replace /\ q.old # NoTarget THEN q.old ELSE q.to
             to(a) == IF adAcct[a].known THEN adAcct[a].to ELSE IF dflt = q.to THEN NoTarget ELSE q.to
             row(a) == IF a \in q.accts THEN [known |-> TRUE, active |-> TRUE, bm |-> q.bm, to |-> to(a)]
                       ELSE IF q.replace /\ adAcct[a].bm = q.bm /\ adAcct[a].active THEN Detached ELSE adAcct[a]
  <2>1. q.op = "connect" /\ adAcct' = [a \in AdAccounts |-> row(a)] /\ targets' = targets \cup {q.to}
    BY <1>11 DEF CommitConnect, AskAt, routing
  <2>2. q.bm \in Bms /\ q.to \in targets'
    BY <2>1, AskFields
  <2>3. ASSUME NEW a \in AdAccounts PROVE row(a) \in AcctRecs /\ row(a).to \in targets' \cup {NoTarget}
    <3>1. to(a) \in targets' \cup {NoTarget} /\ to(a) \in Targets \cup {NoTarget}
      BY <1>1, <2>2
    <3> HIDE DEF to, q
    <3>2. CASE a \in q.accts
      <4>1. row(a) = [known |-> TRUE, active |-> TRUE, bm |-> q.bm, to |-> to(a)]
        BY <3>2
      <4> HIDE DEF row
      <4> QED
        BY <2>2, <3>1, <4>1 DEF AcctRecs
    <3>3. CASE a \notin q.accts
      BY <1>1, <1>3, <1>7, <3>3
    <3> QED
      BY <3>2, <3>3
  <2> HIDE DEF row
  <2>4. adAcct' \in [AdAccounts -> AcctRecs] /\ \A a \in AdAccounts : adAcct'[a] = row(a)
    BY <2>1, <2>3
  <2> QED
    BY <2>3, <2>4 DEF AcctsFine
<1>12. \/ UNCHANGED adAcct \/ (\E bs : DetachFrom(bs)) \/ (\E a \in AdAccounts : SaveReportingAccount(a))
       \/ (\E a \in AdAccounts, on \in BOOLEAN : SetReportingAccountActive(a, on))
       \/ (\E r \in Asks : SaveAccountDestination(r)) \/ (\E r \in Asks : CommitConnect(r) /\ adAcct' # adAcct)
  <2>1. ASSUME DisconnectOAuthConnection PROVE \E bs : DetachFrom(bs)
    BY <2>1 DEF DisconnectOAuthConnection
  <2>2. ASSUME NEW b \in Bms, RemoveBusinessConnection(b) PROVE \E bs : DetachFrom(bs)
    BY <2>2 DEF RemoveBusinessConnection
  <2> QED
    BY <2>1, <2>2, MetaCases, AsksOnlyAsk DEF metaVars, routing, MetaWrites, MetaTransaction, SaveCredential, SavePrepared,
       SaveOAuthConnection, RefreshAssets, CheckConnect, RotateCredential, TestBusinessConnection, SetOAuthAdvancedRouting,
       ReadReconcile, WriteReconcile, SaveAdDestination, MetaRefuses, SaveAssetSelection, SetBusinessConnectionStatus,
       SaveCapiToken, SaveConversionDestination
<1> QED
  BY <1>4, <1>5, <1>8, <1>9, <1>10, <1>11, <1>12

(* Allowed destinations are set up. *)
LEMMA AllowedSteps == ASSUME MetaInv, [MetaNext]_metaVars PROVE allowed' \subseteq AdAccounts \X targets'
<1>1. allowed \subseteq AdAccounts \X targets' /\ targets \subseteq targets'
  BY LoginSteps DEF MetaInv, RowsKnown
<1>2. CASE UNCHANGED allowed
  BY <1>1, <1>2
<1>3. ASSUME NEW r \in Asks, SaveAccountDestination(r) PROVE allowed' \subseteq AdAccounts \X targets'
  <2>1. ask[r].acct \in AdAccounts /\ ask[r].tos \subseteq targets
    BY AskFields
  <2>2. allowed' = {p \in allowed : p[1] # ask[r].acct} \cup ({ask[r].acct} \X ask[r].tos)
    BY <1>3 DEF SaveAccountDestination
  <2> QED
    BY <1>1, <2>1, <2>2
<1>4. ASSUME NEW r \in Asks, CommitConnect(r), allowed' # allowed PROVE allowed' \subseteq AdAccounts \X targets'
  <2>1. ask[r].accts \subseteq AdAccounts
    BY AskFields
  <2>2. allowed' \subseteq allowed \cup (ask[r].accts \X {ask[r].to}) /\ targets' = targets \cup {ask[r].to}
    BY <1>4 DEF CommitConnect, routing
  <2> QED
    BY <1>1, <2>1, <2>2
<1>5. \/ UNCHANGED allowed \/ (\E r \in Asks : SaveAccountDestination(r)) \/ (\E r \in Asks : CommitConnect(r) /\ allowed' # allowed)
  BY MetaCases, AsksOnlyAsk DEF metaVars, routing, MetaWrites, MetaTransaction, SaveCredential, SavePrepared,
     SaveOAuthConnection, RefreshAssets, CheckConnect, RotateCredential, TestBusinessConnection, SetOAuthAdvancedRouting,
     ReadReconcile, WriteReconcile, SaveAdDestination, MetaRefuses, DisconnectOAuthConnection, SaveAssetSelection,
     RemoveBusinessConnection, SetBusinessConnectionStatus, SaveCapiToken, SaveConversionDestination, SaveReportingAccount,
     SetReportingAccountActive
<1> QED
  BY <1>2, <1>3, <1>4, <1>5

(* The destinations of an account are set up. *)
LEMMA TargetsSetUp == ASSUME MetaInv, NEW a \in AdAccounts PROVE TargetsOf(a) \subseteq targets
<1>1. /\ adAcct[a].to \in targets \cup {NoTarget} /\ allowed \subseteq AdAccounts \X targets
      /\ \A b \in Bms : bmConn[b].dflt \in targets \cup {NoTarget}
  BY DEF MetaInv, RowsKnown
<1>2. adAcct[a].bm \in Bms \cup {NoBm}
  BY MetaTyped DEF AcctRecs
<1>3. {t \in Targets : <<a, t>> \in allowed} \subseteq targets
  BY <1>1
<1> QED
  BY <1>1, <1>2, <1>3, MetaAssumption DEF TargetsOf

(* The assignment of the ad: to a destination that is set up, and changed  *)
(* from a manual one only by an operator's own request.                    *)
LEMMA AssignSteps == ASSUME MetaInv, [MetaNext]_metaVars
  PROVE  assigned' \in AssignRecs /\ assigned'.to \in targets' \cup {NoTarget} /\ ManualStays
<1>1. assigned \in AssignRecs /\ assigned.to \in targets \cup {NoTarget} /\ targets \subseteq targets' /\ targets \subseteq Targets
  BY MetaTyped, LoginSteps DEF MetaInv, RowsKnown
<1>2. CASE UNCHANGED assigned
  BY <1>1, <1>2 DEF ManualStays
<1>3. Unassigned \in AssignRecs /\ Unassigned.to = NoTarget
  BY DEF Unassigned, AssignRecs
<1>4. \A by \in {"automatic", "manual"}, t \in targets : [by |-> by, to |-> t] \in AssignRecs /\ [by |-> by, to |-> t].to = t
  BY <1>1 DEF AssignRecs
<1>5. ASSUME NEW r \in Asks, ask[r].tos # {} PROVE (CHOOSE t \in ask[r].tos : TRUE) \in targets
  BY <1>5, AskFields
<1>6. NoAsk.op = "none"
  BY DEF NoAsk
<1>7. ask \in [Asks -> AskRecs]
  BY MetaTyped
<1>8. ASSUME NEW r \in Asks, SaveAccountDestination(r)
      PROVE  assigned' \in AssignRecs /\ assigned'.to \in targets' \cup {NoTarget} /\ ManualStays
  <2>1. assigned' \in {Unassigned, assigned} /\ ask[r].op = "account"
    BY <1>8 DEF SaveAccountDestination, AskAt
  <2>2. ask'[r].op = "reconcile"
    BY <1>7, <1>8 DEF SaveAccountDestination, NoAsk
  <2>3. ask'[r] # ask[r]
    BY <2>1, <2>2
  <2> QED
    BY <1>1, <1>3, <2>1, <2>3 DEF ManualStays
<1>9. ASSUME NEW r \in Asks, WriteReconcile(r)
      PROVE  assigned' \in AssignRecs /\ assigned'.to \in targets' \cup {NoTarget} /\ ManualStays
  <2> DEFINE t == CHOOSE t \in ask[r].tos : TRUE
  <2>1. \/ assigned' = assigned
        \/ assigned.by # "manual" /\ assigned' = Unassigned
        \/ assigned.by # "manual" /\ ask[r].tos # {} /\ assigned' = [by |-> "automatic", to |-> t]
    BY <1>9 DEF WriteReconcile
  <2>2. ask[r].tos # {} => t \in targets
    BY <1>5
  <2> HIDE DEF t
  <2> QED
    BY <1>1, <1>3, <1>4, <2>1, <2>2 DEF ManualStays
<1>10. ASSUME NEW r \in Asks, SaveAdDestination(r)
       PROVE  assigned' \in AssignRecs /\ assigned'.to \in targets' \cup {NoTarget} /\ ManualStays
  <2> DEFINE t == CHOOSE t \in ask[r].tos : TRUE
             to == ask[r].to
  <2>1. \/ to # NoTarget /\ assigned' = [by |-> "manual", to |-> to]
        \/ ask[r].tos # {} /\ assigned' = [by |-> "automatic", to |-> t]
        \/ assigned' = Unassigned
    BY <1>10 DEF SaveAdDestination
  <2>2. ask[r].op = "ad" /\ to \in targets \cup {NoTarget} /\ (ask[r].tos # {} => t \in targets)
    BY <1>5, <1>10, AskFields DEF SaveAdDestination, AskAt
  <2>3. ask'[r] # ask[r]
    BY <1>6, <1>7, <1>10, <2>2 DEF SaveAdDestination, Ends
  <2> HIDE DEF t, to
  <2> QED
    BY <1>1, <1>3, <1>4, <2>1, <2>2, <2>3 DEF ManualStays
<1>11. \/ UNCHANGED assigned \/ (\E r \in Asks : SaveAccountDestination(r) \/ WriteReconcile(r) \/ SaveAdDestination(r))
  BY MetaCases, AsksOnlyAsk DEF metaVars, routing, MetaWrites, MetaTransaction, SaveCredential, SavePrepared,
     SaveOAuthConnection, RefreshAssets, CheckConnect, CommitConnect, RotateCredential, TestBusinessConnection, SetOAuthAdvancedRouting,
     ReadReconcile, MetaRefuses, DisconnectOAuthConnection, SaveAssetSelection, RemoveBusinessConnection,
     SetBusinessConnectionStatus, SaveCapiToken, SaveConversionDestination, SaveReportingAccount, SetReportingAccountActive
<1> QED
  BY <1>2, <1>8, <1>9, <1>10, <1>11

-----------------------------------------------------------------------------
(* What a request knows stays true while the login is there. *)
LEMMA OtherAsks == ASSUME MetaInv, [MetaNext]_metaVars, ~DisconnectOAuthConnection PROVE AsksKnow(ask, targets', integration'.on)
<1>1. targets \subseteq targets' /\ (integration.on => integration'.on)
  BY LoginSteps
<1>2. ask \in [Asks -> AskRecs]
  BY MetaTyped
<1>3. ASSUME NEW r \in Asks PROVE AskKnows(ask[r], targets', integration'.on)
  <2>1. ask[r].tos \subseteq targets' /\ ask[r].old \in targets' \cup {NoTarget} /\ (ask[r].op # "connect" => ask[r].to \in targets' \cup {NoTarget})
    BY <1>1, AskFields
  <2>2. ask[r].op = "connect" /\ ask[r].src = "oauth" /\ ask[r].held => integration'.on
    BY <1>1, AskFields
  <2>3. ask[r] \in AskRecs /\ (ask[r].op \in {"connect", "test"} => ask[r].bm \in Bms) /\ (ask[r].op = "connect" => ask[r].to \in Targets)
    BY AskFields
  <2> QED
    BY <2>1, <2>2, <2>3 DEF AskKnows
<1> QED
  BY <1>2, <1>3 DEF AsksKnow

LEMMA OneAsk == ASSUME MetaInv, [MetaNext]_metaVars, ~DisconnectOAuthConnection, NEW r \in Asks, NEW q,
                       ask' = [ask EXCEPT ![r] = q], AskKnows(q, targets', integration'.on)
                PROVE  AsksKnow(ask', targets', integration'.on)
<1>1. q \in AskRecs
  BY DEF AskKnows
<1> QED
  BY <1>1, OtherAsks DEF AsksKnow

(* A request that lost the row it held knows no less. *)
LEMMA LoseKnows == ASSUME MetaInv, [MetaNext]_metaVars, NEW src, Lose(src), (integration.on => integration'.on) \/ src = "oauth", NEW r \in Asks
                   PROVE  AskKnows(ask'[r], targets', integration'.on)
<1>1. targets \subseteq targets'
  BY LoginSteps
<1>2. /\ ask[r] \in AskRecs /\ ask[r].tos \subseteq targets' /\ ask[r].old \in targets' \cup {NoTarget}
      /\ ask[r].op # "connect" => ask[r].to \in targets' \cup {NoTarget}
      /\ ask[r].op \in {"connect", "test"} => ask[r].bm \in Bms
      /\ ask[r].op = "connect" => ask[r].to \in Targets
  BY <1>1, AskFields
<1>3. CASE ask[r].src = src
  <2> DEFINE q == [ask[r] EXCEPT !.held = FALSE]
  <2>1. ask'[r] = q
    BY <1>3 DEF Lose
  <2>2. /\ q \in AskRecs /\ q.tos = ask[r].tos /\ q.old = ask[r].old /\ q.op = ask[r].op /\ q.to = ask[r].to /\ q.bm = ask[r].bm
        /\ q.held = FALSE
    BY <1>2 DEF AskRecs
  <2> HIDE DEF q
  <2> QED
    BY <1>2, <2>1, <2>2 DEF AskKnows
<1>4. CASE ask[r].src # src
  <2>1. ask'[r] = ask[r]
    BY <1>4 DEF Lose
  <2>2. ask[r].op = "connect" /\ ask[r].src = "oauth" /\ ask[r].held => integration'.on
    BY <1>4, AskFields
  <2> QED
    BY <1>2, <2>1, <2>2 DEF AskKnows
<1> QED
  BY <1>3, <1>4

(* A request that begins: what it takes along is what it read. *)
LEMMA BeginKnows ==
  ASSUME MetaInv, NEW r \in Asks, MetaAsks(r) PROVE \E q : ask' = [ask EXCEPT ![r] = q] /\ AskKnows(q, targets, integration.on)
<1> DEFINE Goal == \E q : ask' = [ask EXCEPT ![r] = q] /\ AskKnows(q, targets, integration.on)
<1>1. /\ NoAsk \in AskRecs /\ NoAsk.tos = {} /\ NoAsk.old = NoTarget /\ NoAsk.to = NoTarget /\ NoAsk.op = "none" /\ NoAsk.bm = NoBm
      /\ targets \subseteq Targets
  BY NoAskKnows, MetaTyped DEF AskKnows, NoAsk
<1>2. ASSUME NEW q, BeginAsk(r, q), AskKnows(q, targets, integration.on) PROVE Goal
  BY <1>2 DEF BeginAsk
<1>3. ASSUME NEW op \in {"credential", "prepare", "oauth", "rotate"}, BeginAsk(r, [NoAsk EXCEPT !.op = op, !.pc = "write"]) PROVE Goal
  <2> DEFINE q == [NoAsk EXCEPT !.op = op, !.pc = "write"]
  <2>1. q \in AskRecs /\ q.op = op /\ q.tos = {} /\ q.old = NoTarget /\ q.to = NoTarget
    BY <1>1 DEF AskRecs, AskOps
  <2>2. BeginAsk(r, q)
    BY <1>3
  <2> HIDE DEF q
  <2>3. AskKnows(q, targets, integration.on)
    BY <2>1 DEF AskKnows
  <2> QED
    BY <1>2, <2>2, <2>3
<1>4. ASSUME AskCredential(r) \/ AskPrepare(r) \/ AskOAuth(r) \/ AskRotate(r) PROVE Goal
  BY <1>3, <1>4 DEF AskCredential, AskPrepare, AskOAuth, AskRotate
<1>5. ASSUME NEW b \in Bms \cup {NoBm}, AskAssets(r, b) PROVE Goal
  <2> DEFINE q == [NoAsk EXCEPT !.op = "assets", !.pc = "write", !.bm = b]
  <2>1. q \in AskRecs /\ q.op = "assets" /\ q.tos = {} /\ q.old = NoTarget /\ q.to = NoTarget
    BY <1>1 DEF AskRecs, AskOps
  <2>2. BeginAsk(r, q)
    BY <1>5 DEF AskAssets
  <2> HIDE DEF q
  <2>3. AskKnows(q, targets, integration.on)
    BY <2>1 DEF AskKnows
  <2> QED
    BY <1>2, <2>2, <2>3
<1>6. ASSUME NEW src \in Sources, NEW b \in Bms, NEW as \in (SUBSET AdAccounts) \ {{}}, NEW t \in Targets, NEW rep \in BOOLEAN,
             AskConnect(r, src, b, as, t, rep)
      PROVE  Goal
  <2> DEFINE q == [NoAsk EXCEPT !.op = "connect", !.pc = "check", !.src = src, !.bm = b, !.accts = as, !.to = t, !.replace = rep]
  <2>1. q \in AskRecs /\ q.op = "connect" /\ q.tos = {} /\ q.old = NoTarget /\ q.to = t /\ q.bm = b /\ q.src = src
    BY <1>1 DEF AskRecs, AskOps
  <2>2. BeginAsk(r, q) /\ (src = "oauth" => integration.on)
    BY <1>6 DEF AskConnect
  <2> HIDE DEF q
  <2>3. AskKnows(q, targets, integration.on)
    BY <2>1, <2>2 DEF AskKnows
  <2> QED
    BY <1>2, <2>2, <2>3
<1>7. ASSUME NEW b \in Bms, AskTest(r, b) PROVE Goal
  <2> DEFINE src == bmConn[b].cred
             q == [NoAsk EXCEPT !.op = "test", !.pc = "write", !.src = src, !.bm = b]
  <2>1. src \in Sources
    BY <1>7, MetaTyped DEF AskTest, BmRecs
  <2>2. BeginAsk(r, q)
    BY <1>7 DEF AskTest
  <2> HIDE DEF src
  <2>3. q \in AskRecs /\ q.op = "test" /\ q.tos = {} /\ q.old = NoTarget /\ q.to = NoTarget /\ q.bm = b
    BY <1>1, <2>1 DEF AskRecs, AskOps
  <2> HIDE DEF q
  <2>4. AskKnows(q, targets, integration.on)
    BY <2>3 DEF AskKnows
  <2> QED
    BY <1>2, <2>2, <2>4
<1>8. ASSUME NEW on \in BOOLEAN, AskAdvanced(r, on) PROVE Goal
  <2> DEFINE q == [NoAsk EXCEPT !.op = "advanced", !.pc = "write", !.replace = on]
  <2>1. q \in AskRecs /\ q.op = "advanced" /\ q.tos = {} /\ q.old = NoTarget /\ q.to = NoTarget
    BY <1>1 DEF AskRecs, AskOps
  <2>2. BeginAsk(r, q)
    BY <1>8 DEF AskAdvanced
  <2> HIDE DEF q
  <2>3. AskKnows(q, targets, integration.on)
    BY <2>1 DEF AskKnows
  <2> QED
    BY <1>2, <2>2, <2>3
<1>9. ASSUME NEW a \in AdAccounts, NEW t \in Targets \cup {NoTarget}, NEW ts \in SUBSET Targets, AskAccountDestination(r, a, t, ts)
      PROVE  Goal
  <2> DEFINE q == [NoAsk EXCEPT !.op = "account", !.pc = "write", !.acct = a, !.to = t, !.tos = ts]
  <2>1. q \in AskRecs /\ q.op = "account" /\ q.tos = ts /\ q.old = NoTarget /\ q.to = t
    BY <1>1 DEF AskRecs, AskOps
  <2>2. BeginAsk(r, q) /\ ts \subseteq targets /\ t \in ts \cup {NoTarget}
    BY <1>9 DEF AskAccountDestination
  <2> HIDE DEF q
  <2>3. AskKnows(q, targets, integration.on)
    BY <2>1, <2>2 DEF AskKnows
  <2> QED
    BY <1>2, <2>2, <2>3
<1>10. ASSUME NEW a \in AdAccounts, SyncReconciles(r, a) PROVE Goal
  <2> DEFINE q == [NoAsk EXCEPT !.op = "reconcile", !.pc = "check", !.acct = a]
  <2>1. q \in AskRecs /\ q.op = "reconcile" /\ q.tos = {} /\ q.old = NoTarget /\ q.to = NoTarget
    BY <1>1 DEF AskRecs, AskOps
  <2>2. BeginAsk(r, q)
    BY <1>10 DEF SyncReconciles
  <2> HIDE DEF q
  <2>3. AskKnows(q, targets, integration.on)
    BY <2>1 DEF AskKnows
  <2> QED
    BY <1>2, <2>2, <2>3
<1>11. ASSUME NEW t \in Targets \cup {NoTarget}, AskAdDestination(r, t) PROVE Goal
  <2> DEFINE ts == TargetsOf(HomeAccount)
             fit == IF Cardinality(Candidates(ts)) = 1 THEN Candidates(ts) ELSE {}
             q == [NoAsk EXCEPT !.op = "ad", !.pc = "write", !.to = t, !.tos = fit]
  <2>1. ts \subseteq targets /\ fit \subseteq ts
    BY TargetsSetUp, MetaAssumption DEF Candidates
  <2>2. BeginAsk(r, q) /\ t \in ts \cup {NoTarget}
    BY <1>11 DEF AskAdDestination
  <2> HIDE DEF ts, fit
  <2>3. q \in AskRecs /\ q.op = "ad" /\ q.tos = fit /\ q.old = NoTarget /\ q.to = t
    BY <1>1, <2>1 DEF AskRecs, AskOps
  <2> HIDE DEF q
  <2>4. AskKnows(q, targets, integration.on)
    BY <2>1, <2>2, <2>3 DEF AskKnows
  <2> QED
    BY <1>2, <2>2, <2>4
<1> HIDE DEF Goal
<1>12. Goal
  BY <1>4, <1>5, <1>6, <1>7, <1>8, <1>9, <1>10, <1>11 DEF MetaAsks
<1> QED
  BY <1>12 DEF Goal

LEMMA LoseAll == ASSUME MetaInv, [MetaNext]_metaVars, NEW src, Lose(src), (integration.on => integration'.on) \/ src = "oauth"
                 PROVE  AsksKnow(ask', targets', integration'.on)
<1>1. \A r \in Asks : AskKnows(ask'[r], targets', integration'.on)
  BY LoseKnows
<1>2. ask' = [r \in Asks |-> ask'[r]]
  BY DEF Lose
<1>3. \A r \in Asks : ask'[r] \in AskRecs
  BY <1>1 DEF AskKnows
<1>4. ask' \in [Asks -> AskRecs]
  BY <1>2, <1>3
<1> QED
  BY <1>1, <1>4 DEF AsksKnow

(* A request that goes on ends, or takes along what it reads on its way. *)
LEMMA WriteKnows ==
  ASSUME MetaInv, [MetaNext]_metaVars, ~DisconnectOAuthConnection, NEW r \in Asks, MetaWrites(r)
  PROVE  \E q : ask' = [ask EXCEPT ![r] = q] /\ AskKnows(q, targets', integration'.on)
<1> DEFINE Goal == \E q : ask' = [ask EXCEPT ![r] = q] /\ AskKnows(q, targets', integration'.on)
<1>1. /\ NoAsk \in AskRecs /\ NoAsk.tos = {} /\ NoAsk.old = NoTarget /\ NoAsk.to = NoTarget /\ NoAsk.op = "none"
      /\ AskKnows(NoAsk, targets', integration'.on)
  BY NoAskKnows DEF AskKnows, NoAsk
<1>2. AskKnows(ask[r], targets', integration'.on) /\ ask \in [Asks -> AskRecs] /\ targets \subseteq targets' /\ targets \subseteq Targets
  BY OtherAsks, MetaTyped, LoginSteps DEF AsksKnow
<1>3. ASSUME Ends(r) PROVE Goal
  BY <1>1, <1>3 DEF Ends
<1>4. ASSUME CheckConnect(r) PROVE Goal
  <2> DEFINE q == ask[r]
             old == bmConn[q.bm].dflt
             w == [q EXCEPT !.pc = "write", !.old = old]
  <2>1. ask' = [ask EXCEPT ![r] = NoAsk] \/ ask' = [ask EXCEPT ![r] = w]
    BY <1>4 DEF CheckConnect
  <2>2. q.op = "connect" /\ q.bm \in Bms
    BY <1>4, AskFields DEF CheckConnect, AskAt
  <2>3. old \in targets' \cup {NoTarget} /\ old \in Targets \cup {NoTarget}
    BY <1>2, <2>2 DEF MetaInv, RowsKnown
  <2>4. AskKnows(q, targets', integration'.on)
    BY <1>2
  <2> HIDE DEF q, old
  <2>5. /\ w \in AskRecs /\ w.op = q.op /\ w.tos = q.tos /\ w.old = old /\ w.to = q.to /\ w.bm = q.bm /\ w.src = q.src /\ w.held = q.held
    BY <2>3, <2>4 DEF AskKnows, AskRecs
  <2> HIDE DEF w
  <2>6. AskKnows(w, targets', integration'.on)
    BY <2>3, <2>4, <2>5 DEF AskKnows
  <2> QED
    BY <1>1, <2>1, <2>6
<1>5. ASSUME SaveAccountDestination(r) PROVE Goal
  <2> DEFINE a == ask[r].acct
             w == [NoAsk EXCEPT !.op = "reconcile", !.pc = "check", !.acct = a]
  <2>1. ask' = [ask EXCEPT ![r] = w]
    BY <1>5 DEF SaveAccountDestination
  <2>2. a \in AdAccounts
    BY AskFields
  <2> HIDE DEF a
  <2>3. w \in AskRecs /\ w.op = "reconcile" /\ w.tos = {} /\ w.old = NoTarget /\ w.to = NoTarget
    BY <1>1, <2>2 DEF AskRecs, AskOps
  <2> HIDE DEF w
  <2>4. AskKnows(w, targets', integration'.on)
    BY <2>3 DEF AskKnows
  <2> QED
    BY <2>1, <2>4
<1>6. ASSUME ReadReconcile(r) PROVE Goal
  <2> DEFINE q == ask[r]
             ts == TargetsOf(q.acct)
             fit == IF q.acct = HomeAccount /\ Cardinality(ts) > 1 /\ assigned.by # "manual" /\ Cardinality(Candidates(ts)) = 1
                      THEN Candidates(ts) ELSE {}
             w == [q EXCEPT !.pc = "write", !.tos = fit]
  <2>1. ask' = [ask EXCEPT ![r].pc = "write", ![r].tos = fit] /\ q.op = "reconcile"
    BY <1>6 DEF ReadReconcile, AskAt
  <2>2. ts \subseteq targets
    BY TargetsSetUp, AskFields
  <2>3. fit \subseteq targets' /\ fit \subseteq Targets
    BY <1>2, <2>2 DEF Candidates
  <2> HIDE DEF fit, ts
  <2>4. ask' = [ask EXCEPT ![r] = w]
    BY <1>2, <2>1
  <2>5. AskKnows(q, targets', integration'.on)
    BY <1>2
  <2> HIDE DEF q
  <2>6. /\ w \in AskRecs /\ w.op = q.op /\ w.tos = fit /\ w.old = q.old /\ w.to = q.to /\ w.bm = q.bm /\ w.src = q.src /\ w.held = q.held
    BY <2>3, <2>5 DEF AskKnows, AskRecs
  <2> HIDE DEF w
  <2>7. AskKnows(w, targets', integration'.on)
    BY <2>1, <2>3, <2>5, <2>6 DEF AskKnows
  <2> QED
    BY <2>4, <2>7
<1> HIDE DEF Goal
<1>7. Goal
  BY <1>3, <1>4, <1>5, <1>6 DEF MetaWrites, SaveCredential, SavePrepared, SaveOAuthConnection, RefreshAssets, CommitConnect,
     RotateCredential, TestBusinessConnection, SetOAuthAdvancedRouting, WriteReconcile, SaveAdDestination, MetaRefuses
<1> QED
  BY <1>7 DEF Goal

LEMMA AskSteps == ASSUME MetaInv, [MetaNext]_metaVars PROVE AsksKnow(ask', targets', integration'.on)
<1>1. CASE DisconnectOAuthConnection
  BY <1>1, LoseAll DEF DisconnectOAuthConnection
<1>2. CASE ~DisconnectOAuthConnection
  <2>1. integration.on => integration'.on
    BY <1>2, LoginSteps
  <2>2. CASE UNCHANGED ask
    <3>1. AsksKnow(ask, targets', integration'.on)
      BY <1>2, OtherAsks
    <3> QED
      BY <2>2, <3>1
  <2>3. ASSUME Lose("manual") PROVE AsksKnow(ask', targets', integration'.on)
    BY <2>1, <2>3, LoseAll
  <2>4. ASSUME NEW r \in Asks, MetaAsks(r) PROVE AsksKnow(ask', targets', integration'.on)
    <3>1. UNCHANGED <<integration, targets>>
      BY <2>4, AsksOnlyAsk
    <3>2. PICK q : ask' = [ask EXCEPT ![r] = q] /\ AskKnows(q, targets, integration.on)
      BY <2>4, BeginKnows
    <3>3. AskKnows(q, targets', integration'.on)
      BY <3>1, <3>2
    <3> QED
      BY <1>2, <3>2, <3>3, OneAsk
  <2>5. ASSUME NEW r \in Asks, MetaWrites(r) PROVE AsksKnow(ask', targets', integration'.on)
    <3>1. PICK q : ask' = [ask EXCEPT ![r] = q] /\ AskKnows(q, targets', integration'.on)
      BY <1>2, <2>5, WriteKnows
    <3> QED
      BY <1>2, <3>1, OneAsk
  <2>6. ASSUME MetaTransaction PROVE UNCHANGED ask \/ Lose("manual")
    BY <1>2, <2>6 DEF MetaTransaction, SaveAssetSelection, RemoveBusinessConnection, SetBusinessConnectionStatus, SaveCapiToken,
       SaveConversionDestination, SaveReportingAccount, SetReportingAccountActive
  <2> QED
    BY <2>2, <2>3, <2>4, <2>5, <2>6, MetaCases DEF metaVars
<1> QED
  BY <1>1, <1>2

-----------------------------------------------------------------------------
LEMMA RoutesKnown == ASSUME MetaInv PROVE SendsToConfigured
<1>1. adAcct[HomeAccount].bm \in Bms \cup {NoBm}
  BY MetaTyped, MetaAssumption DEF AcctRecs
<1> QED
  BY <1>1, MetaAssumption DEF MetaInv, RowsKnown, SendsToConfigured, CapiRoute

LEMMA MetaTypeSteps == ASSUME MetaInv, [MetaNext]_metaVars PROVE MetaTypeOK'
<1>1. /\ integration' \in IntegrationRecs /\ targets' \subseteq Targets /\ asked' \in 0..MaxAsked
      /\ credential' \in [Sources -> {"none", "pending", "active"}]
      /\ snapshot' \in [root : {"none", "ok", "error"}, business : {"none", "ok", "partial"}]
      /\ assigned' \in AssignRecs
  BY LoginSteps, CredentialSteps, AssignSteps
<1>2. bmConn' \in [Bms -> BmRecs]
  BY BmSteps DEF ConnFine
<1>3. adAcct' \in [AdAccounts -> AcctRecs]
  BY AcctSteps DEF AcctsFine
<1>4. ask' \in [Asks -> AskRecs]
  BY AskSteps DEF AsksKnow
<1>5. allowed' \subseteq AdAccounts \X Targets
  BY <1>1, AllowedSteps
<1> QED
  BY <1>1, <1>2, <1>3, <1>4, <1>5, Zenon DEF MetaTypeOK, IntegrationRecs, BmRecs, AcctRecs, AssignRecs, AskRecs, AskOps

LEMMA MetaSteps == ASSUME MetaInv, [MetaNext]_metaVars PROVE MetaInv'
<1>1. DisconnectedRoutesNothing' /\ (\A b \in Bms : bmConn'[b].dflt \in targets' \cup {NoTarget})
  BY BmSteps DEF ConnFine, DisconnectedRoutesNothing
<1>2. RowsKnown'
  BY <1>1, AcctSteps, AllowedSteps, AssignSteps DEF AcctsFine, RowsKnown
<1> QED
  BY <1>1, <1>2, MetaTypeSteps, AskSteps DEF MetaInv, AsksKnow

(* In every state that every step reaches the rows have their types, no    *)
(* business connection uses the credential of a login that was             *)
(* disconnected, and a conversion of the ad is sent to a destination that  *)
(* somebody set up or refused; and no step but the operator's own request  *)
(* changes the destination he chose for the ad                             *)
(* (MetaManualConnectionsService, MetaConnectionsService,                  *)
(* MetaAdDestinationRoutingService.reconcileReportingAccount).             *)
THEOREM RoutesStaySafe == MetaSpec => MetaRoutesSafe
<1>1. MetaInit => MetaInv
  BY MetaStarts
<1>2. MetaInv /\ [MetaNext]_metaVars => MetaInv'
  BY MetaSteps
<1>3. MetaInv => SendsToConfigured
  BY RoutesKnown
<1>4. MetaInv => MetaTypeOK /\ DisconnectedRoutesNothing
  BY DEF MetaInv
<1>5. MetaInv /\ [MetaNext]_metaVars => ManualStays
  BY AssignSteps
<1> QED
  BY <1>1, <1>2, <1>3, <1>4, <1>5, PTL DEF MetaSpec, MetaRoutesSafe

(***************************************************************************)
(* The routes of a channel.                                                *)
(***************************************************************************)
LEMMA PreviewTyped == \A st \in AdSettings : PreviewRoute(st, NoDestination) \in Maybe
<1> SUFFICES ASSUME NEW st \in AdSettings PROVE PreviewRoute(st, NoDestination) \in Maybe
  OBVIOUS
<1>1. st.configured \subseteq Destinations
  BY DEF AdSettings
<1>2. PreviewRoute(st, NoDestination) \in st.configured \cup {NoDestination}
  BY DEF PreviewRoute
<1> QED
  BY <1>1, <1>2 DEF Maybe

(* A route that asks for its own destination gets it exactly when the ad   *)
(* resolves to it, and nothing otherwise (previewRoute called with and     *)
(* without a destination; previewMatchesRoute compares the former).        *)
THEOREM AskedPreviewAgrees ==
  \A st \in AdSettings, d \in Destinations :
    PreviewRoute(st, d) = IF PreviewRoute(st, NoDestination) = d THEN d ELSE NoDestination
<1> SUFFICES ASSUME NEW st \in AdSettings, NEW d \in Destinations
             PROVE  PreviewRoute(st, d) = IF PreviewRoute(st, NoDestination) = d THEN d ELSE NoDestination
  OBVIOUS
<1> DEFINE A == Authorized(st)
<1>1. d # NoDestination /\ NoDestination \notin A /\ NoDestination \notin st.configured
  BY RouteAssumption DEF AdSettings, Authorized
<1>2. Chosen(st, d) = d
  BY <1>1 DEF Chosen
<1>3. st.assigned # NoDestination => Chosen(st, NoDestination) = st.assigned
  BY DEF Chosen
<1>4. st.assigned = NoDestination /\ A = {d} => Chosen(st, NoDestination) = d
  BY DEF Chosen
<1>5. st.assigned = NoDestination /\ A # {d} => Chosen(st, NoDestination) # d
  <2> SUFFICES ASSUME st.assigned = NoDestination, A # {d} PROVE Chosen(st, NoDestination) # d
    OBVIOUS
  <2>1. CASE \E x \in A : A = {x}
    <3>1. PICK x \in A : A = {x}
      BY <2>1
    <3>2. Chosen(st, NoDestination) = x
      BY <3>1 DEF Chosen
    <3> QED
      BY <3>1, <3>2
  <2>2. CASE ~ \E x \in A : A = {x}
    BY <1>1, <2>2 DEF Chosen
  <2> QED
    BY <2>1, <2>2
<1> HIDE DEF A
<1>6. PreviewRoute(st, d) =
        IF st.linked /\ {d, st.assigned} \subseteq A \cup {NoDestination} /\ st.assigned \in {d, NoDestination}
             /\ (st.assigned = NoDestination => A = {d}) /\ d \in st.configured
          THEN d ELSE NoDestination
  BY <1>1, <1>2 DEF PreviewRoute, A
<1>7. PreviewRoute(st, NoDestination) =
        IF st.linked /\ st.assigned \in A \cup {NoDestination} /\ Chosen(st, NoDestination) \in st.configured
          THEN Chosen(st, NoDestination) ELSE NoDestination
  BY DEF PreviewRoute, A
<1>8. CASE st.assigned = NoDestination /\ A = {d}
  BY <1>1, <1>4, <1>6, <1>7, <1>8
<1>9. CASE st.assigned = NoDestination /\ A # {d}
  BY <1>1, <1>5, <1>6, <1>7, <1>9
<1>10. CASE st.assigned # NoDestination
  BY <1>1, <1>3, <1>6, <1>7, <1>10
<1> QED
  BY <1>8, <1>9, <1>10

ArrivalRecs == [class : OpenClasses \cup {"none"}, to : Maybe, taken : BOOLEAN]

SweepRecs == [at : {"idle", "read", "learn", "decide", "write"}, classes : SUBSET OpenClasses,
              events : SUBSET Arrivals, halted : BOOLEAN, routes : SUBSET RouteKeys, decided : [Arrivals -> Maybe]]

(* Only an event with a route is taken. *)
ArrivalFine(x) ==
  /\ x \in ArrivalRecs
  /\ x.class = "resolved" <=> x.to # NoDestination
  /\ x.taken => x.class = "resolved"

RouteInv ==
  /\ routes \subseteq RouteKeys /\ halted \subseteq {"channel", "connection"}
  /\ adRoute \in [Arrivals -> Maybe]
  /\ arrival \in [Arrivals -> ArrivalRecs] /\ \A e \in Arrivals : ArrivalFine(arrival[e])
  /\ sweep \in [Sweepers -> SweepRecs]
  /\ routeEdits \in 0..MaxRouteEdits /\ previewFaults \in 0..MaxPreviewFaults

LEMMA RestingTyped == Resting \in SweepRecs
BY DEF Resting, SweepRecs, Maybe

LEMMA WrittenFine == /\ ArrivalFine(NotArrived) /\ ArrivalFine(Unresolved) /\ \A d \in Maybe : ArrivalFine(RouteUpdate(d))
                     /\ \A d \in Maybe : ~RouteUpdate(d).taken
<1>1. ArrivalFine(NotArrived) /\ ArrivalFine(Unresolved)
  BY DEF ArrivalFine, NotArrived, Unresolved, ArrivalRecs, OpenClasses, Maybe
<1>2. ASSUME NEW d \in Maybe PROVE ArrivalFine(RouteUpdate(d)) /\ ~RouteUpdate(d).taken
  BY <1>2 DEF ArrivalFine, RouteUpdate, ResolvedTo, Unresolved, ArrivalRecs, OpenClasses, Maybe
<1> QED
  BY <1>1, <1>2

LEMMA EvaluatedTyped == \A stopped, rts : \A d \in Maybe : Evaluate(stopped, rts, d) \in Maybe
BY DEF Evaluate, Maybe

LEMMA SweepBegins ==
  ASSUME RouteInv, NEW s \in Sweepers, NEW classes \in SUBSET OpenClasses, Sweeping(s, classes)
  PROVE  sweep' \in [Sweepers -> SweepRecs]
<1> DEFINE w == [Resting EXCEPT !.at = "read", !.classes = classes]
<1>1. w \in SweepRecs
  BY RestingTyped DEF SweepRecs
<1>2. sweep' = [sweep EXCEPT ![s] = w]
  BY DEF Sweeping
<1> HIDE DEF w
<1> QED
  BY <1>1, <1>2 DEF RouteInv

LEMMA SweepGoesOn ==
  ASSUME RouteInv, NEW s \in Sweepers, NEW w \in SweepRecs, Advance(s, w)
  PROVE  sweep' \in [Sweepers -> SweepRecs]
BY DEF Advance, RouteInv

LEMMA RouteStarts == RouteInit => RouteInv
<1> SUFFICES ASSUME RouteInit PROVE RouteInv
  OBVIOUS
<1>1. adRoute \in [Arrivals -> Maybe]
  <2>1. {PreviewRoute(st, NoDestination) : st \in AdSettings} \subseteq Maybe
    BY PreviewTyped
  <2> QED
    BY <2>1 DEF RouteInit
<1>2. arrival \in [Arrivals -> ArrivalRecs] /\ \A e \in Arrivals : ArrivalFine(arrival[e])
  BY WrittenFine DEF RouteInit, ArrivalFine
<1>3. sweep \in [Sweepers -> SweepRecs]
  BY RestingTyped DEF RouteInit
<1> QED
  BY <1>1, <1>2, <1>3, RouteAssumption DEF RouteInit, RouteInv

(* A step keeps the invariant, and an event that was taken as it is. *)
LEMMA RouteStays ==
  ASSUME RouteInv, [RouteNext]_routeVars
  PROVE  RouteInv' /\ \A e \in Arrivals : arrival[e].taken => arrival'[e] = arrival[e]
<1> DEFINE Kept == \A e \in Arrivals : arrival[e].taken => arrival'[e] = arrival[e]
<1> USE RouteAssumption
<1>1. /\ routes \subseteq RouteKeys /\ halted \subseteq {"channel", "connection"} /\ adRoute \in [Arrivals -> Maybe]
      /\ arrival \in [Arrivals -> ArrivalRecs] /\ \A e \in Arrivals : ArrivalFine(arrival[e])
      /\ sweep \in [Sweepers -> SweepRecs] /\ routeEdits \in 0..MaxRouteEdits /\ previewFaults \in 0..MaxPreviewFaults
  BY DEF RouteInv
<1>2. ASSUME UNCHANGED arrival, routes' \subseteq RouteKeys, halted' \subseteq {"channel", "connection"}, adRoute' \in [Arrivals -> Maybe],
             sweep' \in [Sweepers -> SweepRecs], Edit \/ UNCHANGED routeEdits, previewFaults' \in 0..MaxPreviewFaults
      PROVE  RouteInv' /\ Kept
  BY <1>1, <1>2 DEF RouteInv, Edit
<1>3. OpenClasses \in SUBSET OpenClasses /\ {"unresolved"} \in SUBSET OpenClasses
  BY DEF OpenClasses
<1>4. CASE UNCHANGED routeVars
  BY <1>1, <1>2, <1>4 DEF routeVars
<1>5. ASSUME NEW s \in Sweepers, NEW rts \in SUBSET RouteKeys, ReplaceRoutes(s, rts) PROVE RouteInv' /\ Kept
  BY <1>1, <1>2, <1>3, <1>5, SweepBegins DEF ReplaceRoutes
<1>6. ASSUME NEW s \in Sweepers, NEW rt \in RouteKeys, RemoveRoute(s, rt) PROVE RouteInv' /\ Kept
  BY <1>1, <1>2, <1>3, <1>6, SweepBegins DEF RemoveRoute
<1>7. ASSUME NEW s \in Sweepers, NEW to \in {"active", "paused"}, UpdateChannelStatus(s, to) PROVE RouteInv' /\ Kept
  BY <1>1, <1>2, <1>3, <1>7, SweepBegins DEF UpdateChannelStatus
<1>8. CASE UpdateConnectionStatus
  BY <1>1, <1>2, <1>8 DEF UpdateConnectionStatus
<1>9. ASSUME NEW e \in Arrivals, NEW st \in AdSettings, AdRouteChanges(e, st) PROVE RouteInv' /\ Kept
  BY <1>1, <1>2, <1>9, PreviewTyped DEF AdRouteChanges
<1>10. ASSUME NEW s \in Sweepers, NEW e \in Arrivals, EventArrives(s, e) PROVE RouteInv' /\ Kept
  <2>1. sweep' \in [Sweepers -> SweepRecs] /\ arrival' = [arrival EXCEPT ![e] = Unresolved]
        /\ UNCHANGED <<routes, halted, adRoute, routeEdits, previewFaults>> /\ ~arrival[e].taken
    BY <1>1, <1>3, <1>10, SweepBegins DEF EventArrives, ArrivalFine
  <2>2. ArrivalFine(Unresolved) /\ Unresolved \in ArrivalRecs
    BY WrittenFine DEF ArrivalFine
  <2> QED
    BY <1>1, <2>1, <2>2 DEF RouteInv
<1>11. ASSUME NEW s \in Sweepers, SyncReevaluates(s) PROVE RouteInv' /\ Kept
  BY <1>1, <1>2, <1>3, <1>11, SweepBegins DEF SyncReevaluates
<1>12. ASSUME NEW e \in Arrivals, TakeEvent(e) PROVE RouteInv' /\ Kept
  <2> DEFINE x == [arrival[e] EXCEPT !.taken = TRUE]
  <2>1. arrival' = [arrival EXCEPT ![e] = x] /\ UNCHANGED <<routes, halted, adRoute, sweep, routeEdits, previewFaults>> /\ ~arrival[e].taken
    BY <1>1, <1>12 DEF TakeEvent
  <2>2. ArrivalFine(x) /\ x \in ArrivalRecs
    BY <1>1, <1>12 DEF TakeEvent, ArrivalFine, ArrivalRecs
  <2> HIDE DEF x
  <2> QED
    BY <1>1, <2>1, <2>2 DEF RouteInv
<1>13. ASSUME NEW s \in Sweepers, ReadOpen(s) PROVE RouteInv' /\ Kept
  <2> DEFINE v == OpenEvents(sweep[s].classes)
             b == halted # {}
             w == [sweep[s] EXCEPT !.at = "learn", !.events = v, !.halted = b, !.routes = routes]
  <2>1. v \subseteq Arrivals /\ b \in BOOLEAN
    BY DEF OpenEvents
  <2> HIDE DEF v, b
  <2>2. w \in SweepRecs
    BY <1>1, <2>1 DEF SweepRecs
  <2>3. Advance(s, w) /\ UNCHANGED <<routes, halted, adRoute, arrival, routeEdits, previewFaults>>
    BY <1>13 DEF ReadOpen, v, b
  <2> HIDE DEF w
  <2> QED
    BY <1>1, <1>2, <2>2, <2>3, SweepGoesOn
<1>14. ASSUME NEW s \in Sweepers, LearnRoutes(s) PROVE RouteInv' /\ Kept
  <2>1. PICK seen \in SUBSET sweep[s].events :
          /\ previewFaults' = previewFaults + (IF seen = sweep[s].events THEN 0 ELSE 1) /\ previewFaults' <= MaxPreviewFaults
          /\ routes' = routes \cup (Learnable(s, seen) \ routes)
          /\ \/ Advance(s, [sweep[s] EXCEPT !.at = "decide"])
             \/ Advance(s, [sweep[s] EXCEPT !.at = "decide", !.halted = halted # {}, !.routes = routes \cup (Learnable(s, seen) \ routes)])
    BY <1>14 DEF LearnRoutes
  <2>2. UNCHANGED <<halted, adRoute, arrival, routeEdits>>
    BY <1>14 DEF LearnRoutes
  <2>3. Learnable(s, seen) \subseteq RouteKeys
    <3>1. seen \subseteq Arrivals
      BY <1>1 DEF SweepRecs
    <3> QED
      BY <1>1, <3>1 DEF Learnable, RouteKeys, Maybe
  <2> DEFINE rts == routes \cup (Learnable(s, seen) \ routes)
             b == halted # {}
  <2>4. rts \subseteq RouteKeys /\ routes' = rts /\ b \in BOOLEAN
    BY <1>1, <2>1, <2>3
  <2>5. \E w \in SweepRecs : Advance(s, w)
    <3>1. Advance(s, [sweep[s] EXCEPT !.at = "decide"]) \/ Advance(s, [sweep[s] EXCEPT !.at = "decide", !.halted = b, !.routes = rts])
      BY <2>1
    <3> HIDE DEF rts, b
    <3>2. [sweep[s] EXCEPT !.at = "decide"] \in SweepRecs /\ [sweep[s] EXCEPT !.at = "decide", !.halted = b, !.routes = rts] \in SweepRecs
      BY <1>1, <2>4 DEF SweepRecs
    <3> QED
      BY <3>1, <3>2
  <2>6. sweep' \in [Sweepers -> SweepRecs]
    BY <2>5, SweepGoesOn
  <2>7. previewFaults' \in 0..MaxPreviewFaults
    BY <1>1, <2>1
  <2> QED
    BY <1>1, <1>2, <2>2, <2>4, <2>6, <2>7
<1>15. ASSUME NEW s \in Sweepers, DecideRoutes(s) PROVE RouteInv' /\ Kept
  <2>1. PICK seen \in SUBSET sweep[s].events :
          /\ previewFaults' = previewFaults + (IF seen = sweep[s].events THEN 0 ELSE 1) /\ previewFaults' <= MaxPreviewFaults
          /\ Advance(s, [sweep[s] EXCEPT !.at = "write", !.decided = [e \in Arrivals |->
                           IF e \in seen THEN Evaluate(sweep[s].halted, sweep[s].routes, adRoute[e]) ELSE NoDestination]])
    BY <1>15 DEF DecideRoutes
  <2>2. UNCHANGED <<routes, halted, adRoute, arrival, routeEdits>>
    BY <1>15 DEF DecideRoutes
  <2> DEFINE d == [e \in Arrivals |-> IF e \in seen THEN Evaluate(sweep[s].halted, sweep[s].routes, adRoute[e]) ELSE NoDestination]
             w == [sweep[s] EXCEPT !.at = "write", !.decided = d]
  <2>3. d \in [Arrivals -> Maybe]
    <3>1. \A e \in Arrivals : Evaluate(sweep[s].halted, sweep[s].routes, adRoute[e]) \in Maybe
      BY <1>1, EvaluatedTyped
    <3> QED
      BY <3>1 DEF Maybe
  <2>4. Advance(s, w)
    BY <2>1
  <2> HIDE DEF d
  <2>5. w \in SweepRecs
    BY <1>1, <2>3 DEF SweepRecs
  <2> HIDE DEF w
  <2>6. sweep' \in [Sweepers -> SweepRecs]
    BY <2>4, <2>5, SweepGoesOn
  <2>7. previewFaults' \in 0..MaxPreviewFaults
    BY <1>1, <2>1
  <2> QED
    BY <1>1, <1>2, <2>2, <2>6, <2>7
<1>16. ASSUME NEW s \in Sweepers, WriteDecisions(s) PROVE RouteInv' /\ Kept
  <2>1. /\ arrival' = [e \in Arrivals |-> IF e \in StillOpen(s) THEN RouteUpdate(sweep[s].decided[e]) ELSE arrival[e]]
        /\ Advance(s, Resting) /\ UNCHANGED <<routes, halted, adRoute, routeEdits, previewFaults>>
    BY <1>16 DEF WriteDecisions
  <2>2. \A e \in StillOpen(s) : ~arrival[e].taken
    BY DEF StillOpen, OpenEvents
  <2>3. \A e \in Arrivals : ArrivalFine(RouteUpdate(sweep[s].decided[e]))
    BY <1>1, WrittenFine DEF SweepRecs
  <2>4. sweep' \in [Sweepers -> SweepRecs]
    BY <2>1, RestingTyped, SweepGoesOn
  <2>5. \A e \in Arrivals : ArrivalFine(arrival'[e])
    BY <1>1, <2>1, <2>3
  <2>6. arrival' \in [Arrivals -> ArrivalRecs]
    BY <2>1, <2>5 DEF ArrivalFine
  <2> QED
    BY <1>1, <2>1, <2>2, <2>4, <2>5, <2>6 DEF RouteInv
<1> QED
  BY <1>4, <1>5, <1>6, <1>7, <1>8, <1>9, <1>10, <1>11, <1>12, <1>13, <1>14, <1>15, <1>16 DEF RouteNext

(* For any routes, ads and overlapping sweeps, an event that was taken for *)
(* replay or production has a route, and keeps the one it was taken with   *)
(* (InboundWebhookChannelRoutesService.reevaluateEvents).                  *)
THEOREM TakenEventsKeepRoutes ==
  RouteSpec => /\ [](RouteTypeOK /\ \A e \in Arrivals : arrival[e].taken => arrival[e].to \in Destinations)
               /\ TakenKeepsRoute
<1>1. RouteInit => RouteInv
  BY RouteStarts
<1>2. RouteInv /\ [RouteNext]_routeVars => RouteInv' /\ \A e \in Arrivals : arrival[e].taken => arrival'[e] = arrival[e]
  BY RouteStays
<1>3. RouteInv => RouteTypeOK /\ \A e \in Arrivals : arrival[e].taken => arrival[e].to \in Destinations
  <2> SUFFICES ASSUME RouteInv PROVE RouteTypeOK /\ \A e \in Arrivals : arrival[e].taken => arrival[e].to \in Destinations
    OBVIOUS
  <2>1. RouteTypeOK
    BY Zenon DEF RouteInv, RouteTypeOK, ArrivalRecs, SweepRecs
  <2>2. \A e \in Arrivals : arrival[e].taken => arrival[e].to \in Destinations
    BY DEF RouteInv, ArrivalFine, ArrivalRecs, Maybe
  <2> QED
    BY <2>1, <2>2
<1>4. RouteInv /\ [RouteNext]_routeVars => [\A e \in Arrivals : arrival[e].taken => arrival'[e] = arrival[e]]_routeVars
  BY <1>2
<1> QED
  BY <1>1, <1>2, <1>3, <1>4, PTL DEF RouteSpec, TakenKeepsRoute
=============================================================================
