-------------------------------- MODULE Teams --------------------------------
(***************************************************************************)
(* The members and invitations of one workspace (WorkspacesService) and    *)
(* the workspace a session is active in (AuthService).  Handlers read,     *)
(* decide and write without a lock; only the claim of an invitation is a   *)
(* compare-and-set.                                                        *)
(***************************************************************************)
EXTENDS Naturals, FiniteSets

CONSTANTS
  People,       \* users, each with one session
  Owner,        \* the owner of the workspace
  Invites,      \* bound: WorkspaceInvite rows
  Calls,        \* bound: requests under way at a time
  MaxCalled,    \* bound: requests to this component
  NoPerson, NoInvite,
  MaxLinks      \* bound: links issued per invitation

ASSUME TeamsAssumption ==
  /\ Owner \in People /\ NoPerson \notin People
  /\ MaxCalled \in Nat /\ MaxLinks \in Nat \ {0}

VARIABLES
  member,    \* WorkspaceMember: role and canManageMembers
  invite,    \* WorkspaceInvite: status, address, role, tokenHash, expired
  active,    \* AuthSession.activeWorkspaceId is this workspace
  signedIn,  \* AuthSession.revokedAt is null
  last,      \* User.lastWorkspaceId is this workspace
  teamCall,  \* a request under way
  called     \* requests so far

teamVars == <<member, invite, active, signedIn, last, teamCall, called>>

MemberRoles == {"owner", "admin", "member"}

NoMember == [role |-> "none", manager |-> FALSE]

Actionable == {"pending", "sent", "failed"}

NoInviteRec == [status |-> "none", u |-> NoPerson, role |-> "member", link |-> 0, late |-> FALSE]

NoCall == [pc |-> "idle", u |-> NoPerson, i |-> NoInvite, link |-> 0, seen |-> NoMember, to |-> "none"]

MemberRecs == [role : MemberRoles \cup {"none"}, manager : BOOLEAN]

InviteRecs == [status : Actionable \cup {"none", "accepted", "revoked", "expired"}, u : People \cup {NoPerson},
               role : {"admin", "member"}, link : 0..MaxLinks, late : BOOLEAN]

CallRecs == [pc : {"idle", "role", "manager", "remove", "queue", "undelivered", "resend", "revoke", "claim", "activate", "repair"},
             u : People \cup {NoPerson}, i : Invites \cup {NoInvite}, link : 0..MaxLinks,
             seen : MemberRecs, to : {"none", "admin", "member", "on", "off", "new"}]

TeamTypeOK ==
  /\ member \in [People -> MemberRecs]
  /\ invite \in [Invites -> InviteRecs]
  /\ active \in [People -> BOOLEAN] /\ signedIn \in [People -> BOOLEAN] /\ last \in [People -> BOOLEAN]
  /\ teamCall \in [Calls -> CallRecs]
  /\ called \in 0..MaxCalled

TeamInit ==
  /\ member = [u \in People |-> IF u = Owner THEN [role |-> "owner", manager |-> FALSE] ELSE NoMember]
  /\ invite = [i \in Invites |-> NoInviteRec]
  /\ active = [u \in People |-> u = Owner]
  /\ signedIn = [u \in People |-> u = Owner]
  /\ last = [u \in People |-> u = Owner]
  /\ teamCall = [c \in Calls |-> NoCall] /\ called = 0

Ask(c, q) ==
  /\ teamCall[c] = NoCall /\ called < MaxCalled
  /\ teamCall' = [teamCall EXCEPT ![c] = q] /\ called' = called + 1

GoesOn(c, q) == teamCall' = [teamCall EXCEPT ![c] = q] /\ UNCHANGED called

Reply(c) == GoesOn(c, NoCall)

-----------------------------------------------------------------------------
(* Members.                                                                *)

(* getPermissions: who may manage the team. *)
Manages(u) == signedIn[u] /\ (member[u].role = "owner" \/ (member[u].role = "admin" /\ member[u].manager))

CanManage(by, u) ==
  /\ Manages(by) /\ member[u].role \in {"admin", "member"}
  /\ member[by].role = "owner" \/ ~member[u].manager \/ by = u

AskRole(c, by, u, to) ==
  /\ CanManage(by, u) /\ to \in {"admin", "member"}
  /\ Ask(c, [NoCall EXCEPT !.pc = "role", !.u = u, !.seen = member[u], !.to = to])
  /\ UNCHANGED <<member, invite, active, signedIn, last>>

(* The capability is carried over from the member as it was read. *)
WriteRole(c) ==
  LET q == teamCall[c] IN
  /\ q.pc = "role"
  /\ member' = IF member[q.u] = NoMember THEN member
               ELSE [member EXCEPT ![q.u] = [role |-> q.to, manager |-> q.to = "admin" /\ q.seen.manager]]
  /\ Reply(c)
  /\ UNCHANGED <<invite, active, signedIn, last>>

AskManager(c, u, to) ==
  /\ signedIn[Owner] /\ member[u].role = "admin" /\ to \in {"on", "off"}
  /\ Ask(c, [NoCall EXCEPT !.pc = "manager", !.u = u, !.to = to])
  /\ UNCHANGED <<member, invite, active, signedIn, last>>

WriteManager(c) ==
  LET q == teamCall[c] IN
  /\ q.pc = "manager"
  /\ member' = IF member[q.u] = NoMember THEN member ELSE [member EXCEPT ![q.u].manager = q.to = "on"]
  /\ Reply(c)
  /\ UNCHANGED <<invite, active, signedIn, last>>

AskRemove(c, by, u) ==
  /\ CanManage(by, u)
  /\ Ask(c, [NoCall EXCEPT !.pc = "remove", !.u = u])
  /\ UNCHANGED <<member, invite, active, signedIn, last>>

(* One transaction: the member, the sessions active here, the last workspace. *)
RemoveMember(c) ==
  LET u == teamCall[c].u IN
  /\ teamCall[c].pc = "remove"
  /\ IF member[u] = NoMember THEN UNCHANGED <<member, signedIn, last>>
     ELSE /\ member' = [member EXCEPT ![u] = NoMember]
          /\ signedIn' = [signedIn EXCEPT ![u] = @ /\ ~active[u]]
          /\ last' = [last EXCEPT ![u] = FALSE]
  /\ Reply(c)
  /\ UNCHANGED <<invite, active>>

-----------------------------------------------------------------------------
(* Invitations.                                                            *)

CreateInvite(c, by, i, u, role) ==
  /\ Manages(by) /\ invite[i].status = "none" /\ role \in {"admin", "member"}
  /\ invite' = [invite EXCEPT ![i] = [status |-> "pending", u |-> u, role |-> role, link |-> 1, late |-> FALSE]]
  /\ Ask(c, [NoCall EXCEPT !.pc = "queue", !.i = i, !.link = 1])
  /\ UNCHANGED <<member, active, signedIn, last>>

(* queueWorkspaceInvitation; when it fails the invitation with this link,  *)
(* if still pending, is marked.                                            *)
QueueInvite(c) ==
  /\ teamCall[c].pc = "queue"
  /\ \/ Reply(c)
     \/ GoesOn(c, [teamCall[c] EXCEPT !.pc = "undelivered"])
  /\ UNCHANGED <<member, invite, active, signedIn, last>>

MarkInviteDeliveryFailed(c) ==
  LET q == teamCall[c] IN
  /\ teamCall[c].pc = "undelivered"
  /\ invite' = IF invite[q.i].link = q.link /\ invite[q.i].status = "pending"
                 THEN [invite EXCEPT ![q.i].status = "failed"] ELSE invite
  /\ Reply(c)
  /\ UNCHANGED <<member, active, signedIn, last>>

AskInvite(c, by, i, pc) ==
  /\ Manages(by) /\ invite[i].status \notin {"none", "accepted"} /\ pc \in {"resend", "revoke"}
  /\ Ask(c, [NoCall EXCEPT !.pc = pc, !.i = i])
  /\ UNCHANGED <<member, invite, active, signedIn, last>>

ResendInvite(c) ==
  LET i == teamCall[c].i IN
  /\ teamCall[c].pc = "resend" /\ invite[i].link < MaxLinks
  /\ invite' = [invite EXCEPT ![i].status = "pending", ![i].link = @ + 1, ![i].late = FALSE]
  /\ GoesOn(c, [teamCall[c] EXCEPT !.pc = "queue", !.link = invite[i].link + 1])
  /\ UNCHANGED <<member, active, signedIn, last>>

RevokeInvite(c) ==
  /\ teamCall[c].pc = "revoke"
  /\ invite' = [invite EXCEPT ![teamCall[c].i].status = "revoked"]
  /\ Reply(c)
  /\ UNCHANGED <<member, active, signedIn, last>>

InviteGetsLate(i) ==
  /\ invite[i].status \in Actionable /\ ~invite[i].late
  /\ invite' = [invite EXCEPT ![i].late = TRUE]
  /\ UNCHANGED <<member, active, signedIn, last, teamCall, called>>

(* listInvites, inspectInvite and both acceptances expire what is late. *)
ExpireInvite(i) ==
  /\ invite[i].status \in Actionable /\ invite[i].late
  /\ invite' = [invite EXCEPT ![i].status = "expired"]
  /\ UNCHANGED <<member, active, signedIn, last, teamCall, called>>

(* acceptInvite, by who is signed in, and acceptInviteForNewUser: the link *)
(* is looked up.  Who has a password is left to Accounts.                  *)
OpenInvite(c, i, to) ==
  /\ invite[i].status \in Actionable /\ ~invite[i].late
  /\ to = IF signedIn[invite[i].u] THEN "none" ELSE "new"
  /\ Ask(c, [NoCall EXCEPT !.pc = "claim", !.u = invite[i].u, !.i = i, !.link = invite[i].link, !.to = to])
  /\ UNCHANGED <<member, invite, active, signedIn, last>>

(* Mutant of Claimable: the status is the one that was looked up. *)
ClaimableStale(q) == invite[q.i].link = q.link /\ ~invite[q.i].late

Claimable(q) == invite[q.i].link = q.link /\ ~invite[q.i].late /\ invite[q.i].status \in Actionable

(* activateWorkspaceSessionInTransaction; the membership was just made. *)
ActivateSession(u) == active' = [active EXCEPT ![u] = TRUE] /\ last' = [last EXCEPT ![u] = TRUE]

(* One transaction: claim, member, session.  Who is a member already fails *)
(* it on the unique key, who was signed out on the session; a new user     *)
(* gets one.                                                               *)
AcceptInvite(c) ==
  LET q == teamCall[c] IN
  /\ q.pc = "claim"
  /\ IF Claimable(q) /\ member[q.u] = NoMember /\ (q.to = "new" \/ signedIn[q.u])
       THEN /\ invite' = [invite EXCEPT ![q.i].status = "accepted"]
            /\ member' = [member EXCEPT ![q.u] = [role |-> invite[q.i].role, manager |-> FALSE]]
            /\ ActivateSession(q.u)
            /\ signedIn' = [signedIn EXCEPT ![q.u] = TRUE]
       ELSE UNCHANGED <<invite, member, active, last, signedIn>>
  /\ Reply(c)

-----------------------------------------------------------------------------
(* The workspace a session is active in.                                   *)

SignIn(u) ==
  /\ ~signedIn[u]
  /\ signedIn' = [signedIn EXCEPT ![u] = TRUE]
  /\ active' = [active EXCEPT ![u] = member[u] # NoMember]
  /\ last' = [last EXCEPT ![u] = @ \/ member[u] # NoMember]
  /\ UNCHANGED <<member, invite, teamCall, called>>

(* setActiveWorkspace reads the membership and writes the session later. *)
AskActive(c, u) ==
  /\ signedIn[u] /\ member[u] # NoMember
  /\ Ask(c, [NoCall EXCEPT !.pc = "activate", !.u = u])
  /\ UNCHANGED <<member, invite, active, signedIn, last>>

SetActive(c) ==
  LET u == teamCall[c].u IN
  /\ teamCall[c].pc = "activate"
  /\ active' = [active EXCEPT ![u] = @ \/ signedIn[u]]
  /\ last' = [last EXCEPT ![u] = @ \/ signedIn[u]]
  /\ Reply(c)
  /\ UNCHANGED <<member, invite, signedIn>>

(* getSession: a workspace without membership is not answered, and the     *)
(* session is corrected.                                                   *)
GetSession(c, u) ==
  /\ signedIn[u] /\ active[u] # (member[u] # NoMember)
  /\ Ask(c, [NoCall EXCEPT !.pc = "repair", !.u = u, !.seen = member[u]])
  /\ UNCHANGED <<member, invite, active, signedIn, last>>

RepairSession(c) ==
  LET u == teamCall[c].u IN
  /\ teamCall[c].pc = "repair"
  /\ active' = [active EXCEPT ![u] = IF signedIn[u] THEN teamCall[c].seen # NoMember ELSE @]
  /\ Reply(c)
  /\ UNCHANGED <<member, invite, signedIn, last>>

-----------------------------------------------------------------------------
TeamStep(c) ==
  \/ WriteRole(c) \/ WriteManager(c) \/ RemoveMember(c)
  \/ QueueInvite(c) \/ MarkInviteDeliveryFailed(c) \/ ResendInvite(c) \/ RevokeInvite(c) \/ AcceptInvite(c)
  \/ SetActive(c) \/ RepairSession(c)

TeamNext ==
  \/ \E c \in Calls :
       \/ TeamStep(c)
       \/ \E u \in People :
            \/ \E by \in People, to \in {"admin", "member"} : AskRole(c, by, u, to)
            \/ \E by \in People : AskRemove(c, by, u)
            \/ \E to \in {"on", "off"} : AskManager(c, u, to)
            \/ AskActive(c, u) \/ GetSession(c, u)
            \/ \E by \in People, i \in Invites, role \in {"admin", "member"} : CreateInvite(c, by, i, u, role)
       \/ \E i \in Invites : (\E to \in {"none", "new"} : OpenInvite(c, i, to)) \/ \E by \in People, pc \in {"resend", "revoke"} : AskInvite(c, by, i, pc)
  \/ \E i \in Invites : InviteGetsLate(i) \/ ExpireInvite(i)
  \/ \E u \in People : SignIn(u)

TeamSpec == TeamInit /\ [][TeamNext]_teamVars

-----------------------------------------------------------------------------
(* Nobody joins through an invitation that was revoked, replaced, expired  *)
(* or used while the acceptance was under way.                             *)
JoinsByGoodLink ==
  \A u \in People : member[u] = NoMember /\ member'[u] # NoMember =>
    \E i \in Invites : invite[i].u = u /\ invite[i].status \in Actionable /\ invite'[i].status = "accepted"

(* That, and the types, whatever requests overlap (WorkspacesService). *)
TeamsSafe == [][JoinsByGoodLink /\ TeamTypeOK']_teamVars
=============================================================================
