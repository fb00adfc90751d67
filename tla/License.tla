------------------------------- MODULE License -------------------------------
(***************************************************************************)
(* The licence of an installation: LicenseClientService asks the licence   *)
(* server at boot, on request and at every heartbeat, keeps the verified   *)
(* answer in the LicenseState row, and LicenseSoftlockGuard lets writes    *)
(* through or answers 423 from a decision it caches.  The server is        *)
(* external: it answers what it thinks at that moment, or not at all.      *)
(***************************************************************************)
EXTENDS Integers

CONSTANTS
  Validity,      \* how long the cache token of an answer is valid
  GraceWindow,   \* LICENSE_GRACE_WINDOW_MS
  GuardTtl,      \* STATE_CACHE_TTL_MS
  MinInterval,   \* ACTIVATE_MIN_INTERVAL_MS
  Envs,          \* the environments an operator starts the process with
  Activations,   \* bound: activations under way at a time
  Writers,       \* bound: write requests under way at a time
  MaxTime,       \* bound: the clock
  MaxLicenseMoves,  \* bound: times the server changes its mind or its key
  MaxBoots,      \* bound: starts of the process
  MaxTries,      \* bound: activations and heartbeats asked for
  MaxWrites      \* bound: write requests

ASSUME LicenseAssumption ==
  /\ Validity \in Nat /\ GraceWindow \in Nat /\ GuardTtl \in Nat \ {0} /\ MinInterval \in Nat
  /\ MaxTime \in Nat /\ MaxLicenseMoves \in Nat /\ MaxBoots \in Nat /\ MaxTries \in Nat
  /\ MaxWrites \in Nat
  /\ Envs \subseteq [key : BOOLEAN, identity : BOOLEAN, server : BOOLEAN]
  /\ "heartbeat" \notin Activations

VARIABLES
  clock,
  mind,        \* the server: the status it would answer
  signKey,     \* the server: the key it signs with
  moves,       \* the server: changes so far
  row,         \* LicenseState
  env,         \* LICENSE_KEY, LICENSE_ACCOUNT_IDENTITY, LICENSE_SERVER_URL
  phase,       \* "down", "booting" or "up"
  boots,       \* starts so far
  knownKey,    \* publicKeyCache
  failed,      \* lastActivationError is set
  triedAt,     \* lastActivateAttemptAt
  decision,    \* the guard's cache and cachedAt
  licOp,       \* an activation or heartbeat under way
  licTries,    \* activations and heartbeats asked for so far
  writer,      \* a write request
  writes,      \* write requests so far
  blockedSince,  \* history: when the row came to say blocked
  usableSince    \* history: when the derived status last became usable

licenseVars == <<clock, mind, signKey, moves, row, env, phase, boots, knownKey, failed, triedAt, decision,
                 licOp, licTries, writer, writes, blockedSince, usableSince>>

Statuses == {"active", "grace", "blocked"}

NotYet == 0 - 1

Times == {NotYet} \cup 0..MaxTime

NoRow == [status |-> "none", until |-> NotYet, checkedAt |-> NotYet]

LicOps == Activations \cup {"heartbeat"}

NoLicOp == [pc |-> "idle", boot |-> FALSE, status |-> "none", until |-> NotYet, key |-> NotYet, checkedAt |-> NotYet]

Asking(boot) == [pc |-> "asked", boot |-> boot, status |-> "none", until |-> NotYet, key |-> NotYet, checkedAt |-> NotYet]

NoDecision == [locked |-> FALSE, at |-> NotYet]

NoWriter == [pc |-> "idle", from |-> NotYet]

LicenseTypeOK ==
  /\ clock \in 0..MaxTime /\ mind \in Statuses /\ signKey \in 0..MaxLicenseMoves /\ moves \in 0..MaxLicenseMoves
  /\ row \in {NoRow} \cup [status : Statuses, until : 0..(MaxTime + Validity), checkedAt : 0..MaxTime]
  /\ env \in Envs /\ phase \in {"down", "booting", "up"} /\ boots \in 0..MaxBoots
  /\ knownKey \in {NotYet} \cup 0..MaxLicenseMoves /\ failed \in BOOLEAN /\ triedAt \in Times
  /\ decision \in [locked : BOOLEAN, at : Times]
  /\ licOp \in [LicOps -> [pc : {"idle", "asked", "answered", "verified"}, boot : BOOLEAN,
                           status : Statuses \cup {"none"}, until : {NotYet} \cup 0..(MaxTime + Validity),
                           key : {NotYet} \cup 0..MaxLicenseMoves, checkedAt : Times]]
  /\ writer \in [Writers -> [pc : {"idle", "deciding", "admitted", "refused"}, from : Times]]
  /\ writes \in 0..MaxWrites /\ licTries \in 0..MaxTries /\ blockedSince \in Times /\ usableSince \in Times

Configured(e) == e.key /\ e.identity

Inert(e) == ~e.server

(* Mutant: the stored verdict counts only while its cache is valid. *)
DeriveFailOpen(r, now) ==
  IF r = NoRow THEN "unlicensed"
  ELSE IF r.until > now THEN r.status
  ELSE IF now - r.checkedAt =< GraceWindow THEN "grace"
  ELSE "blocked"

(* deriveStatus: a blocked answer sticks; a valid cache is trusted; past it *)
(* the last contact keeps the installation usable for the grace window.     *)
DeriveStatus(r, now) ==
  IF r = NoRow THEN "unlicensed"
  ELSE IF r.status = "blocked" THEN "blocked"
  ELSE IF r.until > now THEN r.status
  ELSE IF now - r.checkedAt =< GraceWindow THEN "grace"
  ELSE "blocked"

Usable(r, now) == DeriveStatus(r, now) \in {"active", "grace"}

(* The two histories follow the row and the clock. *)
Watched ==
  /\ blockedSince' = IF row'.status # "blocked" THEN NotYet
                     ELSE IF row.status = "blocked" THEN blockedSince ELSE clock'
  /\ usableSince' = IF ~Usable(row', clock') THEN NotYet
                    ELSE IF Usable(row, clock) THEN usableSince ELSE clock'

LicenseInit ==
  /\ clock = 0 /\ mind \in {"active", "blocked"} /\ signKey = 0 /\ moves = 0
  /\ row = NoRow /\ env \in Envs /\ phase = "down" /\ boots = 0
  /\ knownKey = NotYet /\ failed = FALSE /\ triedAt = NotYet
  /\ decision = NoDecision
  /\ licOp = [o \in LicOps |-> NoLicOp]
  /\ writer = [w \in Writers |-> NoWriter] /\ writes = 0 /\ licTries = 0
  /\ blockedSince = NotYet /\ usableSince = NotYet

-----------------------------------------------------------------------------
(* The environment.                                                        *)

Tick ==
  /\ clock < MaxTime /\ clock' = clock + 1
  /\ UNCHANGED <<mind, signKey, moves, row, env, phase, boots, knownKey, failed, triedAt, decision, licOp, licTries, writer, writes>>
  /\ Watched

ServerDecides(s) ==
  /\ moves < MaxLicenseMoves /\ s # mind
  /\ mind' = s /\ moves' = moves + 1
  /\ UNCHANGED <<clock, signKey, row, env, phase, boots, knownKey, failed, triedAt, decision, licOp, licTries, writer, writes,
                 blockedSince, usableSince>>

ServerRotatesKey ==
  /\ moves < MaxLicenseMoves /\ moves' = moves + 1 /\ signKey' = signKey + 1
  /\ UNCHANGED <<clock, mind, row, env, phase, boots, knownKey, failed, triedAt, decision, licOp, licTries, writer, writes,
                 blockedSince, usableSince>>

(* The process stops; what it held in memory is gone. *)
Crash ==
  /\ phase # "down" /\ boots < MaxBoots
  /\ phase' = "down" /\ knownKey' = NotYet /\ failed' = FALSE /\ triedAt' = NotYet
  /\ decision' = NoDecision
  /\ licOp' = [o \in LicOps |-> NoLicOp]
  /\ writer' = [w \in Writers |-> NoWriter]
  /\ UNCHANGED <<clock, mind, signKey, moves, row, env, boots, licTries, writes, blockedSince, usableSince>>

(* bootstrap: one activation is attempted before the API listens. *)
Boot(e) ==
  /\ phase = "down" /\ boots < MaxBoots
  /\ boots' = boots + 1 /\ env' = e
  /\ IF Configured(e) /\ ~Inert(e)
     THEN /\ phase' = "booting"
          /\ \E o \in Activations : licOp' = [licOp EXCEPT ![o] = Asking(TRUE)]
     ELSE phase' = "up" /\ UNCHANGED licOp
  /\ UNCHANGED <<clock, mind, signKey, moves, row, knownKey, failed, triedAt, decision, licTries, writer, writes,
                 blockedSince, usableSince>>

-----------------------------------------------------------------------------
(* Activation and heartbeat.                                               *)

TooSoon == triedAt # NotYet /\ clock - triedAt < MinInterval

(* postActivate: with the key of the request or of the environment. *)
AskActivation(o) ==
  /\ phase = "up" /\ licOp[o] = NoLicOp /\ ~TooSoon /\ env.identity
  /\ licTries < MaxTries /\ licTries' = licTries + 1
  /\ triedAt' = clock
  /\ licOp' = [licOp EXCEPT ![o] = Asking(FALSE)]
  /\ UNCHANGED <<clock, mind, signKey, moves, row, env, phase, boots, knownKey, failed, decision, writer, writes,
                 blockedSince, usableSince>>

(* The repeated job, scheduled only where both variables are set; one runs *)
(* at a time, and it needs no LICENSE_SERVER_URL.                          *)
AskHeartbeat ==
  /\ phase # "down" /\ licOp["heartbeat"] = NoLicOp /\ Configured(env)
  /\ licTries < MaxTries /\ licTries' = licTries + 1
  /\ licOp' = [licOp EXCEPT !["heartbeat"] = Asking(FALSE)]
  /\ UNCHANGED <<clock, mind, signKey, moves, row, env, phase, boots, knownKey, failed, triedAt, decision, writer, writes,
                 blockedSince, usableSince>>

ServerAnswers(o) ==
  /\ licOp[o].pc = "asked"
  /\ licOp' = [licOp EXCEPT ![o] = [pc |-> "answered", boot |-> licOp[o].boot, status |-> mind, until |-> clock + Validity,
                                    key |-> signKey, checkedAt |-> NotYet]]
  /\ UNCHANGED <<clock, mind, signKey, moves, row, env, phase, boots, knownKey, failed, triedAt, decision, licTries, writer, writes,
                 blockedSince, usableSince>>

(* The key is fetched once; the token must be signed with it and unexpired. *)
TokenValid(o, key) == licOp[o].key = key /\ licOp[o].until >= clock

(* persistVerifiedResult up to the write: lastCheckedAt is taken here. *)
VerifyAnswer(o) ==
  LET key == IF knownKey = NotYet THEN signKey ELSE knownKey IN
  /\ licOp[o].pc = "answered" /\ TokenValid(o, key)
  /\ knownKey' = key
  /\ licOp' = [licOp EXCEPT ![o] = [pc |-> "verified", boot |-> licOp[o].boot, status |-> licOp[o].status,
                                    until |-> licOp[o].until, key |-> licOp[o].key, checkedAt |-> clock]]
  /\ UNCHANGED <<clock, mind, signKey, moves, row, env, phase, boots, failed, triedAt, decision, licTries, writer, writes,
                 blockedSince, usableSince>>

Listening(o) == IF licOp[o].boot THEN "up" ELSE phase

(* The upsert; an activation that gets here clears the recorded failure. *)
StoreAnswer(o) ==
  /\ licOp[o].pc = "verified"
  /\ row' = [status |-> licOp[o].status, until |-> licOp[o].until, checkedAt |-> licOp[o].checkedAt]
  /\ failed' = (failed /\ o = "heartbeat")
  /\ phase' = Listening(o)
  /\ licOp' = [licOp EXCEPT ![o] = NoLicOp]
  /\ UNCHANGED <<clock, mind, signKey, moves, env, boots, knownKey, triedAt, decision, licTries, writer, writes>>
  /\ Watched

KeyFetched(o) == knownKey # NotYet \/ licOp[o].pc # "answered"

(* No answer, a refusal, a key of another account, no public key, a token  *)
(* that does not verify or a failed write.  A heartbeat leaves the status  *)
(* alone; an activation records that it failed.                            *)
GiveUp(o) ==
  /\ licOp[o].pc # "idle"
  /\ knownKey' \in {knownKey} \cup (IF KeyFetched(o) THEN {} ELSE {signKey})
  /\ failed' = (failed \/ o # "heartbeat")
  /\ phase' = Listening(o)
  /\ licOp' = [licOp EXCEPT ![o] = NoLicOp]
  /\ UNCHANGED <<clock, mind, signKey, moves, row, env, boots, triedAt, decision, licTries, writer, writes,
                 blockedSince, usableSince>>

-----------------------------------------------------------------------------
(* The guard.                                                              *)

(* getLockState. *)
Locked == ~Inert(env) /\ ~Usable(row, clock)

Fresh == decision.at # NotYet /\ clock - decision.at < GuardTtl

AnswerWrite(w, locked, from) ==
  writer' = [writer EXCEPT ![w] = [pc |-> IF locked THEN "refused" ELSE "admitted", from |-> from]]

(* canActivate of a mutating request on a path that is not exempt. *)
WriteArrives(w) ==
  /\ phase = "up" /\ writer[w].pc # "deciding" /\ writes < MaxWrites /\ writes' = writes + 1
  /\ IF Fresh THEN AnswerWrite(w, decision.locked, clock)
     ELSE writer' = [writer EXCEPT ![w] = [pc |-> "deciding", from |-> clock]]
  /\ UNCHANGED <<clock, mind, signKey, moves, row, env, phase, boots, knownKey, failed, triedAt, decision, licOp, licTries,
                 blockedSince, usableSince>>

(* The lookup comes back: the cache is dated when the lookup began. *)
DecideWrite(w) ==
  /\ writer[w].pc = "deciding"
  /\ decision' = [locked |-> Locked, at |-> writer[w].from]
  /\ AnswerWrite(w, Locked, writer[w].from)
  /\ UNCHANGED <<clock, mind, signKey, moves, row, env, phase, boots, knownKey, failed, triedAt, licOp, licTries, writes,
                 blockedSince, usableSince>>

LicenseNext ==
  \/ Tick \/ (\E s \in Statuses : ServerDecides(s)) \/ ServerRotatesKey
  \/ Crash \/ (\E e \in Envs : Boot(e))
  \/ (\E o \in Activations : AskActivation(o)) \/ AskHeartbeat
  \/ \E o \in LicOps : ServerAnswers(o) \/ VerifyAnswer(o) \/ StoreAnswer(o) \/ GiveUp(o)
  \/ \E w \in Writers : WriteArrives(w) \/ DecideWrite(w)

LicenseSpec == LicenseInit /\ [][LicenseNext]_licenseVars

-----------------------------------------------------------------------------
(* A write that began GuardTtl or more after a verified answer blocked the *)
(* licence is refused, whatever cached decisions and overlapping lookups,  *)
(* activations and heartbeats there were (license-softlock.guard.ts).      *)
BlockedIsEnforced ==
  \A w \in Writers : writer[w].pc = "admitted" /\ ~Inert(env) /\ blockedSince # NotYet
    => writer[w].from < blockedSince + GuardTtl

(* The other way round: once the licence has been usable for GuardTtl,     *)
(* through renewals and the grace window, no write is refused.             *)
UsableIsHonoured ==
  \A w \in Writers : writer[w].pc = "refused" /\ usableSince # NotYet
    => writer[w].from < usableSince + GuardTtl

(* Both, whatever heartbeats, activations and cached decisions overlap      *)
(* (LicenseSoftlockGuard, LicenseClientService).                           *)
LicenseSafe == BlockedIsEnforced /\ UsableIsHonoured
=============================================================================
