-------------------------- MODULE TransactionalEmail --------------------------
(***************************************************************************)
(* Transactional email.  A request writes its row (an invitation, a token) *)
(* and then puts a sealed envelope on the queue; a worker opens it, hands  *)
(* it to SMTP and writes the outcome on the invitation, if that is still   *)
(* the version it was written for.  Nothing ties the three together: each  *)
(* can fail or stop alone, and the writes after the send are best effort.  *)
(* The reads and races of the invitation's own handlers are in Teams.      *)
(***************************************************************************)
EXTENDS BullJob, FiniteSets

CONSTANTS
  MailInvites,   \* WorkspaceInvite rows
  MailTokens,    \* AuthActionToken rows: resets, verifications, activations
  MaxVersions,   \* bound: times an invitation is sent (its expiresAt changes)
  MaxMailFaults  \* bound: refusals, lost answers, failed writes, stalls, restarts

ASSUME MailAssumption == MailInvites \cap MailTokens = {} /\ MaxVersions \in Nat /\ MaxMailFaults \in Nat

VARIABLES
  card,        \* WorkspaceInvite: status, and which expiresAt it has
  issued,      \* AuthActionToken rows created
  mailAsk,     \* the request that has yet to queue its mail
  mailJob,     \* the job of a delivery id
  mailDone,    \* completed jobs, kept for two weeks
  mailAt,      \* where the worker is with a mail
  secret,      \* the SMTP password the envelope key is derived from
  sealed,      \* the secret an envelope was sealed with
  accepted,    \* SMTP: times it accepted the mail
  mailFaults,  \* faults so far
  unsure,      \* history: accepted attempts whose outcome the worker did not keep
  unmarked     \* history: mails whose outcome could not be written on the row

mailVars == <<card, issued, mailAsk, mailJob, mailDone, mailAt, secret, sealed, accepted, mailFaults, unsure, unmarked>>

Mails == (MailInvites \X (1..MaxVersions)) \cup (MailTokens \X {1})

NoMailAsk == [pc |-> "idle"]

CardStatuses == {"none", "pending", "sent", "failed", "accepted", "revoked", "expired"}

MailTypeOK ==
  /\ card \in [MailInvites -> [status : CardStatuses, version : 0..MaxVersions]]
  /\ issued \subseteq MailTokens
  /\ mailAsk \in {NoMailAsk} \cup [pc : {"queue", "undelivered"}, m : Mails]
  /\ mailJob \in [Mails -> Jobs] /\ mailDone \subseteq Mails
  /\ mailAt \in [Mails -> {"idle", "open", "send", "sent", "over", "transient", "permanent", "spoiled", "lost"}]
  /\ secret \in {0, 1} /\ sealed \in [Mails -> {0, 1}]
  /\ accepted \in [Mails -> Nat] /\ mailFaults \in 0..MaxMailFaults
  /\ unsure \in [Mails -> Nat] /\ unmarked \subseteq Mails

MailInit ==
  /\ card = [i \in MailInvites |-> [status |-> "none", version |-> 0]] /\ issued = {}
  /\ mailAsk = NoMailAsk
  /\ mailJob = [m \in Mails |-> NoJob] /\ mailDone = {}
  /\ mailAt = [m \in Mails |-> "idle"]
  /\ secret = 0 /\ sealed = [m \in Mails |-> 0]
  /\ accepted = [m \in Mails |-> 0] /\ mailFaults = 0
  /\ unsure = [m \in Mails |-> 0] /\ unmarked = {}

MailFault == mailFaults < MaxMailFaults /\ mailFaults' = mailFaults + 1

-----------------------------------------------------------------------------
(* The requests.                                                           *)

(* createInvite or resendInvite: a new link and expiresAt, then the mail. *)
IssueInvite(i) ==
  /\ mailAsk = NoMailAsk /\ card[i].status # "accepted" /\ card[i].version < MaxVersions
  /\ card' = [card EXCEPT ![i] = [status |-> "pending", version |-> card[i].version + 1]]
  /\ mailAsk' = [pc |-> "queue", m |-> <<i, card[i].version + 1>>]
  /\ UNCHANGED <<issued, mailJob, mailDone, mailAt, secret, sealed, accepted, mailFaults, unsure, unmarked>>

(* createActionToken and the activations of operators and client owners. *)
IssueToken(t) ==
  /\ mailAsk = NoMailAsk /\ t \notin issued
  /\ issued' = issued \cup {t} /\ mailAsk' = [pc |-> "queue", m |-> <<t, 1>>]
  /\ UNCHANGED <<card, mailJob, mailDone, mailAt, secret, sealed, accepted, mailFaults, unsure, unmarked>>

Queueing(m) == mailAsk.pc = "queue" /\ mailAsk.m = m

(* enqueue: the delivery id of action and version is the job's id. *)
QueueMail(m) ==
  /\ mailJob' = [mailJob EXCEPT ![m] = IF m \in mailDone THEN @ ELSE Add(@)]
  /\ sealed' = [sealed EXCEPT ![m] = secret]

EnqueueMail(m) ==
  /\ Queueing(m) /\ QueueMail(m)
  /\ mailAsk' = NoMailAsk
  /\ UNCHANGED <<card, issued, mailDone, mailAt, secret, accepted, mailFaults, unsure, unmarked>>

(* The envelope is refused, the provider is disabled, or Redis fails, with *)
(* the job added or not: the caller sees an error.                         *)
EnqueueMailFails(m) ==
  /\ Queueing(m) /\ MailFault
  /\ QueueMail(m) \/ UNCHANGED <<mailJob, sealed>>
  /\ mailAsk' = [mailAsk EXCEPT !.pc = "undelivered"]
  /\ UNCHANGED <<card, issued, mailDone, mailAt, secret, accepted, unsure, unmarked>>

(* markInviteDeliveryFailed, by the link; for a token only an audit row. *)
MarkUndelivered ==
  /\ mailAsk.pc = "undelivered"
  /\ card' = [i \in MailInvites |-> IF mailAsk.m = <<i, card[i].version>> /\ card[i].status = "pending"
                                    THEN [card[i] EXCEPT !.status = "failed"] ELSE card[i]]
  /\ mailAsk' = NoMailAsk
  /\ UNCHANGED <<issued, mailJob, mailDone, mailAt, secret, sealed, accepted, mailFaults, unsure, unmarked>>

(* The process stops between the row and the queue. *)
RequestDies ==
  /\ mailAsk # NoMailAsk /\ MailFault
  /\ mailAsk' = NoMailAsk
  /\ UNCHANGED <<card, issued, mailJob, mailDone, mailAt, secret, sealed, accepted, unsure, unmarked>>

(* The invitation is accepted, revoked or found expired. *)
CardCloses(i, s) ==
  /\ card[i].status \in {"pending", "sent", "failed"}
  /\ card' = [card EXCEPT ![i].status = s]
  /\ UNCHANGED <<issued, mailAsk, mailJob, mailDone, mailAt, secret, sealed, accepted, mailFaults, unsure, unmarked>>

(* A restart with another SMTP_PASSWORD. *)
RotateSecret ==
  /\ secret = 0 /\ MailFault /\ \A m \in Mails : mailAt[m] = "idle"
  /\ secret' = 1
  /\ UNCHANGED <<card, issued, mailAsk, mailJob, mailDone, mailAt, sealed, accepted, unsure, unmarked>>

-----------------------------------------------------------------------------
(* The worker, one mail at a time.                                         *)

MailGoes(m, pc) == mailAt' = [mailAt EXCEPT ![m] = pc]

TakeMail(m) ==
  /\ mailJob[m].state = "waiting" /\ \A n \in Mails : mailAt[n] = "idle"
  /\ mailJob' = [mailJob EXCEPT ![m] = Take(@)] /\ MailGoes(m, "open")
  /\ UNCHANGED <<card, issued, mailAsk, mailDone, secret, sealed, accepted, mailFaults, unsure, unmarked>>

(* An envelope sealed with another secret is a permanent failure, and its  *)
(* metadata is not trusted: the row is left alone.                         *)
OpenEnvelope(m) ==
  /\ mailAt[m] = "open" /\ MailGoes(m, IF sealed[m] = secret THEN "send" ELSE "spoiled")
  /\ unmarked' = IF sealed[m] = secret THEN unmarked ELSE unmarked \cup {m}
  /\ UNCHANGED <<card, issued, mailAsk, mailJob, mailDone, secret, sealed, accepted, mailFaults, unsure>>

MailAccepted(m) ==
  /\ mailAt[m] = "send" /\ MailGoes(m, "sent")
  /\ accepted' = [accepted EXCEPT ![m] = @ + 1]
  /\ UNCHANGED <<card, issued, mailAsk, mailJob, mailDone, secret, sealed, mailFaults, unsure, unmarked>>

(* classifyEmailDeliveryError: 5xx, bad credentials or a rejected recipient *)
(* are permanent, everything else is tried again.                           *)
MailRefused(m, kind) ==
  /\ mailAt[m] = "send" /\ MailFault /\ MailGoes(m, kind)
  /\ UNCHANGED <<card, issued, mailAsk, mailJob, mailDone, secret, sealed, accepted, unsure, unmarked>>

(* Accepted, but the connection broke before the answer. *)
AnswerLost(m) ==
  /\ mailAt[m] = "send" /\ MailFault /\ MailGoes(m, "transient")
  /\ accepted' = [accepted EXCEPT ![m] = @ + 1] /\ unsure' = [unsure EXCEPT ![m] = @ + 1]
  /\ UNCHANGED <<card, issued, mailAsk, mailJob, mailDone, secret, sealed, unmarked>>

(* Mutant: any version of the invitation is marked. *)
MatchesAny(m, i) == m[1] = i

(* EmailActionStatusService.record: by id and expiresAt. *)
Matches(m, i) == m = <<i, card[i].version>>

MarkCard(m, s) ==
  card' = [i \in MailInvites |-> IF Matches(m, i) /\ card[i].status \in {"pending", "sent", "failed"}
                                 THEN [card[i] EXCEPT !.status = s] ELSE card[i]]

(* Mutant: the last attempt is taken for one that will be repeated. *)
WillRetryLate(m) == mailAt[m] = "transient" /\ mailJob[m].attempts + 1 =< MaxAttempts

WillRetry(m) == mailAt[m] = "transient" /\ mailJob[m].attempts + 1 < MaxAttempts

(* safeRecordActionStatus after the send or the last failure. *)
RecordOutcome(m) ==
  /\ \/ mailAt[m] = "sent" /\ MarkCard(m, "sent") /\ MailGoes(m, "over")
     \/ mailAt[m] \in {"transient", "permanent"} /\ ~WillRetry(m) /\ MarkCard(m, "failed") /\ MailGoes(m, "lost")
  /\ UNCHANGED <<issued, mailAsk, mailJob, mailDone, secret, sealed, accepted, mailFaults, unsure, unmarked>>

(* The write fails: logged, and the job goes on. *)
OutcomeUnwritten(m) ==
  /\ MailFault
  /\ \/ mailAt[m] = "sent" /\ MailGoes(m, "over")
     \/ mailAt[m] \in {"transient", "permanent"} /\ ~WillRetry(m) /\ MailGoes(m, "lost")
  /\ unmarked' = unmarked \cup {m}
  /\ UNCHANGED <<card, issued, mailAsk, mailJob, mailDone, secret, sealed, accepted, unsure>>

(* The job completes; an audit row that cannot be written changes nothing. *)
CompleteMail(m) ==
  /\ mailAt[m] = "over" /\ MailGoes(m, "idle")
  /\ mailJob' = [mailJob EXCEPT ![m] = NoJob] /\ mailDone' = mailDone \cup {m}
  /\ UNCHANGED <<card, issued, mailAsk, secret, sealed, accepted, mailFaults, unsure, unmarked>>

(* The processor throws: again after the backoff, or never again. *)
FailMail(m) ==
  /\ mailAt[m] \in {"spoiled", "lost"} \/ WillRetry(m)
  /\ MailGoes(m, "idle")
  /\ mailJob' = [mailJob EXCEPT ![m] = IF WillRetry(m) THEN Fail(@) ELSE [@ EXCEPT !.state = "failed"]]
  /\ UNCHANGED <<card, issued, mailAsk, mailDone, secret, sealed, accepted, mailFaults, unsure, unmarked>>

MailBackoff(m) ==
  /\ mailJob[m].state = "delayed"
  /\ mailJob' = [mailJob EXCEPT ![m] = Promote(@)]
  /\ UNCHANGED <<card, issued, mailAsk, mailDone, mailAt, secret, sealed, accepted, mailFaults, unsure, unmarked>>

(* The worker dies with the mail in hand; the queue finds the job stalled. *)
MailStalls(m) ==
  /\ mailAt[m] # "idle" /\ MailFault /\ MailGoes(m, "idle")
  /\ mailJob' = [mailJob EXCEPT ![m] = Stall(@)]
  /\ unsure' = IF mailAt[m] \in {"sent", "over"} THEN [unsure EXCEPT ![m] = @ + 1] ELSE unsure
  /\ unmarked' = IF mailJob[m].stalls < MaxStalled THEN unmarked ELSE unmarked \cup {m}
  /\ UNCHANGED <<card, issued, mailAsk, mailDone, secret, sealed, accepted>>

MailStep(m) ==
  \/ OpenEnvelope(m) \/ MailAccepted(m) \/ RecordOutcome(m) \/ CompleteMail(m) \/ FailMail(m)

MailNext ==
  \/ (\E i \in MailInvites : IssueInvite(i) \/ \E s \in {"accepted", "revoked", "expired"} : CardCloses(i, s))
  \/ (\E t \in MailTokens : IssueToken(t)) \/ MarkUndelivered \/ RequestDies \/ RotateSecret
  \/ \E m \in Mails :
       \/ EnqueueMail(m) \/ EnqueueMailFails(m) \/ TakeMail(m) \/ MailStep(m) \/ MailBackoff(m)
       \/ (\E kind \in {"transient", "permanent"} : MailRefused(m, kind))
       \/ AnswerLost(m) \/ OutcomeUnwritten(m) \/ MailStalls(m)

MailSpec == MailInit /\ [][MailNext]_mailVars

(* The worker goes on and takes waiting jobs; backoffs elapse. *)
MailFairness ==
  \A m \in Mails : WF_mailVars(MailStep(m)) /\ WF_mailVars(TakeMail(m)) /\ WF_mailVars(MailBackoff(m))

-----------------------------------------------------------------------------
(* An attempt that is known to be accepted is not repeated: only answers   *)
(* that were lost and workers that died can make a second copy, however    *)
(* the writes after the send fail (email.processor.ts).                    *)
NoNeedlessCopy == \A m \in Mails : accepted[m] =< 1 + unsure[m]

(* An invitation says "sent" only if SMTP accepted the mail with its       *)
(* current link, whatever earlier mails are still on their way             *)
(* (email-action-status.service.ts).                                       *)
SentIsTrue ==
  \A i \in MailInvites : card[i].status = "sent" => accepted[<<i, card[i].version>>] > 0

(* Both, and the types, whatever fails between the request, the queue,     *)
(* SMTP and the row.                                                       *)
MailSafe == MailTypeOK /\ NoNeedlessCopy /\ SentIsTrue

(* A queued mail comes to an end, and the invitation it was queued for     *)
(* does not stay pending, unless its outcome could not be written.         *)
MailSettles ==
  \A m \in Mails : Live(mailJob[m]) ~>
    /\ ~Live(mailJob[m])
    /\ \A i \in MailInvites : m = <<i, card[i].version>> => card[i].status # "pending" \/ m \in unmarked
=============================================================================
