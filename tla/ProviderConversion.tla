------------------------- MODULE ProviderConversion -------------------------
(***************************************************************************)
(* From a decision about a provider message or callback to the conversion  *)
(* event of it: observation freezes a decision and records an execution or *)
(* a purchase review; operators edit, approve and reject reviews; workers  *)
(* of the production queue, and the handler of an approval, materialize an *)
(* execution into one conversion event per business scope.  All executions *)
(* of the model belong to one scope (workspace, lead, event name), which   *)
(* is what the advisory lock and the duplicate check are about.            *)
(*                                                                         *)
(* An action is one query, one command or one transaction whose reads and  *)
(* writes nobody can come between.  A transaction that reads first and     *)
(* writes by id later (READ COMMITTED) is two actions.                     *)
(***************************************************************************)
EXTENDS BullJob, Sequences

CONSTANTS
  Execs,          \* occurrences of a rule: one execution, one review each
  NoExec,         \* what an idle process works on
  Near,           \* pairs of occurrences inside the dedupe window
  Legacy,         \* executions recorded before decisions were
  Repeated,       \* occurrences that may be observed again: redelivered, reprocessed
  Workers,        \* workers of the queue "inbound-webhook-production"
  Observers,      \* observations and manual reprocessing in progress
  Maintainers,    \* loops that recover eligible executions
  Operators,      \* handlers of the purchase reviews
  FirstOutcomes,  \* outcomes of the decision engine
  Dispositions,   \* what the settings of rule and channel make of "eligible"
  MaxFaults,      \* bound: failed queries and commands, crashes
  MaxRequests     \* bound: observations and operator requests

Outcomes == {"eligible", "review", "ignored"}

Chosen == {"eligible", "observed", "blocked"}

ASSUME ConversionAssumption ==
  /\ NoExec \notin Execs /\ Legacy \subseteq Execs /\ Repeated \subseteq Execs
  /\ Near \subseteq {{e, f} : e, f \in Execs}
  /\ Workers \cap (Observers \cup Maintainers \cup Operators) = {}
  /\ Observers \cap (Maintainers \cup Operators) = {} /\ Maintainers \cap Operators = {}
  /\ FirstOutcomes \subseteq Outcomes
  /\ Dispositions \subseteq Chosen
  /\ MaxFaults \in Nat /\ MaxRequests \in Nat

VARIABLES
  decs,     \* frozen decisions of an occurrence, oldest first
  exec,     \* ProviderConversionRuleExecution
  review,   \* PurchaseReview
  log,      \* conversion event of the execution, by its dedupeKey
  sending,  \* the event has a job in the queue of sends
  job,      \* jobs of the execution: one of a fixed id, one of a manual attempt
  lock,     \* holders of the advisory locks
  proc,     \* the processes
  used      \* what was used of each bound

vars == <<decs, exec, review, log, sending, job, lock, proc, used>>

Procs == Workers \cup Observers \cup Maintainers \cup Operators

Slots == {"base", "manual"}

(* materializeFrozenDecision names its lock after the scope key of the     *)
(* decision, materialize and materializeAutomation after the phone hash.   *)
LockKeys == {"scope", "phone"}

ExecStatuses == {"absent", "observed", "eligible", "blocked", "failed", "materialized", "duplicate"}

Techs == {"none", "queued", "sent", "blocked_configuration", "failed_retryable", "failed_permanent"}

ReviewStatuses == {"none", "review_required", "recognized", "approved", "sent", "failed",
                   "duplicate", "rejected", "corrected_after_send"}

Decisions == [outcome : Outcomes,
              key : Nat]             \* 0: initial; else the review version of an approval

ExecRecs == [status : ExecStatuses,
             decision : Nat,         \* version of its decision, 0 for none
             tech : Techs]           \* normalizedResult.technicalDelivery

ReviewRecs == [status : ReviewStatuses, version : Nat, decision : Nat,
               linked : BOOLEAN,     \* providerExecutionId is set
               event : BOOLEAN]      \* conversionEventLogId is set

PCs == {"idle", "load", "start", "lock", "check", "duplicate", "record", "send", "resend",
        "fail", "failReview", "done", "read", "upsert", "enqueue", "findReview", "upsertReview",
        "latest", "append", "approve", "approveLegacy", "reject", "edit", "correct"}

Results == {"none", "eligible", "observed", "blocked", "ok",
            "retryable", "permanent", "configuration"}

(* A process that has read no review. *)
Begin(pc, e, slot, d, res) ==
  [pc |-> pc, e |-> e, slot |-> slot, d |-> d, v |-> 0, linked |-> FALSE, res |-> res]

Idle == Begin("idle", NoExec, "base", 0, "none")

(* A process that decides on an execution has its disposition in hand. *)
ProcRecs ==
  {Idle} \cup
  {r \in [pc : PCs \ {"idle"}, e : Execs, slot : Slots,
          d : Nat,          \* decision in hand
          v : Nat,          \* version of the review that was read
          linked : BOOLEAN, \* the review was linked when it was read
          res : Results] :  \* disposition, or result so far
     r.pc \in {"latest", "append", "read", "upsert"} => r.res \in Chosen}

TypeOK ==
  /\ decs \in [Execs -> Seq(Decisions)]
  /\ exec \in [Execs -> ExecRecs]
  /\ review \in [Execs -> ReviewRecs]
  /\ log \in [Execs -> {"none", "ready", "sent", "error"}]
  /\ sending \in [Execs -> BOOLEAN]
  /\ job \in [Execs \X Slots -> Jobs]
  /\ lock \in [LockKeys -> SUBSET Procs]
  /\ proc \in [Procs -> ProcRecs]
  /\ used \in [faults : 0..MaxFaults, requests : 0..MaxRequests]

NoReview == [status |-> "none", version |-> 0, decision |-> 0, linked |-> FALSE, event |-> FALSE]

(* A legacy execution has its review from the start. *)
Init ==
  /\ decs = [e \in Execs |-> <<>>]
  /\ exec \in [Execs -> {[status |-> s, decision |-> 0, tech |-> "none"] : s \in {"absent", "observed", "eligible"}}]
  /\ \A e \in Execs : (exec[e].status = "absent") = (e \notin Legacy)
  /\ review = [e \in Execs |->
       IF e \in Legacy THEN [NoReview EXCEPT !.status = "recognized", !.version = 1, !.linked = TRUE]
                       ELSE NoReview]
  /\ log = [e \in Execs |-> "none"]
  /\ sending = [e \in Execs |-> FALSE]
  /\ job = [j \in Execs \X Slots |-> NoJob]
  /\ lock = [k \in LockKeys |-> {}]
  /\ proc = [p \in Procs |-> Idle]
  /\ used = [faults |-> 0, requests |-> 0]

Fault ==
  /\ used.faults < MaxFaults
  /\ used' = [used EXCEPT !.faults = @ + 1]

Request ==
  /\ used.requests < MaxRequests
  /\ used' = [used EXCEPT !.requests = @ + 1]

On(p) == proc[p].e

Goto(p, pc) == proc' = [proc EXCEPT ![p].pc = pc]

Result(p, pc, res) == proc' = [proc EXCEPT ![p].pc = pc, ![p].res = res]

Decide(p, pc, d) == proc' = [proc EXCEPT ![p].pc = pc, ![p].d = d]

Stop(p) == proc' = [proc EXCEPT ![p] = Idle]

WriteExec(e, s, d, tech) ==
  exec' = [exec EXCEPT ![e] = [status |-> s, decision |-> d, tech |-> tech]]

ExecBecomes(e, s, tech) == WriteExec(e, s, exec[e].decision, tech)

(* Every write of a review increments its version. *)
WriteReview(e, s, d, linked, event) ==
  review' = [review EXCEPT ![e] = [status |-> s, version |-> review[e].version + 1, decision |-> d,
                                   linked |-> linked, event |-> event]]

ReviewBecomes(e, s) == WriteReview(e, s, review[e].decision, review[e].linked, review[e].event)

IsNear(e, f) == e # f /\ {e, f} \in Near

-----------------------------------------------------------------------------
(* Observation: ProviderConversionObservationService and the orchestrator. *)

Reusable == {"absent", "observed", "blocked"}

(* resolveDecision: the latest decision of the occurrence is reused, the   *)
(* first one is recorded.                                                  *)
Resolved(e, first) == IF decs[e] = <<>> THEN <<[outcome |-> first, key |-> 0]>> ELSE decs[e]

(* What the engine decides about a message is frozen, then orchestrated.   *)
(* Manual reprocessing looks at the execution first and comes here when    *)
(* there is nothing to queue or to refuse.                                 *)
Observe(o, e, slot) ==
  /\ proc[o].pc = "idle"
  /\ Request
  /\ (decs[e] = <<>> /\ e \notin Legacy) \/ e \in Repeated
  /\ slot = "manual" => exec[e].status \in Reusable \/ (exec[e].status = "failed" /\ exec[e].decision = 0)
  /\ \E first \in FirstOutcomes, disposition \in Dispositions :
       LET known == Resolved(e, first)
           d == Len(known) IN
       /\ decs' = [decs EXCEPT ![e] = known]
       /\ proc' = [proc EXCEPT ![o] =
            CASE known[d].outcome = "eligible" -> Begin("read", e, slot, d, disposition)
              [] known[d].outcome = "review" -> Begin("findReview", e, "base", d, "none")
              [] OTHER -> Idle]
  /\ UNCHANGED <<exec, review, log, sending, job, lock>>

(* persistReview: a review that was decided is kept. *)
Preserved == {"approved", "sent", "duplicate", "rejected", "corrected_after_send"}

FindReview(o) ==
  /\ proc[o].pc = "findReview"
  /\ IF review[On(o)].status \in Preserved THEN Stop(o) ELSE Goto(o, "upsertReview")
  /\ UNCHANGED <<decs, exec, review, log, sending, job, lock, used>>

UpsertReview(o) ==
  LET e == On(o) IN
  /\ proc[o].pc = "upsertReview"
  /\ WriteReview(e, "review_required", proc[o].d, review[e].linked, review[e].event)
  /\ Stop(o)
  /\ UNCHANGED <<decs, exec, log, sending, job, lock, used>>

(* Where an observation or an approval goes on with an execution of status s. *)
Orchestrated(p, s) ==
  CASE p \in Operators /\ s = "eligible" -> Goto(p, "approve")
    [] p \notin Operators /\ s = "eligible" -> Goto(p, "enqueue")
    [] OTHER -> Stop(p)

(* persistExecution: a terminal execution and one that is already so stay. *)
ReadExecution(p) ==
  LET e == On(p) IN
  /\ proc[p].pc = "read"
  /\ IF \/ exec[e].status \in {"materialized", "duplicate"}
        \/ exec[e].decision = proc[p].d /\ exec[e].status = proc[p].res
       THEN Orchestrated(p, exec[e].status)
       ELSE Goto(p, "upsert")
  /\ UNCHANGED <<decs, exec, review, log, sending, job, lock, used>>

(* The upsert replaces status, decision and normalizedResult. *)
UpsertExecution(p) ==
  LET e == On(p) IN
  /\ proc[p].pc = "upsert"
  /\ WriteExec(e, proc[p].res, proc[p].d, "none")
  /\ Orchestrated(p, proc[p].res)
  /\ UNCHANGED <<decs, review, log, sending, job, lock, used>>

(* Manual reprocessing of an execution that only has to be queued. *)
Reprocess(o, e) ==
  /\ proc[o].pc = "idle"
  /\ \/ exec[e].status = "eligible"
     \/ exec[e].status = "failed" /\ exec[e].decision # 0 /\ exec[e].tech = "failed_retryable"
  /\ Request
  /\ proc' = [proc EXCEPT ![o] = Begin("enqueue", e, "manual", 0, "none")]
  /\ UNCHANGED <<decs, exec, review, log, sending, job, lock>>

(* Mutant of RecoverEligible: only executions without a decision. *)
RecoverEligibleLegacy(m, e) ==
  /\ proc[m].pc = "idle"
  /\ exec[e].status = "eligible" /\ exec[e].decision = 0
  /\ proc' = [proc EXCEPT ![m] = Begin("enqueue", e, "base", 0, "none")]
  /\ UNCHANGED <<decs, exec, review, log, sending, job, lock, used>>

(* recoverProviderConversions. *)
RecoverEligible(m, e) ==
  /\ proc[m].pc = "idle"
  /\ exec[e].status = "eligible"
  /\ proc' = [proc EXCEPT ![m] = Begin("enqueue", e, "base", 0, "none")]
  /\ UNCHANGED <<decs, exec, review, log, sending, job, lock, used>>

(* enqueueProviderConversion: a finished job is replaced, any other kept.  *)
(* Every manual attempt has an id of its own.                              *)
EnqueueConversion(p) ==
  LET j == <<On(p), proc[p].slot>> IN
  /\ proc[p].pc = "enqueue"
  /\ job' = [job EXCEPT ![j] = IF Live(@) THEN @ ELSE Add(NoJob)]
  /\ Stop(p)
  /\ UNCHANGED <<decs, exec, review, log, sending, lock, used>>

-----------------------------------------------------------------------------
(* Production: processExecution, in a worker or in an approval's handler.  *)

TakeJob(w, e, slot) ==
  /\ proc[w].pc = "idle" /\ job[<<e, slot>>].state = "waiting"
  /\ job' = [job EXCEPT ![<<e, slot>>] = Take(@)]
  /\ proc' = [proc EXCEPT ![w] = Begin("load", e, slot, 0, "none")]
  /\ UNCHANGED <<decs, exec, review, log, sending, lock, used>>

(* Mutant of LoadExecution: a materialized execution is left alone. *)
LoadExecutionOnce(p) ==
  LET e == On(p)
      open == exec[e].status \in {"eligible", "failed"} IN
  /\ proc[p].pc = "load"
  /\ proc' = [proc EXCEPT ![p] =
       [@ EXCEPT !.pc = IF open THEN "start" ELSE "done", !.res = IF open THEN "none" ELSE "ok",
                 !.d = exec[e].decision, !.linked = review[e].linked]]
  /\ UNCHANGED <<decs, exec, review, log, sending, job, lock, used>>

(* A permanent failure of a frozen decision is not tried again. *)
LoadExecution(p) ==
  LET e == On(p)
      open == \/ exec[e].status = "eligible"
              \/ exec[e].status = "failed" /\ (exec[e].decision = 0 \/ exec[e].tech = "failed_retryable")
      next == CASE exec[e].status = "materialized" -> "resend"
                [] open -> "start"
                [] OTHER -> "done" IN
  /\ proc[p].pc = "load"
  /\ proc' = [proc EXCEPT ![p] =
       [pc |-> next, e |-> e, slot |-> proc[p].slot, d |-> exec[e].decision, v |-> proc[p].v,
        linked |-> review[e].linked, res |-> IF next = "done" THEN "ok" ELSE "none"]]
  /\ UNCHANGED <<decs, exec, review, log, sending, job, lock, used>>

(* enqueueMaterialized: the event is queued again while it is not sent. *)
Resend(p) ==
  LET e == On(p) IN
  /\ proc[p].pc = "resend"
  /\ sending' = [sending EXCEPT ![e] = @ \/ log[e] = "ready"]
  /\ Result(p, "done", "ok")
  /\ UNCHANGED <<decs, exec, review, log, job, lock, used>>

(* The attempt is counted, whatever the execution is by now. *)
StartAttempt(p) ==
  LET e == On(p) IN
  /\ proc[p].pc = "start"
  /\ IF proc[p].d # 0 THEN ExecBecomes(e, exec[e].status, "queued") ELSE UNCHANGED exec
  /\ Goto(p, "lock")
  /\ UNCHANGED <<decs, review, log, sending, job, lock, used>>

(* Before the transaction, materialize decides whether the event may be    *)
(* made; each check that fails throws, with the class failureDisposition   *)
(* gives its code.  The rule, the connection or the channel is not in      *)
(* production, or the delivery is older than that.                         *)
RefuseContext(p) == Result(p, "fail", "configuration")

(* Without a frozen decision the payload is decrypted and parsed again: it *)
(* has expired, or holds no event of this occurrence.                      *)
RefuseSource(p) == proc[p].d = 0 /\ Result(p, "fail", "permanent")

(* The message no longer gives the purchase that was observed, or the      *)
(* approved review has no complete items; no paid lead is known.           *)
RefusePurchase(p) == proc[p].d = 0 /\ Result(p, "fail", "permanent")

(* The frozen decision is not the one of this execution. *)
RefuseFrozen(p) == proc[p].d # 0 /\ Result(p, "fail", "permanent")

(* The event requires a value, and the frozen decision has none. *)
RefuseValue(p) == proc[p].d # 0 /\ Result(p, "fail", "permanent")

(* The ad leads to no destination. *)
RefuseRoute(p) == Result(p, "fail", "configuration")

Refuse(p) ==
  /\ proc[p].pc = "lock"
  /\ \/ RefuseContext(p) \/ RefuseSource(p) \/ RefusePurchase(p)
     \/ RefuseFrozen(p) \/ RefuseValue(p) \/ RefuseRoute(p)
  /\ UNCHANGED <<decs, exec, review, log, sending, job, lock, used>>

LockOf(p) == IF proc[p].d = 0 THEN "phone" ELSE "scope"

(* Mutant of LockScope: nobody waits for the lock. *)
LockScopeShared(p) ==
  /\ proc[p].pc = "lock"
  /\ lock' = [lock EXCEPT ![LockOf(p)] = @ \cup {p}]
  /\ Goto(p, "check")
  /\ UNCHANGED <<decs, exec, review, log, sending, job, used>>

(* pg_advisory_xact_lock. *)
LockScope(p) ==
  /\ proc[p].pc = "lock"
  /\ lock[LockOf(p)] = {}
  /\ lock' = [lock EXCEPT ![LockOf(p)] = {p}]
  /\ Goto(p, "check")
  /\ UNCHANGED <<decs, exec, review, log, sending, job, used>>

(* The end of the transaction releases the lock. *)
Unlock(p) == lock' = [k \in LockKeys |-> lock[k] \ {p}]

(* Mutant of HasDuplicate: an execution that is still to be materialized counts. *)
HasDuplicateEager(e) == \E f \in Execs : IsNear(e, f) /\ exec[f].status \in {"eligible", "materialized"}

HasDuplicate(e) == \E f \in Execs : IsNear(e, f) /\ exec[f].status = "materialized"

(* The status is read again under the lock, then the other executions of   *)
(* the scope.                                                              *)
CheckExecution(p) ==
  LET e == On(p)
      s == exec[e].status IN
  /\ proc[p].pc = "check"
  /\ CASE s \in {"materialized", "duplicate"} -> Result(p, "done", "ok") /\ Unlock(p)
       [] s \in {"eligible", "failed"} ->
            Goto(p, IF HasDuplicate(e) THEN "duplicate" ELSE "record") /\ UNCHANGED lock
       [] OTHER -> Result(p, "fail", "permanent") /\ Unlock(p)
  /\ UNCHANGED <<decs, exec, review, log, sending, job, used>>

(* The writes of the transaction name the ids only. *)
CommitDuplicate(p) ==
  LET e == On(p) IN
  /\ proc[p].pc = "duplicate"
  /\ ExecBecomes(e, "duplicate", IF proc[p].d # 0 THEN "sent" ELSE exec[e].tech)
  /\ IF proc[p].linked THEN ReviewBecomes(e, "duplicate") ELSE UNCHANGED review
  /\ Result(p, "done", "ok")
  /\ Unlock(p)
  /\ UNCHANGED <<decs, log, sending, job, used>>

(* recordExternalConversion finds the event of an earlier run or creates   *)
(* it.                                                                     *)
RecordedAs(e) == IF log[e] = "none" THEN "ready" ELSE log[e]

(* Execution and review follow in the same transaction. *)
CommitEvent(p) ==
  LET e == On(p)
      event == RecordedAs(e) IN
  /\ proc[p].pc = "record"
  /\ log' = [log EXCEPT ![e] = event]
  /\ ExecBecomes(e, "materialized", CASE proc[p].d = 0 -> exec[e].tech
                                       [] proc[p].d # 0 /\ event = "ready" -> "queued"
                                       [] OTHER -> "sent")
  /\ IF proc[p].linked
       THEN WriteReview(e, "approved", review[e].decision, review[e].linked, TRUE)
       ELSE UNCHANGED review
  /\ IF event = "ready" THEN Goto(p, "send") ELSE Result(p, "done", "ok")
  /\ Unlock(p)
  /\ UNCHANGED <<decs, sending, job, used>>

EnqueueSend(p) ==
  /\ proc[p].pc = "send"
  /\ sending' = [sending EXCEPT ![On(p)] = TRUE]
  /\ Result(p, "done", "ok")
  /\ UNCHANGED <<decs, exec, review, log, job, lock, used>>

(* Mutant of FailedTech: the class of the error is stored as it is. *)
FailedTechRaw(res) == res

(* failureDisposition. *)
FailedTech(res) ==
  CASE res = "configuration" -> "blocked_configuration"
    [] res = "retryable" -> "failed_retryable"
    [] OTHER -> "failed_permanent"

(* Mutant of FailExecution: whatever the execution is by now. *)
FailExecutionBlind(p) ==
  LET e == On(p) IN
  /\ proc[p].pc = "fail"
  /\ ExecBecomes(e, "failed", FailedTech(proc[p].res))
  /\ Goto(p, "failReview")
  /\ UNCHANGED <<decs, review, log, sending, job, lock, used>>

(* The catch block: an execution that is still open, then its review. *)
FailExecution(p) ==
  LET e == On(p)
      res == proc[p].res IN
  /\ proc[p].pc = "fail"
  /\ IF exec[e].status \in {"eligible", "failed"}
       THEN ExecBecomes(e, IF res = "configuration" THEN "blocked" ELSE "failed", FailedTech(res))
       ELSE UNCHANGED exec
  /\ Goto(p, "failReview")
  /\ UNCHANGED <<decs, review, log, sending, job, lock, used>>

FailReview(p) ==
  LET e == On(p) IN
  /\ proc[p].pc = "failReview"
  /\ IF review[e].linked /\ review[e].status \in {"recognized", "approved", "failed"}
       THEN ReviewBecomes(e, "failed") ELSE UNCHANGED review
  /\ Goto(p, "done")
  /\ UNCHANGED <<decs, exec, log, sending, job, lock, used>>

(* The processor: an error that is not retryable is an UnrecoverableError. *)
FinishProcess(p) ==
  LET j == <<On(p), proc[p].slot>> IN
  /\ proc[p].pc = "done"
  /\ job' = IF p \notin Workers THEN job
            ELSE [job EXCEPT ![j] = CASE proc[p].res = "ok" -> NoJob
                                      [] proc[p].res = "retryable" -> Fail(@)
                                      [] OTHER -> [@ EXCEPT !.state = "failed"]]
  /\ Stop(p)
  /\ UNCHANGED <<decs, exec, review, log, sending, lock, used>>

(* The steps of the transaction, which has the same shape in all three     *)
(* ways to materialize.                                                    *)
InTransaction == {"check", "duplicate", "record"}

(* A query or command fails: a transaction rolls back, the catch block     *)
(* takes an error of materialize or of enqueueSend, the job takes others.  *)
ProcessThrows(p) ==
  /\ proc[p].pc \in {"load", "start", "lock", "send", "resend", "fail", "failReview"} \cup InTransaction
  /\ Fault
  /\ Result(p, IF proc[p].pc \in {"lock", "send"} \cup InTransaction THEN "fail" ELSE "done", "retryable")
  /\ Unlock(p)
  /\ UNCHANGED <<decs, exec, review, log, sending, job>>

(* A process dies, or an observation or a request ends with an error.  The *)
(* job of a worker stays active.                                           *)
ProcessDies(p) ==
  /\ proc[p].pc # "idle"
  /\ Fault
  /\ Stop(p)
  /\ Unlock(p)
  /\ UNCHANGED <<decs, exec, review, log, sending, job>>

BackoffElapses(j) ==
  /\ job[j].state = "delayed"
  /\ job' = [job EXCEPT ![j] = Promote(@)]
  /\ UNCHANGED <<decs, exec, review, log, sending, lock, proc, used>>

DetectStalled(j) ==
  /\ job[j].state = "active"
  /\ \A w \in Workers : <<On(w), proc[w].slot>> # j
  /\ job' = [job EXCEPT ![j] = Stall(@)]
  /\ UNCHANGED <<decs, exec, review, log, sending, lock, proc, used>>

(* sendReadyEvent with its mirrors, the subject of ConversionDelivery.     *)
(* "error" stands for every status of an event that was not sent.          *)
Deliver(e) ==
  /\ sending[e]
  /\ sending' = [sending EXCEPT ![e] = FALSE]
  /\ IF log[e] # "ready" THEN UNCHANGED <<log, exec, review>>
     ELSE \E tech \in {"sent", "failed_retryable", "failed_permanent", "blocked_configuration"} :
       /\ log' = [log EXCEPT ![e] = IF tech = "sent" THEN "sent" ELSE "error"]
       /\ ExecBecomes(e, exec[e].status, tech)
       /\ IF review[e].event /\ review[e].status \in {"approved", "failed"}
            THEN ReviewBecomes(e, IF tech = "sent" THEN "sent" ELSE "failed")
            ELSE UNCHANGED review
  /\ UNCHANGED <<decs, job, lock, proc, used>>

-----------------------------------------------------------------------------
(* Operators: PurchaseReviewsController. *)

Actionable == {"review_required", "recognized", "failed"}

ReadReview(o, e, pc) ==
  /\ proc[o].pc = "idle" /\ review[e].status # "none"
  /\ Request
  /\ proc' = [proc EXCEPT ![o] = [pc |-> pc, e |-> e, slot |-> "base", d |-> 0, v |-> review[e].version,
                                  linked |-> review[e].linked, res |-> "eligible"]]
  /\ UNCHANGED <<decs, exec, review, log, sending, job, lock>>

(* An approval that was given, or that failed in transit, is processed     *)
(* again.                                                                  *)
Repeatable(e) ==
  \/ review[e].linked /\ (review[e].status = "approved" \/ review[e].event)
  \/ /\ review[e].status = "failed" /\ exec[e].status = "failed"
     /\ exec[e].decision = review[e].decision /\ exec[e].tech = "failed_retryable"

(* assertReviewIsApprovable; reject and updateItems ask for the same. *)
Approvable(e) == ~review[e].event /\ review[e].status \in Actionable \cup {"approved"}

(* prepareApproval. *)
Approve(o, e) ==
  \/ review[e].decision # 0 /\ Repeatable(e) /\ ReadReview(o, e, "load")
  \/ /\ review[e].decision # 0 /\ ~Repeatable(e)
     /\ Approvable(e)
     /\ ReadReview(o, e, "latest")
  \/ /\ review[e].decision = 0 /\ review[e].linked
     /\ Approvable(e)
     /\ ReadReview(o, e, "approveLegacy")

FindLatest(o) ==
  /\ proc[o].pc = "latest"
  /\ Decide(o, "append", Len(decs[On(o)]))
  /\ UNCHANGED <<decs, exec, review, log, sending, job, lock, used>>

(* correctedDecision: the rule is no longer one of purchases, the latest   *)
(* decision has no paid lead, or the catalogue changed under the items.    *)
CorrectionRefused(o) == Stop(o) /\ UNCHANGED decs

(* appendReevaluation, one decision per version of the review; it has to   *)
(* supersede the latest one.                                               *)
AppendReevaluation(o) ==
  LET e == On(o)
      same == {i \in DOMAIN decs[e] : decs[e][i].key = proc[o].v} IN
  /\ proc[o].pc = "append"
  /\ \/ /\ same # {}
        /\ \E i \in same : Decide(o, "read", i)
        /\ UNCHANGED decs
     \/ /\ same = {} /\ proc[o].d = Len(decs[e])
        /\ decs' = [decs EXCEPT ![e] = Append(@, [outcome |-> "eligible", key |-> proc[o].v])]
        /\ Decide(o, "read", proc[o].d + 1)
     \/ /\ same = {} /\ proc[o].d # Len(decs[e])
        /\ Stop(o)
        /\ UNCHANGED decs
     \/ proc[o].d \notin same /\ CorrectionRefused(o)
  /\ UNCHANGED <<exec, review, log, sending, job, lock, used>>

(* Compare-and-set on the version that was read; a lost race is a success  *)
(* when the winner approved the same decision.                             *)
ApproveReview(o) ==
  LET e == On(o)
      match == review[e].version = proc[o].v
      same == review[e].status = "approved" /\ review[e].decision = proc[o].d /\ review[e].linked IN
  /\ proc[o].pc = "approve"
  /\ IF match THEN WriteReview(e, "approved", proc[o].d, TRUE, review[e].event) ELSE UNCHANGED review
  /\ IF match \/ same THEN Goto(o, "load") ELSE Stop(o)
  /\ UNCHANGED <<decs, exec, log, sending, job, lock, used>>

(* The transaction for a review without a decision. *)
ApproveLegacy(o) ==
  LET e == On(o)
      match == review[e].version = proc[o].v IN
  /\ proc[o].pc = "approveLegacy"
  /\ IF match
       THEN ReviewBecomes(e, "approved") /\ ExecBecomes(e, "eligible", exec[e].tech) /\ Goto(o, "load")
       ELSE Stop(o) /\ UNCHANGED <<review, exec>>
  /\ UNCHANGED <<decs, log, sending, job, lock, used>>

(* reject. *)
Reject(o, e) ==
  /\ Approvable(e)
  /\ ReadReview(o, e, "reject")

(* The updates name the ids only. *)
CommitReject(o) ==
  LET e == On(o) IN
  /\ proc[o].pc = "reject"
  /\ ReviewBecomes(e, "rejected")
  /\ IF proc[o].linked /\ exec[e].status \in {"observed", "eligible", "blocked", "failed"}
       THEN ExecBecomes(e, "blocked", exec[e].tech) ELSE UNCHANGED exec
  /\ Stop(o)
  /\ UNCHANGED <<decs, log, sending, job, lock, used>>

(* updateItems: before the event exists, or as a correction of what was sent. *)
Edit(o, e) ==
  \/ review[e].event /\ log[e] = "sent" /\ ReadReview(o, e, "correct")
  \/ Approvable(e) /\ ReadReview(o, e, "edit")

(* Mutant of CommitEdit: the update names the id only. *)
CommitEditBlind(o) ==
  LET e == On(o) IN
  /\ proc[o].pc \in {"edit", "correct"}
  /\ ReviewBecomes(e, IF proc[o].pc = "edit" THEN "recognized" ELSE "corrected_after_send")
  /\ Stop(o)
  /\ UNCHANGED <<decs, exec, log, sending, job, lock, used>>

CommitEdit(o) ==
  LET e == On(o) IN
  /\ proc[o].pc \in {"edit", "correct"}
  /\ IF review[e].version = proc[o].v
       THEN ReviewBecomes(e, IF proc[o].pc = "edit" THEN "recognized" ELSE "corrected_after_send")
       ELSE UNCHANGED review
  /\ Stop(o)
  /\ UNCHANGED <<decs, exec, log, sending, job, lock, used>>

-----------------------------------------------------------------------------
OrchestrationStep(p) ==
  \/ FindReview(p) \/ UpsertReview(p) \/ ReadExecution(p) \/ UpsertExecution(p) \/ EnqueueConversion(p)

ProductionStep(p) ==
  \/ LoadExecution(p) \/ Resend(p) \/ StartAttempt(p) \/ Refuse(p) \/ LockScope(p)
  \/ CheckExecution(p) \/ CommitDuplicate(p) \/ CommitEvent(p) \/ EnqueueSend(p)
  \/ FailExecution(p) \/ FailReview(p) \/ FinishProcess(p)

ReviewStep(o) ==
  \/ FindLatest(o) \/ AppendReevaluation(o) \/ ApproveReview(o) \/ ApproveLegacy(o)
  \/ CommitReject(o) \/ CommitEdit(o)

ProcStep(p) == OrchestrationStep(p) \/ ProductionStep(p) \/ ReviewStep(p)

Next ==
  \/ \E p \in Procs : ProcStep(p) \/ ProcessThrows(p) \/ ProcessDies(p)
  \/ \E e \in Execs :
       \/ \E o \in Observers : Reprocess(o, e) \/ \E slot \in Slots : Observe(o, e, slot)
       \/ \E m \in Maintainers : RecoverEligible(m, e)
       \/ \E w \in Workers, slot \in Slots : TakeJob(w, e, slot)
       \/ \E o \in Operators : Approve(o, e) \/ Reject(o, e) \/ Edit(o, e)
       \/ Deliver(e)
  \/ \E j \in Execs \X Slots : BackoffElapses(j) \/ DetectStalled(j)

Spec == Init /\ [][Next]_vars

(* Processes go on with what they began, a lock that is released again and *)
(* again is granted to each who waits, jobs are delivered, and the runs of *)
(* the recovery reach every eligible execution.  Nobody has to observe,    *)
(* decide or fail.                                                         *)
Fairness ==
  /\ \A p \in Procs : WF_vars(ProcStep(p))
  /\ \A p \in Workers \cup Operators : SF_vars(LockScope(p))
  /\ \A e \in Execs :
       /\ \A slot \in Slots : WF_vars(\E w \in Workers : TakeJob(w, e, slot))
       /\ WF_vars(\E m \in Maintainers : RecoverEligible(m, e))
       /\ WF_vars(Deliver(e))
  /\ \A j \in Execs \X Slots : WF_vars(BackoffElapses(j)) /\ WF_vars(DetectStalled(j))

FairSpec == Spec /\ Fairness

-----------------------------------------------------------------------------
Recorded(e) == log[e] # "none"

(* Of two occurrences of a scope inside the dedupe window at most one has  *)
(* a conversion event, however many workers and manual attempts process    *)
(* them.                                                                   *)
OneEventPerScope == \A e, f \in Execs : IsNear(e, f) => ~(Recorded(e) /\ Recorded(f))

(* An execution is dropped as a duplicate only when another one in the     *)
(* window has its event.                                                   *)
DuplicateHasOriginal ==
  \A e \in Execs : exec[e].status = "duplicate" => \E f \in Execs : IsNear(e, f) /\ Recorded(f)

(* A materialized execution stays so: no approval, rejection, late failure *)
(* or further attempt takes it back.                                       *)
MaterializedIsFinal ==
  [][\A e \in Execs : exec[e].status = "materialized" => exec'[e].status = "materialized"]_vars

(* An edit that was begun before the purchase got its event is not applied *)
(* after it: the value of what is on its way to Meta does not change.      *)
EditedBeforeEvent ==
  [][\A e \in Execs : review[e].event /\ review'[e].status = "recognized"
       => review[e].status = "recognized"]_vars

(* An eligible execution is eventually materialized, a duplicate or        *)
(* failed, also when its job was lost or died with its worker.             *)
EligibleSettles == \A e \in Execs : exec[e].status = "eligible" ~> exec[e].status # "eligible"

(* The event of an execution is eventually sent, also when the worker died *)
(* between the commit and the queue.                                       *)
EventIsSent == \A e \in Execs : log[e] = "ready" ~> log[e] # "ready"

(* Once a purchase was rejected and nobody works on it, its execution is   *)
(* not eligible: what is eligible is sent by the next recovery, without a  *)
(* review that allows it.                                                  *)
RejectedIsBlocked ==
  \A e \in Execs :
    review[e].status = "rejected" /\ (\A p \in Procs : On(p) # e) => exec[e].status # "eligible"
=============================================================================
