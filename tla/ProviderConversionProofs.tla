---------------------- MODULE ProviderConversionProofs ----------------------
(***************************************************************************)
(* Proofs about ProviderConversion, for every value of its constants: the  *)
(* state is typed, a duplicate has an original, no edit is applied to a    *)
(* purchase that has its event, and two occurrences of one scope inside    *)
(* the dedupe window never both have an event.                             *)
(***************************************************************************)
EXTENDS ProviderConversion, BullJobProofs, TLAPS

(* Abbreviations of one line each. *)
USE DEF RecordedAs, Resolved, Approvable, CorrectionRefused

(* A check that fails before the transaction begins throws. *)
LEMMA RefusedAs ==
  ASSUME NEW p \in Procs, Refuse(p)
  PROVE  \E res \in {"permanent", "configuration"} : Result(p, "fail", res)
BY DEF Refuse, RefuseContext, RefuseSource, RefusePurchase, RefuseFrozen, RefuseValue, RefuseRoute

(* The fields of a process at work. *)
Busy(r) ==
  /\ r.e \in Execs /\ r.slot \in Slots /\ r.d \in Nat /\ r.v \in Nat
  /\ r.linked \in BOOLEAN /\ r.res \in Results
  /\ r.pc \in {"latest", "append", "read", "upsert"} => r.res \in Chosen

LEMMA ProcBusy ==
  ASSUME TypeOK, NEW p \in Procs, proc[p].pc # "idle"
  PROVE  Busy(proc[p])
BY DEF TypeOK, ProcRecs, Idle, Begin, Busy

(* Process p is at pc now, on the same execution, and the others stay. *)
Moves(p, pc) ==
  /\ proc' \in [Procs -> ProcRecs]
  /\ proc'[p].pc = pc /\ proc'[p].e = proc[p].e
  /\ \A q \in Procs \ {p} : proc'[q] = proc[q]

(* The steps a process may go to without a disposition in hand. *)
Plain == PCs \ {"idle", "latest", "append", "read", "upsert"}

BusyRecs ==
  [pc : PCs \ {"idle"}, e : Execs, slot : Slots, d : Nat, v : Nat, linked : BOOLEAN, res : Results]

LEMMA FieldTyped ==
  ASSUME NEW r \in BusyRecs
  PROVE  /\ \A pc \in PCs \ {"idle"} :
              /\ [r EXCEPT !.pc = pc] \in BusyRecs /\ [r EXCEPT !.pc = pc].pc = pc
              /\ [r EXCEPT !.pc = pc].e = r.e /\ [r EXCEPT !.pc = pc].res = r.res
         /\ \A res \in Results :
              /\ [r EXCEPT !.res = res] \in BusyRecs /\ [r EXCEPT !.res = res].res = res
              /\ [r EXCEPT !.res = res].e = r.e /\ [r EXCEPT !.res = res].pc = r.pc
         /\ \A d \in Nat :
              /\ [r EXCEPT !.d = d] \in BusyRecs /\ [r EXCEPT !.d = d].res = r.res
              /\ [r EXCEPT !.d = d].e = r.e /\ [r EXCEPT !.d = d].pc = r.pc
BY DEF BusyRecs

LEMMA BusyMoves ==
  ASSUME TypeOK, NEW p \in Procs, NEW x \in BusyRecs, x.e = proc[p].e,
         x.pc \in Plain \/ x.res \in Chosen, proc' = [proc EXCEPT ![p] = x]
  PROVE  Moves(p, x.pc)
BY DEF TypeOK, Moves, ProcRecs, BusyRecs, Plain

LEMMA ProcRecord ==
  ASSUME TypeOK, NEW p \in Procs, proc[p].pc # "idle"
  PROVE  proc[p] \in BusyRecs
BY DEF TypeOK, ProcRecs, Idle, Begin, BusyRecs

LEMMA GotoMoves ==
  ASSUME TypeOK, NEW p \in Procs, proc[p].pc # "idle", NEW pc \in PCs \ {"idle"},
         pc \in Plain \/ proc[p].res \in Chosen, Goto(p, pc)
  PROVE  Moves(p, pc)
<1>1. PICK x \in BusyRecs : /\ x = [proc[p] EXCEPT !.pc = pc]
                            /\ x.pc = pc /\ x.e = proc[p].e /\ x.res = proc[p].res
  BY ProcRecord, FieldTyped
<1>2. proc' = [proc EXCEPT ![p] = x]
  BY <1>1 DEF Goto
<1> QED
  BY <1>1, <1>2, BusyMoves

LEMMA ResultMoves ==
  ASSUME TypeOK, NEW p \in Procs, proc[p].pc # "idle", NEW pc \in Plain,
         NEW res \in Results, Result(p, pc, res)
  PROVE  Moves(p, pc)
<1>0. proc[p] \in BusyRecs /\ pc \in PCs \ {"idle"}
  BY ProcRecord DEF Plain
<1>1. /\ [proc[p] EXCEPT !.pc = pc] \in BusyRecs
      /\ [proc[p] EXCEPT !.pc = pc].pc = pc /\ [proc[p] EXCEPT !.pc = pc].e = proc[p].e
  BY <1>0, FieldTyped
<1>2. PICK x \in BusyRecs : x = [proc[p] EXCEPT !.pc = pc] /\ x.pc = pc /\ x.e = proc[p].e
  BY <1>1, Zenon
<1>3. /\ [x EXCEPT !.res = res] \in BusyRecs
      /\ [x EXCEPT !.res = res].pc = pc /\ [x EXCEPT !.res = res].e = proc[p].e
  BY <1>2, FieldTyped
<1>4. PICK y \in BusyRecs : y = [x EXCEPT !.res = res] /\ y.pc = pc /\ y.e = proc[p].e
  BY <1>3, Zenon
<1>5. proc' = [proc EXCEPT ![p] = y]
  BY <1>2, <1>4 DEF Result, TypeOK
<1> QED
  BY <1>4, <1>5, BusyMoves

LEMMA DecideMoves ==
  ASSUME TypeOK, NEW p \in Procs, proc[p].pc # "idle", proc[p].res \in Chosen,
         NEW pc \in {"append", "read"}, NEW d \in Nat, Decide(p, pc, d)
  PROVE  Moves(p, pc)
<1>0. proc[p] \in BusyRecs /\ pc \in PCs \ {"idle"}
  BY ProcRecord DEF PCs
<1>1. /\ [proc[p] EXCEPT !.pc = pc] \in BusyRecs /\ [proc[p] EXCEPT !.pc = pc].res = proc[p].res
      /\ [proc[p] EXCEPT !.pc = pc].pc = pc /\ [proc[p] EXCEPT !.pc = pc].e = proc[p].e
  BY <1>0, FieldTyped
<1>2. PICK x \in BusyRecs : /\ x = [proc[p] EXCEPT !.pc = pc]
                            /\ x.pc = pc /\ x.e = proc[p].e /\ x.res = proc[p].res
  BY <1>1, Zenon
<1>3. /\ [x EXCEPT !.d = d] \in BusyRecs /\ [x EXCEPT !.d = d].res = proc[p].res
      /\ [x EXCEPT !.d = d].pc = pc /\ [x EXCEPT !.d = d].e = proc[p].e
  BY <1>2, FieldTyped
<1>4. PICK y \in BusyRecs : /\ y = [x EXCEPT !.d = d]
                            /\ y.pc = pc /\ y.e = proc[p].e /\ y.res = proc[p].res
  BY <1>3, Zenon
<1>5. proc' = [proc EXCEPT ![p] = y]
  BY <1>2, <1>4 DEF Decide, TypeOK
<1> QED
  BY <1>4, <1>5, BusyMoves

LEMMA StopStays ==
  ASSUME TypeOK, NEW p \in Procs, Stop(p)
  PROVE  /\ proc' \in [Procs -> ProcRecs] /\ proc'[p] = Idle
         /\ \A q \in Procs \ {p} : proc'[q] = proc[q]
BY DEF Stop, TypeOK, ProcRecs

(* What a write does to its execution and to its review, and to no other. *)
LEMMA ExecWritten ==
  ASSUME TypeOK, NEW e \in Execs, NEW s \in ExecStatuses, NEW tech \in Techs, ExecBecomes(e, s, tech)
  PROVE  /\ exec' \in [Execs -> ExecRecs] /\ exec'[e].status = s
         /\ \A f \in Execs \ {e} : exec'[f] = exec[f]
BY DEF TypeOK, ExecBecomes, WriteExec, ExecRecs

LEMMA ReviewWritten ==
  ASSUME TypeOK, NEW e \in Execs, NEW s \in ReviewStatuses, NEW d \in Nat,
         NEW linked \in BOOLEAN, NEW event \in BOOLEAN, WriteReview(e, s, d, linked, event)
  PROVE  /\ review' \in [Execs -> ReviewRecs]
         /\ review'[e].status = s /\ review'[e].version = review[e].version + 1
         /\ \A f \in Execs \ {e} : review'[f] = review[f]
BY DEF TypeOK, WriteReview, ReviewRecs

LEMMA ReviewBecame ==
  ASSUME TypeOK, NEW e \in Execs, NEW s \in ReviewStatuses, ReviewBecomes(e, s)
  PROVE  /\ review' \in [Execs -> ReviewRecs]
         /\ review'[e].status = s /\ review'[e].version = review[e].version + 1
         /\ \A f \in Execs \ {e} : review'[f] = review[f]
<1>1. review[e].decision \in Nat /\ review[e].linked \in BOOLEAN /\ review[e].event \in BOOLEAN
  BY DEF TypeOK, ReviewRecs
<1> QED
  BY <1>1, ReviewWritten DEF ReviewBecomes

LEMMA UnlockTyped ==
  ASSUME TypeOK, NEW p \in Procs, Unlock(p)
  PROVE  lock' \in [LockKeys -> SUBSET Procs]
BY DEF Unlock, TypeOK

LEMMA BoundsTyped ==
  ASSUME TypeOK, Fault \/ Request
  PROVE  used' \in [faults : 0..MaxFaults, requests : 0..MaxRequests]
<1>1. CASE Fault
  <2>1. used' = [faults |-> used.faults + 1, requests |-> used.requests] /\ used.faults + 1 \in 0..MaxFaults
    BY <1>1, ConversionAssumption DEF TypeOK, Fault
  <2> QED
    BY <2>1 DEF TypeOK
<1>2. CASE Request
  <2>1. used' = [faults |-> used.faults, requests |-> used.requests + 1] /\ used.requests + 1 \in 0..MaxRequests
    BY <1>2, ConversionAssumption DEF TypeOK, Request
  <2> QED
    BY <2>1 DEF TypeOK
<1> QED
  BY <1>1, <1>2

LEMMA InitTyped == Init => TypeOK
<1> SUFFICES ASSUME Init PROVE TypeOK
  OBVIOUS
<1>1. decs \in [Execs -> Seq(Decisions)]
  BY DEF Init
<1>2. exec \in [Execs -> ExecRecs]
  BY DEF Init, ExecRecs, ExecStatuses, Techs
<1>3. review \in [Execs -> ReviewRecs]
  BY DEF Init, ReviewRecs, NoReview, ReviewStatuses
<1>4. log \in [Execs -> {"none", "ready", "sent", "error"}] /\ sending \in [Execs -> BOOLEAN]
  BY DEF Init
<1>5. NoJob \in Jobs
  BY MaxAttemptsAssumption, MaxStalledAssumption DEF NoJob, Jobs, JobStates
<1>6. job \in [Execs \X Slots -> Jobs]
  BY <1>5 DEF Init
<1>7. lock \in [LockKeys -> SUBSET Procs] /\ proc \in [Procs -> ProcRecs]
  BY DEF Init, ProcRecs
<1>8. used \in [faults : 0..MaxFaults, requests : 0..MaxRequests]
  BY ConversionAssumption DEF Init
<1> QED
  BY <1>1, <1>2, <1>3, <1>4, <1>6, <1>7, <1>8 DEF TypeOK

(* Every action keeps the state typed. *)
LEMMA NextTyped ==
  ASSUME TypeOK, [Next]_vars
  PROVE  TypeOK'
<1> USE ConversionAssumption DEF TypeOK, On
<1>1. ASSUME NEW p \in Procs, FindReview(p) PROVE TypeOK'
  <2>1. proc[p].pc # "idle" /\ proc[p].e \in Execs /\ proc[p].slot \in Slots /\ Busy(proc[p])
    BY <1>1, ProcBusy DEF FindReview, Busy
  <2>2. proc' \in [Procs -> ProcRecs]
    BY <1>1, <2>1, GotoMoves, ResultMoves, StopStays DEF FindReview, Moves, Plain, PCs, Busy
  <2> QED
    BY <1>1, <2>1, <2>2 DEF FindReview
<1>2. ASSUME NEW p \in Procs, UpsertReview(p) PROVE TypeOK'
  <2>1. proc[p].pc # "idle" /\ proc[p].e \in Execs /\ proc[p].slot \in Slots /\ Busy(proc[p])
    BY <1>2, ProcBusy DEF UpsertReview, Busy
  <2>2. proc' \in [Procs -> ProcRecs]
    BY <1>2, <2>1, GotoMoves, ResultMoves, StopStays DEF UpsertReview, Moves, Plain, PCs, Busy
  <2>3. review' \in [Execs -> ReviewRecs]
    BY <1>2, <2>1, ReviewWritten DEF UpsertReview, Busy, ReviewRecs, ReviewStatuses
  <2> QED
    BY <1>2, <2>1, <2>2, <2>3 DEF UpsertReview
<1>3. ASSUME NEW p \in Procs, ReadExecution(p) PROVE TypeOK'
  <2>1. proc[p].pc # "idle" /\ proc[p].e \in Execs /\ proc[p].slot \in Slots /\ Busy(proc[p])
    BY <1>3, ProcBusy DEF ReadExecution, Busy
  <2>2. proc' \in [Procs -> ProcRecs]
    BY <1>3, <2>1, GotoMoves, ResultMoves, StopStays DEF ReadExecution, Moves, Plain, PCs, Busy, Orchestrated
  <2> QED
    BY <1>3, <2>1, <2>2 DEF ReadExecution
<1>4. ASSUME NEW p \in Procs, UpsertExecution(p) PROVE TypeOK'
  <2>1. proc[p].pc # "idle" /\ proc[p].e \in Execs /\ proc[p].slot \in Slots /\ Busy(proc[p])
    BY <1>4, ProcBusy DEF UpsertExecution, Busy
  <2>2. proc' \in [Procs -> ProcRecs]
    BY <1>4, <2>1, GotoMoves, ResultMoves, StopStays DEF UpsertExecution, Moves, Plain, PCs, Busy, Orchestrated
  <2> QED
    BY <1>4, <2>1, <2>2 DEF UpsertExecution, WriteExec, ExecRecs, ExecStatuses, Techs, Chosen, Busy
<1>5. ASSUME NEW p \in Procs, EnqueueConversion(p) PROVE TypeOK'
  <2>1. proc[p].pc # "idle" /\ proc[p].e \in Execs /\ proc[p].slot \in Slots /\ Busy(proc[p])
    BY <1>5, ProcBusy DEF EnqueueConversion, Busy
  <2>2. proc' \in [Procs -> ProcRecs]
    BY <1>5, <2>1, GotoMoves, ResultMoves, StopStays DEF EnqueueConversion, Moves, Plain, PCs, Busy
  <2> QED
    BY <1>5, <2>1, <2>2, JobTyping DEF EnqueueConversion
<1>6. ASSUME NEW p \in Procs, LoadExecution(p) PROVE TypeOK'
  <2>1. proc[p].pc # "idle" /\ proc[p].e \in Execs /\ proc[p].slot \in Slots /\ Busy(proc[p])
    BY <1>6, ProcBusy DEF LoadExecution, Busy
  <2>2. proc' \in [Procs -> ProcRecs]
    <3>1. exec[proc[p].e].decision \in Nat /\ review[proc[p].e].linked \in BOOLEAN
      BY <2>1 DEF ExecRecs, ReviewRecs
    <3>2. PICK pc \in {"resend", "start", "done"}, res \in {"ok", "none"} :
            proc' = [proc EXCEPT ![p] =
              [pc |-> pc, e |-> proc[p].e, slot |-> proc[p].slot, d |-> exec[proc[p].e].decision,
               v |-> proc[p].v, linked |-> review[proc[p].e].linked, res |-> res]]
      BY <1>6 DEF LoadExecution
    <3>3. PICK x \in BusyRecs : /\ x.pc = pc /\ x.e = proc[p].e
                                /\ proc' = [proc EXCEPT ![p] = x]
      BY <2>1, <3>1, <3>2 DEF Busy, BusyRecs, PCs, Results
    <3> QED
      BY <3>3, BusyMoves DEF Moves, Plain, PCs
  <2> QED
    BY <1>6, <2>2 DEF LoadExecution
<1>7. ASSUME NEW p \in Procs, Resend(p) PROVE TypeOK'
  <2>1. proc[p].pc # "idle" /\ proc[p].e \in Execs /\ proc[p].slot \in Slots /\ Busy(proc[p])
    BY <1>7, ProcBusy DEF Resend, Busy
  <2>2. proc' \in [Procs -> ProcRecs]
    BY <1>7, <2>1, GotoMoves, ResultMoves, StopStays DEF Resend, Moves, Plain, PCs, Busy, Results
  <2> QED
    BY <1>7, <2>1, <2>2 DEF Resend
<1>8. ASSUME NEW p \in Procs, StartAttempt(p) PROVE TypeOK'
  <2>1. proc[p].pc # "idle" /\ proc[p].e \in Execs /\ proc[p].slot \in Slots /\ Busy(proc[p])
    BY <1>8, ProcBusy DEF StartAttempt, Busy
  <2>2. proc' \in [Procs -> ProcRecs]
    BY <1>8, <2>1, GotoMoves, ResultMoves, StopStays DEF StartAttempt, Moves, Plain, PCs, Busy
  <2>3. exec' \in [Execs -> ExecRecs]
    BY <1>8, <2>1, ExecWritten DEF StartAttempt, ExecRecs, Techs
  <2> QED
    BY <1>8, <2>1, <2>2, <2>3 DEF StartAttempt
<1>9. ASSUME NEW p \in Procs, Refuse(p) PROVE TypeOK'
  <2>1. proc[p].pc # "idle" /\ proc[p].e \in Execs /\ proc[p].slot \in Slots /\ Busy(proc[p])
    BY <1>9, ProcBusy DEF Refuse, Busy
  <2>2. PICK res \in {"permanent", "configuration"} : Result(p, "fail", res)
    BY <1>9, RefusedAs
  <2>3. "fail" \in Plain /\ res \in Results
    BY DEF Plain, PCs, Results
  <2>4. proc' \in [Procs -> ProcRecs]
    BY <2>1, <2>2, <2>3, ResultMoves DEF Moves
  <2> QED
    BY <1>9, <2>4 DEF Refuse
<1>10. ASSUME NEW p \in Procs, LockScope(p) PROVE TypeOK'
  <2>1. proc[p].pc # "idle" /\ proc[p].e \in Execs /\ proc[p].slot \in Slots /\ Busy(proc[p])
    BY <1>10, ProcBusy DEF LockScope, Busy
  <2>2. proc' \in [Procs -> ProcRecs]
    BY <1>10, <2>1, GotoMoves, ResultMoves, StopStays DEF LockScope, Moves, Plain, PCs, Busy
  <2> QED
    BY <1>10, <2>1, <2>2 DEF LockScope, LockKeys, LockOf
<1>11. ASSUME NEW p \in Procs, CheckExecution(p) PROVE TypeOK'
  <2>1. proc[p].pc # "idle" /\ proc[p].e \in Execs /\ proc[p].slot \in Slots /\ Busy(proc[p])
    BY <1>11, ProcBusy DEF CheckExecution, Busy
  <2>2. proc' \in [Procs -> ProcRecs]
    BY <1>11, <2>1, GotoMoves, ResultMoves, StopStays DEF CheckExecution, Moves, Plain, PCs, Busy, Results
  <2> QED
    BY <1>11, <2>1, <2>2, UnlockTyped DEF CheckExecution
<1>12. ASSUME NEW p \in Procs, CommitDuplicate(p) PROVE TypeOK'
  <2>1. proc[p].pc # "idle" /\ proc[p].e \in Execs /\ proc[p].slot \in Slots /\ Busy(proc[p])
    BY <1>12, ProcBusy DEF CommitDuplicate, Busy
  <2>2. proc' \in [Procs -> ProcRecs]
    BY <1>12, <2>1, GotoMoves, ResultMoves, StopStays DEF CommitDuplicate, Moves, Plain, PCs, Busy, Results
  <2>3. exec' \in [Execs -> ExecRecs]
    <3>1. PICK tech \in Techs : ExecBecomes(proc[p].e, "duplicate", tech)
      BY <1>12, <2>1 DEF CommitDuplicate, ExecRecs, Techs
    <3> QED
      BY <2>1, <3>1, ExecWritten DEF ExecStatuses
  <2>4. review' \in [Execs -> ReviewRecs]
    BY <1>12, <2>1, ReviewBecame DEF CommitDuplicate, ReviewStatuses
  <2> QED
    BY <1>12, <2>1, <2>2, <2>3, <2>4, UnlockTyped DEF CommitDuplicate
<1>13. ASSUME NEW p \in Procs, CommitEvent(p) PROVE TypeOK'
  <2>1. proc[p].pc # "idle" /\ proc[p].e \in Execs /\ proc[p].slot \in Slots /\ Busy(proc[p])
    BY <1>13, ProcBusy DEF CommitEvent, Busy
  <2>2. proc' \in [Procs -> ProcRecs]
    BY <1>13, <2>1, GotoMoves, ResultMoves, StopStays DEF CommitEvent, Moves, Plain, PCs, Busy, Results
  <2>3. exec' \in [Execs -> ExecRecs]
    <3>1. exec[proc[p].e].tech \in Techs /\ "queued" \in Techs /\ "sent" \in Techs
      BY <2>1 DEF ExecRecs, Techs
    <3>2. PICK tech \in Techs : ExecBecomes(proc[p].e, "materialized", tech)
      BY <1>13, <3>1 DEF CommitEvent
    <3> QED
      BY <2>1, <3>2, ExecWritten DEF ExecStatuses
  <2>4. review' \in [Execs -> ReviewRecs]
    <3>1. review[proc[p].e].decision \in Nat /\ review[proc[p].e].linked \in BOOLEAN
      BY <2>1 DEF ReviewRecs
    <3>2. "approved" \in ReviewStatuses /\ TRUE \in BOOLEAN
      BY DEF ReviewStatuses
    <3>3. PICK b \in BOOLEAN :
            \/ UNCHANGED review
            \/ WriteReview(proc[p].e, "approved", review[proc[p].e].decision, review[proc[p].e].linked, b)
      BY <1>13 DEF CommitEvent
    <3> QED
      BY <2>1, <3>1, <3>2, <3>3, ReviewWritten
  <2>5. log' \in [Execs -> {"none", "ready", "sent", "error"}]
    BY <1>13, <2>1 DEF CommitEvent
  <2> QED
    BY <1>13, <2>1, <2>2, <2>3, <2>4, <2>5, UnlockTyped DEF CommitEvent
<1>14. ASSUME NEW p \in Procs, EnqueueSend(p) PROVE TypeOK'
  <2>1. proc[p].pc # "idle" /\ proc[p].e \in Execs /\ proc[p].slot \in Slots /\ Busy(proc[p])
    BY <1>14, ProcBusy DEF EnqueueSend, Busy
  <2>2. proc' \in [Procs -> ProcRecs]
    BY <1>14, <2>1, GotoMoves, ResultMoves, StopStays DEF EnqueueSend, Moves, Plain, PCs, Busy, Results
  <2> QED
    BY <1>14, <2>1, <2>2 DEF EnqueueSend
<1>15. ASSUME NEW p \in Procs, FailExecution(p) PROVE TypeOK'
  <2>1. proc[p].pc # "idle" /\ proc[p].e \in Execs /\ proc[p].slot \in Slots /\ Busy(proc[p])
    BY <1>15, ProcBusy DEF FailExecution, Busy
  <2>2. proc' \in [Procs -> ProcRecs]
    BY <1>15, <2>1, GotoMoves, ResultMoves, StopStays DEF FailExecution, Moves, Plain, PCs, Busy
  <2>3. exec' \in [Execs -> ExecRecs]
    BY <1>15, <2>1, ExecWritten DEF FailExecution, FailedTech, ExecStatuses, Techs
  <2> QED
    BY <1>15, <2>1, <2>2, <2>3 DEF FailExecution
<1>16. ASSUME NEW p \in Procs, FailReview(p) PROVE TypeOK'
  <2>1. proc[p].pc # "idle" /\ proc[p].e \in Execs /\ proc[p].slot \in Slots /\ Busy(proc[p])
    BY <1>16, ProcBusy DEF FailReview, Busy
  <2>2. proc' \in [Procs -> ProcRecs]
    BY <1>16, <2>1, GotoMoves, ResultMoves, StopStays DEF FailReview, Moves, Plain, PCs, Busy
  <2>3. review' \in [Execs -> ReviewRecs]
    BY <1>16, <2>1, ReviewBecame DEF FailReview, ReviewStatuses
  <2> QED
    BY <1>16, <2>1, <2>2, <2>3 DEF FailReview
<1>17. ASSUME NEW p \in Procs, FinishProcess(p) PROVE TypeOK'
  <2>1. proc[p].pc # "idle" /\ proc[p].e \in Execs /\ proc[p].slot \in Slots /\ Busy(proc[p])
    BY <1>17, ProcBusy DEF FinishProcess, Busy
  <2>2. proc' \in [Procs -> ProcRecs]
    BY <1>17, <2>1, GotoMoves, ResultMoves, StopStays DEF FinishProcess, Moves, Plain, PCs, Busy
  <2>3. job' \in [Execs \X Slots -> Jobs]
    <3>1. \A j \in Jobs : [j EXCEPT !.state = "failed"] \in Jobs
      BY DEF Jobs, JobStates
    <3> QED
      BY <1>17, <2>1, <3>1, JobTyping DEF FinishProcess
  <2> QED
    BY <1>17, <2>1, <2>2, <2>3 DEF FinishProcess
<1>18. ASSUME NEW p \in Procs, ProcessThrows(p) PROVE TypeOK'
  <2>1. proc[p].pc # "idle" /\ proc[p].e \in Execs /\ proc[p].slot \in Slots /\ Busy(proc[p])
    BY <1>18, ProcBusy DEF ProcessThrows, Busy, InTransaction
  <2>2. proc' \in [Procs -> ProcRecs]
    BY <1>18, <2>1, GotoMoves, ResultMoves, StopStays DEF ProcessThrows, Moves, Plain, PCs, Busy, Results, InTransaction
  <2> QED
    BY <1>18, <2>1, <2>2, UnlockTyped, BoundsTyped DEF ProcessThrows
<1>19. ASSUME NEW p \in Procs, ProcessDies(p) PROVE TypeOK'
  <2>1. proc[p].pc # "idle" /\ proc[p].e \in Execs /\ proc[p].slot \in Slots /\ Busy(proc[p])
    BY <1>19, ProcBusy DEF ProcessDies, Busy
  <2>2. proc' \in [Procs -> ProcRecs]
    BY <1>19, <2>1, GotoMoves, ResultMoves, StopStays DEF ProcessDies, Moves, Plain, PCs, Busy
  <2> QED
    BY <1>19, <2>1, <2>2, UnlockTyped, BoundsTyped DEF ProcessDies
<1>20. ASSUME NEW p \in Procs, FindLatest(p) PROVE TypeOK'
  <2>1. proc[p].pc # "idle" /\ proc[p].e \in Execs /\ proc[p].slot \in Slots /\ Busy(proc[p])
    BY <1>20, ProcBusy DEF FindLatest, Busy
  <2>2. Len(decs[proc[p].e]) \in Nat /\ proc[p].res \in Chosen
    BY <1>20, <2>1 DEF FindLatest, Busy
  <2>3. proc' \in [Procs -> ProcRecs]
    BY <1>20, <2>1, <2>2, DecideMoves DEF FindLatest, Moves
  <2> QED
    BY <1>20, <2>3 DEF FindLatest
<1>21. ASSUME NEW p \in Procs, AppendReevaluation(p) PROVE TypeOK'
  <2>1. proc[p].pc # "idle" /\ proc[p].e \in Execs /\ proc[p].slot \in Slots /\ Busy(proc[p])
    BY <1>21, ProcBusy DEF AppendReevaluation, Busy
  <2>2. proc[p].d + 1 \in Nat /\ DOMAIN decs[proc[p].e] \subseteq Nat /\ proc[p].res \in Chosen
    BY <1>21, <2>1 DEF AppendReevaluation, Busy
  <2>3. proc' \in [Procs -> ProcRecs]
    BY <1>21, <2>1, <2>2, DecideMoves, StopStays DEF AppendReevaluation, Moves
  <2>4. Append(decs[proc[p].e], [outcome |-> "eligible", key |-> proc[p].v]) \in Seq(Decisions)
    BY <2>1 DEF Busy, Decisions, Outcomes
  <2>5. decs' \in [Execs -> Seq(Decisions)]
    BY <1>21, <2>1, <2>4 DEF AppendReevaluation
  <2> QED
    BY <1>21, <2>3, <2>5 DEF AppendReevaluation
<1>22. ASSUME NEW p \in Procs, ApproveReview(p) PROVE TypeOK'
  <2>1. proc[p].pc # "idle" /\ proc[p].e \in Execs /\ proc[p].slot \in Slots /\ Busy(proc[p])
    BY <1>22, ProcBusy DEF ApproveReview, Busy
  <2>2. proc' \in [Procs -> ProcRecs]
    BY <1>22, <2>1, GotoMoves, ResultMoves, StopStays DEF ApproveReview, Moves, Plain, PCs, Busy
  <2>3. review' \in [Execs -> ReviewRecs]
    <3>1. proc[p].d \in Nat /\ review[proc[p].e].event \in BOOLEAN
      BY <2>1 DEF Busy, ReviewRecs
    <3>2. "approved" \in ReviewStatuses /\ TRUE \in BOOLEAN
      BY DEF ReviewStatuses
    <3>3. PICK b \in BOOLEAN :
            UNCHANGED review \/ WriteReview(proc[p].e, "approved", proc[p].d, b, review[proc[p].e].event)
      BY <1>22 DEF ApproveReview
    <3> QED
      BY <2>1, <3>1, <3>2, <3>3, ReviewWritten
  <2> QED
    BY <1>22, <2>1, <2>2, <2>3 DEF ApproveReview
<1>23. ASSUME NEW p \in Procs, ApproveLegacy(p) PROVE TypeOK'
  <2>1. proc[p].pc # "idle" /\ proc[p].e \in Execs /\ proc[p].slot \in Slots /\ Busy(proc[p])
    BY <1>23, ProcBusy DEF ApproveLegacy, Busy
  <2>2. proc' \in [Procs -> ProcRecs]
    BY <1>23, <2>1, GotoMoves, ResultMoves, StopStays DEF ApproveLegacy, Moves, Plain, PCs, Busy
  <2>3. exec' \in [Execs -> ExecRecs]
    BY <1>23, <2>1, ExecWritten DEF ApproveLegacy, ExecRecs, ExecStatuses
  <2>4. review' \in [Execs -> ReviewRecs]
    BY <1>23, <2>1, ReviewBecame DEF ApproveLegacy, ReviewStatuses
  <2> QED
    BY <1>23, <2>1, <2>2, <2>3, <2>4 DEF ApproveLegacy
<1>24. ASSUME NEW p \in Procs, CommitReject(p) PROVE TypeOK'
  <2>1. proc[p].pc # "idle" /\ proc[p].e \in Execs /\ proc[p].slot \in Slots /\ Busy(proc[p])
    BY <1>24, ProcBusy DEF CommitReject, Busy
  <2>2. proc' \in [Procs -> ProcRecs]
    BY <1>24, <2>1, GotoMoves, ResultMoves, StopStays DEF CommitReject, Moves, Plain, PCs, Busy
  <2>3. exec' \in [Execs -> ExecRecs]
    BY <1>24, <2>1, ExecWritten DEF CommitReject, ExecRecs, ExecStatuses
  <2>4. review' \in [Execs -> ReviewRecs]
    BY <1>24, <2>1, ReviewBecame DEF CommitReject, ReviewStatuses
  <2> QED
    BY <1>24, <2>1, <2>2, <2>3, <2>4 DEF CommitReject
<1>25. ASSUME NEW p \in Procs, CommitEdit(p) PROVE TypeOK'
  <2>1. proc[p].pc # "idle" /\ proc[p].e \in Execs /\ proc[p].slot \in Slots /\ Busy(proc[p])
    BY <1>25, ProcBusy DEF CommitEdit, Busy
  <2>2. proc' \in [Procs -> ProcRecs]
    BY <1>25, <2>1, GotoMoves, ResultMoves, StopStays DEF CommitEdit, Moves, Plain, PCs, Busy
  <2>3. review' \in [Execs -> ReviewRecs]
    BY <1>25, <2>1, ReviewBecame DEF CommitEdit, ReviewStatuses
  <2> QED
    BY <1>25, <2>1, <2>2, <2>3 DEF CommitEdit
<1>26. ASSUME NEW p \in Observers, NEW e \in Execs, NEW slot \in Slots, Observe(p, e, slot) PROVE TypeOK'
  <2>1. p \in Procs
    BY <1>26 DEF Procs
  <2>2. PICK first \in FirstOutcomes, disposition \in Dispositions :
          LET known == IF decs[e] = <<>> THEN <<[outcome |-> first, key |-> 0]>> ELSE decs[e]
              d == Len(known) IN
          /\ decs' = [decs EXCEPT ![e] = known]
          /\ proc' = [proc EXCEPT ![p] =
               CASE known[d].outcome = "eligible" -> Begin("read", e, slot, d, disposition)
                 [] known[d].outcome = "review" -> Begin("findReview", e, "base", d, "none")
                 [] OTHER -> Idle]
    BY <1>26 DEF Observe
  <2> DEFINE known == IF decs[e] = <<>> THEN <<[outcome |-> first, key |-> 0]>> ELSE decs[e]
             d == Len(known)
  <2>3. known \in Seq(Decisions) /\ d \in Nat
    <3>1. [outcome |-> first, key |-> 0] \in Decisions
      BY DEF Decisions
    <3>2. <<[outcome |-> first, key |-> 0]>> \in Seq(Decisions)
      BY <3>1
    <3>3. known \in Seq(Decisions)
      BY <3>2
    <3> HIDE DEF known
    <3> QED
      BY <3>3
  <2>4. decs' \in [Execs -> Seq(Decisions)]
    BY <2>2, <2>3
  <2>5. Begin("read", e, slot, d, disposition) \in ProcRecs
    <3> HIDE DEF d
    <3>1. disposition \in Results /\ disposition \in Chosen
      BY DEF Results, Chosen
    <3> QED
      BY <2>3, <3>1 DEF Begin, ProcRecs, PCs
  <2>6. Begin("findReview", e, "base", d, "none") \in ProcRecs
    <3> HIDE DEF d
    <3> QED
      BY <2>3 DEF Begin, ProcRecs, PCs, Slots, Results
  <2>7. proc' \in [Procs -> ProcRecs]
    <3>1. PICK x \in ProcRecs : proc' = [proc EXCEPT ![p] = x]
      BY <2>2, <2>5, <2>6 DEF ProcRecs
    <3> QED
      BY <2>1, <3>1
  <2> QED
    BY <1>26, <2>4, <2>7, BoundsTyped DEF Observe
<1>27. ASSUME NEW p \in Observers, NEW e \in Execs, Reprocess(p, e) PROVE TypeOK'
  <2>1. p \in Procs
    BY <1>27 DEF Procs
  <2>2. proc' \in [Procs -> ProcRecs]
    BY <1>27, <2>1 DEF Reprocess, Begin, ProcRecs, PCs, Slots, Results, Chosen
  <2> QED
    BY <1>27, <2>1, <2>2, JobTyping, BoundsTyped DEF Reprocess
<1>28. ASSUME NEW p \in Maintainers, NEW e \in Execs, RecoverEligible(p, e) PROVE TypeOK'
  <2>1. p \in Procs
    BY <1>28 DEF Procs
  <2>2. proc' \in [Procs -> ProcRecs]
    BY <1>28, <2>1 DEF RecoverEligible, Begin, ProcRecs, PCs, Slots, Results, Chosen
  <2> QED
    BY <1>28, <2>1, <2>2, JobTyping, BoundsTyped DEF RecoverEligible
<1>29. ASSUME NEW p \in Workers, NEW e \in Execs, NEW slot \in Slots, TakeJob(p, e, slot) PROVE TypeOK'
  <2>1. p \in Procs
    BY <1>29 DEF Procs
  <2>2. proc' \in [Procs -> ProcRecs]
    BY <1>29, <2>1 DEF TakeJob, Begin, ProcRecs, PCs, Slots, Results, Chosen
  <2> QED
    BY <1>29, <2>1, <2>2, JobTyping, BoundsTyped DEF TakeJob
<1>30. ASSUME NEW p \in Operators, NEW e \in Execs, Approve(p, e) \/ Reject(p, e) \/ Edit(p, e) PROVE TypeOK'
  <2>1. p \in Procs
    BY <1>30 DEF Procs
  <2>2. PICK pc \in {"load", "latest", "approveLegacy", "reject", "edit", "correct"} : ReadReview(p, e, pc)
    BY <1>30 DEF Approve, Reject, Edit
  <2>3. proc' \in [Procs -> ProcRecs]
    BY <2>1, <2>2 DEF ReadReview, ReviewRecs, Begin, ProcRecs, PCs, Slots, Results, Chosen
  <2> QED
    BY <2>1, <2>2, <2>3, BoundsTyped DEF ReadReview
<1>31. ASSUME NEW e \in Execs, Deliver(e) PROVE TypeOK'
  <2>1. exec' \in [Execs -> ExecRecs]
    BY <1>31, ExecWritten DEF Deliver, ExecRecs, Techs
  <2>2. review' \in [Execs -> ReviewRecs]
    BY <1>31, ReviewBecame DEF Deliver, ReviewStatuses
  <2> QED
    BY <1>31, <2>1, <2>2 DEF Deliver
<1>32. ASSUME NEW j \in Execs \X Slots, BackoffElapses(j) \/ DetectStalled(j) PROVE TypeOK'
  <2>1. Promote(job[j]) \in Jobs /\ Stall(job[j]) \in Jobs
    BY JobTyping
  <2>2. \E x \in Jobs : job' = [job EXCEPT ![j] = x]
    BY <1>32, <2>1 DEF BackoffElapses, DetectStalled
  <2>3. job' \in [Execs \X Slots -> Jobs]
    BY <2>2
  <2> QED
    BY <1>32, <2>3 DEF BackoffElapses, DetectStalled
<1>33. ASSUME UNCHANGED vars PROVE TypeOK'
  BY <1>33 DEF vars
<1> QED
  BY <1>1, <1>2, <1>3, <1>4, <1>5, <1>6, <1>7, <1>8, <1>9, <1>10, <1>11, <1>12, <1>13, <1>14, <1>15, <1>16, <1>17, <1>18, <1>19, <1>20, <1>21, <1>22, <1>23, <1>24, <1>25, <1>26, <1>27, <1>28, <1>29, <1>30, <1>31, <1>32, <1>33
     DEF Next, ProcStep, OrchestrationStep, ProductionStep, ReviewStep

(* Decisions, executions, reviews, jobs, locks and processes keep their    *)
(* types, for any number of each.                                          *)
THEOREM TypeCorrect == Spec => []TypeOK
BY InitTyped, NextTyped, PTL DEF Spec

-----------------------------------------------------------------------------
(* The actions of a process that write an event, an execution or a review. *)
Writes(p) ==
  \/ UpsertReview(p) \/ UpsertExecution(p) \/ StartAttempt(p) \/ CommitDuplicate(p) \/ CommitEvent(p)
  \/ FailExecution(p) \/ FailReview(p) \/ ApproveReview(p) \/ ApproveLegacy(p) \/ CommitReject(p)
  \/ CommitEdit(p)

LEMMA Writers ==
  ASSUME [Next]_vars
  PROVE  \/ UNCHANGED <<log, exec, review>>
         \/ \E p \in Procs : Writes(p)
         \/ \E e \in Execs : Deliver(e)
<1>1. ASSUME NEW p \in Procs, OrchestrationStep(p) PROVE Writes(p) \/ UNCHANGED <<log, exec, review>>
  BY <1>1 DEF OrchestrationStep, Writes, FindReview, ReadExecution, EnqueueConversion
<1>2. ASSUME NEW p \in Procs, ProductionStep(p) PROVE Writes(p) \/ UNCHANGED <<log, exec, review>>
  BY <1>2 DEF ProductionStep, Writes, LoadExecution, Resend, Refuse, LockScope, CheckExecution, EnqueueSend,
              FinishProcess
<1>3. ASSUME NEW p \in Procs, ReviewStep(p) PROVE Writes(p) \/ UNCHANGED <<log, exec, review>>
  BY <1>3 DEF ReviewStep, Writes, FindLatest, AppendReevaluation
<1>4. ASSUME NEW p \in Procs, ProcessThrows(p) \/ ProcessDies(p) PROVE UNCHANGED <<log, exec, review>>
  BY <1>4 DEF ProcessThrows, ProcessDies
<1>5. ASSUME NEW e \in Execs, NEW p, NEW slot \in Slots,
             Reprocess(p, e) \/ Observe(p, e, slot) \/ RecoverEligible(p, e) \/ TakeJob(p, e, slot)
      PROVE  UNCHANGED <<log, exec, review>>
  BY <1>5 DEF Reprocess, Observe, RecoverEligible, TakeJob
<1>6. ASSUME NEW e \in Execs, NEW p, Approve(p, e) \/ Reject(p, e) \/ Edit(p, e)
      PROVE  UNCHANGED <<log, exec, review>>
  BY <1>6 DEF Approve, Reject, Edit, ReadReview
<1>7. ASSUME NEW j \in Execs \X Slots, BackoffElapses(j) \/ DetectStalled(j) PROVE UNCHANGED <<log, exec, review>>
  BY <1>7 DEF BackoffElapses, DetectStalled
<1>8. ASSUME UNCHANGED vars PROVE UNCHANGED <<log, exec, review>>
  BY <1>8 DEF vars
<1>9. "base" \in Slots
  BY DEF Slots
<1> QED
  BY <1>1, <1>2, <1>3, <1>4, <1>5, <1>6, <1>7, <1>8, <1>9 DEF Next, ProcStep

(* A process at work on an execution. *)
LEMMA Working ==
  ASSUME TypeOK, NEW p \in Procs, proc[p].pc # "idle"
  PROVE  proc[p].e \in Execs
BY ProcBusy DEF Busy

(* The event of an execution is never taken back. *)
LEMMA LogSteps ==
  ASSUME TypeOK, [Next]_vars, NEW e \in Execs, log[e] # "none"
  PROVE  log'[e] # "none"
<1>1. ASSUME NEW p \in Procs, CommitEvent(p) PROVE log'[e] # "none"
  BY <1>1 DEF CommitEvent, TypeOK
<1>2. ASSUME NEW f \in Execs, Deliver(f) PROVE log'[e] # "none"
  BY <1>2 DEF Deliver, TypeOK
<1>3. ASSUME NEW p \in Procs, Writes(p) PROVE CommitEvent(p) \/ UNCHANGED log
  BY <1>3 DEF Writes, UpsertReview, UpsertExecution, StartAttempt, CommitDuplicate, FailExecution, FailReview,
              ApproveReview, ApproveLegacy, CommitReject, CommitEdit
<1> QED
  BY <1>1, <1>2, <1>3, Writers

(* How an execution becomes materialized or a duplicate. *)
ExecMove(e) ==
  \/ exec'[e].status = exec[e].status
  \/ exec'[e].status \notin {"materialized", "duplicate"}
  \/ exec'[e].status = "materialized" /\ log'[e] # "none"
  \/ exec'[e].status = "duplicate" /\ \E p \in Procs : proc[p].pc = "duplicate" /\ proc[p].e = e

LEMMA ExecWrite ==
  ASSUME TypeOK, NEW e \in Execs, NEW f \in Execs, NEW s, NEW d, NEW tech, WriteExec(f, s, d, tech)
  PROVE  (e = f /\ exec'[e].status = s) \/ exec'[e] = exec[e]
BY DEF WriteExec, TypeOK

LEMMA ExecMoves ==
  ASSUME TypeOK, [Next]_vars, NEW e \in Execs
  PROVE  ExecMove(e)
<1> USE DEF ExecMove, ExecBecomes, On
<1>1. ASSUME NEW p \in Procs, UpsertExecution(p) PROVE ExecMove(e)
  BY <1>1, Working, ExecWrite, ProcBusy DEF UpsertExecution, Busy, Chosen
<1>2. ASSUME NEW p \in Procs, StartAttempt(p) PROVE ExecMove(e)
  BY <1>2, Working, ExecWrite DEF StartAttempt
<1>3. ASSUME NEW p \in Procs, CommitDuplicate(p) PROVE ExecMove(e)
  BY <1>3, Working, ExecWrite DEF CommitDuplicate
<1>4. ASSUME NEW p \in Procs, CommitEvent(p) PROVE ExecMove(e)
  BY <1>4, Working, ExecWrite DEF CommitEvent, TypeOK
<1>5. ASSUME NEW p \in Procs, FailExecution(p) PROVE ExecMove(e)
  BY <1>5, Working, ExecWrite DEF FailExecution
<1>6. ASSUME NEW p \in Procs, ApproveLegacy(p) PROVE ExecMove(e)
  BY <1>6, Working, ExecWrite DEF ApproveLegacy
<1>7. ASSUME NEW p \in Procs, CommitReject(p) PROVE ExecMove(e)
  BY <1>7, Working, ExecWrite DEF CommitReject
<1>8. ASSUME NEW f \in Execs, Deliver(f) PROVE ExecMove(e)
  BY <1>8, ExecWrite DEF Deliver
<1>9. ASSUME NEW p \in Procs, UpsertReview(p) \/ FailReview(p) \/ ApproveReview(p) \/ CommitEdit(p)
      PROVE  ExecMove(e)
  BY <1>9 DEF UpsertReview, FailReview, ApproveReview, CommitEdit
<1>10. ASSUME UNCHANGED exec PROVE ExecMove(e)
  BY <1>10
<1> QED
  BY <1>1, <1>2, <1>3, <1>4, <1>5, <1>6, <1>7, <1>8, <1>9, <1>10, Writers DEF Writes

(* Every write of a review takes a new version, and only an edit of the    *)
(* version that was read makes it "recognized".                            *)
ReviewMove(e) ==
  \/ review'[e] = review[e]
  \/ /\ review'[e].version = review[e].version + 1
     /\ review'[e].status = "recognized"
          => \E p \in Procs : /\ proc[p].pc = "edit" /\ proc[p].e = e
                              /\ proc[p].v = review[e].version

LEMMA ReviewWrite ==
  ASSUME TypeOK, NEW e \in Execs, NEW f \in Execs, NEW s, NEW d, NEW linked, NEW event,
         WriteReview(f, s, d, linked, event)
  PROVE  \/ e = f /\ review'[e].status = s /\ review'[e].version = review[e].version + 1
         \/ review'[e] = review[e]
BY DEF WriteReview, TypeOK

LEMMA ReviewMoves ==
  ASSUME TypeOK, [Next]_vars, NEW e \in Execs
  PROVE  ReviewMove(e)
<1> USE DEF ReviewMove, ReviewBecomes, On
<1>1. ASSUME NEW p \in Procs, UpsertReview(p) PROVE ReviewMove(e)
  BY <1>1, Working, ReviewWrite DEF UpsertReview
<1>2. ASSUME NEW p \in Procs, CommitDuplicate(p) PROVE ReviewMove(e)
  BY <1>2, Working, ReviewWrite DEF CommitDuplicate
<1>3. ASSUME NEW p \in Procs, CommitEvent(p) PROVE ReviewMove(e)
  BY <1>3, Working, ReviewWrite DEF CommitEvent
<1>4. ASSUME NEW p \in Procs, FailReview(p) PROVE ReviewMove(e)
  BY <1>4, Working, ReviewWrite DEF FailReview
<1>5. ASSUME NEW p \in Procs, ApproveReview(p) PROVE ReviewMove(e)
  BY <1>5, Working, ReviewWrite DEF ApproveReview
<1>6. ASSUME NEW p \in Procs, ApproveLegacy(p) PROVE ReviewMove(e)
  BY <1>6, Working, ReviewWrite DEF ApproveLegacy
<1>7. ASSUME NEW p \in Procs, CommitReject(p) PROVE ReviewMove(e)
  BY <1>7, Working, ReviewWrite DEF CommitReject
<1>8. ASSUME NEW p \in Procs, CommitEdit(p) PROVE ReviewMove(e)
  BY <1>8, Working, ReviewWrite DEF CommitEdit
<1>9. ASSUME NEW f \in Execs, Deliver(f) PROVE ReviewMove(e)
  BY <1>9, ReviewWrite DEF Deliver
<1>10. ASSUME NEW p \in Procs, UpsertExecution(p) \/ StartAttempt(p) \/ FailExecution(p) PROVE ReviewMove(e)
  BY <1>10 DEF UpsertExecution, StartAttempt, FailExecution
<1>11. ASSUME UNCHANGED review PROVE ReviewMove(e)
  BY <1>11
<1> QED
  BY <1>1, <1>2, <1>3, <1>4, <1>5, <1>6, <1>7, <1>8, <1>9, <1>10, <1>11, Writers DEF Writes

(* How a process gets to an edit or to a duplicate. *)
ProcMove(p) ==
  \/ proc'[p] = proc[p]
  \/ proc'[p].pc \notin {"edit", "duplicate"}
  \/ /\ proc'[p].pc = "edit" /\ UNCHANGED review
     /\ proc'[p].e \in Execs /\ proc'[p].v = review[proc'[p].e].version /\ ~review[proc'[p].e].event
  \/ proc'[p].pc = "duplicate" /\ proc'[p].e = proc[p].e /\ HasDuplicate(proc[p].e) /\ proc[p].e \in Execs

(* Process p goes on to one of the steps that are not guarded. *)
Ordinary == Plain \ {"edit", "duplicate"}

LEMMA ProcMoves ==
  ASSUME TypeOK, [Next]_vars, NEW q \in Procs
  PROVE  ProcMove(q)
<1> USE DEF On
<1>1. ASSUME NEW p \in Procs, proc[p].pc # "idle", NEW pc \in PCs \ {"idle", "edit", "duplicate"},
             pc \in Plain \/ proc[p].res \in Chosen, Goto(p, pc)
      PROVE  ProcMove(q)
  BY <1>1, GotoMoves DEF Moves, ProcMove
<1>2. ASSUME NEW p \in Procs, proc[p].pc # "idle", NEW pc \in Ordinary, NEW res \in Results, Result(p, pc, res)
      PROVE  ProcMove(q)
  BY <1>2, ResultMoves DEF Moves, ProcMove, Ordinary
<1>3. ASSUME NEW p \in Procs, Stop(p) PROVE ProcMove(q)
  BY <1>3, StopStays DEF ProcMove, Idle, Begin
<1>4. ASSUME NEW p \in Procs, NEW e, NEW slot, NEW d, NEW res, NEW pc \in {"read", "findReview", "enqueue", "load", "idle"},
             proc' = [proc EXCEPT ![p] = Begin(pc, e, slot, d, res)]
      PROVE  ProcMove(q)
  BY <1>4 DEF TypeOK, Begin, ProcMove
<1>5. ASSUME NEW p \in Operators, NEW e \in Execs, Approve(p, e) \/ Reject(p, e) PROVE ProcMove(q)
  <2>1. PICK pc \in {"load", "latest", "approveLegacy", "reject"} : ReadReview(p, e, pc)
    BY <1>5 DEF Approve, Reject
  <2> QED
    BY <2>1 DEF ReadReview, TypeOK, ProcMove
<1>6. ASSUME NEW p \in Operators, NEW e \in Execs, Edit(p, e) PROVE ProcMove(q)
  <2>1. ReadReview(p, e, "correct") \/ (~review[e].event /\ ReadReview(p, e, "edit"))
    BY <1>6 DEF Edit
  <2> QED
    BY <2>1 DEF ReadReview, TypeOK, ProcMove, ReviewRecs
<1>7. ASSUME NEW p \in Procs, OrchestrationStep(p) PROVE ProcMove(q)
  <2>1. \/ Stop(p)
        \/ proc[p].pc # "idle" /\ \E pc \in {"upsertReview", "approve", "enqueue"} : Goto(p, pc)
        \/ proc[p].pc = "read" /\ Goto(p, "upsert")
    BY <1>7 DEF OrchestrationStep, FindReview, UpsertReview, ReadExecution, UpsertExecution, EnqueueConversion,
                Orchestrated
  <2>2. proc[p].pc = "read" => proc[p].res \in Chosen
    BY ProcBusy DEF Busy
  <2> QED
    BY <2>1, <2>2, <1>1, <1>3 DEF Plain, PCs
<1>8. ASSUME NEW p \in Procs, CheckExecution(p) PROVE ProcMove(q)
  <2>1. proc[p].pc # "idle" /\ proc[p].e \in Execs
    BY <1>8, Working DEF CheckExecution
  <2>2. \/ Result(p, "done", "ok") \/ Result(p, "fail", "permanent") \/ Goto(p, "record")
        \/ HasDuplicate(proc[p].e) /\ Goto(p, "duplicate")
    BY <1>8 DEF CheckExecution
  <2>3. CASE HasDuplicate(proc[p].e) /\ Goto(p, "duplicate")
    <3>1. Moves(p, "duplicate")
      BY <2>1, <2>3, GotoMoves DEF Plain, PCs
    <3> QED
      BY <2>1, <2>3, <3>1 DEF Moves, ProcMove
  <2> QED
    BY <2>1, <2>2, <2>3, <1>1, <1>2 DEF Ordinary, Plain, PCs, Results
<1>9. ASSUME NEW p \in Procs, LoadExecution(p) PROVE ProcMove(q)
  BY <1>9 DEF LoadExecution, TypeOK, ProcMove
<1>10. ASSUME NEW p \in Procs, ProductionStep(p) PROVE ProcMove(q)
  <2>1. \/ CheckExecution(p) \/ LoadExecution(p) \/ Stop(p)
        \/ proc[p].pc # "idle" /\ \E pc \in {"lock", "check", "send", "failReview", "done"} : Goto(p, pc)
        \/ proc[p].pc # "idle" /\ \E res \in {"ok", "permanent", "configuration"}, pc \in {"done", "fail"} : Result(p, pc, res)
    BY <1>10, RefusedAs DEF ProductionStep, Resend, StartAttempt, Refuse, LockScope, CommitDuplicate, CommitEvent, EnqueueSend,
                 FailExecution, FailReview, FinishProcess
  <2> QED
    BY <2>1, <1>1, <1>2, <1>3, <1>8, <1>9 DEF Ordinary, Plain, PCs, Results
<1>11. ASSUME NEW p \in Procs, ReviewStep(p) PROVE ProcMove(q)
  <2>1. \/ Stop(p)
        \/ proc[p].pc # "idle" /\ Goto(p, "load")
        \/ \E pc \in {"append", "read"} : \E d : Decide(p, pc, d)
    <3>1. ASSUME FindLatest(p) \/ AppendReevaluation(p)
          PROVE  Stop(p) \/ \E pc \in {"append", "read"} : \E d : Decide(p, pc, d)
      <4>1. CASE FindLatest(p)
        <5>1. Decide(p, "append", Len(decs[proc[p].e]))
          BY <4>1 DEF FindLatest
        <5> QED
          BY <5>1, Zenon
      <4>2. CASE AppendReevaluation(p)
        <5>1. \/ \E i \in {k \in DOMAIN decs[proc[p].e] : decs[proc[p].e][k].key = proc[p].v} : Decide(p, "read", i)
              \/ Decide(p, "read", proc[p].d + 1)
              \/ Stop(p)
          BY <4>2 DEF AppendReevaluation
        <5> QED
          BY <5>1, Zenon
      <4> QED
        BY <3>1, <4>1, <4>2
    <3>2. ASSUME ApproveReview(p) \/ ApproveLegacy(p) \/ CommitReject(p) \/ CommitEdit(p)
          PROVE  Stop(p) \/ (proc[p].pc # "idle" /\ Goto(p, "load"))
      BY <3>2 DEF ApproveReview, ApproveLegacy, CommitReject, CommitEdit
    <3> QED
      BY <1>11, <3>1, <3>2, Zenon DEF ReviewStep
  <2>2. ASSUME NEW pc \in {"append", "read"}, NEW d, Decide(p, pc, d) PROVE ProcMove(q)
    <3>1. proc'[q] = proc[q] \/ proc'[q].pc = pc
      BY <2>2 DEF Decide, TypeOK, ProcRecs, Idle, Begin
    <3> QED
      BY <3>1 DEF ProcMove
  <2> QED
    BY <2>1, <2>2, <1>1, <1>3 DEF Plain, PCs
<1>12. ASSUME NEW p \in Procs, ProcessThrows(p) \/ ProcessDies(p) PROVE ProcMove(q)
  <2>1. \/ Stop(p)
        \/ proc[p].pc # "idle" /\ \E pc \in {"fail", "done"} : Result(p, pc, "retryable")
    BY <1>12 DEF ProcessThrows, ProcessDies, InTransaction
  <2> QED
    BY <2>1, <1>2, <1>3 DEF Ordinary, Plain, PCs, Results
<1>13. ASSUME UNCHANGED proc PROVE ProcMove(q)
  BY <1>13 DEF ProcMove
<1>14. ASSUME NEW e \in Execs, NEW p \in Procs, NEW slot \in Slots,
              Reprocess(p, e) \/ Observe(p, e, slot) \/ RecoverEligible(p, e) \/ TakeJob(p, e, slot)
       PROVE  ProcMove(q)
  <2>1. CASE Observe(p, e, slot)
    <3>1. PICK first \in FirstOutcomes, disposition \in Dispositions :
            LET known == IF decs[e] = <<>> THEN <<[outcome |-> first, key |-> 0]>> ELSE decs[e]
                d == Len(known) IN
            /\ decs' = [decs EXCEPT ![e] = known]
            /\ proc' = [proc EXCEPT ![p] =
                 CASE known[d].outcome = "eligible" -> Begin("read", e, slot, d, disposition)
                   [] known[d].outcome = "review" -> Begin("findReview", e, "base", d, "none")
                   [] OTHER -> Idle]
      BY <2>1 DEF Observe
    <3> DEFINE known == IF decs[e] = <<>> THEN <<[outcome |-> first, key |-> 0]>> ELSE decs[e]
               d == Len(known)
               out == known[d].outcome
    <3>2. proc' = [proc EXCEPT ![p] =
              CASE out = "eligible" -> Begin("read", e, slot, d, disposition)
                [] out = "review" -> Begin("findReview", e, "base", d, "none")
                [] OTHER -> Idle]
      BY <3>1, Zenon
    <3> HIDE DEF known, d, out
    <3>3. \/ proc' = [proc EXCEPT ![p] = Begin("read", e, slot, d, disposition)]
          \/ proc' = [proc EXCEPT ![p] = Begin("findReview", e, "base", d, "none")]
          \/ Stop(p)
      BY <3>2 DEF Stop
    <3> QED
      BY <3>3, <1>3, <1>4
  <2>2. CASE Reprocess(p, e) \/ RecoverEligible(p, e) \/ TakeJob(p, e, slot)
    BY <2>2, <1>4 DEF Reprocess, RecoverEligible, TakeJob
  <2> QED
    BY <1>14, <2>1, <2>2
<1>15. ASSUME \/ \E e \in Execs : Deliver(e)
              \/ \E j \in Execs \X Slots : BackoffElapses(j) \/ DetectStalled(j)
              \/ UNCHANGED vars
       PROVE  UNCHANGED proc
  BY <1>15 DEF Deliver, BackoffElapses, DetectStalled, vars
<1>16. Workers \subseteq Procs /\ Observers \subseteq Procs /\ Maintainers \subseteq Procs /\ Operators \subseteq Procs
       /\ "base" \in Slots
  BY DEF Procs, Slots
<1> QED
  BY <1>5, <1>6, <1>7, <1>10, <1>11, <1>12, <1>13, <1>14, <1>15, <1>16 DEF Next, ProcStep

-----------------------------------------------------------------------------
(* A materialized execution has its event, and a process that is about to  *)
(* drop a duplicate has seen one that is materialized.                     *)
OriginalRecorded ==
  /\ DuplicateHasOriginal
  /\ \A e \in Execs : exec[e].status = "materialized" => Recorded(e)
  /\ \A p \in Procs : proc[p].pc = "duplicate" => \E f \in Execs : IsNear(proc[p].e, f) /\ Recorded(f)

LEMMA OriginalRecordedNext ==
  ASSUME TypeOK, OriginalRecorded, [Next]_vars
  PROVE  OriginalRecorded'
<1> USE DEF OriginalRecorded, Recorded
<1>1. ASSUME NEW e \in Execs, exec'[e].status = "materialized" PROVE log'[e] # "none"
  BY <1>1, ExecMoves, LogSteps DEF ExecMove
<1>2. ASSUME NEW e \in Execs, exec'[e].status = "duplicate"
      PROVE  \E f \in Execs : IsNear(e, f) /\ log'[f] # "none"
  <2>1. exec[e].status = "duplicate" \/ \E p \in Procs : proc[p].pc = "duplicate" /\ proc[p].e = e
    BY <1>2, ExecMoves DEF ExecMove
  <2>2. \E f \in Execs : IsNear(e, f) /\ log[f] # "none"
    BY <2>1 DEF DuplicateHasOriginal
  <2> QED
    BY <2>2, LogSteps
<1>3. ASSUME NEW p \in Procs, proc'[p].pc = "duplicate"
      PROVE  \E f \in Execs : IsNear(proc'[p].e, f) /\ log'[f] # "none"
  <2>1. proc'[p].e = proc[p].e /\ (proc[p].pc = "duplicate" \/ HasDuplicate(proc[p].e))
    BY <1>3, ProcMoves DEF ProcMove
  <2>2. \E f \in Execs : IsNear(proc[p].e, f) /\ log[f] # "none"
    BY <2>1 DEF HasDuplicate
  <2> QED
    BY <2>1, <2>2, LogSteps
<1> QED
  BY <1>1, <1>2, <1>3 DEF DuplicateHasOriginal, IsNear

(* An execution is a duplicate only when another one of the window has its *)
(* event, with any number of workers, operators, repeated observations and *)
(* executions without a decision: what makes an execution materialized     *)
(* records its event in the same transaction, and events stay.             *)
THEOREM DuplicatesHaveOriginals == Spec => []DuplicateHasOriginal
<1>1. Init => OriginalRecorded
  BY DEF Init, OriginalRecorded, DuplicateHasOriginal, Recorded, Idle, Begin
<1>2. OriginalRecorded => DuplicateHasOriginal
  BY DEF OriginalRecorded
<1> QED
  BY <1>1, <1>2, OriginalRecordedNext, TypeCorrect, PTL DEF Spec

(* The version an edit has read is not newer than the review's, and while  *)
(* it is the review's the purchase has no event.                           *)
EditCurrent ==
  \A p \in Procs : proc[p].pc = "edit" =>
    /\ proc[p].v <= review[proc[p].e].version
    /\ proc[p].v = review[proc[p].e].version => ~review[proc[p].e].event

LEMMA EditCurrentNext ==
  ASSUME TypeOK, EditCurrent, [Next]_vars
  PROVE  EditCurrent'
<1> SUFFICES ASSUME NEW p \in Procs, proc'[p].pc = "edit"
             PROVE  /\ proc'[p].v <= review'[proc'[p].e].version
                    /\ proc'[p].v = review'[proc'[p].e].version => ~review'[proc'[p].e].event
  BY DEF EditCurrent
<1>1. CASE proc'[p] = proc[p]
  <2>1. proc[p].e \in Execs /\ proc[p].v \in Nat
    BY <1>1, ProcBusy DEF Busy
  <2>2. review[proc[p].e].version \in Nat
    BY <2>1 DEF TypeOK, ReviewRecs
  <2>3. ReviewMove(proc[p].e)
    BY <2>1, ReviewMoves
  <2> QED
    BY <1>1, <2>1, <2>2, <2>3 DEF EditCurrent, ReviewMove
<1>2. CASE /\ UNCHANGED review
           /\ proc'[p].e \in Execs /\ proc'[p].v = review[proc'[p].e].version /\ ~review[proc'[p].e].event
  BY <1>2 DEF TypeOK, ReviewRecs
<1> QED
  BY <1>1, <1>2, ProcMoves DEF ProcMove

(* No edit that began before the event of a purchase is applied after it,  *)
(* whatever other operators, workers and repeated observations do: all of  *)
(* their writes take a new version, and the edit asks for the one it read. *)
THEOREM NoEditAfterEvent == Spec => EditedBeforeEvent
<1>1. Init => EditCurrent
  BY DEF Init, EditCurrent, Idle, Begin
<1>2. ASSUME TypeOK, EditCurrent, [Next]_vars
      PROVE  [\A e \in Execs : review[e].event /\ review'[e].status = "recognized"
                => review[e].status = "recognized"]_vars
  <2> SUFFICES ASSUME NEW e \in Execs, review[e].event, review'[e].status = "recognized"
               PROVE  review[e].status = "recognized"
    OBVIOUS
  <2>1. ReviewMove(e)
    BY <1>2, ReviewMoves
  <2> QED
    BY <1>2, <2>1 DEF ReviewMove, EditCurrent
<1> QED
  BY <1>1, <1>2, EditCurrentNext, TypeCorrect, PTL DEF Spec, EditedBeforeEvent

-----------------------------------------------------------------------------
(* One event per scope.  What keeps two occurrences of the window apart is *)
(* the lock of the scope; it does so as long as both take the same one and *)
(* a materialized execution stays visible to the check.                    *)

LegacyApart == \A e \in Legacy, f \in Execs : ~IsNear(e, f)

(* The steps that hold a decision of the occurrence. *)
Deciding == {"read", "upsert", "findReview", "upsertReview", "approve"}

(* The steps of an attempt, from its start to the commit. *)
Attempting == {"start", "lock"} \cup InTransaction

(* An execution that is no legacy has a decision once it exists, so each   *)
(* attempt on it takes the lock of the scope.                              *)
Decided ==
  /\ \A p \in Procs :
       /\ proc[p].pc \in Deciding => proc[p].d # 0
       /\ proc[p].pc = "approveLegacy" => proc[p].e \in Legacy
       /\ proc[p].pc \in Attempting /\ proc[p].e \notin Legacy
            => proc[p].d # 0 /\ exec[proc[p].e].decision # 0
  /\ \A e \in Execs \ Legacy :
       /\ exec[e].decision = 0 => exec[e].status = "absent"
       /\ review[e].linked => review[e].decision # 0

LocksHeld == \A p \in Procs : proc[p].pc \in InTransaction => lock[LockOf(p)] = {p}

(* A recorded execution is materialized, and who is about to record one    *)
(* has no recorded neighbour.                                              *)
ScopeGuarded ==
  /\ \A e \in Execs \ Legacy : Recorded(e) => exec[e].status = "materialized"
  /\ \A p \in Procs : proc[p].pc = "record" => \A f \in Execs : IsNear(proc[p].e, f) => ~Recorded(f)
  /\ OneEventPerScope

ScopeInv == Decided /\ LocksHeld /\ ScopeGuarded

(* The steps that are about an execution that exists. *)
Producing == Attempting \cup {"enqueue", "load", "send", "resend", "fail", "failReview", "done"}

Observing == {"read", "upsert"}

(* Without operators and repeated observations the one observation of an   *)
(* occurrence writes its execution first, and all attempts on it take the  *)
(* same lock.                                                              *)
WrittenOnce ==
  /\ \A p \in Procs :
       /\ proc[p].pc \in {"idle", "findReview", "upsertReview"} \cup Observing \cup Producing
       /\ proc[p].pc \in Observing => exec[proc[p].e].status = "absent" /\ decs[proc[p].e] # <<>>
       /\ proc[p].pc \in Producing => exec[proc[p].e].status # "absent"
       /\ proc[p].pc \in Attempting => proc[p].d = exec[proc[p].e].decision
       /\ proc[p].pc \in {"duplicate", "record"} => exec[proc[p].e].status # "materialized"
       /\ \A q \in Procs \ {p} :
            proc[p].pc \in Observing /\ proc[q].pc \in Observing => proc[p].e # proc[q].e
  /\ \A e \in Execs \ Legacy : decs[e] = <<>> => exec[e].status = "absent"
  /\ \A j \in Execs \X Slots : job[j].state # "none" => exec[j[1]].status # "absent"

(* How a process gets from one step to the next. *)
Kept(p) == proc'[p].e = proc[p].e /\ proc'[p].d = proc[p].d

ToReview(p) ==
  /\ proc'[p].pc \in {"latest", "append", "reject", "edit", "correct"}
  /\ p \in Operators \/ proc[p].pc = "latest"

ToLegacy(p) ==
  /\ proc'[p].pc = "approveLegacy" /\ p \in Operators /\ proc'[p].e \in Execs
  /\ review[proc'[p].e].linked /\ review[proc'[p].e].decision = 0

ToDecide(p) ==
  \/ proc'[p].pc = "upsertReview" /\ proc[p].pc = "findReview" /\ Kept(p)
  \/ proc'[p].pc = "upsert" /\ proc[p].pc = "read" /\ Kept(p) /\ UNCHANGED <<exec, decs>>
  \/ proc'[p].pc = "approve" /\ proc[p].pc \in Observing /\ Kept(p) /\ p \in Operators
  \/ proc'[p].pc = "read" /\ proc[p].pc = "append" /\ proc'[p].d # 0
  \/ /\ proc'[p].pc \in {"read", "findReview"} /\ proc'[p].d # 0 /\ proc'[p].e \in Execs
     /\ (decs[proc'[p].e] = <<>> /\ proc'[p].e \notin Legacy) \/ proc'[p].e \in Repeated
     /\ decs'[proc'[p].e] # <<>> /\ UNCHANGED exec

ToProduce(p) ==
  \/ /\ proc'[p].pc = "enqueue" /\ proc'[p].e \in Execs
     /\ exec'[proc'[p].e].status # "absent"
  \/ /\ proc'[p].pc = "load" /\ proc'[p].e \in Execs /\ UNCHANGED exec
     /\ \E slot \in Slots : job[<<proc'[p].e, slot>>].state # "none"
  \/ /\ proc'[p].pc = "load"
     /\ p \in Operators \/ proc[p].pc \in {"approve", "approveLegacy"}
  \/ /\ proc'[p].pc \in {"resend", "send", "fail", "failReview", "done"}
     /\ proc[p].pc \in Producing /\ proc'[p].e = proc[p].e

ToAttempt(p) ==
  \/ /\ proc'[p].pc = "start" /\ proc[p].pc = "load" /\ proc'[p].e = proc[p].e
     /\ proc'[p].d = exec[proc[p].e].decision /\ exec[proc[p].e].status \in {"eligible", "failed"}
     /\ UNCHANGED exec
  \/ proc'[p].pc = "lock" /\ proc[p].pc = "start" /\ Kept(p)
  \/ /\ proc'[p].pc = "check" /\ proc[p].pc = "lock" /\ Kept(p)
     /\ lock[LockOf(p)] = {} /\ lock' = [lock EXCEPT ![LockOf(p)] = {p}] /\ UNCHANGED exec
  \/ /\ proc'[p].pc \in {"duplicate", "record"} /\ proc[p].pc = "check" /\ Kept(p)
     /\ exec[proc[p].e].status \in {"eligible", "failed"}
     /\ proc'[p].pc = "record" => ~HasDuplicate(proc[p].e)
     /\ UNCHANGED <<lock, exec, log>>

PhaseMove(p) ==
  \/ proc'[p] = proc[p] \/ proc'[p].pc = "idle"
  \/ ToReview(p) \/ ToLegacy(p) \/ ToDecide(p) \/ ToProduce(p) \/ ToAttempt(p)

LEMMA GotoKeeps ==
  ASSUME TypeOK, NEW p \in Procs, proc[p].pc # "idle", NEW pc \in PCs \ {"idle"}, Goto(p, pc)
  PROVE  /\ proc'[p].pc = pc /\ Kept(p)
         /\ \A q \in Procs \ {p} : proc'[q] = proc[q]
<1>1. proc[p] \in BusyRecs
  BY ProcRecord
<1>2. ASSUME NEW r \in BusyRecs
      PROVE  /\ [r EXCEPT !.pc = pc].pc = pc
             /\ [r EXCEPT !.pc = pc].e = r.e /\ [r EXCEPT !.pc = pc].d = r.d
  BY DEF BusyRecs
<1>3. proc'[p] = [proc[p] EXCEPT !.pc = pc] /\ \A q \in Procs \ {p} : proc'[q] = proc[q]
  BY DEF Goto, TypeOK
<1> QED
  BY <1>1, <1>2, <1>3 DEF Kept

LEMMA DecideSets ==
  ASSUME TypeOK, NEW p \in Procs, proc[p].pc # "idle", NEW pc \in {"append", "read"}, NEW d, Decide(p, pc, d)
  PROVE  /\ proc'[p].pc = pc /\ proc'[p].d = d
         /\ \A q \in Procs \ {p} : proc'[q] = proc[q]
<1>1. PICK r \in BusyRecs : r = proc[p]
  BY ProcRecord
<1>2. PICK x : x = [r EXCEPT !.pc = pc]
  OBVIOUS
<1>3. DOMAIN x = DOMAIN r /\ x.pc = pc /\ "d" \in DOMAIN r /\ "pc" \in DOMAIN r
  BY <1>2 DEF BusyRecs
<1>4. [x EXCEPT !.d = d].pc = pc /\ [x EXCEPT !.d = d].d = d
  BY <1>3
<1>5. proc'[p] = [x EXCEPT !.d = d] /\ \A q \in Procs \ {p} : proc'[q] = proc[q]
  BY <1>1, <1>2 DEF Decide, TypeOK
<1> QED
  BY <1>4, <1>5

(* Every step moves at most one process. *)
Mover(p) == PhaseMove(p) /\ \A q \in Procs \ {p} : proc'[q] = proc[q]

LEMMA StopMover ==
  ASSUME TypeOK, NEW p \in Procs, Stop(p)
  PROVE  Mover(p)
BY StopStays DEF Mover, PhaseMove, Idle, Begin

(* A process at work that goes on to another step of the production. *)
LEMMA ProduceMover ==
  ASSUME TypeOK, NEW p \in Procs, proc[p].pc \in Producing,
         NEW pc \in {"resend", "send", "fail", "failReview", "done"}, Moves(p, pc)
  PROVE  Mover(p)
BY DEF Mover, PhaseMove, ToProduce, Moves

LEMMA OrchestrationMover ==
  ASSUME TypeOK, NEW p \in Procs, OrchestrationStep(p)
  PROVE  Mover(p)
<1> USE DEF On
<1>1. CASE FindReview(p)
  <2>1. Stop(p) \/ Goto(p, "upsertReview")
    BY <1>1 DEF FindReview
  <2>2. CASE Goto(p, "upsertReview")
    BY <1>1, <2>2, GotoKeeps DEF FindReview, Mover, PhaseMove, ToDecide, PCs
  <2> QED
    BY <2>1, <2>2, StopMover
<1>2. CASE ReadExecution(p)
  <2>0. proc[p].pc = "read" /\ UNCHANGED <<exec, decs>> /\ proc[p].e \in Execs
    BY <1>2, Working DEF ReadExecution
  <2>1. \/ Stop(p) \/ Goto(p, "upsert")
        \/ Goto(p, "approve") /\ p \in Operators
        \/ Goto(p, "enqueue") /\ exec[proc[p].e].status = "eligible"
    BY <1>2 DEF ReadExecution, Orchestrated
  <2>2. CASE Goto(p, "upsert")
    BY <2>0, <2>2, GotoKeeps DEF Mover, PhaseMove, ToDecide, PCs
  <2>3. CASE Goto(p, "approve") /\ p \in Operators
    BY <2>0, <2>3, GotoKeeps DEF Mover, PhaseMove, ToDecide, PCs, Observing
  <2>4. CASE Goto(p, "enqueue") /\ exec[proc[p].e].status = "eligible"
    BY <2>0, <2>4, GotoKeeps DEF Mover, PhaseMove, ToProduce, PCs, Kept
  <2> QED
    BY <2>1, <2>2, <2>3, <2>4, StopMover
<1>3. CASE UpsertExecution(p)
  <2>0. proc[p].pc = "upsert" /\ proc[p].e \in Execs
    BY <1>3, Working DEF UpsertExecution
  <2>1. \/ Stop(p)
        \/ Goto(p, "approve") /\ p \in Operators
        \/ Goto(p, "enqueue") /\ proc[p].res = "eligible"
    BY <1>3 DEF UpsertExecution, Orchestrated
  <2>2. exec'[proc[p].e].status = proc[p].res
    BY <1>3, <2>0 DEF UpsertExecution, WriteExec, TypeOK
  <2>3. CASE Goto(p, "approve") /\ p \in Operators
    BY <2>0, <2>3, GotoKeeps DEF Mover, PhaseMove, ToDecide, PCs, Observing
  <2>4. CASE Goto(p, "enqueue") /\ proc[p].res = "eligible"
    BY <2>0, <2>2, <2>4, GotoKeeps DEF Mover, PhaseMove, ToProduce, PCs, Kept
  <2> QED
    BY <2>1, <2>3, <2>4, StopMover
<1>4. CASE UpsertReview(p) \/ EnqueueConversion(p)
  BY <1>4, StopMover DEF UpsertReview, EnqueueConversion
<1> QED
  BY <1>1, <1>2, <1>3, <1>4 DEF OrchestrationStep

LEMMA ProductionMover ==
  ASSUME TypeOK, NEW p \in Procs, ProductionStep(p)
  PROVE  Mover(p)
<1> USE DEF On, Producing, Attempting, InTransaction
<1>1. CASE LoadExecution(p)
  <2>1. /\ proc[p].pc = "load" /\ UNCHANGED exec
        /\ proc'[p].e = proc[p].e /\ proc'[p].d = exec[proc[p].e].decision
        /\ proc'[p].pc \in {"start", "resend", "done"}
        /\ proc'[p].pc = "start" => exec[proc[p].e].status \in {"eligible", "failed"}
        /\ \A q \in Procs \ {p} : proc'[q] = proc[q]
    BY <1>1 DEF LoadExecution, TypeOK
  <2> QED
    BY <2>1 DEF Mover, PhaseMove, ToProduce, ToAttempt
<1>2. CASE StartAttempt(p)
  BY <1>2, GotoKeeps DEF StartAttempt, Mover, PhaseMove, ToAttempt, PCs
<1>3. CASE LockScope(p)
  BY <1>3, GotoKeeps DEF LockScope, Mover, PhaseMove, ToAttempt, PCs
<1>4. CASE CheckExecution(p)
  <2>1. \/ Result(p, "done", "ok") \/ Result(p, "fail", "permanent")
        \/ /\ \E pc \in {"duplicate", "record"} : Goto(p, pc) /\ (pc = "record" => ~HasDuplicate(proc[p].e))
           /\ exec[proc[p].e].status \in {"eligible", "failed"} /\ UNCHANGED <<lock, exec, log>>
    BY <1>4 DEF CheckExecution
  <2>2. CASE /\ \E pc \in {"duplicate", "record"} : Goto(p, pc) /\ (pc = "record" => ~HasDuplicate(proc[p].e))
             /\ exec[proc[p].e].status \in {"eligible", "failed"} /\ UNCHANGED <<lock, exec, log>>
    <3>1. PICK pc \in {"duplicate", "record"} : Goto(p, pc) /\ (pc = "record" => ~HasDuplicate(proc[p].e))
      BY <2>2
    <3>2. proc[p].pc = "check"
      BY <1>4 DEF CheckExecution
    <3>3. proc'[p].pc = pc /\ Kept(p) /\ \A q \in Procs \ {p} : proc'[q] = proc[q]
      BY <3>1, <3>2, GotoKeeps DEF PCs
    <3> QED
      BY <2>2, <3>1, <3>2, <3>3 DEF Mover, PhaseMove, ToAttempt
  <2> QED
    BY <1>4, <2>1, <2>2, ResultMoves, ProduceMover DEF CheckExecution, Plain, PCs, Results
<1>5. CASE FailExecution(p) \/ FailReview(p)
  BY <1>5, GotoMoves, ProduceMover DEF FailExecution, FailReview, Plain, PCs
<1>6. CASE CommitEvent(p)
  BY <1>6, GotoMoves, ResultMoves, ProduceMover DEF CommitEvent, Plain, PCs, Results
<1>7. CASE Resend(p) \/ CommitDuplicate(p) \/ EnqueueSend(p)
  BY <1>7, ResultMoves, ProduceMover DEF Resend, CommitDuplicate, EnqueueSend, Plain, PCs, Results
<1>8. CASE Refuse(p)
  <2>1. PICK res \in {"permanent", "configuration"} : Result(p, "fail", res)
    BY <1>8, RefusedAs
  <2> QED
    BY <1>8, <2>1, ResultMoves, ProduceMover DEF Refuse, Plain, PCs, Results
<1>9. CASE FinishProcess(p)
  BY <1>9, StopMover DEF FinishProcess
<1> QED
  BY <1>1, <1>2, <1>3, <1>4, <1>5, <1>6, <1>7, <1>8, <1>9 DEF ProductionStep

LEMMA ReviewMover ==
  ASSUME TypeOK, NEW p \in Procs, ReviewStep(p)
  PROVE  Mover(p)
<1> USE DEF On
<1>1. CASE FindLatest(p)
  BY <1>1, DecideSets DEF FindLatest, Mover, PhaseMove, ToReview
<1>2. CASE AppendReevaluation(p)
  <2>1. proc[p].pc = "append" /\ proc[p].e \in Execs /\ proc[p].d \in Nat
    BY <1>2, ProcBusy DEF AppendReevaluation, Busy
  <2>2. decs[proc[p].e] \in Seq(Decisions)
    BY <2>1 DEF TypeOK
  <2>3. \/ \E i \in {k \in DOMAIN decs[proc[p].e] : decs[proc[p].e][k].key = proc[p].v} : Decide(p, "read", i)
        \/ Decide(p, "read", proc[p].d + 1)
        \/ Stop(p)
    BY <1>2 DEF AppendReevaluation
  <2>4. Stop(p) \/ \E d \in Nat \ {0} : Decide(p, "read", d)
    BY <2>1, <2>2, <2>3
  <2>5. ASSUME NEW d \in Nat \ {0}, Decide(p, "read", d) PROVE Mover(p)
    BY <2>1, <2>5, DecideSets DEF Mover, PhaseMove, ToDecide
  <2> QED
    BY <2>4, <2>5, StopMover
<1>3. CASE ApproveReview(p) \/ ApproveLegacy(p)
  <2>1. proc[p].pc \in {"approve", "approveLegacy"} /\ (Stop(p) \/ Goto(p, "load"))
    BY <1>3 DEF ApproveReview, ApproveLegacy
  <2>2. CASE Goto(p, "load")
    BY <2>1, <2>2, GotoKeeps DEF Mover, PhaseMove, ToProduce, PCs
  <2> QED
    BY <2>1, <2>2, StopMover
<1>4. CASE CommitReject(p) \/ CommitEdit(p)
  BY <1>4, StopMover DEF CommitReject, CommitEdit
<1> QED
  BY <1>1, <1>2, <1>3, <1>4 DEF ReviewStep

LEMMA RequestMover ==
  ASSUME TypeOK, NEW p \in Procs, NEW e \in Execs, NEW slot \in Slots,
         \/ Reprocess(p, e) \/ RecoverEligible(p, e) \/ TakeJob(p, e, slot) \/ Observe(p, e, slot)
         \/ p \in Operators /\ (Approve(p, e) \/ Reject(p, e) \/ Edit(p, e))
  PROVE  Mover(p)
<1>1. CASE Reprocess(p, e) \/ RecoverEligible(p, e)
  <2>1. /\ exec[e].status # "absent" /\ UNCHANGED exec
        /\ proc' = [proc EXCEPT ![p] = Begin("enqueue", e, proc'[p].slot, 0, "none")]
    BY <1>1 DEF Reprocess, RecoverEligible, TypeOK, Begin
  <2> QED
    BY <2>1 DEF Mover, PhaseMove, ToProduce, Begin, TypeOK
<1>2. CASE TakeJob(p, e, slot)
  BY <1>2 DEF TakeJob, TypeOK, Begin, Mover, PhaseMove, ToProduce
<1>3. CASE Observe(p, e, slot)
  <2>1. PICK first \in FirstOutcomes, disposition \in Dispositions :
          LET known == IF decs[e] = <<>> THEN <<[outcome |-> first, key |-> 0]>> ELSE decs[e]
              d == Len(known) IN
          /\ decs' = [decs EXCEPT ![e] = known]
          /\ proc' = [proc EXCEPT ![p] =
               CASE known[d].outcome = "eligible" -> Begin("read", e, slot, d, disposition)
                 [] known[d].outcome = "review" -> Begin("findReview", e, "base", d, "none")
                 [] OTHER -> Idle]
    BY <1>3 DEF Observe
  <2> DEFINE known == IF decs[e] = <<>> THEN <<[outcome |-> first, key |-> 0]>> ELSE decs[e]
             d == Len(known)
             out == known[d].outcome
  <2>2. /\ decs' = [decs EXCEPT ![e] = known]
        /\ proc' = [proc EXCEPT ![p] =
             CASE out = "eligible" -> Begin("read", e, slot, d, disposition)
               [] out = "review" -> Begin("findReview", e, "base", d, "none")
               [] OTHER -> Idle]
    BY <2>1, Zenon
  <2>3. decs[e] \in Seq(Decisions)
    BY DEF TypeOK
  <2>4. known # <<>> /\ d # 0
    BY <2>3
  <2>5. decs'[e] # <<>> /\ UNCHANGED exec /\ ((decs[e] = <<>> /\ e \notin Legacy) \/ e \in Repeated)
    BY <1>3, <2>2, <2>4 DEF Observe, TypeOK
  <2> HIDE DEF known, d, out
  <2>6. \/ proc' = [proc EXCEPT ![p] = Begin("read", e, slot, d, disposition)]
        \/ proc' = [proc EXCEPT ![p] = Begin("findReview", e, "base", d, "none")]
        \/ Stop(p)
    BY <2>2 DEF Stop
  <2> QED
    BY <2>4, <2>5, <2>6, StopMover DEF Mover, PhaseMove, ToDecide, Begin, TypeOK
<1>4. CASE p \in Operators /\ Approve(p, e)
  <2>1. \/ ReadReview(p, e, "load") \/ ReadReview(p, e, "latest")
        \/ review[e].linked /\ review[e].decision = 0 /\ ReadReview(p, e, "approveLegacy")
    BY <1>4 DEF Approve
  <2> QED
    BY <1>4, <2>1 DEF ReadReview, TypeOK, Mover, PhaseMove, ToProduce, ToReview, ToLegacy
<1>5. CASE p \in Operators /\ (Reject(p, e) \/ Edit(p, e))
  <2>1. PICK pc \in {"reject", "edit", "correct"} : ReadReview(p, e, pc)
    BY <1>5 DEF Reject, Edit
  <2> QED
    BY <1>5, <2>1 DEF ReadReview, TypeOK, Mover, PhaseMove, ToReview
<1> QED
  BY <1>1, <1>2, <1>3, <1>4, <1>5

LEMMA SomeMover ==
  ASSUME TypeOK, [Next]_vars
  PROVE  UNCHANGED proc \/ \E p \in Procs : Mover(p)
<1>1. ASSUME NEW p \in Procs, ProcStep(p) PROVE Mover(p)
  BY <1>1, OrchestrationMover, ProductionMover, ReviewMover DEF ProcStep
<1>2. ASSUME NEW p \in Procs, ProcessThrows(p) PROVE Mover(p)
  <2>1. proc[p].pc \in Producing /\ \E pc \in {"fail", "done"} : Result(p, pc, "retryable")
    BY <1>2 DEF ProcessThrows, InTransaction, Producing, Attempting
  <2> QED
    BY <2>1, ResultMoves, ProduceMover DEF Plain, PCs, Results, Producing, Attempting, InTransaction
<1>3. ASSUME NEW p \in Procs, ProcessDies(p) PROVE Mover(p)
  BY <1>3, StopMover DEF ProcessDies
<1>4. ASSUME NEW p \in Procs, NEW e \in Execs, NEW slot \in Slots,
             \/ Reprocess(p, e) \/ RecoverEligible(p, e) \/ TakeJob(p, e, slot) \/ Observe(p, e, slot)
             \/ p \in Operators /\ (Approve(p, e) \/ Reject(p, e) \/ Edit(p, e))
      PROVE  Mover(p)
  BY <1>4, RequestMover
<1>5. ASSUME \/ \E e \in Execs : Deliver(e)
             \/ \E j \in Execs \X Slots : BackoffElapses(j) \/ DetectStalled(j)
             \/ UNCHANGED vars
      PROVE  UNCHANGED proc
  BY <1>5 DEF Deliver, BackoffElapses, DetectStalled, vars
<1>6. Workers \subseteq Procs /\ Observers \subseteq Procs /\ Maintainers \subseteq Procs /\ Operators \subseteq Procs
      /\ "base" \in Slots
  BY DEF Procs, Slots
<1> QED
  BY <1>1, <1>2, <1>3, <1>4, <1>5, <1>6 DEF Next

LEMMA PhaseMoves ==
  ASSUME TypeOK, [Next]_vars, NEW q \in Procs
  PROVE  PhaseMove(q)
BY SomeMover DEF Mover, PhaseMove

LEMMA OneMoves ==
  ASSUME TypeOK, [Next]_vars, NEW p \in Procs, NEW q \in Procs, p # q
  PROVE  proc'[p] = proc[p] \/ proc'[q] = proc[q]
BY SomeMover DEF Mover

At(p, e, pcs) == proc[p].e = e /\ proc[p].pc \in pcs

(* Who writes an execution, and what becomes of its decision. *)
StatusMove(e) ==
  \/ exec'[e].status = exec[e].status /\ exec'[e].decision = exec[e].decision
  \/ /\ exec'[e].decision = exec[e].decision /\ exec'[e].status \in {"failed", "blocked"}
     /\ exec[e].status \in {"eligible", "failed", "observed", "blocked"}
  \/ /\ exec'[e].decision = exec[e].decision /\ exec'[e].status \in {"duplicate", "eligible"}
     /\ \E p \in Procs : At(p, e, {"duplicate", "approveLegacy"})
  \/ /\ exec'[e].decision = exec[e].decision /\ exec'[e].status = "materialized"
     /\ \E p \in Procs : At(p, e, {"record"}) /\ CommitEvent(p)
  \/ \E p \in Procs : /\ At(p, e, {"upsert"}) /\ UpsertExecution(p)
                      /\ exec'[e].decision = proc[p].d /\ exec'[e].status \in Chosen

LEMMA StatusWrite ==
  ASSUME TypeOK, NEW e \in Execs, NEW f \in Execs, NEW s, NEW d, NEW tech, WriteExec(f, s, d, tech)
  PROVE  (e = f /\ exec'[e].status = s /\ exec'[e].decision = d) \/ exec'[e] = exec[e]
BY DEF WriteExec, TypeOK

LEMMA StatusMoves ==
  ASSUME TypeOK, [Next]_vars, NEW e \in Execs
  PROVE  StatusMove(e)
<1> USE DEF StatusMove, ExecBecomes, On, At
<1>1. ASSUME NEW p \in Procs, UpsertExecution(p) PROVE StatusMove(e)
  <2>1. proc[p].pc = "upsert" /\ proc[p].e \in Execs /\ proc[p].res \in Chosen
    BY <1>1, ProcBusy DEF UpsertExecution, Busy
  <2>2. WriteExec(proc[p].e, proc[p].res, proc[p].d, "none")
    BY <1>1 DEF UpsertExecution
  <2> QED
    BY <1>1, <2>1, <2>2, StatusWrite
<1>2. ASSUME NEW p \in Procs, StartAttempt(p) PROVE StatusMove(e)
  BY <1>2, Working, StatusWrite DEF StartAttempt
<1>3. ASSUME NEW p \in Procs, CommitDuplicate(p) PROVE StatusMove(e)
  BY <1>3, Working, StatusWrite DEF CommitDuplicate
<1>4. ASSUME NEW p \in Procs, CommitEvent(p) PROVE StatusMove(e)
  <2>1. proc[p].pc = "record" /\ proc[p].e \in Execs
    BY <1>4, Working DEF CommitEvent
  <2>2. \E tech : WriteExec(proc[p].e, "materialized", exec[proc[p].e].decision, tech)
    BY <1>4 DEF CommitEvent
  <2> QED
    BY <1>4, <2>1, <2>2, StatusWrite
<1>5. ASSUME NEW p \in Procs, FailExecution(p) PROVE StatusMove(e)
  <2>1. proc[p].pc = "fail" /\ proc[p].e \in Execs
    BY <1>5, Working DEF FailExecution
  <2>2. \/ UNCHANGED exec
        \/ /\ exec[proc[p].e].status \in {"eligible", "failed"}
           /\ \E s \in {"failed", "blocked"} : \E tech :
                WriteExec(proc[p].e, s, exec[proc[p].e].decision, tech)
    BY <1>5 DEF FailExecution
  <2> QED
    BY <2>1, <2>2, StatusWrite
<1>6. ASSUME NEW p \in Procs, ApproveLegacy(p) PROVE StatusMove(e)
  BY <1>6, Working, StatusWrite DEF ApproveLegacy
<1>7. ASSUME NEW p \in Procs, CommitReject(p) PROVE StatusMove(e)
  BY <1>7, Working, StatusWrite DEF CommitReject
<1>8. ASSUME NEW f \in Execs, Deliver(f) PROVE StatusMove(e)
  BY <1>8, StatusWrite DEF Deliver
<1>9. ASSUME NEW p \in Procs, UpsertReview(p) \/ FailReview(p) \/ ApproveReview(p) \/ CommitEdit(p)
      PROVE  StatusMove(e)
  BY <1>9 DEF UpsertReview, FailReview, ApproveReview, CommitEdit
<1>10. ASSUME UNCHANGED exec PROVE StatusMove(e)
  BY <1>10
<1> QED
  BY <1>1, <1>2, <1>3, <1>4, <1>5, <1>6, <1>7, <1>8, <1>9, <1>10, Writers DEF Writes

(* A review is linked by an approval of a decision. *)
LinkMove(e) ==
  \/ review'[e].linked = review[e].linked /\ review'[e].decision = review[e].decision
  \/ \E p \in Procs : At(p, e, {"upsertReview", "approve"}) /\ review'[e].decision = proc[p].d

LEMMA LinkWrite ==
  ASSUME TypeOK, NEW e \in Execs, NEW f \in Execs, NEW s, NEW d, NEW linked, NEW event,
         WriteReview(f, s, d, linked, event)
  PROVE  (e = f /\ review'[e].linked = linked /\ review'[e].decision = d) \/ review'[e] = review[e]
BY DEF WriteReview, TypeOK

LEMMA LinkMoves ==
  ASSUME TypeOK, [Next]_vars, NEW e \in Execs
  PROVE  LinkMove(e)
<1> USE DEF LinkMove, ReviewBecomes, On, At
<1>1. ASSUME NEW p \in Procs, UpsertReview(p) PROVE LinkMove(e)
  BY <1>1, Working, LinkWrite DEF UpsertReview
<1>2. ASSUME NEW p \in Procs, CommitDuplicate(p) PROVE LinkMove(e)
  BY <1>2, Working, LinkWrite DEF CommitDuplicate
<1>3. ASSUME NEW p \in Procs, CommitEvent(p) PROVE LinkMove(e)
  BY <1>3, Working, LinkWrite DEF CommitEvent
<1>4. ASSUME NEW p \in Procs, FailReview(p) PROVE LinkMove(e)
  BY <1>4, Working, LinkWrite DEF FailReview
<1>5. ASSUME NEW p \in Procs, ApproveReview(p) PROVE LinkMove(e)
  BY <1>5, Working, LinkWrite DEF ApproveReview
<1>6. ASSUME NEW p \in Procs, ApproveLegacy(p) PROVE LinkMove(e)
  BY <1>6, Working, LinkWrite DEF ApproveLegacy
<1>7. ASSUME NEW p \in Procs, CommitReject(p) PROVE LinkMove(e)
  BY <1>7, Working, LinkWrite DEF CommitReject
<1>8. ASSUME NEW p \in Procs, CommitEdit(p) PROVE LinkMove(e)
  BY <1>8, Working, LinkWrite DEF CommitEdit
<1>9. ASSUME NEW f \in Execs, Deliver(f) PROVE LinkMove(e)
  BY <1>9, LinkWrite DEF Deliver
<1>10. ASSUME NEW p \in Procs, UpsertExecution(p) \/ StartAttempt(p) \/ FailExecution(p) PROVE LinkMove(e)
  BY <1>10 DEF UpsertExecution, StartAttempt, FailExecution
<1>11. ASSUME UNCHANGED review PROVE LinkMove(e)
  BY <1>11
<1> QED
  BY <1>1, <1>2, <1>3, <1>4, <1>5, <1>6, <1>7, <1>8, <1>9, <1>10, <1>11, Writers DEF Writes

(* Only the commit of an event records one. *)
LEMMA Records ==
  ASSUME TypeOK, [Next]_vars, NEW e \in Execs, log[e] = "none", log'[e] # "none"
  PROVE  \E p \in Procs : At(p, e, {"record"}) /\ CommitEvent(p)
<1>1. ASSUME NEW p \in Procs, CommitEvent(p) PROVE At(p, e, {"record"})
  BY <1>1, Working DEF CommitEvent, TypeOK, At, On
<1>2. ASSUME NEW f \in Execs, Deliver(f) PROVE FALSE
  BY <1>2 DEF Deliver, TypeOK
<1>3. ASSUME NEW p \in Procs, Writes(p) PROVE CommitEvent(p) \/ UNCHANGED log
  BY <1>3 DEF Writes, UpsertReview, UpsertExecution, StartAttempt, CommitDuplicate, FailExecution, FailReview,
              ApproveReview, ApproveLegacy, CommitReject, CommitEdit
<1> QED
  BY <1>1, <1>2, <1>3, Writers

(* A lock is taken when it is free, and released by who leaves the transaction. *)
LockMove ==
  \/ UNCHANGED lock
  \/ \E p \in Procs : LockScope(p)
  \/ \E p \in Procs : Unlock(p) /\ proc'[p].pc \notin InTransaction

LEMMA LockMoves ==
  ASSUME TypeOK, [Next]_vars
  PROVE  LockMove
<1> USE DEF LockMove, On
<1>1. ASSUME NEW p \in Procs, OrchestrationStep(p) \/ ReviewStep(p) PROVE UNCHANGED lock
  BY <1>1 DEF OrchestrationStep, ReviewStep, FindReview, UpsertReview, ReadExecution, UpsertExecution,
              EnqueueConversion, FindLatest, AppendReevaluation, ApproveReview, ApproveLegacy, CommitReject, CommitEdit
<1>2. ASSUME NEW p \in Procs, CheckExecution(p) PROVE LockMove
  <2>1. \/ UNCHANGED lock
        \/ Unlock(p) /\ (Result(p, "done", "ok") \/ Result(p, "fail", "permanent"))
    BY <1>2 DEF CheckExecution
  <2> QED
    BY <1>2, <2>1, ResultMoves DEF CheckExecution, Plain, PCs, Results, Moves, InTransaction
<1>3. ASSUME NEW p \in Procs, CommitDuplicate(p) \/ CommitEvent(p) PROVE LockMove
  <2>1. Unlock(p) /\ proc[p].pc # "idle" /\ (Goto(p, "send") \/ Result(p, "done", "ok"))
    BY <1>3 DEF CommitDuplicate, CommitEvent
  <2> QED
    BY <2>1, ResultMoves, GotoMoves DEF Plain, PCs, Results, Moves, InTransaction
<1>4. ASSUME NEW p \in Procs, ProductionStep(p) PROVE LockMove
  BY <1>2, <1>3, <1>4 DEF ProductionStep, LoadExecution, Resend, StartAttempt, Refuse, EnqueueSend, FailExecution,
                          FailReview, FinishProcess
<1>5. ASSUME NEW p \in Procs, ProcessThrows(p) PROVE LockMove
  <2>1. Unlock(p) /\ proc[p].pc # "idle" /\ \E pc \in {"fail", "done"} : Result(p, pc, "retryable")
    BY <1>5 DEF ProcessThrows, InTransaction
  <2> QED
    BY <2>1, ResultMoves DEF Plain, PCs, Results, Moves, InTransaction
<1>6. ASSUME NEW p \in Procs, ProcessDies(p) PROVE LockMove
  BY <1>6, StopStays DEF ProcessDies, Idle, Begin, InTransaction
<1>7. ASSUME NEW e \in Execs, NEW p, NEW slot \in Slots,
             Reprocess(p, e) \/ Observe(p, e, slot) \/ RecoverEligible(p, e) \/ TakeJob(p, e, slot)
      PROVE  UNCHANGED lock
  BY <1>7 DEF Reprocess, Observe, RecoverEligible, TakeJob
<1>8. ASSUME NEW e \in Execs, NEW p, Approve(p, e) \/ Reject(p, e) \/ Edit(p, e) PROVE UNCHANGED lock
  BY <1>8 DEF Approve, Reject, Edit, ReadReview
<1>9. ASSUME \/ \E e \in Execs : Deliver(e)
             \/ \E j \in Execs \X Slots : BackoffElapses(j) \/ DetectStalled(j)
             \/ UNCHANGED vars
      PROVE  UNCHANGED lock
  BY <1>9 DEF Deliver, BackoffElapses, DetectStalled, vars
<1>10. "base" \in Slots
  BY DEF Slots
<1> QED
  BY <1>1, <1>4, <1>5, <1>6, <1>7, <1>8, <1>9, <1>10 DEF Next, ProcStep

LEMMA LocksHeldNext ==
  ASSUME TypeOK, LocksHeld, [Next]_vars
  PROVE  LocksHeld'
<1> SUFFICES ASSUME NEW p \in Procs, proc'[p].pc \in InTransaction
             PROVE  lock'[LockOf(p)'] = {p}
  BY DEF LocksHeld
<1> USE DEF LockOf, LockKeys
<1>1. CASE proc[p].pc = "lock"
  BY <1>1, PhaseMoves DEF PhaseMove, ToReview, ToLegacy, ToDecide, ToProduce, ToAttempt, InTransaction, Kept, TypeOK
<1>2. CASE proc[p].pc \in InTransaction
  <2>1. proc'[p].d = proc[p].d /\ lock[LockOf(p)] = {p}
    BY <1>2, PhaseMoves DEF PhaseMove, ToReview, ToLegacy, ToDecide, ToProduce, ToAttempt, InTransaction, Kept, LocksHeld
  <2>2. ASSUME NEW q \in Procs, LockScope(q) PROVE lock'[LockOf(p)] = {p}
    BY <2>1, <2>2 DEF LockScope, TypeOK
  <2>3. ASSUME NEW q \in Procs, Unlock(q), proc'[q].pc \notin InTransaction PROVE lock'[LockOf(p)] = {p}
    BY <2>1, <2>3 DEF Unlock
  <2> QED
    BY <2>1, <2>2, <2>3, LockMoves DEF LockMove
<1>3. proc[p].pc \in {"lock"} \cup InTransaction
  BY PhaseMoves DEF PhaseMove, ToReview, ToLegacy, ToDecide, ToProduce, ToAttempt, InTransaction
<1> QED
  BY <1>1, <1>2, <1>3

LEMMA DecidedNext ==
  ASSUME TypeOK, Decided, [Next]_vars
  PROVE  Decided'
<1> USE DEF PhaseMove, ToReview, ToLegacy, ToDecide, ToProduce, ToAttempt, Kept, Deciding, Attempting, InTransaction,
            Observing
<1>1. ASSUME NEW p \in Procs, proc'[p].pc \in Deciding PROVE proc'[p].d # 0
  BY <1>1, PhaseMoves DEF Decided
<1>2. ASSUME NEW p \in Procs, proc'[p].pc = "approveLegacy" PROVE proc'[p].e \in Legacy
  BY <1>2, PhaseMoves DEF Decided
<1>3. ASSUME NEW e \in Execs \ Legacy, exec[e].decision # 0 PROVE exec'[e].decision # 0
  BY <1>3, StatusMoves DEF StatusMove, At, Decided
<1>4. ASSUME NEW p \in Procs, proc'[p].pc \in Attempting, proc'[p].e \notin Legacy
      PROVE  proc'[p].d # 0 /\ exec'[proc'[p].e].decision # 0
  <2>1. proc'[p].e = proc[p].e /\ proc[p].pc \in Attempting \cup {"load"}
    BY <1>4, PhaseMoves
  <2>2. proc[p].e \in Execs \ Legacy
    BY <1>4, <2>1, Working
  <2>3. proc'[p].d # 0 /\ exec[proc[p].e].decision # 0
    BY <1>4, <2>1, <2>2, PhaseMoves DEF Decided
  <2> QED
    BY <2>1, <2>2, <2>3, <1>3
<1>5. ASSUME NEW e \in Execs \ Legacy, exec'[e].decision = 0 PROVE exec'[e].status = "absent"
  <2>1. exec[e].decision = 0 /\ exec[e].status = "absent"
    BY <1>3, <1>5 DEF Decided
  <2>2. ASSUME NEW p \in Procs, At(p, e, {"duplicate", "record", "approveLegacy", "upsert"})
        PROVE  proc[p].pc = "upsert" /\ proc[p].d # 0
    BY <2>1, <2>2 DEF At, Decided
  <2> QED
    BY <1>5, <2>1, <2>2, StatusMoves DEF StatusMove, At
<1>6. ASSUME NEW e \in Execs \ Legacy, review'[e].linked PROVE review'[e].decision # 0
  BY <1>6, LinkMoves DEF LinkMove, At, Decided
<1> QED
  BY <1>1, <1>2, <1>4, <1>5, <1>6 DEF Decided

LEMMA ScopeGuardedNext ==
  ASSUME TypeOK, ScopeInv, LegacyApart, [Next]_vars,
         \A e \in Execs : exec[e].status = "materialized" => exec'[e].status = "materialized"
  PROVE  ScopeGuarded'
<1> USE DEF Recorded
<1>1. ASSUME NEW e \in Execs \ Legacy, log'[e] # "none" PROVE exec'[e].status = "materialized"
  <2>1. CASE log[e] # "none"
    BY <2>1 DEF ScopeInv, ScopeGuarded
  <2>2. CASE log[e] = "none"
    <3>1. PICK p \in Procs : At(p, e, {"record"}) /\ CommitEvent(p)
      BY <1>1, <2>2, Records
    <3> QED
      BY <3>1 DEF At, CommitEvent, ExecBecomes, WriteExec, TypeOK, On
  <2> QED
    BY <2>1, <2>2
<1>2. ASSUME NEW e \in Execs, NEW f \in Execs, IsNear(e, f)
      PROVE  e \notin Legacy /\ f \notin Legacy /\ IsNear(f, e) /\ e # f
  <2>1. IsNear(f, e)
    <3>1. {e, f} = {f, e}
      OBVIOUS
    <3> QED
      BY <1>2, <3>1 DEF IsNear
  <2> QED
    BY <1>2, <2>1 DEF LegacyApart, IsNear
<1>3. ASSUME NEW p \in Procs, NEW q \in Procs, proc[p].pc = "record", proc[q].pc = "record",
             IsNear(proc[p].e, proc[q].e)
      PROVE  FALSE
  <2>1. proc[p].e \in Execs /\ proc[q].e \in Execs
    BY <1>3, Working
  <2>2. LockOf(p) = "scope" /\ LockOf(q) = "scope"
    BY <1>2, <1>3, <2>1 DEF ScopeInv, Decided, Attempting, InTransaction, LockOf
  <2>3. p = q
    BY <1>3, <2>2 DEF ScopeInv, LocksHeld, InTransaction
  <2> QED
    BY <1>2, <1>3, <2>1, <2>3
<1>4. ASSUME NEW p \in Procs, proc'[p].pc = "record", NEW f \in Execs, IsNear(proc'[p].e, f)
      PROVE  log'[f] = "none"
  <2>1. /\ proc'[p].e = proc[p].e
        /\ \/ proc[p].pc = "record"
           \/ proc[p].pc = "check" /\ ~HasDuplicate(proc[p].e) /\ UNCHANGED log
    BY <1>4, PhaseMoves DEF PhaseMove, ToReview, ToLegacy, ToDecide, ToProduce, ToAttempt, Kept
  <2>2. CASE proc[p].pc = "record"
    <3>1. log[f] = "none"
      BY <1>4, <2>1, <2>2 DEF ScopeInv, ScopeGuarded
    <3>2. ASSUME log'[f] # "none" PROVE FALSE
      <4>1. PICK q \in Procs : At(q, f, {"record"})
        BY <3>1, <3>2, Records
      <4> QED
        BY <1>3, <1>4, <2>1, <2>2, <4>1 DEF At
    <3> QED
      BY <3>2
  <2>3. CASE proc[p].pc = "check" /\ ~HasDuplicate(proc[p].e) /\ UNCHANGED log
    <3>1. proc[p].e \in Execs /\ f \in Execs \ Legacy
      BY <1>2, <1>4, <2>1, <2>3, Working
    <3>2. exec[f].status # "materialized"
      BY <1>4, <2>1, <2>3 DEF HasDuplicate
    <3> QED
      BY <2>3, <3>1, <3>2 DEF ScopeInv, ScopeGuarded
  <2> QED
    BY <2>1, <2>2, <2>3
<1>5. ASSUME NEW e \in Execs, NEW f \in Execs, IsNear(e, f), log'[e] # "none", log'[f] # "none"
      PROVE  FALSE
  <2>1. ASSUME NEW g \in Execs, NEW h \in Execs, IsNear(g, h), log[g] = "none", log'[g] # "none", log'[h] # "none"
        PROVE  FALSE
    <3>1. PICK p \in Procs : At(p, g, {"record"}) /\ CommitEvent(p)
      BY <2>1, Records
    <3>2. log[h] = "none"
      BY <2>1, <3>1 DEF At, ScopeInv, ScopeGuarded
    <3>3. PICK q \in Procs : At(q, h, {"record"})
      BY <2>1, <3>2, Records
    <3> QED
      BY <1>3, <2>1, <3>1, <3>3 DEF At
  <2>2. log[e] # "none" /\ log[f] # "none"
    BY <1>2, <1>5, <2>1
  <2> QED
    BY <1>5, <2>2 DEF ScopeInv, ScopeGuarded, OneEventPerScope
<1> QED
  BY <1>1, <1>4, <1>5 DEF ScopeGuarded, OneEventPerScope, IsNear

LEMMA ScopeInit == Init => ScopeInv
<1> SUFFICES ASSUME Init PROVE ScopeInv
  OBVIOUS
<1>1. \A p \in Procs : proc[p].pc = "idle"
  BY DEF Init, Idle, Begin
<1>2. \A e \in Execs \ Legacy : exec[e].status = "absent" /\ ~review[e].linked
  BY DEF Init, NoReview
<1>3. \A e \in Execs : ~Recorded(e)
  BY DEF Init, Recorded
<1> QED
  BY <1>1, <1>2, <1>3 DEF ScopeInv, Decided, LocksHeld, ScopeGuarded, OneEventPerScope, Deciding, Attempting,
                          InTransaction

(* Of two occurrences inside the window at most one has an event, with any *)
(* number of workers, operators, observations and crashes, as long as a    *)
(* materialized execution is not taken back (what conversion_twice shows)  *)
(* and none of the two was recorded before decisions were: its attempt     *)
(* takes another lock.                                                     *)
THEOREM OneEventWhileFinal == LegacyApart => (Spec /\ MaterializedIsFinal => []OneEventPerScope)
<1> SUFFICES ASSUME LegacyApart PROVE Spec /\ MaterializedIsFinal => []OneEventPerScope
  OBVIOUS
<1> DEFINE Final == \A e \in Execs : exec[e].status = "materialized" => exec'[e].status = "materialized"
<1>1. TypeOK /\ ScopeInv /\ [Next]_vars /\ [Final]_vars => ScopeInv'
  <2> SUFFICES ASSUME TypeOK, ScopeInv, [Next]_vars, [Final]_vars PROVE ScopeInv'
    OBVIOUS
  <2>1. Final
    BY DEF vars
  <2> QED
    BY <2>1, DecidedNext, LocksHeldNext, ScopeGuardedNext DEF ScopeInv
<1>2. ScopeInv => OneEventPerScope
  BY DEF ScopeInv, ScopeGuarded
<1>3. MaterializedIsFinal => [][Final]_vars
  BY DEF MaterializedIsFinal
<1> HIDE DEF Final
<1> QED
  BY <1>1, <1>2, <1>3, ScopeInit, TypeCorrect, PTL DEF Spec

(* A job is there once it was added for an execution, or while it runs. *)
LEMMA JobMoves ==
  ASSUME TypeOK, [Next]_vars, NEW j \in Execs \X Slots, job'[j].state # "none", job[j].state = "none"
  PROVE  \E p \in Procs : At(p, j[1], {"enqueue", "done"})
<1> USE DEF At, On
<1>1. ASSUME NEW p \in Procs, EnqueueConversion(p) \/ FinishProcess(p)
      PROVE  At(p, j[1], {"enqueue", "done"})
  <2>1. job' = job \/ \E x : job' = [job EXCEPT ![<<proc[p].e, proc[p].slot>>] = x]
    BY <1>1 DEF EnqueueConversion, FinishProcess
  <2>2. j = <<proc[p].e, proc[p].slot>>
    BY <2>1 DEF TypeOK
  <2> QED
    BY <1>1, <2>2 DEF EnqueueConversion, FinishProcess
<1>2. ASSUME NEW e \in Execs, NEW slot \in Slots, NEW w, TakeJob(w, e, slot) PROVE FALSE
  BY <1>2 DEF TakeJob, TypeOK
<1>3. ASSUME NEW k \in Execs \X Slots, BackoffElapses(k) \/ DetectStalled(k) PROVE FALSE
  BY <1>3 DEF BackoffElapses, DetectStalled, TypeOK
<1>4. ASSUME NEW p \in Procs, ProcStep(p) PROVE EnqueueConversion(p) \/ FinishProcess(p) \/ UNCHANGED job
  <2>1. CASE OrchestrationStep(p)
    BY <2>1 DEF OrchestrationStep, FindReview, UpsertReview, ReadExecution, UpsertExecution
  <2>2. CASE ProductionStep(p)
    BY <2>2 DEF ProductionStep, LoadExecution, Resend, StartAttempt, Refuse, LockScope, CheckExecution,
                CommitDuplicate, CommitEvent, EnqueueSend, FailExecution, FailReview
  <2>3. CASE ReviewStep(p)
    BY <2>3 DEF ReviewStep, FindLatest, AppendReevaluation, ApproveReview, ApproveLegacy, CommitReject, CommitEdit
  <2> QED
    BY <1>4, <2>1, <2>2, <2>3 DEF ProcStep
<1>5. ASSUME NEW e \in Execs, NEW p, NEW slot \in Slots,
             \/ Reprocess(p, e) \/ Observe(p, e, slot) \/ RecoverEligible(p, e) \/ Deliver(e)
             \/ Approve(p, e) \/ Reject(p, e) \/ Edit(p, e)
      PROVE  UNCHANGED job
  BY <1>5 DEF Reprocess, Observe, RecoverEligible, Deliver, Approve, Reject, Edit, ReadReview
<1>6. ASSUME NEW p \in Procs, ProcessThrows(p) \/ ProcessDies(p) PROVE UNCHANGED job
  BY <1>6 DEF ProcessThrows, ProcessDies
<1>7. "base" \in Slots /\ (UNCHANGED vars => UNCHANGED job)
  BY DEF Slots, vars
<1> QED
  BY <1>1, <1>2, <1>3, <1>4, <1>5, <1>6, <1>7 DEF Next

(* Decisions are kept. *)
LEMMA DecsMoves ==
  ASSUME TypeOK, [Next]_vars, NEW e \in Execs, decs[e] # <<>>
  PROVE  decs'[e] # <<>>
<1>1. ASSUME NEW p \in Procs, AppendReevaluation(p) PROVE decs'[e] # <<>>
  <2>1. proc[p].e \in Execs /\ decs[e] \in Seq(Decisions)
    BY <1>1, Working DEF AppendReevaluation, TypeOK
  <2>2. \/ UNCHANGED decs
        \/ \E x : decs' = [decs EXCEPT ![proc[p].e] = Append(@, x)]
    BY <1>1 DEF AppendReevaluation, On
  <2> QED
    BY <2>1, <2>2 DEF TypeOK
<1>2. ASSUME NEW f \in Execs, NEW o, NEW slot \in Slots, Observe(o, f, slot) PROVE decs'[e] # <<>>
  <2>1. PICK first \in FirstOutcomes :
          decs' = [decs EXCEPT ![f] = IF decs[f] = <<>> THEN <<[outcome |-> first, key |-> 0]>> ELSE decs[f]]
    BY <1>2 DEF Observe
  <2> QED
    BY <2>1 DEF TypeOK
<1>3. ASSUME NEW p \in Procs, ProcStep(p) PROVE AppendReevaluation(p) \/ UNCHANGED decs
  <2>1. CASE OrchestrationStep(p)
    BY <2>1 DEF OrchestrationStep, FindReview, UpsertReview, ReadExecution, UpsertExecution, EnqueueConversion
  <2>2. CASE ProductionStep(p)
    BY <2>2 DEF ProductionStep, LoadExecution, Resend, StartAttempt, Refuse, LockScope, CheckExecution,
                CommitDuplicate, CommitEvent, EnqueueSend, FailExecution, FailReview, FinishProcess
  <2>3. CASE ReviewStep(p)
    BY <2>3 DEF ReviewStep, FindLatest, ApproveReview, ApproveLegacy, CommitReject, CommitEdit
  <2> QED
    BY <1>3, <2>1, <2>2, <2>3 DEF ProcStep
<1>4. ASSUME NEW f \in Execs, NEW p, NEW slot \in Slots,
             \/ Reprocess(p, f) \/ TakeJob(p, f, slot) \/ RecoverEligible(p, f) \/ Deliver(f)
             \/ Approve(p, f) \/ Reject(p, f) \/ Edit(p, f)
      PROVE  UNCHANGED decs
  BY <1>4 DEF Reprocess, TakeJob, RecoverEligible, Deliver, Approve, Reject, Edit, ReadReview
<1>5. ASSUME \/ \E p \in Procs : ProcessThrows(p) \/ ProcessDies(p)
             \/ \E k \in Execs \X Slots : BackoffElapses(k) \/ DetectStalled(k)
             \/ UNCHANGED vars
      PROVE  UNCHANGED decs
  BY <1>5 DEF ProcessThrows, ProcessDies, BackoffElapses, DetectStalled, vars
<1>6. "base" \in Slots
  BY DEF Slots
<1> QED
  BY <1>1, <1>2, <1>3, <1>4, <1>5, <1>6 DEF Next

LEMMA UpsertLeaves ==
  ASSUME TypeOK, NEW p \in Procs, UpsertExecution(p)
  PROVE  proc'[p].pc \in {"idle", "approve", "enqueue"}
<1>1. proc[p].pc = "upsert" /\ (Stop(p) \/ Goto(p, "approve") \/ Goto(p, "enqueue"))
  BY DEF UpsertExecution, Orchestrated
<1> QED
  BY <1>1, StopStays, GotoKeeps DEF Idle, Begin, PCs

LEMMA EventLeaves ==
  ASSUME TypeOK, NEW p \in Procs, CommitEvent(p)
  PROVE  proc'[p].pc \in {"send", "done"}
<1>1. proc[p].pc = "record" /\ (Goto(p, "send") \/ Result(p, "done", "ok"))
  BY DEF CommitEvent
<1> QED
  BY <1>1, GotoKeeps, ResultMoves DEF Moves, PCs, Plain, Results

LEMMA WrittenOnceNext ==
  ASSUME TypeOK, WrittenOnce, LocksHeld, Operators = {}, Repeated = {}, [Next]_vars
  PROVE  /\ WrittenOnce'
         /\ \A e \in Execs : exec[e].status = "materialized" => exec'[e].status = "materialized"
<1> USE DEF ToReview, ToLegacy, ToDecide, ToProduce, ToAttempt, Kept, Attempting, InTransaction,
            Observing, Producing
<1>0. ASSUME NEW p \in Procs PROVE PhaseMove(p)
  BY PhaseMoves
<1>1. ASSUME NEW e \in Execs, exec[e].status # "absent" PROVE exec'[e].status # "absent"
  BY <1>1, StatusMoves DEF StatusMove, Chosen
<1>2. ASSUME NEW p \in Procs
      PROVE  proc'[p].pc \in {"idle", "findReview", "upsertReview"} \cup Observing \cup Producing
  <2>1. proc[p].pc \in {"idle", "findReview", "upsertReview"} \cup Observing \cup Producing
    BY DEF WrittenOnce
  <2> QED
    BY <2>1, <1>0 DEF PhaseMove
<1>3. ASSUME NEW e \in Execs, exec[e].status = "absent", exec'[e].status # "absent"
      PROVE  \E p \in Procs : At(p, e, {"upsert"}) /\ UpsertExecution(p)
  BY <1>3, StatusMoves DEF StatusMove, At, WrittenOnce
<1>4. ASSUME NEW e \in Execs, exec[e].status # "absent"
      PROVE  /\ exec'[e].decision = exec[e].decision
             /\ exec'[e].status = "materialized"
                  => exec[e].status = "materialized" \/ \E p \in Procs : At(p, e, {"record"}) /\ CommitEvent(p)
  BY <1>4, StatusMoves DEF StatusMove, At, WrittenOnce
<1>5. ASSUME NEW p \in Procs, proc'[p].pc \in Observing
      PROVE  exec'[proc'[p].e].status = "absent" /\ decs'[proc'[p].e] # <<>>
  <2>1. CASE proc'[p] = proc[p] \/ (proc[p].pc = "read" /\ proc'[p].e = proc[p].e)
    <3>1. proc[p].e \in Execs /\ proc'[p].e = proc[p].e /\ proc[p].pc \in Observing
      BY <1>5, <2>1, Working
    <3>2. exec[proc[p].e].status = "absent" /\ decs[proc[p].e] # <<>>
      BY <3>1 DEF WrittenOnce
    <3>3. ASSUME NEW q \in Procs, At(q, proc[p].e, {"upsert"}), UpsertExecution(q) PROVE FALSE
      <4>1. q = p
        BY <3>1, <3>3 DEF At, WrittenOnce
      <4> QED
        BY <1>5, <3>3, <4>1, UpsertLeaves
    <3> QED
      BY <3>1, <3>2, <3>3, <1>3, DecsMoves
  <2>2. CASE /\ proc'[p].e \in Execs \ Legacy /\ decs[proc'[p].e] = <<>>
             /\ decs'[proc'[p].e] # <<>> /\ UNCHANGED exec
    BY <2>2 DEF WrittenOnce
  <2>3. proc[p].pc # "append"
    BY DEF WrittenOnce
  <2> QED
    BY <1>0, <1>5, <2>1, <2>2, <2>3 DEF PhaseMove
<1>6. ASSUME NEW p \in Procs, proc'[p].pc \in Producing PROVE exec'[proc'[p].e].status # "absent"
  <2>1. CASE proc[p].pc \in Producing /\ proc'[p].e = proc[p].e
    BY <1>1, <2>1, Working DEF WrittenOnce
  <2>2. CASE /\ proc'[p].e \in Execs /\ UNCHANGED exec
             /\ \E slot \in Slots : job[<<proc'[p].e, slot>>].state # "none"
    <3>1. PICK slot \in Slots : job[<<proc'[p].e, slot>>].state # "none"
      BY <2>2
    <3>2. <<proc'[p].e, slot>> \in Execs \X Slots /\ <<proc'[p].e, slot>>[1] = proc'[p].e
      BY <2>2
    <3>3. exec[proc'[p].e].status # "absent"
      BY <3>1, <3>2 DEF WrittenOnce
    <3> QED
      BY <2>2, <3>3
  <2>3. proc[p].pc \notin {"approve", "approveLegacy"}
    BY DEF WrittenOnce
  <2> QED
    BY <1>0, <1>6, <2>1, <2>2, <2>3 DEF PhaseMove
<1>7. ASSUME NEW p \in Procs, proc'[p].pc \in Attempting PROVE proc'[p].d = exec'[proc'[p].e].decision
  <2>1. proc'[p].e = proc[p].e /\ proc[p].pc \in Attempting \cup {"load"}
    BY <1>0, <1>7 DEF PhaseMove
  <2>2. proc'[p].d = exec[proc[p].e].decision /\ proc[p].e \in Execs /\ exec[proc[p].e].status # "absent"
    BY <1>0, <1>7, <2>1, Working DEF PhaseMove, WrittenOnce
  <2> QED
    BY <1>4, <2>1, <2>2
<1>8. ASSUME NEW p \in Procs, proc'[p].pc \in {"duplicate", "record"}
      PROVE  exec'[proc'[p].e].status # "materialized"
  <2>1. CASE proc'[p] = proc[p]
    <3>1. /\ proc[p].e \in Execs /\ exec[proc[p].e].status \notin {"absent", "materialized"}
          /\ proc[p].d = exec[proc[p].e].decision /\ lock[LockOf(p)] = {p}
      BY <1>8, <2>1, Working DEF WrittenOnce, LocksHeld
    <3>2. ASSUME NEW q \in Procs, At(q, proc[p].e, {"record"}), CommitEvent(q) PROVE FALSE
      <4>1. proc[q].d = exec[proc[p].e].decision /\ lock[LockOf(q)] = {q}
        BY <3>2 DEF At, WrittenOnce, LocksHeld
      <4>2. q = p
        BY <3>1, <4>1 DEF LockOf
      <4> QED
        BY <1>8, <3>2, <4>2, EventLeaves
    <3> QED
      BY <2>1, <3>1, <3>2, <1>4
  <2>2. CASE proc'[p].e = proc[p].e /\ exec[proc[p].e].status \in {"eligible", "failed"} /\ UNCHANGED exec
    BY <2>2
  <2> QED
    BY <1>0, <1>8, <2>1, <2>2 DEF PhaseMove
<1>9. ASSUME NEW p \in Procs, NEW q \in Procs \ {p}, proc'[p].pc \in Observing, proc'[q].pc \in Observing,
             proc'[p].e = proc'[q].e
      PROVE  FALSE
  <2>1. ASSUME NEW r \in Procs, proc'[r].pc \in Observing
        PROVE  \/ proc[r].pc \in Observing /\ proc'[r].e = proc[r].e
               \/ proc'[r] # proc[r] /\ decs[proc'[r].e] = <<>>
    <3>1. proc[r].pc # "append"
      BY DEF WrittenOnce
    <3> QED
      BY <1>0, <2>1, <3>1 DEF PhaseMove
  <2>2. proc'[p] = proc[p] \/ proc'[q] = proc[q]
    BY OneMoves
  <2>3. ~(proc[p].pc \in Observing /\ proc[q].pc \in Observing /\ proc[p].e = proc[q].e)
    BY DEF WrittenOnce
  <2>4. ASSUME NEW r \in Procs, proc[r].pc \in Observing PROVE decs[proc[r].e] # <<>>
    BY <2>4 DEF WrittenOnce
  <2> QED
    BY <1>9, <2>1, <2>2, <2>3, <2>4
<1>10. ASSUME NEW e \in Execs \ Legacy, decs'[e] = <<>> PROVE exec'[e].status = "absent"
  <2>1. decs[e] = <<>> /\ exec[e].status = "absent"
    BY <1>10, DecsMoves DEF WrittenOnce
  <2>2. ASSUME NEW p \in Procs, At(p, e, {"upsert"}) PROVE FALSE
    BY <2>1, <2>2 DEF At, WrittenOnce
  <2> QED
    BY <1>3, <2>1, <2>2
<1>11. ASSUME NEW j \in Execs \X Slots, job'[j].state # "none" PROVE exec'[j[1]].status # "absent"
  <2>1. j[1] \in Execs
    OBVIOUS
  <2>2. exec[j[1]].status # "absent"
    BY <1>11, JobMoves DEF WrittenOnce, At
  <2> QED
    BY <1>1, <2>1, <2>2
<1>12. ASSUME NEW e \in Execs, exec[e].status = "materialized" PROVE exec'[e].status = "materialized"
  BY <1>12, StatusMoves DEF StatusMove, At, WrittenOnce
<1>13. WrittenOnce'
  BY <1>2, <1>5, <1>6, <1>7, <1>8, <1>9, <1>10, <1>11 DEF WrittenOnce
<1> QED
  BY <1>12, <1>13

(* Without operators and repeated observations a materialized execution    *)
(* stays so: late failures, further attempts, recoveries and crashes do    *)
(* not take it back, of executions without a decision neither.             *)
THEOREM MaterializedStays == Operators = {} /\ Repeated = {} => (Spec => MaterializedIsFinal)
<1> SUFFICES ASSUME Operators = {}, Repeated = {} PROVE Spec => MaterializedIsFinal
  OBVIOUS
<1> DEFINE Final == \A e \in Execs : exec[e].status = "materialized" => exec'[e].status = "materialized"
<1>1. Init => WrittenOnce /\ LocksHeld
  <2> SUFFICES ASSUME Init PROVE WrittenOnce /\ LocksHeld
    OBVIOUS
  <2>1. \A p \in Procs : proc[p].pc = "idle"
    BY DEF Init, Idle, Begin
  <2>2. \A e \in Execs \ Legacy : exec[e].status = "absent"
    BY DEF Init
  <2>3. \A j \in Execs \X Slots : job[j].state = "none"
    BY DEF Init, NoJob
  <2> QED
    BY <2>1, <2>2, <2>3 DEF WrittenOnce, LocksHeld, Producing, Observing, Attempting, InTransaction
<1>2. TypeOK /\ WrittenOnce /\ LocksHeld /\ [Next]_vars => (WrittenOnce /\ LocksHeld)' /\ [Final]_vars
  BY WrittenOnceNext, LocksHeldNext
<1>3. [][Final]_vars => MaterializedIsFinal
  BY DEF MaterializedIsFinal
<1> HIDE DEF Final
<1> QED
  BY <1>1, <1>2, <1>3, TypeCorrect, PTL DEF Spec

(* The two together: one event per scope, outright, where executions are   *)
(* observed once and nobody decides on them by hand.                       *)
THEOREM OneEvent == LegacyApart /\ Operators = {} /\ Repeated = {} => (Spec => []OneEventPerScope)
BY OneEventWhileFinal, MaterializedStays
=============================================================================
