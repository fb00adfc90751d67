----------------------------- MODULE EventLife -----------------------------
(***************************************************************************)
(* What the delivery of conversion events promises about one event, told   *)
(* without jobs, workers, operators or rows: the life of the event and     *)
(* whether an attempt to send it is under way.  ConversionDelivery         *)
(* implements it (ImplementsLife) when operators retry transient failures  *)
(* only.                                                                   *)
(***************************************************************************)
CONSTANTS
  Events,
  Foreign    \* events another system may send instead

VARIABLES
  life,      \* "none", "history", "kept", "ready", "archived", "failed", "sent"
  sending    \* events an attempt has found ready and not finished with

lifeVars == <<life, sending>>

Becomes(e, s) == life' = [life EXCEPT ![e] = s]

LifeInit == life = [e \in Events |-> "none"] /\ sending = {}

(* A fact of the past is imported, and never sent as such. *)
Import(e) == e \in Foreign /\ life[e] = "none" /\ Becomes(e, "history") /\ UNCHANGED sending

(* An event is recorded once: to be kept, to be sent, or for the other system. *)
Record(e, s) == life[e] \in {"none", "history"} /\ Becomes(e, s) /\ UNCHANGED sending

(* An attempt begins on a ready event, one at a time. *)
Claim(e) == life[e] = "ready" /\ e \notin sending /\ sending' = sending \cup {e} /\ UNCHANGED life

(* An attempt ends with an outcome, whatever became of the event meanwhile. *)
Settle(e, s) == e \in sending /\ Becomes(e, s) /\ sending' = sending \ {e}

(* An attempt is given up, for good when the event belongs to the other system. *)
Leave(e) ==
  /\ e \in sending /\ sending' = sending \ {e}
  /\ UNCHANGED life \/ (e \in Foreign /\ life[e] = "ready" /\ Becomes(e, "archived"))

(* A failure is tried again; the retry is taken back when it cannot be queued. *)
Retry(e) == life[e] = "failed" /\ Becomes(e, "ready") /\ UNCHANGED sending

TakeBack(e) == life[e] = "ready" /\ Becomes(e, "failed") /\ UNCHANGED sending

(* The other system takes over what is ready. *)
Archive ==
  /\ life' = [e \in Events |-> IF e \in Foreign /\ life[e] = "ready" THEN "archived" ELSE life[e]]
  /\ UNCHANGED sending

LifeNext ==
  \/ Archive
  \/ \E e \in Events :
       \/ Import(e) \/ Claim(e) \/ Leave(e) \/ Retry(e) \/ TakeBack(e)
       \/ \E s \in {"kept", "ready", "archived"} : Record(e, s)
       \/ \E s \in {"sent", "failed"} : Settle(e, s)

LifeSpec == LifeInit /\ [][LifeNext]_lifeVars

(* What is sent, and what is left to the other system, stays so: only an   *)
(* attempt that had begun before can still change it.                      *)
Undisturbed ==
  [][\A e \in Events \ sending : life[e] \in {"sent", "archived"} => life'[e] = life[e]]_lifeVars
=============================================================================
