------------------------------ MODULE OpsAlerts ------------------------------
(***************************************************************************)
(* Alerts to the people who run the installation.  OpsAlertService scans   *)
(* the inbound connections of a workspace and tells its phones about the   *)
(* silent ones; WhatsappDisconnectAlertsService watches the health of the  *)
(* WhatsApp providers on a timer that does not wait for the previous tick. *)
(***************************************************************************)
EXTENDS Integers, Sequences

CONSTANTS
  Lines,        \* InboundWebhookConnection rows of the workspace
  Phones,       \* phones the manager may enter
  Settings,     \* the settings the manager may save
  WaProviders,  \* the registered adapters, in order
  Replies,      \* what a provider may answer a health check
  Streak,       \* DISCONNECT_ALERT_STREAK
  Sweeps,       \* bound: ticks of the timer under way at a time
  MaxHour,      \* bound: the clock, in hours
  MaxSweeps,    \* bound: ticks of the timer
  MaxSaves,     \* bound: times the settings are saved
  MaxLineMoves  \* bound: deliveries and removals of connections

ASSUME AlertsAssumption ==
  /\ Streak \in Nat \ {0} /\ MaxHour \in Nat /\ MaxSaves \in Nat /\ MaxLineMoves \in Nat /\ MaxSweeps \in Nat
  /\ Settings \subseteq [enabled : BOOLEAN, phones : SUBSET Phones, silence : BOOLEAN, threshold : Nat, debounce : Nat]
  /\ WaProviders \in Seq({WaProviders[i] : i \in DOMAIN WaProviders}) /\ WaProviders # <<>>

VARIABLES
  hour,      \* the clock
  alertSet,  \* WorkspaceOpsAlertSettings
  saves,     \* saves so far
  line,      \* InboundWebhookConnection: status, createdAt, lastDeliveryAt, removedAt
  lineMoves, \* deliveries and removals so far
  alerted,   \* WorkspaceOpsAlertDelivery: createdAt of the latest sent row per connection
  told,      \* history: the latest alert a phone received, and whether its row was written
  scan,      \* the scan under way
  streak,    \* the timer's map of streaks
  sweep,     \* ticks under way
  swept,     \* ticks so far
  seen       \* history: disconnected checks and alerts since the last connected one

alertVars == <<hour, alertSet, saves, line, lineMoves, alerted, told, scan, streak, sweep, swept, seen>>

Unsaid == 0 - 1

Hours == {Unsaid} \cup 0..MaxHour

LineStatuses == {"production", "observation", "disabled"}

NoSettings == [enabled |-> FALSE, phones |-> {}, silence |-> TRUE, threshold |-> 24, debounce |-> 6]

NoScan == [pc |-> "idle", set |-> NoSettings, now |-> Unsaid, todo |-> {}, read |-> <<>>, at |-> {}]

Adapters == {WaProviders[i] : i \in DOMAIN WaProviders}

NoStreak == [count |-> 0, fired |-> FALSE]

NoSweep == [pc |-> "idle", left |-> <<>>]

LineRecs == [status : LineStatuses, created : Hours, last : Hours, removed : BOOLEAN]

AlertsTypeOK ==
  /\ hour \in 0..MaxHour /\ alertSet \in Settings \cup {NoSettings} /\ saves \in 0..MaxSaves
  /\ line \in [Lines -> LineRecs] /\ lineMoves \in 0..MaxLineMoves
  /\ alerted \in [Lines -> Hours] /\ told \in [Lines -> [at : Hours, noted : BOOLEAN]]
  /\ scan.pc \in {"idle", "listing", "next", "recent", "sending", "recording"} /\ scan.at \subseteq Lines
  /\ streak \in [Adapters -> [count : 0..Streak, fired : BOOLEAN]]
  /\ seen \in [Adapters -> [downs : Nat, alerts : Nat]]
  /\ swept \in 0..MaxSweeps

AlertsInit ==
  /\ hour = 0 /\ alertSet \in Settings \cup {NoSettings} /\ saves = 0
  /\ line \in [Lines -> [status : {"production", "observation"}, created : {0}, last : {Unsaid, 0}, removed : {FALSE}]]
  /\ lineMoves = 0
  /\ alerted = [c \in Lines |-> Unsaid] /\ told = [c \in Lines |-> [at |-> Unsaid, noted |-> FALSE]]
  /\ scan = NoScan
  /\ streak = [p \in Adapters |-> NoStreak]
  /\ sweep = [s \in Sweeps |-> NoSweep] /\ swept = 0
  /\ seen = [p \in Adapters |-> [downs |-> 0, alerts |-> 0]]

watchVars == <<streak, sweep, swept, seen>>

-----------------------------------------------------------------------------
(* The world: time, deliveries, removals.                                  *)

HourPasses ==
  /\ hour < MaxHour /\ hour' = hour + 1
  /\ UNCHANGED <<alertSet, saves, line, lineMoves, alerted, told, scan>> /\ UNCHANGED watchVars

LineChanges(c, r) ==
  /\ ~line[c].removed /\ lineMoves < MaxLineMoves
  /\ line' = [line EXCEPT ![c] = r] /\ lineMoves' = lineMoves + 1
  /\ UNCHANGED <<hour, alertSet, saves, alerted, told, scan>> /\ UNCHANGED watchVars

WebhookArrives(c) == LineChanges(c, [line[c] EXCEPT !.last = hour])

LineRemoved(c) == LineChanges(c, [line[c] EXCEPT !.removed = TRUE, !.status = "disabled"])

(* upsertSettings: one row per workspace; phones are digits, without repetition. *)
UpsertSettings(s) ==
  /\ saves < MaxSaves /\ saves' = saves + 1 /\ alertSet' = s
  /\ UNCHANGED <<hour, line, lineMoves, alerted, told, scan>> /\ UNCHANGED watchVars

-----------------------------------------------------------------------------
(* runScan: the repeated job of one worker.  It works on what it read when *)
(* it began: the time, the settings and then the connections.              *)

ScanAt(pc) == scan.pc = pc

ScanGoes(pc, todo, at) ==
  scan' = [pc |-> pc, set |-> scan.set, now |-> scan.now, todo |-> todo, read |-> scan.read, at |-> at]

ScanStarts ==
  /\ ScanAt("idle") /\ alertSet.enabled /\ alertSet.phones # {}
  /\ scan' = [pc |-> "listing", set |-> alertSet, now |-> hour, todo |-> {}, read |-> <<>>, at |-> {}]
  /\ UNCHANGED <<hour, alertSet, saves, line, lineMoves, alerted, told>> /\ UNCHANGED watchVars

Scanned(r) == ~r.removed /\ r.status \in {"production", "observation"}

ScanLists ==
  /\ ScanAt("listing")
  /\ scan' = [pc |-> "next", set |-> scan.set, now |-> scan.now, todo |-> {c \in Lines : Scanned(line[c])},
              read |-> line, at |-> {}]
  /\ UNCHANGED <<hour, alertSet, saves, line, lineMoves, alerted, told>> /\ UNCHANGED watchVars

(* Silent since the last delivery, or since its creation; a connection under *)
(* observation must have delivered once.                                     *)
Silent(r, now, threshold) ==
  IF r.last # Unsaid THEN now - r.last > threshold
  ELSE r.status = "production" /\ now - r.created > threshold

ScanTakes(c) ==
  /\ ScanAt("next") /\ c \in scan.todo
  /\ LET silent == Silent(scan.read[c], scan.now, scan.set.threshold) /\ scan.set.silence IN
     ScanGoes(IF silent THEN "recent" ELSE "next", scan.todo \ {c}, IF silent THEN {c} ELSE {})
  /\ UNCHANGED <<hour, alertSet, saves, line, lineMoves, alerted, told>> /\ UNCHANGED watchVars

ScanEnds ==
  /\ ScanAt("next") /\ scan.todo = {}
  /\ scan' = NoScan
  /\ UNCHANGED <<hour, alertSet, saves, line, lineMoves, alerted, told>> /\ UNCHANGED watchVars

(* notify: is there a sent row of the last debounceHours? *)
Recent(c) == alerted[c] # Unsaid /\ alerted[c] >= scan.now - scan.set.debounce

ScanLooks(c) ==
  /\ ScanAt("recent") /\ scan.at = {c}
  /\ IF Recent(c) THEN ScanGoes("next", scan.todo, {}) ELSE ScanGoes("sending", scan.todo, {c})
  /\ UNCHANGED <<hour, alertSet, saves, line, lineMoves, alerted, told>> /\ UNCHANGED watchVars

(* All phones at once; one that receives it is enough. *)
ScanSends(c, reached) ==
  /\ ScanAt("sending") /\ scan.at = {c} /\ reached \subseteq scan.set.phones
  /\ told' = IF reached = {} THEN told ELSE [told EXCEPT ![c] = [at |-> hour, noted |-> FALSE]]
  /\ IF reached = {} THEN ScanGoes("next", scan.todo, {}) ELSE ScanGoes("recording", scan.todo, {c})
  /\ UNCHANGED <<hour, alertSet, saves, line, lineMoves, alerted>> /\ UNCHANGED watchVars

(* record: the row of the sent alert, or nothing when the write fails. *)
ScanRecords(c, written) ==
  /\ ScanAt("recording") /\ scan.at = {c}
  /\ alerted' = IF written THEN [alerted EXCEPT ![c] = hour] ELSE alerted
  /\ told' = [told EXCEPT ![c].noted = written]
  /\ ScanGoes("next", scan.todo, {})
  /\ UNCHANGED <<hour, alertSet, saves, line, lineMoves>> /\ UNCHANGED watchVars

(* The scan throws or its process dies: the job is over, the next one comes. *)
ScanBreaks ==
  /\ ~ScanAt("idle")
  /\ scan' = NoScan
  /\ UNCHANGED <<hour, alertSet, saves, line, lineMoves, alerted, told>> /\ UNCHANGED watchVars

-----------------------------------------------------------------------------
(* The timer of the provider health checks.                                *)

settingVars == <<hour, alertSet, saves, line, lineMoves, alerted, told, scan>>

(* runOnce is started by every interval, whether or not the last one ended. *)
SweepStarts(s) ==
  /\ sweep[s] = NoSweep /\ swept < MaxSweeps /\ swept' = swept + 1
  /\ sweep' = [sweep EXCEPT ![s] = [pc |-> "checking", left |-> WaProviders]]
  /\ UNCHANGED <<streak, seen>> /\ UNCHANGED settingVars

(* getHealth of the adapters.  A reply is "unset" where the adapter is not *)
(* configured and asks nobody, "unreachable" for an exception or an HTTP   *)
(* error, "odd" for a body without the expected field.                     *)
HealthOfUazapi(a) == IF a = "unset" THEN "disconnected" ELSE "connected"

HealthOfNodApi(a) ==
  CASE a \in {"unset", "disabled", "odd"} -> "disconnected"
    [] a = "working" -> "connected"
    [] a \in {"qr", "unlicensed"} -> "needs_reconnect"
    [] OTHER -> "error"

HealthOfWaha(a) ==
  CASE a \in {"unset", "stopped"} -> "disconnected"
    [] a = "working" -> "connected"
    [] a = "qr" -> "needs_reconnect"
    [] OTHER -> "error"

HealthOfZapi(a) ==
  CASE a = "working" -> "connected"
    [] a = "qr" -> "needs_reconnect"
    [] a = "unreachable" -> "error"
    [] OTHER -> "disconnected"

HealthOf(p, a) ==
  CASE p = "uazapi_byo" -> HealthOfUazapi(a)
    [] p = "nod_api" -> HealthOfNodApi(a)
    [] p = "waha" -> HealthOfWaha(a)
    [] OTHER -> HealthOfZapi(a)

NextProvider(s) ==
  LET left == Tail(sweep[s].left) IN
  IF left = <<>> THEN NoSweep ELSE [pc |-> "checking", left |-> left]

Counted(p) == [count |-> IF streak[p].count < Streak THEN streak[p].count + 1 ELSE Streak, fired |-> streak[p].fired]

Fires(p) == Counted(p).count >= Streak /\ ~streak[p].fired

(* Mutant: the flag is left to be set when the webhook has answered. *)
AfterCheckLater(p) == Counted(p)

AfterCheck(p) == [count |-> Counted(p).count, fired |-> streak[p].fired \/ Fires(p)]

(* evaluateProviderHealth after getHealth: without another await up to the *)
(* alert.  An ambiguous status, or an exception, changes nothing.          *)
SweepChecks(s, a) ==
  LET p == Head(sweep[s].left)
      health == HealthOf(p, a)
      fires == health = "disconnected" /\ Fires(p)
  IN
  /\ sweep[s].pc = "checking"
  /\ streak' = IF health = "connected" THEN [streak EXCEPT ![p] = NoStreak]
               ELSE IF health = "disconnected" THEN [streak EXCEPT ![p] = AfterCheck(p)] ELSE streak
  /\ seen' = IF health = "connected" THEN [seen EXCEPT ![p] = [downs |-> 0, alerts |-> 0]]
             ELSE IF health = "disconnected"
             THEN [seen EXCEPT ![p] = [downs |-> @.downs + 1, alerts |-> IF fires THEN @.alerts + 1 ELSE @.alerts]] ELSE seen
  /\ sweep' = [sweep EXCEPT ![s] = IF fires THEN [@ EXCEPT !.pc = "firing"] ELSE NextProvider(s)]
  /\ UNCHANGED swept /\ UNCHANGED settingVars

(* fireAlert: the webhook is awaited, at most five seconds, and its failure *)
(* is logged.                                                               *)
SweepFired(s) ==
  /\ sweep[s].pc = "firing"
  /\ sweep' = [sweep EXCEPT ![s] = NextProvider(s)]
  /\ UNCHANGED <<streak, swept, seen>> /\ UNCHANGED settingVars

AlertsNext ==
  \/ HourPasses \/ (\E c \in Lines : WebhookArrives(c) \/ LineRemoved(c)) \/ (\E s \in Settings : UpsertSettings(s))
  \/ ScanStarts \/ ScanLists \/ ScanEnds \/ ScanBreaks
  \/ \E c \in Lines : \/ ScanTakes(c) \/ ScanLooks(c) \/ (\E r \in SUBSET Phones : ScanSends(c, r))
                      \/ \E b \in BOOLEAN : ScanRecords(c, b)
  \/ \E s \in Sweeps : SweepStarts(s) \/ SweepFired(s)
                       \/ \E a \in Replies : SweepChecks(s, a)

AlertsSpec == AlertsInit /\ [][AlertsNext]_alertVars

-----------------------------------------------------------------------------
(* Phones that were told of a silent connection, with the row to show for  *)
(* it, hear of it again only after the debounce hours of the scan, although *)
(* a scan works on settings, connections and a time it read long before    *)
(* (ops-alerts.service.ts, notify).                                        *)
AlertsDebounced ==
  \A c \in Lines : told[c].noted /\ ~told'[c].noted => hour - told[c].at > scan.set.debounce

(* A provider is reported exactly when it was seen disconnected Streak      *)
(* times since it was last seen connected, and once, although ticks of the  *)
(* timer overlap (whatsapp-disconnect-alerts.service.ts).                   *)
OneAlertPerStreak ==
  \A p \in Adapters : seen[p].alerts = IF seen[p].downs >= Streak THEN 1 ELSE 0

(* Both, and the types, whatever scans, ticks, saved settings and          *)
(* deliveries overlap.                                                     *)
AlertsSafe == [][AlertsTypeOK' /\ AlertsDebounced /\ OneAlertPerStreak']_alertVars
=============================================================================
