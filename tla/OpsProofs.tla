------------------------------ MODULE OpsProofs ------------------------------
(***************************************************************************)
(* Alerts, transactional email, the licence guard and the external ledger, *)
(* for every number of connections, adapters, ticks, mails, requests,      *)
(* contacts, rows, syncs and faults, and every validity, grace window,     *)
(* cache time and page size.                                               *)
(***************************************************************************)
EXTENDS OpsAlerts, TransactionalEmail, License, ExternalLedger, BullJobProofs, SequenceTheorems, FiniteSetTheorems,
        WellFoundedInduction

(***************************************************************************)
(* The scan.  What a phone was told and the row that shows it; what the    *)
(* scan has read is never newer than what it is compared with.             *)
(***************************************************************************)
ScanTyped ==
  /\ hour \in Nat /\ scan.now \in Int /\ scan.now =< hour
  /\ alertSet.debounce \in Nat /\ scan.set.debounce \in Nat
  /\ alerted \in [Lines -> Int] /\ told \in [Lines -> [at : Int, noted : BOOLEAN]]

(* A noted alert has its row, and no alert is dated in the future. *)
NotedHasRow ==
  \A c \in Lines : /\ told[c].at =< hour
                   /\ told[c].noted => alerted[c] >= told[c].at /\ alerted[c] # Unsaid

(* The scan sends only what it found not to be recent, and between the     *)
(* alert and its row the alert is not noted.                               *)
ScanTrue ==
  \A c \in scan.at : c \in Lines =>
    /\ scan.pc = "sending" => ~Recent(c)
    /\ scan.pc = "recording" => ~told[c].noted

ScanInv == ScanTyped /\ NotedHasRow /\ ScanTrue

(***************************************************************************)
(* The ticks.  The streak is the number of disconnected checks, up to      *)
(* Streak, and the flag says that it got there.                            *)
(***************************************************************************)
TickTyped ==
  /\ streak \in [Adapters -> [count : Nat, fired : BOOLEAN]]
  /\ seen \in [Adapters -> [downs : Nat, alerts : Nat]]
  /\ sweep \in [Sweeps -> [pc : {"idle", "checking", "firing"}, left : Seq(Adapters)]]
  /\ \A s \in Sweeps : sweep[s].pc # "idle" => sweep[s].left # <<>>

StreakTrue ==
  \A p \in Adapters :
    /\ streak[p].count = IF seen[p].downs < Streak THEN seen[p].downs ELSE Streak
    /\ streak[p].fired <=> seen[p].downs >= Streak

TickInv == TickTyped /\ StreakTrue /\ OneAlertPerStreak

LEMMA ScanInit == AlertsInit => ScanInv
<1> SUFFICES ASSUME AlertsInit PROVE ScanInv
  OBVIOUS
<1>1. /\ hour = 0 /\ scan = NoScan /\ alertSet \in Settings \cup {NoSettings}
      /\ alerted = [c \in Lines |-> Unsaid] /\ told = [c \in Lines |-> [at |-> Unsaid, noted |-> FALSE]]
  BY DEF AlertsInit
<1>2. alertSet.debounce \in Nat /\ NoScan.set.debounce \in Nat
  <2>1. NoSettings.debounce \in Nat /\ NoScan.set = NoSettings
    BY DEF NoSettings, NoScan
  <2>2. \A x \in Settings : x.debounce \in Nat
    BY AlertsAssumption
  <2> QED
    BY <1>1, <2>1, <2>2
<1>3. ScanTyped
  <2>1. Unsaid \in Int /\ Unsaid =< 0 /\ 0 \in Nat
    BY DEF Unsaid
  <2>2. scan.now = Unsaid
    BY <1>1 DEF NoScan
  <2>3. alerted \in [Lines -> Int] /\ told \in [Lines -> [at : Int, noted : BOOLEAN]]
    BY <1>1, <2>1
  <2> QED
    BY <1>1, <1>2, <2>1, <2>2, <2>3 DEF ScanTyped
<1>4. NotedHasRow
  <2>1. \A c \in Lines : ~told[c].noted /\ told[c].at = Unsaid /\ alerted[c] = Unsaid
    BY <1>1
  <2>2. Unsaid =< hour
    BY <1>1 DEF Unsaid
  <2> QED
    BY <2>1, <2>2, Zenon DEF NotedHasRow
<1>5. ScanTrue
  BY <1>1 DEF ScanTrue, NoScan
<1> QED
  BY <1>3, <1>4, <1>5 DEF ScanInv

(* A step of the scan that sends and records nothing. *)
LEMMA QuietScan ==
  ASSUME ScanInv, UNCHANGED <<hour, alerted, told>>, alertSet'.debounce \in Nat,
         scan'.set.debounce \in Nat, scan'.now \in Int, scan'.now =< hour,
         scan'.at = {} \/ scan'.pc \notin {"sending", "recording"} \/ UNCHANGED scan
  PROVE  ScanInv' /\ AlertsDebounced
<1>1. ScanTyped'
  BY DEF ScanInv, ScanTyped
<1>2. NotedHasRow'
  BY DEF ScanInv, NotedHasRow
<1>3. ScanTrue'
  <2>1. CASE UNCHANGED scan
    BY <2>1 DEF ScanInv, ScanTrue, Recent
  <2>2. CASE scan'.at = {} \/ scan'.pc \notin {"sending", "recording"}
    BY <2>2 DEF ScanTrue
  <2> QED
    BY <2>1, <2>2
<1>4. AlertsDebounced
  BY DEF AlertsDebounced
<1> QED
  BY <1>1, <1>2, <1>3, <1>4 DEF ScanInv

LEMMA ScanStep == ScanInv /\ [AlertsNext]_alertVars => ScanInv' /\ AlertsDebounced
<1> SUFFICES ASSUME ScanInv, [AlertsNext]_alertVars PROVE ScanInv' /\ AlertsDebounced
  OBVIOUS
<1> USE AlertsAssumption
<1>t. /\ scan.set.debounce \in Nat /\ alertSet.debounce \in Nat /\ scan.now \in Int /\ scan.now =< hour /\ hour \in Nat
  BY DEF ScanInv, ScanTyped
<1>n. NoScan.set.debounce \in Nat /\ NoScan.now = Unsaid /\ NoScan.at = {} /\ Unsaid \in Int /\ Unsaid =< hour
  BY <1>t DEF NoScan, NoSettings, Unsaid
<1>1. CASE HourPasses
  <2>1. /\ UNCHANGED <<alertSet, alerted, told, scan>> /\ hour' = hour + 1
    BY <1>1 DEF HourPasses
  <2> QED
    BY <2>1 DEF ScanInv, ScanTyped, NotedHasRow, ScanTrue, Recent, AlertsDebounced
<1>2. ASSUME NEW c \in Lines, WebhookArrives(c) \/ LineRemoved(c) PROVE ScanInv' /\ AlertsDebounced
  <2>1. UNCHANGED <<hour, alertSet, alerted, told, scan>>
    BY <1>2 DEF WebhookArrives, LineRemoved, LineChanges
  <2> QED
    BY <1>t, <2>1, QuietScan
<1>3. ASSUME NEW s \in Settings, UpsertSettings(s) PROVE ScanInv' /\ AlertsDebounced
  <2>1. UNCHANGED <<hour, alerted, told, scan>> /\ alertSet' = s
    BY <1>3 DEF UpsertSettings
  <2>2. s.debounce \in Nat
    OBVIOUS
  <2> QED
    BY <1>t, <2>1, <2>2, QuietScan
<1>4. CASE ScanStarts
  <2>1. /\ UNCHANGED <<hour, alertSet, alerted, told>>
        /\ scan'.set = alertSet /\ scan'.now = hour /\ scan'.at = {}
    BY <1>4 DEF ScanStarts
  <2> QED
    BY <1>t, <2>1, QuietScan
<1>5. CASE ScanLists
  <2>1. /\ UNCHANGED <<hour, alertSet, alerted, told>>
        /\ scan'.set = scan.set /\ scan'.now = scan.now /\ scan'.at = {}
    BY <1>5 DEF ScanLists
  <2> QED
    BY <1>t, <2>1, QuietScan
<1>6. CASE ScanEnds \/ ScanBreaks
  <2>1. UNCHANGED <<hour, alertSet, alerted, told>> /\ scan' = NoScan
    BY <1>6 DEF ScanEnds, ScanBreaks
  <2> QED
    BY <1>t, <1>n, <2>1, QuietScan
<1>7. ASSUME NEW c \in Lines, ScanTakes(c) PROVE ScanInv' /\ AlertsDebounced
  <2>1. /\ UNCHANGED <<hour, alertSet, alerted, told>>
        /\ scan'.set = scan.set /\ scan'.now = scan.now /\ scan'.pc \in {"recent", "next"}
    BY <1>7 DEF ScanTakes, ScanGoes
  <2> QED
    BY <1>t, <2>1, QuietScan
<1>8. ASSUME NEW c \in Lines, ScanLooks(c) PROVE ScanInv' /\ AlertsDebounced
  <2>1. UNCHANGED <<hour, alertSet, alerted, told>> /\ scan'.set = scan.set /\ scan'.now = scan.now
    BY <1>8 DEF ScanLooks, ScanGoes
  <2>2. CASE Recent(c)
    <3>1. scan'.at = {}
      BY <1>8, <2>2 DEF ScanLooks, ScanGoes
    <3> QED
      BY <1>t, <2>1, <3>1, QuietScan
  <2>3. CASE ~Recent(c)
    <3>1. scan'.pc = "sending" /\ scan'.at = {c}
      BY <1>8, <2>3 DEF ScanLooks, ScanGoes
    <3>2. ScanTrue'
      BY <2>1, <2>3, <3>1 DEF ScanTrue, Recent
    <3> QED
      BY <2>1, <3>2 DEF ScanInv, ScanTyped, NotedHasRow, AlertsDebounced
  <2> QED
    BY <2>2, <2>3
<1>9. ASSUME NEW c \in Lines, NEW reached \in SUBSET Phones, ScanSends(c, reached) PROVE ScanInv' /\ AlertsDebounced
  <2>1. UNCHANGED <<hour, alertSet, alerted>> /\ scan'.set = scan.set /\ scan'.now = scan.now
    BY <1>9 DEF ScanSends, ScanGoes
  <2>2. CASE reached = {}
    <3>1. scan'.at = {} /\ UNCHANGED told
      BY <1>9, <2>2 DEF ScanSends, ScanGoes
    <3> QED
      BY <1>t, <2>1, <3>1, QuietScan
  <2>3. CASE reached # {}
    <3>1. /\ scan'.pc = "recording" /\ scan'.at = {c}
          /\ told' = [told EXCEPT ![c] = [at |-> hour, noted |-> FALSE]]
      BY <1>9, <2>3 DEF ScanSends, ScanGoes
    <3>2. ~Recent(c)
      BY <1>9 DEF ScanSends, ScanAt, ScanInv, ScanTrue
    <3>3. AlertsDebounced
      BY <3>1, <3>2 DEF AlertsDebounced, Recent, ScanInv, ScanTyped, NotedHasRow
    <3>4. ScanTyped'
      BY <2>1, <3>1 DEF ScanInv, ScanTyped
    <3>5. NotedHasRow'
      BY <2>1, <3>1 DEF ScanInv, ScanTyped, NotedHasRow
    <3>6. ScanTrue'
      BY <3>1 DEF ScanInv, ScanTyped, ScanTrue
    <3> QED
      BY <3>3, <3>4, <3>5, <3>6 DEF ScanInv
  <2> QED
    BY <2>2, <2>3
<1>10. ASSUME NEW c \in Lines, NEW written \in BOOLEAN, ScanRecords(c, written) PROVE ScanInv' /\ AlertsDebounced
  <2>1. /\ UNCHANGED <<hour, alertSet>> /\ scan'.set = scan.set /\ scan'.now = scan.now /\ scan'.at = {}
        /\ alerted' = IF written THEN [alerted EXCEPT ![c] = hour] ELSE alerted
        /\ told' = [told EXCEPT ![c].noted = written]
    BY <1>10 DEF ScanRecords, ScanGoes
  <2>2. ~told[c].noted
    BY <1>10 DEF ScanRecords, ScanAt, ScanInv, ScanTrue
  <2>3. ScanTyped'
    <3>1. told' \in [Lines -> [at : Int, noted : BOOLEAN]]
      BY <2>1 DEF ScanInv, ScanTyped
    <3>2. alerted' \in [Lines -> Int]
      BY <1>t, <2>1 DEF ScanInv, ScanTyped
    <3> QED
      BY <1>t, <2>1, <3>1, <3>2 DEF ScanTyped
  <2>4. NotedHasRow'
    BY <2>1 DEF ScanInv, ScanTyped, NotedHasRow, Unsaid
  <2>5. ScanTrue'
    BY <2>1 DEF ScanTrue
  <2>6. AlertsDebounced
    BY <2>1, <2>2 DEF AlertsDebounced, ScanInv, ScanTyped
  <2> QED
    BY <2>3, <2>4, <2>5, <2>6 DEF ScanInv
<1>11. CASE UNCHANGED settingVars
  BY <1>t, <1>11, QuietScan DEF settingVars
<1>12. ASSUME NEW s \in Sweeps, SweepStarts(s) \/ SweepFired(s) \/ \E a \in Replies : SweepChecks(s, a)
       PROVE  UNCHANGED settingVars
  BY <1>12 DEF SweepStarts, SweepFired, SweepChecks
<1>13. CASE UNCHANGED alertVars
  BY <1>13, <1>11 DEF alertVars, settingVars
<1> QED
  BY <1>1, <1>2, <1>3, <1>4, <1>5, <1>6, <1>7, <1>8, <1>9, <1>10, <1>11, <1>12, <1>13 DEF AlertsNext

LEMMA TickInit == AlertsInit => TickInv
<1> SUFFICES ASSUME AlertsInit PROVE TickInv
  OBVIOUS
<1> USE AlertsAssumption
<1>1. /\ streak = [p \in Adapters |-> NoStreak] /\ sweep = [s \in Sweeps |-> NoSweep]
      /\ seen = [p \in Adapters |-> [downs |-> 0, alerts |-> 0]]
  BY DEF AlertsInit
<1>2. TickTyped
  <2>1. streak \in [Adapters -> [count : Nat, fired : BOOLEAN]]
    BY <1>1 DEF NoStreak
  <2>2. seen \in [Adapters -> [downs : Nat, alerts : Nat]]
    BY <1>1
  <2>3. sweep \in [Sweeps -> [pc : {"idle", "checking", "firing"}, left : Seq(Adapters)]]
    BY <1>1, EmptySeq DEF NoSweep
  <2>4. \A s \in Sweeps : sweep[s].pc = "idle"
    BY <1>1 DEF NoSweep
  <2> QED
    BY <2>1, <2>2, <2>3, <2>4 DEF TickTyped
<1>3. StreakTrue /\ OneAlertPerStreak
  BY <1>1 DEF StreakTrue, OneAlertPerStreak, NoStreak
<1> QED
  BY <1>2, <1>3 DEF TickInv

(* The rest of a tick, after an adapter that was checked. *)
LEMMA NextProviderTyped ==
  ASSUME TickTyped, NEW s \in Sweeps, sweep[s].pc # "idle"
  PROVE  /\ NextProvider(s) \in [pc : {"idle", "checking", "firing"}, left : Seq(Adapters)]
         /\ NextProvider(s).pc # "idle" => NextProvider(s).left # <<>>
         /\ Head(sweep[s].left) \in Adapters
<1>1. sweep[s].left \in Seq(Adapters) /\ sweep[s].left # <<>>
  BY DEF TickTyped
<1>2. Tail(sweep[s].left) \in Seq(Adapters) /\ Head(sweep[s].left) \in Adapters
  BY <1>1, HeadTailProperties
<1>3. <<>> \in Seq(Adapters)
  BY EmptySeq
<1> QED
  BY <1>2, <1>3 DEF NextProvider, NoSweep

LEMMA TickStep == TickInv /\ [AlertsNext]_alertVars => TickInv'
<1> SUFFICES ASSUME TickInv, [AlertsNext]_alertVars PROVE TickInv'
  OBVIOUS
<1> USE AlertsAssumption
<1>1. CASE UNCHANGED watchVars
  BY <1>1 DEF watchVars, TickInv, TickTyped, StreakTrue, OneAlertPerStreak
<1>2. ASSUME NEW s \in Sweeps, NEW next, UNCHANGED <<streak, seen>>, sweep' = [sweep EXCEPT ![s] = next],
             next \in [pc : {"idle", "checking", "firing"}, left : Seq(Adapters)],
             next.pc # "idle" => next.left # <<>>
      PROVE  TickInv'
  BY <1>2 DEF TickInv, TickTyped, StreakTrue, OneAlertPerStreak
<1>3. ASSUME NEW s \in Sweeps, SweepStarts(s) PROVE TickInv'
  <2> DEFINE next == [pc |-> "checking", left |-> WaProviders]
  <2>1. UNCHANGED <<streak, seen>> /\ sweep' = [sweep EXCEPT ![s] = next]
    BY <1>3 DEF SweepStarts
  <2>2. WaProviders \in Seq(Adapters) /\ WaProviders # <<>>
    BY DEF Adapters
  <2>3. next \in [pc : {"idle", "checking", "firing"}, left : Seq(Adapters)] /\ next.left # <<>>
    BY <2>2
  <2> QED
    BY <2>1, <2>3, <1>2
<1>4. ASSUME NEW s \in Sweeps, SweepFired(s) PROVE TickInv'
  <2>1. /\ UNCHANGED <<streak, seen>> /\ sweep' = [sweep EXCEPT ![s] = NextProvider(s)]
        /\ sweep[s].pc # "idle"
    BY <1>4 DEF SweepFired
  <2> QED
    BY <2>1, <1>2, NextProviderTyped DEF TickInv
<1>5. ASSUME NEW s \in Sweeps, NEW a \in Replies, SweepChecks(s, a) PROVE TickInv'
  <2> DEFINE p == Head(sweep[s].left)
             health == HealthOf(p, a)
             fires == health = "disconnected" /\ Fires(p)
  <2>1. /\ sweep[s].pc = "checking"
        /\ streak' = IF health = "connected" THEN [streak EXCEPT ![p] = NoStreak]
                     ELSE IF health = "disconnected" THEN [streak EXCEPT ![p] = AfterCheck(p)] ELSE streak
        /\ seen' = IF health = "connected" THEN [seen EXCEPT ![p] = [downs |-> 0, alerts |-> 0]]
                   ELSE IF health = "disconnected"
                   THEN [seen EXCEPT ![p] = [downs |-> @.downs + 1, alerts |-> IF fires THEN @.alerts + 1 ELSE @.alerts]] ELSE seen
        /\ sweep' = [sweep EXCEPT ![s] = IF fires THEN [@ EXCEPT !.pc = "firing"] ELSE NextProvider(s)]
    BY <1>5 DEF SweepChecks
  <2>2. p \in Adapters
    BY <2>1, NextProviderTyped DEF TickInv
  <2>3. /\ sweep' \in [Sweeps -> [pc : {"idle", "checking", "firing"}, left : Seq(Adapters)]]
        /\ \A t \in Sweeps : sweep'[t].pc # "idle" => sweep'[t].left # <<>>
    <3> HIDE DEF p, health, fires
    <3>1. /\ NextProvider(s) \in [pc : {"idle", "checking", "firing"}, left : Seq(Adapters)]
          /\ NextProvider(s).pc # "idle" => NextProvider(s).left # <<>>
      BY <2>1, NextProviderTyped DEF TickInv
    <3>2. TickTyped /\ sweep[s].left # <<>>
      BY <2>1 DEF TickInv, TickTyped
    <3> QED
      BY <2>1, <3>1, <3>2 DEF TickTyped
  <2> HIDE DEF p, health
  <2>4. CASE health = "connected"
    <3>1. /\ streak' = [streak EXCEPT ![p] = NoStreak]
          /\ seen' = [seen EXCEPT ![p] = [downs |-> 0, alerts |-> 0]]
      BY <2>1, <2>4
    <3> QED
      BY <2>2, <2>3, <3>1 DEF TickInv, TickTyped, StreakTrue, OneAlertPerStreak, NoStreak
  <2>5. CASE health = "disconnected"
    <3>1. /\ streak' = [streak EXCEPT ![p] = AfterCheck(p)]
          /\ seen' = [seen EXCEPT ![p] = [downs |-> @.downs + 1, alerts |-> IF Fires(p) THEN @.alerts + 1 ELSE @.alerts]]
      BY <2>1, <2>5
    <3>2. /\ streak[p].count \in Nat /\ streak[p].fired \in BOOLEAN /\ seen[p].downs \in Nat /\ seen[p].alerts \in Nat
          /\ streak[p].count = IF seen[p].downs < Streak THEN seen[p].downs ELSE Streak
          /\ streak[p].fired <=> seen[p].downs >= Streak
          /\ seen[p].alerts = IF seen[p].downs >= Streak THEN 1 ELSE 0
      BY <2>2 DEF TickInv, TickTyped, StreakTrue, OneAlertPerStreak
    <3>3. Fires(p) <=> seen[p].downs + 1 = Streak
      BY <3>2 DEF Fires, Counted
    <3>4. /\ AfterCheck(p).count = IF seen[p].downs + 1 < Streak THEN seen[p].downs + 1 ELSE Streak
          /\ AfterCheck(p).fired <=> seen[p].downs + 1 >= Streak
          /\ AfterCheck(p) \in [count : Nat, fired : BOOLEAN]
      <4>1. Counted(p).count = IF seen[p].downs + 1 < Streak THEN seen[p].downs + 1 ELSE Streak
        BY <3>2 DEF Counted
      <4>2. (streak[p].fired \/ Fires(p)) <=> seen[p].downs + 1 >= Streak
        <5>1. (seen[p].downs >= Streak \/ seen[p].downs + 1 = Streak) <=> seen[p].downs + 1 >= Streak
          BY <3>2
        <5> QED
          BY <3>2, <3>3, <5>1, Zenon
      <4>3. /\ AfterCheck(p).count = Counted(p).count
            /\ AfterCheck(p).fired = (streak[p].fired \/ Fires(p))
        BY DEF AfterCheck
      <4>4. Counted(p).count \in Nat
        BY <3>2, <4>1
      <4>5. (streak[p].fired \/ Fires(p)) \in BOOLEAN
        BY Zenon
      <4>6. AfterCheck(p) \in [count : Nat, fired : BOOLEAN]
        BY <4>4, <4>5 DEF AfterCheck
      <4>7. AfterCheck(p).fired <=> seen[p].downs + 1 >= Streak
        BY <4>2, <4>3
      <4> QED
        BY <4>1, <4>3, <4>6, <4>7
    <3>5. /\ streak'[p] = AfterCheck(p) /\ seen'[p].downs = seen[p].downs + 1
          /\ seen'[p].alerts = IF seen'[p].downs >= Streak THEN 1 ELSE 0
      BY <2>2, <3>1, <3>2, <3>3 DEF TickInv, TickTyped
    <3>6. \A q \in Adapters : q # p => streak'[q] = streak[q] /\ seen'[q] = seen[q]
      BY <3>1 DEF TickInv, TickTyped
    <3>7. /\ streak' \in [Adapters -> [count : Nat, fired : BOOLEAN]]
          /\ seen' \in [Adapters -> [downs : Nat, alerts : Nat]]
      <4>1. streak' \in [Adapters -> [count : Nat, fired : BOOLEAN]]
        BY <2>2, <3>1, <3>4 DEF TickInv, TickTyped
      <4>2. seen[p].downs + 1 \in Nat /\ (IF Fires(p) THEN seen[p].alerts + 1 ELSE seen[p].alerts) \in Nat
        BY <3>2
      <4>3. seen' \in [Adapters -> [downs : Nat, alerts : Nat]]
        BY <2>2, <3>1, <4>2 DEF TickInv, TickTyped
      <4> QED
        BY <4>1, <4>3
    <3>8. \A q \in Adapters : /\ streak'[q].count = IF seen'[q].downs < Streak THEN seen'[q].downs ELSE Streak
                              /\ seen'[q].alerts = IF seen'[q].downs >= Streak THEN 1 ELSE 0
      <4>1. \A q \in Adapters : q # p => /\ streak'[q].count = IF seen'[q].downs < Streak THEN seen'[q].downs ELSE Streak
                                         /\ seen'[q].alerts = IF seen'[q].downs >= Streak THEN 1 ELSE 0
        BY <3>6 DEF TickInv, StreakTrue, OneAlertPerStreak
      <4> QED
        BY <3>4, <3>5, <4>1
    <3>9. \A q \in Adapters : streak'[q].fired <=> seen'[q].downs >= Streak
      <4>1. \A q \in Adapters : q # p => (streak'[q].fired <=> seen'[q].downs >= Streak)
        BY <3>6, Zenon DEF TickInv, StreakTrue
      <4>2. streak'[p].fired <=> seen'[p].downs >= Streak
        BY <3>4, <3>5, Zenon
      <4> QED
        BY <4>1, <4>2, Zenon
    <3> QED
      BY <2>3, <3>7, <3>8, <3>9, Zenon DEF TickInv, TickTyped, StreakTrue, OneAlertPerStreak
  <2>6. CASE health \notin {"connected", "disconnected"}
    <3>1. UNCHANGED <<streak, seen>>
      BY <2>1, <2>6
    <3> QED
      BY <2>3, <3>1 DEF TickInv, TickTyped, StreakTrue, OneAlertPerStreak
  <2> QED
    BY <2>4, <2>5, <2>6
<1>6. ASSUME \/ HourPasses \/ (\E c \in Lines : WebhookArrives(c) \/ LineRemoved(c)) \/ (\E s \in Settings : UpsertSettings(s))
             \/ ScanStarts \/ ScanLists \/ ScanEnds \/ ScanBreaks
             \/ \E c \in Lines : \/ ScanTakes(c) \/ ScanLooks(c) \/ (\E r \in SUBSET Phones : ScanSends(c, r))
                                 \/ \E b \in BOOLEAN : ScanRecords(c, b)
      PROVE  UNCHANGED watchVars
  BY <1>6 DEF HourPasses, WebhookArrives, LineRemoved, LineChanges, UpsertSettings, ScanStarts, ScanLists, ScanEnds,
              ScanBreaks, ScanTakes, ScanLooks, ScanSends, ScanRecords
<1>7. CASE UNCHANGED alertVars
  BY <1>7, <1>1 DEF alertVars, watchVars
<1> QED
  BY <1>1, <1>3, <1>4, <1>5, <1>6, <1>7 DEF AlertsNext

(* The rest of the state. *)
WatchTyped ==
  /\ hour \in 0..MaxHour /\ alertSet \in Settings \cup {NoSettings} /\ saves \in 0..MaxSaves
  /\ line \in [Lines -> LineRecs] /\ lineMoves \in 0..MaxLineMoves
  /\ alerted \in [Lines -> Hours] /\ told \in [Lines -> [at : Hours, noted : BOOLEAN]]
  /\ scan.pc \in {"idle", "listing", "next", "recent", "sending", "recording"} /\ scan.at \subseteq Lines
  /\ swept \in 0..MaxSweeps

LEMMA WatchStart == AlertsInit => WatchTyped
<1> SUFFICES ASSUME AlertsInit PROVE WatchTyped
  OBVIOUS
<1>1. /\ hour \in 0..MaxHour /\ saves \in 0..MaxSaves /\ lineMoves \in 0..MaxLineMoves /\ swept \in 0..MaxSweeps
      /\ Unsaid \in Hours /\ 0 \in Hours
  BY AlertsAssumption DEF AlertsInit, Hours
<1>2. line \in [Lines -> LineRecs]
  BY <1>1 DEF AlertsInit, LineRecs, LineStatuses
<1>3. alerted \in [Lines -> Hours] /\ told \in [Lines -> [at : Hours, noted : BOOLEAN]]
  BY <1>1 DEF AlertsInit
<1>4. scan.pc = "idle" /\ scan.at \subseteq Lines /\ alertSet \in Settings \cup {NoSettings}
  BY DEF AlertsInit, NoScan
<1> QED
  BY <1>1, <1>2, <1>3, <1>4 DEF WatchTyped

LEMMA WatchStep == WatchTyped /\ [AlertsNext]_alertVars => WatchTyped'
<1> SUFFICES ASSUME WatchTyped, [AlertsNext]_alertVars PROVE WatchTyped'
  OBVIOUS
<1> USE AlertsAssumption
<1>0. hour \in Hours /\ hour \in 0..MaxHour
  BY DEF WatchTyped, Hours
<1>1. /\ hour' \in 0..MaxHour /\ saves' \in 0..MaxSaves /\ lineMoves' \in 0..MaxLineMoves
      /\ alertSet' \in Settings \cup {NoSettings}
  <2>1. \/ UNCHANGED <<hour, saves, lineMoves, alertSet>>
        \/ hour < MaxHour /\ hour' = hour + 1 /\ UNCHANGED <<saves, lineMoves, alertSet>>
        \/ lineMoves < MaxLineMoves /\ lineMoves' = lineMoves + 1 /\ UNCHANGED <<hour, saves, alertSet>>
        \/ saves < MaxSaves /\ saves' = saves + 1 /\ alertSet' \in Settings /\ UNCHANGED <<hour, lineMoves>>
    BY DEF alertVars, AlertsNext, HourPasses, WebhookArrives, LineRemoved, LineChanges, UpsertSettings,
           ScanStarts, ScanLists, ScanEnds, ScanBreaks, ScanTakes, ScanLooks, ScanSends, ScanRecords, SweepStarts,
           SweepFired, SweepChecks, settingVars
  <2>2. hour' \in 0..MaxHour /\ saves' \in 0..MaxSaves /\ lineMoves' \in 0..MaxLineMoves
    BY <2>1 DEF WatchTyped
  <2>3. alertSet' \in Settings \cup {NoSettings}
    BY <2>1, Zenon DEF WatchTyped
  <2> QED
    BY <2>2, <2>3
<1>2. swept' \in 0..MaxSweeps
  <2>1. UNCHANGED swept \/ (swept < MaxSweeps /\ swept' = swept + 1)
    BY DEF alertVars, AlertsNext, HourPasses, WebhookArrives, LineRemoved, LineChanges, UpsertSettings,
           ScanStarts, ScanLists, ScanEnds, ScanBreaks, ScanTakes, ScanLooks, ScanSends, ScanRecords, SweepStarts, SweepFired,
           SweepChecks, watchVars
  <2> QED
    BY <2>1 DEF WatchTyped
<1>3. line' \in [Lines -> LineRecs]
  <2>1. ASSUME NEW c \in Lines, WebhookArrives(c) \/ LineRemoved(c) PROVE line' \in [Lines -> LineRecs]
    <3>1. line[c] \in LineRecs
      BY DEF WatchTyped
    <3>2. [line[c] EXCEPT !.last = hour] \in LineRecs
      BY <1>0, <3>1 DEF LineRecs
    <3>3. [line[c] EXCEPT !.removed = TRUE, !.status = "disabled"] \in LineRecs
      <4>1. PICK r \in LineRecs : r = [line[c] EXCEPT !.removed = TRUE]
        BY <3>1 DEF LineRecs
      <4>2. [r EXCEPT !.status = "disabled"] \in LineRecs
        BY <4>1 DEF LineRecs, LineStatuses
      <4> QED
        BY <4>1, <4>2, Zenon
    <3> QED
      BY <2>1, <3>2, <3>3 DEF WebhookArrives, LineRemoved, LineChanges, WatchTyped
  <2>2. UNCHANGED line \/ \E c \in Lines : WebhookArrives(c) \/ LineRemoved(c)
    BY DEF alertVars, AlertsNext, HourPasses, UpsertSettings, ScanStarts, ScanLists, ScanEnds, ScanBreaks, ScanTakes,
           ScanLooks, ScanSends, ScanRecords, SweepStarts, SweepFired, SweepChecks, settingVars
  <2> QED
    BY <2>1, <2>2 DEF WatchTyped
<1>4. alerted' \in [Lines -> Hours] /\ told' \in [Lines -> [at : Hours, noted : BOOLEAN]]
  <2>1. ASSUME NEW c \in Lines, NEW r \in SUBSET Phones, ScanSends(c, r)
        PROVE  UNCHANGED alerted /\ told' \in [Lines -> [at : Hours, noted : BOOLEAN]]
    BY <1>0, <2>1 DEF ScanSends, WatchTyped
  <2>2. ASSUME NEW c \in Lines, NEW b \in BOOLEAN, ScanRecords(c, b)
        PROVE  alerted' \in [Lines -> Hours] /\ told' \in [Lines -> [at : Hours, noted : BOOLEAN]]
    BY <1>0, <2>2 DEF ScanRecords, WatchTyped
  <2>3. \/ UNCHANGED <<alerted, told>>
        \/ \E c \in Lines : (\E r \in SUBSET Phones : ScanSends(c, r)) \/ (\E b \in BOOLEAN : ScanRecords(c, b))
    BY DEF alertVars, AlertsNext, HourPasses, WebhookArrives, LineRemoved, LineChanges, UpsertSettings, ScanStarts,
           ScanLists, ScanEnds, ScanBreaks, ScanTakes, ScanLooks, SweepStarts, SweepFired, SweepChecks, settingVars
  <2> QED
    BY <2>1, <2>2, <2>3 DEF WatchTyped
<1>5. scan'.pc \in {"idle", "listing", "next", "recent", "sending", "recording"} /\ scan'.at \subseteq Lines
  <2>1. CASE ScanStarts \/ ScanLists \/ ScanEnds \/ ScanBreaks
    BY <2>1 DEF ScanStarts, ScanLists, ScanEnds, ScanBreaks, NoScan
  <2>2. ASSUME NEW c \in Lines, ScanTakes(c)
        PROVE  scan'.pc \in {"recent", "next"} /\ scan'.at \subseteq Lines
    BY <2>2 DEF ScanTakes, ScanGoes
  <2>3. ASSUME NEW c \in Lines,
               ScanLooks(c) \/ (\E r \in SUBSET Phones : ScanSends(c, r)) \/ (\E b \in BOOLEAN : ScanRecords(c, b))
        PROVE  scan'.pc \in {"next", "sending", "recording"} /\ scan'.at \subseteq Lines
    BY <2>3 DEF ScanLooks, ScanSends, ScanRecords, ScanGoes
  <2>4. \/ UNCHANGED scan \/ ScanStarts \/ ScanLists \/ ScanEnds \/ ScanBreaks
        \/ \E c \in Lines : \/ ScanTakes(c) \/ ScanLooks(c) \/ (\E r \in SUBSET Phones : ScanSends(c, r))
                            \/ \E b \in BOOLEAN : ScanRecords(c, b)
    BY DEF alertVars, AlertsNext, HourPasses, WebhookArrives, LineRemoved, LineChanges, UpsertSettings,
           SweepStarts, SweepFired, SweepChecks, settingVars
  <2> QED
    BY <2>1, <2>2, <2>3, <2>4 DEF WatchTyped
<1> QED
  BY <1>1, <1>2, <1>3, <1>4, <1>5 DEF WatchTyped

(* Phones that have a row to show for an alert hear of the connection again *)
(* only after the debounce hours, and a provider is reported exactly once   *)
(* per streak of disconnected checks, for any settings, any number of       *)
(* overlapping ticks and any interleaving with the scan                     *)
(* (ops-alerts.service.ts, whatsapp-disconnect-alerts.service.ts).          *)
THEOREM AlertsOnce == AlertsSpec => AlertsSafe
<1>1. TickInv => OneAlertPerStreak
  BY DEF TickInv
<1>2. WatchTyped /\ TickInv => AlertsTypeOK
  <2> SUFFICES ASSUME WatchTyped, TickInv PROVE AlertsTypeOK
    OBVIOUS
  <2>1. \A p \in Adapters : streak[p].count \in 0..Streak /\ streak[p] \in [count : Nat, fired : BOOLEAN]
    BY AlertsAssumption DEF TickInv, TickTyped, StreakTrue
  <2>2. streak \in [Adapters -> [count : 0..Streak, fired : BOOLEAN]]
    BY <2>1 DEF TickInv, TickTyped
  <2> QED
    BY <2>2 DEF WatchTyped, TickInv, TickTyped, AlertsTypeOK
<1>3. WatchTyped /\ ScanInv /\ TickInv /\ [AlertsNext]_alertVars
        => WatchTyped' /\ ScanInv' /\ TickInv' /\ AlertsDebounced
  BY ScanStep, TickStep, WatchStep
<1> QED
  BY <1>1, <1>2, <1>3, ScanInit, TickInit, WatchStart, PTL DEF AlertsSpec, AlertsSafe

-----------------------------------------------------------------------------
(***************************************************************************)
(* The mails.  What SMTP accepted is what was lost track of, and one more  *)
(* while the worker still knows it or after the job completed; a completed *)
(* job is never put back; and a "sent" on the row has its accepted copy.   *)
(***************************************************************************)
MailPcs == {"idle", "open", "send", "sent", "over", "transient", "permanent", "spoiled", "lost"}

MailTyped ==
  /\ card \in [MailInvites -> [status : CardStatuses, version : Nat]]
  /\ mailJob \in [Mails -> Jobs] /\ mailDone \subseteq Mails
  /\ mailAt \in [Mails -> MailPcs]
  /\ accepted \in [Mails -> Nat] /\ unsure \in [Mails -> Nat]

Knows(m) == mailAt[m] \in {"sent", "over"} \/ m \in mailDone

CopiesCounted == \A m \in Mails : accepted[m] = IF Knows(m) THEN unsure[m] + 1 ELSE unsure[m]

DoneRests == \A m \in mailDone : mailAt[m] = "idle" /\ mailJob[m].state = "none"

SentHasCopy ==
  \A i \in MailInvites : card[i].status = "sent" =>
    <<i, card[i].version>> \in Mails /\ accepted[<<i, card[i].version>>] > 0

MailInv == MailTyped /\ CopiesCounted /\ DoneRests /\ SentHasCopy

LEMMA MailStarts == MailInit => MailInv
<1> SUFFICES ASSUME MailInit PROVE MailInv
  OBVIOUS
<1>1. NoJob \in Jobs
  BY MaxAttemptsAssumption, MaxStalledAssumption DEF NoJob, Jobs, JobStates
<1>2. MailTyped
  <2>1. card \in [MailInvites -> [status : CardStatuses, version : Nat]]
    BY DEF MailInit, CardStatuses
  <2>2. mailJob \in [Mails -> Jobs] /\ mailDone \subseteq Mails
    BY <1>1 DEF MailInit
  <2>3. mailAt \in [Mails -> MailPcs]
    BY DEF MailInit, MailPcs
  <2>4. accepted \in [Mails -> Nat] /\ unsure \in [Mails -> Nat]
    BY DEF MailInit
  <2> QED
    BY <2>1, <2>2, <2>3, <2>4 DEF MailTyped
<1> QED
  BY <1>2 DEF MailInit, MailInv, CopiesCounted, DoneRests, SentHasCopy, Knows

(* The requests and the rows: nothing the worker knows changes. *)
LEMMA CardStep ==
  ASSUME MailInv, UNCHANGED <<mailJob, mailDone, mailAt, accepted, unsure>>,
         card' \in [MailInvites -> [status : CardStatuses, version : Nat]],
         \A i \in MailInvites : card'[i].status = "sent" => card'[i] = card[i]
  PROVE  MailInv'
<1>1. MailTyped' /\ CopiesCounted' /\ DoneRests'
  BY DEF MailInv, MailTyped, CopiesCounted, DoneRests, Knows
<1>2. SentHasCopy'
  BY DEF MailInv, SentHasCopy
<1> QED
  BY <1>1, <1>2 DEF MailInv

(* A job of a mail that is not done moves; the worker and the row do not. *)
LEMMA JobStep ==
  ASSUME MailInv, UNCHANGED <<card, mailDone, mailAt, accepted, unsure>>,
         mailJob' \in [Mails -> Jobs], \A m \in mailDone : mailJob'[m] = mailJob[m]
  PROVE  MailInv'
<1>1. MailTyped' /\ CopiesCounted' /\ SentHasCopy'
  BY DEF MailInv, MailTyped, CopiesCounted, SentHasCopy, Knows
<1>2. DoneRests'
  BY DEF MailInv, DoneRests
<1> QED
  BY <1>1, <1>2 DEF MailInv

(* The worker moves with mail m, which is not done: its copies are counted *)
(* again, the copies of the other mails are not touched.                   *)
CopiesOf(m, pc) ==
  /\ accepted' \in [Mails -> Nat] /\ unsure' \in [Mails -> Nat]
  /\ \A n \in Mails : n # m => accepted'[n] = accepted[n] /\ unsure'[n] = unsure[n]
  /\ accepted'[m] >= accepted[m]
  /\ \/ UNCHANGED mailDone /\ accepted'[m] = (IF pc \in {"sent", "over"} THEN unsure'[m] + 1 ELSE unsure'[m])
     \/ mailDone' = mailDone \cup {m} /\ pc = "idle" /\ mailJob'[m].state = "none" /\ accepted'[m] = unsure'[m] + 1

JobOf(m) == mailJob' \in [Mails -> Jobs] /\ \A n \in Mails : n # m => mailJob'[n] = mailJob[n]

CardOf(m) ==
  /\ card' \in [MailInvites -> [status : CardStatuses, version : Nat]]
  /\ \A i \in MailInvites : card'[i].status = "sent" =>
       card'[i] = card[i] \/ (m = <<i, card'[i].version>> /\ accepted[m] > 0)

LEMMA WorkerStep ==
  ASSUME MailInv, NEW m \in Mails, m \notin mailDone, NEW pc \in MailPcs, mailAt' = [mailAt EXCEPT ![m] = pc],
         CopiesOf(m, pc), JobOf(m), CardOf(m)
  PROVE  MailInv'
<1>1. MailTyped'
  BY DEF MailInv, MailTyped, CopiesOf, JobOf, CardOf
<1>2. mailAt'[m] = pc /\ \A n \in Mails : n # m => mailAt'[n] = mailAt[n]
  BY DEF MailInv, MailTyped
<1>3. CopiesCounted'
  BY <1>2 DEF MailInv, CopiesCounted, Knows, CopiesOf
<1>4. DoneRests'
  BY <1>2 DEF MailInv, MailTyped, DoneRests, CopiesOf, JobOf
<1>5. \A n \in Mails : accepted[n] > 0 => accepted'[n] > 0
  <2>1. accepted[m] \in Nat /\ accepted'[m] \in Nat /\ accepted'[m] >= accepted[m]
    BY DEF MailInv, MailTyped, CopiesOf
  <2>2. accepted[m] > 0 => accepted'[m] > 0
    BY <2>1
  <2> QED
    BY <2>2 DEF CopiesOf
<1>6. SentHasCopy'
  BY <1>5 DEF MailInv, SentHasCopy, CardOf
<1> QED
  BY <1>1, <1>3, <1>4, <1>6 DEF MailInv

LEMMA CardRests ==
  ASSUME MailInv, NEW m \in Mails, UNCHANGED card
  PROVE  CardOf(m)
BY DEF MailInv, MailTyped, CardOf

LEMMA MailStepKeeps == MailInv /\ [MailNext]_mailVars => MailInv'
<1> SUFFICES ASSUME MailInv, [MailNext]_mailVars PROVE MailInv'
  OBVIOUS
<1> USE DEF MailGoes
<1>1. MailTyped /\ CopiesCounted /\ DoneRests /\ SentHasCopy
  BY DEF MailInv
<1>2. \A m \in Mails : mailJob[m] \in Jobs /\ (mailAt[m] # "idle" \/ mailJob[m].state # "none" => m \notin mailDone)
  BY <1>1 DEF MailTyped, DoneRests
<1>3. \A i \in MailInvites : card[i].version \in Nat /\ card[i] \in [status : CardStatuses, version : Nat]
  BY <1>1 DEF MailTyped
<1>4. ASSUME NEW i \in MailInvites, IssueInvite(i) PROVE MailInv'
  <2>1. card[i].version + 1 \in Nat /\ "pending" \in CardStatuses
    BY <1>3 DEF CardStatuses
  <2>2. card' \in [MailInvites -> [status : CardStatuses, version : Nat]]
    BY <1>1, <1>4, <2>1 DEF IssueInvite, MailTyped
  <2>3. \A k \in MailInvites : card'[k].status = "sent" => card'[k] = card[k]
    BY <1>1, <1>4 DEF IssueInvite, MailTyped
  <2> QED
    BY <1>4, <2>2, <2>3, CardStep DEF IssueInvite
<1>5. ASSUME NEW i \in MailInvites, NEW s \in {"accepted", "revoked", "expired"}, CardCloses(i, s) PROVE MailInv'
  <2>1. card' \in [MailInvites -> [status : CardStatuses, version : Nat]]
    BY <1>1, <1>5 DEF CardCloses, MailTyped, CardStatuses
  <2>2. \A k \in MailInvites : card'[k].status = "sent" => card'[k] = card[k]
    BY <1>1, <1>5 DEF CardCloses, MailTyped
  <2> QED
    BY <1>5, <2>1, <2>2, CardStep DEF CardCloses
<1>6. ASSUME MarkUndelivered PROVE MailInv'
  <2>1. card' \in [MailInvites -> [status : CardStatuses, version : Nat]]
    BY <1>1, <1>6 DEF MarkUndelivered, MailTyped, CardStatuses
  <2>2. \A k \in MailInvites : card'[k].status = "sent" => card'[k] = card[k]
    BY <1>1, <1>6 DEF MarkUndelivered, MailTyped
  <2> QED
    BY <1>6, <2>1, <2>2, CardStep DEF MarkUndelivered
<1>7. ASSUME (\E t \in MailTokens : IssueToken(t)) \/ RequestDies \/ RotateSecret \/ UNCHANGED mailVars
      PROVE  MailInv'
  <2>1. UNCHANGED <<card, mailJob, mailDone, mailAt, accepted, unsure>>
    BY <1>7 DEF IssueToken, RequestDies, RotateSecret, mailVars
  <2> QED
    BY <1>1, <2>1, CardStep DEF MailTyped
<1>8. ASSUME NEW m \in Mails, EnqueueMail(m) \/ EnqueueMailFails(m) \/ MailBackoff(m) PROVE MailInv'
  <2>1. UNCHANGED <<card, mailDone, mailAt, accepted, unsure>>
    BY <1>8 DEF EnqueueMail, EnqueueMailFails, MailBackoff
  <2>2. \E j \in Jobs : mailJob' = [mailJob EXCEPT ![m] = j] /\ (m \in mailDone => j = mailJob[m])
    <3>1. CASE QueueMail(m)
      BY <1>2, <3>1, JobTyping DEF QueueMail
    <3>2. CASE UNCHANGED mailJob
      BY <1>1, <1>2, <3>2 DEF MailTyped
    <3>3. CASE MailBackoff(m)
      BY <1>2, <3>3, JobTyping DEF MailBackoff
    <3> QED
      BY <1>8, <3>1, <3>2, <3>3 DEF EnqueueMail, EnqueueMailFails
  <2>3. mailJob' \in [Mails -> Jobs] /\ \A n \in mailDone : mailJob'[n] = mailJob[n]
    BY <1>1, <2>2 DEF MailTyped
  <2> QED
    BY <2>1, <2>3, JobStep
<1>9. ASSUME NEW m \in Mails, \/ TakeMail(m) \/ OpenEnvelope(m) \/ FailMail(m)
                              \/ \E kind \in {"transient", "permanent"} : MailRefused(m, kind)
      PROVE  MailInv'
  <2>1. UNCHANGED <<card, mailDone, accepted, unsure>> /\ m \notin mailDone /\ mailAt[m] \notin {"sent", "over"}
    BY <1>2, <1>9 DEF TakeMail, OpenEnvelope, FailMail, MailRefused, WillRetry
  <2>2. PICK pc \in MailPcs : mailAt' = [mailAt EXCEPT ![m] = pc] /\ pc \notin {"sent", "over"}
    BY <1>9 DEF TakeMail, OpenEnvelope, FailMail, MailRefused, MailPcs
  <2>3. \E j \in Jobs : mailJob' = [mailJob EXCEPT ![m] = j]
    <3>1. CASE TakeMail(m)
      BY <1>2, <3>1, JobTyping DEF TakeMail
    <3>2. CASE FailMail(m)
      <4>1. [mailJob[m] EXCEPT !.state = "failed"] \in Jobs
        BY <1>2 DEF Jobs, JobStates
      <4> QED
        BY <1>2, <3>2, <4>1, JobTyping DEF FailMail
    <3>3. CASE UNCHANGED mailJob
      BY <1>1, <1>2, <3>3 DEF MailTyped
    <3> QED
      BY <1>9, <3>1, <3>2, <3>3 DEF OpenEnvelope, MailRefused
  <2>4. JobOf(m)
    BY <1>1, <2>3 DEF MailTyped, JobOf
  <2>5. accepted[m] \in Nat /\ accepted[m] = unsure[m]
    BY <1>1, <2>1 DEF MailTyped, CopiesCounted, Knows
  <2>6. CopiesOf(m, pc)
    BY <1>1, <2>1, <2>2, <2>5 DEF MailTyped, CopiesOf
  <2> QED
    BY <2>1, <2>2, <2>4, <2>6, CardRests, WorkerStep
<1>10. ASSUME NEW m \in Mails, MailAccepted(m) \/ AnswerLost(m) PROVE MailInv'
  <2>1. /\ UNCHANGED <<card, mailJob, mailDone>> /\ m \notin mailDone /\ mailAt[m] = "send"
        /\ accepted' = [accepted EXCEPT ![m] = accepted[m] + 1]
    BY <1>2, <1>10 DEF MailAccepted, AnswerLost
  <2>2. \/ mailAt' = [mailAt EXCEPT ![m] = "sent"] /\ UNCHANGED unsure
        \/ mailAt' = [mailAt EXCEPT ![m] = "transient"] /\ unsure' = [unsure EXCEPT ![m] = unsure[m] + 1]
    BY <1>10 DEF MailAccepted, AnswerLost
  <2>3. accepted[m] \in Nat /\ unsure[m] \in Nat /\ accepted[m] = unsure[m]
    BY <1>1, <2>1 DEF MailTyped, CopiesCounted, Knows
  <2>4. /\ accepted' \in [Mails -> Nat] /\ unsure' \in [Mails -> Nat]
        /\ \A n \in Mails : n # m => accepted'[n] = accepted[n] /\ unsure'[n] = unsure[n]
        /\ accepted'[m] = accepted[m] + 1
    BY <1>1, <2>1, <2>2, <2>3 DEF MailTyped
  <2>0. JobOf(m) /\ CardOf(m)
    BY <1>1, <2>1, CardRests DEF MailTyped, JobOf
  <2>5. CASE mailAt' = [mailAt EXCEPT ![m] = "sent"] /\ UNCHANGED unsure
    <3>1. CopiesOf(m, "sent") /\ "sent" \in MailPcs
      BY <2>1, <2>3, <2>4, <2>5 DEF CopiesOf, MailPcs
    <3> QED
      BY <2>0, <2>1, <2>5, <3>1, WorkerStep
  <2>6. CASE mailAt' = [mailAt EXCEPT ![m] = "transient"] /\ unsure' = [unsure EXCEPT ![m] = unsure[m] + 1]
    <3>1. unsure'[m] = unsure[m] + 1
      BY <1>1, <2>6 DEF MailTyped
    <3>2. CopiesOf(m, "transient") /\ "transient" \in MailPcs
      BY <2>1, <2>3, <2>4, <3>1 DEF CopiesOf, MailPcs
    <3> QED
      BY <2>0, <2>1, <2>6, <3>2, WorkerStep
  <2> QED
    BY <2>2, <2>5, <2>6
<1>11. ASSUME NEW m \in Mails, RecordOutcome(m) \/ OutcomeUnwritten(m) PROVE MailInv'
  <2>1. UNCHANGED <<mailJob, mailDone, accepted, unsure>> /\ m \notin mailDone
    BY <1>2, <1>11 DEF RecordOutcome, OutcomeUnwritten
  <2>2. \/ mailAt[m] = "sent" /\ mailAt' = [mailAt EXCEPT ![m] = "over"] /\ (MarkCard(m, "sent") \/ UNCHANGED card)
        \/ /\ mailAt[m] \in {"transient", "permanent"} /\ mailAt' = [mailAt EXCEPT ![m] = "lost"]
           /\ MarkCard(m, "failed") \/ UNCHANGED card
    BY <1>11 DEF RecordOutcome, OutcomeUnwritten
  <2>3. ASSUME NEW s \in {"sent", "failed"}, MarkCard(m, s)
        PROVE  /\ card' \in [MailInvites -> [status : CardStatuses, version : Nat]]
               /\ \A i \in MailInvites : card'[i].status = "sent" =>
                    card'[i] = card[i] \/ (m = <<i, card'[i].version>> /\ s = "sent")
    <3>1. card' = [i \in MailInvites |-> IF Matches(m, i) /\ card[i].status \in {"pending", "sent", "failed"}
                                         THEN [card[i] EXCEPT !.status = s] ELSE card[i]]
      BY <2>3 DEF MarkCard
    <3>2. \A i \in MailInvites : /\ [card[i] EXCEPT !.status = s] \in [status : CardStatuses, version : Nat]
                                 /\ [card[i] EXCEPT !.status = s].version = card[i].version
                                 /\ [card[i] EXCEPT !.status = s].status = s
      BY <1>3 DEF CardStatuses
    <3>3. card' \in [MailInvites -> [status : CardStatuses, version : Nat]]
      BY <1>3, <3>1, <3>2
    <3>4. \A i \in MailInvites : card'[i] = card[i] \/ (Matches(m, i) /\ card'[i] = [card[i] EXCEPT !.status = s])
      BY <3>1
    <3> QED
      BY <3>2, <3>3, <3>4 DEF Matches
  <2>4. accepted[m] \in Nat /\ unsure[m] \in Nat
    BY <1>1 DEF MailTyped
  <2>5. CASE mailAt[m] = "sent" /\ mailAt' = [mailAt EXCEPT ![m] = "over"] /\ (MarkCard(m, "sent") \/ UNCHANGED card)
    <3>1. accepted[m] = unsure[m] + 1 /\ accepted[m] > 0
      BY <1>1, <2>4, <2>5 DEF CopiesCounted, Knows
    <3>2. CardOf(m)
      BY <1>1, <2>3, <2>5, <3>1, CardRests DEF CardOf
    <3>3. CopiesOf(m, "over") /\ JobOf(m) /\ "over" \in MailPcs
      BY <1>1, <2>1, <2>4, <3>1 DEF MailTyped, CopiesOf, JobOf, MailPcs
    <3> QED
      BY <2>1, <2>5, <3>2, <3>3, WorkerStep
  <2>6. CASE /\ mailAt[m] \in {"transient", "permanent"} /\ mailAt' = [mailAt EXCEPT ![m] = "lost"]
             /\ MarkCard(m, "failed") \/ UNCHANGED card
    <3>1. accepted[m] = unsure[m]
      BY <1>1, <2>1, <2>6 DEF CopiesCounted, Knows
    <3>2. CardOf(m)
      BY <1>1, <2>3, <2>6, CardRests DEF CardOf
    <3>3. CopiesOf(m, "lost") /\ JobOf(m) /\ "lost" \in MailPcs
      BY <1>1, <2>1, <2>4, <3>1 DEF MailTyped, CopiesOf, JobOf, MailPcs
    <3> QED
      BY <2>1, <2>6, <3>2, <3>3, WorkerStep
  <2> QED
    BY <2>2, <2>5, <2>6
<1>12. ASSUME NEW m \in Mails, CompleteMail(m) PROVE MailInv'
  <2>1. /\ UNCHANGED <<card, accepted, unsure>> /\ m \notin mailDone /\ mailAt[m] = "over"
        /\ mailAt' = [mailAt EXCEPT ![m] = "idle"] /\ mailDone' = mailDone \cup {m}
        /\ mailJob' = [mailJob EXCEPT ![m] = NoJob]
    BY <1>2, <1>12 DEF CompleteMail
  <2>2. NoJob \in Jobs /\ NoJob.state = "none"
    BY <1>2, JobTyping DEF NoJob
  <2>3. accepted[m] \in Nat /\ accepted[m] = unsure[m] + 1
    BY <1>1, <2>1 DEF MailTyped, CopiesCounted, Knows
  <2>4. JobOf(m) /\ mailJob'[m] = NoJob
    BY <1>1, <2>1, <2>2 DEF MailTyped, JobOf
  <2>5. CopiesOf(m, "idle") /\ "idle" \in MailPcs
    BY <1>1, <2>1, <2>2, <2>3, <2>4 DEF MailTyped, CopiesOf, MailPcs
  <2> QED
    BY <2>1, <2>4, <2>5, CardRests, WorkerStep
<1>13. ASSUME NEW m \in Mails, MailStalls(m) PROVE MailInv'
  <2>1. /\ UNCHANGED <<card, accepted, mailDone>> /\ m \notin mailDone
        /\ mailAt' = [mailAt EXCEPT ![m] = "idle"]
        /\ mailJob' = [mailJob EXCEPT ![m] = Stall(mailJob[m])]
        /\ unsure' = IF mailAt[m] \in {"sent", "over"} THEN [unsure EXCEPT ![m] = unsure[m] + 1] ELSE unsure
    BY <1>2, <1>13 DEF MailStalls
  <2>2. JobOf(m)
    BY <1>1, <1>2, <2>1, JobTyping DEF MailTyped, JobOf
  <2>3. /\ accepted[m] \in Nat /\ unsure[m] \in Nat
        /\ accepted[m] = IF mailAt[m] \in {"sent", "over"} THEN unsure[m] + 1 ELSE unsure[m]
    BY <1>1, <2>1 DEF MailTyped, CopiesCounted, Knows
  <2>4. /\ unsure' \in [Mails -> Nat] /\ \A n \in Mails : n # m => unsure'[n] = unsure[n]
        /\ unsure'[m] = accepted[m]
    BY <1>1, <2>1, <2>3 DEF MailTyped
  <2>5. CopiesOf(m, "idle") /\ "idle" \in MailPcs
    BY <1>1, <2>1, <2>3, <2>4 DEF MailTyped, CopiesOf, MailPcs
  <2> QED
    BY <2>1, <2>2, <2>5, CardRests, WorkerStep
<1> QED
  BY <1>4, <1>5, <1>6, <1>7, <1>8, <1>9, <1>10, <1>11, <1>12, <1>13 DEF MailNext, MailStep

(* What the copies do not depend on. *)
RequestsTyped ==
  /\ \A i \in MailInvites : card[i].version =< MaxVersions
  /\ issued \subseteq MailTokens /\ unmarked \subseteq Mails
  /\ mailAsk \in {NoMailAsk} \cup [pc : {"queue", "undelivered"}, m : Mails]
  /\ secret \in {0, 1} /\ sealed \in [Mails -> {0, 1}] /\ mailFaults \in 0..MaxMailFaults

LEMMA RequestsStart == MailInit => RequestsTyped
<1> SUFFICES ASSUME MailInit PROVE RequestsTyped
  OBVIOUS
<1>1. /\ \A i \in MailInvites : card[i].version =< MaxVersions
      /\ secret \in {0, 1} /\ mailFaults \in 0..MaxMailFaults
  BY MailAssumption DEF MailInit
<1>2. sealed \in [Mails -> {0, 1}]
  BY DEF MailInit
<1>3. issued \subseteq MailTokens /\ unmarked \subseteq Mails /\ mailAsk = NoMailAsk
  BY DEF MailInit
<1> QED
  BY <1>1, <1>2, <1>3 DEF RequestsTyped

LEMMA RequestsStep == MailInv /\ RequestsTyped /\ [MailNext]_mailVars => RequestsTyped'
<1> SUFFICES ASSUME MailInv, RequestsTyped, [MailNext]_mailVars PROVE RequestsTyped'
  OBVIOUS
<1>1. issued' \subseteq MailTokens /\ unmarked' \subseteq Mails /\ secret' \in {0, 1}
  BY DEF RequestsTyped, mailVars, MailNext, MailStep, IssueInvite, CardCloses, IssueToken, MarkUndelivered, RequestDies,
         RotateSecret, EnqueueMail, EnqueueMailFails, TakeMail, MailBackoff, MailRefused, AnswerLost, OutcomeUnwritten,
         MailStalls, OpenEnvelope, MailAccepted, RecordOutcome, CompleteMail, FailMail
<1>2. mailFaults' \in 0..MaxMailFaults
  <2>1. UNCHANGED mailFaults \/ MailFault
    BY DEF mailVars, MailNext, MailStep, IssueInvite, CardCloses, IssueToken, MarkUndelivered, RequestDies,
           RotateSecret, EnqueueMail, EnqueueMailFails, TakeMail, MailBackoff, MailRefused, AnswerLost, OutcomeUnwritten,
           MailStalls, OpenEnvelope, MailAccepted, RecordOutcome, CompleteMail, FailMail
  <2> QED
    BY <2>1, MailAssumption DEF MailFault, RequestsTyped
<1>3. sealed' \in [Mails -> {0, 1}]
  <2>1. UNCHANGED sealed \/ \E m \in Mails : sealed' = [sealed EXCEPT ![m] = secret]
    BY DEF mailVars, MailNext, MailStep, IssueInvite, CardCloses, IssueToken, MarkUndelivered, RequestDies,
           RotateSecret, EnqueueMail, EnqueueMailFails, QueueMail, TakeMail, MailBackoff, MailRefused, AnswerLost,
           OutcomeUnwritten, MailStalls, OpenEnvelope, MailAccepted, RecordOutcome, CompleteMail, FailMail
  <2> QED
    BY <2>1 DEF RequestsTyped
<1>4. mailAsk' \in {NoMailAsk} \cup [pc : {"queue", "undelivered"}, m : Mails]
  <2>1. ASSUME NEW i \in MailInvites, IssueInvite(i) PROVE <<i, card[i].version + 1>> \in Mails
    BY <2>1, MailAssumption DEF IssueInvite, Mails, MailInv, MailTyped
  <2>2. ASSUME NEW t \in MailTokens PROVE <<t, 1>> \in Mails
    BY DEF Mails
  <2>3. ASSUME NEW m \in Mails, EnqueueMailFails(m)
        PROVE  mailAsk' \in [pc : {"queue", "undelivered"}, m : Mails]
    <3>1. mailAsk \in [pc : {"queue", "undelivered"}, m : Mails]
      BY <2>3 DEF EnqueueMailFails, Queueing, RequestsTyped, NoMailAsk
    <3> QED
      BY <2>3, <3>1 DEF EnqueueMailFails
  <2>4. \/ UNCHANGED mailAsk \/ mailAsk' = NoMailAsk
        \/ (\E i \in MailInvites : IssueInvite(i)) \/ (\E t \in MailTokens : IssueToken(t))
        \/ \E m \in Mails : EnqueueMailFails(m)
    BY DEF mailVars, MailNext, MailStep, CardCloses, MarkUndelivered, RequestDies, RotateSecret, EnqueueMail, TakeMail,
           MailBackoff, MailRefused, AnswerLost, OutcomeUnwritten, MailStalls, OpenEnvelope, MailAccepted,
           RecordOutcome, CompleteMail, FailMail
  <2>5. ASSUME NEW i \in MailInvites, IssueInvite(i) PROVE mailAsk' \in [pc : {"queue", "undelivered"}, m : Mails]
    BY <2>1, <2>5 DEF IssueInvite
  <2>6. ASSUME NEW t \in MailTokens, IssueToken(t) PROVE mailAsk' \in [pc : {"queue", "undelivered"}, m : Mails]
    BY <2>2, <2>6 DEF IssueToken
  <2> QED
    BY <2>3, <2>4, <2>5, <2>6 DEF RequestsTyped
<1>5. \A i \in MailInvites : card'[i].version =< MaxVersions
  <2>1. ASSUME NEW i \in MailInvites, IssueInvite(i) PROVE \A j \in MailInvites : card'[j].version =< MaxVersions
    BY <2>1, MailAssumption DEF IssueInvite, RequestsTyped, MailInv, MailTyped
  <2>2. ASSUME NEW i \in MailInvites, NEW s, CardCloses(i, s) PROVE \A j \in MailInvites : card'[j].version = card[j].version
    BY <2>2 DEF CardCloses, MailInv, MailTyped
  <2>3. ASSUME MarkUndelivered PROVE \A j \in MailInvites : card'[j].version = card[j].version
    BY <2>3 DEF MarkUndelivered, MailInv, MailTyped
  <2>4. ASSUME NEW m \in Mails, RecordOutcome(m) PROVE \A j \in MailInvites : card'[j].version = card[j].version
    BY <2>4 DEF RecordOutcome, MarkCard, MailInv, MailTyped
  <2>5. \/ UNCHANGED card \/ MarkUndelivered \/ \E m \in Mails : RecordOutcome(m)
        \/ \E i \in MailInvites : IssueInvite(i) \/ \E s \in {"accepted", "revoked", "expired"} : CardCloses(i, s)
    BY DEF mailVars, MailNext, MailStep, IssueToken, RequestDies, RotateSecret, EnqueueMail, EnqueueMailFails, TakeMail,
           MailBackoff, MailRefused, AnswerLost, OutcomeUnwritten, MailStalls, OpenEnvelope, MailAccepted, CompleteMail,
           FailMail
  <2> QED
    BY <2>1, <2>2, <2>3, <2>4, <2>5 DEF RequestsTyped
<1> QED
  BY <1>1, <1>2, <1>3, <1>4, <1>5 DEF RequestsTyped

(* An attempt known to be accepted is not repeated and an invitation says   *)
(* "sent" only of its current link, for any number of invitations, mails    *)
(* and versions, whatever refusals, lost answers, failed writes, stalls and *)
(* restarts happen (email.processor.ts, email-action-status.service.ts).    *)
THEOREM MailHonest == MailSpec => []MailSafe
<1>1. MailInv /\ RequestsTyped => MailSafe
  <2> SUFFICES ASSUME MailInv, RequestsTyped PROVE MailTypeOK /\ NoNeedlessCopy /\ SentIsTrue
    BY DEF MailSafe
  <2>3. MailTypeOK
    <3>1. card \in [MailInvites -> [status : CardStatuses, version : 0..MaxVersions]]
      BY MailAssumption DEF MailInv, MailTyped, RequestsTyped
    <3> QED
      BY <3>1, Zenon DEF MailTypeOK, MailInv, MailTyped, MailPcs, RequestsTyped
  <2>1. NoNeedlessCopy
    <3>1. \A m \in Mails : unsure[m] \in Nat /\ accepted[m] = IF Knows(m) THEN unsure[m] + 1 ELSE unsure[m]
      BY DEF MailInv, MailTyped, CopiesCounted
    <3> QED
      BY <3>1 DEF NoNeedlessCopy
  <2>2. SentIsTrue
    BY DEF MailInv, SentHasCopy, SentIsTrue
  <2> QED
    BY <2>1, <2>2, <2>3
<1> QED
  BY <1>1, MailStarts, MailStepKeeps, RequestsStart, RequestsStep, PTL DEF MailSpec

(***************************************************************************)
(* The licence.                                                            *)
(***************************************************************************)
(* What an activation or heartbeat holds once the server has answered. *)
Carried ==
  \A o \in LicOps :
    /\ licOp[o].pc \in {"answered", "verified"} => licOp[o].status \in Statuses /\ licOp[o].until # NotYet
    /\ licOp[o].pc = "verified" => licOp[o].checkedAt # NotYet

LicenseTyped == LicenseTypeOK /\ signKey =< moves /\ Carried

(* The histories say what the row says, and nothing is dated in the future. *)
HistoryTrue ==
  /\ blockedSince # NotYet <=> row.status = "blocked"
  /\ usableSince # NotYet <=> Usable(row, clock)
  /\ blockedSince =< clock /\ usableSince =< clock /\ decision.at =< clock
  /\ \A w \in Writers : writer[w].from =< clock

(* What the guard remembers was decided before the licence turned: a stale *)
(* decision may be used, but only as long as it is fresh.                  *)
DecidedBefore ==
  /\ ~Inert(env) /\ ~decision.locked /\ decision.at # NotYet /\ blockedSince # NotYet
       => decision.at =< blockedSince
  /\ decision.locked /\ decision.at # NotYet /\ usableSince # NotYet => decision.at =< usableSince

(* The environment changes only while nothing is remembered. *)
DownIsEmpty == phase = "down" => decision = NoDecision /\ \A w \in Writers : writer[w] = NoWriter

GuardInv == HistoryTrue /\ DecidedBefore /\ DownIsEmpty /\ LicenseSafe

USE LicenseAssumption DEF NotYet

-----------------------------------------------------------------------------
(* Types.                                                                  *)

LEMMA LicenseTypedInit == LicenseInit => LicenseTyped
<1> SUFFICES ASSUME LicenseInit PROVE LicenseTyped
  OBVIOUS
<1> USE LicenseAssumption DEF LicenseInit, Statuses, Times
<1>1. licOp \in [LicOps -> [pc : {"idle", "asked", "answered", "verified"}, boot : BOOLEAN,
                           status : Statuses \cup {"none"}, until : {NotYet} \cup 0..(MaxTime + Validity),
                           key : {NotYet} \cup 0..MaxLicenseMoves, checkedAt : Times]]
  BY DEF NoLicOp
<1>2. writer \in [Writers -> [pc : {"idle", "deciding", "admitted", "refused"}, from : Times]]
  BY DEF NoWriter
<1>3. Carried
  BY DEF Carried, NoLicOp
<1>4. /\ clock \in 0..MaxTime /\ mind \in Statuses /\ signKey \in 0..MaxLicenseMoves /\ moves \in 0..MaxLicenseMoves
  OBVIOUS
<1>6. env \in Envs /\ phase \in {"down", "booting", "up"} /\ failed \in BOOLEAN /\ row \in {NoRow}
  OBVIOUS
<1>7. /\ boots \in 0..MaxBoots /\ knownKey \in {NotYet} \cup 0..MaxLicenseMoves /\ triedAt \in Times
      /\ writes \in 0..MaxWrites /\ licTries \in 0..MaxTries /\ blockedSince \in Times /\ usableSince \in Times
  OBVIOUS
<1>5. decision \in [locked : BOOLEAN, at : Times]
  BY DEF NoDecision
<1> QED
  BY <1>1, <1>2, <1>3, <1>4, <1>5, <1>6, <1>7 DEF LicenseTyped, LicenseTypeOK

LEMMA OpTyped ==
  ASSUME LicenseTyped, NEW o \in LicOps
  PROVE  /\ licOp[o] \in [pc : {"idle", "asked", "answered", "verified"}, boot : BOOLEAN,
                          status : Statuses \cup {"none"}, until : {NotYet} \cup 0..(MaxTime + Validity),
                          key : {NotYet} \cup 0..MaxLicenseMoves, checkedAt : Times]
         /\ licOp[o].boot \in BOOLEAN
         /\ licOp[o].pc \in {"answered", "verified"} =>
              licOp[o].status \in Statuses /\ licOp[o].until \in 0..(MaxTime + Validity)
         /\ licOp[o].pc = "verified" => licOp[o].checkedAt \in 0..MaxTime
  BY DEF LicenseTyped, LicenseTypeOK, Carried, Times

LEMMA LicenseTypedStep == LicenseTyped /\ [LicenseNext]_licenseVars => LicenseTyped'
<1> SUFFICES ASSUME LicenseTyped, [LicenseNext]_licenseVars PROVE LicenseTyped'
  OBVIOUS
<1> USE DEF LicenseTyped, Statuses, Times
<1>1. CASE Tick
  BY <1>1 DEF Tick, Watched, LicenseTypeOK, Carried, NoRow
<1>2. ASSUME NEW s \in Statuses, ServerDecides(s) PROVE LicenseTyped'
  BY <1>2 DEF ServerDecides, LicenseTypeOK, Carried
<1>3. CASE ServerRotatesKey
  BY <1>3 DEF ServerRotatesKey, LicenseTypeOK, Carried
<1>4. CASE Crash
  BY <1>4 DEF Crash, LicenseTypeOK, Carried, NoDecision, NoLicOp, NoWriter
<1>5. ASSUME NEW e \in Envs, Boot(e) PROVE LicenseTyped'
  <2>1. CASE Configured(e) /\ ~Inert(e)
    <3>1. /\ phase' = "booting" /\ boots' \in 0..MaxBoots /\ env' = e
          /\ UNCHANGED <<clock, mind, signKey, moves, row, knownKey, failed, triedAt, decision, licTries, writer, writes,
                         blockedSince, usableSince>>
      BY <1>5, <2>1 DEF Boot, LicenseTypeOK
    <3>2. PICK o \in Activations : licOp' = [licOp EXCEPT ![o] = Asking(TRUE)]
      BY <1>5, <2>1 DEF Boot
    <3> QED
      BY <3>1, <3>2 DEF LicenseTypeOK, Carried, Asking, LicOps
  <2>2. CASE ~(Configured(e) /\ ~Inert(e))
    <3>1. phase' = "up" /\ UNCHANGED licOp
      BY <1>5, <2>2, Zenon DEF Boot
    <3> QED
      BY <1>5, <3>1 DEF Boot, LicenseTypeOK, Carried
  <2> QED
    BY <2>1, <2>2
<1>6. ASSUME NEW o \in Activations, AskActivation(o) PROVE LicenseTyped'
  BY <1>6 DEF AskActivation, LicenseTypeOK, Carried, Asking, LicOps
<1>7. CASE AskHeartbeat
  BY <1>7 DEF AskHeartbeat, LicenseTypeOK, Carried, Asking, LicOps
<1>8. ASSUME NEW o \in LicOps, ServerAnswers(o) PROVE LicenseTyped'
  BY <1>8, OpTyped DEF ServerAnswers, LicenseTypeOK, Carried
<1>9. ASSUME NEW o \in LicOps, VerifyAnswer(o) PROVE LicenseTyped'
  BY <1>9, OpTyped DEF VerifyAnswer, LicenseTypeOK, Carried
<1>10. ASSUME NEW o \in LicOps, StoreAnswer(o) PROVE LicenseTyped'
  BY <1>10, OpTyped DEF StoreAnswer, Listening, Watched, LicenseTypeOK, Carried, NoLicOp
<1>11. ASSUME NEW o \in LicOps, GiveUp(o) PROVE LicenseTyped'
  BY <1>11, OpTyped DEF GiveUp, KeyFetched, Listening, LicenseTypeOK, Carried, NoLicOp
<1>12. ASSUME NEW w \in Writers, WriteArrives(w) PROVE LicenseTyped'
  BY <1>12 DEF WriteArrives, AnswerWrite, LicenseTypeOK, Carried
<1>13. ASSUME NEW w \in Writers, DecideWrite(w) PROVE LicenseTyped'
  BY <1>13 DEF DecideWrite, AnswerWrite, Locked, LicenseTypeOK, Carried
<1>14. CASE UNCHANGED licenseVars
  BY <1>14 DEF licenseVars, LicenseTypeOK, Carried
<1> QED
  BY <1>1, <1>2, <1>3, <1>4, <1>5, <1>6, <1>7, <1>8, <1>9, <1>10, <1>11, <1>12, <1>13, <1>14 DEF LicenseNext

-----------------------------------------------------------------------------
(* The guard.                                                              *)

(* A row that says blocked is not usable, at any time. *)
LEMMA BlockedIsNotUsable ==
  ASSUME NEW r, NEW now, r.status = "blocked"
  PROVE  ~Usable(r, now)
  BY DEF Usable, DeriveStatus, NoRow

(* What the steps of the guard's invariant need of the types. *)
LEMMA GuardTypes ==
  ASSUME LicenseTyped
  PROVE  /\ clock \in Nat /\ blockedSince \in Int /\ usableSince \in Int /\ decision \in [locked : BOOLEAN, at : Int]
         /\ writer \in [Writers -> [pc : {"idle", "deciding", "admitted", "refused"}, from : Int]]
         /\ blockedSince >= NotYet /\ usableSince >= NotYet
  BY DEF LicenseTyped, LicenseTypeOK, Times

LEMMA GuardInit == LicenseInit => GuardInv
<1> SUFFICES ASSUME LicenseInit PROVE GuardInv
  OBVIOUS
<1>1. /\ clock = 0 /\ blockedSince = NotYet /\ usableSince = NotYet /\ row = NoRow
      /\ decision = NoDecision /\ \A w \in Writers : writer[w] = NoWriter
  BY DEF LicenseInit
<1>2. /\ row.status # "blocked"
      /\ ~Usable(row, clock)
  <2>1. NoRow.status = "none"
    BY DEF NoRow
  <2>2. DeriveStatus(NoRow, clock) = "unlicensed"
    BY DEF DeriveStatus
  <2> QED
    BY <1>1, <2>1, <2>2 DEF Usable
<1>3. HistoryTrue
  BY <1>1, <1>2 DEF HistoryTrue, NoDecision, NoWriter
<1>4. DecidedBefore /\ DownIsEmpty
  BY <1>1 DEF DecidedBefore, DownIsEmpty
<1>5. LicenseSafe
  BY <1>1 DEF LicenseSafe, BlockedIsEnforced, UsableIsHonoured
<1> QED
  BY <1>3, <1>4, <1>5 DEF GuardInv

(* A step that leaves the guard alone, whatever it does to the row, the    *)
(* clock or an activation, keeps the invariant.                            *)
LEMMA WorldKeepsGuard ==
  ASSUME LicenseTyped, LicenseTyped', GuardInv, UNCHANGED <<decision, writer, env>>, clock' >= clock, Watched,
         phase' = "down" => phase = "down"
  PROVE  GuardInv'
<1> USE GuardTypes
<1>0. clock' \in Nat
  BY DEF LicenseTyped, LicenseTypeOK
<1>1. HistoryTrue'
  <2>1. /\ (blockedSince # NotYet <=> row.status = "blocked")'
        /\ blockedSince' =< clock'
    BY <1>0 DEF Watched, GuardInv, HistoryTrue
  <2>2. /\ (usableSince # NotYet <=> Usable(row, clock))'
        /\ usableSince' =< clock'
    BY <1>0 DEF Watched, GuardInv, HistoryTrue
  <2>3. /\ decision'.at =< clock'
        /\ \A w \in Writers : writer'[w].from =< clock'
    BY <1>0 DEF GuardInv, HistoryTrue
  <2> QED
    BY <2>1, <2>2, <2>3 DEF HistoryTrue
<1>2. DecidedBefore'
  BY DEF Watched, GuardInv, HistoryTrue, DecidedBefore
<1>3. DownIsEmpty'
  BY DEF GuardInv, DownIsEmpty
<1>4. BlockedIsEnforced'
  BY DEF Watched, GuardInv, HistoryTrue, LicenseSafe, BlockedIsEnforced
<1>5. UsableIsHonoured'
  BY DEF Watched, GuardInv, HistoryTrue, LicenseSafe, UsableIsHonoured
<1> QED
  BY <1>1, <1>2, <1>3, <1>4, <1>5 DEF GuardInv, LicenseSafe

(* Nothing that the histories are about has changed. *)
LEMMA QuietIsWatched ==
  ASSUME LicenseTyped, GuardInv, UNCHANGED <<row, clock, blockedSince, usableSince>>
  PROVE  Watched
  BY GuardTypes DEF Watched, GuardInv, HistoryTrue

(* The world's steps and those of an activation or a heartbeat. *)
LEMMA WorldStep ==
  ASSUME LicenseTyped, LicenseTyped', GuardInv,
         \/ Tick \/ (\E s \in Statuses : ServerDecides(s)) \/ ServerRotatesKey
         \/ (\E o \in Activations : AskActivation(o)) \/ AskHeartbeat
         \/ \E o \in LicOps : ServerAnswers(o) \/ VerifyAnswer(o) \/ StoreAnswer(o) \/ GiveUp(o)
         \/ UNCHANGED licenseVars
  PROVE  GuardInv'
<1>1. CASE Tick
  <2>1. UNCHANGED <<decision, writer, env>> /\ clock' >= clock /\ Watched /\ UNCHANGED phase
    BY <1>1, GuardTypes DEF Tick
  <2> QED
    BY <2>1, WorldKeepsGuard
<1>2. ASSUME NEW o \in LicOps, StoreAnswer(o) PROVE GuardInv'
  <2>1. UNCHANGED <<decision, writer, env, clock>> /\ Watched
    BY <1>2 DEF StoreAnswer
  <2>2. phase' = "down" => phase = "down"
    BY <1>2 DEF StoreAnswer, Listening
  <2> QED
    BY <2>1, <2>2, GuardTypes, WorldKeepsGuard
<1>3. ASSUME UNCHANGED <<decision, writer, env, row, clock, blockedSince, usableSince>>,
             phase' = "down" => phase = "down"
      PROVE  GuardInv'
  BY <1>3, GuardTypes, QuietIsWatched, WorldKeepsGuard
<1>4. CASE (\E s \in Statuses : ServerDecides(s)) \/ ServerRotatesKey
  BY <1>3, <1>4 DEF ServerDecides, ServerRotatesKey
<1>5. CASE (\E o \in Activations : AskActivation(o)) \/ AskHeartbeat
  BY <1>3, <1>5 DEF AskActivation, AskHeartbeat
<1>6. ASSUME NEW o \in LicOps, ServerAnswers(o) \/ VerifyAnswer(o) PROVE GuardInv'
  BY <1>3, <1>6 DEF ServerAnswers, VerifyAnswer
<1>7. ASSUME NEW o \in LicOps, GiveUp(o) PROVE GuardInv'
  BY <1>3, <1>7 DEF GiveUp, Listening
<1>8. CASE UNCHANGED licenseVars
  BY <1>3, <1>8 DEF licenseVars
<1> QED
  BY <1>1, <1>2, <1>4, <1>5, <1>6, <1>7, <1>8

(* A start or a stop of the process: nothing is remembered after it. *)
LEMMA ProcessStep ==
  ASSUME LicenseTyped, GuardInv, Crash \/ \E e \in Envs : Boot(e)
  PROVE  GuardInv'
<1> USE GuardTypes DEF GuardInv, HistoryTrue, DecidedBefore, DownIsEmpty, LicenseSafe, BlockedIsEnforced,
                       UsableIsHonoured, NoDecision, NoWriter
<1>1. CASE Crash
  <2>1. /\ UNCHANGED <<row, clock, blockedSince, usableSince>>
        /\ decision' = NoDecision /\ writer' = [w \in Writers |-> NoWriter]
    BY <1>1 DEF Crash
  <2> QED
    BY <2>1
<1>2. ASSUME NEW e \in Envs, Boot(e) PROVE GuardInv'
  <2>1. /\ UNCHANGED <<row, clock, blockedSince, usableSince, decision, writer>>
        /\ phase = "down"
    BY <1>2 DEF Boot
  <2>2. phase' # "down"
    BY <1>2 DEF Boot
  <2> QED
    BY <2>1, <2>2
<1> QED
  BY <1>1, <1>2

(* A write that uses the cached decision, or begins a lookup. *)
LEMMA ArrivalStep ==
  ASSUME LicenseTyped, GuardInv, NEW w \in Writers, WriteArrives(w)
  PROVE  GuardInv'
<1> USE GuardTypes
<1>1. UNCHANGED <<row, clock, env, phase, decision, blockedSince, usableSince>> /\ phase = "up"
  BY DEF WriteArrives
<1>2. /\ writer' = [writer EXCEPT ![w] = writer'[w]] /\ writer'[w].from = clock
      /\ writer'[w].pc = "admitted" => Fresh /\ ~decision.locked
      /\ writer'[w].pc = "refused" => Fresh /\ decision.locked
  BY DEF WriteArrives, AnswerWrite
<1>3. HistoryTrue' /\ DecidedBefore' /\ DownIsEmpty'
  BY <1>1, <1>2 DEF GuardInv, HistoryTrue, DecidedBefore, DownIsEmpty
<1>4. BlockedIsEnforced'
  BY <1>1, <1>2 DEF GuardInv, HistoryTrue, DecidedBefore, LicenseSafe, BlockedIsEnforced, Fresh
<1>5. UsableIsHonoured'
  BY <1>1, <1>2 DEF GuardInv, HistoryTrue, DecidedBefore, LicenseSafe, UsableIsHonoured, Fresh
<1> QED
  BY <1>3, <1>4, <1>5 DEF GuardInv, LicenseSafe

(* A lookup that comes back: it decides by what the row says now. *)
LEMMA DecisionStep ==
  ASSUME LicenseTyped, GuardInv, NEW w \in Writers, DecideWrite(w)
  PROVE  GuardInv'
<1> USE GuardTypes
<1>1. /\ UNCHANGED <<row, clock, env, phase, blockedSince, usableSince>> /\ writer[w].pc = "deciding"
      /\ decision' = [locked |-> Locked, at |-> writer[w].from]
  BY DEF DecideWrite
<1>2. /\ writer' = [writer EXCEPT ![w] = writer'[w]] /\ writer'[w].from = writer[w].from
      /\ writer'[w].pc = "admitted" => ~Locked
      /\ writer'[w].pc = "refused" => Locked
  BY DEF DecideWrite, AnswerWrite
<1>3. /\ ~Locked /\ ~Inert(env) => blockedSince = NotYet
      /\ Locked => usableSince = NotYet
  BY BlockedIsNotUsable DEF Locked, GuardInv, HistoryTrue
<1>4. HistoryTrue'
  BY <1>1, <1>2 DEF GuardInv, HistoryTrue
<1>5. DecidedBefore'
  BY <1>1, <1>3 DEF DecidedBefore
<1>6. DownIsEmpty'
  BY <1>1 DEF GuardInv, DownIsEmpty, NoWriter
<1>7. BlockedIsEnforced'
  BY <1>1, <1>2, <1>3 DEF GuardInv, LicenseSafe, BlockedIsEnforced
<1>8. UsableIsHonoured'
  BY <1>1, <1>2, <1>3 DEF GuardInv, LicenseSafe, UsableIsHonoured
<1> QED
  BY <1>4, <1>5, <1>6, <1>7, <1>8 DEF GuardInv, LicenseSafe

LEMMA GuardStep == LicenseTyped /\ LicenseTyped' /\ GuardInv /\ [LicenseNext]_licenseVars => GuardInv'
  BY WorldStep, ProcessStep, ArrivalStep, DecisionStep DEF LicenseNext

-----------------------------------------------------------------------------
(* The state of the licence client keeps its types; in particular a row,   *)
(* once written, always holds a verified answer (license-client.service.ts, *)
(* persistVerifiedResult).                                                 *)
THEOREM LicenseTypeCorrect == LicenseSpec => []LicenseTypeOK
<1>1. LicenseTyped => LicenseTypeOK
  BY DEF LicenseTyped
<1> QED
  BY <1>1, LicenseTypedInit, LicenseTypedStep, PTL DEF LicenseSpec

(* Whatever cached decisions, overlapping lookups, activations, heartbeats  *)
(* and restarts there are, a write is refused from GuardTtl after a verified *)
(* answer blocked the licence, and admitted from GuardTtl after it became   *)
(* usable (license-softlock.guard.ts, canActivate).                         *)
THEOREM LicenseIsEnforced == LicenseSpec => []LicenseSafe
<1>1. GuardInv => LicenseSafe
  BY DEF GuardInv
<1> QED
  BY <1>1, LicenseTypedInit, LicenseTypedStep, GuardInit, GuardStep, PTL DEF LicenseSpec

(***************************************************************************)
(* The external ledger.                                                    *)
(***************************************************************************)

(* A set of numbers has a least one, and one with a bound a greatest. *)
LEMMA LeastOf ==
  ASSUME NEW S, S \subseteq Nat, S # {}
  PROVE  \E n \in S : \A m \in S : n =< m
<1>1. PICK n \in S : \A m \in S : ~(<<m, n>> \in OpToRel(<, Nat))
  BY WFMin, NatLessThanWellFounded, Zenon
<1>2. \A m \in S : ~(m < n)
  BY <1>1 DEF OpToRel
<1> QED
  BY <1>2

LEMMA GreatestOf ==
  ASSUME NEW S, S # {}, NEW b \in Nat, S \subseteq 0..b
  PROVE  \E n \in S : \A m \in S : m =< n
<1> DEFINE T == {b - n : n \in S}
<1>1. T \subseteq Nat /\ T # {}
  <2>1. \A n \in S : b - n \in Nat
    OBVIOUS
  <2>2. PICK n \in S : TRUE
    OBVIOUS
  <2>3. b - n \in T
    BY <2>2
  <2> QED
    BY <2>1, <2>3
<1> HIDE DEF T
<1>2. PICK t \in T : \A u \in T : t =< u
  BY <1>1, LeastOf
<1>3. PICK n \in S : t = b - n
  BY DEF T
<1>4. \A m \in S : b - m \in T
  BY DEF T
<1> QED
  BY <1>2, <1>3, <1>4

(* The stream of a sync, what it reads there, and whether a row of it is recorded. *)
Leads(j, q) == Streams(j)[q.at] = "leads"
Reads(j, q) == IF Leads(j, q) THEN Contacts ELSE Rows
ChangedAt(j, q, x, sl, sr) == IF Leads(j, q) THEN sl[x].at ELSE sr[x].at
RecordedIn(j, q, x, ev, lr) == IF Leads(j, q) THEN lr[x] # "none" ELSE Filtered(x) \/ ev[x].status # "none"

InRow == {"record", "save", "deliver", "retry"}
InPage == InRow \cup {"item"}

(* A refresh reads leads only; a sync in a page works on rows of its       *)
(* stream, and what it is about to record or to send has an identity.      *)
Shaped(j, q) ==
  /\ q.refresh => j = "leads"
  /\ q.at = 2 => j = "both"
  /\ q.pc \in InPage => /\ (q.part = "row" <=> ~Leads(j, q))
                        /\ \A i \in q.todo : i.x \in Reads(j, q) /\ (Leads(j, q) => i.as # "none")
  /\ q.pc \in InRow => q.todo # {} /\ q.part \in {"row", "qualified_lead", "purchase"}
  /\ (q.pc \in {"record", "save", "deliver"} \/ (q.pc = "retry" /\ q.prior.log)) => Identified(EventOf(q))
  /\ q.pc = "orphans" => ~Leads(j, q)
  /\ q.pc \in {"stale", "delete"} => q.refresh

(* Every row up to where a sync is has been recorded, or is in its page. *)
Behind(j, q, ev, lr, sl, sr, ch) ==
  /\ q.cur =< ch /\ q.last =< ch
  /\ q.pc \in {"page", "orphans"} =>
       \A x \in Reads(j, q) : ChangedAt(j, q, x, sl, sr) \in 1..q.cur => RecordedIn(j, q, x, ev, lr)
  /\ q.pc \in InPage =>
       \A x \in Reads(j, q) : ChangedAt(j, q, x, sl, sr) \in 1..q.last
          => RecordedIn(j, q, x, ev, lr) \/ \E i \in q.todo : i.x = x
  /\ q.pc \in {"deliver", "retry"} => ev[EventOf(q)].status # "none"

(* A contact that was at the source since a refresh began has been         *)
(* received, is in the page, or is still to be read.                       *)
Refreshing(q, sl) ==
  q.refresh =>
    /\ \A c \in q.steady : sl[c].at # 0
    /\ q.pc = "page" => \A c \in q.steady : c \in q.touched \/ sl[c].at > q.cur
    /\ q.pc \in InPage => \A c \in q.steady : c \in q.touched \/ (\E i \in q.todo : i.x = c) \/ (q.full /\ sl[c].at > q.last)
    /\ q.pc = "stale" => q.steady \subseteq q.touched
    /\ q.pc = "delete" => q.steady \cap q.stale = {}

SourceFine ==
  /\ sourceLead \in [Contacts -> [at : 0..MaxChanges, milestone : {"active", "qualified", "converted"}]]
  /\ sourceRow \in [Rows -> [at : 0..MaxChanges, occurred : 0..MaxChanges]]
  /\ changes \in 0..MaxChanges
  /\ (\A c \in Contacts : sourceLead[c].at =< changes) /\ (\A r \in Rows : sourceRow[r].at =< changes)

RecordsFine ==
  /\ lead \in [Contacts -> {"none", "active", "qualified", "converted"}]
  /\ leadRec \in [Contacts -> {"none", "imported", "rejected", "removed"}]
  /\ eventRec \in [Ledger -> EventRecords] /\ (\A r \in Ledger : eventRec[r].log => Identified(r))
  /\ capiLog \in [Ledger -> [status : LogStatuses, linked : BOOLEAN]]
  /\ toSend \subseteq Ledger /\ orphans \subseteq Rows

ControlTyped ==
  /\ connector \in [active : BOOLEAN, enabled : BOOLEAN, connected : BOOLEAN, last : {"none", "running", "completed", "failed"}]
  /\ cutover \in [EventTypes -> 0..Never] /\ gate \in EventTypes \cup {"none"}
  /\ ledgerFaults \in 0..MaxLedgerFaults /\ turns \in 0..MaxTurns

JobsFine ==
  /\ syncJob \in [Syncs -> [bull : Jobs, refresh : BOOLEAN]]
  /\ \A j \in Syncs : syncJob[j].refresh => j = "leads"

CursorsFine ==
  /\ cursor \in [{"leads", "events"} -> NoCursor..MaxChanges]
  /\ cursor["leads"] =< changes /\ cursor["events"] =< changes
  /\ CursorBehindRecords

SyncFine(j, q, ev, lr, sl, sr, ch) == q \in SyncRecords /\ Shaped(j, q) /\ Behind(j, q, ev, lr, sl, sr, ch) /\ Refreshing(q, sl)

SyncsFine == /\ sync \in [Syncs -> SyncRecords]
             /\ \A j \in Syncs : SyncFine(j, sync[j], eventRec, leadRec, sourceLead, sourceRow, changes)

LedgerInv == SourceFine /\ RecordsFine /\ ControlTyped /\ JobsFine /\ CursorsFine /\ SyncsFine

(* What only grows: the numbers of the changes, and the rows that were recorded. *)
Grown(ev, lr, sl, sr, ch, ev2, lr2, sl2, sr2, ch2) ==
  /\ ch \in Nat /\ ch2 \in Nat /\ ch =< ch2
  /\ \A r \in Ledger : ev[r].status # "none" => ev2[r].status # "none"
  /\ \A c \in Contacts : lr[c] # "none" => lr2[c] # "none"
  /\ \A r \in Rows : sr2[r].at = sr[r].at \/ sr2[r].at > ch
  /\ \A c \in Contacts : sl2[c].at \in Nat /\ (sl2[c].at = sl[c].at \/ sl2[c].at > ch \/ sl2[c].at = 0)

LEMMA StreamsOf ==
  ASSUME NEW j \in Syncs, NEW q \in SyncRecords, Shaped(j, q)
  PROVE  /\ Streams(j)[q.at] \in {"leads", "events"}
         /\ q.refresh => Leads(j, q) /\ q.at = Len(Streams(j))
         /\ Len(Streams(j)) \in {1, 2} /\ (Len(Streams(j)) = 2 => j = "both") /\ q.at =< Len(Streams(j))
<1>1. j \in {"both", "events", "leads"}
  BY LedgerAssumption
<1>2. q.at \in 1..2
  BY DEF SyncRecords
<1>3. (q.refresh => j = "leads") /\ (q.at = 2 => j = "both")
  BY DEF Shaped
<1>4. CASE j = "both"
  BY <1>2, <1>3, <1>4 DEF Streams, Leads
<1>5. CASE j = "events"
  BY <1>2, <1>3, <1>5 DEF Streams, Leads
<1>6. CASE j = "leads"
  BY <1>2, <1>3, <1>6 DEF Streams, Leads
<1> QED
  BY <1>1, <1>4, <1>5, <1>6

(* The first row of a page is one of it. *)
LEMMA ItemIn ==
  ASSUME NEW q \in SyncRecords, q.todo # {}
  PROVE  Item(q) \in q.todo /\ Item(q) \in PageRows
<1>0. q.todo \subseteq PageRows
  BY DEF SyncRecords
<1> DEFINE S == {i.at : i \in q.todo}
<1>1. S \subseteq Nat /\ S # {}
  <2>1. \A i \in q.todo : i.at \in Nat
    BY <1>0, LedgerAssumption DEF PageRows
  <2>2. PICK i \in q.todo : TRUE
    OBVIOUS
  <2> QED
    BY <2>1, <2>2
<1> HIDE DEF S
<1>2. PICK n \in S : \A m \in S : n =< m
  BY <1>1, LeastOf
<1>3. PICK i \in q.todo : i.at = n
  BY DEF S
<1>4. \A k \in q.todo : i.at =< k.at
  BY <1>2, <1>3 DEF S
<1> QED
  BY <1>0, <1>3, <1>4 DEF Item

(* What a sync works on: a row of its stream, an event of the ledger. *)
LEMMA WorkedOn ==
  ASSUME NEW j \in Syncs, NEW q \in SyncRecords, Shaped(j, q), q.pc \in InPage, q.todo # {}
  PROVE  /\ Item(q) \in q.todo /\ Item(q) \in PageRows /\ Item(q).x \in Reads(j, q)
         /\ Leads(j, q) => Item(q).as # "none" /\ Item(q).x \in Contacts
         /\ q.part = "row" => ~Leads(j, q) /\ EventOf(q) = Item(q).x /\ EventOf(q) \in Rows
         /\ q.part # "row" => Leads(j, q)
         /\ q.part \in {"row", "qualified_lead", "purchase"} => EventOf(q) \in Ledger
<1>1. Item(q) \in q.todo /\ Item(q) \in PageRows
  BY ItemIn
<1>2. /\ (q.part = "row" <=> ~Leads(j, q))
      /\ \A i \in q.todo : i.x \in Reads(j, q) /\ (Leads(j, q) => i.as # "none")
  BY DEF Shaped
<1>3. /\ Item(q).x \in Reads(j, q) /\ (Leads(j, q) => Item(q).as # "none")
      /\ (Leads(j, q) => Item(q).x \in Contacts) /\ (~Leads(j, q) => Item(q).x \in Rows)
  BY <1>1, <1>2 DEF Reads
<1>4. q.part = "row" => EventOf(q) = Item(q).x
  BY DEF EventOf
<1>5. q.part \in {"qualified_lead", "purchase"} => EventOf(q) \in Milestones
  BY <1>2, <1>3 DEF EventOf, Milestones
<1> QED
  BY <1>1, <1>2, <1>3, <1>4, <1>5 DEF Ledger

LEMMA BehindGrows ==
  ASSUME NEW j \in Syncs, NEW q \in SyncRecords, Shaped(j, q),
         NEW ev, NEW lr, NEW sl, NEW sr, NEW ch, NEW ev2, NEW lr2, NEW sl2, NEW sr2, NEW ch2,
         Behind(j, q, ev, lr, sl, sr, ch), Grown(ev, lr, sl, sr, ch, ev2, lr2, sl2, sr2, ch2)
  PROVE  Behind(j, q, ev2, lr2, sl2, sr2, ch2)
<1>0. q.cur \in Nat /\ q.last \in Nat
  BY LedgerAssumption DEF SyncRecords
<1>1. /\ ch \in Nat /\ ch2 \in Nat /\ ch =< ch2
      /\ \A r \in Ledger : ev[r].status # "none" => ev2[r].status # "none"
      /\ \A c \in Contacts : lr[c] # "none" => lr2[c] # "none"
  BY DEF Grown
<1>2. \A x \in Reads(j, q) : \/ ChangedAt(j, q, x, sl2, sr2) = ChangedAt(j, q, x, sl, sr)
                             \/ ChangedAt(j, q, x, sl2, sr2) > ch \/ ChangedAt(j, q, x, sl2, sr2) = 0
  BY DEF Grown, Reads, ChangedAt
<1>3. \A x \in Reads(j, q) : RecordedIn(j, q, x, ev, lr) => RecordedIn(j, q, x, ev2, lr2)
  BY <1>1 DEF Reads, RecordedIn, Ledger
<1>4. q.cur =< ch /\ q.last =< ch
  BY DEF Behind
<1>5. q.cur =< ch2 /\ q.last =< ch2
  BY <1>0, <1>1, <1>4
<1>6. \A n \in {q.cur, q.last}, x \in Reads(j, q) :
        ChangedAt(j, q, x, sl2, sr2) \in 1..n => ChangedAt(j, q, x, sl, sr) \in 1..n
  BY <1>0, <1>1, <1>2, <1>4
<1>7. ASSUME q.pc \in {"page", "orphans"}, NEW x \in Reads(j, q), ChangedAt(j, q, x, sl2, sr2) \in 1..q.cur
      PROVE  RecordedIn(j, q, x, ev2, lr2)
  <2>1. ChangedAt(j, q, x, sl, sr) \in 1..q.cur
    BY <1>6, <1>7
  <2>2. RecordedIn(j, q, x, ev, lr)
    BY <1>7, <2>1 DEF Behind
  <2> QED
    BY <1>3, <2>2
<1>8. ASSUME q.pc \in InPage, NEW x \in Reads(j, q), ChangedAt(j, q, x, sl2, sr2) \in 1..q.last
      PROVE  RecordedIn(j, q, x, ev2, lr2) \/ \E i \in q.todo : i.x = x
  <2>1. ChangedAt(j, q, x, sl, sr) \in 1..q.last
    BY <1>6, <1>8
  <2>2. RecordedIn(j, q, x, ev, lr) \/ \E i \in q.todo : i.x = x
    BY <1>8, <2>1 DEF Behind
  <2> QED
    BY <1>3, <2>2
<1>9. ASSUME q.pc \in {"deliver", "retry"} PROVE ev2[EventOf(q)].status # "none"
  <2>1. q.pc \in InPage /\ q.todo # {} /\ q.part \in {"row", "qualified_lead", "purchase"}
    BY <1>9 DEF Shaped, InPage, InRow
  <2>2. EventOf(q) \in Ledger
    BY <2>1, WorkedOn
  <2>3. ev[EventOf(q)].status # "none"
    BY <1>9 DEF Behind
  <2> QED
    BY <1>1, <2>2, <2>3
<1> QED
  BY <1>5, <1>7, <1>8, <1>9 DEF Behind

(* A sync goes on where it was when others only mark what it refreshes. *)
LEMMA MarkedFine ==
  ASSUME NEW j \in Syncs, NEW q,
         NEW ev, NEW lr, NEW sl, NEW sr, NEW ch, NEW ev2, NEW lr2, NEW sl2, NEW sr2, NEW ch2,
         SyncFine(j, q, ev, lr, sl, sr, ch), Grown(ev, lr, sl, sr, ch, ev2, lr2, sl2, sr2, ch2),
         NEW t \in SUBSET Contacts, q.touched \subseteq t, NEW s \in SUBSET q.steady,
         \A c \in s : q.refresh => sl2[c].at # 0
  PROVE  SyncFine(j, [q EXCEPT !.touched = t, !.steady = s], ev2, lr2, sl2, sr2, ch2)
<1> DEFINE p == [q EXCEPT !.touched = t, !.steady = s]
<1>0. /\ q \in SyncRecords /\ Shaped(j, q) /\ Behind(j, q, ev, lr, sl, sr, ch) /\ Refreshing(q, sl)
  BY DEF SyncFine
<1>1. q.steady \subseteq Contacts /\ q.cur \in Nat /\ q.last \in Nat
  BY <1>0, LedgerAssumption DEF SyncRecords
<1>2. p \in SyncRecords
  BY <1>0, <1>1 DEF SyncRecords
<1>3. /\ p.pc = q.pc /\ p.refresh = q.refresh /\ p.at = q.at /\ p.cur = q.cur /\ p.todo = q.todo /\ p.part = q.part
      /\ p.last = q.last /\ p.full = q.full /\ p.prior = q.prior /\ p.stale = q.stale /\ p.touched = t /\ p.steady = s
  BY <1>0 DEF SyncRecords
<1> HIDE DEF p
<1>4. EventOf(p) = EventOf(q) /\ Leads(j, p) = Leads(j, q) /\ Reads(j, p) = Reads(j, q)
  BY <1>3 DEF EventOf, Item, Leads, Reads
<1>5. Shaped(j, p)
  BY <1>0, <1>3, <1>4 DEF Shaped
<1>6. Behind(j, q, ev2, lr2, sl2, sr2, ch2)
  BY <1>0, BehindGrows
<1>7. Behind(j, p, ev2, lr2, sl2, sr2, ch2)
  BY <1>3, <1>4, <1>6 DEF Behind, ChangedAt, RecordedIn
<1>8. Refreshing(p, sl2)
  <2> SUFFICES ASSUME q.refresh PROVE Refreshing(p, sl2)
    BY <1>3 DEF Refreshing
  <2>0. ch \in Nat /\ q.cur =< ch /\ q.last =< ch
    BY <1>0 DEF Grown, Behind
  <2>1. \A c \in s : c \in q.steady /\ sl2[c].at # 0 /\ sl2[c].at \in Nat /\ (sl2[c].at = sl[c].at \/ sl2[c].at > ch)
    BY <1>1 DEF Grown
  <2>2. /\ q.pc = "page" => \A c \in q.steady : c \in q.touched \/ sl[c].at > q.cur
        /\ q.pc \in InPage => \A c \in q.steady : c \in q.touched \/ (\E i \in q.todo : i.x = c) \/ (q.full /\ sl[c].at > q.last)
        /\ q.pc = "stale" => q.steady \subseteq q.touched
        /\ q.pc = "delete" => q.steady \cap q.stale = {}
    BY <1>0 DEF Refreshing
  <2>3. \A c \in s, n \in {q.cur, q.last} : sl[c].at > n => sl2[c].at > n
    <3> SUFFICES ASSUME NEW c \in s, NEW n \in {q.cur, q.last}, sl[c].at > n PROVE sl2[c].at > n
      OBVIOUS
    <3>1. CASE sl2[c].at = sl[c].at
      BY <3>1
    <3>2. CASE sl2[c].at > ch
      <4>1. n \in Nat /\ n =< ch
        BY <1>1, <2>0
      <4> QED
        BY <2>0, <2>1, <3>2, <4>1
    <3> QED
      BY <2>1, <3>1, <3>2
  <2>4. q.pc = "page" => \A c \in s : c \in t \/ sl2[c].at > q.cur
    BY <2>1, <2>2, <2>3
  <2>5. q.pc \in InPage => \A c \in s : c \in t \/ (\E i \in q.todo : i.x = c) \/ (q.full /\ sl2[c].at > q.last)
    BY <2>1, <2>2, <2>3
  <2>6. (q.pc = "stale" => s \subseteq t) /\ (q.pc = "delete" => s \cap q.stale = {})
    BY <2>2
  <2> QED
    BY <1>3, <2>1, <2>4, <2>5, <2>6 DEF Refreshing
<1> QED
  BY <1>2, <1>5, <1>7, <1>8 DEF SyncFine, p

(* What a sync keeps while it works on a page. *)
Follows(q, p) ==
  /\ p.refresh = q.refresh /\ p.at = q.at /\ p.cur = q.cur /\ p.last = q.last /\ p.full = q.full
  /\ p.steady = q.steady /\ q.touched \subseteq p.touched

LEMMA RowDone ==
  ASSUME NEW j \in Syncs, NEW q, NEW ev, NEW lr, NEW sl, NEW sr, NEW ch,
         SyncFine(j, q, ev, lr, sl, sr, ch), q.pc \in InPage, q.todo # {},
         NEW p \in SyncRecords, Follows(q, p), p.pc = "item", p.todo = q.todo \ {Item(q)},
         p.part = IF q.part = "row" THEN "row" ELSE "lead",
         RecordedIn(j, q, Item(q).x, ev, lr), q.refresh => Item(q).x \in p.touched
  PROVE  SyncFine(j, p, ev, lr, sl, sr, ch)
<1>0. /\ q \in SyncRecords /\ Shaped(j, q) /\ Behind(j, q, ev, lr, sl, sr, ch) /\ Refreshing(q, sl)
  BY DEF SyncFine
<1>1. Leads(j, p) = Leads(j, q) /\ Reads(j, p) = Reads(j, q)
  BY DEF Follows, Leads, Reads
<1>2. p.pc \in InPage /\ p.pc \notin InRow
  BY DEF InPage, InRow
<1>3. Shaped(j, p)
  <2>1. (p.refresh => j = "leads") /\ (p.at = 2 => j = "both")
    BY <1>0 DEF Shaped, Follows
  <2>2. /\ (q.part = "row" <=> ~Leads(j, q))
        /\ \A i \in q.todo : i.x \in Reads(j, q) /\ (Leads(j, q) => i.as # "none")
    BY <1>0 DEF Shaped
  <2>3. /\ (p.part = "row" <=> ~Leads(j, p))
        /\ \A i \in p.todo : i.x \in Reads(j, p) /\ (Leads(j, p) => i.as # "none")
    BY <1>1, <2>2
  <2> QED
    BY <1>2, <2>1, <2>3 DEF Shaped
<1>4. \A x : (\E i \in q.todo : i.x = x) => x = Item(q).x \/ \E i \in p.todo : i.x = x
  OBVIOUS
<1>5. Behind(j, p, ev, lr, sl, sr, ch)
  <2>1. p.cur =< ch /\ p.last =< ch
    BY <1>0 DEF Behind, Follows
  <2>2. \A x \in Reads(j, q) : ChangedAt(j, q, x, sl, sr) \in 1..q.last
          => RecordedIn(j, q, x, ev, lr) \/ \E i \in q.todo : i.x = x
    BY <1>0 DEF Behind
  <2>3. \A x \in Reads(j, q) : ChangedAt(j, q, x, sl, sr) \in 1..q.last
          => RecordedIn(j, q, x, ev, lr) \/ \E i \in p.todo : i.x = x
    BY <1>4, <2>2
  <2>4. \A x : ChangedAt(j, p, x, sl, sr) = ChangedAt(j, q, x, sl, sr) /\ RecordedIn(j, p, x, ev, lr) = RecordedIn(j, q, x, ev, lr)
    BY <1>1 DEF ChangedAt, RecordedIn
  <2>5. \A x \in Reads(j, p) : ChangedAt(j, p, x, sl, sr) \in 1..p.last
          => RecordedIn(j, p, x, ev, lr) \/ \E i \in p.todo : i.x = x
    BY <1>1, <2>3, <2>4 DEF Follows
  <2> QED
    BY <2>1, <2>5 DEF Behind
<1>6. Refreshing(p, sl)
  <2> SUFFICES ASSUME p.refresh PROVE Refreshing(p, sl)
    BY DEF Refreshing
  <2>1. q.refresh /\ Item(q).x \in p.touched
    BY DEF Follows
  <2>2. /\ \A c \in q.steady : sl[c].at # 0
        /\ \A c \in q.steady : c \in q.touched \/ (\E i \in q.todo : i.x = c) \/ (q.full /\ sl[c].at > q.last)
    BY <1>0, <2>1 DEF Refreshing
  <2>3. \A c \in q.steady : c \in p.touched \/ (\E i \in p.todo : i.x = c) \/ (q.full /\ sl[c].at > q.last)
    BY <1>4, <2>1, <2>2 DEF Follows
  <2> QED
    BY <2>2, <2>3 DEF Refreshing, Follows
<1> QED
  BY <1>3, <1>5, <1>6 DEF SyncFine

LEMMA PartDone ==
  ASSUME NEW j \in Syncs, NEW q, NEW ev, NEW lr, NEW sl, NEW sr, NEW ch,
         SyncFine(j, q, ev, lr, sl, sr, ch), q.pc \in InPage,
         NEW p \in SyncRecords, Follows(q, p), p.pc \in InPage, p.todo = q.todo, p.part = "row" <=> q.part = "row",
         p.pc \in InRow => p.todo # {} /\ p.part \in {"row", "qualified_lead", "purchase"},
         (p.pc \in {"record", "save", "deliver"} \/ (p.pc = "retry" /\ p.prior.log)) => Identified(EventOf(p)),
         p.pc \in {"deliver", "retry"} => ev[EventOf(p)].status # "none"
  PROVE  SyncFine(j, p, ev, lr, sl, sr, ch)
<1>0. /\ q \in SyncRecords /\ Shaped(j, q) /\ Behind(j, q, ev, lr, sl, sr, ch) /\ Refreshing(q, sl)
  BY DEF SyncFine
<1>1. Leads(j, p) = Leads(j, q) /\ Reads(j, p) = Reads(j, q)
  BY DEF Follows, Leads, Reads
<1>2. p.pc \notin {"page", "orphans", "stale", "delete"}
  BY DEF InPage, InRow
<1>3. Shaped(j, p)
  <2>1. (p.refresh => j = "leads") /\ (p.at = 2 => j = "both")
    BY <1>0 DEF Shaped, Follows
  <2>2. /\ (q.part = "row" <=> ~Leads(j, q))
        /\ \A i \in q.todo : i.x \in Reads(j, q) /\ (Leads(j, q) => i.as # "none")
    BY <1>0 DEF Shaped
  <2>3. /\ (p.part = "row" <=> ~Leads(j, p))
        /\ \A i \in p.todo : i.x \in Reads(j, p) /\ (Leads(j, p) => i.as # "none")
    BY <1>1, <2>2
  <2> QED
    BY <1>2, <2>1, <2>3 DEF Shaped
<1>5. Behind(j, p, ev, lr, sl, sr, ch)
  <2>1. p.cur =< ch /\ p.last =< ch
    BY <1>0 DEF Behind, Follows
  <2>2. \A x \in Reads(j, q) : ChangedAt(j, q, x, sl, sr) \in 1..q.last
          => RecordedIn(j, q, x, ev, lr) \/ \E i \in q.todo : i.x = x
    BY <1>0 DEF Behind
  <2>4. \A x : ChangedAt(j, p, x, sl, sr) = ChangedAt(j, q, x, sl, sr) /\ RecordedIn(j, p, x, ev, lr) = RecordedIn(j, q, x, ev, lr)
    BY <1>1 DEF ChangedAt, RecordedIn
  <2>5. \A x \in Reads(j, p) : ChangedAt(j, p, x, sl, sr) \in 1..p.last
          => RecordedIn(j, p, x, ev, lr) \/ \E i \in p.todo : i.x = x
    BY <1>1, <2>2, <2>4 DEF Follows
  <2> QED
    BY <1>2, <2>1, <2>5 DEF Behind
<1>6. Refreshing(p, sl)
  <2> SUFFICES ASSUME p.refresh PROVE Refreshing(p, sl)
    BY DEF Refreshing
  <2>2. /\ \A c \in q.steady : sl[c].at # 0
        /\ \A c \in q.steady : c \in q.touched \/ (\E i \in q.todo : i.x = c) \/ (q.full /\ sl[c].at > q.last)
    BY <1>0 DEF Refreshing, Follows
  <2>3. \A c \in q.steady : c \in p.touched \/ (\E i \in p.todo : i.x = c) \/ (q.full /\ sl[c].at > q.last)
    BY <2>2 DEF Follows
  <2> QED
    BY <1>2, <2>2, <2>3 DEF Refreshing, Follows
<1> QED
  BY <1>3, <1>5, <1>6 DEF SyncFine

LEMMA RecordTyped == NoRecord \in EventRecords
BY DEF NoRecord, EventRecords, EventStatuses

(* The steps inside a page, field by field. *)
LEMMA IngestedFields ==
  ASSUME NEW q \in SyncRecords
  PROVE  /\ Ingested(q) \in SyncRecords /\ Follows(q, Ingested(q))
         /\ Ingested(q).pc = "item" /\ Ingested(q).todo = q.todo /\ Ingested(q).part = q.part
         /\ Ingested(q).touched = q.touched
<1> USE RecordTyped
<1>1. Ingested(q) \in SyncRecords
  BY DEF Ingested, SyncRecords
<1>2. /\ Ingested(q).pc = "item" /\ Ingested(q).todo = q.todo /\ Ingested(q).part = q.part
      /\ Ingested(q).touched = q.touched
  BY DEF Ingested, SyncRecords
<1>3. Follows(q, Ingested(q))
  BY DEF Follows, Ingested, SyncRecords
<1> QED
  BY <1>1, <1>2, <1>3

LEMMA NextRowFields ==
  ASSUME NEW q \in SyncRecords
  PROVE  /\ NextLedgerRow(q) \in SyncRecords /\ Follows(q, NextLedgerRow(q))
         /\ NextLedgerRow(q).pc = "item" /\ NextLedgerRow(q).todo = q.todo \ {Item(q)}
         /\ NextLedgerRow(q).part = IF q.part = "row" THEN "row" ELSE "lead"
         /\ NextLedgerRow(q).touched = q.touched
<1> DEFINE g == Ingested(q)
<1>1. g \in SyncRecords /\ Follows(q, g) /\ g.pc = "item" /\ g.todo = q.todo /\ g.part = q.part /\ g.touched = q.touched
  BY IngestedFields
<1>2. NextLedgerRow(q) = [g EXCEPT !.todo = @ \ {Item(q)}, !.part = IF @ = "row" THEN "row" ELSE "lead"]
  BY DEF NextLedgerRow
<1> HIDE DEF g
<1> DEFINE T == g.todo \ {Item(q)}
           V == IF g.part = "row" THEN "row" ELSE "lead"
<1>3. T \subseteq PageRows /\ V \in {"row", "lead"}
  BY <1>1 DEF SyncRecords
<1>4. NextLedgerRow(q) = [g EXCEPT !.todo = T, !.part = V]
  BY <1>1, <1>2 DEF SyncRecords
<1>5. T = q.todo \ {Item(q)} /\ V = IF q.part = "row" THEN "row" ELSE "lead"
  BY <1>1
<1> HIDE DEF T, V
<1>6. NextLedgerRow(q) \in SyncRecords
  BY <1>1, <1>3, <1>4 DEF SyncRecords
<1>7. NextLedgerRow(q).todo = T /\ NextLedgerRow(q).part = V /\ NextLedgerRow(q).pc = g.pc /\ NextLedgerRow(q).touched = g.touched
  BY <1>1, <1>4 DEF SyncRecords
<1>8. Follows(g, NextLedgerRow(q))
  BY <1>1, <1>4 DEF Follows, SyncRecords
<1> QED
  BY <1>1, <1>5, <1>6, <1>7, <1>8 DEF Follows

LEMMA NextPartFields ==
  ASSUME NEW q \in SyncRecords, q.part # "row"
  PROVE  /\ NextSyncItem(q) \in SyncRecords /\ Follows(q, NextSyncItem(q))
         /\ NextSyncItem(q).pc = "item" /\ NextSyncItem(q).todo = q.todo /\ NextSyncItem(q).part # "row"
<1> DEFINE g == Ingested(q)
           V == NextPart(q)
<1>1. g \in SyncRecords /\ Follows(q, g) /\ g.pc = "item" /\ g.todo = q.todo
  BY IngestedFields
<1>2. V \in {"qualified_lead", "purchase", "leadrec"}
  BY DEF NextPart
<1>3. NextSyncItem(q) = [g EXCEPT !.part = V]
  BY DEF NextSyncItem
<1> HIDE DEF g, V
<1>4. NextSyncItem(q) \in SyncRecords
  BY <1>1, <1>2, <1>3 DEF SyncRecords
<1>5. NextSyncItem(q).part = V /\ NextSyncItem(q).todo = g.todo /\ NextSyncItem(q).pc = g.pc
  BY <1>1, <1>3 DEF SyncRecords
<1>6. Follows(g, NextSyncItem(q))
  BY <1>1, <1>3 DEF Follows, SyncRecords
<1> QED
  BY <1>1, <1>2, <1>4, <1>5, <1>6 DEF Follows

LEMMA NextSyncItemFine ==
  ASSUME NEW j \in Syncs, NEW q, NEW ev, NEW lr, NEW sl, NEW sr, NEW ch,
         SyncFine(j, q, ev, lr, sl, sr, ch), q.pc \in InPage, q.todo # {},
         q.part = "row" => RecordedIn(j, q, Item(q).x, ev, lr)
  PROVE  SyncFine(j, NextSyncItem(q), ev, lr, sl, sr, ch)
<1>0. q \in SyncRecords /\ Shaped(j, q)
  BY DEF SyncFine
<1>1. CASE q.part = "row"
  <2>1. ~q.refresh
    BY <1>0, <1>1, StreamsOf, WorkedOn
  <2>2. NextSyncItem(q) = NextLedgerRow(q)
    BY <1>1 DEF NextSyncItem
  <2> QED
    BY <1>0, <1>1, <2>1, <2>2, NextRowFields, RowDone
<1>2. CASE q.part # "row"
  <2>1. /\ NextSyncItem(q) \in SyncRecords /\ Follows(q, NextSyncItem(q))
        /\ NextSyncItem(q).pc = "item" /\ NextSyncItem(q).todo = q.todo /\ NextSyncItem(q).part # "row"
    BY <1>0, <1>2, NextPartFields
  <2>2. "item" \in InPage /\ "item" \notin InRow
    BY DEF InPage, InRow
  <2> QED
    BY <1>2, <2>1, <2>2, PartDone
<1> QED
  BY <1>1, <1>2

LEMMA IdleSync ==
  /\ NoSync \in SyncRecords /\ NoSync.pc = "idle" /\ NoSync.refresh = FALSE /\ NoSync.at = 1
  /\ NoSync.cur = 0 /\ NoSync.last = 0 /\ NoSync.steady = {} /\ NoSync.touched = {}
<1>1. NoRecord \in EventRecords /\ [t \in EventTypes |-> Never] \in [EventTypes -> 0..Never]
  BY RecordTyped, LedgerAssumption DEF Never
<1> QED
  BY <1>1, LedgerAssumption DEF NoSync, SyncRecords

(* A sync that is not among the rows of a page, and not refreshing. *)
LEMMA AtRestFine ==
  ASSUME NEW j \in Syncs, NEW q \in SyncRecords, NEW ev, NEW lr, NEW sl, NEW sr, NEW ch \in Nat,
         q.pc \in {"idle", "open", "begin", "complete"}, q.refresh => j = "leads", q.at = 2 => j = "both",
         q.cur =< ch, q.last =< ch, q.refresh => \A c \in q.steady : sl[c].at # 0
  PROVE  SyncFine(j, q, ev, lr, sl, sr, ch)
<1>1. q.pc \notin InPage /\ q.pc \notin InRow
  BY DEF InPage, InRow
<1>2. Shaped(j, q)
  BY <1>1 DEF Shaped
<1>3. Behind(j, q, ev, lr, sl, sr, ch)
  BY <1>1 DEF Behind
<1>4. Refreshing(q, sl)
  BY <1>1 DEF Refreshing
<1> QED
  BY <1>2, <1>3, <1>4 DEF SyncFine

LEMMA NoSyncFine ==
  ASSUME NEW j \in Syncs, NEW ev, NEW lr, NEW sl, NEW sr, NEW ch \in Nat
  PROVE  SyncFine(j, NoSync, ev, lr, sl, sr, ch)
BY IdleSync, AtRestFine

-----------------------------------------------------------------------------
(* The states: what grows, and what the other syncs keep.                  *)
WorldGrown == Grown(eventRec, leadRec, sourceLead, sourceRow, changes, eventRec', leadRec', sourceLead', sourceRow', changes')

FineNow(j, q) == SyncFine(j, q, eventRec, leadRec, sourceLead, sourceRow, changes)
FineThen(j, q) == SyncFine(j, q, eventRec', leadRec', sourceLead', sourceRow', changes')

(* Records are written, never taken away. *)
RecordsKept ==
  /\ \A r \in Ledger : eventRec[r].status # "none" => eventRec'[r].status # "none"
  /\ \A c \in Contacts : leadRec[c] # "none" => leadRec'[c] # "none"

LEMMA SourceKept ==
  ASSUME SourceFine, UNCHANGED sourceVars, RecordsKept
  PROVE  SourceFine' /\ WorldGrown /\ \A j \in Syncs, c \in Contacts : sourceLead[c].at # 0 => sourceLead'[c].at # 0
<1>1. sourceLead' = sourceLead /\ sourceRow' = sourceRow /\ changes' = changes
  BY DEF sourceVars
<1>2. changes \in Nat /\ \A c \in Contacts : sourceLead[c].at \in Nat
  BY LedgerAssumption DEF SourceFine
<1> QED
  BY <1>1, <1>2 DEF SourceFine, WorldGrown, Grown, RecordsKept

LEMMA SameMarks ==
  ASSUME NEW q \in SyncRecords
  PROVE  q = [q EXCEPT !.touched = q.touched, !.steady = q.steady]
BY DEF SyncRecords

(* A sync that nobody marks. *)
LEMMA GrownFine ==
  ASSUME NEW j \in Syncs, NEW q, FineNow(j, q), WorldGrown, q.refresh => \A c \in q.steady : sourceLead'[c].at # 0
  PROVE  FineThen(j, q)
<1>1. q \in SyncRecords
  BY DEF FineNow, SyncFine
<1>2. q.touched \in SUBSET Contacts /\ q.steady \in SUBSET q.steady
  BY <1>1 DEF SyncRecords
<1>3. FineThen(j, [q EXCEPT !.touched = q.touched, !.steady = q.steady])
  BY <1>2, MarkedFine DEF FineNow, FineThen, WorldGrown
<1> QED
  BY <1>1, <1>3, SameMarks

(* While the source rests, what the other syncs know stays true. *)
LEMMA OneSync ==
  ASSUME SyncsFine, SourceFine, UNCHANGED sourceVars, RecordsKept,
         NEW j \in Syncs, NEW p, FineThen(j, p), sync' = [sync EXCEPT ![j] = p]
  PROVE  SyncsFine'
<1>1. WorldGrown /\ sourceLead' = sourceLead
  BY SourceKept DEF sourceVars
<1>2. p \in SyncRecords
  BY DEF FineThen, SyncFine
<1>3. sync' \in [Syncs -> SyncRecords]
  BY <1>2 DEF SyncsFine
<1>4. ASSUME NEW k \in Syncs PROVE FineThen(k, sync'[k])
  <2>1. CASE k = j
    BY <2>1 DEF SyncsFine
  <2>2. CASE k # j
    <3>1. sync'[k] = sync[k] /\ FineNow(k, sync[k])
      BY <2>2 DEF SyncsFine, FineNow
    <3>2. sync[k].refresh => \A c \in sync[k].steady : sourceLead'[c].at # 0
      BY <1>1, <3>1 DEF FineNow, SyncFine, Refreshing
    <3>3. FineThen(k, sync[k])
      BY <1>1, <3>1, <3>2, GrownFine
    <3> QED
      BY <3>1, <3>3
  <2> QED
    BY <2>1, <2>2
<1> QED
  BY <1>3, <1>4 DEF SyncsFine, FineThen

(* The same when a record is received and every refresh sees it. *)
LEMMA TouchedSync ==
  ASSUME SyncsFine, SourceFine, UNCHANGED sourceVars, RecordsKept,
         NEW j \in Syncs, NEW p \in SyncRecords, NEW c \in Contacts,
         FineThen(j, IF p.refresh THEN [p EXCEPT !.touched = @ \cup {c}] ELSE p),
         sync' = Touched(c, [sync EXCEPT ![j] = p])
  PROVE  SyncsFine'
<1>1. WorldGrown /\ sourceLead' = sourceLead
  BY SourceKept DEF sourceVars
<1> DEFINE s == [sync EXCEPT ![j] = p]
<1>2. /\ s \in [Syncs -> SyncRecords] /\ s[j] = p /\ \A k \in Syncs \ {j} : s[k] = sync[k]
  BY DEF SyncsFine
<1> HIDE DEF s
<1>3. /\ sync' = [k \in Syncs |-> IF s[k].refresh THEN [s[k] EXCEPT !.touched = @ \cup {c}] ELSE s[k]]
  BY DEF Touched, s
<1>4. ASSUME NEW k \in Syncs PROVE FineThen(k, sync'[k])
  <2>1. CASE k = j
    BY <1>2, <1>3, <2>1
  <2>2. CASE k # j
    <3>0. s[k] = sync[k] /\ FineNow(k, sync[k]) /\ sync[k] \in SyncRecords
      BY <1>2, <2>2 DEF SyncsFine, FineNow
    <3>1. sync[k].refresh => \A d \in sync[k].steady : sourceLead'[d].at # 0
      BY <1>1, <3>0 DEF FineNow, SyncFine, Refreshing
    <3>2. CASE ~sync[k].refresh
      <4>1. sync'[k] = sync[k]
        BY <1>3, <3>0, <3>2
      <4> QED
        BY <1>1, <3>0, <3>1, <4>1, GrownFine
    <3>3. CASE sync[k].refresh
      <4> DEFINE t == sync[k].touched \cup {c}
      <4>1. t \in SUBSET Contacts /\ sync[k].touched \subseteq t /\ sync[k].steady \in SUBSET sync[k].steady
        BY <3>0 DEF SyncRecords
      <4>2. sync'[k] = [sync[k] EXCEPT !.touched = t]
        BY <1>3, <3>0, <3>3
      <4>3. sync'[k] = [sync[k] EXCEPT !.touched = t, !.steady = sync[k].steady]
        BY <3>0, <4>2 DEF SyncRecords
      <4>4. FineThen(k, [sync[k] EXCEPT !.touched = t, !.steady = sync[k].steady])
        BY <1>1, <3>0, <3>1, <3>3, <4>1, MarkedFine DEF FineNow, FineThen, WorldGrown
      <4> QED
        BY <4>3, <4>4
    <3> QED
      BY <3>2, <3>3
  <2> QED
    BY <2>1, <2>2
<1>5. sync' \in [Syncs -> SyncRecords]
  <2>1. \A k \in Syncs : sync'[k] \in SyncRecords
    BY <1>4 DEF FineThen, SyncFine
  <2> QED
    BY <1>3, <2>1
<1> QED
  BY <1>4, <1>5 DEF SyncsFine, FineThen

LEMMA CursorsKept ==
  ASSUME CursorsFine, SourceFine, WorldGrown, UNCHANGED cursor
  PROVE  CursorsFine'
<1>1. /\ cursor["leads"] \in NoCursor..MaxChanges /\ cursor["events"] \in NoCursor..MaxChanges
      /\ cursor["leads"] =< changes /\ cursor["events"] =< changes
  BY DEF CursorsFine
<1>2. /\ changes \in Nat /\ changes' \in Nat /\ changes =< changes' /\ NoCursor \in Int
      /\ \A r \in Rows : eventRec[r].status # "none" => eventRec'[r].status # "none"
      /\ \A c \in Contacts : leadRec[c] # "none" => leadRec'[c] # "none"
      /\ \A r \in Rows : sourceRow'[r].at = sourceRow[r].at \/ sourceRow'[r].at > changes
      /\ \A c \in Contacts : sourceLead'[c].at = sourceLead[c].at \/ sourceLead'[c].at > changes \/ sourceLead'[c].at = 0
  BY DEF WorldGrown, Grown, Ledger, NoCursor
<1>3. CursorBehindRecords'
  <2>1. ASSUME NEW r \in Rows, sourceRow'[r].at \in 1..cursor["events"], ~Filtered(r)
        PROVE  eventRec'[r].status # "none"
    <3>1. sourceRow[r].at \in 1..cursor["events"]
      BY <1>1, <1>2, <2>1, LedgerAssumption
    <3>2. eventRec[r].status # "none"
      BY <2>1, <3>1 DEF CursorsFine, CursorBehindRecords
    <3> QED
      BY <1>2, <3>2
  <2>2. ASSUME NEW c \in Contacts, sourceLead'[c].at \in 1..cursor["leads"]
        PROVE  leadRec'[c] # "none"
    <3>1. sourceLead[c].at \in 1..cursor["leads"]
      BY <1>1, <1>2, <2>2, LedgerAssumption
    <3>2. leadRec[c] # "none"
      BY <3>1 DEF CursorsFine, CursorBehindRecords
    <3> QED
      BY <1>2, <3>2
  <2> QED
    BY <2>1, <2>2 DEF CursorBehindRecords
<1>4. cursor'["leads"] =< changes' /\ cursor'["events"] =< changes'
  BY <1>1, <1>2, LedgerAssumption
<1> QED
  BY <1>3, <1>4 DEF CursorsFine

LEMMA LeadsStay ==
  ASSUME UNCHANGED lead
  PROVE  KeptWhileAtSource
BY DEF KeptWhileAtSource

LEMMA RecordsRest ==
  ASSUME RecordsFine, UNCHANGED ledgerRecords
  PROVE  RecordsFine' /\ RecordsKept /\ KeptWhileAtSource
<1>1. UNCHANGED <<lead, leadRec, eventRec, capiLog, toSend, orphans>>
  BY DEF ledgerRecords
<1>2. RecordsFine'
  BY <1>1 DEF RecordsFine
<1>3. RecordsKept
  BY <1>1 DEF RecordsKept
<1> QED
  BY <1>1, <1>2, <1>3, LeadsStay

LEMMA ControlRests ==
  ASSUME ControlTyped, UNCHANGED <<controlVars, ledgerFaults>>
  PROVE  ControlTyped'
BY DEF ControlTyped, controlVars

LEMMA JobsRest ==
  ASSUME JobsFine, UNCHANGED syncJob
  PROVE  JobsFine'
BY DEF JobsFine

(* The syncs rest. *)
LEMMA SyncsRest ==
  ASSUME SyncsFine, WorldGrown, UNCHANGED sync,
         \A k \in Syncs : sync[k].refresh => \A c \in sync[k].steady : sourceLead'[c].at # 0
  PROVE  SyncsFine'
<1>1. ASSUME NEW k \in Syncs PROVE FineThen(k, sync'[k])
  <2>1. FineNow(k, sync[k])
    BY DEF SyncsFine, FineNow
  <2> QED
    BY <2>1, GrownFine
<1> QED
  BY <1>1 DEF SyncsFine, FineThen

LEMMA SteadyThere ==
  ASSUME SyncsFine, NEW k \in Syncs, sync[k].refresh, NEW c \in sync[k].steady
  PROVE  sourceLead[c].at # 0 /\ c \in Contacts
<1>1. sync[k] \in SyncRecords /\ Refreshing(sync[k], sourceLead)
  BY DEF SyncsFine, SyncFine
<1> QED
  BY <1>1 DEF Refreshing, SyncRecords

(* A step that leaves the source alone. *)
LEMMA BesideSource ==
  ASSUME LedgerInv, UNCHANGED sourceVars, RecordsFine', RecordsKept, ControlTyped', JobsFine', SyncsFine',
         UNCHANGED cursor \/ CursorsFine'
  PROVE  LedgerInv'
<1>1. SourceFine /\ CursorsFine
  BY DEF LedgerInv
<1>2. SourceFine' /\ WorldGrown
  BY <1>1, SourceKept
<1>3. CursorsFine'
  BY <1>1, <1>2, CursorsKept
<1> QED
  BY <1>2, <1>3 DEF LedgerInv

(* The source changes, and the syncs go on. *)
LEMMA SourceMoves ==
  ASSUME LedgerInv, SourceNext
  PROVE  LedgerInv' /\ KeptWhileAtSource
<1>0. /\ SourceFine /\ RecordsFine /\ ControlTyped /\ JobsFine /\ CursorsFine /\ SyncsFine
      /\ changes \in Nat /\ MaxChanges \in Nat
  BY LedgerAssumption DEF LedgerInv, SourceFine
<1>1. /\ UNCHANGED <<ledgerRecords, controlVars, cursor, syncJob, ledgerFaults>>
      /\ changes < MaxChanges /\ changes' = changes + 1
  BY DEF SourceNext, WriteLead, DropLead, WriteRow
<1>2. RecordsFine' /\ RecordsKept /\ KeptWhileAtSource /\ ControlTyped' /\ JobsFine'
  BY <1>0, <1>1, RecordsRest, ControlRests, JobsRest
<1>3. \A c \in Contacts : sourceLead[c].at \in 0..MaxChanges /\ sourceLead[c].at =< changes
  BY <1>0 DEF SourceFine
<1>4. \A r \in Rows : sourceRow[r].at \in 0..MaxChanges /\ sourceRow[r].at =< changes /\ sourceRow[r].occurred \in 0..MaxChanges
  BY <1>0 DEF SourceFine
<1> DEFINE LeadRecs == [at : 0..MaxChanges, milestone : {"active", "qualified", "converted"}]
           RowRecs == [at : 0..MaxChanges, occurred : 0..MaxChanges]
<1>5. ASSUME NEW c \in Contacts, NEW m \in {"active", "qualified", "converted"}, WriteLead(c, m)
      PROVE  SourceFine' /\ WorldGrown /\ SyncsFine'
  <2>1. sourceLead' = [sourceLead EXCEPT ![c] = [at |-> changes + 1, milestone |-> m]] /\ UNCHANGED <<sourceRow, sync>>
    BY <1>5 DEF WriteLead
  <2>2. [at |-> changes + 1, milestone |-> m] \in LeadRecs
    BY <1>0, <1>1
  <2>3. sourceLead' \in [Contacts -> LeadRecs]
    BY <1>0, <2>1, <2>2 DEF SourceFine
  <2>4. \A d \in Contacts : sourceLead'[d].at = IF d = c THEN changes + 1 ELSE sourceLead[d].at
    BY <1>0, <2>1 DEF SourceFine
  <2>5. SourceFine'
    BY <1>0, <1>1, <1>3, <1>4, <2>1, <2>3, <2>4 DEF SourceFine
  <2>6. WorldGrown
    BY <1>0, <1>1, <1>2, <1>3, <2>1, <2>4 DEF WorldGrown, Grown, RecordsKept
  <2>7. \A k \in Syncs : sync[k].refresh => \A d \in sync[k].steady : sourceLead'[d].at # 0
    BY <1>0, <2>4, SteadyThere
  <2> QED
    BY <1>0, <2>1, <2>5, <2>6, <2>7, SyncsRest
<1>6. ASSUME NEW r \in Rows, WriteRow(r)
      PROVE  SourceFine' /\ WorldGrown /\ SyncsFine'
  <2> DEFINE o == IF sourceRow[r].at = 0 THEN changes + 1 ELSE sourceRow[r].occurred
  <2>1. sourceRow' = [sourceRow EXCEPT ![r] = [at |-> changes + 1, occurred |-> o]] /\ UNCHANGED <<sourceLead, sync>>
    BY <1>6, <1>0 DEF WriteRow, SourceFine
  <2>2. [at |-> changes + 1, occurred |-> o] \in RowRecs
    BY <1>0, <1>1, <1>4
  <2> HIDE DEF o
  <2>3. sourceRow' \in [Rows -> RowRecs]
    BY <1>0, <2>1, <2>2 DEF SourceFine
  <2>4. \A d \in Rows : sourceRow'[d].at = IF d = r THEN changes + 1 ELSE sourceRow[d].at
    BY <1>0, <2>1 DEF SourceFine
  <2>5. SourceFine'
    BY <1>0, <1>1, <1>3, <1>4, <2>1, <2>3, <2>4 DEF SourceFine
  <2>6. WorldGrown
    BY <1>0, <1>1, <1>2, <1>3, <2>1, <2>4 DEF WorldGrown, Grown, RecordsKept
  <2>7. \A k \in Syncs : sync[k].refresh => \A d \in sync[k].steady : sourceLead'[d].at # 0
    BY <1>0, <2>1, SteadyThere
  <2> QED
    BY <1>0, <2>1, <2>5, <2>6, <2>7, SyncsRest
<1>7. ASSUME NEW c \in Contacts, DropLead(c)
      PROVE  SourceFine' /\ WorldGrown /\ SyncsFine'
  <2>1. /\ sourceLead' = [sourceLead EXCEPT ![c].at = 0] /\ UNCHANGED sourceRow
        /\ sync' = [j \in Syncs |-> [sync[j] EXCEPT !.steady = @ \ {c}]]
    BY <1>7 DEF DropLead
  <2>3. sourceLead' \in [Contacts -> LeadRecs]
    BY <1>0, <2>1 DEF SourceFine
  <2>4. \A d \in Contacts : sourceLead'[d].at = IF d = c THEN 0 ELSE sourceLead[d].at
    BY <1>0, <2>1 DEF SourceFine
  <2>5. SourceFine'
    BY <1>0, <1>1, <1>3, <1>4, <2>1, <2>3, <2>4 DEF SourceFine
  <2>6. WorldGrown
    BY <1>0, <1>1, <1>2, <1>3, <2>1, <2>4 DEF WorldGrown, Grown, RecordsKept
  <2>7. ASSUME NEW k \in Syncs PROVE FineThen(k, sync'[k])
    <3> DEFINE s == sync[k].steady \ {c}
    <3>1. sync[k] \in SyncRecords /\ FineNow(k, sync[k])
      BY <1>0 DEF SyncsFine, FineNow
    <3>2. sync[k].touched \in SUBSET Contacts /\ s \in SUBSET sync[k].steady
      BY <3>1 DEF SyncRecords
    <3>3. \A d \in s : sync[k].refresh => sourceLead'[d].at # 0
      BY <1>0, <2>4, SteadyThere
    <3>4. sync'[k] = [sync[k] EXCEPT !.steady = s]
      BY <2>1
    <3>5. sync'[k] = [sync[k] EXCEPT !.touched = sync[k].touched, !.steady = s]
      BY <3>1, <3>4 DEF SyncRecords
    <3> HIDE DEF s
    <3>6. FineThen(k, [sync[k] EXCEPT !.touched = sync[k].touched, !.steady = s])
      BY <2>6, <3>1, <3>2, <3>3, MarkedFine DEF FineNow, FineThen, WorldGrown
    <3> QED
      BY <3>5, <3>6
  <2>8. sync' \in [Syncs -> SyncRecords]
    <3>1. \A k \in Syncs : sync'[k] \in SyncRecords
      BY <2>7 DEF FineThen, SyncFine
    <3> QED
      BY <2>1, <3>1
  <2>9. SyncsFine'
    BY <2>7, <2>8 DEF SyncsFine, FineThen
  <2> QED
    BY <2>5, <2>6, <2>9
<1>8. SourceFine' /\ WorldGrown /\ SyncsFine'
  BY <1>5, <1>6, <1>7 DEF SourceNext
<1>9. CursorsFine'
  BY <1>0, <1>1, <1>8, CursorsKept
<1> QED
  BY <1>2, <1>8, <1>9 DEF LedgerInv

LEMMA EnqueuedFine ==
  ASSUME JobsFine, NEW j, NEW refresh \in BOOLEAN, refresh => j = "leads", syncJob' = Enqueued(j, refresh)
  PROVE  JobsFine'
<1>1. Add(NoJob) \in Jobs
  <2>1. NoJob \in Jobs
    BY MaxAttemptsAssumption, MaxStalledAssumption DEF NoJob, Jobs, JobStates
  <2> QED
    BY <2>1, JobTyping
<1> DEFINE x == [bull |-> Add(NoJob), refresh |-> refresh]
<1>2. x \in [bull : Jobs, refresh : BOOLEAN] /\ x.refresh = refresh
  BY <1>1
<1>3. syncJob' = syncJob \/ syncJob' = [syncJob EXCEPT ![j] = x]
  BY DEF Enqueued
<1> HIDE DEF x
<1>4. CASE syncJob' = syncJob
  BY <1>4, JobsRest
<1>5. CASE syncJob' = [syncJob EXCEPT ![j] = x]
  BY <1>2, <1>5 DEF JobsFine
<1> QED
  BY <1>3, <1>4, <1>5

LEMMA LeftTyped ==
  ASSUME RecordsFine, NEW t, capiLog' = LeftToOther(t), UNCHANGED <<lead, leadRec, eventRec, toSend, orphans>>
  PROVE  RecordsFine' /\ RecordsKept /\ KeptWhileAtSource
<1>1. \A k \in Ledger : capiLog[k] \in [status : LogStatuses, linked : BOOLEAN]
  BY DEF RecordsFine
<1>2. \A k \in Ledger : [capiLog[k] EXCEPT !.status = "shadow_observed"] \in [status : LogStatuses, linked : BOOLEAN]
  BY <1>1 DEF LogStatuses
<1>3. capiLog' \in [Ledger -> [status : LogStatuses, linked : BOOLEAN]]
  BY <1>1, <1>2 DEF LeftToOther
<1>4. RecordsFine'
  BY <1>3 DEF RecordsFine
<1> QED
  BY <1>4, LeadsStay DEF RecordsKept

(* The steps of the connector, of its cutovers and of the timer. *)
LEMMA ConnectorMoves ==
  ASSUME LedgerInv, ConnectorNext \/ EnqueueDueConnectors
  PROVE  LedgerInv' /\ KeptWhileAtSource
<1>0. /\ SourceFine /\ RecordsFine /\ ControlTyped /\ JobsFine /\ CursorsFine /\ SyncsFine
      /\ changes \in Nat /\ MaxChanges \in Nat /\ MaxTurns \in Nat /\ "both" \in Syncs
  BY LedgerAssumption DEF LedgerInv, SourceFine
<1>1. UNCHANGED <<sourceVars, cursor, sync, ledgerFaults>>
  BY DEF ConnectorNext, EnqueueDueConnectors, TestConnection, UpdateConnector, EnqueueLeadsReimport, EnqueueSync,
         ActivateCapiCutover, OpenGate, RollbackCapiCutover
<1>2. /\ turns \in 0..MaxTurns /\ turns' \in 0..MaxTurns
  <2>1. turns' = turns \/ (turns < MaxTurns /\ turns' = turns + 1)
    BY DEF ConnectorNext, EnqueueDueConnectors, TestConnection, UpdateConnector, EnqueueLeadsReimport, EnqueueSync,
           ActivateCapiCutover, OpenGate, RollbackCapiCutover, controlVars
  <2> QED
    BY <1>0, <2>1 DEF ControlTyped
<1>3. \A t \in EventTypes : Never \in 0..Never /\ changes \in 0..Never
  BY <1>0 DEF Never, SourceFine
<1>4. ASSUME NEW on \in BOOLEAN, TestConnection(on) \/ UpdateConnector(on)
      PROVE  RecordsFine' /\ RecordsKept /\ KeptWhileAtSource /\ ControlTyped' /\ JobsFine'
  <2>1. UNCHANGED <<ledgerRecords, cutover, gate, syncJob>>
    BY <1>4 DEF TestConnection, UpdateConnector
  <2>2. connector' = [connector EXCEPT !.connected = on] \/ connector' = [connector EXCEPT !.active = on, !.enabled = on]
    BY <1>4 DEF TestConnection, UpdateConnector
  <2>3. ControlTyped'
    BY <1>0, <1>1, <1>2, <2>1, <2>2 DEF ControlTyped
  <2> QED
    BY <1>0, <2>1, <2>3, RecordsRest, JobsRest
<1>5. ASSUME EnqueueLeadsReimport \/ EnqueueDueConnectors \/ \E j \in Syncs : EnqueueSync(j)
      PROVE  RecordsFine' /\ RecordsKept /\ KeptWhileAtSource /\ ControlTyped' /\ JobsFine'
  <2>1. UNCHANGED <<ledgerRecords, connector, cutover, gate>>
    BY <1>5 DEF EnqueueLeadsReimport, EnqueueDueConnectors, EnqueueSync, controlVars
  <2>2. ControlTyped'
    BY <1>0, <1>1, <1>2, <2>1 DEF ControlTyped
  <2>3. \E j, refresh : refresh \in BOOLEAN /\ (refresh => j = "leads") /\ syncJob' = Enqueued(j, refresh)
    BY <1>5 DEF EnqueueLeadsReimport, EnqueueDueConnectors, EnqueueSync
  <2>4. JobsFine'
    BY <1>0, <2>3, EnqueuedFine
  <2> QED
    BY <1>0, <2>1, <2>2, <2>4, RecordsRest
<1>6. ASSUME ActivateCapiCutover
      PROVE  RecordsFine' /\ RecordsKept /\ KeptWhileAtSource /\ ControlTyped' /\ JobsFine'
  <2>0. /\ gate # "none" /\ gate' = "none" /\ UNCHANGED <<lead, leadRec, eventRec, toSend, orphans, connector, turns>>
    BY <1>6 DEF ActivateCapiCutover
  <2>1. CASE cutover[gate] # Never
    <3>1. UNCHANGED <<cutover, capiLog, syncJob>>
      BY <1>6, <2>1 DEF ActivateCapiCutover
    <3>2. ControlTyped'
      BY <1>0, <1>1, <2>0, <3>1 DEF ControlTyped
    <3> QED
      BY <1>0, <2>0, <3>1, <3>2, RecordsRest, JobsRest DEF ledgerRecords
  <2>2. CASE cutover[gate] = Never
    <3>1. /\ cutover' = [cutover EXCEPT ![gate] = changes] /\ capiLog' = LeftToOther(gate)
          /\ syncJob' = syncJob \/ syncJob' = Enqueued("events", FALSE)
      BY <1>6, <2>2 DEF ActivateCapiCutover
    <3>2. ControlTyped'
      BY <1>0, <1>1, <1>3, <2>0, <3>1 DEF ControlTyped
    <3>3. JobsFine'
      BY <1>0, <3>1, EnqueuedFine, JobsRest
    <3> QED
      BY <1>0, <2>0, <3>1, <3>2, <3>3, LeftTyped
  <2> QED
    BY <2>1, <2>2
<1>7. ASSUME NEW t \in EventTypes, OpenGate(t)
      PROVE  RecordsFine' /\ RecordsKept /\ KeptWhileAtSource /\ ControlTyped' /\ JobsFine'
  <2>1. UNCHANGED <<ledgerRecords, connector, cutover, syncJob>> /\ gate' = t
    BY <1>7 DEF OpenGate
  <2>2. ControlTyped'
    BY <1>0, <1>1, <1>2, <2>1 DEF ControlTyped
  <2> QED
    BY <1>0, <2>1, <2>2, RecordsRest, JobsRest
<1>8. ASSUME NEW t \in EventTypes, RollbackCapiCutover(t)
      PROVE  RecordsFine' /\ RecordsKept /\ KeptWhileAtSource /\ ControlTyped' /\ JobsFine'
  <2>1. /\ UNCHANGED <<lead, leadRec, eventRec, toSend, orphans, connector, gate, syncJob>>
        /\ cutover' = [cutover EXCEPT ![t] = Never] /\ capiLog' = LeftToOther(t)
    BY <1>8 DEF RollbackCapiCutover
  <2>2. ControlTyped'
    BY <1>0, <1>1, <1>2, <1>3, <2>1 DEF ControlTyped
  <2> QED
    BY <1>0, <2>1, <2>2, LeftTyped, JobsRest
<1>9. RecordsFine' /\ RecordsKept /\ KeptWhileAtSource /\ ControlTyped' /\ JobsFine'
  BY <1>4, <1>5, <1>6, <1>7, <1>8 DEF ConnectorNext
<1>10. SyncsFine'
  <2>1. WorldGrown /\ sourceLead' = sourceLead
    BY <1>0, <1>1, <1>9, SourceKept DEF sourceVars
  <2>2. \A k \in Syncs : sync[k].refresh => \A c \in sync[k].steady : sourceLead'[c].at # 0
    BY <1>0, <2>1, SteadyThere
  <2> QED
    BY <1>0, <1>1, <2>1, <2>2, SyncsRest
<1> QED
  BY <1>1, <1>9, <1>10, BesideSource

(* The jobs of a sync. *)
LEMMA SyncJobStep ==
  ASSUME JobsFine, NEW j \in Syncs,
         \E b \in {Take(syncJob[j].bull), Fail(syncJob[j].bull), Stall(syncJob[j].bull), Promote(syncJob[j].bull)} :
            syncJob' = [syncJob EXCEPT ![j].bull = b]
  PROVE  JobsFine'
<1>1. PICK b \in {Take(syncJob[j].bull), Fail(syncJob[j].bull), Stall(syncJob[j].bull), Promote(syncJob[j].bull)} :
         syncJob' = [syncJob EXCEPT ![j].bull = b]
  OBVIOUS
<1>2. syncJob[j].bull \in Jobs
  BY DEF JobsFine
<1>3. b \in Jobs
  BY <1>1, <1>2, JobTyping
<1> QED
  BY <1>1, <1>3 DEF JobsFine

(* A sync is taken, begins, ends or dies. *)
LEMMA EndsOfSyncs ==
  ASSUME LedgerInv, NEW j \in Syncs,
         \/ TakeSync(j) \/ OpenSync(j) \/ CompleteSync(j) \/ SyncThrows(j) \/ SyncWorkerDies(j)
         \/ SyncStalled(j) \/ SyncBackoff(j)
  PROVE  LedgerInv' /\ KeptWhileAtSource
<1>0. /\ SourceFine /\ RecordsFine /\ ControlTyped /\ JobsFine /\ CursorsFine /\ SyncsFine
      /\ changes \in Nat /\ MaxLedgerFaults \in Nat /\ FineNow(j, sync[j]) /\ sync[j] \in SyncRecords
  BY LedgerAssumption DEF LedgerInv, SourceFine, SyncsFine, FineNow
<1>1. UNCHANGED <<sourceVars, ledgerRecords, cutover, gate, turns, cursor>>
  BY DEF TakeSync, OpenSync, CompleteSync, SyncThrows, SyncWorkerDies, SyncStalled, SyncBackoff, controlVars
<1>2. RecordsFine' /\ RecordsKept /\ KeptWhileAtSource
  BY <1>0, <1>1, RecordsRest
<1>3. changes' = changes /\ sourceLead' = sourceLead /\ WorldGrown
  BY <1>0, <1>1, <1>2, SourceKept DEF sourceVars
<1>4. /\ connector' \in [active : BOOLEAN, enabled : BOOLEAN, connected : BOOLEAN, last : {"none", "running", "completed", "failed"}]
      /\ ledgerFaults' \in 0..MaxLedgerFaults
  <2>1. /\ connector' = connector \/ \E l \in {"running", "completed", "failed"} : connector' = [connector EXCEPT !.last = l]
        /\ ledgerFaults' = ledgerFaults \/ (ledgerFaults < MaxLedgerFaults /\ ledgerFaults' = ledgerFaults + 1)
    BY DEF TakeSync, OpenSync, CompleteSync, SyncThrows, SyncWorkerDies, SyncStalled, SyncBackoff, controlVars
  <2> QED
    BY <1>0, <2>1 DEF ControlTyped
<1>5. ControlTyped'
  BY <1>0, <1>1, <1>4 DEF ControlTyped
<1>6. JobsFine'
  <2>1. CASE CompleteSync(j)
    <3>1. NoJob \in Jobs
      BY MaxAttemptsAssumption, MaxStalledAssumption DEF NoJob, Jobs, JobStates
    <3> QED
      BY <1>0, <2>1, <3>1 DEF CompleteSync, JobsFine
  <2>2. CASE ~CompleteSync(j)
    <3>1. \/ UNCHANGED syncJob
          \/ \E b \in {Take(syncJob[j].bull), Fail(syncJob[j].bull), Stall(syncJob[j].bull), Promote(syncJob[j].bull)} :
               syncJob' = [syncJob EXCEPT ![j].bull = b]
      BY <2>2 DEF TakeSync, OpenSync, SyncThrows, SyncWorkerDies, SyncStalled, SyncBackoff
    <3> QED
      BY <1>0, <3>1, SyncJobStep, JobsRest
  <2> QED
    BY <2>1, <2>2
<1>7. ASSUME sync' = [sync EXCEPT ![j] = NoSync] PROVE SyncsFine'
  BY <1>0, <1>1, <1>2, <1>3, <1>7, NoSyncFine, OneSync DEF FineThen
<1>8. CASE TakeSync(j)
  <2> DEFINE p == [NoSync EXCEPT !.pc = "open", !.refresh = syncJob[j].refresh]
  <2>1. sync' = [sync EXCEPT ![j] = p]
    BY <1>8 DEF TakeSync, Step
  <2>2. syncJob[j].refresh \in BOOLEAN /\ (syncJob[j].refresh => j = "leads")
    BY <1>0 DEF JobsFine
  <2>3. p \in SyncRecords /\ p.pc = "open" /\ p.refresh = syncJob[j].refresh /\ p.at = 1 /\ p.cur = 0 /\ p.last = 0 /\ p.steady = {}
    BY <2>2, IdleSync DEF SyncRecords
  <2> HIDE DEF p
  <2>4. FineThen(j, p)
    BY <1>0, <1>3, <2>2, <2>3, AtRestFine DEF FineThen
  <2>5. SyncsFine'
    BY <1>0, <1>1, <1>2, <2>1, <2>4, OneSync
  <2> QED
    BY <1>1, <1>2, <1>5, <1>6, <2>5, BesideSource
<1>9. CASE OpenSync(j)
  <2>1. CASE connector.active
    <3> DEFINE p == [sync[j] EXCEPT !.pc = "begin", !.cut = cutover]
    <3>1. sync' = [sync EXCEPT ![j] = p]
      BY <1>9, <2>1 DEF OpenSync, Step
    <3>2. cutover \in [EventTypes -> 0..Never]
      BY <1>0 DEF ControlTyped
    <3>3. /\ p \in SyncRecords /\ p.pc = "begin" /\ p.refresh = sync[j].refresh /\ p.at = sync[j].at /\ p.cur = sync[j].cur
          /\ p.last = sync[j].last /\ p.steady = sync[j].steady
      BY <1>0, <3>2 DEF SyncRecords
    <3> HIDE DEF p
    <3>4. /\ p.refresh => j = "leads" /\ \A c \in p.steady : sourceLead[c].at # 0
          /\ p.at = 2 => j = "both"
          /\ p.cur =< changes /\ p.last =< changes
      BY <1>0, <3>3 DEF FineNow, SyncFine, Shaped, Behind, Refreshing
    <3>5. FineThen(j, p)
      BY <1>0, <1>3, <3>3, <3>4, AtRestFine DEF FineThen
    <3>6. SyncsFine'
      BY <1>0, <1>1, <1>2, <3>1, <3>5, OneSync
    <3> QED
      BY <1>1, <1>2, <1>5, <1>6, <3>6, BesideSource
  <2>2. CASE ~connector.active
    <3>1. sync' = [sync EXCEPT ![j] = NoSync]
      BY <1>9, <2>2 DEF OpenSync, Step
    <3> QED
      BY <1>1, <1>2, <1>5, <1>6, <1>7, <3>1, BesideSource
  <2> QED
    BY <2>1, <2>2
<1>10. CASE CompleteSync(j) \/ SyncThrows(j) \/ SyncWorkerDies(j)
  <2>1. sync' = [sync EXCEPT ![j] = NoSync]
    BY <1>10 DEF CompleteSync, SyncThrows, SyncWorkerDies, Step
  <2> QED
    BY <1>1, <1>2, <1>5, <1>6, <1>7, <2>1, BesideSource
<1>11. CASE SyncStalled(j) \/ SyncBackoff(j)
  <2>1. UNCHANGED sync
    BY <1>11 DEF SyncStalled, SyncBackoff
  <2>2. SyncsFine'
    BY <1>0, <1>3, <2>1, SteadyThere, SyncsRest
  <2> QED
    BY <1>1, <1>2, <1>5, <1>6, <2>2, BesideSource
<1> QED
  BY <1>8, <1>9, <1>10, <1>11

LEMMA MoveOn ==
  ASSUME LedgerInv, NEW j \in Syncs, NEW p, FineNow(j, p), sync' = [sync EXCEPT ![j] = p],
         UNCHANGED <<sourceVars, ledgerRecords, controlVars, syncJob, ledgerFaults>>, UNCHANGED cursor \/ CursorsFine'
  PROVE  LedgerInv' /\ KeptWhileAtSource
<1>0. SourceFine /\ RecordsFine /\ ControlTyped /\ JobsFine /\ SyncsFine
  BY DEF LedgerInv
<1>1. RecordsFine' /\ RecordsKept /\ KeptWhileAtSource /\ ControlTyped' /\ JobsFine'
  BY <1>0, RecordsRest, ControlRests, JobsRest
<1>2. UNCHANGED <<sourceLead, sourceRow, changes, eventRec, leadRec>>
  BY DEF sourceVars, ledgerRecords
<1>3. FineThen(j, p)
  BY <1>2 DEF FineNow, FineThen
<1>4. SyncsFine'
  BY <1>0, <1>1, <1>3, OneSync
<1> QED
  BY <1>1, <1>4, BesideSource

LEMMA StreamBegins ==
  ASSUME LedgerInv, NEW j \in Syncs, BeginStream(j)
  PROVE  LedgerInv' /\ KeptWhileAtSource
<1> DEFINE q == sync[j]
           n == StartCursor(j)
           d == {c \in Contacts : q.refresh /\ sourceLead[c].at # 0}
           pc == IF Streams(j)[q.at] = "events" THEN "orphans" ELSE "page"
           p == [q EXCEPT !.pc = pc, !.cur = n, !.steady = d]
<1>0. /\ q \in SyncRecords /\ Shaped(j, q) /\ Behind(j, q, eventRec, leadRec, sourceLead, sourceRow, changes)
      /\ CursorsFine /\ SourceFine /\ changes \in Nat /\ MaxChanges \in Nat
  BY LedgerAssumption DEF LedgerInv, SyncsFine, SyncFine, SourceFine
<1>1. /\ sync' = [sync EXCEPT ![j] = p]
      /\ UNCHANGED <<sourceVars, ledgerRecords, controlVars, syncJob, ledgerFaults, cursor>>
  BY DEF BeginStream, Step
<1>2. Streams(j)[q.at] \in {"leads", "events"} /\ (q.refresh => Leads(j, q))
  BY <1>0, StreamsOf
<1>3. /\ n \in 0..MaxChanges /\ n =< changes /\ (n = 0 \/ n = cursor[Streams(j)[q.at]]) /\ (q.refresh => n = 0)
  <2> DEFINE at == cursor[Streams(j)[q.at]]
  <2>1. at \in NoCursor..MaxChanges /\ at =< changes /\ NoCursor = -1
    BY <1>0, <1>2 DEF CursorsFine, NoCursor
  <2>2. n = IF q.refresh \/ at = NoCursor THEN 0 ELSE at
    BY DEF StartCursor
  <2> HIDE DEF at
  <2>3. n \in 0..MaxChanges /\ n =< changes /\ (n = 0 \/ n = at) /\ (q.refresh => n = 0)
    BY <1>0, <2>1, <2>2
  <2> QED
    BY <2>3 DEF at
<1>4. d \subseteq Contacts /\ pc \in {"orphans", "page"} /\ (pc = "orphans" <=> ~Leads(j, q))
  BY <1>2 DEF Leads
<1> HIDE DEF n, d, pc
<1>5. /\ p \in SyncRecords /\ p.pc = pc /\ p.cur = n /\ p.steady = d /\ p.refresh = q.refresh /\ p.at = q.at /\ p.last = q.last
      /\ p.touched = q.touched
  BY <1>0, <1>3, <1>4 DEF SyncRecords
<1> HIDE DEF p
<1>6. Leads(j, p) = Leads(j, q) /\ p.pc \notin InPage /\ p.pc \notin InRow
  BY <1>4, <1>5 DEF Leads, InPage, InRow
<1>7. Shaped(j, p)
  BY <1>0, <1>4, <1>5, <1>6 DEF Shaped
<1>8. Behind(j, p, eventRec, leadRec, sourceLead, sourceRow, changes)
  <2>1. ASSUME NEW x \in Reads(j, p), ChangedAt(j, p, x, sourceLead, sourceRow) \in 1..n
        PROVE  RecordedIn(j, p, x, eventRec, leadRec)
    <3>1. n = cursor[Streams(j)[q.at]]
      BY <1>3, <2>1
    <3>2. CASE Leads(j, p)
      <4>1. Streams(j)[q.at] = "leads" /\ x \in Contacts /\ sourceLead[x].at \in 1..cursor["leads"]
        BY <1>6, <2>1, <3>1, <3>2 DEF Leads, Reads, ChangedAt
      <4>2. leadRec[x] # "none"
        BY <1>0, <4>1 DEF CursorsFine, CursorBehindRecords
      <4> QED
        BY <3>2, <4>2 DEF RecordedIn
    <3>3. CASE ~Leads(j, p)
      <4>1. Streams(j)[q.at] = "events" /\ x \in Rows /\ sourceRow[x].at \in 1..cursor["events"]
        BY <1>2, <1>6, <2>1, <3>1, <3>3 DEF Leads, Reads, ChangedAt
      <4>2. Filtered(x) \/ eventRec[x].status # "none"
        BY <1>0, <4>1 DEF CursorsFine, CursorBehindRecords
      <4> QED
        BY <3>3, <4>2 DEF RecordedIn
    <3> QED
      BY <3>2, <3>3
  <2>2. p.cur =< changes /\ p.last =< changes
    BY <1>0, <1>3, <1>5 DEF Behind
  <2> QED
    BY <1>4, <1>5, <1>6, <2>1, <2>2 DEF Behind
<1>9. Refreshing(p, sourceLead)
  <2>1. \A c \in d : sourceLead[c].at # 0 /\ sourceLead[c].at \in Nat
    BY <1>0 DEF d, SourceFine
  <2>2. q.refresh => \A c \in d : sourceLead[c].at > n
    BY <1>3, <2>1
  <2> QED
    BY <1>4, <1>5, <1>6, <2>1, <2>2 DEF Refreshing
<1>10. FineNow(j, p)
  BY <1>5, <1>7, <1>8, <1>9 DEF FineNow, SyncFine
<1> QED
  BY <1>1, <1>10, MoveOn

(* A page holds every row up to its last one, and the rest if it is not full. *)
LEMMA PageCovers ==
  ASSUME NEW S, IsFiniteSet(S), NEW b \in Nat, NEW at \in [S -> 0..b], NEW cur \in Nat
  PROVE  /\ Page(at, cur) \subseteq S /\ \A x \in Page(at, cur) : at[x] > cur
         /\ \A m \in Page(at, cur), x \in S : at[x] > cur /\ at[x] =< at[m] => x \in Page(at, cur)
         /\ Page(at, cur) # {} => \E n \in {at[x] : x \in Page(at, cur)} : \A x \in Page(at, cur) : at[x] =< n
         /\ ~(Cardinality(Page(at, cur)) >= PageSize) => \A x \in S : at[x] > cur => x \in Page(at, cur)
<1> DEFINE A == After(at, cur)
           P == Page(at, cur)
           Earlier(x) == {y \in A : at[y] < at[x]}
<1>1. DOMAIN at = S /\ A \subseteq S /\ (\A x \in S : x \in A <=> at[x] > cur)
  BY DEF After
<1>2. P \subseteq A /\ \A x \in A : x \in P <=> Cardinality(Earlier(x)) < PageSize
  BY DEF Page
<1>3. IsFiniteSet(A)
  BY <1>1, FS_Subset
<1>4. \A x \in A : IsFiniteSet(Earlier(x)) /\ Cardinality(Earlier(x)) \in Nat
  <2> SUFFICES ASSUME NEW x \in A PROVE IsFiniteSet(Earlier(x)) /\ Cardinality(Earlier(x)) \in Nat
    OBVIOUS
  <2>1. Earlier(x) \in SUBSET A
    OBVIOUS
  <2>2. IsFiniteSet(Earlier(x))
    BY <1>3, <2>1, FS_Subset
  <2> QED
    BY <2>2, FS_CardinalityType
<1>5. \A x \in S : at[x] \in Nat
  OBVIOUS
<1> HIDE DEF A, P
<1>6. ASSUME NEW m \in P, NEW x \in S, at[x] > cur, at[x] =< at[m] PROVE x \in P
  <2>1. x \in A /\ m \in A /\ m \in S
    BY <1>1, <1>2, <1>6
  <2>2. Earlier(x) \in SUBSET Earlier(m)
    <3> SUFFICES ASSUME NEW y \in A, at[y] < at[x] PROVE at[y] < at[m]
      OBVIOUS
    <3>1. at[y] \in Nat /\ at[x] \in Nat /\ at[m] \in Nat
      BY <1>1, <1>5, <2>1
    <3> QED
      BY <1>6, <3>1
  <2>3. Cardinality(Earlier(x)) =< Cardinality(Earlier(m))
    BY <1>4, <2>1, <2>2, FS_Subset
  <2>4. Cardinality(Earlier(m)) < PageSize /\ PageSize \in Nat
    BY <1>2, <2>1, LedgerAssumption
  <2>5. Cardinality(Earlier(x)) < PageSize
    <3> DEFINE a == Cardinality(Earlier(x))
               d == Cardinality(Earlier(m))
    <3>1. a \in Nat /\ d \in Nat /\ a =< d /\ d < PageSize /\ PageSize \in Nat
      BY <1>4, <2>1, <2>3, <2>4
    <3> HIDE DEF a, d
    <3>2. a < PageSize
      BY <3>1
    <3> QED
      BY <3>2 DEF a
  <2> QED
    BY <1>2, <2>1, <2>5
<1>7. ASSUME P # {} PROVE \E n \in {at[x] : x \in P} : \A x \in P : at[x] =< n
  <2> DEFINE T == {at[x] : x \in P}
  <2>1. T # {} /\ T \subseteq 0..b
    BY <1>1, <1>2, <1>7
  <2>2. PICK n \in T : \A m \in T : m =< n
    BY <2>1, GreatestOf
  <2> QED
    BY <2>2
<1>8. ASSUME ~(Cardinality(P) >= PageSize), NEW x \in S, at[x] > cur PROVE x \in P
  <2> SUFFICES ASSUME x \notin P PROVE FALSE
    OBVIOUS
  <2> DEFINE N == {at[y] : y \in A \ P}
  <2>1. N \subseteq Nat /\ N # {}
    BY <1>1, <1>5, <1>8
  <2> HIDE DEF N
  <2>2. PICK n \in N : \A k \in N : n =< k
    BY <2>1, LeastOf
  <2>3. PICK y \in A \ P : at[y] = n
    BY DEF N
  <2>4. y \in S /\ at[y] \in Nat /\ ~(Cardinality(Earlier(y)) < PageSize)
    BY <1>1, <1>2, <1>5, <2>3
  <2>5. Earlier(y) \in SUBSET P
    <3> SUFFICES ASSUME NEW z \in A, at[z] < at[y], z \notin P PROVE FALSE
      OBVIOUS
    <3>1. at[z] \in N /\ at[z] \in Nat
      BY <1>1, <1>5 DEF N
    <3> QED
      BY <2>2, <2>3, <2>4, <3>1
  <2>6. IsFiniteSet(P) /\ Cardinality(P) \in Nat
    BY <1>2, <1>3, FS_Subset, FS_CardinalityType
  <2>7. Cardinality(Earlier(y)) =< Cardinality(P)
    BY <2>5, <2>6, FS_Subset
  <2>8. Cardinality(Earlier(y)) \in Nat /\ PageSize \in Nat
    BY <1>4, <2>3, LedgerAssumption
  <2> QED
    BY <1>8, <2>4, <2>6, <2>7, <2>8
<1>9. P \subseteq S /\ \A x \in P : at[x] > cur
  BY <1>1, <1>2
<1> QED
  BY <1>6, <1>7, <1>8, <1>9 DEF P

LEMMA PageIsRead ==
  ASSUME LedgerInv, NEW j \in Syncs, ReadPage(j)
  PROVE  LedgerInv' /\ KeptWhileAtSource
<1> DEFINE q == sync[j]
           S == Reads(j, q)
           at == StreamAt(j)
           page == Page(at, q.cur)
           f == Cardinality(page) >= PageSize
           n == IF page = {} THEN q.cur ELSE CHOOSE m \in {at[x] : x \in page} : \A x \in page : at[x] =< m
           todo == {PageRow(j, x) : x \in page}
           part == IF OnLeads(j) THEN "lead" ELSE "row"
           p == [q EXCEPT !.pc = "item", !.full = f, !.last = n, !.todo = todo, !.part = part]
<1>0. /\ q \in SyncRecords /\ Shaped(j, q) /\ Behind(j, q, eventRec, leadRec, sourceLead, sourceRow, changes)
      /\ Refreshing(q, sourceLead) /\ SourceFine /\ changes \in Nat /\ MaxChanges \in Nat
      /\ q.cur \in 0..MaxChanges /\ q.cur =< changes /\ q.pc = "page"
  BY LedgerAssumption DEF LedgerInv, SyncsFine, SyncFine, SourceFine, SyncRecords, Behind, ReadPage
<1>1. /\ sync' = [sync EXCEPT ![j] = p]
      /\ UNCHANGED <<sourceVars, ledgerRecords, controlVars, syncJob, ledgerFaults, cursor>>
  BY DEF ReadPage, PageRead, Step
<1>2. OnLeads(j) = Leads(j, q)
  BY DEF OnLeads, Leads
<1>3. /\ IsFiniteSet(S) /\ at \in [S -> 0..MaxChanges]
      /\ \A x \in S : at[x] = ChangedAt(j, q, x, sourceLead, sourceRow) /\ at[x] =< changes
  <2>1. CASE Leads(j, q)
    BY <1>0, <1>2, <2>1, LedgerAssumption DEF StreamAt, LeadsAt, Reads, ChangedAt, SourceFine
  <2>2. CASE ~Leads(j, q)
    BY <1>0, <1>2, <2>2, LedgerAssumption DEF StreamAt, RowsAt, Reads, ChangedAt, SourceFine
  <2> QED
    BY <2>1, <2>2
<1> HIDE DEF S, at
<1>4. /\ page \subseteq S /\ \A x \in page : at[x] > q.cur
      /\ \A m \in page, x \in S : at[x] > q.cur /\ at[x] =< at[m] => x \in page
      /\ page # {} => \E m \in {at[x] : x \in page} : \A x \in page : at[x] =< m
      /\ ~f => \A x \in S : at[x] > q.cur => x \in page
  <2>1. q.cur \in Nat /\ MaxChanges \in Nat
    BY <1>0
  <2>2. IsFiniteSet(S) /\ at \in [S -> 0..MaxChanges]
    BY <1>3
  <2> HIDE DEF q
  <2> QED
    BY <2>1, <2>2, PageCovers
<1> HIDE DEF page, f
<1>5. /\ n \in 0..MaxChanges /\ n =< changes /\ n >= q.cur
      /\ \A x \in S : at[x] > q.cur /\ at[x] =< n => x \in page
  <2>1. CASE page = {}
    BY <1>0, <1>3, <2>1
  <2>2. CASE page # {}
    <3>1. n \in {at[x] : x \in page} /\ \A x \in page : at[x] =< n
      BY <1>4, <2>2
    <3>2. PICK m \in page : n = at[m]
      BY <3>1
    <3>3. m \in S /\ at[m] \in 0..MaxChanges /\ at[m] =< changes /\ at[m] > q.cur
      BY <1>3, <1>4, <3>2
    <3>4. n \in 0..MaxChanges /\ n =< changes /\ n >= q.cur
      BY <1>0, <3>2, <3>3
    <3> QED
      BY <1>4, <3>2, <3>4
  <2> QED
    BY <2>1, <2>2
<1>6. f \in BOOLEAN
  BY DEF f
<1>7. /\ todo \subseteq PageRows /\ (\A x \in page : \E i \in todo : i.x = x)
      /\ \A i \in todo : i.x \in S /\ (Leads(j, q) => i.as # "none")
  <2>1. ASSUME NEW x \in page
        PROVE  /\ PageRow(j, x) \in PageRows /\ PageRow(j, x).x = x /\ (Leads(j, q) => PageRow(j, x).as # "none")
    <3>1. x \in S /\ at[x] \in 1..MaxChanges /\ at[x] = StreamAt(j)[x]
      BY <1>0, <1>3, <1>4, <2>1 DEF at
    <3>2. x \in Rows \cup Contacts /\ (Leads(j, q) => sourceLead[x].milestone \in {"active", "qualified", "converted"})
      BY <1>0, <3>1 DEF S, Reads, SourceFine
    <3> QED
      BY <1>2, <3>1, <3>2 DEF PageRow, PageRows
  <2> QED
    BY <1>4, <2>1
<1>8. part \in {"lead", "row"} /\ (part = "row" <=> ~Leads(j, q))
  BY <1>2
<1> HIDE DEF n, todo, part
<1>9. /\ p \in SyncRecords /\ p.pc = "item" /\ p.full = f /\ p.last = n /\ p.todo = todo /\ p.part = part
      /\ p.refresh = q.refresh /\ p.at = q.at /\ p.cur = q.cur /\ p.touched = q.touched /\ p.steady = q.steady
  BY <1>0, <1>5, <1>6, <1>7, <1>8 DEF SyncRecords
<1> HIDE DEF p
<1>10. Leads(j, p) = Leads(j, q) /\ Reads(j, p) = S /\ p.pc \in InPage /\ p.pc \notin InRow
  BY <1>9 DEF Leads, Reads, S, InPage, InRow
<1>11. Shaped(j, p)
  BY <1>0, <1>7, <1>8, <1>9, <1>10 DEF Shaped
<1>12. Behind(j, p, eventRec, leadRec, sourceLead, sourceRow, changes)
  <2>1. ASSUME NEW x \in S, ChangedAt(j, p, x, sourceLead, sourceRow) \in 1..n
        PROVE  RecordedIn(j, p, x, eventRec, leadRec) \/ \E i \in todo : i.x = x
    <3>1. at[x] \in 1..n /\ ChangedAt(j, q, x, sourceLead, sourceRow) = at[x]
      BY <1>3, <1>10, <2>1 DEF ChangedAt
    <3>2. CASE at[x] > q.cur
      BY <1>5, <1>7, <3>1, <3>2
    <3>3. CASE at[x] \in 1..q.cur
      <4>1. RecordedIn(j, q, x, eventRec, leadRec)
        BY <1>0, <3>1, <3>3 DEF Behind, S
      <4> QED
        BY <1>10, <4>1 DEF RecordedIn
    <3> QED
      BY <1>0, <1>5, <3>1, <3>2, <3>3
  <2> QED
    BY <1>0, <1>5, <1>9, <1>10, <2>1 DEF Behind
<1>13. Refreshing(p, sourceLead)
  <2> SUFFICES ASSUME q.refresh PROVE Refreshing(p, sourceLead)
    BY <1>9 DEF Refreshing
  <2>1. Leads(j, q) /\ S = Contacts /\ \A x \in S : at[x] = sourceLead[x].at
    BY <1>0, <1>3, StreamsOf DEF Reads, S, ChangedAt
  <2>2. \A c \in q.steady : c \in S /\ sourceLead[c].at # 0 /\ (c \in q.touched \/ at[c] > q.cur)
    BY <1>0, <2>1 DEF Refreshing, SyncRecords
  <2>3. ASSUME NEW c \in q.steady, c \notin q.touched PROVE (\E i \in todo : i.x = c) \/ (f /\ sourceLead[c].at > n)
    <3>1. c \in S /\ at[c] > q.cur /\ at[c] = sourceLead[c].at /\ at[c] \in Nat
      BY <1>3, <2>1, <2>2, <2>3
    <3>2. CASE at[c] =< n
      BY <1>5, <1>7, <3>1, <3>2
    <3>3. CASE ~f
      BY <1>4, <1>7, <3>1, <3>3
    <3>4. CASE f /\ ~(at[c] =< n)
      BY <1>5, <3>1, <3>4
    <3> QED
      BY <3>2, <3>3, <3>4
  <2> QED
    BY <1>9, <1>10, <2>2, <2>3 DEF Refreshing
<1>14. FineNow(j, p)
  BY <1>9, <1>11, <1>12, <1>13 DEF FineNow, SyncFine
<1> QED
  BY <1>1, <1>14, MoveOn

LEMMA SmallSteps ==
  ASSUME LedgerInv, NEW j \in Syncs, FindStale(j) \/ FinishRefresh(j) \/ StartEvents(j)
  PROVE  LedgerInv' /\ KeptWhileAtSource
<1> DEFINE q == sync[j]
<1>0. /\ q \in SyncRecords /\ Shaped(j, q) /\ Behind(j, q, eventRec, leadRec, sourceLead, sourceRow, changes)
      /\ Refreshing(q, sourceLead) /\ changes \in Nat
  BY LedgerAssumption DEF LedgerInv, SyncsFine, SyncFine, SourceFine
<1>1. UNCHANGED <<sourceVars, ledgerRecords, controlVars, syncJob, ledgerFaults, cursor>>
  BY DEF FindStale, FinishRefresh, StartEvents
<1>2. CASE FindStale(j)
  <2> DEFINE st == {c \in Contacts : leadRec[c] \in {"imported", "rejected"}} \ q.touched
             p == [q EXCEPT !.pc = "delete", !.stale = st]
  <2>1. sync' = [sync EXCEPT ![j] = p] /\ q.pc = "stale"
    BY <1>2 DEF FindStale, Step
  <2>2. st \subseteq Contacts /\ st \cap q.touched = {}
    OBVIOUS
  <2> HIDE DEF st
  <2>3. /\ p \in SyncRecords /\ p.pc = "delete" /\ p.stale = st /\ p.refresh = q.refresh /\ p.at = q.at /\ p.cur = q.cur
        /\ p.last = q.last /\ p.steady = q.steady /\ p.touched = q.touched
    BY <1>0, <2>2 DEF SyncRecords
  <2> HIDE DEF p
  <2>4. p.pc \notin InPage /\ p.pc \notin InRow
    BY <2>3 DEF InPage, InRow
  <2>5. Shaped(j, p) /\ Behind(j, p, eventRec, leadRec, sourceLead, sourceRow, changes)
    BY <1>0, <2>1, <2>3, <2>4 DEF Shaped, Behind
  <2>6. Refreshing(p, sourceLead)
    <3>1. q.refresh => (\A c \in q.steady : sourceLead[c].at # 0) /\ q.steady \subseteq q.touched
      BY <1>0, <2>1 DEF Refreshing
    <3>2. q.refresh => q.steady \cap st = {}
      BY <2>2, <3>1
    <3> QED
      BY <2>3, <2>4, <3>1, <3>2 DEF Refreshing
  <2>7. FineNow(j, p)
    BY <2>3, <2>5, <2>6 DEF FineNow, SyncFine
  <2> QED
    BY <1>1, <2>1, <2>7, MoveOn
<1>3. CASE FinishRefresh(j)
  <2> DEFINE p == [q EXCEPT !.pc = "complete"]
  <2>1. q.pc = "delete" /\ sync' = [sync EXCEPT ![j] = NextStream(j, q)]
    BY <1>3 DEF FinishRefresh, Step
  <2>2. q.refresh /\ q.at = Len(Streams(j))
    BY <1>0, <2>1, StreamsOf DEF Shaped
  <2>3. NextStream(j, q) = p
    BY <2>2 DEF NextStream
  <2>4. /\ p \in SyncRecords /\ p.pc = "complete" /\ p.refresh = q.refresh /\ p.at = q.at /\ p.cur = q.cur
        /\ p.last = q.last /\ p.steady = q.steady
    BY <1>0 DEF SyncRecords
  <2> HIDE DEF p
  <2>5. FineNow(j, p)
    BY <1>0, <2>4, AtRestFine DEF FineNow, Shaped, Behind, Refreshing
  <2> QED
    BY <1>1, <2>1, <2>3, <2>5, MoveOn
<1>4. CASE StartEvents(j)
  <2> DEFINE p == [q EXCEPT !.pc = "page"]
  <2>1. q.pc = "orphans" /\ sync' = [sync EXCEPT ![j] = p]
    BY <1>4 DEF StartEvents, Step
  <2>2. ~Leads(j, q) /\ ~q.refresh
    BY <1>0, <2>1, StreamsOf DEF Shaped
  <2>3. /\ p \in SyncRecords /\ p.pc = "page" /\ p.refresh = q.refresh /\ p.at = q.at /\ p.cur = q.cur
        /\ p.last = q.last
    BY <1>0 DEF SyncRecords
  <2> HIDE DEF p
  <2>4. p.pc \notin InPage /\ p.pc \notin InRow /\ Leads(j, p) = Leads(j, q) /\ Reads(j, p) = Reads(j, q)
    BY <2>3 DEF InPage, InRow, Leads, Reads
  <2>5. Shaped(j, p)
    BY <1>0, <2>3, <2>4 DEF Shaped
  <2>6. Behind(j, p, eventRec, leadRec, sourceLead, sourceRow, changes)
    BY <1>0, <2>1, <2>3, <2>4 DEF Behind, ChangedAt, RecordedIn
  <2>7. Refreshing(p, sourceLead)
    BY <2>2, <2>3 DEF Refreshing
  <2>8. FineNow(j, p)
    BY <2>3, <2>5, <2>6, <2>7 DEF FineNow, SyncFine
  <2> QED
    BY <1>1, <2>1, <2>8, MoveOn
<1> QED
  BY <1>2, <1>3, <1>4

LEMMA LedgerFacts ==
  ASSUME NEW r \in Ledger
  PROVE  /\ ContactOf(r) \in Contacts /\ TypeOf(r) \in EventTypes
         /\ Identified(r) => KeyOf(r) \in Ledger
<1>1. CASE r \in Rows
  <2>1. ContactOf(r) \in Contacts /\ TypeOf(r) \in EventTypes
    BY <1>1, LedgerAssumption DEF ContactOf, TypeOf
  <2>2. Identified(r) /\ r \notin Numbered => <<ContactOf(r), TypeOf(r)>> \in Milestones
    BY <2>1 DEF Identified, Milestones, EventTypes
  <2> QED
    BY <2>1, <2>2 DEF KeyOf, Ledger
<1>2. CASE r \notin Rows
  <2>1. r \in Milestones
    BY <1>2 DEF Ledger
  <2>2. PICK c \in Contacts, t \in {"qualified_lead", "purchase"} : r = <<c, t>>
    BY <2>1 DEF Milestones
  <2>3. ContactOf(r) = c /\ TypeOf(r) = t
    BY <1>2, <2>2 DEF ContactOf, TypeOf
  <2>4. <<ContactOf(r), TypeOf(r)>> \in Milestones
    BY <2>1, <2>2, <2>3
  <2> QED
    BY <2>2, <2>3, <2>4 DEF KeyOf, Ledger, EventTypes
<1> QED
  BY <1>1, <1>2

(* The row of a sync is done, and its record received. *)
LEMMA RowReceived ==
  ASSUME NEW j \in Syncs, NEW q, NEW ev, NEW lr, NEW sl, NEW sr, NEW ch,
         SyncFine(j, q, ev, lr, sl, sr, ch), q.pc \in InPage, q.todo # {}, Item(q).x \in Contacts,
         RecordedIn(j, q, Item(q).x, ev, lr)
  PROVE  SyncFine(j, IF NextLedgerRow(q).refresh THEN [NextLedgerRow(q) EXCEPT !.touched = @ \cup {Item(q).x}] ELSE NextLedgerRow(q),
                  ev, lr, sl, sr, ch)
<1> DEFINE p == NextLedgerRow(q)
           c == Item(q).x
           u == p.touched \cup {c}
           p2 == [p EXCEPT !.touched = u]
<1>0. q \in SyncRecords
  BY DEF SyncFine
<1>1. /\ p \in SyncRecords /\ Follows(q, p) /\ p.pc = "item" /\ p.todo = q.todo \ {Item(q)}
      /\ p.part = IF q.part = "row" THEN "row" ELSE "lead"
  BY <1>0, NextRowFields
<1>2. CASE ~p.refresh
  BY <1>1, <1>2, RowDone DEF Follows
<1>3. CASE p.refresh
  <2>1. u \subseteq Contacts /\ p.touched \subseteq u /\ c \in u
    BY <1>1 DEF SyncRecords
  <2> HIDE DEF p, u
  <2>2. /\ p2 \in SyncRecords /\ Follows(p, p2) /\ p2.pc = p.pc /\ p2.todo = p.todo /\ p2.part = p.part /\ p2.touched = u
    BY <1>1, <2>1 DEF SyncRecords, Follows
  <2> HIDE DEF p2
  <2>3. Follows(q, p2)
    BY <1>1, <2>2 DEF Follows
  <2>4. SyncFine(j, p2, ev, lr, sl, sr, ch)
    BY <1>1, <2>1, <2>2, <2>3, RowDone
  <2> QED
    BY <1>3, <2>4 DEF p2, p, u
<1> QED
  BY <1>2, <1>3

LEMMA StatusWritten ==
  ASSUME RecordsFine, NEW r \in Ledger, NEW code \in EventStatuses \ {"none"},
         eventRec' = [eventRec EXCEPT ![r].status = code]
  PROVE  /\ eventRec' \in [Ledger -> EventRecords] /\ \A s \in Ledger : eventRec'[s].log => Identified(s)
         /\ \A s \in Ledger : eventRec[s].status # "none" => eventRec'[s].status # "none"
         /\ eventRec'[r].status = code
<1>1. eventRec \in [Ledger -> EventRecords] /\ \A s \in Ledger : eventRec[s].log => Identified(s)
  BY DEF RecordsFine
<1>2. eventRec' \in [Ledger -> EventRecords]
  BY <1>1 DEF EventRecords
<1>3. \A s \in Ledger : eventRec'[s].log = eventRec[s].log
  BY <1>1 DEF EventRecords
<1>4. \A s \in Ledger : eventRec'[s].status = IF s = r THEN code ELSE eventRec[s].status
  BY <1>1 DEF EventRecords
<1> QED
  BY <1>1, <1>2, <1>3, <1>4

(* A row is rejected. *)
LEMMA RowRejected ==
  ASSUME LedgerInv, NEW j \in Syncs, sync[j].pc \in InPage, sync[j].todo # {},
         sync[j].part \in {"row", "qualified_lead", "purchase"},
         NEW code \in {"unmatched", "rejected"}, RejectRow(j, EventOf(sync[j]), code), UNCHANGED sourceVars
  PROVE  /\ eventRec' \in [Ledger -> EventRecords] /\ \A s \in Ledger : eventRec'[s].log => Identified(s)
         /\ leadRec' \in [Contacts -> {"none", "imported", "rejected", "removed"}]
         /\ RecordsKept /\ SyncsFine'
<1> DEFINE q == sync[j]
           r == EventOf(q)
           c == Item(q).x
<1>0. /\ q \in SyncRecords /\ Shaped(j, q) /\ FineNow(j, q) /\ SyncsFine /\ SourceFine /\ RecordsFine
  BY DEF LedgerInv, SyncsFine, SyncFine, FineNow
<1>1. /\ r \in Ledger /\ (q.part = "row" => ~Leads(j, q) /\ r = c) /\ (q.part # "row" => Leads(j, q) /\ c \in Contacts)
  BY <1>0, WorkedOn
<1>2. eventRec' = [eventRec EXCEPT ![r].status = code] /\ code \in EventStatuses \ {"none"}
  BY DEF RejectRow, EventStatuses
<1>3. /\ eventRec' \in [Ledger -> EventRecords] /\ \A s \in Ledger : eventRec'[s].log => Identified(s)
      /\ \A s \in Ledger : eventRec[s].status # "none" => eventRec'[s].status # "none"
      /\ eventRec'[r].status # "none"
  BY <1>0, <1>1, <1>2, StatusWritten
<1>4. leadRec' = leadRec \/ (leadRec' = [leadRec EXCEPT ![c] = "rejected"])
  BY DEF RejectRow
<1>5. leadRec' \in [Contacts -> {"none", "imported", "rejected", "removed"}]
  BY <1>0, <1>4 DEF RecordsFine
<1>6. RecordsKept
  BY <1>0, <1>3, <1>4 DEF RecordsKept, RecordsFine
<1>7. WorldGrown /\ sourceLead' = sourceLead
  BY <1>0, <1>6, SourceKept DEF sourceVars
<1>8. FineThen(j, q)
  <2>1. q.refresh => \A d \in q.steady : sourceLead'[d].at # 0
    BY <1>0, <1>7, SteadyThere
  <2> QED
    BY <1>0, <1>7, <2>1, GrownFine
<1>9. CASE q.part = "row"
  <2>1. sync' = [sync EXCEPT ![j] = NextLedgerRow(q)]
    BY <1>9 DEF RejectRow, Step
  <2>2. RecordedIn(j, q, c, eventRec', leadRec') /\ ~q.refresh
    BY <1>0, <1>1, <1>3, <1>9, StreamsOf DEF RecordedIn
  <2>3. FineThen(j, NextLedgerRow(q))
    BY <1>0, <1>8, <2>2, NextRowFields, RowDone DEF FineThen
  <2>4. SyncsFine'
    BY <1>0, <1>6, <2>1, <2>3, OneSync
  <2> QED
    BY <1>3, <1>5, <1>6, <2>4
<1>10. CASE q.part # "row"
  <2>1. leadRec' = [leadRec EXCEPT ![c] = "rejected"] /\ sync' = Touched(c, [sync EXCEPT ![j] = NextLedgerRow(q)])
    BY <1>10 DEF RejectRow
  <2>2. RecordedIn(j, q, c, eventRec', leadRec')
    BY <1>0, <1>1, <1>10, <2>1 DEF RecordedIn, RecordsFine
  <2>3. FineThen(j, IF NextLedgerRow(q).refresh THEN [NextLedgerRow(q) EXCEPT !.touched = @ \cup {c}] ELSE NextLedgerRow(q))
    BY <1>1, <1>8, <1>10, <2>2, RowReceived DEF FineThen
  <2>4. NextLedgerRow(q) \in SyncRecords
    BY <1>0, NextRowFields
  <2>5. SyncsFine'
    BY <1>0, <1>1, <1>6, <1>10, <2>1, <2>3, <2>4, TouchedSync
  <2> QED
    BY <1>3, <1>5, <1>6, <2>5
<1> QED
  BY <1>9, <1>10

LEMMA LeadSteps ==
  ASSUME LedgerInv, NEW j \in Syncs, UpsertLead(j) \/ SaveLeadRecord(j)
  PROVE  LedgerInv' /\ KeptWhileAtSource
<1> DEFINE q == sync[j]
           c == Item(q).x
<1>0. /\ q \in SyncRecords /\ Shaped(j, q) /\ FineNow(j, q) /\ SyncsFine /\ SourceFine /\ RecordsFine
      /\ ControlTyped /\ JobsFine
  BY DEF LedgerInv, SyncsFine, SyncFine, FineNow
<1>1. /\ q.pc = "item" /\ q.todo # {} /\ q.part \in {"lead", "leadrec"} /\ q.pc \in InPage
      /\ UNCHANGED <<sourceVars, controlVars, ledgerFaults, syncJob, cursor, eventRec, capiLog, toSend, orphans>>
  BY DEF UpsertLead, SaveLeadRecord, Working, InPage
<1>2. Leads(j, q) /\ c \in Contacts /\ Item(q).as # "none" /\ Item(q) \in PageRows
  BY <1>0, <1>1, WorkedOn
<1>3. ControlTyped' /\ JobsFine'
  BY <1>0, <1>1, ControlRests, JobsRest
<1>4. CASE UpsertLead(j)
  <2>1. lead' = [lead EXCEPT ![c] = Item(q).as] /\ UNCHANGED leadRec /\ sync' = [sync EXCEPT ![j] = NextSyncItem(q)]
    BY <1>4 DEF UpsertLead, Step
  <2>2. Item(q).as \in {"active", "qualified", "converted"}
    BY <1>2 DEF PageRows
  <2>3. RecordsFine'
    BY <1>0, <1>1, <2>1, <2>2 DEF RecordsFine
  <2>4. RecordsKept
    BY <1>1, <2>1 DEF RecordsKept
  <2>5. KeptWhileAtSource
    BY <1>0, <2>1, <2>2 DEF KeptWhileAtSource, RecordsFine
  <2>6. FineNow(j, NextSyncItem(q))
    BY <1>0, <1>1, NextSyncItemFine DEF FineNow
  <2>7. FineThen(j, NextSyncItem(q))
    BY <1>1, <2>1, <2>6 DEF FineThen, FineNow, sourceVars
  <2>8. SyncsFine'
    BY <1>0, <1>1, <2>1, <2>4, <2>7, OneSync
  <2> QED
    BY <1>1, <1>3, <2>3, <2>4, <2>5, <2>8, BesideSource
<1>5. CASE SaveLeadRecord(j)
  <2> DEFINE s == IF lead[c] = "none" THEN "rejected" ELSE "imported"
  <2>1. leadRec' = [leadRec EXCEPT ![c] = s] /\ UNCHANGED lead /\ sync' = Touched(c, [sync EXCEPT ![j] = NextLedgerRow(q)])
    BY <1>5 DEF SaveLeadRecord
  <2>2. s \in {"rejected", "imported"}
    OBVIOUS
  <2> HIDE DEF s
  <2>3. RecordsFine'
    BY <1>0, <1>1, <2>1, <2>2 DEF RecordsFine
  <2>4. RecordsKept
    BY <1>0, <1>1, <2>1, <2>2 DEF RecordsKept, RecordsFine
  <2>5. KeptWhileAtSource
    BY <2>1, LeadsStay
  <2>6. WorldGrown /\ sourceLead' = sourceLead
    BY <1>0, <1>1, <2>4, SourceKept DEF sourceVars
  <2>7. FineThen(j, q)
    <3>1. q.refresh => \A d \in q.steady : sourceLead'[d].at # 0
      BY <1>0, <2>6, SteadyThere
    <3> QED
      BY <1>0, <2>6, <3>1, GrownFine
  <2>8. RecordedIn(j, q, c, eventRec', leadRec')
    BY <1>0, <1>2, <2>1, <2>2 DEF RecordedIn, RecordsFine
  <2>9. FineThen(j, IF NextLedgerRow(q).refresh THEN [NextLedgerRow(q) EXCEPT !.touched = @ \cup {c}] ELSE NextLedgerRow(q))
    BY <1>1, <1>2, <2>7, <2>8, RowReceived DEF FineThen
  <2>10. NextLedgerRow(q) \in SyncRecords
    BY <1>0, NextRowFields
  <2>11. SyncsFine'
    BY <1>0, <1>1, <1>2, <2>1, <2>4, <2>9, <2>10, TouchedSync
  <2> QED
    BY <1>1, <1>3, <2>3, <2>4, <2>5, <2>11, BesideSource
<1> QED
  BY <1>4, <1>5

(* A step of the ingestion that stays in the row. *)
LEMMA StaysInRow ==
  ASSUME NEW j \in Syncs, NEW q, FineThen(j, q), q.pc \in InPage, q.todo # {}, q.part \in {"row", "qualified_lead", "purchase"},
         NEW p \in SyncRecords, Follows(q, p), p.pc \in InRow, p.todo = q.todo, p.part = q.part,
         (p.pc \in {"record", "save", "deliver"} \/ (p.pc = "retry" /\ p.prior.log)) => Identified(EventOf(q)),
         p.pc \in {"deliver", "retry"} => eventRec'[EventOf(q)].status # "none"
  PROVE  FineThen(j, p)
<1>1. EventOf(p) = EventOf(q)
  BY DEF EventOf, Item
<1>2. p.pc \in InPage
  BY DEF InPage
<1> QED
  BY <1>1, <1>2, PartDone DEF FineThen

LEMMA EventFound ==
  ASSUME LedgerInv, NEW j \in Syncs, FindEvent(j)
  PROVE  LedgerInv' /\ KeptWhileAtSource
<1> DEFINE q == sync[j]
           r == EventOf(q)
           fresh == eventRec[r].status \in {"none", "unmatched"}
           begins == TypeOf(r) = "conversation_started"
<1>0. /\ q \in SyncRecords /\ Shaped(j, q) /\ FineNow(j, q) /\ SyncsFine /\ SourceFine /\ RecordsFine
      /\ ControlTyped /\ JobsFine
  BY DEF LedgerInv, SyncsFine, SyncFine, FineNow
<1>1. /\ q.pc = "item" /\ q.todo # {} /\ q.part \in {"row", "qualified_lead", "purchase"} /\ q.pc \in InPage
      /\ UNCHANGED <<sourceVars, controlVars, ledgerFaults, syncJob, cursor, capiLog, toSend, orphans>>
  BY DEF FindEvent, Working, InPage
<1>2. r \in Ledger /\ (q.part = "row" => ~Leads(j, q) /\ r = Item(q).x)
  BY <1>0, <1>1, WorkedOn
<1>3. ControlTyped' /\ JobsFine'
  BY <1>0, <1>1, ControlRests, JobsRest
<1>4. eventRec[r] \in EventRecords /\ (eventRec[r].log => Identified(r)) /\ ContactOf(r) \in Contacts
  BY <1>0, <1>2, LedgerFacts DEF RecordsFine
<1>5. ASSUME UNCHANGED <<eventRec, leadRec>> PROVE RecordsKept /\ FineThen(j, q)
  BY <1>0, <1>1, <1>5 DEF RecordsKept, FineThen, FineNow, sourceVars
<1>6. CASE Filtered(r) /\ Step(j, NextSyncItem(q)) /\ UNCHANGED <<lead, eventRec, leadRec>>
  <2>1. RecordsFine' /\ RecordsKept /\ KeptWhileAtSource
    BY <1>0, <1>1, <1>6, RecordsRest DEF ledgerRecords
  <2>2. q.part = "row" => RecordedIn(j, q, Item(q).x, eventRec', leadRec')
    BY <1>2, <1>6 DEF RecordedIn
  <2>3. FineThen(j, NextSyncItem(q))
    BY <1>1, <1>5, <1>6, <2>2, NextSyncItemFine DEF FineThen
  <2>4. SyncsFine'
    BY <1>0, <1>1, <1>6, <2>1, <2>3, OneSync DEF Step
  <2> QED
    BY <1>1, <1>3, <2>1, <2>4, BesideSource
<1>7. CASE RejectRow(j, r, "unmatched") /\ UNCHANGED lead
  <2>1. /\ eventRec' \in [Ledger -> EventRecords] /\ \A s \in Ledger : eventRec'[s].log => Identified(s)
        /\ leadRec' \in [Contacts -> {"none", "imported", "rejected", "removed"}]
        /\ RecordsKept /\ SyncsFine'
    BY <1>1, <1>7, RowRejected
  <2>2. RecordsFine'
    BY <1>0, <1>1, <1>7, <2>1 DEF RecordsFine
  <2> QED
    BY <1>1, <1>3, <1>7, <2>1, <2>2, LeadsStay, BesideSource
<1>8. CASE /\ lead' = IF HasLead(r) THEN lead ELSE [lead EXCEPT ![ContactOf(r)] = "active"]
           /\ IF Identified(r) THEN Step(j, [q EXCEPT !.pc = "record", !.prior = eventRec[r]]) /\ UNCHANGED <<eventRec, leadRec>>
              ELSE RejectRow(j, r, "rejected")
  <2>1. lead' \in [Contacts -> {"none", "active", "qualified", "converted"}] /\ KeptWhileAtSource
    BY <1>0, <1>4, <1>8 DEF RecordsFine, KeptWhileAtSource
  <2>2. CASE Identified(r)
    <3> DEFINE p == [q EXCEPT !.pc = "record", !.prior = eventRec[r]]
    <3>1. sync' = [sync EXCEPT ![j] = p] /\ UNCHANGED <<eventRec, leadRec>>
      BY <1>8, <2>2 DEF Step
    <3>2. RecordsFine'
      BY <1>0, <1>1, <2>1, <3>1 DEF RecordsFine
    <3>3. p \in SyncRecords /\ Follows(q, p) /\ p.pc = "record" /\ p.todo = q.todo /\ p.part = q.part
      BY <1>0, <1>4 DEF SyncRecords, Follows
    <3> HIDE DEF p
    <3>4. FineThen(j, p)
      BY <1>1, <1>5, <2>2, <3>1, <3>3, StaysInRow DEF InRow
    <3>5. SyncsFine'
      BY <1>0, <1>1, <1>5, <3>1, <3>4, OneSync
    <3> QED
      BY <1>1, <1>3, <1>5, <2>1, <3>1, <3>2, <3>5, BesideSource
  <2>3. CASE ~Identified(r)
    <3>1. RejectRow(j, r, "rejected")
      BY <1>8, <2>3
    <3>2. /\ eventRec' \in [Ledger -> EventRecords] /\ \A s \in Ledger : eventRec'[s].log => Identified(s)
          /\ leadRec' \in [Contacts -> {"none", "imported", "rejected", "removed"}]
          /\ RecordsKept /\ SyncsFine'
      BY <1>1, <3>1, RowRejected
    <3>3. RecordsFine'
      BY <1>0, <1>1, <2>1, <3>2 DEF RecordsFine
    <3> QED
      BY <1>1, <1>3, <2>1, <3>2, <3>3, BesideSource
  <2> QED
    BY <2>2, <2>3
<1>9. CASE ~fresh /\ Step(j, [q EXCEPT !.pc = "retry", !.prior = eventRec[r]]) /\ UNCHANGED <<lead, eventRec, leadRec>>
  <2> DEFINE p == [q EXCEPT !.pc = "retry", !.prior = eventRec[r]]
  <2>1. sync' = [sync EXCEPT ![j] = p] /\ eventRec'[r].status # "none"
    BY <1>9 DEF Step
  <2>2. RecordsFine' /\ RecordsKept /\ KeptWhileAtSource
    BY <1>0, <1>1, <1>9, RecordsRest DEF ledgerRecords
  <2>3. /\ p \in SyncRecords /\ Follows(q, p) /\ p.pc = "retry" /\ p.todo = q.todo /\ p.part = q.part
        /\ p.prior = eventRec[r]
    BY <1>0, <1>4 DEF SyncRecords, Follows
  <2> HIDE DEF p
  <2>4. FineThen(j, p)
    BY <1>1, <1>4, <1>5, <1>9, <2>1, <2>3, StaysInRow DEF InRow
  <2>5. SyncsFine'
    BY <1>0, <1>1, <2>1, <2>2, <2>4, OneSync
  <2> QED
    BY <1>1, <1>3, <2>2, <2>5, BesideSource
<1>10. \/ Filtered(r) /\ Step(j, NextSyncItem(q)) /\ UNCHANGED <<lead, eventRec, leadRec>>
       \/ RejectRow(j, r, "unmatched") /\ UNCHANGED lead
       \/ /\ lead' = IF HasLead(r) THEN lead ELSE [lead EXCEPT ![ContactOf(r)] = "active"]
          /\ IF Identified(r) THEN Step(j, [q EXCEPT !.pc = "record", !.prior = eventRec[r]]) /\ UNCHANGED <<eventRec, leadRec>>
             ELSE RejectRow(j, r, "rejected")
       \/ ~fresh /\ Step(j, [q EXCEPT !.pc = "retry", !.prior = eventRec[r]]) /\ UNCHANGED <<lead, eventRec, leadRec>>
  BY Zenon DEF FindEvent
<1> HIDE DEF q, r, fresh, begins
<1> QED
  BY <1>6, <1>7, <1>8, <1>9, <1>10

LEMMA StatusTyped ==
  ASSUME NEW q, NEW r
  PROVE  DeliveryStatus(q, r) \in LogStatuses
BY DEF DeliveryStatus, LogStatuses

LEMMA EventRecorded ==
  ASSUME LedgerInv, NEW j \in Syncs, RecordEvent(j)
  PROVE  LedgerInv' /\ KeptWhileAtSource
<1> DEFINE q == sync[j]
           r == EventOf(q)
           old == capiLog[KeyOf(r)]
           new == DeliveryStatus(q, r)
           promoted == old.status = "none" \/ (old.status = "imported" /\ new # "imported")
           status == IF promoted THEN new ELSE old.status
           ready == status = "ready_to_send"
           p == [q EXCEPT !.pc = "save", !.created = promoted, !.ready = ready]
<1>0. /\ q \in SyncRecords /\ Shaped(j, q) /\ FineNow(j, q) /\ SyncsFine /\ SourceFine /\ RecordsFine
      /\ ControlTyped /\ JobsFine
  BY DEF LedgerInv, SyncsFine, SyncFine, FineNow
<1>1. /\ q.pc = "record" /\ q.todo # {} /\ q.part \in {"row", "qualified_lead", "purchase"} /\ q.pc \in InPage
      /\ Identified(r) /\ UNCHANGED <<sourceVars, controlVars, ledgerFaults, syncJob, cursor, lead, toSend, orphans>>
  BY <1>0 DEF RecordEvent, InPage, InRow, Shaped
<1>2. r \in Ledger /\ KeyOf(r) \in Ledger
  BY <1>0, <1>1, WorkedOn, LedgerFacts
<1>3. ControlTyped' /\ JobsFine' /\ KeptWhileAtSource
  BY <1>0, <1>1, ControlRests, JobsRest, LeadsStay
<1>4. CASE ~HasLead(r)
  <2>1. RejectRow(j, r, "rejected") /\ UNCHANGED capiLog
    BY <1>4 DEF RecordEvent
  <2>2. /\ eventRec' \in [Ledger -> EventRecords] /\ \A s \in Ledger : eventRec'[s].log => Identified(s)
        /\ leadRec' \in [Contacts -> {"none", "imported", "rejected", "removed"}]
        /\ RecordsKept /\ SyncsFine'
    BY <1>1, <2>1, RowRejected
  <2>3. RecordsFine'
    BY <1>0, <1>1, <2>1, <2>2 DEF RecordsFine
  <2> QED
    BY <1>1, <1>3, <2>2, <2>3, BesideSource
<1>5. CASE HasLead(r)
  <2>1. /\ capiLog' = [capiLog EXCEPT ![KeyOf(r)] = [status |-> status, linked |-> TRUE]]
        /\ sync' = [sync EXCEPT ![j] = p] /\ UNCHANGED <<eventRec, leadRec>>
    BY <1>5 DEF RecordEvent, Step
  <2>2. old \in [status : LogStatuses, linked : BOOLEAN] /\ new \in LogStatuses
    BY <1>0, <1>2, StatusTyped DEF RecordsFine
  <2>3. status \in LogStatuses /\ promoted \in BOOLEAN /\ ready \in BOOLEAN
    BY <2>2
  <2> HIDE DEF status, promoted, ready
  <2>4. RecordsFine'
    BY <1>0, <1>1, <1>2, <2>1, <2>3 DEF RecordsFine
  <2>5. p \in SyncRecords /\ Follows(q, p) /\ p.pc = "save" /\ p.todo = q.todo /\ p.part = q.part
    BY <1>0, <2>3 DEF SyncRecords, Follows
  <2> HIDE DEF p
  <2>6. RecordsKept /\ FineThen(j, q)
    BY <1>0, <1>1, <2>1 DEF RecordsKept, FineThen, FineNow, sourceVars
  <2>7. FineThen(j, p)
    BY <1>1, <2>5, <2>6, StaysInRow DEF InRow
  <2>8. SyncsFine'
    BY <1>0, <1>1, <2>1, <2>6, <2>7, OneSync
  <2> QED
    BY <1>1, <1>3, <2>4, <2>6, <2>8, BesideSource
<1> QED
  BY <1>4, <1>5

LEMMA AfterTyped ==
  ASSUME RecordsFine, NEW r \in Ledger
  PROVE  /\ StatusAfter(r) \in {"none", "active", "qualified", "converted"}
         /\ HasLead(r) => StatusAfter(r) # "none"
<1>1. ContactOf(r) \in Contacts /\ lead[ContactOf(r)] \in {"none", "active", "qualified", "converted"}
  BY LedgerFacts DEF RecordsFine
<1> QED
  BY <1>1 DEF StatusAfter, HasLead

LEMMA EventSaved ==
  ASSUME LedgerInv, NEW j \in Syncs, SaveEvent(j)
  PROVE  LedgerInv' /\ KeptWhileAtSource
<1> DEFINE q == sync[j]
           r == EventOf(q)
           late == ~HasLead(r) \/ (q.prior.status = "none" /\ eventRec[r].status # "none")
           x == [status |-> IF q.created THEN "imported" ELSE "duplicate", linked |-> TRUE, log |-> TRUE]
           p == [q EXCEPT !.pc = "deliver"]
<1>0. /\ q \in SyncRecords /\ Shaped(j, q) /\ FineNow(j, q) /\ SyncsFine /\ SourceFine /\ RecordsFine
      /\ ControlTyped /\ JobsFine
  BY DEF LedgerInv, SyncsFine, SyncFine, FineNow
<1>1. /\ q.pc = "save" /\ q.todo # {} /\ q.part \in {"row", "qualified_lead", "purchase"} /\ q.pc \in InPage
      /\ Identified(r) /\ UNCHANGED <<sourceVars, controlVars, ledgerFaults, syncJob, cursor, capiLog, toSend, orphans>>
  BY <1>0 DEF SaveEvent, InPage, InRow, Shaped
<1>2. r \in Ledger /\ ContactOf(r) \in Contacts
  BY <1>0, <1>1, WorkedOn, LedgerFacts
<1>3. ControlTyped' /\ JobsFine'
  BY <1>0, <1>1, ControlRests, JobsRest
<1>4. CASE late
  <2>1. RejectRow(j, r, "rejected") /\ UNCHANGED lead
    BY <1>4 DEF SaveEvent
  <2>2. /\ eventRec' \in [Ledger -> EventRecords] /\ \A s \in Ledger : eventRec'[s].log => Identified(s)
        /\ leadRec' \in [Contacts -> {"none", "imported", "rejected", "removed"}]
        /\ RecordsKept /\ SyncsFine'
    BY <1>1, <2>1, RowRejected
  <2>3. RecordsFine'
    BY <1>0, <1>1, <2>1, <2>2 DEF RecordsFine
  <2> QED
    BY <1>1, <1>3, <2>1, <2>2, <2>3, LeadsStay, BesideSource
<1>5. CASE ~late
  <2>1. /\ eventRec' = [eventRec EXCEPT ![r] = x] /\ lead' = [lead EXCEPT ![ContactOf(r)] = StatusAfter(r)]
        /\ sync' = [sync EXCEPT ![j] = p] /\ UNCHANGED leadRec
    BY <1>5 DEF SaveEvent, Step
  <2>2. x \in EventRecords /\ x.status # "none" /\ x.log
    BY DEF EventRecords, EventStatuses
  <2>3. StatusAfter(r) \in {"active", "qualified", "converted"}
    BY <1>0, <1>2, <1>5, AfterTyped
  <2> HIDE DEF x
  <2>4. RecordsFine'
    <3>1. lead' \in [Contacts -> {"none", "active", "qualified", "converted"}]
      BY <1>0, <1>2, <2>1, <2>3 DEF RecordsFine
    <3>2. eventRec' \in [Ledger -> EventRecords] /\ \A s \in Ledger : eventRec'[s].log => Identified(s)
      BY <1>0, <1>1, <2>1, <2>2 DEF RecordsFine
    <3> QED
      BY <1>0, <1>1, <2>1, <3>1, <3>2 DEF RecordsFine
  <2>5. RecordsKept /\ eventRec'[r].status # "none"
    BY <1>0, <1>2, <2>1, <2>2 DEF RecordsKept, RecordsFine
  <2>6. KeptWhileAtSource
    BY <1>0, <2>1, <2>3 DEF KeptWhileAtSource, RecordsFine
  <2>7. WorldGrown /\ sourceLead' = sourceLead
    BY <1>0, <1>1, <2>5, SourceKept DEF sourceVars
  <2>8. FineThen(j, q)
    <3>1. q.refresh => \A d \in q.steady : sourceLead'[d].at # 0
      BY <1>0, <2>7, SteadyThere
    <3> QED
      BY <1>0, <2>7, <3>1, GrownFine
  <2>9. p \in SyncRecords /\ Follows(q, p) /\ p.pc = "deliver" /\ p.todo = q.todo /\ p.part = q.part
    BY <1>0 DEF SyncRecords, Follows
  <2> HIDE DEF p
  <2>10. FineThen(j, p)
    BY <1>1, <2>5, <2>8, <2>9, StaysInRow DEF InRow
  <2>11. SyncsFine'
    BY <1>0, <1>1, <2>1, <2>5, <2>10, OneSync
  <2> QED
    BY <1>1, <1>3, <2>4, <2>5, <2>6, <2>11, BesideSource
<1> QED
  BY <1>4, <1>5

LEMMA EventDelivered ==
  ASSUME LedgerInv, NEW j \in Syncs, DeliverEvent(j) \/ RetryEvent(j)
  PROVE  LedgerInv' /\ KeptWhileAtSource
<1> DEFINE q == sync[j]
           r == EventOf(q)
<1>0. /\ q \in SyncRecords /\ Shaped(j, q) /\ FineNow(j, q) /\ SyncsFine /\ SourceFine /\ RecordsFine
      /\ ControlTyped /\ JobsFine /\ Behind(j, q, eventRec, leadRec, sourceLead, sourceRow, changes)
  BY DEF LedgerInv, SyncsFine, SyncFine, FineNow
<1>1. /\ q.pc \in {"deliver", "retry"} /\ (DeliverEvent(j) => q.pc = "deliver") /\ sync' = [sync EXCEPT ![j] = NextSyncItem(q)]
      /\ UNCHANGED <<sourceVars, controlVars, syncJob, cursor, lead, leadRec, capiLog, orphans>>
  BY DEF DeliverEvent, RetryEvent, Step
<1>2. /\ q.todo # {} /\ q.part \in {"row", "qualified_lead", "purchase"} /\ q.pc \in InPage
      /\ eventRec[r].status # "none" /\ (q.pc = "deliver" \/ q.prior.log => Identified(r))
  BY <1>0, <1>1 DEF Shaped, Behind, InPage, InRow
<1>3. r \in Ledger /\ (Identified(r) => KeyOf(r) \in Ledger) /\ (q.part = "row" => ~Leads(j, q) /\ r = Item(q).x)
  BY <1>0, <1>2, WorkedOn, LedgerFacts
<1>4. toSend' = toSend \/ (toSend' = toSend \cup {KeyOf(r)} /\ Identified(r))
  BY <1>1, <1>2 DEF DeliverEvent, RetryEvent
<1>5. eventRec' = eventRec \/ \E code \in {"pending_delivery", "imported"} : eventRec' = [eventRec EXCEPT ![r].status = code]
  BY DEF DeliverEvent, RetryEvent
<1>6. /\ eventRec' \in [Ledger -> EventRecords] /\ \A s \in Ledger : eventRec'[s].log => Identified(s)
      /\ \A s \in Ledger : eventRec[s].status # "none" => eventRec'[s].status # "none"
  <2>1. CASE eventRec' = eventRec
    BY <1>0, <2>1 DEF RecordsFine
  <2>2. CASE \E code \in {"pending_delivery", "imported"} : eventRec' = [eventRec EXCEPT ![r].status = code]
    <3>1. PICK code \in {"pending_delivery", "imported"} : eventRec' = [eventRec EXCEPT ![r].status = code]
      BY <2>2
    <3>2. code \in EventStatuses \ {"none"}
      BY DEF EventStatuses
    <3> QED
      BY <1>0, <1>3, <3>1, <3>2, StatusWritten
  <2> QED
    BY <1>5, <2>1, <2>2
<1>7. RecordsFine' /\ RecordsKept /\ KeptWhileAtSource
  <2>1. toSend' \subseteq Ledger
    BY <1>0, <1>3, <1>4 DEF RecordsFine
  <2>2. RecordsFine'
    BY <1>0, <1>1, <1>6, <2>1 DEF RecordsFine
  <2>3. RecordsKept
    BY <1>1, <1>6 DEF RecordsKept
  <2> QED
    BY <1>1, <2>2, <2>3, LeadsStay
<1>8. WorldGrown /\ sourceLead' = sourceLead
  BY <1>0, <1>1, <1>7, SourceKept DEF sourceVars
<1>9. FineThen(j, q)
  <2>1. q.refresh => \A d \in q.steady : sourceLead'[d].at # 0
    BY <1>0, <1>8, SteadyThere
  <2> QED
    BY <1>0, <1>8, <2>1, GrownFine
<1>10. q.part = "row" => RecordedIn(j, q, Item(q).x, eventRec', leadRec')
  BY <1>2, <1>3, <1>6 DEF RecordedIn
<1>11. FineThen(j, NextSyncItem(q))
  BY <1>2, <1>9, <1>10, NextSyncItemFine DEF FineThen
<1>12. SyncsFine'
  BY <1>0, <1>1, <1>7, <1>11, OneSync
<1>13. ControlTyped' /\ JobsFine'
  <2>1. ledgerFaults' = ledgerFaults \/ (ledgerFaults < MaxLedgerFaults /\ ledgerFaults' = ledgerFaults + 1)
    BY DEF DeliverEvent, RetryEvent
  <2>2. ledgerFaults' \in 0..MaxLedgerFaults
    BY <1>0, <2>1, LedgerAssumption DEF ControlTyped
  <2> QED
    BY <1>0, <1>1, <2>2, JobsRest DEF ControlTyped, controlVars
<1> QED
  BY <1>1, <1>7, <1>12, <1>13, BesideSource

(* The rows of a page are recorded, so its last row is where the cursor may go. *)
LEMMA CursorMoves ==
  ASSUME LedgerInv, NEW j \in Syncs, sync[j].pc = "item", sync[j].todo = {}, NEW n \in {sync[j].last},
         UNCHANGED <<sourceVars, ledgerRecords>>, cursor' = [cursor EXCEPT ![Streams(j)[sync[j].at]] = n]
  PROVE  CursorsFine'
<1> DEFINE q == sync[j]
           s == Streams(j)[q.at]
<1>0. /\ q \in SyncRecords /\ Shaped(j, q) /\ Behind(j, q, eventRec, leadRec, sourceLead, sourceRow, changes)
      /\ CursorsFine /\ changes \in Nat
  BY LedgerAssumption DEF LedgerInv, SyncsFine, SyncFine, SourceFine
<1>1. UNCHANGED <<sourceLead, sourceRow, changes, eventRec, leadRec>>
  BY DEF sourceVars, ledgerRecords
<1>2. n \in 0..MaxChanges /\ n =< changes
  BY <1>0 DEF SyncRecords, Behind
<1>3. s \in {"leads", "events"} /\ (Leads(j, q) <=> s = "leads")
  BY <1>0, StreamsOf DEF Leads
<1>4. \A x \in Reads(j, q) : ChangedAt(j, q, x, sourceLead, sourceRow) \in 1..n => RecordedIn(j, q, x, eventRec, leadRec)
  BY <1>0 DEF Behind, InPage
<1>5. n \in NoCursor..MaxChanges
  BY <1>2, LedgerAssumption DEF NoCursor
<1> HIDE DEF q, s
<1>6. cursor' = [cursor EXCEPT ![s] = n]
  BY DEF q, s
<1>7. cursor' \in [{"leads", "events"} -> NoCursor..MaxChanges]
  BY <1>0, <1>5, <1>6 DEF CursorsFine
<1>8. \A d \in {"leads", "events"} : cursor'[d] = IF d = s THEN n ELSE cursor[d]
  BY <1>0, <1>6 DEF CursorsFine
<1>9. cursor'["leads"] =< changes' /\ cursor'["events"] =< changes'
  BY <1>0, <1>1, <1>2, <1>8 DEF CursorsFine
<1>10. ASSUME NEW r \in Rows, sourceRow[r].at \in 1..cursor'["events"], ~Filtered(r)
       PROVE  eventRec[r].status # "none"
  <2>1. CASE s = "events"
    <3>1. ~Leads(j, q) /\ r \in Reads(j, q) /\ ChangedAt(j, q, r, sourceLead, sourceRow) = sourceRow[r].at
      BY <1>3, <2>1 DEF Reads, ChangedAt
    <3>2. sourceRow[r].at \in 1..n
      BY <1>8, <1>10, <2>1
    <3> QED
      BY <1>4, <1>10, <3>1, <3>2 DEF RecordedIn
  <2>2. CASE s # "events"
    BY <1>0, <1>8, <1>10, <2>2 DEF CursorsFine, CursorBehindRecords
  <2> QED
    BY <2>1, <2>2
<1>11. ASSUME NEW c \in Contacts, sourceLead[c].at \in 1..cursor'["leads"]
       PROVE  leadRec[c] # "none"
  <2>1. CASE s = "leads"
    <3>1. Leads(j, q) /\ c \in Reads(j, q) /\ ChangedAt(j, q, c, sourceLead, sourceRow) = sourceLead[c].at
      BY <1>3, <2>1 DEF Reads, ChangedAt
    <3>2. sourceLead[c].at \in 1..n
      BY <1>8, <1>11, <2>1
    <3> QED
      BY <1>4, <3>1, <3>2 DEF RecordedIn
  <2>2. CASE s # "leads"
    BY <1>0, <1>8, <1>11, <2>2 DEF CursorsFine, CursorBehindRecords
  <2> QED
    BY <2>1, <2>2
<1>12. CursorBehindRecords'
  BY <1>1, <1>10, <1>11 DEF CursorBehindRecords
<1> QED
  BY <1>7, <1>9, <1>12 DEF CursorsFine

LEMMA PageIsDone ==
  ASSUME LedgerInv, NEW j \in Syncs, AdvanceCursor(j)
  PROVE  LedgerInv' /\ KeptWhileAtSource
<1> DEFINE q == sync[j]
<1>0. /\ q \in SyncRecords /\ Shaped(j, q) /\ Behind(j, q, eventRec, leadRec, sourceLead, sourceRow, changes)
      /\ Refreshing(q, sourceLead) /\ changes \in Nat /\ CursorsFine /\ MaxChanges \in Nat
  BY LedgerAssumption DEF LedgerInv, SyncsFine, SyncFine, SourceFine
<1>1. /\ q.pc = "item" /\ q.todo = {} /\ q.pc \in InPage
      /\ UNCHANGED <<sourceVars, ledgerRecords, controlVars, syncJob, ledgerFaults>>
  BY DEF AdvanceCursor, InPage
<1>2. /\ q.last \in 0..MaxChanges /\ q.last =< changes /\ q.full \in BOOLEAN /\ q.refresh \in BOOLEAN
      /\ (q.refresh => j = "leads") /\ (q.at = 2 => j = "both") /\ q.at \in 1..2
  BY <1>0 DEF SyncRecords, Shaped, Behind
<1>3. \A x \in Reads(j, q) : ChangedAt(j, q, x, sourceLead, sourceRow) \in 1..q.last => RecordedIn(j, q, x, eventRec, leadRec)
  BY <1>0, <1>1 DEF Behind
<1>4. q.refresh => \A c \in q.steady : sourceLead[c].at # 0 /\ (c \in q.touched \/ (q.full /\ sourceLead[c].at > q.last))
  BY <1>0, <1>1 DEF Refreshing
<1>5. UNCHANGED cursor \/ CursorsFine'
  <2> DEFINE s == Streams(j)[q.at]
             m == cursor[s]
  <2>1. \/ cursor' = cursor
        \/ cursor' = [cursor EXCEPT ![s] = IF q.last = q.cur /\ m # NoCursor THEN m ELSE q.last]
    BY <1>0 DEF AdvanceCursor
  <2>2. [cursor EXCEPT ![s] = m] = cursor
    BY <1>0 DEF CursorsFine
  <2>3. cursor' = cursor \/ cursor' = [cursor EXCEPT ![s] = q.last]
    BY <2>1, <2>2
  <2> QED
    BY <1>1, <2>3, CursorMoves
<1>6. q \in SyncRecords /\ 0 \in 0..MaxChanges /\ q.last \in 0..MaxChanges
  BY <1>0, <1>2
<1>7. CASE q.full
  <2> DEFINE p == [q EXCEPT !.pc = "page", !.cur = q.last, !.last = 0, !.full = FALSE]
  <2>1. sync' = [sync EXCEPT ![j] = p]
    BY <1>7 DEF AdvanceCursor, Step
  <2>2. /\ p \in SyncRecords /\ p.pc = "page" /\ p.cur = q.last /\ p.last = 0 /\ p.refresh = q.refresh /\ p.at = q.at
        /\ p.touched = q.touched /\ p.steady = q.steady
    BY <1>6 DEF SyncRecords
  <2> HIDE DEF p
  <2>3. p.pc \notin InPage /\ p.pc \notin InRow /\ Leads(j, p) = Leads(j, q) /\ Reads(j, p) = Reads(j, q)
    BY <2>2 DEF InPage, InRow, Leads, Reads
  <2>4. Shaped(j, p)
    BY <1>2, <2>2, <2>3 DEF Shaped
  <2>5. Behind(j, p, eventRec, leadRec, sourceLead, sourceRow, changes)
    BY <1>0, <1>2, <1>3, <2>2, <2>3 DEF Behind, ChangedAt, RecordedIn
  <2>6. Refreshing(p, sourceLead)
    BY <1>4, <2>2, <2>3 DEF Refreshing
  <2>7. FineNow(j, p)
    BY <2>2, <2>4, <2>5, <2>6 DEF FineNow, SyncFine
  <2> QED
    BY <1>1, <1>5, <2>1, <2>7, MoveOn
<1>8. CASE ~q.full /\ q.refresh
  <2> DEFINE p == [q EXCEPT !.pc = "stale", !.cur = 0, !.last = 0]
  <2>1. sync' = [sync EXCEPT ![j] = p]
    BY <1>8 DEF AdvanceCursor, Step
  <2>2. /\ p \in SyncRecords /\ p.pc = "stale" /\ p.cur = 0 /\ p.last = 0 /\ p.refresh = q.refresh /\ p.at = q.at
        /\ p.touched = q.touched /\ p.steady = q.steady
    BY <1>6 DEF SyncRecords
  <2> HIDE DEF p
  <2>3. p.pc \notin InPage /\ p.pc \notin InRow
    BY <2>2 DEF InPage, InRow
  <2>4. Shaped(j, p)
    BY <1>2, <1>8, <2>2, <2>3 DEF Shaped
  <2>5. Behind(j, p, eventRec, leadRec, sourceLead, sourceRow, changes)
    BY <1>0, <2>2, <2>3 DEF Behind
  <2>6. Refreshing(p, sourceLead)
    BY <1>4, <1>8, <2>2, <2>3 DEF Refreshing
  <2>7. FineNow(j, p)
    BY <2>2, <2>4, <2>5, <2>6 DEF FineNow, SyncFine
  <2> QED
    BY <1>1, <1>5, <2>1, <2>7, MoveOn
<1>9. CASE ~q.full /\ ~q.refresh
  <2> DEFINE o == [q EXCEPT !.cur = 0, !.last = 0]
             p == NextStream(j, o)
  <2>1. sync' = [sync EXCEPT ![j] = p]
    BY <1>9 DEF AdvanceCursor, Step
  <2>2. o \in SyncRecords /\ o.cur = 0 /\ o.last = 0 /\ o.refresh = q.refresh /\ o.at = q.at
    BY <1>6 DEF SyncRecords
  <2>3. Len(Streams(j)) \in {1, 2} /\ (Len(Streams(j)) = 2 => j = "both") /\ q.at =< Len(Streams(j))
    BY <1>0, StreamsOf
  <2> HIDE DEF o
  <2>4. CASE o.at = Len(Streams(j))
    <3>1. p = [o EXCEPT !.pc = "complete"]
      BY <2>4 DEF NextStream
    <3>2. /\ p \in SyncRecords /\ p.pc = "complete" /\ p.cur = 0 /\ p.last = 0 /\ ~p.refresh /\ p.at = q.at
      BY <1>9, <2>2, <3>1 DEF SyncRecords
    <3> HIDE DEF p
    <3>3. FineNow(j, p)
      BY <1>0, <1>2, <3>2, AtRestFine DEF FineNow
    <3> QED
      BY <1>1, <1>5, <2>1, <3>3, MoveOn
  <2>5. CASE o.at # Len(Streams(j))
    <3>1. p = [o EXCEPT !.pc = "begin", !.at = o.at + 1]
      BY <2>5, <2>2 DEF NextStream, SyncRecords
    <3>2. o.at = 1 /\ o.at + 1 \in 1..2 /\ j = "both"
      <4> DEFINE n == Len(Streams(j))
      <4>1. n \in {1, 2} /\ (n = 2 => j = "both") /\ o.at =< n /\ o.at # n /\ o.at \in 1..2
        BY <1>2, <2>2, <2>3, <2>5
      <4> HIDE DEF n
      <4> QED
        BY <4>1
    <3>3. /\ p \in SyncRecords /\ p.pc = "begin" /\ p.cur = 0 /\ p.last = 0 /\ ~p.refresh
      <4> DEFINE m == o.at + 1
      <4>1. m \in 1..2 /\ p = [o EXCEPT !.pc = "begin", !.at = m]
        BY <3>1, <3>2
      <4> HIDE DEF m, p
      <4> QED
        BY <1>9, <2>2, <4>1 DEF SyncRecords
    <3> HIDE DEF p
    <3>4. FineNow(j, p)
      BY <1>0, <3>2, <3>3, AtRestFine DEF FineNow
    <3> QED
      BY <1>1, <1>5, <2>1, <3>4, MoveOn
  <2> QED
    BY <2>4, <2>5
<1> QED
  BY <1>2, <1>7, <1>8, <1>9

(* Only a refresh takes a lead away, one it has not received since it began. *)
LEMMA LeadDeleted ==
  ASSUME LedgerInv, NEW j \in Syncs, NEW c \in Contacts, DeleteLead(j, c)
  PROVE  LedgerInv' /\ KeptWhileAtSource
<1> DEFINE q == sync[j]
           st == q.stale \ {c}
           p == [q EXCEPT !.stale = st]
           Logs == [status : LogStatuses, linked : BOOLEAN]
<1>0. /\ q \in SyncRecords /\ FineNow(j, q) /\ Shaped(j, q) /\ Refreshing(q, sourceLead)
      /\ SyncsFine /\ SourceFine /\ RecordsFine /\ ControlTyped /\ JobsFine
  BY DEF LedgerInv, SyncsFine, SyncFine, FineNow
<1>1. /\ q.pc = "delete" /\ c \in q.stale /\ sync' = [sync EXCEPT ![j] = p] /\ leadRec' = [leadRec EXCEPT ![c] = "removed"]
      /\ UNCHANGED <<sourceVars, toSend, orphans, controlVars, cursor, syncJob, ledgerFaults>>
  BY <1>0 DEF DeleteLead, Step, SyncRecords
<1>2. q.refresh /\ c \notin q.steady
  BY <1>0, <1>1 DEF Shaped, Refreshing
<1>3. ControlTyped' /\ JobsFine'
  BY <1>0, <1>1, ControlRests, JobsRest
<1>4. /\ leadRec' \in [Contacts -> {"none", "imported", "rejected", "removed"}]
      /\ \A d \in Contacts : leadRec[d] # "none" => leadRec'[d] # "none"
  BY <1>0, <1>1 DEF RecordsFine
<1>5. /\ lead' \in [Contacts -> {"none", "active", "qualified", "converted"}]
      /\ \A d \in Contacts : d # c => lead'[d] = lead[d]
  <2>1. lead' = lead \/ lead' = [lead EXCEPT ![c] = "none"]
    BY DEF DeleteLead
  <2> QED
    BY <1>0, <2>1 DEF RecordsFine
<1>6. \A k \in Ledger : capiLog[k] \in Logs /\ eventRec[k] \in EventRecords /\ (eventRec[k].log => Identified(k))
  BY <1>0 DEF RecordsFine
<1>7. capiLog' \in [Ledger -> Logs]
  <2>1. \/ capiLog' = capiLog
        \/ \E S : capiLog' = [k \in Ledger |-> IF k \in S THEN [status |-> "skipped", linked |-> FALSE] ELSE capiLog[k]]
    <3>1. CASE lead[c] # "none" /\ c \notin Native
      <4> DEFINE logs == {KeyOf(r) : r \in {s \in Ledger : ContactOf(s) = c}}
                 S == {k \in Ledger : k \in logs /\ capiLog[k].linked}
      <4>1. capiLog' = [k \in Ledger |-> IF k \in logs /\ capiLog[k].linked THEN [status |-> "skipped", linked |-> FALSE] ELSE capiLog[k]]
        BY <3>1 DEF DeleteLead
      <4> HIDE DEF logs
      <4>2. capiLog' = [k \in Ledger |-> IF k \in S THEN [status |-> "skipped", linked |-> FALSE] ELSE capiLog[k]]
        BY <4>1
      <4> QED
        BY <4>2
    <3>2. CASE ~(lead[c] # "none" /\ c \notin Native)
      BY <3>2 DEF DeleteLead
    <3> QED
      BY <3>1, <3>2
  <2>2. [status |-> "skipped", linked |-> FALSE] \in Logs
    BY DEF LogStatuses
  <2> QED
    BY <1>0, <1>6, <2>1, <2>2 DEF RecordsFine
<1>8. /\ eventRec' \in [Ledger -> EventRecords]
      /\ \A r \in Ledger : eventRec'[r].log = eventRec[r].log /\ (eventRec[r].status # "none" => eventRec'[r].status # "none")
  <2>1. CASE eventRec' = eventRec
    BY <1>0, <2>1 DEF RecordsFine
  <2>2. CASE eventRec' # eventRec
    <3> DEFINE S == {r \in Ledger : ContactOf(r) = c /\ eventRec[r].linked /\ r \notin orphans}
               Gone(r) == [eventRec[r] EXCEPT !.status = "removed", !.linked = FALSE]
    <3>1. eventRec' = [r \in Ledger |-> IF ContactOf(r) = c /\ eventRec[r].linked /\ r \notin orphans THEN Gone(r) ELSE eventRec[r]]
      BY <2>2 DEF DeleteLead
    <3>2. eventRec' = [r \in Ledger |-> IF r \in S THEN Gone(r) ELSE eventRec[r]]
      BY <3>1
    <3>3. \A r \in Ledger : Gone(r) \in EventRecords /\ Gone(r).log = eventRec[r].log /\ Gone(r).status # "none"
      BY <1>6 DEF EventRecords, EventStatuses
    <3> HIDE DEF S, Gone
    <3> QED
      BY <1>6, <3>2, <3>3
  <2> QED
    BY <2>1, <2>2
<1>9. RecordsFine' /\ RecordsKept
  <2>1. \A r \in Ledger : eventRec'[r].log => Identified(r)
    BY <1>6, <1>8
  <2>2. RecordsKept
    BY <1>4, <1>8 DEF RecordsKept
  <2> QED
    BY <1>0, <1>1, <1>4, <1>5, <1>7, <1>8, <2>1, <2>2 DEF RecordsFine
<1>10. KeptWhileAtSource
  BY <1>1, <1>2, <1>5 DEF KeptWhileAtSource
<1>11. WorldGrown /\ sourceLead' = sourceLead
  BY <1>0, <1>1, <1>9, SourceKept DEF sourceVars
<1>12. FineThen(j, q)
  <2>1. q.refresh => \A d \in q.steady : sourceLead'[d].at # 0
    BY <1>0, <1>11, SteadyThere
  <2> QED
    BY <1>0, <1>11, <2>1, GrownFine
<1>13. st \subseteq Contacts /\ st \subseteq q.stale
  BY <1>0 DEF SyncRecords
<1> HIDE DEF st
<1>14. /\ p \in SyncRecords /\ p.pc = "delete" /\ p.stale = st /\ p.refresh = q.refresh /\ p.at = q.at /\ p.cur = q.cur
       /\ p.last = q.last /\ p.steady = q.steady
  BY <1>0, <1>1, <1>13 DEF SyncRecords
<1> HIDE DEF p
<1>15. p.pc \notin InPage /\ p.pc \notin InRow
  BY <1>14 DEF InPage, InRow
<1>16. Shaped(j, p)
  BY <1>0, <1>2, <1>14, <1>15 DEF Shaped
<1>17. Behind(j, p, eventRec', leadRec', sourceLead', sourceRow', changes')
  BY <1>12, <1>14, <1>15 DEF FineThen, SyncFine, Behind
<1>18. Refreshing(p, sourceLead')
  <2>1. (\A d \in q.steady : sourceLead'[d].at # 0) /\ q.steady \cap q.stale = {}
    BY <1>1, <1>2, <1>12 DEF FineThen, SyncFine, Refreshing
  <2> QED
    BY <1>13, <1>14, <1>15, <2>1 DEF Refreshing
<1>19. FineThen(j, p)
  BY <1>14, <1>16, <1>17, <1>18 DEF FineThen, SyncFine
<1>20. SyncsFine'
  BY <1>0, <1>1, <1>9, <1>19, OneSync
<1> QED
  BY <1>1, <1>3, <1>9, <1>10, <1>20, BesideSource

LEMMA OrphanReconciled ==
  ASSUME LedgerInv, NEW j \in Syncs, NEW r \in Rows, ReconcileOrphan(j, r)
  PROVE  LedgerInv' /\ KeptWhileAtSource
<1> DEFINE found == leadRec[ContactOf(r)] = "imported" /\ HasLead(r)
           Logs == [status : LogStatuses, linked : BOOLEAN]
<1>0. SyncsFine /\ SourceFine /\ RecordsFine /\ ControlTyped /\ JobsFine
  BY DEF LedgerInv
<1>1. /\ orphans' = orphans \ {r}
      /\ UNCHANGED <<sourceVars, leadRec, toSend, controlVars, cursor, syncJob, sync, ledgerFaults>>
  BY DEF ReconcileOrphan
<1>2. r \in Ledger /\ ContactOf(r) \in Contacts
  BY LedgerFacts DEF Ledger
<1>3. ControlTyped' /\ JobsFine'
  BY <1>0, <1>1, ControlRests, JobsRest
<1>4. RecordsFine' /\ RecordsKept /\ KeptWhileAtSource
  <2>1. CASE found
    <3>1. lead' = [lead EXCEPT ![ContactOf(r)] = StatusAfter(r)] /\ UNCHANGED <<eventRec, capiLog>>
      BY <2>1 DEF ReconcileOrphan
    <3>2. StatusAfter(r) \in {"active", "qualified", "converted"}
      BY <1>0, <1>2, <2>1, AfterTyped
    <3>3. RecordsFine'
      BY <1>0, <1>1, <1>2, <3>1, <3>2 DEF RecordsFine
    <3>4. KeptWhileAtSource
      BY <1>0, <3>1, <3>2 DEF KeptWhileAtSource, RecordsFine
    <3>5. RecordsKept
      BY <1>1, <3>1 DEF RecordsKept
    <3> QED
      BY <3>3, <3>4, <3>5
  <2>2. CASE ~found
    <3> DEFINE x == [eventRec[r] EXCEPT !.status = "unmatched", !.linked = FALSE]
               k == KeyOf(r)
    <3>1. /\ eventRec' = [eventRec EXCEPT ![r].status = "unmatched", ![r].linked = FALSE]
          /\ capiLog' = [capiLog EXCEPT ![k] = [status |-> "skipped", linked |-> FALSE]] /\ UNCHANGED lead
      BY <2>2 DEF ReconcileOrphan
    <3>2. eventRec \in [Ledger -> EventRecords] /\ \A s \in Ledger : eventRec[s].log => Identified(s)
      BY <1>0 DEF RecordsFine
    <3>3. eventRec' = [eventRec EXCEPT ![r] = x]
      BY <1>2, <3>1, <3>2 DEF EventRecords
    <3>4. x \in EventRecords /\ x.status = "unmatched" /\ x.log = eventRec[r].log
      BY <1>2, <3>2 DEF EventRecords, EventStatuses
    <3> HIDE DEF x
    <3>5. eventRec' \in [Ledger -> EventRecords] /\ \A s \in Ledger : eventRec'[s].log = eventRec[s].log
      BY <3>2, <3>3, <3>4
    <3>6. \A s \in Ledger : eventRec[s].status # "none" => eventRec'[s].status # "none"
      BY <3>2, <3>3, <3>4
    <3>7. capiLog' \in [Ledger -> Logs]
      <4>1. [status |-> "skipped", linked |-> FALSE] \in Logs /\ capiLog \in [Ledger -> Logs]
        BY <1>0 DEF LogStatuses, RecordsFine
      <4> HIDE DEF k
      <4> QED
        BY <3>1, <4>1
    <3>8. RecordsFine'
      BY <1>0, <1>1, <3>1, <3>2, <3>5, <3>7 DEF RecordsFine
    <3>9. RecordsKept
      BY <1>1, <3>6 DEF RecordsKept
    <3> QED
      BY <3>1, <3>8, <3>9, LeadsStay
  <2> QED
    BY <2>1, <2>2
<1>5. WorldGrown /\ sourceLead' = sourceLead
  BY <1>0, <1>1, <1>4, SourceKept DEF sourceVars
<1>6. SyncsFine'
  BY <1>0, <1>1, <1>5, SteadyThere, SyncsRest
<1> QED
  BY <1>1, <1>3, <1>4, <1>6, BesideSource

LEMMA LedgerBegins ==
  ASSUME LedgerInit
  PROVE  LedgerInv
<1>1. SourceFine
  BY LedgerAssumption DEF LedgerInit, SourceFine
<1>2. RecordsFine
  <2>1. NoRecord \in EventRecords /\ ~NoRecord.log
    BY RecordTyped DEF NoRecord
  <2>2. [status |-> "imported", linked |-> TRUE, log |-> TRUE] \in EventRecords
    BY DEF EventRecords, EventStatuses
  <2>3. eventRec \in [Ledger -> EventRecords] /\ \A r \in Ledger : eventRec[r].log => Identified(r)
    BY <2>1, <2>2, LedgerAssumption DEF LedgerInit
  <2>4. capiLog \in [Ledger -> [status : LogStatuses, linked : BOOLEAN]]
    BY DEF LedgerInit, LogStatuses
  <2> QED
    BY <2>3, <2>4, LedgerAssumption DEF LedgerInit, RecordsFine
<1>3. ControlTyped
  BY LedgerAssumption DEF LedgerInit, ControlTyped, EventTypes, Never
<1>4. JobsFine
  <2>1. NoJob \in Jobs
    BY MaxAttemptsAssumption, MaxStalledAssumption DEF NoJob, Jobs, JobStates
  <2> QED
    BY <2>1 DEF LedgerInit, JobsFine
<1>5. CursorsFine
  BY LedgerAssumption DEF LedgerInit, CursorsFine, CursorBehindRecords, NoCursor
<1>6. SyncsFine
  <2>1. changes = 0 /\ sync = [j \in Syncs |-> NoSync]
    BY DEF LedgerInit
  <2> QED
    BY <2>1, IdleSync, NoSyncFine DEF SyncsFine
<1> QED
  BY <1>1, <1>2, <1>3, <1>4, <1>5, <1>6 DEF LedgerInv

LEMMA LedgerShown ==
  ASSUME LedgerInv
  PROVE  LedgerTypeOK /\ CursorBehindRecords
<1>1. SourceFine /\ RecordsFine /\ ControlTyped /\ JobsFine /\ CursorsFine /\ SyncsFine
  BY DEF LedgerInv
<1>2. LedgerTypeOK
  BY <1>1, Zenon DEF LedgerTypeOK, SourceFine, RecordsFine, ControlTyped, JobsFine, CursorsFine, SyncsFine
<1> QED
  BY <1>1, <1>2 DEF CursorsFine

LEMMA LedgerSteps ==
  ASSUME LedgerInv, LedgerNext
  PROVE  LedgerInv' /\ KeptWhileAtSource
<1>1. ASSUME NEW j \in Syncs, SyncStep(j) \/ SyncThrows(j) \/ SyncWorkerDies(j)
      PROVE  LedgerInv' /\ KeptWhileAtSource
  BY <1>1, EndsOfSyncs, StreamBegins, PageIsRead, LeadSteps, EventFound, EventRecorded, EventSaved, EventDelivered,
     PageIsDone, SmallSteps, LeadDeleted, OrphanReconciled DEF SyncStep
<1>2. CASE SourceNext
  BY <1>2, SourceMoves
<1>3. CASE ConnectorNext \/ EnqueueDueConnectors
  BY <1>3, ConnectorMoves
<1> QED
  BY <1>1, <1>2, <1>3 DEF LedgerNext

LEMMA LedgerRests ==
  ASSUME LedgerInv, UNCHANGED ledgerVars
  PROVE  LedgerInv'
<1>0. SourceFine /\ RecordsFine /\ ControlTyped /\ JobsFine /\ SyncsFine
  BY DEF LedgerInv
<1>1. UNCHANGED <<sourceVars, ledgerRecords, controlVars, cursor, syncJob, sync, ledgerFaults>>
  BY DEF ledgerVars, sourceVars, ledgerRecords, controlVars
<1>2. RecordsFine' /\ RecordsKept /\ ControlTyped' /\ JobsFine'
  BY <1>0, <1>1, RecordsRest, ControlRests, JobsRest
<1>3. WorldGrown /\ sourceLead' = sourceLead
  BY <1>0, <1>1, <1>2, SourceKept DEF sourceVars
<1>4. SyncsFine'
  BY <1>0, <1>1, <1>3, SteadyThere, SyncsRest
<1> QED
  BY <1>1, <1>2, <1>4, BesideSource

(* Whatever syncs, refreshes, imports and failures overlap: the cursors    *)
(* never pass a row that nobody recorded, and a refresh deletes no lead    *)
(* that was at the source ever since it began (ExternalSyncService,        *)
(* reconcileLeadSnapshot).                                                 *)
THEOREM LedgerStaysSafe == LedgerSpec => LedgerSafe
<1>1. LedgerInit => LedgerInv
  BY LedgerBegins
<1>2. LedgerInv /\ [LedgerNext]_ledgerVars => LedgerInv'
  BY LedgerSteps, LedgerRests
<1>3. LedgerInv => LedgerTypeOK /\ CursorBehindRecords
  BY LedgerShown
<1>4. LedgerInv /\ [LedgerNext]_ledgerVars => [KeptWhileAtSource]_ledgerVars
  BY LedgerSteps
<1> QED
  BY <1>1, <1>2, <1>3, <1>4, PTL DEF LedgerSpec, LedgerSafe
=============================================================================
