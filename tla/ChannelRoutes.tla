--------------------------- MODULE ChannelRoutes ---------------------------
(***************************************************************************)
(* The Meta routes of one inbound channel                                  *)
(* (InboundWebhookChannelRoutesService): operators replace and remove      *)
(* them, pause the channel or its connection, and after most changes the   *)
(* open events of the channel are evaluated again.  A sweep reads the      *)
(* channel and its open events, learns the routes that the events' ads     *)
(* resolve to, evaluates every event against what it read, and only then   *)
(* writes: sweeps of several requests overlap, and events are taken for    *)
(* replay or production meanwhile.                                         *)
(***************************************************************************)
EXTENDS Naturals, FiniteSets

CONSTANTS
  Destinations,   \* complete routes: business connection, account, destination
  WholeBm,        \* a route that names a business connection only
  NoDestination,
  Arrivals,       \* events of the channel
  Sweepers,       \* bound: requests under way at a time
  MaxRouteEdits,  \* bound: changes by operators and at Meta
  MaxPreviewFaults \* bound: previews that fail

ASSUME RouteAssumption == NoDestination \notin Destinations /\ MaxRouteEdits \in Nat /\ MaxPreviewFaults \in Nat

VARIABLES
  routes,         \* active InboundWebhookChannelRoute rows; each is valid
  halted,         \* the switches that stand at paused: "channel", "connection"
  adRoute,        \* where Meta's settings route the ad of each event now
  arrival,        \* InboundWebhookEvent: classification, resolved route, item
  sweep,          \* reevaluateEvents calls under way
  routeEdits, previewFaults

routeVars == <<routes, halted, adRoute, arrival, sweep, routeEdits, previewFaults>>

RouteKeys == Destinations \cup {WholeBm}
Maybe == Destinations \cup {NoDestination}
OpenClasses == {"resolved", "unresolved"}

NotArrived == [class |-> "none", to |-> NoDestination, taken |-> FALSE]
Unresolved == [class |-> "unresolved", to |-> NoDestination, taken |-> FALSE]
ResolvedTo(d) == [class |-> "resolved", to |-> d, taken |-> FALSE]

Resting == [at |-> "idle", classes |-> {}, events |-> {}, halted |-> FALSE, routes |-> {},
            decided |-> [e \in Arrivals |-> NoDestination]]

RouteTypeOK ==
  /\ routes \subseteq RouteKeys /\ halted \subseteq {"channel", "connection"}
  /\ adRoute \in [Arrivals -> Maybe]
  /\ arrival \in [Arrivals -> [class : OpenClasses \cup {"none"}, to : Maybe, taken : BOOLEAN]]
  /\ sweep \in [Sweepers -> [at : {"idle", "read", "learn", "decide", "write"}, classes : SUBSET OpenClasses,
                             events : SUBSET Arrivals, halted : BOOLEAN, routes : SUBSET RouteKeys, decided : [Arrivals -> Maybe]]]
  /\ routeEdits \in 0..MaxRouteEdits /\ previewFaults \in 0..MaxPreviewFaults

-----------------------------------------------------------------------------
(* What the code computes.                                                 *)

(* What Meta's settings say of an ad: its account is active and reaches an *)
(* active business connection and credential, the destinations that the    *)
(* account allows, the one it had before there was such a list, and the    *)
(* one the ad is assigned to.                                              *)
AdSettings ==
  [linked : BOOLEAN, allowed : SUBSET Destinations, own : Maybe, assigned : Maybe, configured : SUBSET Destinations]

Authorized(st) == IF st.allowed # {} THEN st.allowed ELSE {st.own} \ {NoDestination}

(* The destination that is taken before it is known to be configured. *)
Chosen(st, asked) ==
  CASE asked # NoDestination -> asked
    [] asked = NoDestination /\ st.assigned # NoDestination -> st.assigned
    [] OTHER -> IF \E d \in Authorized(st) : Authorized(st) = {d} THEN CHOOSE d \in Authorized(st) : TRUE ELSE NoDestination

(* previewRoute, asked for a destination or for none: an assignment must   *)
(* be authorized and be what was asked for, and of several destinations    *)
(* none is taken without one.                                              *)
PreviewRoute(st, asked) ==
  IF /\ st.linked
     /\ {asked, st.assigned} \subseteq Authorized(st) \cup {NoDestination}
     /\ asked = NoDestination \/ st.assigned \in {asked, NoDestination}
     /\ asked # NoDestination /\ st.assigned = NoDestination => Authorized(st) = {asked}
     /\ Chosen(st, asked) \in st.configured
  THEN Chosen(st, asked) ELSE NoDestination

(* previewMatchesRoute: a route without account and destination matches    *)
(* every resolved preview of its business connection.  A route asks for    *)
(* its own destination, which gives what the ad resolves to or nothing     *)
(* (AskedPreviewAgrees).                                                   *)
PreviewMatches(d, rt) == d # NoDestination /\ rt \in {d, WholeBm}

(* findMany of the open events: eligible, and taken by neither a replay    *)
(* nor a production item.                                                  *)
OpenEvents(classes) == {e \in Arrivals : arrival[e].class \in classes /\ ~arrival[e].taken}

(* evaluateEventRoute against the channel as it was read: paused, without  *)
(* routes, matched by none and matched by several are all unresolved.      *)
Evaluate(stopped, rts, d) ==
  IF ~stopped /\ Cardinality({rt \in rts : PreviewMatches(d, rt)}) = 1 THEN d ELSE NoDestination

(* eventRouteUpdate *)
RouteUpdate(d) == IF d = NoDestination THEN Unresolved ELSE ResolvedTo(d)

(* learnRoutesFromEvents: the routes that the previews of the open events  *)
(* give and no route of the channel covers; none while it is paused.       *)
Learnable(s, seen) ==
  IF sweep[s].halted THEN {}
  ELSE {adRoute[e] : e \in {x \in seen : adRoute[x] # NoDestination /\ \A rt \in sweep[s].routes : ~PreviewMatches(adRoute[x], rt)}}

(* loadChannelReadiness and channelReadiness: the state the panel shows    *)
(* for the channel.  Payload expiry is left to InboundDelivery, and an     *)
(* event that was taken counts as not yet materialized.                    *)
Blockers ==
  halted \cup {b \in {"no route", "none observed", "unresolved"} :
                 CASE b = "no route" -> routes = {}
                   [] b = "none observed" -> \A e \in Arrivals : arrival[e].class = "none"
                   [] b = "unresolved" -> \E e \in Arrivals : arrival[e].class = "unresolved"}

Readiness ==
  IF "none observed" \in Blockers THEN "waiting"
  ELSE IF Blockers \cap {"channel", "connection", "no route"} # {} \/ OpenEvents({"resolved"}) = {} THEN "blocked"
  ELSE IF Blockers # {} THEN "partial" ELSE "ready"

(* A channel just discovered: its events are in, and Meta knows some ads. *)
RouteInit ==
  /\ routes = {} /\ halted = {} /\ adRoute \in [Arrivals -> {PreviewRoute(st, NoDestination) : st \in AdSettings}]
  /\ arrival = [e \in Arrivals |-> NotArrived]
  /\ sweep = [s \in Sweepers |-> Resting] /\ routeEdits = 0 /\ previewFaults = 0

-----------------------------------------------------------------------------
(* Operators, Meta and the intake.                                         *)

Edit == routeEdits < MaxRouteEdits /\ routeEdits' = routeEdits + 1

Sweeping(s, classes) == sweep' = [sweep EXCEPT ![s] = [Resting EXCEPT !.at = "read", !.classes = classes]]

(* replaceRoutes: the rows not asked for become inactive, the others are   *)
(* upserted active and valid; then the open events are evaluated again.    *)
ReplaceRoutes(s, rts) ==
  /\ sweep[s].at = "idle" /\ Edit /\ routes' = rts /\ Sweeping(s, OpenClasses)
  /\ UNCHANGED <<halted, adRoute, arrival, previewFaults>>

(* removeRoute *)
RemoveRoute(s, rt) ==
  /\ sweep[s].at = "idle" /\ rt \in routes /\ Edit /\ routes' = routes \ {rt} /\ Sweeping(s, OpenClasses)
  /\ UNCHANGED <<halted, adRoute, arrival, previewFaults>>

(* updateChannelStatus: a channel with no complete route is not activated. *)
UpdateChannelStatus(s, to) ==
  /\ sweep[s].at = "idle" /\ Edit
  /\ to = "active" => routes \cap Destinations # {}
  /\ halted' = IF to = "paused" THEN halted \cup {"channel"} ELSE halted \ {"channel"}
  /\ Sweeping(s, OpenClasses)
  /\ UNCHANGED <<routes, adRoute, arrival, previewFaults>>

(* updateStatus of the connection, paused or back to observation: nothing  *)
(* is evaluated again.                                                     *)
UpdateConnectionStatus ==
  /\ Edit /\ halted' = (halted \cup {"connection"}) \ (halted \cap {"connection"})
  /\ UNCHANGED <<routes, adRoute, arrival, sweep, previewFaults>>

(* The ad is assigned, moved or lost at Meta: a sync or an operator writes *)
(* it, and previewRoute reads it.                                          *)
AdRouteChanges(e, st) ==
  LET d == PreviewRoute(st, NoDestination) IN
  /\ Edit /\ adRoute[e] # d /\ adRoute' = [adRoute EXCEPT ![e] = d]
  /\ UNCHANGED <<routes, halted, arrival, sweep, previewFaults>>

(* The observation persists the event unresolved and evaluates the         *)
(* unresolved events of its channel; a paused connection observes nothing. *)
EventArrives(s, e) ==
  /\ sweep[s].at = "idle" /\ arrival[e].class = "none" /\ "connection" \notin halted
  /\ arrival' = [arrival EXCEPT ![e] = Unresolved] /\ Sweeping(s, {"unresolved"})
  /\ UNCHANGED <<routes, halted, adRoute, routeEdits, previewFaults>>

(* Mutant: a sync evaluates the unresolved events only. *)
SyncUnresolvedOnly(s) ==
  /\ sweep[s].at = "idle" /\ OpenEvents(OpenClasses) # {} /\ Sweeping(s, {"unresolved"})
  /\ UNCHANGED <<routes, halted, adRoute, arrival, routeEdits, previewFaults>>

(* reevaluateWorkspaceOpenEvents, at the end of every report sync that     *)
(* synced an account: channels that have open events.                      *)
SyncReevaluates(s) ==
  /\ sweep[s].at = "idle" /\ OpenEvents(OpenClasses) # {} /\ Sweeping(s, OpenClasses)
  /\ UNCHANGED <<routes, halted, adRoute, arrival, routeEdits, previewFaults>>

(* A replay or production item is created for a resolved event. *)
TakeEvent(e) ==
  /\ arrival[e].class = "resolved" /\ ~arrival[e].taken
  /\ arrival' = [arrival EXCEPT ![e].taken = TRUE]
  /\ UNCHANGED <<routes, halted, adRoute, sweep, routeEdits, previewFaults>>

-----------------------------------------------------------------------------
(* reevaluateEvents.                                                       *)

Advance(s, w) == sweep' = [sweep EXCEPT ![s] = w]

(* The channel with its active routes, and the open events. *)
ReadOpen(s) ==
  /\ sweep[s].at = "read"
  /\ Advance(s, [sweep[s] EXCEPT !.at = "learn", !.events = OpenEvents(sweep[s].classes),
                                 !.halted = halted # {}, !.routes = routes])
  /\ UNCHANGED <<routes, halted, adRoute, arrival, routeEdits, previewFaults>>

(* The previews that fail are skipped; what the others teach is upserted   *)
(* active in one transaction, and the channel is read again if a row       *)
(* changed.                                                                *)
LearnRoutes(s) ==
  /\ sweep[s].at = "learn"
  /\ \E seen \in SUBSET sweep[s].events :
       /\ previewFaults' = previewFaults + (IF seen = sweep[s].events THEN 0 ELSE 1)
       /\ previewFaults' <= MaxPreviewFaults
       /\ LET new == Learnable(s, seen) \ routes IN
            /\ routes' = routes \cup new
            /\ Advance(s, IF new = {} THEN [sweep[s] EXCEPT !.at = "decide"]
                          ELSE [sweep[s] EXCEPT !.at = "decide", !.halted = halted # {}, !.routes = routes \cup new])
  /\ UNCHANGED <<halted, adRoute, arrival, routeEdits>>

(* Every event is evaluated; a preview that fails leaves its event         *)
(* unresolved.                                                             *)
DecideRoutes(s) ==
  /\ sweep[s].at = "decide"
  /\ \E seen \in SUBSET sweep[s].events :
       /\ previewFaults' = previewFaults + (IF seen = sweep[s].events THEN 0 ELSE 1)
       /\ previewFaults' <= MaxPreviewFaults
       /\ Advance(s, [sweep[s] EXCEPT !.at = "write", !.decided = [e \in Arrivals |->
                        IF e \in seen THEN Evaluate(sweep[s].halted, sweep[s].routes, adRoute[e]) ELSE NoDestination]])
  /\ UNCHANGED <<routes, halted, adRoute, arrival, routeEdits>>

(* One transaction writes the decisions of the events that are still open. *)
StillOpen(s) == sweep[s].events \cap OpenEvents(sweep[s].classes)

WriteDecisions(s) ==
  /\ sweep[s].at = "write"
  /\ arrival' = [e \in Arrivals |-> IF e \in StillOpen(s) THEN RouteUpdate(sweep[s].decided[e]) ELSE arrival[e]]
  /\ Advance(s, Resting)
  /\ UNCHANGED <<routes, halted, adRoute, routeEdits, previewFaults>>

RouteNext ==
  \/ \E s \in Sweepers, rts \in SUBSET RouteKeys : ReplaceRoutes(s, rts)
  \/ \E s \in Sweepers, rt \in RouteKeys : RemoveRoute(s, rt)
  \/ \E s \in Sweepers, to \in {"active", "paused"} : UpdateChannelStatus(s, to)
  \/ UpdateConnectionStatus
  \/ \E e \in Arrivals, st \in AdSettings : AdRouteChanges(e, st)
  \/ \E s \in Sweepers, e \in Arrivals : EventArrives(s, e)
  \/ \E s \in Sweepers : SyncReevaluates(s)
  \/ \E e \in Arrivals : TakeEvent(e)
  \/ \E s \in Sweepers : ReadOpen(s) \/ LearnRoutes(s) \/ DecideRoutes(s) \/ WriteDecisions(s)

RouteSpec == RouteInit /\ [][RouteNext]_routeVars

(* Report syncs keep coming (MetaReportAutoSyncService), and a call that   *)
(* started is carried on.                                                  *)
RouteFairness ==
  \A s \in Sweepers :
    /\ WF_routeVars(SyncReevaluates(s)) /\ WF_routeVars(ReadOpen(s)) /\ WF_routeVars(LearnRoutes(s))
    /\ WF_routeVars(DecideRoutes(s)) /\ WF_routeVars(WriteDecisions(s))

-----------------------------------------------------------------------------
(* Properties.                                                             *)

(* An event taken for replay or production keeps the route it was taken    *)
(* with: a sweep that read it while it was open does not write it.         *)
TakenKeepsRoute == [][\A e \in Arrivals : arrival[e].taken => arrival'[e] = arrival[e]]_routeVars

(* Once operators and Meta's settings rest, every open event ends up       *)
(* classified as the routes, the pauses and the ads then say, whatever     *)
(* overlapping sweeps wrote from older readings, and the panel shows a     *)
(* channel whose open events all have their route as ready.                *)
Settled(e) == arrival[e] = RouteUpdate(Evaluate(halted # {}, routes, adRoute[e]))

OpenEventsConverge ==
  <>[](LET open == OpenEvents(OpenClasses) IN
         /\ \A e \in open : Settled(e)
         /\ open # {} /\ (\A e \in open : Evaluate(halted # {}, routes, adRoute[e]) # NoDestination) => Readiness = "ready")

(* Both, of overlapping sweeps and edits                                   *)
(* (InboundWebhookChannelRoutesService).                                   *)
RoutesSettle == []RouteTypeOK /\ TakenKeepsRoute /\ OpenEventsConverge
=============================================================================
