----------------------------- MODULE WiFiWatchdog -----------------------------
(***************************************************************************)
(* The Wi-Fi watchdog as SEMMeterComponent drives it: the connection        *)
(* callbacks and the simulation switch between iterations of the main loop, *)
(* the evaluation at most once per EvalInterval, and the publication of its *)
(* Home Assistant entities, where the health entity comes last.             *)
(***************************************************************************)
EXTENDS WiFiTracker, Sequences

CONSTANTS
  EvalInterval,    (* WATCHDOG_EVALUATION_INTERVAL_MS                       *)
  MaxGap,          (* longest time between two iterations of the main loop  *)
  BootTimes        (* the values millis() may have in setup()               *)

ASSUME WiFiLoopAssumption ==
  /\ EvalInterval \in Nat \ {0} /\ MaxGap \in Nat \ {0}
  /\ BootTimes \subseteq Timestamps
  /\ \A limit \in {WiFiGrace, OutageThreshold, RecoveredHold} :
       limit + EvalInterval + MaxGap < Wrap

VARIABLES
  now,             (* millis()                                              *)
  gap,             (* time since the last iteration of the main loop        *)
  wifi,            (* wifi_health_                                          *)
  lastEval,        (* last_wifi_watchdog_evaluation_ms_                     *)
  pc,              (* "idle", or "publish" before the health entity         *)
  shown,           (* the published status, outage and health entities      *)
  event            (* the event the last update dispatched                  *)

(* History: true time, which does not wrap but stops counting at Wrap.      *)
VARIABLES
  offline,         (* since the effective connection was lost, or setup     *)
  recovered,       (* since the last WIFI_RESTORED                          *)
  everOnline,      (* was there ever an effective connection?               *)
  openOutages      (* WIFI_TIMEOUT events not yet answered                  *)

history == <<offline, recovered, everOnline, openOutages>>
vars    == <<now, gap, wifi, lastEval, pc, shown, event, history>>

Later(t) == IF t < Wrap THEN t + 1 ELSE t

(* setup() publishes the entities once.                                     *)
Init ==
  /\ now \in BootTimes
  /\ wifi = StartedWiFi(now)
  /\ gap = 0 /\ lastEval = now
  /\ pc = "idle"
  /\ shown = [status |-> "STARTING", healthy |-> FALSE, outage |-> 0]
  /\ event = "NONE"
  /\ offline = 0 /\ recovered = Wrap
  /\ everOnline = FALSE
  /\ openOutages = 0

Tick ==
  /\ pc = "idle"
  /\ gap < MaxGap
  /\ now' = (now + 1) % Wrap
  /\ gap' = gap + 1
  /\ offline' = IF Effective(wifi) THEN 0 ELSE Later(offline)
  /\ recovered' = Later(recovered)
  /\ event' = "NONE"
  /\ UNCHANGED <<wifi, lastEval, pc, shown, everOnline, openOutages>>

(* apply_wifi_health_update_: an update that changes neither the state nor  *)
(* raises an event publishes nothing.                                       *)
Apply(update) ==
  /\ wifi' = update.tracker
  /\ event' = update.event
  /\ IF wifi'.state = wifi.state /\ update.event = "NONE"
     THEN UNCHANGED <<pc, shown>>
     ELSE /\ pc' = "publish"
          /\ shown' = [shown EXCEPT
                         !.status = wifi'.state,
                         !.outage = IF update.event = "WIFI_RESTORED" THEN wifi'.outage ELSE @]
  /\ offline' = IF Effective(wifi') <=> Effective(wifi) THEN offline ELSE 0
  /\ recovered' = IF update.event = "WIFI_RESTORED" THEN 0 ELSE recovered
  /\ everOnline' = (everOnline \/ Effective(wifi'))
  /\ openOutages' = openOutages + (CASE update.event = "WIFI_TIMEOUT"  -> 1
                                     [] update.event = "WIFI_RESTORED" -> -1
                                     [] OTHER                          -> 0)

(* The last statement of publish_wifi_immediate_diagnostics_.               *)
PublishHealth ==
  /\ pc = "publish"
  /\ shown' = [shown EXCEPT !.healthy = WiFiHealthy(wifi)]
  /\ pc' = "idle"
  /\ UNCHANGED <<now, gap, wifi, lastEval, event, history>>

(* A mutant: the evaluation comes one unit late.                            *)
EvaluationLate == Elapsed(now, lastEval) > EvalInterval

EvaluationDue == Elapsed(now, lastEval) >= EvalInterval

Loop ==
  /\ pc = "idle"
  /\ IF EvaluationDue
     THEN /\ lastEval' = now
          /\ Apply(EvaluateWiFi(wifi, now))
     ELSE /\ event' = "NONE"
          /\ UNCHANGED <<wifi, lastEval, pc, shown, history>>
  /\ gap' = 0
  /\ UNCHANGED now

(* set_wifi_connected: the wifi component's on_connect and on_disconnect,   *)
(* which may repeat what the tracker already knows.                         *)
SetWiFiConnected ==
  /\ pc = "idle"
  /\ \E connected \in BOOLEAN : Apply(SetRealConnected(wifi, connected, now))
  /\ UNCHANGED <<now, gap, lastEval>>

SetWiFiTimeoutSimulation ==
  /\ pc = "idle"
  /\ Apply(SetTimeoutSimulation(wifi, ~wifi.simulation, now))
  /\ UNCHANGED <<now, gap, lastEval>>

Next == Tick \/ Loop \/ PublishHealth \/ SetWiFiConnected \/ SetWiFiTimeoutSimulation

Spec == Init /\ [][Next]_vars

(* Time passes, the main loop keeps running, a publication begun is         *)
(* finished; neither the network nor the user owes anything.                *)
FairSpec == Spec /\ WF_vars(Tick) /\ WF_vars(Loop) /\ WF_vars(PublishHealth)

-----------------------------------------------------------------------------
TypeOK ==
  /\ now \in Timestamps /\ lastEval \in Timestamps
  /\ gap \in 0 .. MaxGap
  /\ wifi \in WiFi
  /\ pc \in {"idle", "publish"}
  /\ shown \in [status : WiFiStates, healthy : BOOLEAN, outage : Timestamps]
  /\ event \in WiFiEvents
  /\ offline \in 0 .. Wrap /\ recovered \in 0 .. Wrap
  /\ everOnline \in BOOLEAN
  /\ openOutages \in Int

(* The tracker never contradicts itself, whatever the order of callbacks,   *)
(* switches and evaluations: a station is shown as connected or recovered   *)
(* exactly while it is effectively connected, and as timed out exactly      *)
(* while an outage is declared.  This is the Wi-Fi part of what the self-   *)
(* test calls INTERNAL_STATE.                                               *)
TrackerCoherent == Coherent(wifi)

(* No early alarm: WIFI_TIMEOUT only after the grace period without a first *)
(* connection, or after the outage threshold.                               *)
NoEarlyTimeout ==
  event = "WIFI_TIMEOUT" =>
    offline >= (IF wifi.once THEN OutageThreshold ELSE WiFiGrace)

(* Bounded detection, once the station was effectively connected; before, a *)
(* simulation may hide the first connection and the longer of the two       *)
(* limits applies.                                                          *)
FirstLimit == IF WiFiGrace > OutageThreshold THEN WiFiGrace ELSE OutageThreshold

DetectionBounded ==
  offline >= (IF everOnline THEN OutageThreshold ELSE FirstLimit) + EvalInterval + MaxGap - 1
    => wifi.declared

(* One warning per outage, one recovery per warning.                        *)
OutagesAlternate == openOutages = (IF wifi.declared THEN 1 ELSE 0)

(* The outage duration published with WIFI_RESTORED is the one of the       *)
(* outage just ended, true as long as it is shorter than a turn of the      *)
(* clock: it is at least the limit that was exceeded.                       *)
OutageMeasured ==
  [][ pc = "idle" /\ event' = "WIFI_RESTORED" /\ offline < Wrap
        => shown'.outage = offline ]_vars

(* RECOVERED is shown for its whole duration unless the connection is lost  *)
(* again.                                                                   *)
RecoveredHeld ==
  [][ shown.status = "RECOVERED" /\ shown'.status = "CONNECTED"
        => recovered >= RecoveredHold ]_vars

(* ... and not for long after it: the evaluation that finds it old enough   *)
(* replaces it, which is at most an interval and a gap later.               *)
RecoveredEnds ==
  shown.status = "RECOVERED" => recovered < RecoveredHold + EvalInterval + MaxGap

(* The health entity is published after the status it belongs to: a Home    *)
(* Assistant automation that reacts to it finds the matching status.        *)
HealthShownLast ==
  [][ shown'.healthy # shown.healthy =>
        IF shown'.healthy THEN shown.status \in {"CONNECTED", "RECOVERED"}
        ELSE shown.status = "WIFI_TIMEOUT" ]_vars

(* docs/diagnostics.md gives SEM WiFi Healthy as the firmware-declared      *)
(* health, on after the first connection.                                   *)
HealthShown == pc = "idle" => shown.healthy = WiFiHealthy(wifi)

(* The one way it can be wrong between two calls: it is still off although  *)
(* healthy() is true, because a simulation hid the first connection, and    *)
(* only until the first effective one.                                      *)
HealthShownOnceOnline ==
  pc = "idle" /\ shown.healthy # WiFiHealthy(wifi) =>
    ~shown.healthy /\ ~everOnline /\ shown.status \in {"STARTING", "WAITING_FOR_WIFI"}

(* A lasting connection is eventually shown as CONNECTED and healthy, also  *)
(* when it ends an outage.                                                  *)
LastingConnectionShown == <>[]Effective(wifi) => <>[](shown.status = "CONNECTED" /\ shown.healthy)

=============================================================================
