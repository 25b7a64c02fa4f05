------------------------------ MODULE WiFiTracker ------------------------------
(***************************************************************************)
(* SEMMeterWiFiHealthTracker (sem_meter_diagnostics.h) as operators on a    *)
(* tracker record, in the manner of module HealthTracker.                   *)
(***************************************************************************)
EXTENDS Millis

CONSTANTS
  WiFiGrace,         (* startup_grace_period_ms_                            *)
  OutageThreshold,   (* outage_threshold_ms_                                *)
  RecoveredHold      (* WIFI_RECOVERED_STATUS_DURATION_MS                   *)

ASSUME WiFiTimingAssumption ==
  WiFiGrace \in Nat \ {0} /\ OutageThreshold \in Nat \ {0} /\ RecoveredHold \in Nat

WiFiStates == {"STARTING", "WAITING_FOR_WIFI", "CONNECTED", "DISCONNECTED_PENDING",
               "WIFI_TIMEOUT", "RECOVERED"}

WiFiEvents == {"NONE", "WIFI_TIMEOUT", "WIFI_RESTORED"}

WiFi == [state       : WiFiStates,
         setupAt     : Timestamps,   \* setup_timestamp_ms_
         lostAt      : Timestamps,   \* disconnect_started_timestamp_ms_
         recoveredAt : Timestamps,   \* recovered_timestamp_ms_
         outage      : Timestamps,   \* last_completed_outage_duration_ms_
         connected   : BOOLEAN,      \* real_connected_
         simulation  : BOOLEAN,      \* timeout_simulation_enabled_
         once        : BOOLEAN,      \* has_connected_once_
         declared    : BOOLEAN,      \* outage_declared_
         hadOutage   : BOOLEAN]      \* has_completed_outage_

(* The tracker after setup_completed(now), which transitions nothing.       *)
StartedWiFi(now) ==
  [state |-> "STARTING", setupAt |-> now, lostAt |-> now, recoveredAt |-> 0, outage |-> 0,
   connected |-> FALSE, simulation |-> FALSE, once |-> FALSE, declared |-> FALSE,
   hadOutage |-> FALSE]

WiFiUpdate(w, e) == [tracker |-> w, event |-> e]

(* A mutant: the simulation is ignored.                                     *)
EffectiveReal(w) == w.connected

(* effective_connected_(): what the watchdog is told of the connection.     *)
Effective(w) == w.connected /\ ~w.simulation

(* Mutants: the timer of the last outage goes on; the outage is measured    *)
(* from setup; the time of the recovery is not kept.                        *)
DisconnectionKeepsTimer(w, now) ==
  WiFiUpdate([w EXCEPT !.declared = FALSE, !.state = "DISCONNECTED_PENDING"], "NONE")

ConnectionSinceSetup(w, now) ==
  IF w.declared
  THEN WiFiUpdate([w EXCEPT !.outage = Elapsed(now, w.setupAt), !.hadOutage = TRUE,
                            !.declared = FALSE, !.recoveredAt = now, !.state = "RECOVERED"],
                  "WIFI_RESTORED")
  ELSE WiFiUpdate([w EXCEPT !.state = "CONNECTED"], "NONE")

ConnectionUntimed(w, now) ==
  IF w.declared
  THEN WiFiUpdate([w EXCEPT !.outage = Elapsed(now, w.lostAt), !.hadOutage = TRUE,
                            !.declared = FALSE, !.state = "RECOVERED"], "WIFI_RESTORED")
  ELSE WiFiUpdate([w EXCEPT !.state = "CONNECTED"], "NONE")

EffectiveDisconnection(w, now) ==
  WiFiUpdate([w EXCEPT !.lostAt = now, !.declared = FALSE, !.state = "DISCONNECTED_PENDING"],
             "NONE")

EffectiveConnection(w, now) ==
  IF w.declared
  THEN WiFiUpdate([w EXCEPT !.outage = Elapsed(now, w.lostAt), !.hadOutage = TRUE,
                            !.declared = FALSE, !.recoveredAt = now, !.state = "RECOVERED"],
                  "WIFI_RESTORED")
  ELSE WiFiUpdate([w EXCEPT !.state = "CONNECTED"], "NONE")

(* Both inputs reach the state machine through the effective connection.    *)
InputChanged(old, new, now) ==
  IF Effective(old) <=> Effective(new) THEN WiFiUpdate(new, "NONE")
  ELSE IF Effective(new) THEN EffectiveConnection(new, now)
       ELSE EffectiveDisconnection(new, now)

SetRealConnected(w, connected, now) ==
  InputChanged(w, [w EXCEPT !.connected = connected, !.once = @ \/ connected], now)

SetTimeoutSimulation(w, enabled, now) ==
  InputChanged(w, [w EXCEPT !.simulation = enabled], now)

(* Mutants: RECOVERED is held for ever; an outage is declared again and     *)
(* again.                                                                   *)
HeldForever(w, now) == WiFiUpdate(w, "NONE")

(* The first connection is waited for during the grace period, a lost one   *)
(* for the outage threshold.                                                *)
StillTolerated(w, now) ==
  IF w.once THEN Elapsed(now, w.lostAt) < OutageThreshold
  ELSE Elapsed(now, w.setupAt) < WiFiGrace

EvaluateConnected(w, now) ==
  IF w.state = "RECOVERED" /\ Elapsed(now, w.recoveredAt) >= RecoveredHold
  THEN WiFiUpdate([w EXCEPT !.state = "CONNECTED"], "NONE")
  ELSE WiFiUpdate(w, "NONE")

DeclaredAgain(w, now) ==
  IF StillTolerated(w, now)
  THEN IF ~w.once /\ w.state = "STARTING"
       THEN WiFiUpdate([w EXCEPT !.state = "WAITING_FOR_WIFI"], "NONE")
       ELSE WiFiUpdate(w, "NONE")
  ELSE WiFiUpdate([w EXCEPT !.declared = TRUE, !.state = "WIFI_TIMEOUT"], "WIFI_TIMEOUT")

EvaluateDisconnected(w, now) ==
  IF w.declared THEN WiFiUpdate(w, "NONE")
  ELSE IF StillTolerated(w, now)
       THEN IF ~w.once /\ w.state = "STARTING"
            THEN WiFiUpdate([w EXCEPT !.state = "WAITING_FOR_WIFI"], "NONE")
            ELSE WiFiUpdate(w, "NONE")
       ELSE WiFiUpdate([w EXCEPT !.declared = TRUE, !.state = "WIFI_TIMEOUT"], "WIFI_TIMEOUT")

EvaluateWiFi(w, now) ==
  IF Effective(w) THEN EvaluateConnected(w, now) ELSE EvaluateDisconnected(w, now)

(* A mutant: health follows the connection.                                 *)
HealthyWhileConnected(w) == w.once /\ w.connected

WiFiHealthy(w) == w.once /\ ~w.declared

(* What module WiFiWatchdog shows of every tracker the component can have:  *)
(* the state names a connection exactly when there is an effective one, a   *)
(* declared outage is WIFI_TIMEOUT, and a connection is remembered.         *)
Coherent(w) ==
  /\ w.state \in {"CONNECTED", "RECOVERED"} <=> w.connected /\ ~w.simulation
  /\ w.state = "WIFI_TIMEOUT" <=> w.declared
  /\ w.connected => w.once
=============================================================================
