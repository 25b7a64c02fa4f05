-------------------------- MODULE WiFiWatchdogProofs --------------------------
(***************************************************************************)
(* The safety properties of WiFiWatchdog hold for every clock width, grace *)
(* period, threshold, hold, evaluation interval and gap that satisfy       *)
(* WiFiLoopAssumption, in particular those of the firmware.                *)
(***************************************************************************)
EXTENDS WiFiWatchdog, MillisProofs

-----------------------------------------------------------------------------
(* What a callback, a switch or an evaluation can do.                      *)

(* The tracker changes to these values; setupAt stays and once only grows. *)
Moved(state, declared, lostAt, recoveredAt, outage) ==
  /\ wifi' \in WiFi
  /\ wifi'.state = state /\ (wifi'.declared <=> declared)
  /\ wifi'.lostAt = lostAt /\ wifi'.recoveredAt = recoveredAt /\ wifi'.outage = outage
  /\ wifi'.setupAt = wifi.setupAt
  /\ (wifi.once => wifi'.once) /\ (wifi'.connected => wifi'.once)

To(state, declared) == Moved(state, declared, wifi.lostAt, wifi.recoveredAt, wifi.outage)

Inputs == wifi'.connected = wifi.connected /\ wifi'.simulation = wifi.simulation
          /\ wifi'.once = wifi.once

Published(outage) ==
  /\ pc' = "publish"
  /\ shown' = [shown EXCEPT !.status = wifi'.state, !.outage = outage]

Known(online) == everOnline' \in BOOLEAN /\ (everOnline' <=> online)

(* Nothing the watchdog reacts to.                                         *)
SilentStep ==
  /\ To(wifi.state, wifi.declared)
  /\ Effective(wifi') <=> Effective(wifi)
  /\ event' = "NONE"
  /\ Known(everOnline)
  /\ UNCHANGED <<pc, shown, offline, recovered, openOutages>>

(* A connection that ends an outage.                                       *)
RestoreStep ==
  /\ wifi.declared /\ ~Effective(wifi) /\ Effective(wifi')
  /\ Moved("RECOVERED", FALSE, wifi.lostAt, now, Elapsed(now, wifi.lostAt))
  /\ event' = "WIFI_RESTORED"
  /\ Published(Elapsed(now, wifi.lostAt))
  /\ offline' = 0 /\ recovered' = 0 /\ Known(TRUE) /\ openOutages' = openOutages - 1

(* Any other connection.                                                   *)
ConnectStep ==
  /\ ~wifi.declared /\ ~Effective(wifi) /\ Effective(wifi')
  /\ To("CONNECTED", FALSE)
  /\ event' = "NONE"
  /\ Published(shown.outage)
  /\ offline' = 0 /\ Known(TRUE) /\ UNCHANGED <<recovered, openOutages>>

LoseStep ==
  /\ Effective(wifi) /\ ~Effective(wifi')
  /\ Moved("DISCONNECTED_PENDING", FALSE, now, wifi.recoveredAt, wifi.outage)
  /\ event' = "NONE"
  /\ Published(shown.outage)
  /\ offline' = 0 /\ Known(everOnline) /\ UNCHANGED <<recovered, openOutages>>

(* RECOVERED has been shown long enough.                                   *)
SettleStep ==
  /\ Effective(wifi) /\ Inputs
  /\ wifi.state = "RECOVERED" /\ Elapsed(now, wifi.recoveredAt) >= RecoveredHold
  /\ To("CONNECTED", wifi.declared)
  /\ event' = "NONE"
  /\ Published(shown.outage)
  /\ Known(everOnline) /\ UNCHANGED <<offline, recovered, openOutages>>

WaitStep ==
  /\ ~Effective(wifi) /\ Inputs
  /\ wifi.state = "STARTING" /\ ~wifi.once /\ ~wifi.declared
  /\ To("WAITING_FOR_WIFI", FALSE)
  /\ event' = "NONE"
  /\ Published(shown.outage)
  /\ Known(everOnline) /\ UNCHANGED <<offline, recovered, openOutages>>

DeclareStep ==
  /\ ~Effective(wifi) /\ Inputs
  /\ ~wifi.declared /\ ~StillTolerated(wifi, now)
  /\ To("WIFI_TIMEOUT", TRUE)
  /\ event' = "WIFI_TIMEOUT"
  /\ Published(shown.outage)
  /\ openOutages' = openOutages + 1 /\ Known(everOnline) /\ UNCHANGED <<offline, recovered>>

InputStep == SilentStep \/ RestoreStep \/ ConnectStep \/ LoseStep

EvaluationStep == (SilentStep /\ Inputs) \/ SettleStep \/ WaitStep \/ DeclareStep

-----------------------------------------------------------------------------
(* The inductive invariant.                                                *)

(* What is shown is what the tracker says, ...                             *)
ShownInv == shown.status = wifi.state

(* ... and the health entity follows when the publication ends.            *)
HealthInv ==
  /\ wifi.state \in {"CONNECTED", "RECOVERED", "DISCONNECTED_PENDING"} => wifi.once
  /\ wifi.state = "DISCONNECTED_PENDING" => shown.healthy
  /\ wifi.state \in {"STARTING", "WAITING_FOR_WIFI"} => ~shown.healthy
  /\ pc = "publish" /\ wifi.state \in {"STARTING", "WAITING_FOR_WIFI"} => ~wifi.once
  /\ pc = "idle" /\ wifi.state \in {"CONNECTED", "RECOVERED"} => shown.healthy
  /\ pc = "idle" /\ wifi.state = "WIFI_TIMEOUT" => ~shown.healthy

OnlineInv ==
  /\ Effective(wifi) => offline = 0 /\ everOnline
  /\ everOnline => wifi.once
  /\ ~everOnline => wifi.lostAt = wifi.setupAt

(* Each timestamp against the true time since it was taken.                *)
OfflineInv == ~Effective(wifi) /\ offline < Wrap => Elapsed(now, wifi.lostAt) = offline

RecoveredInv ==
  wifi.state = "RECOVERED" /\ recovered < Wrap => Elapsed(now, wifi.recoveredAt) = recovered

(* The last evaluation is not long ago, ...                                *)
EvaluationInv == Elapsed(now, lastEval) <= EvalInterval - 1 + gap

(* ... and has found the connection lost for less than the limit.          *)
Patience == IF everOnline THEN OutageThreshold ELSE FirstLimit

DeadlineInv ==
  ~Effective(wifi) /\ ~wifi.declared => offline < Patience + Elapsed(now, lastEval)

IInv ==
  /\ TypeOK /\ TrackerCoherent /\ OutagesAlternate /\ NoEarlyTimeout
  /\ ShownInv /\ HealthInv /\ OnlineInv /\ OfflineInv /\ RecoveredInv
  /\ EvaluationInv /\ DeadlineInv

(* The limits are positive and reached before the clock turns.              *)
LEMMA LimitFacts ==
  /\ OutageThreshold \in Nat \ {0} /\ WiFiGrace \in Nat \ {0} /\ RecoveredHold \in Nat
  /\ EvalInterval \in Nat \ {0} /\ MaxGap \in Nat \ {0} /\ Wrap \in Nat \ {0}
  /\ FirstLimit \in Nat \ {0} /\ Patience \in Nat \ {0}
  /\ OutageThreshold <= FirstLimit /\ WiFiGrace <= FirstLimit /\ Patience <= FirstLimit
  /\ FirstLimit + EvalInterval + MaxGap < Wrap
  /\ OutageThreshold + EvalInterval + MaxGap < Wrap
  /\ WiFiGrace + EvalInterval + MaxGap < Wrap
  /\ RecoveredHold + EvalInterval + MaxGap < Wrap
<1>1. /\ OutageThreshold \in Nat \ {0} /\ WiFiGrace \in Nat \ {0} /\ RecoveredHold \in Nat
      /\ EvalInterval \in Nat \ {0} /\ MaxGap \in Nat \ {0} /\ Wrap \in Nat \ {0}
      /\ OutageThreshold + EvalInterval + MaxGap < Wrap
      /\ WiFiGrace + EvalInterval + MaxGap < Wrap
      /\ RecoveredHold + EvalInterval + MaxGap < Wrap
  BY WiFiLoopAssumption, WiFiTimingAssumption, WrapAssumption
<1>2. /\ FirstLimit \in Nat \ {0} /\ FirstLimit + EvalInterval + MaxGap < Wrap
      /\ OutageThreshold <= FirstLimit /\ WiFiGrace <= FirstLimit
  BY <1>1 DEF FirstLimit
<1>3. Patience \in Nat \ {0} /\ Patience <= FirstLimit
  <2>1. CASE everOnline
    BY <1>1, <1>2, <2>1 DEF Patience
  <2>2. CASE ~everOnline
    BY <1>1, <1>2, <2>2 DEF Patience
  <2>3. QED
    BY <2>1, <2>2
<1>4. QED
  BY <1>1, <1>2, <1>3

-----------------------------------------------------------------------------
(* setup() establishes the invariant.                                      *)
LEMMA InitInvariant == Init => IInv
<1> SUFFICES ASSUME Init PROVE IInv
  OBVIOUS
<1>1. /\ now \in Timestamps /\ lastEval = now /\ gap = 0 /\ pc = "idle" /\ event = "NONE"
      /\ offline = 0 /\ recovered = Wrap /\ everOnline = FALSE /\ openOutages = 0
      /\ shown = [status |-> "STARTING", healthy |-> FALSE, outage |-> 0]
  BY WiFiLoopAssumption DEF Init
<1>2. wifi = [state |-> "STARTING", setupAt |-> now, lostAt |-> now, recoveredAt |-> 0,
              outage |-> 0, connected |-> FALSE, simulation |-> FALSE, once |-> FALSE,
              declared |-> FALSE, hadOutage |-> FALSE]
  BY DEF Init, StartedWiFi
<1>3. /\ wifi.state = "STARTING" /\ ~wifi.connected /\ ~wifi.simulation
      /\ ~wifi.once /\ ~wifi.declared
      /\ wifi.lostAt = now /\ wifi.setupAt = now /\ ~shown.healthy /\ shown.status = "STARTING"
  BY <1>1, <1>2
<1>4. ~Effective(wifi)
  BY <1>3 DEF Effective
<1>5. TypeOK
  <2>1. 0 \in Timestamps /\ 0 \in 0 .. MaxGap /\ 0 \in 0 .. Wrap /\ Wrap \in 0 .. Wrap
    BY LimitFacts DEF Timestamps
  <2>2. wifi \in WiFi
    BY <1>1, <1>2, <2>1, Zenon DEF WiFi, WiFiStates
  <2>3. shown \in [status : WiFiStates, healthy : BOOLEAN, outage : Timestamps]
    <3>1. "STARTING" \in WiFiStates /\ FALSE \in BOOLEAN
      BY DEF WiFiStates
    <3>2. QED
      BY <1>1, <2>1, <3>1
  <2>4. event \in WiFiEvents
    BY <1>1 DEF WiFiEvents
  <2>5. pc \in {"idle", "publish"} /\ openOutages \in Int
    BY <1>1
  <2>6. QED
    BY <1>1, <2>1, <2>2, <2>3, <2>4, <2>5, Zenon DEF TypeOK
<1>6. TrackerCoherent /\ OutagesAlternate /\ NoEarlyTimeout
  BY <1>1, <1>3, <1>4 DEF TrackerCoherent, Coherent, Effective,
     OutagesAlternate, NoEarlyTimeout
<1>7. ShownInv /\ HealthInv /\ OnlineInv /\ RecoveredInv
  <2>1. ~everOnline
    BY <1>1
  <2>2. QED
    BY <1>1, <1>3, <1>4, <2>1 DEF ShownInv, HealthInv, OnlineInv, RecoveredInv
<1>8. Elapsed(now, now) = 0
  BY <1>1, ElapsedZero
<1>9. OfflineInv /\ EvaluationInv /\ DeadlineInv
  BY <1>1, <1>3, <1>8, LimitFacts DEF OfflineInv, EvaluationInv, DeadlineInv
<1>10. QED
  BY <1>5, <1>6, <1>7, <1>9 DEF IInv

-----------------------------------------------------------------------------
(* The effects of the actions.                                             *)

(* Publication or not, an update changes the tracker, the event and the    *)
(* history in one way.                                                     *)
LEMMA ApplyEffect ==
  ASSUME IInv, NEW t, NEW e, Apply(WiFiUpdate(t, e)), t \in WiFi
  PROVE  /\ wifi' = t /\ event' = e
         /\ t.state = wifi.state /\ e = "NONE" => UNCHANGED <<pc, shown>>
         /\ t.state # wifi.state /\ e # "WIFI_RESTORED" => Published(shown.outage)
         /\ e = "WIFI_RESTORED" => Published(t.outage)
         /\ (Effective(t) <=> Effective(wifi)) => offline' = offline
         /\ (Effective(t) <=> ~Effective(wifi)) => offline' = 0
         /\ recovered' = IF e = "WIFI_RESTORED" THEN 0 ELSE recovered
         /\ Known(everOnline \/ Effective(t))
         /\ e = "NONE" => openOutages' = openOutages
         /\ e = "WIFI_TIMEOUT" => openOutages' = openOutages + 1
         /\ e = "WIFI_RESTORED" => openOutages' = openOutages - 1
<1>1. WiFiUpdate(t, e).tracker = t /\ WiFiUpdate(t, e).event = e
  BY DEF WiFiUpdate
<1>2. openOutages \in Int
  BY DEF IInv, TypeOK
<1>3. wifi' = t /\ event' = e
  BY <1>1 DEF Apply
<1>4. /\ t.state = wifi.state /\ e = "NONE" => UNCHANGED <<pc, shown>>
      /\ t.state # wifi.state /\ e # "WIFI_RESTORED" => Published(shown.outage)
      /\ e = "WIFI_RESTORED" => Published(t.outage)
  BY <1>1, <1>3 DEF Apply, Published
<1>5. /\ (Effective(t) <=> Effective(wifi)) => offline' = offline
      /\ (Effective(t) <=> ~Effective(wifi)) => offline' = 0
      /\ recovered' = IF e = "WIFI_RESTORED" THEN 0 ELSE recovered
      /\ Known(everOnline \/ Effective(t))
  BY <1>1, <1>3 DEF Apply, Known
<1>6. openOutages' = openOutages + (CASE e = "WIFI_TIMEOUT"  -> 1
                                      [] e = "WIFI_RESTORED" -> -1
                                      [] OTHER               -> 0)
  BY <1>1 DEF Apply
<1>7. /\ e = "NONE" => openOutages' = openOutages
      /\ e = "WIFI_TIMEOUT" => openOutages' = openOutages + 1
      /\ e = "WIFI_RESTORED" => openOutages' = openOutages - 1
  BY <1>2, <1>6
<1>8. QED
  BY <1>3, <1>4, <1>5, <1>7

(* A callback or a switch.                                                 *)
LEMMA InputEffect ==
  ASSUME IInv, NEW new \in WiFi, Apply(InputChanged(wifi, new, now)),
         new.state = wifi.state, new.declared = wifi.declared, new.setupAt = wifi.setupAt,
         new.lostAt = wifi.lostAt, new.recoveredAt = wifi.recoveredAt, new.outage = wifi.outage,
         wifi.once => new.once, new.connected => new.once
  PROVE  InputStep
<1>1. /\ now \in Timestamps /\ wifi \in WiFi /\ everOnline \in BOOLEAN
      /\ shown \in [status : WiFiStates, healthy : BOOLEAN, outage : Timestamps]
      /\ wifi.state \in {"CONNECTED", "RECOVERED"} <=> Effective(wifi)
      /\ Effective(wifi) => everOnline
  BY DEF IInv, TypeOK, TrackerCoherent, Coherent, OnlineInv, Effective
<1>3. CASE Effective(wifi) <=> Effective(new)
  <2>1. Apply(WiFiUpdate(new, "NONE"))
    BY <1>3 DEF InputChanged
  <2>2. /\ wifi' = new /\ event' = "NONE" /\ UNCHANGED <<pc, shown>>
        /\ offline' = offline /\ recovered' = recovered /\ openOutages' = openOutages
        /\ Known(everOnline \/ Effective(new))
    BY <1>3, <2>1, ApplyEffect
  <2>3. Known(everOnline)
    BY <1>1, <1>3, <2>2 DEF Known
  <2>4. SilentStep
    BY <1>3, <2>2, <2>3 DEF SilentStep, To, Moved, Known
  <2>5. QED
    BY <2>4 DEF InputStep
<1>4. CASE ~Effective(wifi) /\ Effective(new)
  <2>1. Apply(EffectiveConnection(new, now))
    BY <1>4 DEF InputChanged
  <2>2. CASE wifi.declared
    <3> DEFINE t == [new EXCEPT !.outage = Elapsed(now, new.lostAt), !.hadOutage = TRUE,
                                !.declared = FALSE, !.recoveredAt = now, !.state = "RECOVERED"]
    <3>1. Apply(WiFiUpdate(t, "WIFI_RESTORED"))
      BY <2>1, <2>2 DEF EffectiveConnection
    <3>2. Elapsed(now, new.lostAt) \in Timestamps
      BY <1>1, ElapsedType DEF WiFi
    <3>3. /\ t \in WiFi /\ Effective(t)
          /\ t.state = "RECOVERED" /\ ~t.declared /\ t.recoveredAt = now
          /\ t.lostAt = wifi.lostAt /\ t.setupAt = wifi.setupAt
          /\ t.outage = Elapsed(now, wifi.lostAt)
          /\ t.once = new.once /\ t.connected = new.connected
      BY <1>1, <1>4, <3>2 DEF WiFi, WiFiStates, Effective
    <3> HIDE DEF t
    <3>4. /\ wifi' = t /\ event' = "WIFI_RESTORED" /\ Published(t.outage)
          /\ offline' = 0 /\ recovered' = 0 /\ openOutages' = openOutages - 1
          /\ Known(TRUE)
      BY <1>4, <3>1, <3>3, ApplyEffect DEF Known
    <3>5. RestoreStep
      BY <1>4, <2>2, <3>3, <3>4 DEF RestoreStep, Moved, Known
    <3>6. QED
      BY <3>5 DEF InputStep
  <2>3. CASE ~wifi.declared
    <3> DEFINE t == [new EXCEPT !.state = "CONNECTED"]
    <3>1. Apply(WiFiUpdate(t, "NONE"))
      BY <2>1, <2>3 DEF EffectiveConnection
    <3>2. /\ t \in WiFi /\ Effective(t)
          /\ t.state = "CONNECTED" /\ ~t.declared /\ t.recoveredAt = wifi.recoveredAt
          /\ t.lostAt = wifi.lostAt /\ t.setupAt = wifi.setupAt /\ t.outage = wifi.outage
          /\ t.once = new.once /\ t.connected = new.connected
      BY <1>4, <2>3 DEF WiFi, WiFiStates, Effective
    <3> HIDE DEF t
    <3>3. t.state # wifi.state
      BY <1>1, <1>4, <3>2
    <3>4. /\ wifi' = t /\ event' = "NONE" /\ Published(shown.outage)
          /\ offline' = 0 /\ recovered' = recovered /\ openOutages' = openOutages
          /\ Known(TRUE)
      BY <1>4, <3>1, <3>2, <3>3, ApplyEffect DEF Known
    <3>5. ConnectStep
      BY <1>4, <2>3, <3>2, <3>4 DEF ConnectStep, To, Moved, Known
    <3>6. QED
      BY <3>5 DEF InputStep
  <2>4. QED
    BY <2>2, <2>3
<1>5. CASE Effective(wifi) /\ ~Effective(new)
  <2> DEFINE t == [new EXCEPT !.lostAt = now, !.declared = FALSE,
                              !.state = "DISCONNECTED_PENDING"]
  <2>1. Apply(WiFiUpdate(t, "NONE"))
    BY <1>5 DEF InputChanged, EffectiveDisconnection
  <2>2. /\ t \in WiFi /\ ~Effective(t)
        /\ t.state = "DISCONNECTED_PENDING" /\ ~t.declared
        /\ t.recoveredAt = wifi.recoveredAt
        /\ t.lostAt = now /\ t.setupAt = wifi.setupAt /\ t.outage = wifi.outage
        /\ t.once = new.once /\ t.connected = new.connected
    BY <1>1, <1>5 DEF WiFi, WiFiStates, Effective
  <2> HIDE DEF t
  <2>3. t.state # wifi.state
    BY <1>1, <1>5, <2>2
  <2>4. /\ wifi' = t /\ event' = "NONE" /\ Published(shown.outage)
        /\ offline' = 0 /\ recovered' = recovered /\ openOutages' = openOutages
        /\ Known(everOnline \/ Effective(t))
    BY <1>5, <2>1, <2>2, <2>3, ApplyEffect
  <2>5. Known(everOnline)
    BY <1>1, <2>2, <2>4 DEF Known
  <2>6. LoseStep
    BY <1>5, <2>2, <2>4, <2>5 DEF LoseStep, Moved, Known
  <2>7. QED
    BY <2>6 DEF InputStep
<1>6. QED
  BY <1>3, <1>4, <1>5

(* An update that changes nothing.                                         *)
LEMMA NothingEffect ==
  ASSUME IInv, Apply(WiFiUpdate(wifi, "NONE"))
  PROVE  SilentStep /\ Inputs
<1>1. /\ wifi \in WiFi
      /\ wifi.connected => wifi.once
      /\ Effective(wifi) => everOnline
  BY DEF IInv, TypeOK, TrackerCoherent, Coherent, OnlineInv
<1>2. /\ wifi' = wifi /\ event' = "NONE" /\ UNCHANGED <<pc, shown>>
      /\ offline' = offline /\ recovered' = recovered /\ openOutages' = openOutages
      /\ Known(everOnline \/ Effective(wifi))
  BY <1>1, ApplyEffect
<1>3. Known(everOnline)
  BY <1>1, <1>2 DEF Known
<1>4. QED
  BY <1>1, <1>2, <1>3 DEF SilentStep, To, Moved, Inputs

(* An update that changes the state, and perhaps declares an outage, while *)
(* the connection stays.                                                   *)
LEMMA StateEffect ==
  ASSUME IInv, NEW state \in WiFiStates, NEW declared \in BOOLEAN,
         NEW e \in {"NONE", "WIFI_TIMEOUT"},
         state # wifi.state,
         NEW t \in WiFi, t = [wifi EXCEPT !.state = state, !.declared = declared],
         Apply(WiFiUpdate(t, e))
  PROVE  /\ To(state, declared) /\ Inputs /\ event' = e
         /\ Published(shown.outage)
         /\ Known(everOnline) /\ UNCHANGED <<offline, recovered>>
         /\ e = "NONE" => openOutages' = openOutages
         /\ e = "WIFI_TIMEOUT" => openOutages' = openOutages + 1
<1>1. /\ wifi \in WiFi
      /\ wifi.connected => wifi.once
      /\ Effective(wifi) => everOnline
  BY DEF IInv, TypeOK, TrackerCoherent, Coherent, OnlineInv
<1>2. /\ t.state = state /\ (t.declared <=> declared)
      /\ t.lostAt = wifi.lostAt /\ t.setupAt = wifi.setupAt
      /\ t.recoveredAt = wifi.recoveredAt /\ t.outage = wifi.outage
      /\ t.connected = wifi.connected /\ t.simulation = wifi.simulation /\ t.once = wifi.once
  BY <1>1 DEF WiFi
<1>3. Effective(t) <=> Effective(wifi)
  BY <1>2 DEF Effective
<1>4. e # "WIFI_RESTORED"
  OBVIOUS
<1>5. /\ wifi' = t /\ event' = e /\ Published(shown.outage)
      /\ offline' = offline /\ recovered' = recovered
      /\ Known(everOnline \/ Effective(t))
      /\ e = "NONE" => openOutages' = openOutages
      /\ e = "WIFI_TIMEOUT" => openOutages' = openOutages + 1
  BY <1>2, <1>3, <1>4, ApplyEffect
<1>6. Known(everOnline)
  BY <1>1, <1>3, <1>5 DEF Known
<1>7. To(state, declared) /\ Inputs
  BY <1>1, <1>2, <1>5 DEF To, Moved, Inputs
<1>8. QED
  BY <1>5, <1>6, <1>7

(* The evaluation, when it is due.                                         *)
LEMMA EvaluationEffect ==
  ASSUME IInv, Apply(EvaluateWiFi(wifi, now))
  PROVE  /\ EvaluationStep
         /\ ~Effective(wifi') /\ ~wifi'.declared => StillTolerated(wifi, now)
<1>1. /\ wifi \in WiFi
      /\ wifi.state \in {"CONNECTED", "RECOVERED"} <=> Effective(wifi)
      /\ wifi.state = "WIFI_TIMEOUT" <=> wifi.declared
  BY DEF IInv, TypeOK, TrackerCoherent, Coherent, Effective
<1>2. CASE Effective(wifi)
  <2>1. CASE wifi.state = "RECOVERED" /\ Elapsed(now, wifi.recoveredAt) >= RecoveredHold
    <3> DEFINE t == [wifi EXCEPT !.state = "CONNECTED"]
    <3>1. Apply(WiFiUpdate(t, "NONE"))
      BY <1>2, <2>1 DEF EvaluateWiFi, EvaluateConnected
    <3>2. /\ "CONNECTED" \in WiFiStates /\ "CONNECTED" # wifi.state
          /\ t \in WiFi /\ wifi.declared \in BOOLEAN
      BY <1>1, <2>1 DEF WiFi, WiFiStates
    <3>3. t = [wifi EXCEPT !.state = "CONNECTED", !.declared = wifi.declared]
      BY <1>1 DEF WiFi
    <3> HIDE DEF t
    <3>4. /\ To("CONNECTED", wifi.declared) /\ Inputs /\ event' = "NONE"
          /\ Published(shown.outage)
          /\ Known(everOnline) /\ UNCHANGED <<offline, recovered, openOutages>>
      BY <3>1, <3>2, <3>3, StateEffect
    <3>5. SettleStep
      BY <1>2, <2>1, <3>4 DEF SettleStep
    <3>6. Effective(wifi')
      BY <1>2, <3>4 DEF Inputs, Effective
    <3>7. QED
      BY <3>5, <3>6 DEF EvaluationStep
  <2>2. CASE ~(wifi.state = "RECOVERED" /\ Elapsed(now, wifi.recoveredAt) >= RecoveredHold)
    <3>1. Apply(WiFiUpdate(wifi, "NONE"))
      BY <1>2, <2>2 DEF EvaluateWiFi, EvaluateConnected
    <3>2. SilentStep /\ Inputs
      BY <3>1, NothingEffect
    <3>3. QED
      BY <1>2, <3>2 DEF EvaluationStep, Inputs, Effective
  <2>3. QED
    BY <2>1, <2>2
<1>3. CASE ~Effective(wifi)
  <2>1. Apply(EvaluateDisconnected(wifi, now))
    BY <1>3 DEF EvaluateWiFi
  <2>2. CASE wifi.declared
    <3>1. Apply(WiFiUpdate(wifi, "NONE"))
      BY <2>1, <2>2 DEF EvaluateDisconnected
    <3>2. SilentStep /\ Inputs
      BY <3>1, NothingEffect
    <3>3. QED
      BY <2>2, <3>2 DEF EvaluationStep, SilentStep, To, Moved
  <2>3. CASE ~wifi.declared /\ StillTolerated(wifi, now)
    <3>1. CASE ~wifi.once /\ wifi.state = "STARTING"
      <4> DEFINE t == [wifi EXCEPT !.state = "WAITING_FOR_WIFI"]
      <4>1. Apply(WiFiUpdate(t, "NONE"))
        BY <2>1, <2>3, <3>1 DEF EvaluateDisconnected
      <4>2. /\ "WAITING_FOR_WIFI" \in WiFiStates /\ "WAITING_FOR_WIFI" # wifi.state
            /\ t \in WiFi
        BY <1>1, <3>1 DEF WiFi, WiFiStates
      <4>3. t = [wifi EXCEPT !.state = "WAITING_FOR_WIFI", !.declared = FALSE]
        BY <1>1, <2>3 DEF WiFi
      <4> HIDE DEF t
      <4>4. /\ To("WAITING_FOR_WIFI", FALSE) /\ Inputs /\ event' = "NONE"
            /\ Published(shown.outage)
            /\ Known(everOnline) /\ UNCHANGED <<offline, recovered, openOutages>>
        BY <4>1, <4>2, <4>3, StateEffect
      <4>5. WaitStep
        BY <1>3, <2>3, <3>1, <4>4 DEF WaitStep
      <4>6. QED
        BY <2>3, <4>5 DEF EvaluationStep
    <3>2. CASE ~(~wifi.once /\ wifi.state = "STARTING")
      <4>1. Apply(WiFiUpdate(wifi, "NONE"))
        BY <2>1, <2>3, <3>2 DEF EvaluateDisconnected
      <4>2. SilentStep /\ Inputs
        BY <4>1, NothingEffect
      <4>3. QED
        BY <2>3, <4>2 DEF EvaluationStep
    <3>3. QED
      BY <3>1, <3>2
  <2>4. CASE ~wifi.declared /\ ~StillTolerated(wifi, now)
    <3> DEFINE t == [wifi EXCEPT !.declared = TRUE, !.state = "WIFI_TIMEOUT"]
    <3>1. Apply(WiFiUpdate(t, "WIFI_TIMEOUT"))
      BY <2>1, <2>4 DEF EvaluateDisconnected
    <3>2. /\ "WIFI_TIMEOUT" \in WiFiStates /\ "WIFI_TIMEOUT" # wifi.state
          /\ t \in WiFi
      BY <1>1, <2>4 DEF WiFi, WiFiStates
    <3>3. t = [wifi EXCEPT !.state = "WIFI_TIMEOUT", !.declared = TRUE]
      BY <1>1 DEF WiFi
    <3> HIDE DEF t
    <3>4. /\ To("WIFI_TIMEOUT", TRUE) /\ Inputs /\ event' = "WIFI_TIMEOUT"
          /\ Published(shown.outage)
          /\ Known(everOnline) /\ UNCHANGED <<offline, recovered>>
          /\ openOutages' = openOutages + 1
      BY <3>1, <3>2, <3>3, StateEffect
    <3>5. DeclareStep
      BY <1>3, <2>4, <3>4 DEF DeclareStep
    <3>6. wifi'.declared
      BY <3>4 DEF To, Moved
    <3>7. QED
      BY <3>5, <3>6 DEF EvaluationStep
  <2>5. QED
    BY <2>2, <2>3, <2>4
<1>4. QED
  BY <1>2, <1>3

-----------------------------------------------------------------------------
(* Every update of the tracker preserves the invariant, but for the two    *)
(* parts that are about the time of the evaluation.                        *)

Update == SilentStep \/ RestoreStep \/ ConnectStep \/ LoseStep \/ SettleStep \/ WaitStep
          \/ DeclareStep

(* Every update of the tracker keeps the types.                             *)
LEMMA UpdateTypes ==
  ASSUME IInv, Update, pc = "idle",
         now' = now, gap' \in 0 .. MaxGap, lastEval' \in Timestamps
  PROVE  TypeOK'
<1>1. /\ now \in Timestamps /\ wifi \in WiFi /\ openOutages \in Int
      /\ offline \in 0 .. Wrap /\ recovered \in 0 .. Wrap
      /\ shown \in [status : WiFiStates, healthy : BOOLEAN, outage : Timestamps]
  BY DEF IInv, TypeOK
<1>2. Elapsed(now, wifi.lostAt) \in Timestamps /\ shown.outage \in Timestamps
  BY <1>1, ElapsedType DEF WiFi
<1>3. wifi' \in WiFi
  BY DEF Update, SilentStep, RestoreStep, ConnectStep, LoseStep, SettleStep, WaitStep,
     DeclareStep, To, Moved
<1>4. /\ pc' \in {"idle", "publish"}
      /\ shown' \in [status : WiFiStates, healthy : BOOLEAN, outage : Timestamps]
  <2>1. ASSUME NEW outage \in Timestamps, Published(outage)
        PROVE  /\ pc' \in {"idle", "publish"}
               /\ shown' \in [status : WiFiStates, healthy : BOOLEAN, outage : Timestamps]
    <3>1. wifi'.state \in WiFiStates
      BY <1>3 DEF WiFi
    <3>2. QED
      BY <1>1, <2>1, <3>1 DEF Published
  <2>2. CASE SilentStep
    BY <1>1, <2>2 DEF SilentStep
  <2>3. CASE ~SilentStep
    <3>1. Published(Elapsed(now, wifi.lostAt)) \/ Published(shown.outage)
      BY <2>3 DEF Update, RestoreStep, ConnectStep, LoseStep, SettleStep, WaitStep, DeclareStep
    <3>2. QED
      BY <1>2, <2>1, <3>1
  <2>4. QED
    BY <2>2, <2>3
<1>5. event' \in WiFiEvents
  BY DEF Update, SilentStep, RestoreStep, ConnectStep, LoseStep, SettleStep, WaitStep,
     DeclareStep, WiFiEvents
<1>6. offline' \in 0 .. Wrap /\ recovered' \in 0 .. Wrap /\ openOutages' \in Int
  <2>1. /\ offline' \in {offline, 0} /\ recovered' \in {recovered, 0}
        /\ openOutages' \in {openOutages, openOutages + 1, openOutages - 1}
    BY DEF Update, SilentStep, RestoreStep, ConnectStep, LoseStep, SettleStep, WaitStep,
       DeclareStep
  <2>2. QED
    BY <1>1, <2>1, LimitFacts
<1>7. everOnline' \in BOOLEAN
  BY DEF Update, SilentStep, RestoreStep, ConnectStep, LoseStep, SettleStep, WaitStep,
     DeclareStep, Known
<1>8. QED
  BY <1>1, <1>3, <1>4, <1>5, <1>6, <1>7, Zenon DEF TypeOK

(* What is shown, and how it hangs together.                               *)
LEMMA UpdateShown ==
  ASSUME IInv, Update, pc = "idle"
  PROVE  TrackerCoherent' /\ OutagesAlternate' /\ ShownInv' /\ HealthInv'
<1>1. /\ shown \in [status : WiFiStates, healthy : BOOLEAN, outage : Timestamps]
      /\ wifi.state \in {"CONNECTED", "RECOVERED"} <=> Effective(wifi)
      /\ wifi.state = "WIFI_TIMEOUT" <=> wifi.declared
      /\ wifi.connected => wifi.once
      /\ openOutages = (IF wifi.declared THEN 1 ELSE 0)
      /\ wifi.state \in WiFiStates
  BY DEF IInv, TypeOK, TrackerCoherent, Coherent, Effective, OutagesAlternate, WiFi
<1>2. wifi'.connected => wifi'.once
  BY DEF Update, SilentStep, RestoreStep, ConnectStep, LoseStep, SettleStep, WaitStep,
     DeclareStep, To, Moved
<1>3. TrackerCoherent'
  <2>1. /\ wifi'.state \in {"CONNECTED", "RECOVERED"} <=> Effective(wifi')
        /\ wifi'.state = "WIFI_TIMEOUT" <=> wifi'.declared
    BY <1>1 DEF Update, SilentStep, RestoreStep, ConnectStep, LoseStep, SettleStep, WaitStep,
       DeclareStep, To, Moved, Inputs, Effective
  <2>2. QED
    BY <1>2, <2>1 DEF TrackerCoherent, Coherent, Effective
<1>4. OutagesAlternate'
  <2>1. (wifi.declared => openOutages = 1) /\ (~wifi.declared => openOutages = 0)
    BY <1>1
  <2>2. \/ (wifi'.declared <=> wifi.declared) /\ openOutages' = openOutages
        \/ wifi.declared /\ ~wifi'.declared /\ openOutages' = openOutages - 1
        \/ ~wifi.declared /\ wifi'.declared /\ openOutages' = openOutages + 1
    BY <1>1 DEF Update, SilentStep, RestoreStep, ConnectStep, LoseStep, SettleStep, WaitStep,
       DeclareStep, To, Moved
  <2>3. (wifi'.declared => openOutages' = 1) /\ (~wifi'.declared => openOutages' = 0)
    BY <2>1, <2>2
  <2>4. QED
    BY <2>3 DEF OutagesAlternate
<1>5. ShownInv'
  BY <1>1 DEF Update, SilentStep, RestoreStep, ConnectStep, LoseStep, SettleStep, WaitStep,
     DeclareStep, To, Moved, Published, IInv, ShownInv
<1>6. HealthInv'
  <2>1. CASE SilentStep
    BY <2>1 DEF SilentStep, To, Moved, IInv, HealthInv
  <2>2. ASSUME NEW outage, Published(outage)
        PROVE  shown'.healthy = shown.healthy /\ pc' = "publish"
    BY <1>1, <2>2 DEF Published
  <2>3. CASE RestoreStep \/ ConnectStep
    BY <1>2, <2>2, <2>3 DEF RestoreStep, ConnectStep, To, Moved, HealthInv, Effective
  <2>4. CASE LoseStep
    BY <1>1, <2>2, <2>4 DEF LoseStep, Moved, IInv, HealthInv, Effective
  <2>5. CASE SettleStep
    BY <1>1, <2>2, <2>5 DEF SettleStep, To, Moved, IInv, HealthInv
  <2>6. CASE WaitStep
    BY <1>1, <2>2, <2>6 DEF WaitStep, To, Moved, Inputs, IInv, HealthInv
  <2>7. CASE DeclareStep
    BY <2>2, <2>7 DEF DeclareStep, To, Moved, HealthInv
  <2>8. QED
    BY <2>1, <2>3, <2>4, <2>5, <2>6, <2>7 DEF Update
<1>7. QED
  BY <1>3, <1>4, <1>5, <1>6

(* The timestamps and what is judged by them.                              *)
LEMMA UpdateTimes ==
  ASSUME IInv, Update, now' = now
  PROVE  OnlineInv' /\ OfflineInv' /\ RecoveredInv' /\ NoEarlyTimeout'
<1>1. /\ now \in Timestamps /\ wifi \in WiFi
      /\ offline \in 0 .. Wrap /\ recovered \in 0 .. Wrap
      /\ wifi.state \in {"CONNECTED", "RECOVERED"} <=> Effective(wifi)
      /\ OnlineInv /\ OfflineInv /\ RecoveredInv
  BY DEF IInv, TypeOK, TrackerCoherent, Coherent, Effective
<1>2. Elapsed(now, now) = 0
  BY <1>1, ElapsedZero
<1>3. CASE SilentStep
  BY <1>1, <1>3 DEF SilentStep, To, Moved, Known, OnlineInv, OfflineInv, RecoveredInv,
     NoEarlyTimeout
<1>4. CASE RestoreStep
  BY <1>1, <1>2, <1>4 DEF RestoreStep, Moved, Known, OnlineInv, OfflineInv, RecoveredInv,
     NoEarlyTimeout, Effective
<1>5. CASE ConnectStep
  BY <1>1, <1>5 DEF ConnectStep, To, Moved, Known, OnlineInv, OfflineInv, RecoveredInv,
     NoEarlyTimeout, Effective
<1>6. CASE LoseStep
  BY <1>1, <1>2, <1>6 DEF LoseStep, Moved, Known, OnlineInv, OfflineInv, RecoveredInv,
     NoEarlyTimeout
<1>7. CASE SettleStep
  BY <1>1, <1>7 DEF SettleStep, To, Moved, Inputs, Known, OnlineInv, OfflineInv, RecoveredInv,
     NoEarlyTimeout, Effective
<1>8. CASE WaitStep
  BY <1>1, <1>8 DEF WaitStep, To, Moved, Inputs, Known, OnlineInv, OfflineInv, RecoveredInv,
     NoEarlyTimeout, Effective
<1>9. CASE DeclareStep
  <2>1. OnlineInv' /\ OfflineInv' /\ RecoveredInv'
    BY <1>1, <1>9 DEF DeclareStep, To, Moved, Inputs, Known, OnlineInv, OfflineInv,
       RecoveredInv, Effective
  <2>2. offline >= (IF wifi.once THEN OutageThreshold ELSE WiFiGrace)
    <3>1. /\ wifi.once => ~(Elapsed(now, wifi.lostAt) < OutageThreshold)
          /\ ~wifi.once => ~(Elapsed(now, wifi.lostAt) < WiFiGrace)
      <4>1. ~wifi.once => wifi.lostAt = wifi.setupAt
        BY <1>1 DEF OnlineInv
      <4>2. ~StillTolerated(wifi, now)
        BY <1>9 DEF DeclareStep
      <4>3. CASE wifi.once
        BY <4>2, <4>3 DEF StillTolerated
      <4>4. CASE ~wifi.once
        BY <4>1, <4>2, <4>4 DEF StillTolerated
      <4>5. QED
        BY <4>3, <4>4
    <3>2. Elapsed(now, wifi.lostAt) \in Nat
      <4>1. Elapsed(now, wifi.lostAt) \in Timestamps
        BY <1>1, ElapsedType DEF WiFi
      <4>2. QED
        BY <4>1, WrapAssumption DEF Timestamps
    <3>3. offline < Wrap => Elapsed(now, wifi.lostAt) = offline
      BY <1>1, <1>9 DEF DeclareStep, OfflineInv
    <3>4. /\ wifi.once => offline >= OutageThreshold
          /\ ~wifi.once => offline >= WiFiGrace
      <4> DEFINE elapsed == Elapsed(now, wifi.lostAt)
      <4> HIDE DEF elapsed
      <4>1. elapsed \in Nat /\ offline \in 0 .. Wrap /\ (offline < Wrap => elapsed = offline)
        BY <1>1, <3>2, <3>3 DEF elapsed
      <4>2. ~(elapsed < OutageThreshold) => offline >= OutageThreshold
        BY <4>1, LimitFacts
      <4>3. ~(elapsed < WiFiGrace) => offline >= WiFiGrace
        BY <4>1, LimitFacts
      <4>4. QED
        BY <3>1, <4>2, <4>3 DEF elapsed
    <3>5. QED
      BY <3>4
  <2>3. wifi'.once = wifi.once /\ offline' = offline
    BY <1>9 DEF DeclareStep, Inputs
  <2>4. NoEarlyTimeout'
    BY <2>2, <2>3 DEF NoEarlyTimeout
  <2>5. QED
    BY <2>1, <2>4
<1>10. QED
  BY <1>3, <1>4, <1>5, <1>6, <1>7, <1>8, <1>9 DEF Update

-----------------------------------------------------------------------------
(* The actions.                                                            *)

(* Time passes.                                                            *)
LEMMA TickInvariant == IInv /\ Tick => IInv'
<1> SUFFICES ASSUME IInv, Tick PROVE IInv'
  OBVIOUS
<1>1. /\ now' = (now + 1) % Wrap /\ gap' = gap + 1 /\ gap < MaxGap /\ event' = "NONE"
      /\ Effective(wifi) => offline' = 0
      /\ ~Effective(wifi) => offline' = Later(offline)
      /\ recovered' = Later(recovered)
      /\ UNCHANGED <<wifi, lastEval, pc, shown, everOnline, openOutages>>
  BY DEF Tick
<1>2. /\ now \in Timestamps /\ lastEval \in Timestamps /\ gap \in 0 .. MaxGap /\ wifi \in WiFi
      /\ offline \in 0 .. Wrap /\ recovered \in 0 .. Wrap
  BY DEF IInv, TypeOK
<1>3. \A t \in 0 .. Wrap :
        Later(t) \in 0 .. Wrap /\ (Later(t) < Wrap => Later(t) = t + 1 /\ t < Wrap)
  BY LimitFacts DEF Later
<1>4. now' \in Timestamps
  BY <1>1, <1>2, ClockType
<1>5. offline' \in 0 .. Wrap /\ recovered' \in 0 .. Wrap /\ gap' \in 0 .. MaxGap
  BY <1>1, <1>2, <1>3, LimitFacts
<1>6. TypeOK'
  <2>1. /\ wifi' \in WiFi /\ lastEval' \in Timestamps /\ event' \in WiFiEvents
        /\ pc' \in {"idle", "publish"}
        /\ shown' \in [status : WiFiStates, healthy : BOOLEAN, outage : Timestamps]
        /\ everOnline' \in BOOLEAN /\ openOutages' \in Int
    BY <1>1 DEF IInv, TypeOK, WiFiEvents
  <2>2. QED
    BY <1>4, <1>5, <2>1, Zenon DEF TypeOK
<1>7. TrackerCoherent' /\ OutagesAlternate' /\ ShownInv' /\ HealthInv'
  BY <1>1 DEF IInv, TrackerCoherent, Coherent, OutagesAlternate, ShownInv, HealthInv
<1>8. NoEarlyTimeout' /\ OnlineInv'
  BY <1>1 DEF IInv, NoEarlyTimeout, OnlineInv, Effective
<1>9. OfflineInv'
  <2> SUFFICES ASSUME ~Effective(wifi), offline' < Wrap
               PROVE  Elapsed(now', wifi.lostAt) = offline'
    BY <1>1 DEF OfflineInv, Effective
  <2>1. offline' = offline + 1 /\ offline < Wrap
    BY <1>1, <1>2, <1>3
  <2>2. Elapsed(now, wifi.lostAt) = offline
    BY <2>1 DEF IInv, OfflineInv
  <2>3. wifi.lostAt \in Timestamps
    BY <1>2 DEF WiFi
  <2>4. QED
    BY <1>1, <1>2, <2>1, <2>2, <2>3, ElapsedNext
<1>10. RecoveredInv'
  <2> SUFFICES ASSUME wifi.state = "RECOVERED", recovered' < Wrap
               PROVE  Elapsed(now', wifi.recoveredAt) = recovered'
    BY <1>1 DEF RecoveredInv
  <2>1. recovered' = recovered + 1 /\ recovered < Wrap
    BY <1>1, <1>2, <1>3
  <2>2. Elapsed(now, wifi.recoveredAt) = recovered
    BY <2>1 DEF IInv, RecoveredInv
  <2>3. wifi.recoveredAt \in Timestamps
    BY <1>2 DEF WiFi
  <2>4. QED
    BY <1>1, <1>2, <2>1, <2>2, <2>3, ElapsedNext
<1>11. PICK elapsed \in Nat : elapsed = Elapsed(now, lastEval)
  <2>1. Elapsed(now, lastEval) \in Timestamps
    BY <1>2, ElapsedType
  <2>2. QED
    BY <2>1, WrapAssumption DEF Timestamps
<1>12. elapsed <= EvalInterval - 1 + gap
  BY <1>11 DEF IInv, EvaluationInv
<1>13. elapsed + 1 < Wrap
  BY <1>1, <1>2, <1>11, <1>12, LimitFacts
<1>14. Elapsed(now', lastEval') = elapsed + 1
  BY <1>1, <1>2, <1>11, <1>13, ElapsedNext
<1>15. EvaluationInv'
  BY <1>1, <1>2, <1>11, <1>12, <1>14, LimitFacts DEF EvaluationInv
<1>16. DeadlineInv'
  <2> SUFFICES ASSUME ~Effective(wifi), ~wifi.declared
               PROVE  offline' < Patience + (elapsed + 1)
    BY <1>1, <1>14 DEF DeadlineInv, Effective, Patience
  <2>1. offline < Patience + elapsed
    BY <1>11 DEF IInv, DeadlineInv
  <2>2. offline' <= offline + 1
    BY <1>1, <1>2 DEF Later
  <2>3. QED
    BY <1>2, <1>5, <1>11, <2>1, <2>2, LimitFacts
<1>17. QED
  BY <1>6, <1>7, <1>8, <1>9, <1>10, <1>15, <1>16 DEF IInv

(* A callback or a switch.                                                 *)
LEMMA InputInvariant ==
  ASSUME IInv, InputStep, pc = "idle", UNCHANGED <<now, gap, lastEval>>
  PROVE  IInv'
<1>1. /\ now \in Timestamps /\ lastEval \in Timestamps /\ gap \in 0 .. MaxGap
      /\ offline \in 0 .. Wrap
  BY DEF IInv, TypeOK
<1>2. Update
  BY DEF InputStep, Update
<1>3. TypeOK' /\ TrackerCoherent' /\ OutagesAlternate' /\ ShownInv' /\ HealthInv'
  BY <1>1, <1>2, UpdateTypes, UpdateShown
<1>4. OnlineInv' /\ OfflineInv' /\ RecoveredInv' /\ NoEarlyTimeout'
  BY <1>2, UpdateTimes
<1>5. EvaluationInv'
  BY DEF IInv, EvaluationInv
<1>6. DeadlineInv'
  <2> SUFFICES ASSUME ~Effective(wifi'), ~wifi'.declared
               PROVE  offline' < Patience' + Elapsed(now', lastEval')
    BY DEF DeadlineInv
  <2>1. CASE SilentStep
    <3>1. ~Effective(wifi) /\ ~wifi.declared /\ offline' = offline
      BY <2>1 DEF SilentStep, To, Moved
    <3>2. Patience' = Patience
      BY <2>1 DEF SilentStep, Known, Patience, FirstLimit
    <3>3. QED
      BY <3>1, <3>2 DEF IInv, DeadlineInv
  <2>2. CASE LoseStep
    <3>1. offline' = 0
      BY <2>2 DEF LoseStep
    <3>2. Patience' = Patience
      BY <2>2 DEF LoseStep, Known, Patience, FirstLimit
    <3>3. Elapsed(now, lastEval) \in Timestamps
      BY <1>1, ElapsedType
    <3>4. PICK elapsed \in Nat : elapsed = Elapsed(now, lastEval)
      BY <3>3, WrapAssumption DEF Timestamps
    <3>5. 0 < Patience + elapsed
      BY <3>4, LimitFacts
    <3>6. QED
      BY <3>1, <3>2, <3>4, <3>5
  <2>3. QED
    BY <2>1, <2>2 DEF InputStep, RestoreStep, ConnectStep
<1>7. QED
  BY <1>3, <1>4, <1>5, <1>6 DEF IInv

(* An evaluation.                                                          *)
LEMMA EvaluationInvariant ==
  ASSUME IInv, pc = "idle", Apply(EvaluateWiFi(wifi, now)),
         lastEval' = now, gap' = 0, now' = now
  PROVE  IInv'
<1>1. /\ now \in Timestamps /\ wifi \in WiFi /\ 0 \in 0 .. MaxGap /\ offline \in 0 .. Wrap
      /\ gap \in 0 .. MaxGap /\ lastEval \in Timestamps
  BY LimitFacts DEF IInv, TypeOK
<1>2. /\ EvaluationStep
      /\ ~Effective(wifi') /\ ~wifi'.declared => StillTolerated(wifi, now)
  BY EvaluationEffect
<1>3. Update
  BY <1>2 DEF EvaluationStep, Update
<1>4. TypeOK' /\ TrackerCoherent' /\ OutagesAlternate' /\ ShownInv' /\ HealthInv'
  BY <1>1, <1>3, UpdateTypes, UpdateShown
<1>5. OnlineInv' /\ OfflineInv' /\ RecoveredInv' /\ NoEarlyTimeout'
  BY <1>3, UpdateTimes
<1>6. Elapsed(now', lastEval') = 0
  BY <1>1, ElapsedZero
<1>7. EvaluationInv'
  BY <1>6, LimitFacts DEF EvaluationInv
<1>8. DeadlineInv'
  <2> SUFFICES ASSUME ~Effective(wifi'), ~wifi'.declared
               PROVE  offline' < Patience' + 0
    BY <1>6 DEF DeadlineInv
  <2>1. ~Effective(wifi) /\ ~wifi.declared
    BY <1>2 DEF EvaluationStep, SilentStep, SettleStep, WaitStep, DeclareStep, To, Moved,
       Inputs, Effective
  <2>2. offline' = offline /\ Patience' = Patience
    BY <1>2 DEF EvaluationStep, SilentStep, SettleStep, WaitStep, DeclareStep, Known, Patience,
       FirstLimit
  <2>3. PICK elapsed \in Nat : elapsed = Elapsed(now, lastEval)
    <3>1. Elapsed(now, lastEval) \in Timestamps
      BY <1>1, ElapsedType
    <3>2. QED
      BY <3>1, WrapAssumption DEF Timestamps
  <2>4. offline < Patience + elapsed /\ elapsed <= EvalInterval - 1 + gap
    BY <2>1, <2>3 DEF IInv, DeadlineInv, EvaluationInv
  <2>5. offline < Wrap
    BY <1>1, <2>3, <2>4, LimitFacts
  <2>6. Elapsed(now, wifi.lostAt) = offline
    BY <2>1, <2>5 DEF IInv, OfflineInv
  <2>7. /\ wifi.once => offline < OutageThreshold
        /\ ~wifi.once => offline < WiFiGrace
    <3>1. StillTolerated(wifi, now)
      BY <1>2
    <3>2. ~wifi.once => wifi.lostAt = wifi.setupAt
      BY DEF IInv, OnlineInv
    <3>3. CASE wifi.once
      BY <2>6, <3>1, <3>3 DEF StillTolerated
    <3>4. CASE ~wifi.once
      BY <2>6, <3>1, <3>2, <3>4 DEF StillTolerated
    <3>5. QED
      BY <3>3, <3>4
  <2>8. offline < Patience
    <3>1. CASE everOnline
      <4>1. wifi.once
        BY <3>1 DEF IInv, OnlineInv
      <4>2. QED
        BY <2>7, <3>1, <4>1 DEF Patience
    <3>2. CASE ~everOnline
      <4>1. offline < OutageThreshold \/ offline < WiFiGrace
        BY <2>7
      <4>2. offline < FirstLimit
        BY <1>1, <4>1, LimitFacts
      <4>3. QED
        BY <3>2, <4>2 DEF Patience
    <3>3. QED
      BY <3>1, <3>2
  <2>9. QED
    BY <2>2, <2>8, LimitFacts
<1>9. QED
  BY <1>4, <1>5, <1>7, <1>8 DEF IInv

(* An iteration of the main loop.                                          *)
LEMMA LoopInvariant == IInv /\ Loop => IInv'
<1> SUFFICES ASSUME IInv, Loop PROVE IInv'
  OBVIOUS
<1>1. pc = "idle" /\ gap' = 0 /\ now' = now
  BY DEF Loop
<1>2. CASE EvaluationDue
  <2>1. lastEval' = now /\ Apply(EvaluateWiFi(wifi, now))
    BY <1>2 DEF Loop
  <2>2. QED
    BY <1>1, <2>1, EvaluationInvariant
<1>3. CASE ~EvaluationDue
  <2>1. event' = "NONE" /\ UNCHANGED <<wifi, lastEval, pc, shown, history>>
    BY <1>3 DEF Loop
  <2>2. UNCHANGED <<offline, recovered, everOnline, openOutages>>
    BY <2>1 DEF history
  <2>3. /\ 0 \in 0 .. MaxGap /\ now \in Timestamps /\ lastEval \in Timestamps
        /\ event' \in WiFiEvents
    BY <2>1, LimitFacts DEF IInv, TypeOK, WiFiEvents
  <2>4. TypeOK'
    BY <1>1, <2>1, <2>2, <2>3 DEF IInv, TypeOK
  <2>5. /\ TrackerCoherent' /\ OutagesAlternate' /\ ShownInv' /\ HealthInv'
        /\ NoEarlyTimeout' /\ OnlineInv' /\ OfflineInv' /\ RecoveredInv'
    BY <1>1, <2>1, <2>2 DEF IInv, TrackerCoherent, Coherent, OutagesAlternate, ShownInv,
       HealthInv, NoEarlyTimeout, OnlineInv, OfflineInv, RecoveredInv, Effective
  <2>6. EvaluationInv'
    <3>1. Elapsed(now, lastEval) \in Timestamps
      BY <2>3, ElapsedType
    <3>2. PICK elapsed \in Nat : elapsed = Elapsed(now, lastEval)
      BY <3>1, WrapAssumption DEF Timestamps
    <3>3. ~(elapsed >= EvalInterval)
      BY <1>3, <3>2 DEF EvaluationDue
    <3>4. elapsed <= EvalInterval - 1 + 0
      BY <3>2, <3>3, LimitFacts
    <3>5. QED
      BY <1>1, <2>1, <3>2, <3>4 DEF EvaluationInv
  <2>7. DeadlineInv'
    BY <1>1, <2>1, <2>2 DEF IInv, DeadlineInv, Effective, Patience
  <2>8. QED
    BY <2>4, <2>5, <2>6, <2>7 DEF IInv
<1>4. QED
  BY <1>2, <1>3

(* The callbacks and the switch are inputs.                                *)
LEMMA CallEffect ==
  ASSUME IInv, SetWiFiConnected \/ SetWiFiTimeoutSimulation
  PROVE  InputStep
<1>0. wifi \in WiFi /\ (wifi.connected => wifi.once)
  BY DEF IInv, TypeOK, TrackerCoherent, Coherent
<1>1. ASSUME NEW connected \in BOOLEAN, Apply(SetRealConnected(wifi, connected, now))
      PROVE  InputStep
  <2> DEFINE new == [wifi EXCEPT !.connected = connected, !.once = @ \/ connected]
  <2>1. Apply(InputChanged(wifi, new, now))
    BY <1>1 DEF SetRealConnected
  <2>2. (wifi.once \/ connected) \in BOOLEAN
    BY <1>0, <1>1 DEF WiFi
  <2>3. /\ new \in WiFi
        /\ new.state = wifi.state /\ new.declared = wifi.declared
        /\ new.setupAt = wifi.setupAt /\ new.lostAt = wifi.lostAt
        /\ new.recoveredAt = wifi.recoveredAt /\ new.outage = wifi.outage
        /\ (wifi.once => new.once) /\ (new.connected => new.once)
    BY <1>0, <1>1, <2>2 DEF WiFi
  <2> HIDE DEF new
  <2>4. QED
    BY <2>1, <2>3, InputEffect
<1>2. CASE SetWiFiTimeoutSimulation
  <2> DEFINE new == [wifi EXCEPT !.simulation = ~wifi.simulation]
  <2>1. Apply(InputChanged(wifi, new, now))
    BY <1>2 DEF SetWiFiTimeoutSimulation, SetTimeoutSimulation
  <2>2. /\ new \in WiFi
        /\ new.state = wifi.state /\ new.declared = wifi.declared
        /\ new.setupAt = wifi.setupAt /\ new.lostAt = wifi.lostAt
        /\ new.recoveredAt = wifi.recoveredAt /\ new.outage = wifi.outage
        /\ (wifi.once => new.once) /\ (new.connected => new.once)
    BY <1>0 DEF WiFi
  <2> HIDE DEF new
  <2>3. QED
    BY <2>1, <2>2, InputEffect
<1>3. QED
  BY <1>1, <1>2 DEF SetWiFiConnected

(* The calls from outside keep the invariant.                               *)
LEMMA CallInvariant == IInv /\ (SetWiFiConnected \/ SetWiFiTimeoutSimulation) => IInv'
<1> SUFFICES ASSUME IInv, SetWiFiConnected \/ SetWiFiTimeoutSimulation PROVE IInv'
  OBVIOUS
<1>1. pc = "idle" /\ UNCHANGED <<now, gap, lastEval>>
  BY DEF SetWiFiConnected, SetWiFiTimeoutSimulation
<1>2. QED
  BY <1>1, CallEffect, InputInvariant

(* The health entity, last.                                                *)
LEMMA PublishHealthEffect ==
  ASSUME IInv, PublishHealth
  PROVE  /\ shown'.status = shown.status
         /\ shown' \in [status : WiFiStates, healthy : BOOLEAN, outage : Timestamps]
         /\ shown'.healthy => wifi.once /\ ~wifi.declared
         /\ wifi.once /\ ~wifi.declared => shown'.healthy
<1>1. /\ shown \in [status : WiFiStates, healthy : BOOLEAN, outage : Timestamps]
      /\ wifi.once \in BOOLEAN
  BY DEF IInv, TypeOK, WiFi
<1>2. shown' = [shown EXCEPT !.healthy = WiFiHealthy(wifi)]
  BY DEF PublishHealth
<1>3. WiFiHealthy(wifi) \in BOOLEAN
  BY <1>1 DEF WiFiHealthy
<1>4. QED
  BY <1>1, <1>2, <1>3 DEF WiFiHealthy

(* Publishing the health keeps it.                                          *)
LEMMA PublishInvariant == IInv /\ PublishHealth => IInv'
<1> SUFFICES ASSUME IInv, PublishHealth PROVE IInv'
  OBVIOUS
<1>1. /\ pc = "publish" /\ pc' = "idle"
      /\ UNCHANGED <<now, gap, wifi, lastEval, event, offline, recovered, everOnline,
                     openOutages>>
  BY DEF PublishHealth, history
<1>2. /\ shown'.status = shown.status
      /\ shown' \in [status : WiFiStates, healthy : BOOLEAN, outage : Timestamps]
      /\ shown'.healthy => wifi.once /\ ~wifi.declared
      /\ wifi.once /\ ~wifi.declared => shown'.healthy
  BY PublishHealthEffect
<1>3. TypeOK'
  BY <1>1, <1>2 DEF IInv, TypeOK
<1>4. /\ TrackerCoherent' /\ OutagesAlternate' /\ ShownInv'
      /\ NoEarlyTimeout' /\ OnlineInv' /\ OfflineInv' /\ RecoveredInv'
      /\ EvaluationInv' /\ DeadlineInv'
  BY <1>1, <1>2 DEF IInv, TrackerCoherent, Coherent, OutagesAlternate, ShownInv,
     NoEarlyTimeout, OnlineInv, OfflineInv, RecoveredInv, Effective, EvaluationInv, DeadlineInv,
     Patience
<1>5. HealthInv'
  <2>1. wifi.state = "WIFI_TIMEOUT" <=> wifi.declared
    BY DEF IInv, TrackerCoherent, Coherent
  <2>2. QED
    BY <1>1, <1>2, <2>1 DEF IInv, HealthInv
<1>6. QED
  BY <1>3, <1>4, <1>5 DEF IInv

(* The invariant is inductive.                                             *)
LEMMA InvariantStep == IInv /\ [Next]_vars => IInv'
<1> SUFFICES ASSUME IInv, [Next]_vars PROVE IInv'
  OBVIOUS
<1>1. CASE Next
  BY <1>1, TickInvariant, LoopInvariant, PublishInvariant, CallInvariant DEF Next
<1>2. CASE UNCHANGED vars
  BY <1>2 DEF vars, history, IInv, TypeOK, TrackerCoherent, Coherent, OutagesAlternate,
     ShownInv, HealthInv, NoEarlyTimeout, OnlineInv, OfflineInv, RecoveredInv, Effective,
     EvaluationInv, DeadlineInv, Patience
<1>3. QED
  BY <1>1, <1>2

(* The invariant holds in every reachable state.                            *)
LEMMA Invariance == Spec => []IInv
BY InitInvariant, InvariantStep, PTL DEF Spec

-----------------------------------------------------------------------------
(* The tracker, the clock and the published entities keep their types.     *)
THEOREM TypeCorrect == Spec => []TypeOK
<1>1. IInv => TypeOK
  BY DEF IInv
<1>2. QED
  BY Invariance, <1>1, PTL

(* No order of callbacks, switches and evaluations makes the Wi-Fi tracker *)
(* contradict itself.                                                      *)
THEOREM NeverContradicts == Spec => []TrackerCoherent
<1>1. IInv => TrackerCoherent
  BY DEF IInv
<1>2. QED
  BY Invariance, <1>1, PTL

(* evaluate() never raises WIFI_TIMEOUT before its limit of true time      *)
(* without a connection has passed.                                        *)
THEOREM NoFalseAlarm == Spec => []NoEarlyTimeout
<1>1. IInv => NoEarlyTimeout
  BY DEF IInv
<1>2. QED
  BY Invariance, <1>1, PTL

(* A missing connection is declared at the latest one evaluation interval  *)
(* and one gap of the main loop after the limit.                           *)
THEOREM BoundedDetection == Spec => []DetectionBounded
<1>1. IInv => DetectionBounded
  <2> SUFFICES ASSUME IInv, ~wifi.declared
               PROVE  ~(offline >= Patience + EvalInterval + MaxGap - 1)
    BY DEF DetectionBounded, Patience
  <2>1. /\ gap \in 0 .. MaxGap /\ offline \in 0 .. Wrap
        /\ now \in Timestamps /\ lastEval \in Timestamps
    BY DEF IInv, TypeOK
  <2>2. CASE Effective(wifi)
    <3>1. offline = 0
      BY <2>2 DEF IInv, OnlineInv
    <3>2. QED
      BY <3>1, LimitFacts
  <2>3. CASE ~Effective(wifi)
    <3>1. Elapsed(now, lastEval) \in Timestamps
      BY <2>1, ElapsedType
    <3>2. PICK elapsed \in Nat : elapsed = Elapsed(now, lastEval)
      BY <3>1, WrapAssumption DEF Timestamps
    <3>3. offline < Patience + elapsed /\ elapsed <= EvalInterval - 1 + gap
      BY <2>3, <3>2 DEF IInv, DeadlineInv, EvaluationInv
    <3>4. QED
      BY <2>1, <3>2, <3>3, LimitFacts
  <2>4. QED
    BY <2>2, <2>3
<1>2. QED
  BY Invariance, <1>1, PTL

(* WIFI_TIMEOUT and WIFI_RESTORED alternate, starting with the timeout.    *)
THEOREM Alternation == Spec => []OutagesAlternate
<1>1. IInv => OutagesAlternate
  BY DEF IInv
<1>2. QED
  BY Invariance, <1>1, PTL

(* What the actions that update the tracker do to it.                      *)
LEMMA UpdatingActions ==
  ASSUME IInv, Loop \/ SetWiFiConnected \/ SetWiFiTimeoutSimulation
  PROVE  \/ Update /\ pc = "idle" /\ UNCHANGED now
         \/ event' = "NONE" /\ UNCHANGED <<wifi, shown>>
<1>1. CASE Loop /\ EvaluationDue
  <2>1. Apply(EvaluateWiFi(wifi, now)) /\ pc = "idle" /\ now' = now
    BY <1>1 DEF Loop
  <2>2. EvaluationStep
    BY <2>1, EvaluationEffect
  <2>3. QED
    BY <2>1, <2>2 DEF EvaluationStep, Update
<1>2. CASE Loop /\ ~EvaluationDue
  BY <1>2 DEF Loop
<1>3. CASE SetWiFiConnected \/ SetWiFiTimeoutSimulation
  <2>1. InputStep
    BY <1>3, CallEffect
  <2>2. QED
    BY <1>3, <2>1 DEF InputStep, Update, SetWiFiConnected, SetWiFiTimeoutSimulation
<1>4. QED
  BY <1>1, <1>2, <1>3

(* The outage duration EffectiveConnection() computes is the true one.     *)
THEOREM TrueDurations == Spec => OutageMeasured
<1> DEFINE Measured == pc = "idle" /\ event' = "WIFI_RESTORED" /\ offline < Wrap
                         => shown'.outage = offline
<1>1. IInv /\ [Next]_vars => [Measured]_vars
  <2> SUFFICES ASSUME IInv, Next, pc = "idle", event' = "WIFI_RESTORED", offline < Wrap
               PROVE  shown'.outage = offline
    OBVIOUS
  <2>1. Update
    <3>1. ~Tick /\ ~PublishHealth
      BY DEF Tick, PublishHealth
    <3>2. QED
      BY <3>1, UpdatingActions DEF Next
  <2>2. RestoreStep
    BY <2>1 DEF Update, SilentStep, ConnectStep, LoseStep, SettleStep, WaitStep, DeclareStep
  <2>3. Elapsed(now, wifi.lostAt) = offline
    BY <2>2 DEF RestoreStep, IInv, OfflineInv
  <2>4. shown \in [status : WiFiStates, healthy : BOOLEAN, outage : Timestamps]
    BY DEF IInv, TypeOK
  <2>5. QED
    BY <2>2, <2>3, <2>4 DEF RestoreStep, Published
<1>2. QED
  BY Invariance, <1>1, PTL DEF Spec, OutageMeasured

(* RECOVERED is shown for its hold, however the evaluations fall.          *)
THEOREM RecoveredStays == Spec => RecoveredHeld
<1> DEFINE Held == shown.status = "RECOVERED" /\ shown'.status = "CONNECTED"
                     => recovered >= RecoveredHold
<1>1. IInv /\ [Next]_vars => [Held]_vars
  <2> SUFFICES ASSUME IInv, Next, shown.status = "RECOVERED", shown'.status = "CONNECTED"
               PROVE  recovered >= RecoveredHold
    OBVIOUS
  <2>1. /\ wifi.state = "RECOVERED" /\ Effective(wifi) /\ wifi \in WiFi
        /\ now \in Timestamps /\ recovered \in 0 .. Wrap
    BY DEF IInv, ShownInv, TypeOK, TrackerCoherent, Coherent, Effective
  <2>2. wifi'.state = "CONNECTED"
    BY InvariantStep DEF IInv, ShownInv
  <2>3. Update
    <3>1. ~Tick /\ ~PublishHealth
      BY <2>1, <2>2 DEF Tick, PublishHealth
    <3>2. QED
      BY <2>1, <2>2, <3>1, UpdatingActions DEF Next
  <2>4. Elapsed(now, wifi.recoveredAt) >= RecoveredHold
    BY <2>1, <2>2, <2>3 DEF Update, SilentStep, RestoreStep, ConnectStep, LoseStep, SettleStep,
       WaitStep, DeclareStep, To, Moved
  <2>5. recovered < Wrap => Elapsed(now, wifi.recoveredAt) = recovered
    BY <2>1 DEF IInv, RecoveredInv
  <2>6. CASE recovered < Wrap
    BY <2>4, <2>5, <2>6
  <2>7. CASE ~(recovered < Wrap)
    BY <2>1, <2>7, LimitFacts
  <2>8. QED
    BY <2>6, <2>7
<1>2. QED
  BY Invariance, <1>1, PTL DEF Spec, RecoveredHeld

-----------------------------------------------------------------------------
(* Two more facts, inductive on top of the invariant.                      *)

(* Once online, the tracker has left its first states for good.            *)
FirstInv == everOnline => wifi.state \notin {"STARTING", "WAITING_FOR_WIFI"}

(* The last evaluation has found RECOVERED younger than its hold.          *)
HoldInv == wifi.state = "RECOVERED" => recovered <= RecoveredHold + Elapsed(now, lastEval)

(* No step goes back to the first states.                                  *)
LEMMA FirstStep == IInv /\ FirstInv /\ [Next]_vars => FirstInv'
<1> SUFFICES ASSUME IInv, FirstInv, [Next]_vars PROVE FirstInv'
  OBVIOUS
<1>1. CASE Loop \/ SetWiFiConnected \/ SetWiFiTimeoutSimulation
  <2>1. CASE Update
    BY <2>1 DEF Update, SilentStep, RestoreStep, ConnectStep, LoseStep, SettleStep, WaitStep,
       DeclareStep, To, Moved, Known, FirstInv
  <2>2. CASE event' = "NONE" /\ UNCHANGED <<wifi, shown>>
    <3>1. everOnline' => everOnline \/ Effective(wifi)
      BY <1>1, <2>2 DEF Loop, SetWiFiConnected, SetWiFiTimeoutSimulation, Apply, history
    <3>2. Effective(wifi) => wifi.state \in {"CONNECTED", "RECOVERED"}
      BY DEF IInv, TrackerCoherent, Coherent, Effective
    <3>3. QED
      BY <2>2, <3>1, <3>2 DEF FirstInv
  <2>3. QED
    BY <1>1, <2>1, <2>2, UpdatingActions
<1>2. CASE Tick \/ PublishHealth \/ UNCHANGED vars
  BY <1>2 DEF Tick, PublishHealth, vars, history, FirstInv
<1>3. QED
  BY <1>1, <1>2 DEF Next

(* A step adds at most one to the age of RECOVERED, and the evaluation     *)
(* ends it when it is old enough.                                          *)
LEMMA HoldStep == IInv /\ HoldInv /\ [Next]_vars => HoldInv'
<1> SUFFICES ASSUME IInv, HoldInv, [Next]_vars, wifi'.state = "RECOVERED"
             PROVE  recovered' <= RecoveredHold + Elapsed(now', lastEval')
  BY DEF HoldInv
<1>1. /\ now \in Timestamps /\ lastEval \in Timestamps /\ gap \in 0 .. MaxGap
      /\ recovered \in 0 .. Wrap /\ wifi \in WiFi
  BY DEF IInv, TypeOK
<1>2. PICK elapsed \in Nat : elapsed = Elapsed(now, lastEval)
  <2>1. Elapsed(now, lastEval) \in Timestamps
    BY <1>1, ElapsedType
  <2>2. QED
    BY <2>1, WrapAssumption DEF Timestamps
<1>3. elapsed <= EvalInterval - 1 + gap
  BY <1>2 DEF IInv, EvaluationInv
<1>4. wifi.state = "RECOVERED" => recovered <= RecoveredHold + elapsed
  BY <1>2 DEF HoldInv
<1>5. CASE Tick
  <2>1. gap < MaxGap /\ now' = (now + 1) % Wrap /\ UNCHANGED <<wifi, lastEval>>
    BY <1>5 DEF Tick
  <2>2. recovered' <= recovered + 1 /\ recovered' \in 0 .. Wrap
    BY <1>1, <1>5, LimitFacts DEF Tick, Later
  <2>3. elapsed + 1 < Wrap
    BY <1>1, <1>2, <1>3, <2>1, LimitFacts
  <2>4. Elapsed(now', lastEval') = elapsed + 1
    BY <1>1, <1>2, <2>1, <2>3, ElapsedNext
  <2>5. recovered <= RecoveredHold + elapsed
    BY <1>4, <2>1
  <2>6. QED
    BY <1>1, <1>2, <2>2, <2>4, <2>5, LimitFacts
<1>6. CASE Loop /\ EvaluationDue
  <2>1. /\ Apply(EvaluateWiFi(wifi, now)) /\ now' = now /\ lastEval' = now
    BY <1>6 DEF Loop
  <2>2. Elapsed(now', lastEval') = 0
    BY <1>1, <2>1, ElapsedZero
  <2>3. EvaluationStep
    BY <2>1, EvaluationEffect
  <2>4. wifi.state = "RECOVERED" /\ recovered' = recovered
    BY <2>3 DEF EvaluationStep, SilentStep, SettleStep, WaitStep, DeclareStep, To, Moved
  <2>5. Effective(wifi)
    BY <2>4 DEF IInv, TrackerCoherent, Coherent, Effective
  <2>6. ~(Elapsed(now, wifi.recoveredAt) >= RecoveredHold)
    <3> SUFFICES ASSUME Elapsed(now, wifi.recoveredAt) >= RecoveredHold PROVE FALSE
      OBVIOUS
    <3>1. wifi' = [wifi EXCEPT !.state = "CONNECTED"]
      BY <2>1, <2>4, <2>5 DEF Apply, EvaluateWiFi, EvaluateConnected, WiFiUpdate
    <3>2. wifi'.state = "CONNECTED"
      BY <1>1, <3>1 DEF WiFi
    <3>3. QED
      BY <3>2
  <2>7. recovered < Wrap
    BY <1>1, <1>2, <1>3, <1>4, <2>4, LimitFacts
  <2>8. Elapsed(now, wifi.recoveredAt) = recovered
    BY <2>4, <2>7 DEF IInv, RecoveredInv
  <2>9. QED
    BY <1>1, <2>2, <2>4, <2>6, <2>8, LimitFacts
<1>7. CASE Loop /\ ~EvaluationDue
  <2>1. UNCHANGED <<now, wifi, lastEval, recovered>>
    BY <1>7 DEF Loop, history
  <2>2. QED
    BY <1>2, <1>4, <2>1
<1>8. CASE SetWiFiConnected \/ SetWiFiTimeoutSimulation
  <2>1. InputStep /\ UNCHANGED <<now, lastEval>>
    BY <1>8, CallEffect DEF SetWiFiConnected, SetWiFiTimeoutSimulation
  <2>2. \/ wifi.state = "RECOVERED" /\ recovered' = recovered
        \/ recovered' = 0
    BY <2>1 DEF InputStep, SilentStep, RestoreStep, ConnectStep, LoseStep, To, Moved
  <2>3. QED
    BY <1>2, <1>4, <2>1, <2>2, LimitFacts
<1>9. CASE PublishHealth \/ UNCHANGED vars
  <2>1. UNCHANGED <<now, wifi, lastEval, recovered>>
    BY <1>9 DEF PublishHealth, vars, history
  <2>2. QED
    BY <1>2, <1>4, <2>1
<1>10. QED
  BY <1>5, <1>6, <1>7, <1>8, <1>9 DEF Next

(* Both hold in every reachable state.                                     *)
LEMMA FurtherInvariance == Spec => [](IInv /\ FirstInv /\ HoldInv)
<1>1. Init => FirstInv /\ HoldInv
  <2> SUFFICES ASSUME Init PROVE wifi.state = "STARTING" /\ ~everOnline
    BY DEF FirstInv, HoldInv
  <2>1. QED
    BY DEF Init, StartedWiFi
<1>2. QED
  BY <1>1, InitInvariant, InvariantStep, FirstStep, HoldStep, PTL DEF Spec

(* RECOVERED is over within its hold, an evaluation interval and a gap, if *)
(* the connection lasts: the time bound behind LastingConnectionShown.     *)
THEOREM RecoveryEnds == Spec => []RecoveredEnds
<1>1. IInv /\ HoldInv => RecoveredEnds
  <2> SUFFICES ASSUME IInv, HoldInv, shown.status = "RECOVERED"
               PROVE  recovered < RecoveredHold + EvalInterval + MaxGap
    BY DEF RecoveredEnds
  <2>1. /\ now \in Timestamps /\ lastEval \in Timestamps /\ gap \in 0 .. MaxGap
        /\ recovered \in 0 .. Wrap
    BY DEF IInv, TypeOK
  <2>2. Elapsed(now, lastEval) \in Timestamps
    BY <2>1, ElapsedType
  <2>3. PICK elapsed \in Nat : elapsed = Elapsed(now, lastEval)
    BY <2>2, WrapAssumption DEF Timestamps
  <2>4. elapsed <= EvalInterval - 1 + gap /\ recovered <= RecoveredHold + elapsed
    BY <2>3 DEF IInv, EvaluationInv, ShownInv, HoldInv
  <2>5. QED
    BY <2>1, <2>3, <2>4, LimitFacts
<1>2. QED
  BY <1>1, FurtherInvariance, PTL

(* SEM WiFi Healthy is wrong only while a simulation hides the first       *)
(* connection, and then only in being off.                                 *)
THEOREM HealthTrueOnceOnline == Spec => []HealthShownOnceOnline
<1>1. IInv /\ FirstInv => HealthShownOnceOnline
  <2> SUFFICES ASSUME IInv, FirstInv, pc = "idle", shown.healthy # WiFiHealthy(wifi)
               PROVE  /\ ~shown.healthy /\ ~everOnline
                      /\ shown.status \in {"STARTING", "WAITING_FOR_WIFI"}
    BY DEF HealthShownOnceOnline
  <2>1. /\ wifi.state \in WiFiStates /\ shown.healthy \in BOOLEAN
        /\ shown.status = wifi.state /\ WiFiHealthy(wifi) \in BOOLEAN
        /\ wifi.state = "WIFI_TIMEOUT" <=> wifi.declared
    BY DEF IInv, TypeOK, WiFi, ShownInv, TrackerCoherent, Coherent, WiFiHealthy
  <2>2. ~(shown.healthy <=> wifi.once /\ ~wifi.declared)
    <3>1. \A p, q \in BOOLEAN : p # q => ~(p <=> q)
      OBVIOUS
    <3>2. ~(shown.healthy <=> WiFiHealthy(wifi))
      BY <2>1, <3>1
    <3>3. QED
      BY <3>2 DEF WiFiHealthy
  <2>3. wifi.state \in {"STARTING", "WAITING_FOR_WIFI"}
    BY <2>1, <2>2 DEF IInv, HealthInv, WiFiStates
  <2>4. QED
    BY <2>1, <2>3 DEF IInv, HealthInv, FirstInv
<1>2. QED
  BY <1>1, FurtherInvariance, PTL

(* Whoever sees the health entity change finds the status it belongs to.   *)
THEOREM HealthLast == Spec => HealthShownLast
<1> DEFINE Last == shown'.healthy # shown.healthy =>
                     IF shown'.healthy THEN shown.status \in {"CONNECTED", "RECOVERED"}
                     ELSE shown.status = "WIFI_TIMEOUT"
<1>1. IInv /\ [Next]_vars => [Last]_vars
  <2> SUFFICES ASSUME IInv, Next, shown'.healthy # shown.healthy
               PROVE  IF shown'.healthy THEN shown.status \in {"CONNECTED", "RECOVERED"}
                      ELSE shown.status = "WIFI_TIMEOUT"
    OBVIOUS
  <2>1. /\ shown \in [status : WiFiStates, healthy : BOOLEAN, outage : Timestamps]
        /\ shown.status = wifi.state /\ wifi.state \in WiFiStates
        /\ wifi.state = "WIFI_TIMEOUT" <=> wifi.declared
    BY DEF IInv, TypeOK, WiFi, ShownInv, TrackerCoherent, Coherent
  <2>2. PublishHealth
    <3>1. ~Tick
      BY DEF Tick
    <3>2. ASSUME Update PROVE FALSE
      <4>1. ASSUME NEW outage, Published(outage) PROVE FALSE
        BY <2>1, <4>1 DEF Published
      <4>2. QED
        BY <3>2, <4>1 DEF Update, SilentStep, RestoreStep, ConnectStep, LoseStep, SettleStep,
           WaitStep, DeclareStep
    <3>3. QED
      BY <3>1, <3>2, UpdatingActions DEF Next
  <2>3. /\ shown'.healthy \in BOOLEAN /\ shown.healthy \in BOOLEAN
        /\ shown'.healthy => wifi.once /\ ~wifi.declared
        /\ wifi.once /\ ~wifi.declared => shown'.healthy
    BY <2>1, <2>2, PublishHealthEffect
  <2>4. (shown'.healthy => ~shown.healthy) /\ (~shown'.healthy => shown.healthy)
    <3>1. \A p, q \in BOOLEAN : p # q => (p => ~q) /\ (~p => q)
      OBVIOUS
    <3>2. QED
      BY <2>3, <3>1
  <2>5. pc = "publish"
    BY <2>2 DEF PublishHealth
  <2>6. /\ wifi.state = "DISCONNECTED_PENDING" => shown.healthy
        /\ wifi.state \in {"STARTING", "WAITING_FOR_WIFI"} => ~shown.healthy /\ ~wifi.once
        /\ wifi.state \in {"CONNECTED", "RECOVERED", "DISCONNECTED_PENDING"} => wifi.once
    BY <2>5 DEF IInv, HealthInv
  <2>7. CASE shown'.healthy
    BY <2>1, <2>3, <2>4, <2>6, <2>7 DEF WiFiStates
  <2>8. CASE ~shown'.healthy
    BY <2>1, <2>3, <2>4, <2>6, <2>8 DEF WiFiStates
  <2>9. QED
    BY <2>7, <2>8
<1>2. QED
  BY Invariance, <1>1, PTL DEF Spec, HealthShownLast
=============================================================================
