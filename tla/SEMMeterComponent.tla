--------------------------- MODULE SEMMeterComponent ---------------------------
(***************************************************************************)
(* SEMMeterComponent (sem_meter.cpp): one iteration of loop() as the        *)
(* sequence of updates it applies, each with the event it dispatches, the   *)
(* runtime counter it increments and the entities it publishes one after    *)
(* the other.  The feed of the iteration enters by its result (module       *)
(* FrameAccumulator), the Wi-Fi watchdog by the events it raises (module    *)
(* WiFiWatchdog).  Time may also pass inside the iteration.                 *)
(***************************************************************************)
EXTENDS HealthTracker, RuntimeCounters, Sequences

CONSTANTS
  EvalInterval,      (* WATCHDOG_EVALUATION_INTERVAL_MS                      *)
  PublishInterval,   (* DIAGNOSTIC_PUBLISH_INTERVAL_MS                       *)
  MaxGap,            (* longest time from one iteration to the next          *)
  Horizon            (* how long the model runs; the clock does not wrap     *)

ASSUME ComponentAssumption ==
  /\ EvalInterval \in Nat /\ PublishInterval \in Nat \ {0} /\ MaxGap \in Nat \ {0}
  /\ Horizon \in Nat /\ Horizon < Wrap

VARIABLES
  now,               (* millis()                                             *)
  gap,               (* time since the current iteration began               *)
  pc,                (* the next statement of loop(), "idle" outside         *)
  loopNow,           (* the local variable now of loop()                     *)
  feed,              (* the SEMMeterFeedResult                               *)
  health,            (* health_                                              *)
  simulation,        (* timeout_simulation_enabled_ of watchdog_gate_        *)
  lastEval,          (* last_watchdog_evaluation_ms_                         *)
  lastPublish,       (* last_diagnostic_publish_ms_                          *)
  recoveredAt,       (* recovered_status_timestamp_ms_                       *)
  recoveredActive,   (* recovered_status_active_                             *)
  waitingPublished,  (* waiting_status_published_                            *)
  lastEvent,         (* last_event_ of event_dispatcher_                     *)
  counters,          (* the two fault counts of runtime_counters_            *)
  rejected,          (* what validator_ recorded as rejected last            *)
  wifiOut,           (* outage_declared_ of wifi_health_                     *)
  outbox,            (* the publications under way, in order                 *)
  shown              (* the published states of the entities                 *)

(* History: what the buzzer played and how long RECOVERED has been shown.   *)
VARIABLES warnings, chirps, restoredFor

clock   == <<now, gap>>
tracker == <<health, lastEvent, counters, rejected>>
periodic == <<lastPublish, recoveredAt, recoveredActive, waitingPublished>>
entities == <<outbox, shown, warnings, chirps>>
vars    == <<clock, pc, loopNow, feed, tracker, simulation, lastEval, periodic, wifiOut,
             entities, restoredFor>>

Events == ParserEvents \union {"MALFORMED_FRAME", "INVALID_SENSOR_VALUE",
                               "WIFI_TIMEOUT", "WIFI_RESTORED"}

Statuses == {"STARTING", "WAITING_FOR_FIRST_FRAME", "RECEIVING_DATA", "FRAME_TIMEOUT",
             "RECOVERED"}

(* Rejections by their origin: the cycle validator, a template sensor.      *)
Rejected == {"none", "cycle", "sample"}

(* At most one damaged cycle and one complete cycle in a feed, and no byte   *)
(* dropped, as FrameAccumulatorProofs shows: BUFFER_OVERFLOW is never raised.*)
(* A UART read that failed, or brought nothing, continues like an empty     *)
(* feed.                                                                    *)
FeedResults == [malformed : BOOLEAN, cycle : {"none", "accepted", "rejected"}]
NoFeed      == [malformed |-> FALSE, cycle |-> "none"]

(* setup() dispatches SYSTEM_STARTED and publishes.                         *)
Init ==
  /\ now = 0 /\ gap = 0 /\ loopNow = 0
  /\ pc = "idle" /\ feed = NoFeed
  /\ health = SetupCompleted(BootingTracker, 0).tracker
  /\ lastEvent = "SYSTEM_STARTED"
  /\ counters = [parserFaults |-> 0, wifiFaults |-> 0]
  /\ rejected = "none"
  /\ simulation = FALSE /\ wifiOut = FALSE
  /\ lastEval = 0 /\ lastPublish = 0
  /\ recoveredAt = 0 /\ recoveredActive = FALSE /\ waitingPublished = FALSE
  /\ outbox = << >>
  /\ shown = [status |-> "STARTING", healthy |-> FALSE, state |-> "WAITING_FOR_UART",
              event |-> "SYSTEM_STARTED", outage |-> 0, rejected |-> "none",
              parserFaults |-> 0, wifiFaults |-> 0]
  /\ warnings = 0 /\ chirps = 0 /\ restoredFor = 0

Tick ==
  /\ gap < MaxGap /\ now < Horizon
  /\ now' = now + 1 /\ gap' = gap + 1
  /\ restoredFor' = IF shown.status = "RECOVERED" THEN restoredFor + 1 ELSE 0
  /\ UNCHANGED <<pc, loopNow, feed, tracker, simulation, lastEval, periodic, wifiOut, entities>>

-----------------------------------------------------------------------------
(* Publication.                                                             *)

Item(entity, value) == [entity |-> entity, value |-> value]

HealthTransitions == {"NONE", "SYSTEM_STARTED", "UART_STARTED", "UART_TIMEOUT", "UART_RESTORED"}

(* diagnostic_status_.                                                      *)
DiagnosticStatus(h, event) ==
  CASE event = "SYSTEM_STARTED"       -> "STARTING"
    [] event = "UART_RESTORED"        -> "RECOVERED"
    [] OTHER -> CASE h.state = "BOOTING"          -> "STARTING"
                  [] h.state = "WAITING_FOR_UART" -> "WAITING_FOR_FIRST_FRAME"
                  [] h.state = "RECEIVING_DATA"   -> "RECEIVING_DATA"
                  [] h.state = "DATA_TIMEOUT"     -> "FRAME_TIMEOUT"

(* A mutant: the trigger comes first.                                       *)
TriggerFirst(h, event) ==
  (IF event \in HealthTransitions THEN <<Item("healthy", ParserHealthy(h))>> ELSE << >>)
    \o <<Item("state", h.state), Item("event", event)>>
    \o (IF event \in HealthTransitions
        THEN <<Item("status", DiagnosticStatus(h, event))>> ELSE << >>)

(* The entities publish_immediate_diagnostics_ publishes, in its order.     *)
(* SEM Meter Healthy and UART Healthy always equal SEM Parser Healthy when  *)
(* all three are published and are left out.                                *)
Immediate(h, event) ==
  <<Item("state", h.state), Item("event", event)>>
    \o (IF event \in HealthTransitions
        THEN <<Item("status", DiagnosticStatus(h, event))>>
        ELSE << >>)
    \o (IF event = "UART_RESTORED" /\ h.hadOutage THEN <<Item("outage", h.outage)>> ELSE << >>)
    \o (IF event \in HealthTransitions THEN <<Item("healthy", ParserHealthy(h))>> ELSE << >>)

(* publish_runtime_counters_: the one that changed.                         *)
CounterItems(changed) ==
  LET item(name) == IF name \in changed THEN <<Item(name, Counted(counters, changed)[name])>>
                    ELSE << >>
  IN  item("parserFaults") \o item("wifiFaults")

(* dispatch_event_ and publish_immediate_diagnostics_, then what the caller *)
(* publishes besides.  No listener is registered, so an event is never      *)
(* dropped as re-entrant.  The clock is read again for the recovered status.*)
Dispatch(h, event, besides) ==
  /\ lastEvent' = event
  /\ counters' = Counted(counters, RecordEvent(event))
  /\ outbox' = CounterItems(RecordEvent(event)) \o Immediate(h, event) \o besides
  /\ CASE event = "UART_RESTORED" ->
            /\ recoveredAt' = now
            /\ recoveredActive' = TRUE
       [] event = "UART_TIMEOUT"  ->
            /\ recoveredActive' = FALSE
            /\ UNCHANGED recoveredAt
       [] OTHER -> UNCHANGED <<recoveredAt, recoveredActive>>
  /\ UNCHANGED <<lastPublish, waitingPublished, shown, warnings, chirps>>

(* apply_health_update_: every transition after setup() raises an event, so *)
(* an update without an event publishes nothing.                            *)
Apply(update) ==
  /\ health' = update.tracker
  /\ IF update.event = "NONE"
     THEN UNCHANGED <<lastEvent, counters, periodic, entities>>
     ELSE Dispatch(update.tracker, update.event, << >>)
  /\ UNCHANGED rejected

(* A mutant: a rejection that no event announces is not published.          *)
RejectSilently(what) ==
  /\ rejected' = what
  /\ Dispatch(health, "INVALID_SENSOR_VALUE", << >>)
  /\ UNCHANGED health

(* record_rejection of the validator, and publish_rejection_diagnostics_    *)
(* after the event.                                                         *)
Reject(what) ==
  /\ rejected' = what
  /\ Dispatch(health, "INVALID_SENSOR_VALUE", <<Item("rejected", what)>>)
  /\ UNCHANGED health

(* publish_state of the next entity.  The on_value automation of Last Event *)
(* in sem-meter.yaml plays the buzzer.                                      *)
Deliver ==
  /\ outbox # << >>
  /\ LET item == Head(outbox)
         shows(entity, value) == item.entity = entity /\ item.value = value
     IN  /\ shown' = [shown EXCEPT ![item.entity] = item.value]
         /\ warnings' = warnings + (IF shows("event", "UART_TIMEOUT") THEN 1 ELSE 0)
         /\ chirps' = chirps + (IF shows("event", "UART_RESTORED") THEN 1 ELSE 0)
         /\ restoredFor' = IF shows("status", "RECOVERED") THEN 0 ELSE restoredFor
  /\ outbox' = Tail(outbox)
  /\ UNCHANGED <<clock, pc, loopNow, feed, tracker, simulation, lastEval, periodic, wifiOut>>

-----------------------------------------------------------------------------
(* loop(), statement by statement; each waits for the publications of the   *)
(* one before it.                                                           *)

At(statement) == pc = statement /\ outbox = << >>

Continue(statement) ==
  /\ pc' = statement
  /\ UNCHANGED <<clock, loopNow, feed, simulation, restoredFor>>

BeginLoop ==
  /\ At("idle")
  /\ gap' = 0
  /\ loopNow' = now
  /\ feed' \in FeedResults
  /\ pc' = "malformed"
  /\ UNCHANGED <<now, tracker, simulation, lastEval, periodic, wifiOut, entities, restoredFor>>

MalformedFrame ==
  /\ At("malformed")
  /\ Apply(Update(health, IF feed.malformed THEN "MALFORMED_FRAME" ELSE "NONE"))
  /\ Continue("rejection")
  /\ UNCHANGED <<lastEval, wifiOut>>

ValidationRejection ==
  /\ At("rejection")
  /\ IF feed.cycle = "rejected" THEN Reject("cycle")
     ELSE UNCHANGED <<tracker, periodic, entities>>
  /\ Continue("frame")
  /\ UNCHANGED <<lastEval, wifiOut>>

(* A mutant: the clock is read again for the accepted frame.                *)
AcceptedFrameLate ==
  /\ At("frame")
  /\ Apply(IF feed.cycle = "accepted" THEN RecordAcceptedFrame(health, simulation, now)
           ELSE Update(health, "NONE"))
  /\ Continue("watchdog")
  /\ UNCHANGED <<lastEval, wifiOut>>

AcceptedFrame ==
  /\ At("frame")
  /\ Apply(IF feed.cycle = "accepted" THEN RecordAcceptedFrame(health, simulation, loopNow)
           ELSE Update(health, "NONE"))
  /\ Continue("watchdog")
  /\ UNCHANGED <<lastEval, wifiOut>>

EvaluateWatchdog ==
  /\ At("watchdog")
  /\ IF Elapsed(loopNow, lastEval) < EvalInterval
     THEN UNCHANGED <<tracker, lastEval, periodic, entities>>
     ELSE /\ lastEval' = loopNow
          /\ Apply(CheckTimeout(health, loopNow))
  /\ Continue("wifi")
  /\ UNCHANGED wifiOut

(* The events of the Wi-Fi watchdog alternate (OutagesAlternate there); its *)
(* own entities are those of module WiFiWatchdog.  The self-test, evaluated *)
(* next in loop(), changes nothing modelled here.                           *)
WiFiTransition ==
  /\ wifiOut' = ~wifiOut
  /\ Dispatch(health, IF wifiOut THEN "WIFI_RESTORED" ELSE "WIFI_TIMEOUT", << >>)
  /\ UNCHANGED <<health, rejected, lastEval>>

EvaluateWiFiWatchdog ==
  /\ At("wifi")
  /\ \/ WiFiTransition
     \/ UNCHANGED <<tracker, lastEval, periodic, wifiOut, entities>>
  /\ Continue("periodic")

(* publish_periodic_diagnostics_: the status entity, which returns from     *)
(* RECOVERED and leaves STARTING here.  The counters and ages it publishes  *)
(* besides are left out.                                                    *)
HoldAlways == TRUE   (* a mutant: RECOVERED never ends                      *)
HoldBriefly == FALSE (* a mutant: the next publication ends RECOVERED       *)

HoldRecovered == Elapsed(loopNow, recoveredAt) < PublishInterval

StatusDue ==
  IF recoveredActive /\ ~HoldRecovered
  THEN <<Item("status", DiagnosticStatus(health, "NONE"))>>
  ELSE IF health.state = "WAITING_FOR_UART" /\ ~waitingPublished
       THEN <<Item("status", "WAITING_FOR_FIRST_FRAME")>>
       ELSE << >>

PublishPeriodic ==
  /\ At("periodic")
  /\ IF Elapsed(loopNow, lastPublish) < PublishInterval
     THEN UNCHANGED <<periodic, entities>>
     ELSE /\ lastPublish' = loopNow
          /\ outbox' = StatusDue
          /\ recoveredActive' = (recoveredActive /\ HoldRecovered)
          /\ waitingPublished' =
               (waitingPublished \/ StatusDue = <<Item("status", "WAITING_FOR_FIRST_FRAME")>>)
          /\ UNCHANGED <<recoveredAt, shown, warnings, chirps>>
  /\ Continue("idle")
  /\ UNCHANGED <<tracker, lastEval, wifiOut>>

Loop ==
  \/ BeginLoop \/ MalformedFrame \/ ValidationRejection \/ AcceptedFrame
  \/ EvaluateWatchdog \/ EvaluateWiFiWatchdog \/ PublishPeriodic

-----------------------------------------------------------------------------
(* Between two iterations.                                                  *)

Idle == UNCHANGED <<clock, pc, loopNow, feed, restoredFor>>

(* validate_sensor_value rejects the sample of a template sensor.           *)
RejectSample ==
  /\ At("idle")
  /\ Reject("sample")
  /\ UNCHANGED <<lastEval, simulation, wifiOut>>
  /\ Idle

(* set_wifi_connected and set_wifi_timeout_simulation.                      *)
WiFiCallback ==
  /\ At("idle")
  /\ WiFiTransition
  /\ UNCHANGED simulation
  /\ Idle

SetParserTimeoutSimulation ==
  /\ At("idle")
  /\ simulation' = ~simulation
  /\ UNCHANGED <<tracker, lastEval, periodic, wifiOut, entities>>
  /\ Idle

Next ==
  \/ Tick \/ Deliver \/ Loop
  \/ RejectSample \/ WiFiCallback \/ SetParserTimeoutSimulation

Spec == Init /\ [][Next]_vars

-----------------------------------------------------------------------------
TypeOK ==
  /\ now \in 0 .. Horizon /\ gap \in 0 .. MaxGap /\ loopNow \in 0 .. Horizon
  /\ pc \in {"idle", "malformed", "rejection", "frame", "watchdog", "wifi", "periodic"}
  /\ feed \in FeedResults
  /\ health \in Tracker
  /\ simulation \in BOOLEAN /\ wifiOut \in BOOLEAN
  /\ lastEval \in 0 .. Horizon /\ lastPublish \in 0 .. Horizon /\ recoveredAt \in 0 .. Horizon
  /\ recoveredActive \in BOOLEAN /\ waitingPublished \in BOOLEAN
  /\ lastEvent \in Events
  /\ counters \in [{"parserFaults", "wifiFaults"} -> CounterValues]
  /\ rejected \in Rejected
  /\ shown \in [status : Statuses, healthy : BOOLEAN, state : ParserStates, event : Events,
                outage : Timestamps, rejected : Rejected, parserFaults : CounterValues,
                wifiFaults : CounterValues]
  /\ warnings \in Nat /\ chirps \in Nat /\ restoredFor \in Nat

AtRest == pc = "idle" /\ outbox = << >>

(* After every iteration, and after every callback, Home Assistant shows    *)
(* what the firmware knows: health, state, last event, fault counts and     *)
(* last rejection; the status text never contradicts the state, and         *)
(* RECOVERED stays on it exactly as long as the component means to hold it. *)
EntitiesAgree ==
  AtRest =>
    /\ shown.healthy <=> ParserHealthy(health)
    /\ shown.state = health.state
    /\ shown.event = lastEvent
    /\ shown.rejected = rejected
    /\ \A name \in DOMAIN counters : shown[name] = counters[name]
    /\ shown.status \in
         (CASE health.state = "WAITING_FOR_UART" -> {"STARTING", "WAITING_FOR_FIRST_FRAME"}
            [] health.state = "RECEIVING_DATA"   -> {"RECEIVING_DATA", "RECOVERED"}
            [] OTHER                             -> {"FRAME_TIMEOUT"})
    /\ shown.status = "RECOVERED" <=> recoveredActive

(* The comment in publish_immediate_diagnostics_: SEM Parser Healthy, which *)
(* triggers automations, changes only after the status, the event and the   *)
(* outage duration it belongs to.                                           *)
TriggerLast ==
  [][ ~(shown'.healthy <=> shown.healthy) =>
        IF shown'.healthy
        THEN /\ shown.status \in {"RECEIVING_DATA", "RECOVERED"}
             /\ shown.event = (IF health.hadOutage THEN "UART_RESTORED" ELSE "UART_STARTED")
             /\ shown.outage = health.outage
        ELSE shown.status = "FRAME_TIMEOUT" /\ shown.event = "UART_TIMEOUT" ]_vars

(* The buzzer warns once per outage and chirps once per recovery, whatever  *)
(* other events are published meanwhile; the fault count agrees, modulo its *)
(* width.                                                                   *)
BuzzerOncePerOutage ==
  AtRest =>
    /\ counters["parserFaults"] = warnings % CounterWrap
    /\ warnings - chirps = (IF health.state = "DATA_TIMEOUT" THEN 1 ELSE 0)

(* RECOVERED ends: the first periodic publication that finds it old enough  *)
(* replaces it, which may be almost two intervals after the recovery, plus  *)
(* what an iteration begun and one under way can add.                       *)
RecoveredEnds ==
  shown.status = "RECOVERED" => restoredFor <= 2 * (PublishInterval + MaxGap - 1)

(* It ends early in one way only, in the iteration that published it, when  *)
(* the clock advanced between the start of loop() and the event.  Otherwise *)
(* it is shown for an interval, less what delivering it may take.           *)
RecoveredCutAtOnce ==
  [][ shown.status = "RECOVERED" /\ shown'.status = "RECEIVING_DATA"
        => restoredFor >= PublishInterval - MaxGap \/ recoveredAt > loopNow ]_vars

(* docs/diagnostics.md: RECOVERED remains visible for one diagnostic update *)
(* interval, then returns to RECEIVING_DATA.                                *)
RecoveredVisible ==
  [][ shown.status = "RECOVERED" /\ shown'.status = "RECEIVING_DATA"
        => restoredFor >= PublishInterval ]_vars

=============================================================================
