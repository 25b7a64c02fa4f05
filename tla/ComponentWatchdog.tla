-------------------------- MODULE ComponentWatchdog --------------------------
(***************************************************************************)
(* The statements of SEMMeterComponent's loop() implement the parser        *)
(* watchdog of module ParserWatchdog, in which an iteration is one step.    *)
(* That step is taken when the iteration begins: what the iteration has yet *)
(* to do to the tracker is known as soon as its feed and its timestamp are, *)
(* because no callback runs until loop() returns.                           *)
(***************************************************************************)
EXTENDS SEMMeterComponent

ASSUME WatchdogAssumption ==
  /\ EvalInterval > 0
  /\ UartTimeout + EvalInterval + MaxGap < Wrap
  /\ StartupGrace + EvalInterval + MaxGap < Wrap

(* History, as in ParserWatchdog: what the iteration raises, and true time. *)
VARIABLES raised, silence, overdue, openOutages

history     == <<raised, silence, overdue, openOutages>>
watchedVars == <<vars, history>>

(* The tracker once the accepted cycle of the iteration under way, if any,  *)
(* and its watchdog evaluation, if it is due, have reached it.              *)
Fed(h) ==
  IF feed.cycle = "accepted" THEN RecordAcceptedFrame(h, simulation, loopNow)
  ELSE Update(h, "NONE")

EvaluationDue == Elapsed(loopNow, lastEval) >= EvalInterval

Evaluated(h) == IF EvaluationDue THEN CheckTimeout(h, loopNow) ELSE Update(h, "NONE")

Unfed       == pc \in {"malformed", "rejection", "frame"}
Unevaluated == Unfed \/ pc = "watchdog"

HealthAhead ==
  IF Unfed THEN Evaluated(Fed(health).tracker).tracker
  ELSE IF Unevaluated THEN Evaluated(health).tracker
  ELSE health

LastEvalAhead == IF Unevaluated /\ EvaluationDue THEN loopNow ELSE lastEval

Watchdog == INSTANCE ParserWatchdog
  WITH health <- HealthAhead, lastEval <- LastEvalAhead, event <- raised, BootTimes <- {0}

-----------------------------------------------------------------------------
WatchedInit ==
  Init /\ raised = << >> /\ silence = 0 /\ overdue = 0 /\ openOutages = 0

WatchedTick ==
  /\ Tick
  /\ raised' = << >>
  /\ silence' = Watchdog!Later(silence)
  /\ overdue' = IF openOutages > 0 THEN Watchdog!Later(overdue) ELSE 0
  /\ UNCHANGED openOutages

(* What the iteration that begins will raise.                               *)
WatchedBegin ==
  /\ BeginLoop
  /\ LET fed     == Fed(health)'
         checked == Evaluated(Fed(health).tracker)'
     IN  /\ raised' = Watchdog!Raised(fed.event, checked.event)
         /\ silence' = IF feed'.cycle = "accepted" /\ ~simulation THEN 0 ELSE silence
         /\ overdue' = IF checked.event = "UART_TIMEOUT"
                       THEN IF health.seenFrame THEN silence ELSE 0
                       ELSE overdue
         /\ openOutages' = openOutages
                           - (IF fed.event = "UART_RESTORED" THEN 1 ELSE 0)
                           + (IF checked.event = "UART_TIMEOUT" THEN 1 ELSE 0)

WatchedSimulation ==
  /\ SetParserTimeoutSimulation
  /\ raised' = << >>
  /\ UNCHANGED <<silence, overdue, openOutages>>

WatchedStatement ==
  /\ \/ Deliver
     \/ MalformedFrame \/ ValidationRejection \/ AcceptedFrame
     \/ EvaluateWatchdog \/ EvaluateWiFiWatchdog \/ PublishPeriodic
     \/ RejectSample \/ WiFiCallback
  /\ UNCHANGED history

WatchedNext == WatchedTick \/ WatchedBegin \/ WatchedSimulation \/ WatchedStatement

WatchedSpec == WatchedInit /\ [][WatchedNext]_watchedVars

-----------------------------------------------------------------------------
(* The loop is the parser watchdog: an accepted frame and the evaluation    *)
(* after it reach the tracker as one step, whatever is dispatched,          *)
(* published or called back between them and however long that takes.       *)
RunsWatchdog == Watchdog!Spec

(* From the meter to the screen, by true time: at rest Home Assistant shows *)
(* FRAME_TIMEOUT only after the tolerated silence, and when the silence is  *)
(* longer than that by an evaluation interval and a gap, nothing else.      *)
AlarmTruthful ==
  AtRest =>
    /\ shown.status = "FRAME_TIMEOUT" => silence >= Watchdog!Limit
    /\ silence >= Watchdog!Limit + EvalInterval + MaxGap - 1 =>
         shown.status = "FRAME_TIMEOUT" /\ ~shown.healthy

=============================================================================
