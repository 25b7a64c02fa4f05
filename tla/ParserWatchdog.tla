---------------------------- MODULE ParserWatchdog ----------------------------
(***************************************************************************)
(* The parser watchdog as SEMMeterComponent::loop() drives it: accepted    *)
(* cycles reach the health tracker through the simulation gate, and the    *)
(* timeout is evaluated at most once per EvalInterval.  The millisecond    *)
(* clock wraps around.                                                     *)
(***************************************************************************)
EXTENDS HealthTracker, Sequences

CONSTANTS
  EvalInterval,    (* WATCHDOG_EVALUATION_INTERVAL_MS                       *)
  MaxGap,          (* longest time between two iterations of the main loop  *)
  BootTimes        (* the values millis() may have in setup()               *)

ASSUME LoopAssumption ==
  /\ EvalInterval \in Nat \ {0}
  /\ MaxGap \in Nat \ {0}
  /\ BootTimes \subseteq Timestamps
  /\ UartTimeout + EvalInterval + MaxGap < Wrap
  /\ StartupGrace + EvalInterval + MaxGap < Wrap

VARIABLES
  now,             (* millis()                                              *)
  gap,             (* time since the last iteration of the main loop        *)
  health,          (* health_                                               *)
  simulation,      (* timeout_simulation_enabled_ of watchdog_gate_         *)
  lastEval,        (* last_watchdog_evaluation_ms_                          *)
  event            (* what the last iteration raised, in order              *)

(* History: true time, which does not wrap but stops counting at Wrap.      *)
VARIABLES
  silence,         (* since the tracker last saw a frame, or since setup    *)
  overdue,         (* since the outage began                                *)
  openOutages      (* UART_TIMEOUT events not yet answered by UART_RESTORED *)

vars == <<now, gap, health, simulation, lastEval, event, silence, overdue, openOutages>>

Later(t) == IF t < Wrap THEN t + 1 ELSE t

(* setup(): the tracker leaves BOOTING before the first iteration.          *)
Init ==
  /\ now \in BootTimes
  /\ health = SetupCompleted(BootingTracker, now).tracker
  /\ gap = 0
  /\ simulation = FALSE
  /\ lastEval = now
  /\ event = << >>
  /\ silence = 0 /\ overdue = 0 /\ openOutages = 0

Tick ==
  /\ gap < MaxGap
  /\ now' = (now + 1) % Wrap
  /\ gap' = gap + 1
  /\ silence' = Later(silence)
  /\ overdue' = IF openOutages > 0 THEN Later(overdue) ELSE 0
  /\ event' = << >>
  /\ UNCHANGED <<health, simulation, lastEval, openOutages>>

(* A mutant: the evaluation comes one unit late.                            *)
EvaluationLate == Elapsed(now, lastEval) > EvalInterval

(* evaluate_watchdog_: the tracker after it, and whether it was due.        *)
EvaluationDue == Elapsed(now, lastEval) >= EvalInterval

Evaluated(h) == IF EvaluationDue THEN CheckTimeout(h, now) ELSE Update(h, "NONE")

Raised(first, second) ==
  (IF first = "NONE" THEN << >> ELSE <<first>>) \o (IF second = "NONE" THEN << >> ELSE <<second>>)

(* One iteration of loop(): with an accepted cycle or, when the feed        *)
(* accepted nothing or the UART read failed, without one.                   *)
Iterate(frame) ==
  LET fed     == IF frame THEN RecordAcceptedFrame(health, simulation, now)
                 ELSE Update(health, "NONE")
      checked == Evaluated(fed.tracker)
  IN  /\ health' = checked.tracker
      /\ event' = Raised(fed.event, checked.event)
      /\ lastEval' = IF EvaluationDue THEN now ELSE lastEval
      /\ gap' = 0
      /\ silence' = IF frame /\ ~simulation THEN 0 ELSE silence
      /\ overdue' = IF checked.event = "UART_TIMEOUT"
                    THEN IF health.seenFrame THEN silence ELSE 0
                    ELSE overdue
      /\ openOutages' = openOutages
                        - (IF fed.event = "UART_RESTORED" THEN 1 ELSE 0)
                        + (IF checked.event = "UART_TIMEOUT" THEN 1 ELSE 0)
      /\ UNCHANGED <<now, simulation>>

Loop == \E frame \in BOOLEAN : Iterate(frame)

(* set_parser_timeout_simulation, from the switch, between two iterations.  *)
SetSimulation ==
  /\ simulation' = ~simulation
  /\ event' = << >>
  /\ UNCHANGED <<now, gap, health, lastEval, silence, overdue, openOutages>>

Next == Tick \/ Loop \/ SetSimulation

Spec == Init /\ [][Next]_vars

-----------------------------------------------------------------------------
TypeOK ==
  /\ now \in Timestamps /\ lastEval \in Timestamps
  /\ gap \in 0 .. MaxGap
  /\ health \in Tracker
  /\ simulation \in BOOLEAN
  /\ silence \in 0 .. Wrap /\ overdue \in 0 .. Wrap
  /\ openOutages \in Nat

Occurred(e) == \E i \in DOMAIN event : event[i] = e

(* The silence the tracker tolerates in its present state.                  *)
Limit == IF health.seenFrame THEN UartTimeout ELSE StartupGrace

(* No false alarm: a timeout is raised only after that much true silence,   *)
(* across a wrap of the clock, the grace period and the simulation.         *)
NoEarlyTimeout == Occurred("UART_TIMEOUT") => silence >= Limit

(* Bounded detection: the parser is reported healthy, or still waiting for  *)
(* its first frame, only while the silence is below the limit plus what the *)
(* evaluation interval and one main-loop gap can add.                       *)
DetectionBounded ==
  silence >= Limit + EvalInterval + MaxGap - 1 => health.state = "DATA_TIMEOUT"

(* A continuing outage stays silent and a recovery is announced only after  *)
(* a loss: UART_TIMEOUT and UART_RESTORED alternate.                        *)
OutagesAlternate ==
  openOutages = (IF health.state = "DATA_TIMEOUT" THEN 1 ELSE 0)

(* The outage duration published with UART_RESTORED is the true one, from   *)
(* the last accepted frame (or the expiry of the grace period), as long as  *)
(* it is shorter than a turn of the clock.                                  *)
OutageMeasured ==
  Occurred("UART_RESTORED") /\ overdue < Wrap => health.outage = overdue

=============================================================================
