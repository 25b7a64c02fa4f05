------------------------- MODULE ParserWatchdogProofs -------------------------
(***************************************************************************)
(* The safety properties of ParserWatchdog hold for every clock width,     *)
(* timeout, grace period, evaluation interval and gap that satisfy         *)
(* LoopAssumption.                                                         *)
(***************************************************************************)
EXTENDS ParserWatchdog, MillisProofs

-----------------------------------------------------------------------------
(* What one iteration of the main loop can do.  The five ways exclude a     *)
(* recovery and a timeout in the same iteration.                           *)

Accepted ==
  [health EXCEPT !.lastFrame = now, !.seenFrame = TRUE, !.state = "RECEIVING_DATA"]

Same == UNCHANGED <<silence, overdue, openOutages>>

(* A frame outside an outage.                                              *)
FrameStep ==
  /\ health.state # "DATA_TIMEOUT"
  /\ health' = Accepted
  /\ \E e \in {"NONE", "UART_STARTED"} : event' = Raised(e, "NONE")
  /\ silence' = 0 /\ UNCHANGED <<overdue, openOutages>>

(* A frame that ends an outage.                                            *)
RestoreStep ==
  /\ health.state = "DATA_TIMEOUT"
  /\ health' = [Accepted EXCEPT !.outage = Elapsed(now, health.outageAt), !.hadOutage = TRUE]
  /\ event' = Raised("UART_RESTORED", "NONE")
  /\ silence' = 0 /\ openOutages' = openOutages - 1 /\ UNCHANGED overdue

(* The grace period expires, or the frames have stopped.                   *)
TimeoutStep(expired, since) ==
  /\ expired /\ EvaluationDue
  /\ health' = [health EXCEPT !.outageAt = since, !.state = "DATA_TIMEOUT"]
  /\ event' = Raised("NONE", "UART_TIMEOUT")
  /\ silence' = silence
  /\ overdue' = IF health.seenFrame THEN silence ELSE 0
  /\ openOutages' = openOutages + 1

GraceStep   == TimeoutStep(GraceExpired(health, now), now)
StoppedStep == TimeoutStep(FramesStopped(health, now), health.lastFrame)

QuietStep ==
  /\ EvaluationDue => ~GraceExpired(health, now) /\ ~FramesStopped(health, now)
  /\ health' = health
  /\ event' = Raised("NONE", "NONE")
  /\ Same

IterationStep == FrameStep \/ RestoreStep \/ GraceStep \/ StoppedStep \/ QuietStep

(* The clock, the simulation and the evaluation timestamp.                 *)
Bookkeeping ==
  /\ lastEval' = IF EvaluationDue THEN now ELSE lastEval
  /\ gap' = 0
  /\ UNCHANGED <<now, simulation>>

(* An accepted frame cannot have been followed by silence: the evaluation  *)
(* in the same iteration finds no timeout.                                 *)
LEMMA FreshFrame ==
  ASSUME NEW h, h.state = "RECEIVING_DATA", h.lastFrame = now, now \in Timestamps
  PROVE  Evaluated(h) = Update(h, "NONE")
<1>1. ~GraceExpired(h, now)
  BY DEF GraceExpired
<1>2. Elapsed(now, h.lastFrame) = 0
  BY ElapsedZero
<1>3. ~FramesStopped(h, now)
  BY <1>2, ParserTimingAssumption DEF FramesStopped
<1>4. CheckTimeout(h, now) = Update(h, "NONE")
  BY <1>1, <1>3 DEF CheckTimeout
<1>5. QED
  BY <1>4 DEF Evaluated

(* Every iteration is one of the five.                                     *)
LEMMA IterationEffect ==
  ASSUME TypeOK, NEW frame \in BOOLEAN, Iterate(frame)
  PROVE  IterationStep /\ Bookkeeping
<1> DEFINE fed     == IF frame THEN RecordAcceptedFrame(health, simulation, now)
                      ELSE Update(health, "NONE")
           checked == Evaluated(fed.tracker)
<1>1. /\ health' = checked.tracker
      /\ event' = Raised(fed.event, checked.event)
      /\ silence' = IF frame /\ ~simulation THEN 0 ELSE silence
      /\ overdue' = IF checked.event = "UART_TIMEOUT"
                    THEN IF health.seenFrame THEN silence ELSE 0
                    ELSE overdue
      /\ openOutages' = openOutages
                        - (IF fed.event = "UART_RESTORED" THEN 1 ELSE 0)
                        + (IF checked.event = "UART_TIMEOUT" THEN 1 ELSE 0)
  BY DEF Iterate
<1>2. Bookkeeping
  BY DEF Iterate, Bookkeeping
<1>3. now \in Timestamps /\ openOutages \in Nat /\ health \in Tracker /\ simulation \in BOOLEAN
  BY DEF TypeOK
<1>4. CASE frame /\ ~simulation
  <2>1. fed = RecordValidFrame(health, now)
    BY <1>4 DEF RecordAcceptedFrame
  <2>2. silence' = 0
    BY <1>1, <1>4
  <2>3. CASE health.state = "DATA_TIMEOUT"
    <3>1. fed = Update([Accepted EXCEPT !.outage = Elapsed(now, health.outageAt),
                                        !.hadOutage = TRUE], "UART_RESTORED")
      BY <2>1, <2>3 DEF RecordValidFrame, Accepted
    <3>2. /\ fed.event = "UART_RESTORED"
          /\ fed.tracker = [Accepted EXCEPT !.outage = Elapsed(now, health.outageAt),
                                            !.hadOutage = TRUE]
      BY <3>1 DEF Update
    <3>3. fed.tracker.state = "RECEIVING_DATA" /\ fed.tracker.lastFrame = now
      BY <1>3, <3>2 DEF Accepted, Tracker
    <3>4. checked = Update(fed.tracker, "NONE")
      BY <1>3, <3>3, FreshFrame
    <3>5. checked.tracker = fed.tracker /\ checked.event = "NONE"
      BY <3>4 DEF Update
    <3>6. RestoreStep
      BY <1>1, <1>3, <2>2, <2>3, <3>2, <3>5 DEF RestoreStep
    <3>7. QED
      BY <1>2, <3>6 DEF IterationStep
  <2>4. CASE health.state # "DATA_TIMEOUT"
    <3>1. PICK e \in {"NONE", "UART_STARTED"} : fed = Update(Accepted, e)
      BY <2>1, <2>4 DEF RecordValidFrame, Accepted
    <3>2. fed.event = e /\ fed.tracker = Accepted
      BY <3>1 DEF Update
    <3>3. fed.tracker.state = "RECEIVING_DATA" /\ fed.tracker.lastFrame = now
      BY <1>3, <3>2 DEF Accepted, Tracker
    <3>4. checked = Update(fed.tracker, "NONE")
      BY <1>3, <3>3, FreshFrame
    <3>5. checked.tracker = fed.tracker /\ checked.event = "NONE"
      BY <3>4 DEF Update
    <3>6. FrameStep
      BY <1>1, <1>3, <2>2, <2>4, <3>1, <3>2, <3>5 DEF FrameStep
    <3>7. QED
      BY <1>2, <3>6 DEF IterationStep
  <2>5. QED
    BY <2>3, <2>4
<1>5. CASE ~(frame /\ ~simulation)
  <2>1. fed = Update(health, "NONE")
    BY <1>3, <1>5 DEF RecordAcceptedFrame
  <2>2. fed.tracker = health /\ fed.event = "NONE"
    BY <2>1 DEF Update
  <2>3. silence' = silence
    BY <1>1, <1>5
  <2>4. CASE EvaluationDue /\ GraceExpired(health, now)
    <3>1. checked = DeclareTimeout(health, now)
      BY <2>2, <2>4 DEF Evaluated, CheckTimeout
    <3>2. /\ checked.tracker = [health EXCEPT !.outageAt = now, !.state = "DATA_TIMEOUT"]
          /\ checked.event = "UART_TIMEOUT"
      BY <3>1 DEF DeclareTimeout, Update
    <3>3. GraceStep
      BY <1>1, <1>3, <2>2, <2>3, <2>4, <3>2 DEF GraceStep, TimeoutStep
    <3>4. QED
      BY <1>2, <3>3 DEF IterationStep
  <2>5. CASE EvaluationDue /\ ~GraceExpired(health, now) /\ FramesStopped(health, now)
    <3>1. checked = DeclareTimeout(health, health.lastFrame)
      BY <2>2, <2>5 DEF Evaluated, CheckTimeout
    <3>2. /\ checked.tracker = [health EXCEPT !.outageAt = health.lastFrame,
                                              !.state = "DATA_TIMEOUT"]
          /\ checked.event = "UART_TIMEOUT"
      BY <3>1 DEF DeclareTimeout, Update
    <3>3. StoppedStep
      BY <1>1, <1>3, <2>2, <2>3, <2>5, <3>2 DEF StoppedStep, TimeoutStep
    <3>4. QED
      BY <1>2, <3>3 DEF IterationStep
  <2>6. CASE EvaluationDue => ~GraceExpired(health, now) /\ ~FramesStopped(health, now)
    <3>1. checked = Update(health, "NONE")
      BY <2>2, <2>6 DEF Evaluated, CheckTimeout
    <3>2. checked.tracker = health /\ checked.event = "NONE"
      BY <3>1 DEF Update
    <3>3. QuietStep
      BY <1>1, <1>3, <2>2, <2>3, <2>6, <3>2 DEF QuietStep, Same
    <3>4. QED
      BY <1>2, <3>3 DEF IterationStep
  <2>7. QED
    BY <2>4, <2>5, <2>6
<1>6. QED
  BY <1>4, <1>5

-----------------------------------------------------------------------------
(* The inductive invariant: each timestamp against the true time since it  *)
(* was taken.                                                              *)

(* The timestamp the silence is measured from.                             *)
Anchor == IF health.seenFrame THEN health.lastFrame ELSE health.setupAt

StateInv ==
  /\ health.state \in {"WAITING_FOR_UART", "RECEIVING_DATA", "DATA_TIMEOUT"}
  /\ health.state = "WAITING_FOR_UART" => ~health.seenFrame
  /\ health.state = "RECEIVING_DATA" => health.seenFrame

SilenceInv == silence < Wrap => Elapsed(now, Anchor) = silence

(* The last evaluation is not long ago, ...                                *)
EvaluationInv == Elapsed(now, lastEval) <= EvalInterval - 1 + gap

(* ... and has found the silence below the limit.                          *)
DeadlineInv == health.state # "DATA_TIMEOUT" => silence < Limit + Elapsed(now, lastEval)

OverdueInv ==
  health.state = "DATA_TIMEOUT" /\ overdue < Wrap => Elapsed(now, health.outageAt) = overdue

IInv ==
  /\ TypeOK /\ StateInv /\ SilenceInv /\ EvaluationInv /\ DeadlineInv /\ OverdueInv
  /\ OutagesAlternate /\ NoEarlyTimeout /\ OutageMeasured

(* The limits are positive and reached before the clock turns.              *)
LEMMA LimitFacts ==
  /\ Limit \in Nat \ {0}
  /\ EvalInterval \in Nat \ {0} /\ MaxGap \in Nat \ {0} /\ Wrap \in Nat \ {0}
  /\ Limit + EvalInterval + MaxGap < Wrap
<1>1. CASE health.seenFrame
  BY <1>1, LoopAssumption, ParserTimingAssumption, WrapAssumption DEF Limit
<1>2. CASE ~health.seenFrame
  BY <1>2, LoopAssumption, ParserTimingAssumption, WrapAssumption DEF Limit
<1>3. QED
  BY <1>1, <1>2

(* An iteration that raises at most one event raises the one it names.      *)
LEMMA RaisedEvents ==
  ASSUME NEW e, NEW f, e = "NONE" \/ f = "NONE"
  PROVE  \A i \in DOMAIN Raised(e, f) : Raised(e, f)[i] # "NONE" /\ Raised(e, f)[i] \in {e, f}
<1>1. CASE e = "NONE" /\ f = "NONE"
  BY <1>1 DEF Raised
<1>2. CASE e # "NONE" /\ f = "NONE"
  BY <1>2 DEF Raised
<1>3. CASE e = "NONE" /\ f # "NONE"
  BY <1>3 DEF Raised
<1>4. QED
  BY <1>1, <1>2, <1>3

(* setup() establishes the invariant.                                      *)
LEMMA InitInvariant == Init => IInv
<1> SUFFICES ASSUME Init PROVE IInv
  OBVIOUS
<1>1. /\ now \in Timestamps /\ lastEval = now /\ gap = 0 /\ simulation = FALSE
      /\ silence = 0 /\ overdue = 0 /\ openOutages = 0 /\ event = << >>
  BY LoopAssumption DEF Init
<1>2. health = [BootingTracker EXCEPT !.setupAt = now, !.state = "WAITING_FOR_UART"]
  <2>1. BootingTracker.state = "BOOTING"
    BY DEF BootingTracker
  <2>2. SetupCompleted(BootingTracker, now)
          = Update([BootingTracker EXCEPT !.setupAt = now, !.state = "WAITING_FOR_UART"],
                   "SYSTEM_STARTED")
    BY <2>1 DEF SetupCompleted
  <2>3. QED
    BY <2>2 DEF Init, Update
<1>3. /\ health.state = "WAITING_FOR_UART" /\ health.seenFrame = FALSE
      /\ health.setupAt = now
  BY <1>2 DEF BootingTracker
<1>4. TypeOK
  <2>1. 0 \in Timestamps /\ 0 \in 0 .. MaxGap /\ 0 \in 0 .. Wrap
    BY LoopAssumption, WrapAssumption DEF Timestamps
  <2>2. health = [state |-> "WAITING_FOR_UART", setupAt |-> now, lastFrame |-> 0,
                  seenFrame |-> FALSE, outageAt |-> 0, outage |-> 0, hadOutage |-> FALSE]
    BY <1>2 DEF BootingTracker
  <2>3. health \in Tracker
    BY <1>1, <2>1, <2>2, Zenon DEF Tracker, ParserStates
  <2>4. QED
    BY <1>1, <2>1, <2>3 DEF TypeOK
<1>5. StateInv /\ OutagesAlternate /\ OverdueInv
  BY <1>1, <1>3 DEF StateInv, OutagesAlternate, OverdueInv
<1>6. Elapsed(now, now) = 0
  BY <1>1, ElapsedZero
<1>7. SilenceInv /\ EvaluationInv
  BY <1>1, <1>3, <1>6, LoopAssumption DEF SilenceInv, Anchor, EvaluationInv
<1>8. DeadlineInv
  BY <1>1, <1>6, LimitFacts DEF DeadlineInv
<1>9. NoEarlyTimeout /\ OutageMeasured
  BY <1>1 DEF NoEarlyTimeout, OutageMeasured, Occurred
<1>10. QED
  BY <1>4, <1>5, <1>7, <1>8, <1>9 DEF IInv

(* Time passes.                                                            *)
LEMMA TickInvariant == IInv /\ Tick => IInv'
<1> SUFFICES ASSUME IInv, Tick PROVE IInv'
  OBVIOUS
<1>1. /\ now' = (now + 1) % Wrap /\ gap' = gap + 1 /\ gap < MaxGap
      /\ silence' = Later(silence)
      /\ overdue' = (IF openOutages > 0 THEN Later(overdue) ELSE 0)
      /\ event' = << >>
      /\ health' = health /\ simulation' = simulation /\ lastEval' = lastEval
      /\ openOutages' = openOutages
  BY DEF Tick
<1>2. /\ now \in Timestamps /\ lastEval \in Timestamps /\ gap \in 0 .. MaxGap
      /\ health \in Tracker /\ simulation \in BOOLEAN
      /\ silence \in 0 .. Wrap /\ overdue \in 0 .. Wrap /\ openOutages \in Nat
  BY DEF IInv, TypeOK
<1>3. Anchor \in Timestamps /\ health.outageAt \in Timestamps
  BY <1>2 DEF Anchor, Tracker
<1>4. now' \in Timestamps
  BY <1>1, <1>2, ClockType
<1>5. \A s \in Timestamps : Elapsed(now, s) + 1 < Wrap => Elapsed(now', s) = Elapsed(now, s) + 1
  BY <1>1, <1>2, ElapsedNext
<1>6. Elapsed(now, lastEval) \in Timestamps
  BY <1>2, ElapsedType
<1>7. silence' \in 0 .. Wrap /\ overdue' \in 0 .. Wrap
  BY <1>1, <1>2, WrapAssumption DEF Later
<1>8. TypeOK'
  BY <1>1, <1>2, <1>4, <1>7, LoopAssumption DEF TypeOK
<1>9. StateInv' /\ OutagesAlternate'
  BY <1>1 DEF IInv, StateInv, OutagesAlternate
<1>10. SilenceInv'
  <2> SUFFICES ASSUME silence' < Wrap PROVE Elapsed(now', Anchor) = silence'
    BY <1>1 DEF SilenceInv, Anchor
  <2>1. silence' = silence + 1 /\ silence < Wrap
    BY <1>1, <1>2, WrapAssumption DEF Later
  <2>2. Elapsed(now, Anchor) = silence
    BY <2>1 DEF IInv, SilenceInv
  <2>3. QED
    BY <1>3, <1>5, <2>1, <2>2
<1>11. Elapsed(now', lastEval) = Elapsed(now, lastEval) + 1
  <2>1. Elapsed(now, lastEval) <= EvalInterval - 1 + gap
    BY DEF IInv, EvaluationInv
  <2>2. Elapsed(now, lastEval) + 1 < Wrap
    BY <1>1, <1>2, <1>6, <2>1, LimitFacts DEF Timestamps
  <2>3. QED
    BY <1>2, <1>5, <2>2
<1>12. EvaluationInv'
  BY <1>1, <1>2, <1>6, <1>11, LimitFacts DEF IInv, EvaluationInv, Timestamps
<1>13. DeadlineInv'
  <2>1. Limit' = Limit
    BY <1>1 DEF Limit
  <2>2. silence' <= silence + 1
    BY <1>1, <1>2 DEF Later
  <2>3. QED
    BY <1>1, <1>2, <1>6, <1>7, <1>11, <2>1, <2>2, LimitFacts DEF IInv, DeadlineInv, Timestamps
<1>14. OverdueInv'
  <2> SUFFICES ASSUME health.state = "DATA_TIMEOUT", overdue' < Wrap
               PROVE  Elapsed(now', health.outageAt) = overdue'
    BY <1>1 DEF OverdueInv
  <2>1. openOutages = 1
    BY DEF IInv, OutagesAlternate
  <2>2. overdue' = overdue + 1 /\ overdue < Wrap
    BY <1>1, <1>2, <2>1, WrapAssumption DEF Later
  <2>3. Elapsed(now, health.outageAt) = overdue
    BY <2>2 DEF IInv, OverdueInv
  <2>4. QED
    BY <1>3, <1>5, <2>2, <2>3
<1>15. NoEarlyTimeout' /\ OutageMeasured'
  BY <1>1 DEF NoEarlyTimeout, OutageMeasured, Occurred
<1>16. QED
  BY <1>8, <1>9, <1>10, <1>12, <1>13, <1>14, <1>15 DEF IInv

(* The simulation is switched.                                             *)
LEMMA SetSimulationInvariant == IInv /\ SetSimulation => IInv'
<1> SUFFICES ASSUME IInv, SetSimulation PROVE IInv'
  OBVIOUS
<1>1. TypeOK'
  BY DEF IInv, TypeOK, SetSimulation
<1>2. NoEarlyTimeout' /\ OutageMeasured'
  BY DEF NoEarlyTimeout, OutageMeasured, Occurred, SetSimulation
<1>3. QED
  BY <1>1, <1>2 DEF IInv, SetSimulation, StateInv, SilenceInv, Anchor, EvaluationInv,
     DeadlineInv, Limit, OverdueInv, OutagesAlternate

(* As long as no outage is declared, the silence is short enough to be     *)
(* read off the clock.                                                     *)
LEMMA SilenceRead ==
  ASSUME IInv, health.state # "DATA_TIMEOUT"
  PROVE  silence \in Nat /\ Elapsed(now, Anchor) = silence
<1>1. /\ gap \in 0 .. MaxGap /\ silence \in 0 .. Wrap
      /\ now \in Timestamps /\ lastEval \in Timestamps
  BY DEF IInv, TypeOK
<1>2. Elapsed(now, lastEval) \in Int
  BY <1>1, ElapsedType DEF Timestamps
<1>3. silence < Limit + Elapsed(now, lastEval)
  BY DEF IInv, DeadlineInv
<1>4. Elapsed(now, lastEval) <= EvalInterval - 1 + gap
  BY DEF IInv, EvaluationInv
<1>5. silence < Wrap
  BY <1>1, <1>2, <1>3, <1>4, LimitFacts
<1>6. QED
  BY <1>1, <1>5, WrapAssumption DEF IInv, SilenceInv

(* The evaluation timestamp stays recent, and equals the clock when an     *)
(* evaluation was due.                                                     *)
LEMMA BookkeepingInvariant ==
  ASSUME IInv, Bookkeeping
  PROVE  /\ now' = now /\ now \in Timestamps /\ lastEval' \in Timestamps
         /\ gap' \in 0 .. MaxGap /\ simulation' \in BOOLEAN
         /\ EvaluationInv'
         /\ Elapsed(now, lastEval) \in Nat /\ Elapsed(now', lastEval') \in Nat
         /\ EvaluationDue => Elapsed(now', lastEval') = 0
         /\ ~EvaluationDue => Elapsed(now', lastEval') = Elapsed(now, lastEval)
<1>1. /\ now' = now /\ gap' = 0 /\ simulation' = simulation
      /\ lastEval' = IF EvaluationDue THEN now ELSE lastEval
  BY DEF Bookkeeping
<1>2. now \in Timestamps /\ lastEval \in Timestamps /\ simulation \in BOOLEAN
  BY DEF IInv, TypeOK
<1>3. lastEval' \in Timestamps
  BY <1>1, <1>2
<1>4. Elapsed(now, lastEval) \in Nat /\ Elapsed(now, lastEval') \in Nat
  <2>1. Elapsed(now, lastEval) \in Timestamps /\ Elapsed(now, lastEval') \in Timestamps
    BY <1>2, <1>3, ElapsedType
  <2>2. QED
    BY <2>1 DEF Timestamps
<1>5. EvaluationDue => Elapsed(now, lastEval') = 0
  BY <1>1, <1>2, ElapsedZero
<1>6. ~EvaluationDue => Elapsed(now, lastEval') = Elapsed(now, lastEval)
  BY <1>1
<1>7. Elapsed(now, lastEval') <= EvalInterval - 1 + 0
  BY <1>4, <1>5, <1>6, LimitFacts DEF EvaluationDue
<1>8. EvaluationInv'
  BY <1>1, <1>7 DEF EvaluationInv
<1>9. gap' \in 0 .. MaxGap
  BY <1>1, LimitFacts
<1>10. QED
  BY <1>1, <1>2, <1>3, <1>4, <1>5, <1>6, <1>8, <1>9

(* A frame the tracker sees starts a new silence.                          *)
LEMMA FrameInvariant == IInv /\ Bookkeeping /\ (FrameStep \/ RestoreStep) => IInv'
<1> SUFFICES ASSUME IInv, Bookkeeping, FrameStep \/ RestoreStep PROVE IInv'
  OBVIOUS
<1>1. /\ health \in Tracker /\ overdue \in 0 .. Wrap /\ openOutages \in Nat
      /\ now \in Timestamps /\ now' = now /\ Elapsed(now', lastEval') \in Nat
  BY BookkeepingInvariant DEF IInv, TypeOK
<1>2. silence' = 0 /\ overdue' = overdue
  BY DEF FrameStep, RestoreStep
<1>3. Elapsed(now, health.outageAt) \in Timestamps
  BY <1>1, ElapsedType DEF Tracker
<1>4. /\ health' \in Tracker
      /\ health'.state = "RECEIVING_DATA" /\ health'.seenFrame /\ health'.lastFrame = now
  <2>1. Accepted \in Tracker
    BY <1>1 DEF Accepted, Tracker, ParserStates
  <2>2. /\ Accepted.state = "RECEIVING_DATA" /\ Accepted.seenFrame = TRUE
        /\ Accepted.lastFrame = now
    BY <1>1 DEF Accepted, Tracker
  <2>3. [Accepted EXCEPT !.outage = Elapsed(now, health.outageAt), !.hadOutage = TRUE] \in Tracker
    BY <1>3, <2>1 DEF Tracker
  <2>4. CASE FrameStep
    BY <2>1, <2>2, <2>4 DEF FrameStep
  <2>5. CASE RestoreStep
    BY <2>1, <2>2, <2>3, <2>5 DEF RestoreStep, Tracker
  <2>6. QED
    BY <2>4, <2>5
<1>5. openOutages' = 0
  <2>1. CASE FrameStep
    BY <2>1 DEF FrameStep, IInv, OutagesAlternate
  <2>2. CASE RestoreStep
    BY <2>2 DEF RestoreStep, IInv, OutagesAlternate
  <2>3. QED
    BY <2>1, <2>2
<1>6. TypeOK'
  <2>1. silence' \in 0 .. Wrap /\ overdue' \in 0 .. Wrap /\ openOutages' \in Nat
    BY <1>1, <1>2, <1>5, LimitFacts
  <2>2. QED
    BY <1>1, <1>4, <2>1, BookkeepingInvariant DEF TypeOK
<1>7. StateInv' /\ OutagesAlternate' /\ OverdueInv'
  BY <1>4, <1>5 DEF StateInv, OutagesAlternate, OverdueInv
<1>8. SilenceInv'
  BY <1>1, <1>2, <1>4, ElapsedZero DEF SilenceInv, Anchor
<1>9. DeadlineInv'
  <2>1. Limit' \in Nat \ {0}
    BY <1>4, ParserTimingAssumption DEF Limit
  <2>2. QED
    BY <1>1, <1>2, <2>1 DEF DeadlineInv
<1>10. NoEarlyTimeout'
  <2>1. ~Occurred("UART_TIMEOUT")'
    <3>1. CASE FrameStep
      BY <3>1, RaisedEvents DEF FrameStep, Occurred
    <3>2. CASE RestoreStep
      BY <3>2, RaisedEvents DEF RestoreStep, Occurred
    <3>3. QED
      BY <3>1, <3>2
  <2>2. QED
    BY <2>1 DEF NoEarlyTimeout
<1>11. OutageMeasured'
  <2>1. CASE FrameStep
    <3>1. ~Occurred("UART_RESTORED")'
      BY <2>1, RaisedEvents DEF FrameStep, Occurred
    <3>2. QED
      BY <3>1 DEF OutageMeasured
  <2>2. CASE RestoreStep
    <3>1. health'.outage = Elapsed(now, health.outageAt)
      BY <1>1, <2>2 DEF RestoreStep, Accepted, Tracker
    <3>2. overdue < Wrap => Elapsed(now, health.outageAt) = overdue
      BY <2>2 DEF RestoreStep, IInv, OverdueInv
    <3>3. QED
      BY <1>2, <3>1, <3>2 DEF OutageMeasured
  <2>3. QED
    BY <2>1, <2>2
<1>12. QED
  BY <1>6, <1>7, <1>8, <1>9, <1>10, <1>11, BookkeepingInvariant DEF IInv

(* A timeout is declared.                                                  *)
LEMMA TimeoutInvariant == IInv /\ Bookkeeping /\ (GraceStep \/ StoppedStep) => IInv'
<1> SUFFICES ASSUME IInv, Bookkeeping, GraceStep \/ StoppedStep PROVE IInv'
  OBVIOUS
<1>1. /\ health \in Tracker /\ silence \in 0 .. Wrap /\ now \in Timestamps
      /\ now' = now /\ openOutages \in Nat
  BY BookkeepingInvariant DEF IInv, TypeOK
<1>2. PICK since \in {now, health.lastFrame} :
        /\ health.state # "DATA_TIMEOUT"
        /\ IF health.seenFrame THEN since = health.lastFrame ELSE since = now
        /\ Elapsed(now, Anchor) >= Limit
        /\ health' = [health EXCEPT !.outageAt = since, !.state = "DATA_TIMEOUT"]
  <2>1. CASE GraceStep
    BY <2>1 DEF GraceStep, TimeoutStep, GraceExpired, Anchor, Limit
  <2>2. CASE StoppedStep
    BY <2>2 DEF StoppedStep, TimeoutStep, FramesStopped, Anchor, Limit
  <2>3. QED
    BY <2>1, <2>2
<1>3. /\ event' = Raised("NONE", "UART_TIMEOUT")
      /\ silence' = silence
      /\ overdue' = IF health.seenFrame THEN silence ELSE 0
      /\ openOutages' = openOutages + 1
  BY DEF GraceStep, StoppedStep, TimeoutStep
<1>4. since \in Timestamps
  BY <1>1, <1>2 DEF Tracker
<1>5. /\ health' \in Tracker
      /\ health'.state = "DATA_TIMEOUT" /\ health'.outageAt = since
      /\ health'.seenFrame = health.seenFrame
      /\ health'.lastFrame = health.lastFrame /\ health'.setupAt = health.setupAt
  BY <1>1, <1>2, <1>4 DEF Tracker, ParserStates
<1>6. silence \in Nat /\ Elapsed(now, Anchor) = silence
  BY <1>2, SilenceRead
<1>7. openOutages' = 1
  BY <1>2, <1>3 DEF IInv, OutagesAlternate
<1>8. TypeOK'
  <2>1. silence' \in 0 .. Wrap /\ overdue' \in 0 .. Wrap /\ openOutages' \in Nat
    BY <1>1, <1>3, <1>7, LimitFacts
  <2>2. QED
    BY <1>1, <1>5, <2>1, BookkeepingInvariant DEF TypeOK
<1>9. StateInv' /\ OutagesAlternate' /\ DeadlineInv'
  BY <1>5, <1>7 DEF StateInv, OutagesAlternate, DeadlineInv
<1>10. SilenceInv'
  BY <1>1, <1>3, <1>5, <1>6 DEF SilenceInv, Anchor
<1>11. OverdueInv'
  <2>1. Elapsed(now, since) = overdue'
    <3>1. CASE health.seenFrame
      BY <1>2, <1>3, <1>6, <3>1 DEF Anchor
    <3>2. CASE ~health.seenFrame
      BY <1>1, <1>2, <1>3, <3>2, ElapsedZero
    <3>3. QED
      BY <3>1, <3>2
  <2>2. QED
    BY <1>1, <1>5, <2>1 DEF OverdueInv
<1>12. NoEarlyTimeout'
  <2>1. Limit' = Limit
    BY <1>5 DEF Limit
  <2>2. silence' >= Limit
    BY <1>2, <1>3, <1>6
  <2>3. QED
    BY <2>1, <2>2 DEF NoEarlyTimeout
<1>13. OutageMeasured'
  <2>1. ~Occurred("UART_RESTORED")'
    BY <1>3, RaisedEvents DEF Occurred
  <2>2. QED
    BY <2>1 DEF OutageMeasured
<1>14. QED
  BY <1>8, <1>9, <1>10, <1>11, <1>12, <1>13, BookkeepingInvariant DEF IInv

(* Nothing arrives and nothing is declared.                                *)
LEMMA QuietInvariant == IInv /\ Bookkeeping /\ QuietStep => IInv'
<1> SUFFICES ASSUME IInv, Bookkeeping, QuietStep PROVE IInv'
  OBVIOUS
<1>1. /\ health' = health /\ silence' = silence /\ overdue' = overdue
      /\ openOutages' = openOutages /\ now' = now
      /\ event' = Raised("NONE", "NONE")
  BY BookkeepingInvariant DEF QuietStep, Same
<1>2. TypeOK'
  BY <1>1, BookkeepingInvariant DEF IInv, TypeOK
<1>3. StateInv' /\ OutagesAlternate' /\ SilenceInv' /\ OverdueInv'
  BY <1>1 DEF IInv, StateInv, OutagesAlternate, SilenceInv, Anchor, OverdueInv
<1>4. DeadlineInv'
  <2> SUFFICES ASSUME health.state # "DATA_TIMEOUT"
               PROVE  silence < Limit + Elapsed(now', lastEval')
    BY <1>1 DEF DeadlineInv, Limit
  <2>1. silence \in Nat /\ Elapsed(now, Anchor) = silence
    BY SilenceRead
  <2>2. CASE EvaluationDue
    <3>1. Elapsed(now, Anchor) < Limit
      <4>1. now \in Timestamps /\ Anchor \in Timestamps
        BY DEF IInv, TypeOK, Tracker, Anchor
      <4>2. Elapsed(now, Anchor) \in Int
        BY <4>1, ElapsedType DEF Timestamps
      <4>3. ~(Elapsed(now, Anchor) >= Limit)
        BY <2>2 DEF QuietStep, GraceExpired, FramesStopped, Anchor, Limit, IInv, StateInv
      <4>4. QED
        BY <4>2, <4>3, LimitFacts
    <3>2. QED
      BY <2>1, <2>2, <3>1, LimitFacts, BookkeepingInvariant
  <2>3. CASE ~EvaluationDue
    BY <2>3, BookkeepingInvariant DEF IInv, DeadlineInv
  <2>4. QED
    BY <2>2, <2>3
<1>5. \A e : ~Occurred(e)'
  BY <1>1 DEF Raised, Occurred
<1>6. NoEarlyTimeout' /\ OutageMeasured'
  BY <1>5 DEF NoEarlyTimeout, OutageMeasured
<1>7. QED
  BY <1>2, <1>3, <1>4, <1>6, BookkeepingInvariant DEF IInv

(* The invariant is inductive.                                             *)
LEMMA Invariance == Spec => []IInv
<1>1. IInv /\ [Next]_vars => IInv'
  <2> SUFFICES ASSUME IInv, [Next]_vars PROVE IInv'
    OBVIOUS
  <2>1. CASE Tick
    BY <2>1, TickInvariant
  <2>2. ASSUME NEW frame \in BOOLEAN, Iterate(frame) PROVE IInv'
    <3>1. IterationStep /\ Bookkeeping
      BY <2>2, IterationEffect DEF IInv
    <3>2. QED
      BY <3>1, FrameInvariant, TimeoutInvariant, QuietInvariant DEF IterationStep
  <2>3. CASE SetSimulation
    BY <2>3, SetSimulationInvariant
  <2>4. CASE UNCHANGED vars
    BY <2>4 DEF vars, IInv, TypeOK, StateInv, SilenceInv, Anchor, EvaluationInv, DeadlineInv,
       Limit, OverdueInv, OutagesAlternate, NoEarlyTimeout, OutageMeasured, Occurred
  <2>5. QED
    BY <2>1, <2>2, <2>3, <2>4 DEF Next, Loop
<1>2. QED
  BY InitInvariant, <1>1, PTL DEF Spec

(* While an outage is declared the silence is as long as that takes.        *)
TimedOutInv == health.state = "DATA_TIMEOUT" => silence >= Limit

(* TimedOutInv is kept by the parser watchdog.                              *)
LEMMA TimedOutStep == IInv /\ TimedOutInv /\ [Next]_vars => TimedOutInv'
<1> SUFFICES ASSUME IInv, TimedOutInv, [Next]_vars PROVE TimedOutInv'
  OBVIOUS
<1>1. health \in Tracker /\ silence \in 0 .. Wrap
  BY DEF IInv, TypeOK
<1>2. CASE Tick
  <2>1. health' = health /\ silence' = Later(silence)
    BY <1>2 DEF Tick
  <2>2. silence' \in Nat /\ silence' >= silence
    BY <1>1, <2>1, WrapAssumption DEF Later
  <2>3. Limit' = Limit
    BY <2>1 DEF Limit
  <2>4. QED
    BY <1>1, <2>1, <2>2, <2>3, LimitFacts DEF TimedOutInv
<1>3. ASSUME NEW frame \in BOOLEAN, Iterate(frame) PROVE TimedOutInv'
  <2>1. IterationStep /\ Bookkeeping
    BY <1>3, IterationEffect DEF IInv
  <2>2. CASE FrameStep \/ RestoreStep
    <3>1. health'.state = "RECEIVING_DATA"
      <4>1. Accepted.state = "RECEIVING_DATA" /\ Accepted \in Tracker
        <5>1. now \in Timestamps
          BY DEF IInv, TypeOK
        <5>2. QED
          BY <1>1, <5>1 DEF Accepted, Tracker, ParserStates
      <4>2. QED
        BY <2>2, <4>1 DEF FrameStep, RestoreStep, Tracker
    <3>2. QED
      BY <3>1 DEF TimedOutInv
  <2>3. CASE GraceStep \/ StoppedStep
    <3>1. /\ health.state # "DATA_TIMEOUT"
          /\ Elapsed(now, Anchor) >= Limit
          /\ silence' = silence
          /\ health'.seenFrame = health.seenFrame
      BY <1>1, <2>3 DEF GraceStep, StoppedStep, TimeoutStep, GraceExpired, FramesStopped, Anchor,
         Limit, Tracker
    <3>2. Elapsed(now, Anchor) = silence
      BY <3>1, SilenceRead
    <3>3. QED
      BY <3>1, <3>2 DEF TimedOutInv, Limit
  <2>4. CASE QuietStep
    BY <2>4 DEF QuietStep, Same, TimedOutInv, Limit
  <2>5. QED
    BY <2>1, <2>2, <2>3, <2>4 DEF IterationStep
<1>4. CASE SetSimulation \/ UNCHANGED vars
  BY <1>4 DEF SetSimulation, vars, TimedOutInv, Limit
<1>5. QED
  BY <1>2, <1>3, <1>4 DEF Next, Loop

(* An outage that is declared is real.                                      *)
LEMMA TimedOutInvariance == Spec => []TimedOutInv
<1>1. Init => TimedOutInv
  BY DEF Init, SetupCompleted, BootingTracker, Update, TimedOutInv
<1>2. QED
  BY <1>1, Invariance, TimedOutStep, PTL DEF Spec

-----------------------------------------------------------------------------
(* Timestamps stay in range and the tracker keeps its type.                *)
THEOREM TypeCorrect == Spec => []TypeOK
<1>1. IInv => TypeOK
  BY DEF IInv
<1>2. QED
  BY Invariance, <1>1, PTL

(* checkTimeout() never raises UART_TIMEOUT before its limit of true       *)
(* silence has passed, whatever the clock does.                            *)
THEOREM NoFalseAlarm == Spec => []NoEarlyTimeout
<1>1. IInv => NoEarlyTimeout
  BY DEF IInv
<1>2. QED
  BY Invariance, <1>1, PTL

(* Silence is reported at the latest one evaluation interval and one gap   *)
(* of the main loop after the limit.                                       *)
THEOREM BoundedDetection == Spec => []DetectionBounded
<1>1. IInv => DetectionBounded
  <2> SUFFICES ASSUME IInv, health.state # "DATA_TIMEOUT"
               PROVE  ~(silence >= Limit + EvalInterval + MaxGap - 1)
    BY DEF DetectionBounded
  <2>1. /\ gap \in 0 .. MaxGap /\ silence \in 0 .. Wrap
        /\ now \in Timestamps /\ lastEval \in Timestamps
    BY DEF IInv, TypeOK
  <2>2. Elapsed(now, lastEval) \in Int
    BY <2>1, ElapsedType DEF Timestamps
  <2>3. QED
    BY <2>1, <2>2, LimitFacts DEF IInv, DeadlineInv, EvaluationInv
<1>2. QED
  BY Invariance, <1>1, PTL

(* UART_TIMEOUT and UART_RESTORED alternate, starting with the timeout.    *)
THEOREM Alternation == Spec => []OutagesAlternate
<1>1. IInv => OutagesAlternate
  BY DEF IInv
<1>2. QED
  BY Invariance, <1>1, PTL

(* The outage duration recordValidFrame() computes is the true one.        *)
THEOREM TrueDurations == Spec => []OutageMeasured
<1>1. IInv => OutageMeasured
  BY DEF IInv
<1>2. QED
  BY Invariance, <1>1, PTL
=============================================================================
