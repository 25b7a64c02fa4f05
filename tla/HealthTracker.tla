---------------------------- MODULE HealthTracker ----------------------------
(***************************************************************************)
(* SEMMeterHealthTracker and SEMMeterWatchdogGate (sem_meter_diagnostics.h)*)
(* as operators on a tracker record.  A method that returns an update is   *)
(* an operator that returns the tracker after the call and the event       *)
(* raised; whether the state changed is read off the two trackers.         *)
(***************************************************************************)
EXTENDS Millis

CONSTANTS
  UartTimeout,     (* uart_timeout_ms_                                      *)
  StartupGrace     (* startup_grace_period_ms_                              *)

ASSUME ParserTimingAssumption == 
  UartTimeout \in Nat \ {0} /\ StartupGrace \in Nat \ {0}

(* RECOVERING is declared too, but no transition of the tracker enters it.  *)
ParserStates == {"BOOTING", "WAITING_FOR_UART", "RECEIVING_DATA", "DATA_TIMEOUT"}

ParserEvents == {"NONE", "SYSTEM_STARTED", "UART_STARTED", "UART_TIMEOUT", "UART_RESTORED"}

Tracker == [state     : ParserStates,
            setupAt   : Timestamps,   \* setup_timestamp_ms_
            lastFrame : Timestamps,   \* last_valid_frame_timestamp_ms_
            seenFrame : BOOLEAN,      \* has_received_valid_frame_
            outageAt  : Timestamps,   \* current_outage_started_timestamp_ms_
            outage    : Timestamps,   \* last_completed_outage_duration_ms_
            hadOutage : BOOLEAN]      \* has_completed_outage_

BootingTracker == [state |-> "BOOTING", setupAt |-> 0, lastFrame |-> 0, seenFrame |-> FALSE,
                   outageAt |-> 0, outage |-> 0, hadOutage |-> FALSE]

Update(h, e) == [tracker |-> h, event |-> e]

(* setup_completed_ is TRUE in every state but BOOTING.                     *)
SetupCompleted(h, now) ==
  IF h.state # "BOOTING" THEN Update(h, "NONE")
  ELSE Update([h EXCEPT !.setupAt = now, !.state = "WAITING_FOR_UART"], "SYSTEM_STARTED")

RecordValidFrame(h, now) ==
  LET restored == h.state = "DATA_TIMEOUT"
      accepted == [h EXCEPT !.lastFrame = now, !.seenFrame = TRUE, !.state = "RECEIVING_DATA"]
  IN  IF restored
      THEN Update([accepted EXCEPT !.outage = Elapsed(now, h.outageAt), !.hadOutage = TRUE],
                  "UART_RESTORED")
      ELSE Update(accepted, IF h.state = "RECEIVING_DATA" THEN "NONE" ELSE "UART_STARTED")

DeclareTimeout(h, since) ==
  Update([h EXCEPT !.outageAt = since, !.state = "DATA_TIMEOUT"], "UART_TIMEOUT")

(* Mutants: the UART timeout applies to the first frame too; an outage is   *)
(* declared again and again.                                                *)
GraceIgnored(h, now) ==
  h.state = "WAITING_FOR_UART" /\ ~h.seenFrame /\ Elapsed(now, h.setupAt) >= UartTimeout

GraceExpiredAgain(h, now) == ~h.seenFrame /\ Elapsed(now, h.setupAt) >= StartupGrace

(* A mutant: a silence as long as the timeout is tolerated.                 *)
StoppedLate(h, now) ==
  h.state = "RECEIVING_DATA" /\ h.seenFrame /\ Elapsed(now, h.lastFrame) > UartTimeout

(* A tracker that waits for its first frame times out after the grace       *)
(* period, one that received frames after the UART timeout, and one that    *)
(* has timed out stays as it is.                                            *)
GraceExpired(h, now) ==
  /\ h.state = "WAITING_FOR_UART" /\ ~h.seenFrame
  /\ Elapsed(now, h.setupAt) >= StartupGrace

FramesStopped(h, now) ==
  /\ h.state = "RECEIVING_DATA" /\ h.seenFrame
  /\ Elapsed(now, h.lastFrame) >= UartTimeout

(* A mutant: every outage begins when it is detected.                       *)
CheckTimeoutFromNow(h, now) ==
  IF GraceExpired(h, now) \/ FramesStopped(h, now) THEN DeclareTimeout(h, now)
  ELSE Update(h, "NONE")

CheckTimeout(h, now) ==
  IF GraceExpired(h, now) THEN DeclareTimeout(h, now)
  ELSE IF FramesStopped(h, now) THEN DeclareTimeout(h, h.lastFrame)
  ELSE Update(h, "NONE")

(* uart_healthy() and sem_meter_healthy() agree: both ask for a received    *)
(* frame and for RECEIVING_DATA.                                            *)
ParserHealthy(h) == h.seenFrame /\ h.state = "RECEIVING_DATA"

(* SEMMeterWatchdogGate: the timeout simulation hides accepted frames from  *)
(* the tracker.                                                             *)
RecordAcceptedFrame(h, simulation, now) ==
  IF simulation THEN Update(h, "NONE") ELSE RecordValidFrame(h, now)
=============================================================================
