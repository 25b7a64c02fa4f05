---------------------------- MODULE RuntimeCounters ----------------------------
(***************************************************************************)
(* SEMMeterRuntimeCounters (sem_meter_foundation.h): what each call counts. *)
(* A record_ method is the set of the counters it changes, as the           *)
(* RuntimeCounterChange it returns.  A component that uses only some of the *)
(* four counters keeps only those.                                          *)
(***************************************************************************)
EXTENDS Naturals

CONSTANT CounterWrap   (* the counters are modulo 2^32 in the firmware      *)

ASSUME CounterAssumption == CounterWrap \in Nat \ {0}

CounterValues == 0 .. CounterWrap - 1

RecordEvent(event) ==
  CASE event = "UART_TIMEOUT" -> {"parserFaults"}
    [] event = "WIFI_TIMEOUT" -> {"wifiFaults"}
    [] OTHER                  -> {}

RecordSelfTestResult(signal) == IF signal = "FAILED" THEN {"failures"} ELSE {}

(* A mutant: the counters saturate.                                         *)
IncrementToMaximum(value) == IF value = CounterWrap - 1 THEN value ELSE value + 1

Increment(value) == IF value = CounterWrap - 1 THEN 0 ELSE value + 1

Counted(counters, changed) ==
  [name \in DOMAIN counters |->
     IF name \in changed THEN Increment(counters[name]) ELSE counters[name]]
=============================================================================
