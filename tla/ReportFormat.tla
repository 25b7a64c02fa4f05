----------------------------- MODULE ReportFormat -----------------------------
(***************************************************************************)
(* build_diagnostic_report (sem_meter_report.h): the lengths of the blocks  *)
(* of the report and where they end.  A text is its length, and a number    *)
(* its number of decimal digits.                                            *)
(***************************************************************************)
EXTENDS Integers, Sequences

Snapshot(version, reset, parser, wifi, api, test, counters, outages) ==
  [version |-> version, reset |-> reset, parser |-> parser, wifi |-> wifi, api |-> api,
   test |-> test, counters |-> counters, outages |-> outages]

HealthLength(healthy) == IF healthy THEN 7 ELSE 9   \* Healthy, Unhealthy
OnlineLength(online)  == IF online THEN 6 ELSE 7    \* Online, Offline

(* NOT_RUN, PASS, FAIL; a test that runs is UNKNOWN.                        *)
TestLength(status) == IF status \in {"PASS", "FAIL"} THEN 4 ELSE 7

(* A mutant: the milliseconds are printed, with a unit.                     *)
OutageInMilliseconds(digits) == IF digits = 0 THEN 7 ELSE digits + 3 + 13

(* UNKNOWN before the first outage, else the digits and " seconds".         *)
OutageLength(digits) == IF digits = 0 THEN 7 ELSE digits + 8

(* append_field_: the label, a line break, the value and the blank line.    *)
Field(label, value) == label + 1 + value + 2

(* The title between two rules of 34 characters, the seventeen fields and   *)
(* the closing rule.                                                        *)
BlockLengths(s) ==
  <<34 + 1 + 27 + 1 + 34 + 2,
    Field(13, 1),                                \* Report Format
    Field(17, 5),                                \* Component Version 4.0.0
    Field(15, s.version),                        \* ESPHome Version
    Field(16, 41),                               \* Hardware Profile
    Field(13, 11),                               \* Board Variant
    Field(12, s.reset),                          \* Reset Reason
    Field(6, HealthLength(s.parser)),            \* Parser
    Field(4, HealthLength(s.wifi)),              \* WiFi
    Field(14, OnlineLength(s.api)),              \* Home Assistant
    Field(14, TestLength(s.test)),               \* Last Self-Test
    Field(13, s.counters[1]),                    \* Parser Faults
    Field(11, s.counters[2]),                    \* WiFi Faults
    Field(14, s.counters[3]),                    \* Self-Test Runs
    Field(18, s.counters[4]),                    \* Self-Test Failures
    Field(18, OutageLength(s.outages[1])),       \* Last Parser Outage
    Field(16, OutageLength(s.outages[2])),       \* Last WiFi Outage
    Field(22, 4),                                \* Additional Diagnostics
    34>>

(* The position where the k-th block ends.                                  *)
EndsOf(lengths) ==
  LET end[k \in 0 .. Len(lengths)] == IF k = 0 THEN 0 ELSE end[k - 1] + lengths[k]
  IN  end

BlockEnds(lengths) == {EndsOf(lengths)[k] : k \in 1 .. Len(lengths)}

BuildReport(s) == BlockEnds(BlockLengths(s))
=============================================================================
