---------------------------- MODULE FirmwareReport ----------------------------
(***************************************************************************)
(* The generator on the reports the firmware formats: which of them the    *)
(* transport can always carry.                                             *)
(***************************************************************************)
EXTENDS DiagnosticReport, ReportFormat

(* Counters of at most four digits, outages of at most the 4294967 seconds  *)
(* a turn of the clock lasts, ESPHome versions as long as 2025.12.10 and    *)
(* reset reasons as long as INTERRUPT_WATCHDOG.                             *)
Ordinary(s) ==
  /\ s.version \in 1 .. 10 /\ s.reset \in 1 .. 18
  /\ \A i \in 1 .. 4 : s.counters[i] \in 1 .. 4
  /\ \A i \in 1 .. 2 : s.outages[i] \in 0 .. 7

CONSTANT OrdinarySnapshots

ASSUME OrdinaryAssumption == \A s \in OrdinarySnapshots : Ordinary(s)

(* The firmware's own sizes: every report of an ordinary snapshot fits the  *)
(* three parts of 220 characters: whatever the states, with the versions,   *)
(* reset reasons, counters and outages as long as Ordinary admits them.     *)
OrdinaryReportsFit ==
  pc = "idle" /\ outcome = "refused" =>
    \A s \in OrdinarySnapshots : report # BuildReport(s)

=============================================================================
