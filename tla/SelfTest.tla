------------------------------- MODULE SelfTest -------------------------------
(***************************************************************************)
(* SEMMeterSelfTest (sem_meter_diagnostics.h) as operators on a record, in  *)
(* the manner of module HealthTracker.                                      *)
(***************************************************************************)
EXTENDS Millis, FiniteSets

CONSTANT SelfTestDuration   (* SELF_TEST_DURATION_MS                        *)

ASSUME SelfTestAssumption == SelfTestDuration \in Nat \ {0}

SelfTestStatuses == {"NOT_RUN", "RUNNING", "PASS", "FAIL"}

(* The bits of SelfTestFailure.                                             *)
Checks == {"PARSER", "WIFI", "API", "INTERNAL_STATE"}

SelfTests == [status    : SelfTestStatuses,
              failed    : SUBSET Checks,   \* failed_checks_
              startedAt : Timestamps,      \* started_timestamp_ms_
              duration  : Timestamps]      \* last_duration_ms_

NotRun == [status |-> "NOT_RUN", failed |-> {}, startedAt |-> 0, duration |-> 0]

TestUpdate(t, s) == [test |-> t, signal |-> s]

(* A mutant: a request while the test runs begins it again.                 *)
StartAgain(t, now) ==
  TestUpdate([t EXCEPT !.status = "RUNNING", !.failed = {}, !.startedAt = now], "STARTED")

StartTest(t, now) ==
  IF t.status = "RUNNING" THEN TestUpdate(t, "NONE")
  ELSE TestUpdate([t EXCEPT !.status = "RUNNING", !.failed = {}, !.startedAt = now], "STARTED")

(* A mutant: the parser is judged by its watchdog alone.                    *)
TrustTheWatchdog(inputs) ==
  {c \in Checks :
     \/ c = "PARSER" /\ ~inputs.parserHealthy
     \/ c = "WIFI"   /\ (~inputs.connected \/ ~inputs.wifiHealthy \/ inputs.simulation)
     \/ c = "API"    /\ ~inputs.api
     \/ c = "INTERNAL_STATE" /\ ~inputs.consistent}

(* The checks that fail on SelfTestInputs.                                  *)
FailedChecks(inputs) ==
  {c \in Checks :
     \/ c = "PARSER" /\ (~inputs.parserHealthy \/ ~inputs.seenFrame
                           \/ inputs.frameAge >= inputs.frameTimeout)
     \/ c = "WIFI"   /\ (~inputs.connected \/ ~inputs.wifiHealthy \/ inputs.simulation)
     \/ c = "API"    /\ ~inputs.api
     \/ c = "INTERNAL_STATE" /\ ~inputs.consistent}

(* A mutant: the test is over only at the very instant it is due.           *)
TestDueExactly(t, now) ==
  t.status = "RUNNING" /\ Elapsed(now, t.startedAt) = SelfTestDuration

(* evaluate(): nothing happens until a running test is due.                 *)
TestDue(t, now) == t.status = "RUNNING" /\ Elapsed(now, t.startedAt) >= SelfTestDuration

FinishTest(t, inputs, now) ==
  LET failed == FailedChecks(inputs)
  IN  TestUpdate([t EXCEPT !.failed = failed, !.duration = Elapsed(now, t.startedAt),
                           !.status = IF failed = {} THEN "PASS" ELSE "FAIL"],
                 IF failed = {} THEN "PASSED" ELSE "FAILED")

(* summary(): one text for each status, for each single failed check, and   *)
(* for several of them.                                                     *)
Summaries == {"has not run", "in progress", "all passed", "multiple"} \union Checks

Summary(t) ==
  CASE t.status = "NOT_RUN" -> "has not run"
    [] t.status = "RUNNING" -> "in progress"
    [] t.status = "PASS"    -> "all passed"
    [] t.status = "FAIL"    -> IF Cardinality(t.failed) > 1 THEN "multiple"
                               ELSE CHOOSE c \in Checks : t.failed = {c}
=============================================================================
