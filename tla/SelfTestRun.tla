----------------------------- MODULE SelfTestRun -----------------------------
(***************************************************************************)
(* The self-test as SEMMeterComponent runs it: the button starts it between *)
(* two iterations of loop(), and the iterations evaluate it, right after    *)
(* the watchdogs, against the parser's tracker, the Wi-Fi tracker and the   *)
(* API.  The parser watchdog is the one of module ParserWatchdog, clock and *)
(* all; its steps are the steps of this module.  Counters and entities are  *)
(* published one after the other.                                           *)
(***************************************************************************)
EXTENDS ParserWatchdog, WiFiTracker, SelfTest, RuntimeCounters

ASSUME RunAssumption == SelfTestDuration + MaxGap < Wrap

VARIABLES
  selfTest,        (* self_test_                                            *)
  counters,        (* self_test_run_count, self_test_failure_count          *)
  outbox,          (* the publications under way, in order                  *)
  shown            (* the published states of the entities                  *)

(* History.                                                                 *)
VARIABLES
  waited,          (* true time since the accepted request, up to Wrap      *)
  truth,           (* the checks that really failed at the last result      *)
  passes           (* results PASS, modulo CounterWrap                      *)

testVars == <<selfTest, counters, outbox, shown, waited, truth, passes>>
runVars  == <<vars, testVars>>

Item(entity, value) == [entity |-> entity, value |-> value]

Unavailable == -1   (* the duration before a test has completed              *)

(* setup() publishes the self-test entities and the counters once, no       *)
(* duration.                                                                *)
RunInit ==
  /\ Init
  /\ selfTest = NotRun
  /\ counters = [runs |-> 0, failures |-> 0]
  /\ outbox = << >>
  /\ shown = [summary |-> "has not run", failed |-> {}, duration |-> Unavailable,
              status |-> "NOT_RUN", runs |-> 0, failures |-> 0]
  /\ waited = 0 /\ truth = {} /\ passes = 0

-----------------------------------------------------------------------------
(* Publication.                                                             *)

(* publish_runtime_counters_: the changed ones.                             *)
CounterItems(changed) ==
  LET values == Counted(counters, changed)
  IN  (IF "runs" \in changed THEN <<Item("runs", values["runs"])>> ELSE << >>)
        \o (IF "failures" \in changed THEN <<Item("failures", values["failures"])>> ELSE << >>)

(* A mutant: the trigger comes first.                                       *)
StatusFirst(t, completed) ==
  <<Item("status", t.status), Item("summary", Summary(t)), Item("failed", t.failed)>>
    \o (IF completed THEN <<Item("duration", t.duration)>> ELSE << >>)

(* publish_self_test_diagnostics_.                                          *)
TestItems(t, completed) ==
  <<Item("summary", Summary(t)), Item("failed", t.failed)>>
    \o (IF completed THEN <<Item("duration", t.duration)>> ELSE << >>)
    \o <<Item("status", t.status)>>

(* apply_self_test_update_, with the counters the caller changed before.    *)
ApplyTest(update, changed) ==
  IF update.signal = "NONE" THEN UNCHANGED <<selfTest, counters, outbox, passes>>
  ELSE LET all == changed \union RecordSelfTestResult(update.signal)
       IN  /\ selfTest' = update.test
           /\ counters' = Counted(counters, all)
           /\ outbox' = CounterItems(all)
                          \o TestItems(update.test, update.signal \in {"PASSED", "FAILED"})
           /\ passes' = IF update.signal = "PASSED" THEN (passes + 1) % CounterWrap ELSE passes

(* publish_state of the next entity.                                        *)
Deliver ==
  /\ outbox # << >>
  /\ LET item == Head(outbox)
     IN  /\ shown' = [shown EXCEPT ![item.entity] = item.value]
         /\ waited' = IF item.entity = "status" THEN 0 ELSE waited
  /\ outbox' = Tail(outbox)
  /\ UNCHANGED <<vars, selfTest, counters, truth, passes>>

-----------------------------------------------------------------------------
(* run_self_test, from the button, between two iterations.                  *)
RunSelfTest ==
  /\ outbox = << >>
  /\ ApplyTest(StartTest(selfTest, now), {"runs"})
  /\ UNCHANGED <<vars, shown, waited, truth>>

(* The Wi-Fi trackers there may be, but for their timestamps and outages,   *)
(* which the self-test does not read; the callbacks of the Wi-Fi component  *)
(* and the switch change them between any two iterations.                   *)
WiFiSamples ==
  {w \in [state : WiFiStates, setupAt : {0}, lostAt : {0}, recoveredAt : {0}, outage : {0},
          connected : BOOLEAN, simulation : BOOLEAN, once : BOOLEAN, declared : BOOLEAN,
          hadOutage : {FALSE}] : Coherent(w)}

(* milliseconds_since_last_valid_frame.                                     *)
FrameAge(h) == IF h.seenFrame THEN Elapsed(now, h.lastFrame) ELSE 0

(* internal_diagnostic_state_consistent_.                                   *)
InternallyConsistent(h, w) ==
  /\ ParserHealthy(h) => h.seenFrame
  /\ ~(h.state = "DATA_TIMEOUT" /\ ParserHealthy(h))
  /\ ~(w.declared /\ WiFiHealthy(w))
  /\ w.state = "WIFI_TIMEOUT" <=> w.declared
  /\ w.simulation => w.state \notin {"CONNECTED", "RECOVERED"}
  /\ ~w.connected => w.state \notin {"CONNECTED", "RECOVERED"}

(* collect_self_test_inputs_.                                               *)
SelfTestInputs(h, w, api) ==
  [parserHealthy |-> ParserHealthy(h), seenFrame    |-> h.seenFrame,
   frameAge      |-> FrameAge(h),      frameTimeout |-> UartTimeout,
   connected     |-> w.connected,      wifiHealthy  |-> WiFiHealthy(w),
   simulation    |-> w.simulation,     api          |-> api,
   consistent    |-> InternallyConsistent(h, w)]

(* What is the matter: no frame within the timeout by true time, no         *)
(* effective connection, no API client.                                     *)
TrueFailures(seen, age, w, api) ==
  (IF seen /\ age < UartTimeout THEN {} ELSE {"PARSER"})
    \union (IF w.connected /\ ~w.simulation THEN {} ELSE {"WIFI"})
    \union (IF api THEN {} ELSE {"API"})

(* evaluate_self_test_, on the parser tracker the iteration leaves.         *)
EvaluateSelfTest ==
  IF ~TestDue(selfTest, now) THEN UNCHANGED testVars
  ELSE \E w \in WiFiSamples, api \in BOOLEAN :
         /\ ApplyTest(FinishTest(selfTest, SelfTestInputs(health', w, api), now), {})
         /\ truth' = TrueFailures(health'.seenFrame, silence', w, api)
         /\ UNCHANGED <<shown, waited>>

Iteration ==
  /\ outbox = << >>
  /\ Loop
  /\ EvaluateSelfTest

TimePasses ==
  /\ outbox = << >>
  /\ Tick
  /\ waited' = IF selfTest.status = "RUNNING" THEN Later(waited) ELSE waited
  /\ UNCHANGED <<selfTest, counters, outbox, shown, truth, passes>>

SwitchSimulation ==
  /\ outbox = << >>
  /\ SetSimulation
  /\ UNCHANGED testVars

RunNext == TimePasses \/ Iteration \/ SwitchSimulation \/ RunSelfTest \/ Deliver

RunSpec == RunInit /\ [][RunNext]_runVars

(* Time passes, the main loop keeps running, a publication begun is         *)
(* finished; nobody has to press the button.                                *)
FairRunSpec == RunSpec /\ WF_runVars(TimePasses) /\ WF_runVars(Iteration) /\ WF_runVars(Deliver)

-----------------------------------------------------------------------------
RunTypeOK ==
  /\ selfTest \in SelfTests
  /\ counters \in [{"runs", "failures"} -> CounterValues]
  /\ shown \in [summary : Summaries, failed : SUBSET Checks,
                duration : Timestamps \union {Unavailable}, status : SelfTestStatuses,
                runs : CounterValues, failures : CounterValues]
  /\ waited \in 0 .. Wrap
  /\ truth \in SUBSET Checks
  /\ passes \in CounterValues

(* The result names exactly what is the matter when it is given: a parser   *)
(* whose watchdog has yet to notice the silence fails, a tracker that was   *)
(* never told of a frame fails, a simulation fails, and the internal state  *)
(* never does.                                                              *)
VerdictTrue ==
  selfTest.status \in {"PASS", "FAIL"} =>
    /\ selfTest.failed = truth
    /\ selfTest.status = "PASS" <=> truth = {}

(* The comment in publish_self_test_diagnostics_: an automation that reacts *)
(* to the status finds the summary, the failed checks, the counters and,    *)
(* with a result, the true duration of this very test.                      *)
StatusLast ==
  [][ shown'.status # shown.status =>
        /\ shown.summary = Summary(selfTest) /\ shown.failed = selfTest.failed
        /\ shown.runs = counters.runs /\ shown.failures = counters.failures
        /\ shown'.status \in {"PASS", "FAIL"} => shown.duration = waited ]_runVars

(* docs/diagnostics.md on the counters: every accepted request is counted   *)
(* as a run and ends as one counted failure, as one pass, or is under way,  *)
(* also when the counters wrap.                                             *)
CountersAgree ==
  outbox = << >> =>
    shown.runs = (shown.failures + passes + (IF shown.status = "RUNNING" THEN 1 ELSE 0))
                   % CounterWrap

Promise == INSTANCE SelfTestPromise
  WITH status   <- shown.status,
       waited   <- waited,
       Duration <- SelfTestDuration,
       Latest   <- SelfTestDuration + MaxGap - 1

(* The self-test keeps its promise: a request is ignored while the test     *)
(* runs, and answered in time otherwise.                                    *)
KeepsPromise == Promise!Spec

=============================================================================
