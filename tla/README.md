# SEM Meter: specifications, model checking and proofs

This directory holds TLA+ specifications of the ESPHome component `sem_meter`
(`src/components/sem_meter/`) and of the part of `src/sem-meter.yaml` that
connects it to Home Assistant. TLC checks them on small instances; TLAPS proves
the most important properties for every value of the constants.

- [The system](#the-system)
- [Modules](#modules)
- [Runs](#runs)
- [Proofs](#proofs)
- [What the checks found](#what-the-checks-found)
- [What is not modelled](#what-is-not-modelled)
- [Plan](#plan)

## The system

An energy meter sends measurement cycles of 19 records over a UART. The
firmware cuts the byte stream into cycles, decodes them, validates them and
keeps the last accepted values. Template sensors poll these values, a second
validator filters what they publish. Two watchdogs, one for the frames and one
for Wi-Fi, report outages to Home Assistant and to a buzzer. Everything runs in
one thread, the ESPHome main loop: `loop()` of the component, the template
sensors and the automations (Wi-Fi callbacks, switches, buttons) alternate, and
none of them interrupts another. What makes the code hard is therefore not
preemption but long sequences: bytes that arrive in arbitrary portions, a clock
that wraps, callbacks between any two iterations, two sampling rates.

| Component | State | Operations | Interacts with |
| --- | --- | --- | --- |
| Frame accumulator, `sem_meter_accumulator.h` | buffer, `waiting_for_sequence_`, malformed episode, live parser | `feed` | called by `loop()`; decodes with the record parser; asks the cycle validator; reports to observer and counters |
| Record parser, `sem_meter_parser.h` | powers, voltages, frequency | `decode_record`, getters | a candidate copy per cycle, the live one read by the template sensors |
| Validators, `sem_meter_validator.h` | accepted values, readiness, last rejection | `validate`, `validate_if_ready`, transactional cycle validation | one for cycles, one for publication |
| Parser health tracker and simulation gate, `sem_meter_diagnostics.h` | state, timestamps, outage | `setup_completed`, `record_valid_frame`, `check_timeout` | driven by `loop()` |
| Wi-Fi health tracker, same file | state, real and simulated connection, timestamps | `set_real_connected`, `set_timeout_simulation_enabled`, `evaluate` | callbacks and `loop()` |
| Self-test, `sem_meter_diagnostics.h`, `sem_meter.cpp` | status, failed checks, start and duration | `start`, `finish`, evaluation in `loop()` | requested by a button; reads both trackers and the API state |
| Diagnostic report, `sem_meter_report.h`, `sem_meter.cpp` | `generating_`, the three published parts | format, split, publish | requested by a button; reads a snapshot of everything |
| Runtime counters, `sem_meter_foundation.h` | four 32-bit counts | `record_event`, `record_self_test_result` | event dispatch and self-test; published when changed |
| Event dispatcher, `sem_meter_diagnostics.h` | last event | `dispatch` | called by every update; listeners, of which there are none |
| Main component, `sem_meter.cpp` | evaluation and publication timestamps, recovered status | `loop`, callbacks, event dispatch, publication | all of the above; publishes to Home Assistant |
| Template sensors, switches, buzzer, `sem-meter.yaml` | entity states | polls, filters, `on_value` | read the live parser, call `validate_sensor_value` |

What makes each correct:

- *Accumulator*: no received byte is lost or moved; a cycle is taken as soon as
  it is complete, whatever the portions; a damaged cycle is counted once.
- *Parser and validators*: a cycle counts as a whole or not at all; what was
  never measured is never published; no entity jumps; an entity follows the
  live value, and is locked out by its own limit only if it is polled less often
  than cycles are accepted.
- *Watchdogs*: no false alarm, bounded detection, one alarm per outage and one
  recovery per alarm, true durations, all across a wrap of `millis()`.
- *Component*: between two iterations the entities agree with the trackers;
  each health entity follows the entities that explain it; the buzzer plays
  once.
- *Self-test*: every request is answered once and in time, a request during a
  test changes nothing, the answer names what is the matter at that moment, and
  whoever sees the status finds the rest in place.
- *Report*: the entities show one whole report, cut between its blocks; a
  report is refused only if it cannot be cut; the generator is free afterwards.
- *Counters*: what was counted adds up with what was published, also after a
  wrap.

`PROJECT.json` lists the components, and under `hazards` each place of the code
where one of these may break, with the properties that would notice.

## Modules

| Module | Models | Uses |
| --- | --- | --- |
| `CycleScan` | what the accumulator promises: a scan of the stream without a buffer | |
| `FrameAccumulator` | the accumulator | |
| `FrameAccumulatorProofs` | its theorems | `FrameAccumulator`, `CycleScan` |
| `MCFrameAccumulator` | its instances for TLC | `FrameAccumulator` |
| `Millis`, `MillisProofs` | the clock and the unsigned difference; lemmas on it | |
| `HealthTracker`, `ParserWatchdog` | the parser watchdog: operators on the tracker, and the tracker in the main loop | `Millis` |
| `ParserWatchdogProofs` | its theorems | `ParserWatchdog`, `MillisProofs` |
| `WiFiTracker`, `WiFiWatchdog` | the same for Wi-Fi, with the publication of its entities | `Millis` |
| `WiFiWatchdogProofs` | its theorems | `WiFiWatchdog`, `MillisProofs` |
| `RecordParser`, `SensorValidator` | decoding, limits, validation: operators | |
| `MeasurementPipeline`, `MCMeasurementPipeline` | cycles, validators, template sensors; instances for TLC | the two above |
| `MeasurementPipelineProofs` | its theorems | `MeasurementPipeline` |
| `RuntimeCounters` | what each call counts: operators | |
| `SEMMeterComponent` | one iteration of `loop()`, statement by statement, and the publications | `HealthTracker`, `RuntimeCounters` |
| `ComponentWatchdog` | the same loop as an implementation of the parser watchdog, with true time beside it | `SEMMeterComponent`, `ParserWatchdog` |
| `MCComponentWatchdog` | its view for TLC | `ComponentWatchdog` |
| `SEMMeterComponentProofs` | the theorems of both | `ComponentWatchdog`, `ParserWatchdogProofs` |
| `SelfTestPromise` | what the self-test promises: request, wait, answer | |
| `SelfTest` | the self-test: operators on its state | `Millis` |
| `SelfTestRun`, `MCSelfTestRun` | the self-test in the main loop, over the running parser watchdog; its view for TLC | `ParserWatchdog`, `WiFiTracker`, `SelfTest`, `RuntimeCounters`, `SelfTestPromise` |
| `SelfTestRunProofs` | its theorems | `SelfTestRun`, `ParserWatchdogProofs` |
| `DiagnosticReport` | the generator: guard, split, publication | |
| `ReportFormat` | the lengths of the blocks the firmware formats: operators | |
| `FirmwareReport`, `MCDiagnosticReport` | the generator on the firmware's reports; the reports TLC checks | `DiagnosticReport`, `ReportFormat` |
| `DiagnosticReportProofs` | its theorems | `FirmwareReport` |

The modules compose along the calls of the code. Where one component takes the
result of another as input, a theorem about the other says which results there
are:

- `SEMMeterComponent` takes the result of a feed: at most one damaged cycle
  (`CountsOnePerFeed`), at most one complete cycle, nothing dropped
  (`NeverDrops`). It takes the Wi-Fi events, which alternate (`Alternation` of
  `WiFiWatchdogProofs`).
- `FrameAccumulator` takes the electrical verdict on a cycle;
  `MeasurementPipeline` computes it.
- `ParserWatchdog` takes an iteration of `loop()` as one step. The loop
  of `SEMMeterComponent`, in which the same happens in several statements with
  dispatches, publications and time between them, implements it
  (`Refinement` of `SEMMeterComponentProofs`).
- `SelfTestRun` contains the parser watchdog and only observes it: every
  behaviour of the run is one of `ParserWatchdog` (`WatchdogUndisturbed`). It
  takes any Wi-Fi tracker that satisfies `Coherent`, as every reachable one does
  (`NeverContradicts`).

Correspondence and abstraction, module by module:

**FrameAccumulator.** A byte is an offset in the stream. The code inspects
bytes with two predicates only, so the model has two sets: `candidates`, the
offsets where `is_circuit_1_candidate_` holds, and `intact`, those where
`validate_record_sequence_` holds. Not every pair of sets is a stream: headers
cannot overlap each other since a marker, an identifier and a status differ
(`WellFormed`). `feed()` is `Feed` or `FeedWholeBuffer` followed by one
action per way through the body of the loop of `process_buffer_` until
`Exhausted`, `Incomplete` or `ConsumeCycle` ends it. `cursor`, `taken`,
`failed`, `counted`, `partial` and `dropEnd` are history. The second structural
rejection in the code, for fewer than 19 decoded records, repeats the first
condition and cannot happen.

**Watchdogs.** Trackers are records, methods are operators that return the
tracker and the event. The clock is a number modulo `Wrap`; true time is kept
beside it in history variables that stop at `Wrap`. `Tick` lets time pass
between two iterations, at most `MaxGap` units: the code has no bound on the
duration of an iteration, but every bound on detection is relative to it.

**MeasurementPipeline.** A cycle is a reading per record and the byte that the
records of phases A and B share. Numbers are scaled: a unit of power is 25 or
50 kW, a unit of voltage 10 V; a float is compared and subtracted only, and the
values chosen lie on and beside each limit. Rounding is not modelled. One
template sensor is one `Poll`, at any time: the sensors run on timers of their
own. History: `latest`, what the last accepted cycle that carried a measurement
said of it, computed from the cycle and not from the parser, and `lag`, the cycles
accepted since an entity computed from one live value was last published.

**SEMMeterComponent.** The phases of `loop()` are actions; publications go to
`outbox` and are delivered one by one, because Home Assistant and the `on_value`
automations see the states between them. Time may pass inside an iteration,
which is why the clock is read twice in the model wherever the code reads it
twice. The counters are modulo `CounterWrap`; `warnings`, `chirps` and
`restoredFor` are history.

**ComponentWatchdog.** The history of `ParserWatchdog` (the events raised, the
true silence, the open outages) is added to the loop. The step of the watchdog
is taken where the iteration begins, when the feed and the timestamp are known:
`HealthAhead` and `LastEvalAhead` say what the iteration still has to do to the
tracker, `raised` what it will raise. That is the tracker itself whenever the
loop is at rest, and no callback can come in between.

**SelfTestRun.** The button acts between two iterations, as everything that is
not `loop()`; an iteration evaluates the test after the watchdogs, on the
tracker they leave. The API state is arbitrary at every evaluation, and so is
the Wi-Fi tracker within `Coherent`. Publications are delivered one by one and
no time passes meanwhile. `truth` records, from true time and not from the
clock, which checks really failed when a result was given.

**DiagnosticReport.** A report is the set of positions where its blocks end,
which is all the split looks at. The split goes block by block as in the code,
and a block that is too long, or a fourth part, ends in `Refuse`. The parts are
published one by one; a request while they are, from an automation on one of
them, meets the `generating_` guard. Which reports there are is a constant;
`ReportFormat` computes the firmware's from the lengths of its fields.

## Runs

| Run | Question | Bounds |
| --- | --- | --- |
| `FrameAccumulatorFirmware` | buffer, delivery, counting, progress; implements `CycleScan` | the firmware's proportions: cycle of 9 bytes (2 records, cadence 4, size 5), buffer 12, feeds of 0–4 bytes, streams of 20 bytes with up to 4 headers |
| `FrameAccumulatorOverflow` | what an overflow may lose | feeds of up to 12 bytes, buffer 10, streams of 19 bytes, up to 3 headers |
| `ParserWatchdog` | alarms, detection, durations | clock modulo 10, timeout 3, grace 4, evaluation 2, gap 2, boot at 0 and 8 |
| `WiFiWatchdog` | the same, coherence, RECOVERED, truth of the health entity, liveness | clock modulo 7, grace 4, threshold 3, hold 2, evaluation 1, gap 1, boot at 0 and 5 |
| `CycleValidation` | transactional validation, keeping up | every kind of pass and failure of a cycle, and a voltage that can leave the reach of its entity in two cycles; the voltage is polled |
| `PublishedPowers` | two validators, two rates | a circuit with both its switches, the total, the balance, a voltage that some cycles lack |
| `ComponentLoop` | agreement and order of the entities, counters, RECOVERED; alarms true by true time; implements `ParserWatchdog` | timeout 1, grace 2, evaluation 2, publication 2, gap 1, 7 units of time: two outages and two recoveries, and evaluations that are not due; the clock does not wrap; counters modulo 2 |
| `SelfTestRun` | verdict, counters, order of publication; implements `SelfTestPromise` | clock modulo 6, timeout 1, grace 1, evaluation 2, duration 2, gap 2, boot at 4; counters modulo 2 |
| `DiagnosticReport` | split, refusal, one report shown, progress | the firmware's three parts of 220 characters; its own reports at their extremes, and reports of up to four blocks of any shape |
| `WiFiHealthShown`, `RecoveredVisible`, `BalanceStartup` | a statement of the documentation, refuted | as the runs beside them; `RecoveredVisible` with publication 3, gap 2 and 9 units of time |

*Why the bounds are enough.* For the accumulator what matters is the relation
of the sizes: header, overlap, chunk, cycle and buffer. In the firmware a chunk
(128) and the overlap (22) are together shorter than a cycle (419), and a chunk
fits beside an unfinished cycle (418 + 128 ≤ 894); so they do in the first run.
20 bytes hold two cycles with an overlap, or a damaged cycle with headers
in it and an intact one, split at every place. The theorems remove the bounds.
For the watchdogs the clock wraps within every grace period, outage and
evaluation interval, and the longest limit plus interval plus gap is shorter
than a turn, as in the firmware by a wide margin. For the pipeline each limit
has values at, below and above it. In the self-test run the evaluation interval
lets frames be too old before the watchdog has noticed, the gap lets the main loop
skip the instant at which a test is due, a test may span the wrap, and the counters
wrap. For the report, two of the shaped blocks fill a
part exactly, a third overflows it, and one of 221 is too long by itself.

`MCSelfTestRun` gives TLC a `VIEW` without what no step of the self-test and
none of its properties reads: outages and events of the watchdog, the start of a
test that is over, and the duration of the last test and the truth about it while
the next one runs. `MCComponentWatchdog` does the same for the loop: a used
feed, the start of an iteration that is over, a timestamp no longer compared.

*Deadlock* is checked everywhere: `CHECK_DEADLOCK` is never switched off.
All the models can always take a step (an empty feed, a callback, a switch).

*Fairness.* Each is what a sequential main loop gives.

- Accumulator: a `feed()` once called runs on (`WF` of `ProcessBuffer`), and
  while the UART has bytes the main loop calls `feed()` again (`MoreBytes`).
- Wi-Fi watchdog: time passes, ESPHome keeps calling `loop()`, and a method once
  called finishes.
- Pipeline: every template sensor is polled, `update_interval: 5s`.
- Self-test: time passes, iterations happen, a publication begun is finished.
  Nobody has to press the button.

Nothing is assumed of the meter, the network or the user.

Each property of each passing run has a mutant, a plausible bug in one of the
definitions (`PROJECT.json`, `mutants`), that makes the run fail. Mutants are
operators beside the ones they change and marked as such.

Three refinements are checked as a `PROPERTY`. Two of them, `ImplementsScan` (the
chunks play no role in what the accumulator takes and counts) and `KeepsPromise`
(a request is answered not before `SelfTestDuration` and not later than
`SelfTestDuration + MaxGap - 1`, and ignored while a test runs), are checked with
their liveness and proved for safety; `RunsWatchdog` (the loop implements the
parser watchdog) is a safety property and proved as it is.

## Proofs

Every safety property of a passing run, invariant or action property, is also a
theorem, for every value of the constants within the named assumptions. Type
invariants are proved and not run. Few of the properties are inductive; each
proof module has an invariant `IInv` whose parts say why the property holds, a
lemma per action and part, and theorems that combine them. An action property is
proved from that invariant, and two of the modules add a second, smaller one on
top of it (`FurtherInvariance`, `CutInvariance`). Some theorems state a property
no run checks, because one of the run implies most of it: `CountsOnePerFeed`
(beside `CountsOnce`), `RecoveryEnds` and `HealthLast` of the Wi-Fi watchdog
(beside `LastingConnectionShown` and `HealthTrueOnceOnline`), `OnePollSettles`
(beside `EntitiesKeepUp`) and `Alternation` of the parser watchdog (beside
`BuzzerOncePerOutage` of the loop that implements it).

**`FrameAccumulatorProofs`**, for every number and size of records, size of
buffer and of chunk, and every stream. `TypeCorrect`, `ConfinesOverflow` and
`FeedsEnd` need the assumptions of the module only: even a chunk larger than the
buffer loses only cycles that touch dropped bytes and what the scan had retained,
and every pass of the search uses up a part of what remains of it. `NeverDrops`,
`DeliversPromptly`, `CountsDamage`, `CountsOnce`, `CountsOnePerFeed`,
`JudgesOnce` and `Refinement` (`Spec => Scan!Spec`) need `FirmwareSizes`: a chunk
fits beside an unfinished cycle, and chunk and overlap together are no longer
than a cycle. `FirmwareConstants` is the lemma that the firmware's numbers
satisfy it. The invariant: the buffer holds the last `size` bytes, and between
two feeds less than a cycle (`BufferInv`); no intact cycle that begins before
`Here` is outside the part used up by taken cycles (`ScanInv`); the current
episode ends a cycle after the last counted candidate, and covers every failed
candidate before its end (`EpisodeInv`); the number of candidates counted in this
feed, which depends on how much of the buffer is new (`ResultInv`).

**`ParserWatchdogProofs`**, for every clock width, timeout, interval and gap
with `LoopAssumption`: types, no early timeout, bounded detection, alternation
of the events, the measured outage. The invariant relates each timestamp of the
tracker to the true time since it was taken, as long as that is shorter than a
turn of the clock; lemmas of `MillisProofs` say when the unsigned difference is
the true one.

**`WiFiWatchdogProofs`**, likewise, with the callbacks and the simulation:
`NeverContradicts`, `NoFalseAlarm`, `BoundedDetection`, `Alternation`,
`TrueDurations`, `RecoveredStays`, `RecoveryEnds`, `HealthLast`,
`HealthTrueOnceOnline`. The invariant has a part per state (`OnlineInv`,
`OfflineInv`, `RecoveredInv`), one for what is shown (`ShownInv`, `HealthInv`),
two for the schedule (`EvaluationInv`, `DeadlineInv`), and in a second layer one
for the time before the first effective connection (`FirstInv`) and one that
ties the age of RECOVERED to the next evaluation (`HoldInv`).

**`MeasurementPipelineProofs`**, for every set of cycles, circuits, limits and
sensors: validator and parser hold the last accepted word of the meter on each
measurement (`CommittedTogether`), a live frequency is a marker within the limits
and comes with the voltage of phase A (`FrequencyMarked`), no placeholder is
published but the zero of the balance (`OnlyMeasured`), no entity jumps
(`NeverJumps`), an entity computed from one live value is locked out only after two
accepted cycles without a publication (`OneCycleHarmless`), and after a poll an
entity shows the live value or is exempt for that reason (`OnePollSettles`).
The last one is the step on which `EntitiesKeepUp` rests: with the fairness of the
polls only the temporal conclusion is left to TLC.
The additional parts of the invariant: a ready measurement was measured
(`ReadyMeasured`), what was accepted of a cycle is within the limits
(`LatestInRange`), an entity shows what its validator accepted (`EntityAccepted`),
and shows the live value until the next cycle is accepted (`FreshShown`), after
which it is as near as the cycle validator allows (`OneCycleNear`).
`PlaceholderAssumption` says that the placeholders are no numbers.

**`SEMMeterComponentProofs`**, for every feed result and every time inside an
iteration, in two parts.

- Of the entities: `Agreement`, `BuzzerOnce`, `RecoveryEnds`, `CutOnlyAtOnce`,
  `TriggersLast`. What is under way is one item per entity, with the health last,
  and holds the component's value; what is not under way is shown already
  (`EntityInv`). `TimeInv` bounds how late a periodic publication may be and
  hence how long RECOVERED is held; `CutInv` compares the time RECOVERED has been
  shown with the timestamp the next publication subtracts.
- Of time: `Refinement` (`WatchedSpec => Watchdog!Spec`). The step of the watchdog
  is the one that begins the iteration; every later statement leaves
  `HealthAhead`, the tracker after what the iteration still has to do, as it is,
  and maps to a stutter. `LoopWatches` transfers the theorems of
  `ParserWatchdogProofs` to the loop through the same mapping, and
  `AlarmsTruthful` joins them with `Agreement`: what Home Assistant shows of an
  outage is true by true time, from the last accepted byte to the entity.

**`SelfTestRunProofs`**, for every clock width and counter width with
`LoopAssumption` and `RunAssumption`: `WatchdogUndisturbed` (`RunSpec => Spec` of
the watchdog), `TrueVerdict`, `CountsAgree`, `TriggersLast` and `Refinement` (the
safety part of `KeepsPromise`). The invariant of the parser watchdog holds by
`WatchdogUndisturbed`; `TestInv` adds the phases of a test and its publication.

**`DiagnosticReportProofs`**, for every number and size of parts and every
finite or infinite set of reports: `GreedyIsExact`, `NeverMixed`, and
`RequestsEnd`, by which every step of a request uses up a part of a remainder
fixed when the report is formatted, after which the generator is free. The
invariant says that the greedy split, after each block, is at least as far as any
other split with as many parts; so if it needs one part too many, so does every
other. The least block end after a
position exists by the well-foundedness of the naturals
(`WellFoundedInduction`). `OrdinaryReportsPublished` is about the firmware's own
formatting, for three parts of 220 characters: `FirmwareEnds` says where the
seventeen blocks end, `OrdinaryFits` cuts them into three parts for every snapshot
whose texts are no longer than `Ordinary` admits, and `GreedyIsExact` says that the
generator then finds a cut. `FormattedReports` shows that whatever is formatted is
a report the theorems speak of. Where a fact about sums of lengths would need
induction, the proof takes the least counterexample instead, which needs no operator
parameter.

Only model-checked: liveness, which is beyond this prover
(`LastingConnectionShown`, `EntitiesKeepUp` and the fair parts of `ImplementsScan`
and `KeepsPromise`), and the runs that end in a counterexample. Much of what
liveness would say is proved as safety: a remainder that shrinks with every step
(`FeedsEnd`, `RequestsEnd`), a bound in true time (`BoundedDetection`, both
`RecoveryEnds`), a single step that suffices (`OnePollSettles`). What fairness adds
is that the step is taken.

## What the checks found

Three statements of the documentation do not hold of the code; each has a run
that ends in a counterexample.

1. `WiFiHealthShown`. `docs/diagnostics.md:105`: *SEM WiFi Healthy* is on after
   the first connection. If the simulation is on during the first connection,
   `healthy()` becomes true but neither state nor event changes, and
   `apply_wifi_health_update_` publishes nothing until the next transition. This
   is the only way: once the tracker has been online the entity is right between
   two calls (`HealthShownOnceOnline`, proved).
2. `RecoveredVisible`. `docs/diagnostics.md:150`: `RECOVERED` stays for one
   update interval. `publish_immediate_diagnostics_` reads the clock anew; if it
   has advanced since `loop()` read it and the iteration also publishes
   periodically, the unsigned difference in `publish_periodic_diagnostics_`
   underflows and `RECOVERED` disappears at once. Only then: in any other
   iteration it has been shown for an interval, less the time its delivery may
   take (`RecoveredCutAtOnce`, proved).
3. `BalanceStartup`. `README.md:106`: startup placeholders stay unavailable. The
   balance is computed from entity states, `NaN` before their first poll, and is
   then published as 0 W. No other value is made up: a balance that is not zero
   was computed from published values only (`NothingFabricated`, proved).

And some observations:

- The line frequency is the marker byte of the next record: only 59 and 60 Hz
  can become live, another marker value fails the range check of the whole
  cycle (`FrequencyIsMarker`). With phase A idle, voltage and frequency of an older
  cycle stay live beside the powers of the newest one; they are those of the last
  accepted cycle that carried them (`ValidatorMatchesParser`, proved).
- A value that has moved by more than its limit is rejected at every poll as
  long as it stays there: the entity is locked out, and nothing in the code lets it
  out but the value coming back. For an entity computed from one live value this
  takes two accepted cycles without a publication between them
  (`LockOutNeedsTwoCycles`, proved), because the cycle validator has the same limits;
  it is the only way to fall behind (`EntitiesKeepUp`). Switching a circuit or its
  multiplier can do the same at once.
- With the firmware's sizes no byte is ever dropped (`NeverDrops`), so
  `BUFFER_OVERFLOW` is never raised.
- The self-test's check of the internal state never fails (`VerdictTrue`): the
  states it looks for cannot be reached (`NeverContradicts`). Its check of the
  parser can fail while *SEM Parser Healthy* is still on, because it looks at
  the age of the last frame itself and the watchdog looks later.
- A report always fits while no counter has more than four digits and the ESPHome
  version no more than ten characters (`OrdinaryReportsFit`, proved for the firmware's
  lengths). With the longest reset reason and longer counters it may be refused,
  and then replaces nothing, although `docs/diagnostics.md:560` says that every
  request replaces the three states.

## What is not modelled

- Event listeners and the re-entrancy guard of the dispatcher: nothing in the
  repository registers a listener, and without one `dispatching_` is never true
  when `dispatch` is called.
- The `total_daily_energy` sensors: an ESPHome platform that integrates what the
  modelled entities publish; its code is not in this repository.
- What is published beside the modelled entities (ages, total counts, texts of
  rejections) and timing statistics: they overwrite themselves every interval
  and no other state depends on them.
- Rounding of floats and the byte layout of a record: values are scaled.
- Logging, `dump_config`, startup identity: published once or printed.
- `__init__.py`: configuration schema and code generation, evaluated at build
  time.
- ESPHome, the UART driver and Home Assistant, except that they call the
  component as described above. Nothing is persisted: a restart loses all state,
  and the initial states are those after a restart.

## Plan

The order of the work was that of the dependencies: accumulator, watchdogs,
pipeline, main loop, self-test, report, for each the runs before the proofs, and
last what joins the components: the loop implements the watchdog, the self-test
leaves it alone, the generator accepts the firmware's reports.
What is left, the most valuable first:

1. The daily energy sensors over entities that keep their last good value, with
   the platform modelled as external.
2. The dispatcher with a listener that dispatches again, once a listener exists.
3. The pipeline's voltages with their divisors, where rounding decides on which
   side of a limit a value lies.
4. The loop and the Wi-Fi watchdog joined as the loop and the parser watchdog
   are: `SEMMeterComponent` takes the Wi-Fi events as given.
