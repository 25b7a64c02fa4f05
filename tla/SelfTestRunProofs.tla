-------------------------- MODULE SelfTestRunProofs --------------------------
(***************************************************************************)
(* What SelfTestRun's runs check on a small clock holds for every duration  *)
(* of the self-test, clock and counter width: the verdict is the truth, the *)
(* status is published last and with the true duration, the counters agree, *)
(* and the self-test implements its promise.                                *)
(***************************************************************************)
EXTENDS SelfTestRun, ParserWatchdogProofs, FiniteSetTheorems, SequenceTheorems

-----------------------------------------------------------------------------
(* The parser watchdog runs underneath unchanged.                          *)

(* Every step is a step of the parser watchdog, or leaves it alone.         *)
LEMMA WatchdogStep == [RunNext]_runVars => [Next]_vars
<1> SUFFICES ASSUME [RunNext]_runVars PROVE [Next]_vars
  OBVIOUS
<1>1. CASE TimePasses
  BY <1>1 DEF TimePasses, Next
<1>2. CASE Iteration
  BY <1>2 DEF Iteration, Next
<1>3. CASE SwitchSimulation
  BY <1>3 DEF SwitchSimulation, Next
<1>4. CASE RunSelfTest \/ Deliver
  BY <1>4 DEF RunSelfTest, Deliver
<1>5. CASE UNCHANGED runVars
  BY <1>5 DEF runVars
<1>6. QED
  BY <1>1, <1>2, <1>3, <1>4, <1>5 DEF RunNext

(* The self-test, its button and its publications leave the watchdog as it  *)
(* is: run_self_test() and evaluate_self_test_() only read the trackers.    *)
THEOREM WatchdogUndisturbed == RunSpec => Spec
<1>1. RunInit => Init
  BY DEF RunInit
<1>2. QED
  BY <1>1, WatchdogStep, PTL DEF RunSpec, Spec

(* The invariant of the parser watchdog holds here.                         *)
LEMMA WatchdogInvariance == RunSpec => []IInv
BY WatchdogUndisturbed, Invariance

-----------------------------------------------------------------------------
(* The verdict.                                                             *)

(* The parser check of the self-test tells the truth about the silence,     *)
(* though it reads a wrapping clock and a watchdog that evaluates late.     *)
LEMMA ParserCheckTrue ==
  ASSUME IInv, TimedOutInv
  PROVE  ParserHealthy(health) /\ health.seenFrame /\ FrameAge(health) < UartTimeout
           <=> health.seenFrame /\ silence < UartTimeout
<1>1. health \in Tracker /\ silence \in 0 .. Wrap /\ Wrap \in Nat /\ UartTimeout \in Nat
  BY LimitFacts, ParserTimingAssumption DEF IInv, TypeOK
<1>2. health.seenFrame => Anchor = health.lastFrame /\ Limit = UartTimeout
  BY DEF Anchor, Limit
<1>3. health.seenFrame => FrameAge(health) = Elapsed(now, Anchor)
  BY <1>2 DEF FrameAge
<1>4. ASSUME ParserHealthy(health), FrameAge(health) < UartTimeout
      PROVE  silence < UartTimeout
  <2>1. health.state # "DATA_TIMEOUT" /\ health.seenFrame
    BY <1>4 DEF ParserHealthy
  <2>2. QED
    BY <1>3, <1>4, <2>1, SilenceRead
<1>5. ASSUME health.seenFrame, silence < UartTimeout
      PROVE  ParserHealthy(health) /\ FrameAge(health) < UartTimeout
  <2>1. health.state # "DATA_TIMEOUT"
    BY <1>1, <1>2, <1>5 DEF TimedOutInv
  <2>2. ParserHealthy(health)
    BY <1>5, <2>1 DEF IInv, StateInv, ParserHealthy
  <2>3. QED
    BY <1>3, <1>5, <2>1, <2>2, SilenceRead
<1>6. QED
  BY <1>4, <1>5

Reported == /\ health.seenFrame /\ health.state = "RECEIVING_DATA"
            /\ Elapsed(now, health.lastFrame) < UartTimeout

Short == health.seenFrame /\ silence < UartTimeout

(* In other words: a short silence is reported, a long one is not.          *)
LEMMA ReportedShort == IInv /\ TimedOutInv => (Reported <=> Short)
BY ParserCheckTrue DEF ParserHealthy, FrameAge, Reported, Short

(* The same of the tracker an iteration leaves.                             *)
LEMMA ParserCheckNext ==
  ASSUME IInv', TimedOutInv', now' = now
  PROVE  ParserHealthy(health') /\ health'.seenFrame /\ FrameAge(health') < UartTimeout
           <=> health'.seenFrame /\ silence' < UartTimeout
<1>1. Reported' <=> Short'
  BY ReportedShort, PTL
<1>2. QED
  BY <1>1 DEF Reported, Short, ParserHealthy, FrameAge, Elapsed

(* Whatever the Wi-Fi tracker is, the check agrees with the effective       *)
(* connection, and no internal contradiction shows.                         *)
LEMMA WiFiCheckTrue ==
  ASSUME NEW w \in WiFiSamples, NEW h
  PROVE  /\ w.connected /\ WiFiHealthy(w) /\ ~w.simulation <=> w.connected /\ ~w.simulation
         /\ InternallyConsistent(h, w)
<1>1. Coherent(w)
  BY DEF WiFiSamples
<1>2. QED
  BY <1>1 DEF Coherent, WiFiHealthy, InternallyConsistent, ParserHealthy

(* The checks that fail are the ones that should.                           *)
LEMMA ChecksTrue ==
  ASSUME IInv', TimedOutInv', now' = now, NEW w \in WiFiSamples, NEW api \in BOOLEAN
  PROVE  FailedChecks(SelfTestInputs(health', w, api))
           = TrueFailures(health'.seenFrame, silence', w, api)
<1> DEFINE inputs == SelfTestInputs(health', w, api)
           failed == FailedChecks(inputs)
           true   == TrueFailures(health'.seenFrame, silence', w, api)
<1>1. /\ inputs.parserHealthy <=> ParserHealthy(health')
      /\ inputs.seenFrame <=> health'.seenFrame
      /\ inputs.frameAge = FrameAge(health') /\ inputs.frameTimeout = UartTimeout
      /\ inputs.connected <=> w.connected
      /\ inputs.wifiHealthy <=> WiFiHealthy(w)
      /\ inputs.simulation <=> w.simulation
      /\ inputs.api <=> api
      /\ inputs.consistent <=> InternallyConsistent(health', w)
  BY Zenon DEF SelfTestInputs
<1>2. failed \subseteq Checks /\ true \subseteq {"PARSER", "WIFI", "API"}
  BY Zenon DEF FailedChecks, TrueFailures
<1>3. "PARSER" \in failed <=> "PARSER" \in true
  <2>1. /\ health'.seenFrame => FrameAge(health') \in Nat
        /\ silence' \in Nat
    <3>1. health' \in Tracker /\ now' \in Timestamps /\ silence' \in 0 .. Wrap
      BY DEF IInv, TypeOK
    <3>2. Elapsed(now, health'.lastFrame) \in Timestamps
      BY <3>1, ElapsedType DEF Tracker
    <3>3. QED
      BY <3>1, <3>2 DEF FrameAge, Timestamps
  <2>2. "PARSER" \in failed
          <=> ~(ParserHealthy(health') /\ health'.seenFrame /\ FrameAge(health') < UartTimeout)
    BY <1>1, <2>1, ParserTimingAssumption DEF FailedChecks, Checks
  <2>3. "PARSER" \in true <=> ~(health'.seenFrame /\ silence' < UartTimeout)
    BY DEF TrueFailures
  <2>4. QED
    BY <2>2, <2>3, ParserCheckNext
<1>4. "WIFI" \in failed <=> "WIFI" \in true
  <2>1. "WIFI" \in failed <=> ~(w.connected /\ WiFiHealthy(w) /\ ~w.simulation)
    BY <1>1 DEF FailedChecks, Checks
  <2>2. "WIFI" \in true <=> ~(w.connected /\ ~w.simulation)
    BY DEF TrueFailures
  <2>3. QED
    BY <2>1, <2>2, WiFiCheckTrue
<1>5. "API" \in failed <=> "API" \in true
  BY <1>1 DEF FailedChecks, Checks, TrueFailures
<1>6. "INTERNAL_STATE" \notin failed
  BY <1>1, WiFiCheckTrue DEF FailedChecks, Checks
<1>7. QED
  BY <1>2, <1>3, <1>4, <1>5, <1>6 DEF Checks

-----------------------------------------------------------------------------
(* Publications one after the other.                                        *)

(* A sequence that continues one with another is their concatenation.       *)
LEMMA Joined ==
  ASSUME NEW S, NEW l \in Seq(S), NEW r \in Seq(S), NEW t \in Seq(S),
         Len(t) = Len(l) + Len(r),
         \A i \in 1 .. Len(l) : t[i] = l[i],
         \A i \in 1 .. Len(r) : t[Len(l) + i] = r[i]
  PROVE  l \o r = t
<1>1. l \o r \in Seq(S)
  BY ConcatProperties
<1>2. Len(l \o r) = Len(t)
  BY ConcatProperties
<1>3. \A i \in 1 .. Len(t) : (l \o r)[i] = IF i <= Len(l) THEN l[i] ELSE r[i - Len(l)]
  BY ConcatProperties
<1>4. ASSUME NEW i \in 1 .. Len(t) PROVE (l \o r)[i] = t[i]
  <2>1. CASE i <= Len(l)
    BY <1>3, <2>1
  <2>2. CASE i > Len(l)
    <3>1. i - Len(l) \in 1 .. Len(r) /\ Len(l) + (i - Len(l)) = i
      BY <2>2
    <3>2. r[i - Len(l)] = t[i]
      BY <3>1
    <3>3. QED
      BY <1>3, <2>2, <3>2
  <2>3. QED
    BY <2>1, <2>2
<1>5. QED
  BY <1>1, <1>2, <1>4, SeqEqual

(* The concatenations of the publications, written out.                     *)
LEMMA OneThree ==
  ASSUME NEW a, NEW b, NEW c, NEW d PROVE <<a>> \o <<b, c, d>> = <<a, b, c, d>>
<1> DEFINE S == {a, b, c, d}
           l == <<a>>
           r == <<b, c, d>>
           t == <<a, b, c, d>>
<1>1. l \in Seq(S) /\ r \in Seq(S) /\ t \in Seq(S) /\ Len(t) = Len(l) + Len(r)
  OBVIOUS
<1>2. (\A i \in 1 .. Len(l) : t[i] = l[i]) /\ (\A i \in 1 .. Len(r) : t[Len(l) + i] = r[i])
  OBVIOUS
<1> HIDE DEF S, l, r, t
<1>3. l \o r = t
  BY <1>1, <1>2, Joined
<1>4. QED
  BY <1>3 DEF l, r, t

(* Concatenations of as many items as the self-test publishes.              *)
LEMMA OneFour ==
  ASSUME NEW a, NEW b, NEW c, NEW d, NEW e PROVE <<a>> \o <<b, c, d, e>> = <<a, b, c, d, e>>
<1> DEFINE S == {a, b, c, d, e}
           l == <<a>>
           r == <<b, c, d, e>>
           t == <<a, b, c, d, e>>
<1>1. l \in Seq(S) /\ r \in Seq(S) /\ t \in Seq(S) /\ Len(t) = Len(l) + Len(r)
  OBVIOUS
<1>2. (\A i \in 1 .. Len(l) : t[i] = l[i]) /\ (\A i \in 1 .. Len(r) : t[Len(l) + i] = r[i])
  OBVIOUS
<1> HIDE DEF S, l, r, t
<1>3. l \o r = t
  BY <1>1, <1>2, Joined
<1>4. QED
  BY <1>3 DEF l, r, t

(* Two items and one.                                                       *)
LEMMA TwoOne ==
  ASSUME NEW a, NEW b, NEW c PROVE <<a, b>> \o <<c>> = <<a, b, c>>
<1> DEFINE S == {a, b, c}
           l == <<a, b>>
           r == <<c>>
           t == <<a, b, c>>
<1>1. l \in Seq(S) /\ r \in Seq(S) /\ t \in Seq(S) /\ Len(t) = Len(l) + Len(r)
  OBVIOUS
<1>2. (\A i \in 1 .. Len(l) : t[i] = l[i]) /\ (\A i \in 1 .. Len(r) : t[Len(l) + i] = r[i])
  OBVIOUS
<1> HIDE DEF S, l, r, t
<1>3. l \o r = t
  BY <1>1, <1>2, Joined
<1>4. QED
  BY <1>3 DEF l, r, t

(* Three items and one.                                                     *)
LEMMA ThreeOne ==
  ASSUME NEW a, NEW b, NEW c, NEW d PROVE <<a, b, c>> \o <<d>> = <<a, b, c, d>>
<1> DEFINE S == {a, b, c, d}
           l == <<a, b, c>>
           r == <<d>>
           t == <<a, b, c, d>>
<1>1. l \in Seq(S) /\ r \in Seq(S) /\ t \in Seq(S) /\ Len(t) = Len(l) + Len(r)
  OBVIOUS
<1>2. (\A i \in 1 .. Len(l) : t[i] = l[i]) /\ (\A i \in 1 .. Len(r) : t[Len(l) + i] = r[i])
  OBVIOUS
<1> HIDE DEF S, l, r, t
<1>3. l \o r = t
  BY <1>1, <1>2, Joined
<1>4. QED
  BY <1>3 DEF l, r, t

(* Nothing and nothing.                                                     *)
LEMMA ConcatNone == << >> \o << >> = << >>
BY ConcatEmptySeq, << >> \in Seq({})

(* Two items and nothing.                                                   *)
LEMMA ConcatPair == \A a, b : <<a, b>> \o << >> = <<a, b>>
OBVIOUS

(* Nothing and four items.                                                  *)
LEMMA EmptyFour == \A a, b, c, d : << >> \o <<a, b, c, d>> = <<a, b, c, d>>
<1> TAKE a, b, c, d
<1>1. <<a, b, c, d>> \in Seq({a, b, c, d})
  OBVIOUS
<1>2. QED
  BY <1>1, ConcatEmptySeq

-----------------------------------------------------------------------------
(* What a step can do to the self-test.                                     *)

(* An accepted request.                                                     *)
StartStep ==
  /\ outbox = << >> /\ selfTest.status # "RUNNING"
  /\ selfTest' = [selfTest EXCEPT !.status = "RUNNING", !.failed = {}, !.startedAt = now]
  /\ counters' = Counted(counters, {"runs"})
  /\ outbox' = <<Item("runs", counters'["runs"]), Item("summary", Summary(selfTest')),
                 Item("failed", selfTest'.failed), Item("status", selfTest'.status)>>
  /\ UNCHANGED <<vars, shown, waited, truth, passes>>

(* A result.                                                                *)
Finished(failed) ==
  [selfTest EXCEPT !.failed = failed, !.duration = Elapsed(now, selfTest.startedAt),
                   !.status = IF failed = {} THEN "PASS" ELSE "FAIL"]

FinishStep ==
  /\ outbox = << >> /\ TestDue(selfTest, now)
  /\ now' = now /\ gap' = 0
  /\ truth' \in SUBSET Checks
  /\ selfTest' = Finished(truth')
  /\ counters' = Counted(counters, IF truth' = {} THEN {} ELSE {"failures"})
  /\ passes' = IF truth' = {} THEN (passes + 1) % CounterWrap ELSE passes
  /\ LET items == <<Item("summary", Summary(selfTest')), Item("failed", selfTest'.failed),
                    Item("duration", selfTest'.duration), Item("status", selfTest'.status)>>
     IN  outbox' = IF truth' = {} THEN items
                   ELSE <<Item("failures", counters'["failures"])>> \o items
  /\ UNCHANGED <<shown, waited>>

WaitStep ==
  /\ outbox = << >> /\ gap < MaxGap
  /\ now' = (now + 1) % Wrap /\ gap' = gap + 1
  /\ waited' = IF selfTest.status = "RUNNING" THEN Later(waited) ELSE waited
  /\ UNCHANGED <<selfTest, counters, outbox, shown, truth, passes>>

(* An iteration that has nothing to evaluate, the simulation, a request     *)
(* that is refused.                                                         *)
IdleStep ==
  /\ now' = now
  /\ gap' = gap \/ (gap' = 0 /\ ~TestDue(selfTest, now))
  /\ UNCHANGED testVars

(* A request that is accepted is a StartStep.                               *)
LEMMA RequestEffect == RunSelfTest => StartStep \/ IdleStep
<1> SUFFICES ASSUME RunSelfTest PROVE StartStep \/ IdleStep
  OBVIOUS
<1> DEFINE update == StartTest(selfTest, now)
<1>1. CASE selfTest.status = "RUNNING"
  <2>1. update.signal = "NONE"
    BY <1>1 DEF StartTest, TestUpdate
  <2>2. UNCHANGED <<selfTest, counters, outbox, passes>>
    BY <2>1 DEF RunSelfTest, ApplyTest
  <2>3. QED
    BY <2>2 DEF IdleStep, RunSelfTest, vars, testVars
<1>2. CASE selfTest.status # "RUNNING"
  <2>1. /\ update.signal = "STARTED"
        /\ update.test
             = [selfTest EXCEPT !.status = "RUNNING", !.failed = {}, !.startedAt = now]
    BY <1>2 DEF StartTest, TestUpdate
  <2>2. {"runs"} \union RecordSelfTestResult(update.signal) = {"runs"}
    BY <2>1 DEF RecordSelfTestResult
  <2> HIDE DEF update
  <2>3. /\ selfTest' = update.test
        /\ counters' = Counted(counters, {"runs"})
        /\ outbox' = CounterItems({"runs"}) \o TestItems(update.test, FALSE)
        /\ passes' = passes
    <3>1. ApplyTest(update, {"runs"})
      BY DEF RunSelfTest, update
    <3>2. ~(update.signal \in {"PASSED", "FAILED"}) /\ update.signal # "NONE"
      BY <2>1
    <3> DEFINE all == {"runs"} \union RecordSelfTestResult(update.signal)
    <3>3. /\ selfTest' = update.test
          /\ counters' = Counted(counters, all)
          /\ outbox' = CounterItems(all)
                         \o TestItems(update.test, update.signal \in {"PASSED", "FAILED"})
          /\ passes' = passes
      BY <2>1, <3>1, <3>2 DEF ApplyTest
    <3>4. TestItems(update.test, update.signal \in {"PASSED", "FAILED"})
            = TestItems(update.test, FALSE)
      BY <3>2 DEF TestItems
    <3>5. QED
      BY <2>2, <3>3, <3>4
  <2>4. CounterItems({"runs"}) = <<Item("runs", counters'["runs"])>>
    BY <2>3 DEF CounterItems
  <2>5. TestItems(update.test, FALSE)
          = <<Item("summary", Summary(selfTest')), Item("failed", selfTest'.failed),
              Item("status", selfTest'.status)>>
    <3>1. TestItems(update.test, FALSE)
            = <<Item("summary", Summary(selfTest')), Item("failed", selfTest'.failed)>>
                \o << >> \o <<Item("status", selfTest'.status)>>
      BY <2>3 DEF TestItems
    <3>2. QED
      BY <3>1, ConcatPair, TwoOne
  <2>6. outbox' = <<Item("runs", counters'["runs"]), Item("summary", Summary(selfTest')),
                    Item("failed", selfTest'.failed), Item("status", selfTest'.status)>>
    <3>1. outbox' = <<Item("runs", counters'["runs"])>>
                      \o <<Item("summary", Summary(selfTest')), Item("failed", selfTest'.failed),
                           Item("status", selfTest'.status)>>
      BY <2>3, <2>4, <2>5
    <3>2. QED
      BY <3>1, OneThree
  <2>7. QED
    BY <1>2, <2>1, <2>3, <2>6 DEF StartStep, RunSelfTest
<1>3. QED
  BY <1>1, <1>2

(* An iteration that evaluates a due self-test gives the true result.       *)
LEMMA EvaluationEffect ==
  ASSUME IInv', TimedOutInv', Iteration
  PROVE  FinishStep \/ IdleStep
<1>1. outbox = << >> /\ now' = now /\ gap' = 0
  BY DEF Iteration, Loop, Iterate
<1>2. CASE ~TestDue(selfTest, now)
  BY <1>1, <1>2 DEF Iteration, EvaluateSelfTest, IdleStep
<1>3. CASE TestDue(selfTest, now)
  <2>1. PICK w \in WiFiSamples, api \in BOOLEAN :
          /\ ApplyTest(FinishTest(selfTest, SelfTestInputs(health', w, api), now), {})
          /\ truth' = TrueFailures(health'.seenFrame, silence', w, api)
          /\ UNCHANGED <<shown, waited>>
    BY <1>3 DEF Iteration, EvaluateSelfTest
  <2> DEFINE update == FinishTest(selfTest, SelfTestInputs(health', w, api), now)
  <2>2. FailedChecks(SelfTestInputs(health', w, api)) = truth'
    BY <1>1, <2>1, ChecksTrue
  <2>3. truth' \in SUBSET Checks
    BY <2>2 DEF FailedChecks
  <2>4. /\ update.test = Finished(truth')
        /\ update.signal = IF truth' = {} THEN "PASSED" ELSE "FAILED"
    BY <2>2 DEF FinishTest, Finished, TestUpdate
  <2> DEFINE all == IF truth' = {} THEN {} ELSE {"failures"}
  <2>5. {} \union RecordSelfTestResult(update.signal) = all
    BY <2>4 DEF RecordSelfTestResult
  <2>6. update.signal # "NONE" /\ update.signal \in {"PASSED", "FAILED"}
    BY <2>4
  <2>7. ApplyTest(update, {})
    BY <2>1
  <2> HIDE DEF update, all
  <2>8. /\ selfTest' = update.test
        /\ counters' = Counted(counters, all)
        /\ outbox' = CounterItems(all) \o TestItems(update.test, TRUE)
        /\ passes' = IF update.signal = "PASSED" THEN (passes + 1) % CounterWrap ELSE passes
    BY <2>5, <2>6, <2>7 DEF ApplyTest
  <2> DEFINE items == <<Item("summary", Summary(selfTest')), Item("failed", selfTest'.failed),
                        Item("duration", selfTest'.duration), Item("status", selfTest'.status)>>
  <2>9. TestItems(update.test, TRUE) = items
    <3>1. TestItems(update.test, TRUE)
            = <<Item("summary", Summary(selfTest')), Item("failed", selfTest'.failed)>>
                \o <<Item("duration", selfTest'.duration)>> \o <<Item("status", selfTest'.status)>>
      BY <2>8 DEF TestItems
    <3>2. <<Item("summary", Summary(selfTest')), Item("failed", selfTest'.failed)>>
              \o <<Item("duration", selfTest'.duration)>>
            = <<Item("summary", Summary(selfTest')), Item("failed", selfTest'.failed),
                Item("duration", selfTest'.duration)>>
      BY TwoOne
    <3>3. TestItems(update.test, TRUE)
            = <<Item("summary", Summary(selfTest')), Item("failed", selfTest'.failed),
                Item("duration", selfTest'.duration)>> \o <<Item("status", selfTest'.status)>>
      BY <3>1, <3>2
    <3>4. QED
      BY <3>3, ThreeOne
  <2>10. CASE truth' = {}
    <3>1. CounterItems(all) = << >>
      <4>1. CounterItems(all) = << >> \o << >>
        BY <2>10 DEF CounterItems, all
      <4>2. QED
        BY <4>1, ConcatNone
    <3>2. outbox' = items
      <4>1. outbox' = << >> \o items
        BY <2>8, <2>9, <3>1
      <4>2. QED
        BY <4>1, EmptyFour
    <3>3. QED
      BY <1>1, <1>3, <2>1, <2>3, <2>4, <2>8, <2>10, <3>2 DEF FinishStep, all
  <2>11. CASE truth' # {}
    <3>1. CounterItems(all) = <<Item("failures", counters'["failures"])>>
      BY <2>8, <2>11 DEF CounterItems, all
    <3>2. outbox' = <<Item("failures", counters'["failures"])>> \o items
      BY <2>8, <2>9, <3>1
    <3>3. QED
      BY <1>1, <1>3, <2>1, <2>3, <2>4, <2>8, <2>11, <3>2 DEF FinishStep, all
  <2>12. QED
    BY <2>10, <2>11
<1>4. QED
  BY <1>2, <1>3

(* These are all the steps.                                                 *)
LEMMA RunEffect ==
  ASSUME IInv', TimedOutInv', [RunNext]_runVars
  PROVE  StartStep \/ FinishStep \/ WaitStep \/ Deliver \/ IdleStep
<1>1. CASE TimePasses
  BY <1>1 DEF TimePasses, Tick, WaitStep
<1>2. CASE Iteration
  BY <1>2, EvaluationEffect
<1>3. CASE SwitchSimulation \/ UNCHANGED runVars
  BY <1>3 DEF SwitchSimulation, SetSimulation, IdleStep, runVars, vars
<1>4. CASE RunSelfTest
  BY <1>4, RequestEffect
<1>5. QED
  BY <1>1, <1>2, <1>3, <1>4 DEF RunNext

-----------------------------------------------------------------------------
(* The inductive invariant.                                                 *)

Entities == {"summary", "failed", "duration", "status", "runs", "failures"}

(* What an entity should show of a self-test t and counters c.              *)
Value(t, c, e) ==
  CASE e = "summary"  -> Summary(t)
    [] e = "failed"   -> t.failed
    [] e = "duration" -> t.duration
    [] e = "status"   -> t.status
    [] e = "runs"     -> c["runs"]
    [] e = "failures" -> c["failures"]

Items(t, c) == {Item(e, Value(t, c, e)) : e \in Entities}

(* Only present values are under way, the status last, ...                  *)
OutboxInv ==
  /\ outbox \in Seq(Items(selfTest, counters))
  /\ \A i \in 1 .. Len(outbox) : outbox[i].entity = "status" <=> i = Len(outbox)

(* ... and what is not under way is shown already; no test, no duration.    *)
Announced(e) == \E i \in 1 .. Len(outbox) : outbox[i].entity = e

Completed(t) == t.status \in {"PASS", "FAIL"}

ShownInv ==
  \A e \in Entities : \/ shown[e] = Value(selfTest, counters, e)
                      \/ Announced(e)
                      \/ e = "duration" /\ ~Completed(selfTest)

(* The true time of a running test can be read off the clock, and the       *)
(* iterations have not let it grow too long.                                *)
RunningInv ==
  selfTest.status = "RUNNING" =>
    /\ waited <= SelfTestDuration - 1 + gap
    /\ Elapsed(now, selfTest.startedAt) = waited

(* The status Home Assistant sees is one step behind at most.               *)
PhaseInv ==
  IF outbox = << >>
  THEN /\ shown.status = selfTest.status
       /\ selfTest.status # "RUNNING" => waited = 0
  ELSE IF selfTest.status = "RUNNING"
       THEN shown.status # "RUNNING" /\ waited = 0
       ELSE /\ Completed(selfTest) /\ shown.status = "RUNNING"
            /\ waited = selfTest.duration /\ waited >= SelfTestDuration

Counts == counters["failures"] + passes + (IF selfTest.status = "RUNNING" THEN 1 ELSE 0)

CountInv == counters["runs"] = Counts % CounterWrap

FailInv == selfTest.status = "FAIL" => selfTest.failed # {}

TestInv ==
  /\ RunTypeOK /\ OutboxInv /\ ShownInv /\ RunningInv /\ PhaseInv /\ CountInv /\ FailInv
  /\ VerdictTrue

(* Each item under way is an entity with its value.                         *)
LEMMA ItemFacts ==
  ASSUME NEW t, NEW c, NEW item \in Items(t, c)
  PROVE  item.entity \in Entities /\ item.value = Value(t, c, item.entity)
<1>1. PICK e \in Entities : item = Item(e, Value(t, c, e))
  BY DEF Items
<1>2. item.entity = e /\ item.value = Value(t, c, e)
  BY <1>1 DEF Item
<1>3. QED
  BY <1>2

(* What each entity of the self-test shows.                                 *)
LEMMA ValueFacts ==
  ASSUME NEW t, NEW c
  PROVE  /\ Value(t, c, "summary") = Summary(t) /\ Value(t, c, "failed") = t.failed
         /\ Value(t, c, "duration") = t.duration /\ Value(t, c, "status") = t.status
         /\ Value(t, c, "runs") = c["runs"] /\ Value(t, c, "failures") = c["failures"]
BY DEF Value

(* A self-test has a summary: a failed one failed at least one check.       *)
LEMMA SummaryType ==
  ASSUME NEW t \in SelfTests, t.status = "FAIL" => t.failed # {}
  PROVE  Summary(t) \in Summaries
<1>1. t.status \in SelfTestStatuses /\ t.failed \in SUBSET Checks
  BY DEF SelfTests
<1>2. CASE t.status = "FAIL"
  <2>1. IsFiniteSet(Checks)
    <3>1. IsFiniteSet({}) /\ IsFiniteSet({"PARSER"})
      BY FS_EmptySet, FS_Singleton
    <3>2. IsFiniteSet({"PARSER"} \union {"WIFI"})
      BY <3>1, FS_AddElement
    <3>3. IsFiniteSet(({"PARSER"} \union {"WIFI"}) \union {"API"})
      BY <3>2, FS_AddElement
    <3>4. IsFiniteSet((({"PARSER"} \union {"WIFI"}) \union {"API"}) \union {"INTERNAL_STATE"})
      BY <3>3, FS_AddElement
    <3>5. Checks = (({"PARSER"} \union {"WIFI"}) \union {"API"}) \union {"INTERNAL_STATE"}
      BY DEF Checks
    <3>6. QED
      BY <3>4, <3>5
  <2>2. IsFiniteSet(t.failed)
    BY <1>1, <2>1, FS_Subset
  <2>3. Cardinality(t.failed) \in Nat /\ Cardinality(t.failed) # 0
    BY <1>2, <2>2, FS_CardinalityType, FS_EmptySet
  <2>4. CASE Cardinality(t.failed) > 1
    BY <1>2, <2>4 DEF Summary, Summaries
  <2>5. CASE ~(Cardinality(t.failed) > 1)
    <3>1. Cardinality(t.failed) = 1
      BY <2>3, <2>5
    <3>2. PICK c : t.failed = {c}
      BY <2>2, <3>1, FS_Singleton
    <3>3. \E d \in Checks : t.failed = {d}
      BY <1>1, <3>2
    <3>4. (CHOOSE d \in Checks : t.failed = {d}) \in Checks
      BY <3>3
    <3>5. QED
      BY <1>2, <2>5, <3>4 DEF Summary, Summaries
  <2>6. QED
    BY <2>4, <2>5
<1>3. CASE t.status # "FAIL"
  BY <1>1, <1>3 DEF SelfTestStatuses, Summary, Summaries
<1>4. QED
  BY <1>2, <1>3

(* A counter is incremented modulo CounterWrap.                             *)
LEMMA CountedType ==
  ASSUME NEW c \in [{"runs", "failures"} -> CounterValues], NEW changed
  PROVE  /\ Counted(c, changed) \in [{"runs", "failures"} -> CounterValues]
         /\ \A n \in {"runs", "failures"} :
              Counted(c, changed)[n] = IF n \in changed
                                       THEN IF c[n] = CounterWrap - 1 THEN 0 ELSE c[n] + 1
                                       ELSE c[n]
<1>1. DOMAIN c = {"runs", "failures"}
  OBVIOUS
<1>2. \A v \in CounterValues : Increment(v) \in CounterValues
  BY CounterAssumption DEF Increment, CounterValues
<1>3. QED
  BY <1>1, <1>2 DEF Counted, Increment

(* Counting modulo CounterWrap up to twice around.                          *)
LEMMA CountFacts ==
  /\ CounterWrap \in Nat \ {0}
  /\ \A x \in 0 .. 2 * CounterWrap - 1 :
       x % CounterWrap = IF x < CounterWrap THEN x ELSE x - CounterWrap
<1>1. \A x \in 0 .. CounterWrap - 1 : x % CounterWrap = x
  BY CounterAssumption
<1>2. \A x \in CounterWrap .. 2 * CounterWrap - 1 : x % CounterWrap = x - CounterWrap
  BY CounterAssumption
<1>3. QED
  BY <1>1, <1>2, CounterAssumption

-----------------------------------------------------------------------------
(* setup() establishes the invariant.                                       *)
LEMMA TestInit == RunInit => TestInv /\ TimedOutInv
<1> SUFFICES ASSUME RunInit PROVE TestInv /\ TimedOutInv
  OBVIOUS
<1>1. /\ selfTest = NotRun /\ counters = [runs |-> 0, failures |-> 0] /\ outbox = << >>
      /\ waited = 0 /\ truth = {} /\ passes = 0
  BY DEF RunInit
<1>2. /\ selfTest.status = "NOT_RUN" /\ selfTest.failed = {} /\ selfTest.duration = 0
      /\ selfTest \in SelfTests
  <2>1. 0 \in Timestamps
    BY WrapAssumption DEF Timestamps
  <2>2. NotRun \in SelfTests
    BY <2>1 DEF NotRun, SelfTests, SelfTestStatuses
  <2>3. QED
    BY <1>1, <2>2 DEF NotRun
<1>3. shown = [summary |-> "has not run", failed |-> {}, duration |-> Unavailable,
               status |-> "NOT_RUN", runs |-> 0, failures |-> 0]
  BY DEF RunInit
<1>4. 0 \in CounterValues /\ 0 \in 0 .. Wrap
  BY CounterAssumption, WrapAssumption DEF CounterValues
<1>5. RunTypeOK
  <2>1. counters \in [{"runs", "failures"} -> CounterValues]
    BY <1>1, <1>4
  <2>2. shown \in [summary : Summaries, failed : SUBSET Checks,
                   duration : Timestamps \union {Unavailable}, status : SelfTestStatuses,
                   runs : CounterValues, failures : CounterValues]
    BY <1>3, <1>4 DEF Summaries, SelfTestStatuses
  <2>3. QED
    BY <1>1, <1>2, <1>4, <2>1, <2>2 DEF RunTypeOK
<1>6. OutboxInv
  BY <1>1 DEF OutboxInv
<1>7. ShownInv
  <2>1. Summary(selfTest) = "has not run"
    BY <1>2 DEF Summary
  <2>2. counters["runs"] = 0 /\ counters["failures"] = 0
    BY <1>1
  <2>3. \A e \in Entities \ {"duration"} : shown[e] = Value(selfTest, counters, e)
    <3>1. /\ shown["summary"] = "has not run" /\ shown["failed"] = {}
          /\ shown["status"] = "NOT_RUN" /\ shown["runs"] = 0 /\ shown["failures"] = 0
      BY <1>3
    <3> DEFINE V(e) == Value(selfTest, counters, e)
    <3>2. /\ V("summary") = "has not run" /\ V("failed") = {} /\ V("status") = "NOT_RUN"
          /\ V("runs") = 0 /\ V("failures") = 0
      BY <1>2, <2>1, <2>2, ValueFacts
    <3> HIDE DEF V
    <3>3. \A e \in Entities \ {"duration"} : shown[e] = V(e)
      BY <3>1, <3>2 DEF Entities
    <3>4. QED
      BY <3>3 DEF V
  <2>4. ~Completed(selfTest)
    BY <1>2 DEF Completed
  <2>5. QED
    BY <2>3, <2>4 DEF ShownInv
<1>8. RunningInv /\ FailInv /\ VerdictTrue
  BY <1>2 DEF RunningInv, FailInv, VerdictTrue
<1>9. PhaseInv
  BY <1>1, <1>2, <1>3 DEF PhaseInv
<1>10. CountInv
  <2>1. Counts = 0 /\ counters["runs"] = 0
    BY <1>1, <1>2 DEF Counts
  <2>2. QED
    BY <2>1, CountFacts DEF CountInv
<1>11. TimedOutInv
  <2>1. health.state = "WAITING_FOR_UART"
    BY DEF RunInit, Init, SetupCompleted, BootingTracker, Update
  <2>2. QED
    BY <2>1 DEF TimedOutInv
<1>12. QED
  BY <1>5, <1>6, <1>7, <1>8, <1>9, <1>10, <1>11 DEF TestInv

(* An accepted request.                                                     *)
LEMMA StartInvariant == IInv /\ TestInv /\ StartStep => TestInv'
<1> SUFFICES ASSUME IInv, TestInv, StartStep PROVE TestInv'
  OBVIOUS
<1>1. /\ selfTest \in SelfTests
      /\ counters \in [{"runs", "failures"} -> CounterValues]
      /\ now \in Timestamps /\ gap \in 0 .. MaxGap /\ passes \in CounterValues
  BY DEF IInv, TypeOK, TestInv, RunTypeOK
<1>2. /\ now' = now /\ gap' = gap /\ shown' = shown /\ waited' = waited
      /\ truth' = truth /\ passes' = passes
  BY DEF StartStep, vars
<1>3. /\ selfTest' \in SelfTests
      /\ selfTest'.status = "RUNNING" /\ selfTest'.failed = {} /\ selfTest'.startedAt = now
  BY <1>1 DEF StartStep, SelfTests, SelfTestStatuses
<1>4. /\ outbox = << >> /\ selfTest.status # "RUNNING"
      /\ shown.status = selfTest.status /\ waited = 0
  BY DEF StartStep, TestInv, PhaseInv
<1>5. /\ counters' \in [{"runs", "failures"} -> CounterValues]
      /\ counters'["runs"] = IF counters["runs"] = CounterWrap - 1 THEN 0
                             ELSE counters["runs"] + 1
      /\ counters'["failures"] = counters["failures"]
  <2>1. counters' = Counted(counters, {"runs"})
    BY DEF StartStep
  <2>2. QED
    BY <1>1, <2>1, CountedType
<1>6. RunTypeOK'
  BY <1>2, <1>3, <1>5 DEF TestInv, RunTypeOK
<1> DEFINE V(e) == Value(selfTest', counters', e)
<1>7. outbox' = <<Item("runs", V("runs")), Item("summary", V("summary")),
                  Item("failed", V("failed")), Item("status", V("status"))>>
  BY ValueFacts DEF StartStep
<1>8. OutboxInv'
  <2>1. \A e \in Entities : Item(e, V(e)) \in Items(selfTest', counters')
    BY DEF Items
  <2>2. outbox' \in Seq(Items(selfTest', counters'))
    BY <1>7, <2>1 DEF Entities
  <2>3. \A i \in 1 .. Len(outbox') : outbox'[i].entity = "status" <=> i = Len(outbox')
    BY <1>7 DEF Item
  <2>4. QED
    BY <2>2, <2>3 DEF OutboxInv
<1>9. ShownInv'
  <2>1. \A e \in {"runs", "summary", "failed", "status"} : Announced(e)'
    <3>1. /\ Len(outbox') = 4
          /\ outbox'[1].entity = "runs" /\ outbox'[2].entity = "summary"
          /\ outbox'[3].entity = "failed" /\ outbox'[4].entity = "status"
      BY <1>7 DEF Item
    <3>2. QED
      BY <3>1 DEF Announced
  <2>2. shown'["failures"] = V("failures")
    <3>1. ~Announced("failures")
      BY <1>4 DEF Announced
    <3>2. shown["failures"] = Value(selfTest, counters, "failures")
      BY <3>1 DEF TestInv, ShownInv, Entities
    <3>3. QED
      BY <1>2, <1>5, <3>2, ValueFacts
  <2>3. ~Completed(selfTest)'
    BY <1>3 DEF Completed
  <2>4. QED
    BY <2>1, <2>2, <2>3 DEF ShownInv, Entities
<1>10. RunningInv'
  <2>1. Elapsed(now', selfTest'.startedAt) = 0
    BY <1>1, <1>2, <1>3, ElapsedZero
  <2>2. QED
    BY <1>1, <1>2, <1>4, <2>1, SelfTestAssumption DEF RunningInv
<1>11. PhaseInv'
  <2>1. outbox' # << >>
    BY <1>7
  <2>2. QED
    BY <1>2, <1>3, <1>4, <2>1 DEF PhaseInv
<1>12. CountInv'
  <2>1. Counts' = Counts + 1
    BY <1>1, <1>2, <1>3, <1>4, <1>5 DEF Counts, CounterValues
  <2>2. Counts \in 0 .. 2 * CounterWrap - 2
    BY <1>1, <1>4, CounterAssumption DEF Counts, CounterValues
  <2>3. counters["runs"] = Counts % CounterWrap
    BY DEF TestInv, CountInv
  <2>4. counters'["runs"] = Counts' % CounterWrap
    BY <1>5, <2>1, <2>2, <2>3, CountFacts
  <2>5. QED
    BY <2>4 DEF CountInv
<1>13. FailInv' /\ VerdictTrue'
  BY <1>3 DEF FailInv, VerdictTrue
<1>14. QED
  BY <1>6, <1>8, <1>9, <1>10, <1>11, <1>12, <1>13 DEF TestInv

(* A result.                                                                *)
LEMMA FinishInvariant == IInv /\ TestInv /\ FinishStep => TestInv'
<1> SUFFICES ASSUME IInv, TestInv, FinishStep PROVE TestInv'
  OBVIOUS
<1> DEFINE failed == truth'
<1>1. /\ selfTest \in SelfTests
      /\ counters \in [{"runs", "failures"} -> CounterValues]
      /\ now \in Timestamps /\ gap \in 0 .. MaxGap /\ passes \in CounterValues
      /\ waited \in 0 .. Wrap
      /\ failed \in SUBSET Checks
  BY DEF IInv, TypeOK, TestInv, RunTypeOK, FinishStep
<1>2. /\ now' = now /\ shown' = shown /\ waited' = waited
      /\ passes' = IF failed = {} THEN (passes + 1) % CounterWrap ELSE passes
  BY DEF FinishStep
<1>3. /\ outbox = << >> /\ selfTest.status = "RUNNING" /\ shown.status = "RUNNING"
      /\ Elapsed(now, selfTest.startedAt) = waited /\ waited >= SelfTestDuration
  <2>1. /\ outbox = << >> /\ selfTest.status = "RUNNING"
        /\ Elapsed(now, selfTest.startedAt) >= SelfTestDuration
    BY DEF FinishStep, TestDue
  <2>2. QED
    BY <2>1 DEF TestInv, PhaseInv, RunningInv
<1>4. /\ selfTest' \in SelfTests
      /\ selfTest'.status = IF failed = {} THEN "PASS" ELSE "FAIL"
      /\ selfTest'.failed = failed /\ selfTest'.duration = waited
  <2>1. Elapsed(now, selfTest.startedAt) \in Timestamps
    BY <1>1, ElapsedType DEF SelfTests
  <2>2. selfTest' = [selfTest EXCEPT !.failed = failed,
                                     !.duration = Elapsed(now, selfTest.startedAt),
                                     !.status = IF failed = {} THEN "PASS" ELSE "FAIL"]
    BY DEF FinishStep, Finished
  <2>3. QED
    BY <1>1, <1>3, <2>1, <2>2 DEF SelfTests, SelfTestStatuses
<1>5. /\ counters' \in [{"runs", "failures"} -> CounterValues]
      /\ counters'["runs"] = counters["runs"]
      /\ counters'["failures"] = IF failed = {} THEN counters["failures"]
                                 ELSE IF counters["failures"] = CounterWrap - 1 THEN 0
                                      ELSE counters["failures"] + 1
  <2>1. counters' = Counted(counters, IF failed = {} THEN {} ELSE {"failures"})
    BY DEF FinishStep
  <2>2. QED
    BY <1>1, <2>1, CountedType
<1>6. passes' = IF failed = {} THEN IF passes = CounterWrap - 1 THEN 0 ELSE passes + 1
                ELSE passes
  BY <1>1, <1>2, CountFacts DEF CounterValues
<1>7. RunTypeOK'
  <2>1. passes' \in CounterValues
    BY <1>1, <1>6, CountFacts DEF CounterValues
  <2>2. QED
    BY <1>1, <1>2, <1>4, <1>5, <2>1 DEF TestInv, RunTypeOK
<1> DEFINE V(e) == Value(selfTest', counters', e)
           four == <<Item("summary", V("summary")), Item("failed", V("failed")),
                     Item("duration", V("duration")), Item("status", V("status"))>>
           five == <<Item("failures", V("failures")), Item("summary", V("summary")),
                     Item("failed", V("failed")), Item("duration", V("duration")),
                     Item("status", V("status"))>>
<1>8. outbox' = IF failed = {} THEN four ELSE five
  <2>1. outbox' = IF failed = {} THEN four ELSE <<Item("failures", V("failures"))>> \o four
    BY ValueFacts DEF FinishStep
  <2>2. <<Item("failures", V("failures"))>> \o four = five
    BY OneFour
  <2>3. QED
    BY <2>1, <2>2
<1>9. OutboxInv'
  <2>1. \A e \in Entities : Item(e, V(e)) \in Items(selfTest', counters')
    BY DEF Items
  <2>2. outbox' \in Seq(Items(selfTest', counters'))
    <3>1. four \in Seq(Items(selfTest', counters')) /\ five \in Seq(Items(selfTest', counters'))
      BY <2>1 DEF Entities
    <3>2. QED
      BY <1>8, <3>1
  <2>3. \A i \in 1 .. Len(outbox') : outbox'[i].entity = "status" <=> i = Len(outbox')
    <3>1. CASE failed = {}
      BY <1>8, <3>1 DEF Item
    <3>2. CASE failed # {}
      BY <1>8, <3>2 DEF Item
    <3>3. QED
      BY <3>1, <3>2
  <2>4. QED
    BY <2>2, <2>3 DEF OutboxInv
<1>10. ShownInv'
  <2>1. \A e \in {"summary", "failed", "duration", "status"} : Announced(e)'
    <3>1. CASE failed = {}
      <4>1. /\ Len(outbox') = 4
            /\ outbox'[1].entity = "summary" /\ outbox'[2].entity = "failed"
            /\ outbox'[3].entity = "duration" /\ outbox'[4].entity = "status"
        BY <1>8, <3>1 DEF Item
      <4>2. QED
        BY <4>1 DEF Announced
    <3>2. CASE failed # {}
      <4>1. /\ Len(outbox') = 5
            /\ outbox'[2].entity = "summary" /\ outbox'[3].entity = "failed"
            /\ outbox'[4].entity = "duration" /\ outbox'[5].entity = "status"
        BY <1>8, <3>2 DEF Item
      <4>2. QED
        BY <4>1 DEF Announced
    <3>3. QED
      BY <3>1, <3>2
  <2>2. \A e \in Entities : ~Announced(e)
    BY <1>3 DEF Announced
  <2>3. shown'["runs"] = V("runs")
    <3>1. shown["runs"] = Value(selfTest, counters, "runs")
      BY <2>2 DEF TestInv, ShownInv, Entities
    <3>2. QED
      BY <1>2, <1>5, <3>1, ValueFacts
  <2>4. Announced("failures")' \/ shown'["failures"] = V("failures")
    <3>1. CASE failed = {}
      <4>1. shown["failures"] = Value(selfTest, counters, "failures")
        BY <2>2 DEF TestInv, ShownInv, Entities
      <4>2. QED
        BY <1>2, <1>5, <3>1, <4>1, ValueFacts
    <3>2. CASE failed # {}
      <4>1. Len(outbox') = 5 /\ outbox'[1].entity = "failures"
        BY <1>8, <3>2 DEF Item
      <4>2. QED
        BY <4>1 DEF Announced
    <3>3. QED
      BY <3>1, <3>2
  <2>5. QED
    BY <2>1, <2>3, <2>4 DEF ShownInv, Entities
<1>11. RunningInv' /\ FailInv' /\ VerdictTrue'
  BY <1>4 DEF RunningInv, FailInv, VerdictTrue
<1>12. PhaseInv'
  <2>1. outbox' # << >>
    BY <1>8
  <2>2. QED
    BY <1>2, <1>3, <1>4, <2>1 DEF PhaseInv, Completed
<1>13. CountInv'
  <2>1. /\ counters["failures"] \in 0 .. CounterWrap - 1 /\ passes \in 0 .. CounterWrap - 1
        /\ counters["runs"] = (counters["failures"] + passes + 1) % CounterWrap
    BY <1>1, <1>3 DEF TestInv, CountInv, Counts, CounterValues
  <2>2. Counts' = counters'["failures"] + passes' + 0
    BY <1>4 DEF Counts
  <2>3. counters'["failures"] \in 0 .. CounterWrap - 1 /\ passes' \in 0 .. CounterWrap - 1
    BY <1>7 DEF RunTypeOK, CounterValues
  <2>4. counters["runs"] = Counts' % CounterWrap
    <3>1. Counts' \in 0 .. 2 * CounterWrap - 1
      BY <2>2, <2>3, CountFacts
    <3>2. \/ Counts' = counters["failures"] + passes + 1
          \/ Counts' = counters["failures"] + passes + 1 - CounterWrap
      <4>1. CASE failed = {}
        BY <1>5, <1>6, <2>1, <2>2, <4>1, CountFacts
      <4>2. CASE failed # {}
        BY <1>5, <1>6, <2>1, <2>2, <4>2, CountFacts
      <4>3. QED
        BY <4>1, <4>2
    <3>3. counters["failures"] + passes + 1 \in 0 .. 2 * CounterWrap - 1
      BY <2>1, CountFacts
    <3>4. QED
      BY <2>1, <3>1, <3>2, <3>3, CountFacts
  <2>5. QED
    BY <1>5, <2>4 DEF CountInv
<1>14. QED
  BY <1>7, <1>9, <1>10, <1>11, <1>12, <1>13 DEF TestInv

(* Time passes.                                                             *)
LEMMA WaitInvariant == IInv /\ TestInv /\ WaitStep => TestInv'
<1> SUFFICES ASSUME IInv, TestInv, WaitStep PROVE TestInv'
  OBVIOUS
<1>1. /\ selfTest \in SelfTests /\ waited \in 0 .. Wrap
      /\ now \in Timestamps /\ gap \in 0 .. MaxGap
  BY DEF IInv, TypeOK, TestInv, RunTypeOK
<1>2. /\ selfTest' = selfTest /\ counters' = counters /\ outbox' = outbox /\ shown' = shown
      /\ truth' = truth /\ passes' = passes
      /\ gap' = gap + 1 /\ gap < MaxGap /\ now' = (now + 1) % Wrap
      /\ waited' = IF selfTest.status = "RUNNING" THEN Later(waited) ELSE waited
      /\ outbox = << >>
  BY DEF WaitStep
<1>3. waited' \in 0 .. Wrap
  BY <1>1, <1>2, WrapAssumption DEF Later
<1>4. RunTypeOK'
  BY <1>2, <1>3 DEF TestInv, RunTypeOK
<1>5. OutboxInv' /\ ShownInv' /\ CountInv' /\ FailInv' /\ VerdictTrue'
  BY <1>2 DEF TestInv, OutboxInv, ShownInv, Announced, CountInv, Counts, FailInv, VerdictTrue
<1>6. RunningInv'
  <2> SUFFICES ASSUME selfTest.status = "RUNNING"
               PROVE  /\ waited' <= SelfTestDuration - 1 + gap'
                      /\ Elapsed(now', selfTest.startedAt) = waited'
    BY <1>2 DEF RunningInv
  <2>1. /\ waited <= SelfTestDuration - 1 + gap
        /\ Elapsed(now, selfTest.startedAt) = waited
    BY DEF TestInv, RunningInv
  <2>2. waited + 1 < Wrap
    BY <1>1, <1>2, <2>1, SelfTestAssumption, RunAssumption, LimitFacts
  <2>3. waited' = waited + 1
    BY <1>1, <1>2, <2>2, LimitFacts DEF Later
  <2>4. Elapsed(now', selfTest.startedAt) = waited + 1
    <3>1. selfTest.startedAt \in Timestamps
      BY <1>1 DEF SelfTests
    <3>2. QED
      BY <1>1, <1>2, <2>1, <2>2, <3>1, ElapsedNext
  <2>5. QED
    BY <1>1, <1>2, <2>1, <2>3, <2>4, SelfTestAssumption
<1>7. PhaseInv'
  BY <1>2 DEF TestInv, PhaseInv
<1>8. QED
  BY <1>4, <1>5, <1>6, <1>7 DEF TestInv

(* Nothing happens to the self-test; an iteration resets the gap, but only  *)
(* of a test that is not due.                                               *)
LEMMA IdleInvariant == IInv /\ TestInv /\ IdleStep => TestInv'
<1> SUFFICES ASSUME IInv, TestInv, IdleStep PROVE TestInv'
  OBVIOUS
<1>1. /\ selfTest' = selfTest /\ counters' = counters /\ outbox' = outbox /\ shown' = shown
      /\ truth' = truth /\ passes' = passes /\ waited' = waited /\ now' = now
  BY DEF IdleStep, testVars
<1>2. RunTypeOK' /\ OutboxInv' /\ ShownInv' /\ CountInv' /\ FailInv' /\ VerdictTrue' /\ PhaseInv'
  BY <1>1 DEF TestInv, RunTypeOK, OutboxInv, ShownInv, Announced, CountInv, Counts, FailInv,
     VerdictTrue, PhaseInv
<1>3. RunningInv'
  <2>1. CASE gap' = gap
    BY <1>1, <2>1 DEF TestInv, RunningInv
  <2>2. CASE gap' = 0 /\ ~TestDue(selfTest, now)
    <3>1. waited \in 0 .. Wrap
      BY DEF TestInv, RunTypeOK
    <3>2. selfTest.status = "RUNNING" =>
            /\ ~(Elapsed(now, selfTest.startedAt) >= SelfTestDuration)
            /\ Elapsed(now, selfTest.startedAt) = waited
      BY <2>2 DEF TestDue, TestInv, RunningInv
    <3>3. QED
      BY <1>1, <2>2, <3>1, <3>2, SelfTestAssumption, WrapAssumption DEF RunningInv
  <2>3. QED
    BY <2>1, <2>2 DEF IdleStep
<1>4. QED
  BY <1>2, <1>3 DEF TestInv

(* The next entity is published.                                            *)
DeliverStep(e) ==
  /\ UNCHANGED <<vars, selfTest, counters, truth, passes>>
  /\ shown' = [shown EXCEPT ![e] = Value(selfTest, counters, e)]
  /\ waited' = IF e = "status" THEN 0 ELSE waited
  /\ outbox # << >> /\ outbox[1].entity = e
  /\ outbox' \in Seq(Items(selfTest, counters))
  /\ Len(outbox) \in Nat \ {0} /\ Len(outbox') = Len(outbox) - 1
  /\ \A i \in 1 .. Len(outbox') : outbox'[i] = outbox[i + 1]
  /\ e = "status" <=> Len(outbox) = 1
  /\ outbox' = << >> <=> Len(outbox) = 1

(* A delivery shows the first item of the outbox.                           *)
LEMMA DeliverEffect == TestInv /\ Deliver => \E e \in Entities : DeliverStep(e)
<1> SUFFICES ASSUME TestInv, Deliver PROVE \E e \in Entities : DeliverStep(e)
  OBVIOUS
<1> DEFINE S == Items(selfTest, counters)
<1>1. /\ outbox \in Seq(S) /\ outbox # << >>
      /\ \A i \in 1 .. Len(outbox) : outbox[i].entity = "status" <=> i = Len(outbox)
  BY DEF TestInv, OutboxInv, Deliver
<1> HIDE DEF S
<1>2. Len(outbox) \in Nat \ {0} /\ 1 \in 1 .. Len(outbox)
  BY <1>1, EmptySeq
<1>3. /\ Head(outbox) = outbox[1] /\ outbox[1] \in S
      /\ Tail(outbox) \in Seq(S) /\ Len(Tail(outbox)) = Len(outbox) - 1
      /\ \A i \in 1 .. Len(Tail(outbox)) : Tail(outbox)[i] = outbox[i + 1]
  BY <1>1, <1>2, HeadTailProperties
<1>4. PICK e \in Entities : outbox[1].entity = e /\ outbox[1].value = Value(selfTest, counters, e)
  BY <1>3, ItemFacts DEF S
<1>5. /\ outbox' = Tail(outbox)
      /\ shown' = [shown EXCEPT ![Head(outbox).entity] = Head(outbox).value]
      /\ waited' = IF Head(outbox).entity = "status" THEN 0 ELSE waited
      /\ UNCHANGED <<vars, selfTest, counters, truth, passes>>
  BY DEF Deliver
<1>6. shown' = [shown EXCEPT ![e] = Value(selfTest, counters, e)]
  BY <1>3, <1>4, <1>5
<1>7. waited' = IF e = "status" THEN 0 ELSE waited
  BY <1>3, <1>4, <1>5
<1>8. e = "status" <=> Len(outbox) = 1
  <2>1. outbox[1].entity = "status" <=> 1 = Len(outbox)
    BY <1>1, <1>2
  <2>2. QED
    BY <1>2, <1>4, <2>1
<1>9. outbox' = << >> <=> Len(outbox) = 1
  <2>1. Tail(outbox) = << >> <=> Len(Tail(outbox)) = 0
    BY <1>3, EmptySeq
  <2>2. QED
    BY <1>2, <1>3, <1>5, <2>1
<1>10. /\ outbox' \in Seq(S) /\ Len(outbox') = Len(outbox) - 1
       /\ \A i \in 1 .. Len(outbox') : outbox'[i] = outbox[i + 1]
  BY <1>3, <1>5
<1>11. DeliverStep(e)
  BY <1>1, <1>2, <1>4, <1>5, <1>6, <1>7, <1>8, <1>9, <1>10 DEF DeliverStep, S
<1>12. QED
  BY <1>11

(* A delivery keeps the invariant.                                          *)
LEMMA DeliverInvariant == TestInv /\ Deliver => TestInv'
<1> SUFFICES ASSUME TestInv, Deliver PROVE TestInv'
  OBVIOUS
<1>1. PICK e \in Entities : DeliverStep(e)
  BY DeliverEffect
<1>2. /\ selfTest' = selfTest /\ counters' = counters /\ truth' = truth /\ passes' = passes
      /\ now' = now /\ gap' = gap
  BY <1>1 DEF DeliverStep, vars
<1> DEFINE V(d) == Value(selfTest, counters, d)
<1>3. /\ selfTest \in SelfTests
      /\ selfTest.status = "FAIL" => selfTest.failed # {}
      /\ counters \in [{"runs", "failures"} -> CounterValues]
      /\ waited \in 0 .. Wrap
      /\ shown \in [summary : Summaries, failed : SUBSET Checks,
                    duration : Timestamps \union {Unavailable}, status : SelfTestStatuses,
                    runs : CounterValues, failures : CounterValues]
  BY DEF TestInv, RunTypeOK, FailInv
<1>4. /\ V("summary") \in Summaries /\ V("failed") \in SUBSET Checks
      /\ V("duration") \in Timestamps \union {Unavailable} /\ V("status") \in SelfTestStatuses
      /\ V("runs") \in CounterValues /\ V("failures") \in CounterValues
  <2>1. Summary(selfTest) \in Summaries
    BY <1>3, SummaryType
  <2>2. /\ selfTest.failed \in SUBSET Checks /\ selfTest.status \in SelfTestStatuses
        /\ selfTest.duration \in Timestamps
        /\ counters["runs"] \in CounterValues /\ counters["failures"] \in CounterValues
    BY <1>3 DEF SelfTests
  <2>3. /\ V("summary") = Summary(selfTest) /\ V("failed") = selfTest.failed
        /\ V("duration") = selfTest.duration /\ V("status") = selfTest.status
        /\ V("runs") = counters["runs"] /\ V("failures") = counters["failures"]
    BY ValueFacts
  <2> HIDE DEF V
  <2>4. QED
    BY <2>1, <2>2, <2>3
<1>5. /\ shown'[e] = V(e)
      /\ \A d \in Entities \ {e} : shown'[d] = shown[d]
      /\ shown' \in [summary : Summaries, failed : SUBSET Checks,
                     duration : Timestamps \union {Unavailable}, status : SelfTestStatuses,
                     runs : CounterValues, failures : CounterValues]
  <2>1. shown' = [shown EXCEPT ![e] = V(e)]
    BY <1>1 DEF DeliverStep
  <2> HIDE DEF V
  <2>2. QED
    BY <1>3, <1>4, <2>1 DEF Entities
<1>6. waited' = (IF e = "status" THEN 0 ELSE waited) /\ waited' \in 0 .. Wrap
  BY <1>1, <1>3, WrapAssumption DEF DeliverStep
<1>7. RunTypeOK'
  BY <1>2, <1>5, <1>6 DEF TestInv, RunTypeOK
<1>8. OutboxInv'
  <2>1. /\ outbox' \in Seq(Items(selfTest, counters))
        /\ Len(outbox) \in Nat \ {0} /\ Len(outbox') = Len(outbox) - 1
        /\ \A i \in 1 .. Len(outbox') : outbox'[i] = outbox[i + 1]
    BY <1>1 DEF DeliverStep
  <2>2. ASSUME NEW i \in 1 .. Len(outbox')
        PROVE  outbox'[i].entity = "status" <=> i = Len(outbox')
    <3>1. i + 1 \in 1 .. Len(outbox) /\ (i + 1 = Len(outbox) <=> i = Len(outbox'))
      BY <2>1
    <3>2. outbox[i + 1].entity = "status" <=> i + 1 = Len(outbox)
      BY <3>1 DEF TestInv, OutboxInv
    <3>3. QED
      BY <2>1, <3>1, <3>2
  <2>3. QED
    BY <1>2, <2>1, <2>2 DEF OutboxInv
<1>9. ShownInv'
  <2> SUFFICES ASSUME NEW d \in Entities
               PROVE  \/ shown'[d] = V(d) \/ Announced(d)'
                      \/ d = "duration" /\ ~Completed(selfTest)
    BY <1>2 DEF ShownInv, Completed
  <2>1. CASE d = e
    BY <1>5, <2>1
  <2>2. CASE d # e /\ Announced(d)
    <3>1. PICK i \in 1 .. Len(outbox) : outbox[i].entity = d
      BY <2>2 DEF Announced
    <3>2. /\ Len(outbox) \in Nat /\ Len(outbox') = Len(outbox) - 1
          /\ \A j \in 1 .. Len(outbox') : outbox'[j] = outbox[j + 1]
          /\ outbox[1].entity = e
      BY <1>1 DEF DeliverStep
    <3>3. i # 1
      BY <2>2, <3>1, <3>2
    <3>4. i - 1 \in 1 .. Len(outbox') /\ (i - 1) + 1 = i
      BY <3>1, <3>2, <3>3
    <3>5. outbox'[i - 1].entity = d
      BY <3>1, <3>2, <3>4
    <3>6. QED
      BY <3>4, <3>5 DEF Announced
  <2>3. CASE d # e /\ ~Announced(d)
    <3>1. shown[d] = V(d) \/ (d = "duration" /\ ~Completed(selfTest))
      BY <2>3 DEF TestInv, ShownInv
    <3>2. shown'[d] = shown[d]
      BY <1>5, <2>3
    <3>3. QED
      BY <3>1, <3>2
  <2>4. QED
    BY <2>1, <2>2, <2>3
<1>10. RunningInv'
  <2>1. selfTest.status = "RUNNING" => waited' = waited
    BY <1>1, <1>6 DEF DeliverStep, TestInv, PhaseInv
  <2>2. QED
    BY <1>2, <2>1 DEF TestInv, RunningInv
<1>11. PhaseInv'
  <2>1. CASE e = "status"
    <3>1. outbox' = << >> /\ shown'["status"] = selfTest.status /\ waited' = 0
      BY <1>1, <1>5, <1>6, <2>1, ValueFacts DEF DeliverStep
    <3>2. QED
      BY <1>2, <3>1 DEF PhaseInv
  <2>2. CASE e # "status"
    <3>1. /\ outbox' # << >> /\ outbox # << >> /\ waited' = waited
          /\ shown'["status"] = shown["status"]
      BY <1>1, <1>5, <1>6, <2>2 DEF DeliverStep, Entities
    <3>2. QED
      BY <1>2, <3>1 DEF TestInv, PhaseInv, Completed
  <2>3. QED
    BY <2>1, <2>2
<1>12. CountInv' /\ FailInv' /\ VerdictTrue'
  BY <1>2 DEF TestInv, CountInv, Counts, FailInv, VerdictTrue
<1>13. QED
  BY <1>7, <1>8, <1>9, <1>10, <1>11, <1>12 DEF TestInv

(* The invariant is inductive.                                              *)
LEMMA TestInvariance == RunSpec => [](IInv /\ TimedOutInv /\ TestInv)
<1> DEFINE Inv == IInv /\ TimedOutInv /\ TestInv
<1>1. RunInit => TimedOutInv /\ TestInv
  BY TestInit
<1>2. IInv /\ IInv' /\ TimedOutInv /\ TestInv /\ [RunNext]_runVars => TimedOutInv' /\ TestInv'
  <2> SUFFICES ASSUME IInv, IInv', TimedOutInv, TestInv, [RunNext]_runVars
               PROVE  TimedOutInv' /\ TestInv'
    OBVIOUS
  <2>1. TimedOutInv'
    BY WatchdogStep, TimedOutStep
  <2>2. StartStep \/ FinishStep \/ WaitStep \/ Deliver \/ IdleStep
    BY <2>1, RunEffect
  <2>3. TestInv'
    BY <2>2, StartInvariant, FinishInvariant, WaitInvariant, DeliverInvariant, IdleInvariant
  <2>4. QED
    BY <2>1, <2>3
<1>3. RunSpec => []IInv
  BY WatchdogInvariance
<1>4. QED
  BY <1>1, <1>2, <1>3, PTL DEF RunSpec

-----------------------------------------------------------------------------
(* The self-test, its counters, its entities and its history keep their     *)
(* types: a failed test names a failed check, so that it has a summary.     *)
THEOREM RunTypeCorrect == RunSpec => []RunTypeOK
<1>1. TestInv => RunTypeOK
  BY DEF TestInv
<1>2. QED
  BY TestInvariance, <1>1, PTL

(* What evaluate_self_test_ finds is what is the matter at that moment:     *)
(* parser, Wi-Fi and API are judged as they truly are, whatever the clock   *)
(* and the watchdogs' evaluation intervals do, and the internal state never *)
(* contradicts itself.                                                      *)
THEOREM TrueVerdict == RunSpec => []VerdictTrue
<1>1. TestInv => VerdictTrue
  BY DEF TestInv
<1>2. QED
  BY TestInvariance, <1>1, PTL

(* Every run counted is a failure counted, a pass, or under way, for every  *)
(* width of the counters.                                                   *)
THEOREM CountsAgree == RunSpec => []CountersAgree
<1>1. TestInv => CountersAgree
  <2> SUFFICES ASSUME TestInv, outbox = << >>
               PROVE  shown.runs = (shown.failures + passes
                                      + (IF shown.status = "RUNNING" THEN 1 ELSE 0)) % CounterWrap
    BY DEF CountersAgree
  <2>1. \A e \in Entities : ~Announced(e)
    BY DEF Announced
  <2>2. \A e \in {"runs", "failures", "status"} : shown[e] = Value(selfTest, counters, e)
    BY <2>1 DEF TestInv, ShownInv, Entities
  <2>3. /\ shown["runs"] = counters["runs"] /\ shown["failures"] = counters["failures"]
        /\ shown["status"] = selfTest.status
    BY <2>2, ValueFacts
  <2>4. counters["runs"] = Counts % CounterWrap
    BY DEF TestInv, CountInv
  <2>5. QED
    BY <2>3, <2>4 DEF Counts
<1>2. QED
  BY TestInvariance, <1>1, PTL

(* Only the delivery of the status changes the status.                      *)
LEMMA StatusDelivered ==
  ASSUME TestInv, IInv', TimedOutInv', [RunNext]_runVars, shown'.status # shown.status
  PROVE  DeliverStep("status") /\ shown'.status = selfTest.status
<1>1. StartStep \/ FinishStep \/ WaitStep \/ Deliver \/ IdleStep
  BY RunEffect
<1>2. Deliver
  BY <1>1 DEF StartStep, FinishStep, WaitStep, IdleStep, testVars
<1>3. PICK e \in Entities : DeliverStep(e)
  BY <1>2, DeliverEffect
<1>4. shown' = [shown EXCEPT ![e] = Value(selfTest, counters, e)] /\ DOMAIN shown = Entities
  BY <1>3 DEF DeliverStep, TestInv, RunTypeOK, Entities
<1>5. e = "status"
  BY <1>4 DEF Entities
<1>6. shown'["status"] = Value(selfTest, counters, "status")
  BY <1>4, <1>5 DEF Entities
<1>7. QED
  BY <1>3, <1>5, <1>6, ValueFacts

(* An automation that is triggered by the status finds everything else in   *)
(* place.                                                                   *)
THEOREM TriggersLast == RunSpec => StatusLast
<1> DEFINE Inv     == IInv /\ TimedOutInv /\ TestInv
           Trigger == shown'.status # shown.status =>
                        /\ shown.summary = Summary(selfTest) /\ shown.failed = selfTest.failed
                        /\ shown.runs = counters.runs /\ shown.failures = counters.failures
                        /\ shown'.status \in {"PASS", "FAIL"} => shown.duration = waited
<1>1. ASSUME Inv, Inv', [RunNext]_runVars PROVE Trigger
  <2> SUFFICES ASSUME shown'.status # shown.status
               PROVE  /\ shown.summary = Summary(selfTest) /\ shown.failed = selfTest.failed
                      /\ shown.runs = counters.runs /\ shown.failures = counters.failures
                      /\ shown'.status \in {"PASS", "FAIL"} => shown.duration = waited
    OBVIOUS
  <2>1. DeliverStep("status") /\ shown'.status = selfTest.status
    BY <1>1, StatusDelivered
  <2>2. Len(outbox) = 1 /\ outbox[1].entity = "status" /\ outbox # << >>
    BY <2>1 DEF DeliverStep
  <2>3. \A e \in Entities \ {"status"} : ~Announced(e)
    BY <2>2 DEF Announced
  <2>4. \A e \in Entities \ {"status"} : \/ shown[e] = Value(selfTest, counters, e)
                                         \/ e = "duration" /\ ~Completed(selfTest)
    BY <1>1, <2>3 DEF TestInv, ShownInv
  <2>5. /\ shown["summary"] = Value(selfTest, counters, "summary")
        /\ shown["failed"] = Value(selfTest, counters, "failed")
        /\ shown["runs"] = Value(selfTest, counters, "runs")
        /\ shown["failures"] = Value(selfTest, counters, "failures")
    BY <2>4 DEF Entities
  <2>6. Completed(selfTest) => shown["duration"] = Value(selfTest, counters, "duration")
    BY <2>4 DEF Entities
  <2>7. Completed(selfTest) => waited = selfTest.duration
    BY <1>1, <2>2 DEF TestInv, PhaseInv, Completed
  <2>8. shown'.status \in {"PASS", "FAIL"} => shown.duration = waited
    BY <2>1, <2>6, <2>7, ValueFacts DEF Completed
  <2>9. QED
    BY <2>5, <2>8, ValueFacts
<1>2. Inv /\ Inv' /\ [RunNext]_runVars => [Trigger]_runVars
  BY <1>1
<1>3. RunSpec => [][Trigger]_runVars
  BY TestInvariance, <1>2, PTL DEF RunSpec
<1>4. QED
  BY <1>3 DEF StatusLast

-----------------------------------------------------------------------------
(* Each step is one of the promise or leaves what it speaks of alone.       *)
LEMMA PromiseStep ==
  ASSUME IInv, TestInv, IInv', TimedOutInv', [RunNext]_runVars
  PROVE  [Promise!Next]_<<shown.status, waited>>
<1>1. StartStep \/ FinishStep \/ WaitStep \/ Deliver \/ IdleStep
  BY RunEffect
<1>2. CASE StartStep \/ FinishStep \/ IdleStep
  BY <1>2 DEF StartStep, FinishStep, IdleStep, testVars
<1>3. CASE WaitStep
  <2>1. /\ shown' = shown /\ outbox = << >> /\ gap < MaxGap
        /\ waited' = IF selfTest.status = "RUNNING" THEN Later(waited) ELSE waited
    BY <1>3 DEF WaitStep
  <2>2. shown.status = selfTest.status
    BY <2>1 DEF TestInv, PhaseInv
  <2>3. CASE selfTest.status = "RUNNING"
    <3>1. /\ waited \in 0 .. Wrap /\ gap \in 0 .. MaxGap
          /\ waited <= SelfTestDuration - 1 + gap
      BY <2>3 DEF IInv, TypeOK, TestInv, RunTypeOK, RunningInv
    <3>2. waited < SelfTestDuration + MaxGap - 1 /\ waited < Wrap
      BY <2>1, <3>1, SelfTestAssumption, RunAssumption, LimitFacts
    <3>3. waited' = waited + 1
      BY <2>1, <2>3, <3>2 DEF Later
    <3>4. Promise!Wait
      BY <2>1, <2>2, <2>3, <3>2, <3>3 DEF Promise!Wait
    <3>5. QED
      BY <3>4 DEF Promise!Next
  <2>4. CASE selfTest.status # "RUNNING"
    BY <2>1, <2>4
  <2>5. QED
    BY <2>3, <2>4
<1>4. CASE Deliver
  <2>1. PICK e \in Entities : DeliverStep(e)
    BY <1>4, DeliverEffect
  <2>2. /\ shown' = [shown EXCEPT ![e] = Value(selfTest, counters, e)]
        /\ waited' = IF e = "status" THEN 0 ELSE waited
        /\ outbox # << >>
        /\ DOMAIN shown = Entities
    BY <2>1 DEF DeliverStep, TestInv, RunTypeOK, Entities
  <2>3. CASE e # "status"
    <3>1. shown'["status"] = shown["status"]
      BY <2>2, <2>3 DEF Entities
    <3>2. QED
      BY <2>2, <2>3, <3>1
  <2>4. CASE e = "status"
    <3>1. shown'["status"] = selfTest.status /\ waited' = 0
      BY <2>2, <2>4, ValueFacts DEF Entities
    <3>2. CASE selfTest.status = "RUNNING"
      <4>1. shown.status # "RUNNING" /\ waited = 0
        BY <2>2, <3>2 DEF TestInv, PhaseInv
      <4>2. Promise!Request
        BY <3>1, <3>2, <4>1 DEF Promise!Request
      <4>3. QED
        BY <4>2 DEF Promise!Next
    <3>3. CASE selfTest.status # "RUNNING"
      <4>1. /\ shown.status = "RUNNING" /\ selfTest.status \in {"PASS", "FAIL"}
            /\ waited >= SelfTestDuration
        BY <2>2, <3>3 DEF TestInv, PhaseInv, Completed
      <4>2. Promise!Answer
        BY <3>1, <4>1 DEF Promise!Answer
      <4>3. QED
        BY <4>2 DEF Promise!Next
    <3>4. QED
      BY <3>2, <3>3
  <2>5. QED
    BY <2>3, <2>4
<1>5. QED
  BY <1>1, <1>2, <1>3, <1>4

(* The safety part of KeepsPromise: a request while the test runs changes   *)
(* nothing, and no answer comes before SelfTestDuration or after one more   *)
(* gap of the main loop.                                                    *)
THEOREM Refinement == RunSpec => Promise!Init /\ [][Promise!Next]_<<shown.status, waited>>
<1> DEFINE Inv == IInv /\ TimedOutInv /\ TestInv
<1>1. RunInit => Promise!Init
  <2> SUFFICES ASSUME RunInit PROVE Promise!Init
    OBVIOUS
  <2>1. outbox = << >> /\ selfTest = NotRun /\ waited = 0
    BY DEF RunInit
  <2>2. shown.status = selfTest.status
    BY <2>1, TestInit DEF TestInv, PhaseInv
  <2>3. QED
    BY <2>1, <2>2 DEF NotRun, Promise!Init
<1>2. Inv /\ Inv' /\ [RunNext]_runVars => [Promise!Next]_<<shown.status, waited>>
  BY PromiseStep
<1>3. QED
  BY TestInvariance, <1>1, <1>2, PTL DEF RunSpec

=============================================================================
