---------------------------- MODULE MCSelfTestRun ----------------------------
(***************************************************************************)
(* SelfTestRun without what no step of the self-test and none of its        *)
(* properties reads: the outages and events of the parser watchdog, which   *)
(* module ParserWatchdog is about, the start of a test that is over, and    *)
(* the duration of the last test and the truth about it while the next runs.*)
(***************************************************************************)
EXTENDS SelfTestRun

View ==
  <<now, gap, lastEval, simulation, silence,
    health.state, health.seenFrame, health.lastFrame, health.setupAt,
    selfTest.status, selfTest.failed, counters, outbox, shown, waited, passes,
    IF selfTest.status = "RUNNING" THEN selfTest.startedAt ELSE 0,
    IF selfTest.status = "RUNNING" THEN 0 ELSE selfTest.duration,
    IF selfTest.status = "RUNNING" THEN {} ELSE truth>>
=============================================================================
