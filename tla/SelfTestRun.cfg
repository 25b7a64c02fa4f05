\* The clock wraps after six units; the evaluation interval lets the frames be
\* too old for the self-test before the watchdog has noticed, and the gap lets the
\* main loop skip the instant at which a test is due.
CONSTANTS
  Wrap = 6
  UartTimeout = 1
  StartupGrace = 1
  EvalInterval = 2
  MaxGap = 2
  BootTimes = {4}
  WiFiGrace = 1
  OutageThreshold = 1
  RecoveredHold = 1
  SelfTestDuration = 2
  CounterWrap = 2
SPECIFICATION FairRunSpec
VIEW View
INVARIANTS
  VerdictTrue
  CountersAgree
PROPERTIES
  StatusLast
  KeepsPromise
