\* Long enough for two outages, as many as the counters can hold, for the status
\* after each recovery, and for evaluations that are not due.
CONSTANTS
  Wrap = 100
  UartTimeout = 1
  StartupGrace = 2
  EvalInterval = 2
  PublishInterval = 2
  MaxGap = 1
  Horizon = 7
  CounterWrap = 2
SPECIFICATION WatchedSpec
VIEW View
INVARIANTS
  EntitiesAgree
  BuzzerOncePerOutage
  RecoveredEnds
  AlarmTruthful
PROPERTIES
  TriggerLast
  RecoveredCutAtOnce
  RunsWatchdog
