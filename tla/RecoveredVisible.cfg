\* A recovery in the iteration of a periodic publication.
CONSTANTS
  Wrap = 100
  UartTimeout = 2
  StartupGrace = 3
  EvalInterval = 1
  PublishInterval = 3
  MaxGap = 2
  Horizon = 9
  CounterWrap = 2
SPECIFICATION Spec
PROPERTY RecoveredVisible
