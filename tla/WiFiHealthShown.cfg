\* The clock wraps after seven units, one more than the longest detection time.
CONSTANTS
  Wrap = 7
  WiFiGrace = 4
  OutageThreshold = 3
  RecoveredHold = 2
  EvalInterval = 1
  MaxGap = 1
  BootTimes = {5}
SPECIFICATION Spec
INVARIANT HealthShown
