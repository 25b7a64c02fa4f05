\* The clock wraps after ten units, more than the longest time to detection;
\* with a boot at 8 the grace period itself spans the wrap.
CONSTANTS
  Wrap = 10
  UartTimeout = 3
  StartupGrace = 4
  EvalInterval = 2
  MaxGap = 2
  BootTimes = {0, 8}
SPECIFICATION Spec
INVARIANTS
  NoEarlyTimeout
  DetectionBounded
  OutageMeasured
