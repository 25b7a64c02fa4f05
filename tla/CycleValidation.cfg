\* Every kind of cycle against the live parser; a voltage, which zero does not
\* bypass, is polled.
CONSTANTS
  Circuits <- MCCircuits
  Limits <- MCLimits
  Markers = {59, 60, 255}
  MinimumValidVoltage = 8
  Unset = Unset
  NaN = NaN
  Cycles <- AllKindsOfCycles
  Sensors = {"voltage_a"}
  Switchable = {}
SPECIFICATION FairSpec
INVARIANTS
  ValidatorMatchesParser
  FrequencyIsMarker
  LockOutNeedsTwoCycles
PROPERTIES
  EntitiesKeepUp
