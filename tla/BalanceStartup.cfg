\* The balance beside the entities it is computed from.
CONSTANTS
  Circuits <- MCCircuits
  Limits <- MCLimits
  Markers = {59, 60, 255}
  MinimumValidVoltage = 8
  Unset = Unset
  NaN = NaN
  Cycles <- PowerCycles
  Sensors = {"circuit_1", "total", "balance"}
  Switchable = {}
SPECIFICATION Spec
INVARIANT BalanceFromPublished
