\* The total, a circuit with both its switches, the balance, and a voltage that the
\* first cycles may lack.
CONSTANTS
  Circuits <- MCCircuits
  Limits <- MCLimits
  Markers = {59, 60, 255}
  MinimumValidVoltage = 8
  Unset = Unset
  NaN = NaN
  Cycles <- PowerCycles
  Sensors = {"circuit_1", "total", "balance", "voltage_a"}
  Switchable = {"circuit_1"}
SPECIFICATION Spec
INVARIANTS
  NothingFabricated
PROPERTIES
  EntitiesNeverJump
