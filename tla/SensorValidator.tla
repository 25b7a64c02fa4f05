---------------------------- MODULE SensorValidator ----------------------------
(***************************************************************************)
(* SEMMeterValidator and the transactional cycle validation                 *)
(* (sem_meter_validator.h).  The component has two validators: one judges   *)
(* every decoded cycle as a whole, the other every sample that Home         *)
(* Assistant is about to see.                                               *)
(***************************************************************************)
EXTENDS RecordParser

CONSTANTS
  Limits,    (* validation_limits_for: minimum, maximum, delta, zeroBypass   *)
             (* of each kind of measurement                                  *)
  Unset,     (* an accepted value not initialized yet                        *)
  NaN        (* the state of an entity before its first publication          *)

Measurements ==
  Records \union {"total", "voltage_a", "voltage_b", "frequency", "balance"}

Kinds == {"circuit", "phase", "total", "voltage", "frequency", "balance"}

ASSUME MeasurementNames ==
  Branches \intersect {"total", "voltage_a", "voltage_b", "frequency", "balance"} = {}

ASSUME LimitsAssumption ==
  Limits \in [Kinds -> [minimum : Nat, maximum : Nat, delta : Nat, zeroBypass : BOOLEAN]]

KindOf(m) ==
  CASE m \in Branches                   -> "circuit"
    [] m \in MainPhases                 -> "phase"
    [] m \in {"voltage_a", "voltage_b"} -> "voltage"
    [] OTHER                            -> m

(* Neither can be taken for a measured value.                               *)
ASSUME PlaceholderAssumption == Unset \notin Nat /\ NaN \notin Nat

LimitsOf == [m \in Measurements |-> Limits[KindOf(m)]]

Distance(a, b) == IF a < b THEN b - a ELSE a - b

(* A mutant: a step from zero is let through like a step to zero.           *)
JumpsUnlessZero(accepted, m, value) ==
  /\ accepted # Unset
  /\ ~(LimitsOf[m].zeroBypass /\ (value = 0 \/ accepted = 0))
  /\ Distance(value, accepted) > LimitsOf[m].delta

Jumps(accepted, m, value) ==
  /\ accepted # Unset
  /\ ~(LimitsOf[m].zeroBypass /\ value = 0)
  /\ Distance(value, accepted) > LimitsOf[m].delta

(* validate(): why the value is rejected, the first reason that applies.    *)
Reason(accepted, m, value) ==
  IF value = NaN THEN "NOT_FINITE"
  ELSE IF value < LimitsOf[m].minimum THEN "BELOW_MINIMUM"
  ELSE IF value > LimitsOf[m].maximum THEN "ABOVE_MAXIMUM"
  ELSE IF Jumps(accepted, m, value) THEN "EXCESSIVE_JUMP"
  ELSE "NONE"

Reasons == {"NONE", "NOT_FINITE", "BELOW_MINIMUM", "ABOVE_MAXIMUM", "EXCESSIVE_JUMP"}

-----------------------------------------------------------------------------
(* validate_candidate_cycle_transactionally.                                *)

(* The value of a measurement in a parser.                                  *)
Live(parser, m) ==
  CASE m \in Records     -> parser.power[m]
    [] m = "total"       -> TotalPower(parser)
    [] m = "voltage_a"   -> parser.voltage["phase_a"]
    [] m = "voltage_b"   -> parser.voltage["phase_b"]
    [] m = "frequency"   -> parser.frequency

(* What it checks, in this order: every power and the total, the voltages   *)
(* and the frequency once the parser has them.                              *)
CycleOrder ==
  Circuits \o <<"phase_a", "phase_b", "phase_c", "total", "voltage_a", "voltage_b", "frequency">>

Available(parser, m) ==
  m \in {"voltage_a", "voltage_b", "frequency"} => Live(parser, m) # 0

Checked(parser) == {i \in DOMAIN CycleOrder : Available(parser, CycleOrder[i])}

Failing(accepted, parser) ==
  {i \in Checked(parser) :
     LET m == CycleOrder[i] IN Reason(accepted[m], m, Live(parser, m)) # "NONE"}

FirstFailure(accepted, parser) ==
  CycleOrder[CHOOSE i \in Failing(accepted, parser) :
               \A j \in Failing(accepted, parser) : i <= j]

CycleAccepted(accepted, parser) == Failing(accepted, parser) = {}

(* A mutant: the first accepted value stays the one compared with.          *)
StagedOnce(accepted, parser) ==
  LET checked == {CycleOrder[i] : i \in Checked(parser)}
  IN  [m \in Measurements |-> IF m \in checked /\ accepted[m] = Unset THEN Live(parser, m)
                              ELSE accepted[m]]

(* The staged copy after every measurement passed.  A measurement is        *)
(* checked once in a cycle and against its own last value, so the order     *)
(* matters to nothing but which failure is reported.                        *)
Staged(accepted, parser) ==
  LET checked == {CycleOrder[i] : i \in Checked(parser)}
  IN  [m \in Measurements |-> IF m \in checked THEN Live(parser, m) ELSE accepted[m]]
=============================================================================
