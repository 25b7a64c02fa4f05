----------------------------- MODULE RecordParser -----------------------------
(***************************************************************************)
(* SEMMeterRecordParser (sem_meter_parser.h): what the 19 records of one    *)
(* measurement cycle do to the values the parser holds.  A record is        *)
(* reduced to its status, its power and its voltage, in scaled units.       *)
(*                                                                          *)
(* Records begin every 22 bytes but are 23 bytes long, so the last payload  *)
(* byte of a record is the marker of the next one: the line frequency the   *)
(* parser reads from the record of phase A is the marker of phase B.        *)
(***************************************************************************)
EXTENDS Integers, Sequences, Functions

CONSTANTS
  Circuits,             (* the names of the branch circuits, in order        *)
  Markers,              (* 0xFF, 0x3B, 0x3C: 255, 59 and 60                  *)
  MinimumValidVoltage   (* MINIMUM_VALID_RAW_VOLTAGE, scaled                 *)

MainPhases    == {"phase_a", "phase_b", "phase_c"}
VoltagePhases == {"phase_a", "phase_b"}
Branches      == Range(Circuits)
Records       == Branches \union MainPhases

ASSUME NamesAssumption ==
  /\ Circuits \in Seq(STRING) /\ IsInjective(Circuits)
  /\ Branches \intersect MainPhases = {}

ASSUME ParserAssumption == Markers \subseteq Nat \ {0} /\ MinimumValidVoltage \in Nat

(* A cycle, by its readings and the byte phases A and B share.              *)
Reading == [idle : BOOLEAN, power : Nat, voltage : Nat]
Cycle   == [reading : [Records -> Reading], phaseBMarker : Nat]

(* A voltage or a frequency of 0 is one not initialized yet.               *)
Voltages == {0} \union {v \in Nat : v > MinimumValidVoltage}

Parser == [power     : [Records -> Nat],
           voltage   : [VoltagePhases -> Voltages],
           frequency : Markers \union {0}]

InitialParser ==
  [power     |-> [r \in Records |-> 0],
   voltage   |-> [r \in VoltagePhases |-> 0],
   frequency |-> 0]

AnyMarker(cycle) == TRUE   (* a mutant of StructurallyValid                  *)

(* validate_record_sequence_ of the accumulator, for the one header byte    *)
(* that is also a measurement.                                              *)
StructurallyValid(cycle) == cycle.phaseBMarker \in Markers

(* An idle phase, and a voltage at or below the threshold, leave voltage    *)
(* and frequency as they are.                                               *)
CarriesVoltage(cycle, r) ==
  ~cycle.reading[r].idle /\ cycle.reading[r].voltage > MinimumValidVoltage

(* A mutant: a phase without a voltage loses the one it had.                *)
DecodeForgetting(parser, cycle) ==
  [power     |-> [r \in Records |-> IF cycle.reading[r].idle THEN 0
                                    ELSE cycle.reading[r].power],
   voltage   |-> [r \in VoltagePhases |-> IF CarriesVoltage(cycle, r)
                                          THEN cycle.reading[r].voltage ELSE 0],
   frequency |-> IF CarriesVoltage(cycle, "phase_a") THEN cycle.phaseBMarker
                 ELSE parser.frequency]

(* decode_record_sequence_: decode_record of every record of the cycle.     *)
Decode(parser, cycle) ==
  [power     |-> [r \in Records |-> IF cycle.reading[r].idle THEN 0
                                    ELSE cycle.reading[r].power],
   voltage   |-> [r \in VoltagePhases |-> IF CarriesVoltage(cycle, r)
                                          THEN cycle.reading[r].voltage
                                          ELSE parser.voltage[r]],
   frequency |-> IF CarriesVoltage(cycle, "phase_a") THEN cycle.phaseBMarker
                 ELSE parser.frequency]

TotalPower(parser) ==
  parser.power["phase_a"] + parser.power["phase_b"] + parser.power["phase_c"]
=============================================================================
