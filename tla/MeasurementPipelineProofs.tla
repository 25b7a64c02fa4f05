---------------------- MODULE MeasurementPipelineProofs ----------------------
(***************************************************************************)
(* The safety properties of MeasurementPipeline hold for any circuits,      *)
(* limits, markers and cycles.                                              *)
(***************************************************************************)
EXTENDS MeasurementPipeline, SequenceTheorems, WellFoundedInduction, TLAPS

-----------------------------------------------------------------------------
(* What a cycle is checked for.                                             *)

InCycle == Measurements \ {"balance"}

(* CycleOrder lists every measurement but the balance.                      *)
LEMMA OrderFacts ==
  /\ \A i \in DOMAIN CycleOrder : CycleOrder[i] \in InCycle
  /\ \A m \in InCycle : \E i \in DOMAIN CycleOrder : CycleOrder[i] = m
<1> DEFINE names == {"phase_a", "phase_b", "phase_c", "total", "voltage_a", "voltage_b",
                     "frequency"}
           rest  == <<"phase_a", "phase_b", "phase_c", "total", "voltage_a", "voltage_b",
                      "frequency">>
           S     == Branches \union names
<1>1. rest \in Seq(names) /\ Range(rest) = names
  <2>1. rest \in Seq(names) /\ Len(rest) = 7
    OBVIOUS
  <2>2. Range(rest) = {rest[i] : i \in 1 .. Len(rest)}
    BY <2>1, RangeEquality
  <2>3. {rest[i] : i \in 1 .. 7} = names
    OBVIOUS
  <2>4. QED
    BY <2>1, <2>2, <2>3
<1>2. InCycle = S
  <2>1. "balance" \notin Branches
    BY MeasurementNames
  <2>2. QED
    BY <2>1 DEF InCycle, Measurements, Records, MainPhases
<1> HIDE DEF rest, names
<1>3. Circuits \in Seq(Branches)
  BY NamesAssumption, SeqOfRange DEF Branches
<1>4. Circuits \in Seq(S) /\ rest \in Seq(S)
  BY <1>1, <1>3, SeqMonotonic
<1>5. Range(CycleOrder) = S
  <2>1. CycleOrder = Circuits \o rest
    BY DEF CycleOrder, rest
  <2>2. Range(Circuits \o rest) = Range(Circuits) \union Range(rest)
    BY <1>4, RangeConcatenation
  <2>3. QED
    BY <1>1, <2>1, <2>2 DEF Branches
<1>6. QED
  BY <1>2, <1>5 DEF Range

(* An accepted cycle passes every check it has a value for.                 *)
LEMMA AcceptedPasses ==
  ASSUME NEW last, NEW p, CycleAccepted(last, p)
  PROVE  \A m \in InCycle : Available(p, m) => Reason(last[m], m, Live(p, m)) = "NONE"
<1> SUFFICES ASSUME NEW m \in InCycle, Available(p, m)
             PROVE  Reason(last[m], m, Live(p, m)) = "NONE"
  OBVIOUS
<1>1. PICK i \in DOMAIN CycleOrder : CycleOrder[i] = m
  BY OrderFacts
<1>2. i \in Checked(p)
  BY <1>1 DEF Checked
<1>3. i \notin Failing(last, p)
  BY DEF CycleAccepted
<1>4. QED
  BY <1>1, <1>2, <1>3 DEF Failing

(* What Staged keeps.                                                       *)
LEMMA StagedFacts ==
  ASSUME NEW old, NEW p
  PROVE  \A m \in Measurements :
           Staged(old, p)[m] = IF m \in InCycle /\ Available(p, m) THEN Live(p, m) ELSE old[m]
<1>1. {CycleOrder[i] : i \in Checked(p)} = {m \in InCycle : Available(p, m)}
  BY OrderFacts DEF Checked
<1>2. QED
  BY <1>1 DEF Staged

(* The names do not overlap.                                                *)
LEMMA NameFacts ==
  /\ Records \subseteq InCycle
  /\ {"total", "voltage_a", "voltage_b", "frequency"} \subseteq InCycle \ Records
  /\ KindOf("frequency") = "frequency"
  /\ "balance" \notin Records
  /\ InCycle = Records \union {"total", "voltage_a", "voltage_b", "frequency"}
BY MeasurementNames, NamesAssumption DEF InCycle, Measurements, Records, MainPhases, KindOf

(* The limits of a measurement are numbers.                                 *)
LEMMA LimitTypes ==
  ASSUME NEW m \in Measurements
  PROVE  LimitsOf[m] \in [minimum : Nat, maximum : Nat, delta : Nat, zeroBypass : BOOLEAN]
<1>1. KindOf(m) \in Kinds
  BY NameFacts DEF KindOf, Kinds, Measurements, Records
<1>2. QED
  BY <1>1, LimitsAssumption DEF LimitsOf

(* A sensor is a measurement, and a direct one is one of the cycle.         *)
LEMMA SensorFacts ==
  /\ Sensors \subseteq Measurements /\ Sensors \ {"balance"} \subseteq InCycle
  /\ Direct \subseteq Sensors \ {"balance"} /\ InCycle \subseteq Measurements
BY PipelineAssumption DEF Direct, InCycle

(* A set of naturals that is not empty has a least element.                *)
LEMMA LeastNatural ==
  ASSUME NEW T \in SUBSET Nat, T # {}
  PROVE  \E m \in T : \A n \in T : m <= n
<1> DEFINE R == OpToRel(<, Nat)
<1>1. IsWellFoundedOn(R, Nat)
  BY NatLessThanWellFounded, Zenon
<1>2. \A x, y \in Nat : <<x, y>> \in R <=> x < y
  BY Zenon DEF OpToRel
<1>3. PICK m \in T : \A n \in T : <<n, m>> \notin R
  <2> HIDE DEF R
  <2>1. QED
    BY <1>1, WFMin, Zenon
<1>4. \A n \in T : ~(n < m)
  BY <1>2, <1>3
<1>5. QED
  BY <1>4

(* A rejected cycle has a first failure.                                    *)
LEMMA FailureFacts ==
  ASSUME NEW last, NEW p, ~CycleAccepted(last, p)
  PROVE  FirstFailure(last, p) \in InCycle
<1> DEFINE T == Failing(last, p)
<1>1. T \subseteq DOMAIN CycleOrder /\ T # {}
  BY DEF CycleAccepted, Failing, Checked
<1>2. DOMAIN CycleOrder \subseteq Nat
  <2> DEFINE rest == <<"phase_a", "phase_b", "phase_c", "total", "voltage_a", "voltage_b",
                       "frequency">>
  <2>1. Circuits \in Seq(Branches)
    BY NamesAssumption, SeqOfRange DEF Branches
  <2>2. rest \in Seq({"phase_a", "phase_b", "phase_c", "total", "voltage_a", "voltage_b",
                      "frequency"})
    OBVIOUS
  <2> DEFINE S == Branches \union {"phase_a", "phase_b", "phase_c", "total", "voltage_a",
                                   "voltage_b", "frequency"}
  <2>3. Circuits \in Seq(S) /\ rest \in Seq(S)
    BY <2>1, <2>2, SeqMonotonic
  <2>4. CycleOrder = Circuits \o rest
    BY DEF CycleOrder
  <2> HIDE DEF rest, S
  <2>5. CycleOrder \in Seq(S)
    BY <2>3, <2>4
  <2>6. QED
    BY <2>5
<1> HIDE DEF T
<1>3. \E i \in T : \A j \in T : i <= j
  BY <1>1, <1>2, LeastNatural
<1>4. (CHOOSE k \in T : \A j \in T : k <= j) \in T
  BY <1>3
<1>5. QED
  BY <1>1, <1>4, OrderFacts DEF FirstFailure, T

-----------------------------------------------------------------------------
(* Parsers.                                                                 *)

(* What the parser holds and which of its measurements are available.       *)
LEMMA LiveFacts ==
  ASSUME NEW p \in Parser
  PROVE  /\ \A m \in InCycle : Live(p, m) \in Nat
         /\ \A m \in Records : Live(p, m) = p.power[m] /\ Available(p, m)
         /\ Available(p, "total")
         /\ \A m \in InCycle : Live(p, m) # 0 => Available(p, m)
         /\ \A m \in {"voltage_a", "voltage_b", "frequency"} : Available(p, m) <=> Live(p, m) # 0
         /\ Live(p, "total") = p.power["phase_a"] + p.power["phase_b"] + p.power["phase_c"]
         /\ Live(p, "voltage_a") = p.voltage["phase_a"]
         /\ Live(p, "voltage_b") = p.voltage["phase_b"]
         /\ Live(p, "frequency") = p.frequency
<1>1. /\ \A r \in Records : p.power[r] \in Nat
      /\ p.voltage["phase_a"] \in Nat /\ p.voltage["phase_b"] \in Nat
      /\ p.frequency \in Nat
  <2>1. /\ p.power \in [Records -> Nat] /\ p.voltage \in [VoltagePhases -> Voltages]
        /\ p.frequency \in Markers \union {0}
    BY DEF Parser
  <2>2. Voltages \subseteq Nat /\ Markers \union {0} \subseteq Nat
    BY ParserAssumption DEF Voltages
  <2>3. "phase_a" \in VoltagePhases /\ "phase_b" \in VoltagePhases
    BY DEF VoltagePhases
  <2>4. QED
    BY <2>1, <2>2, <2>3
<1>2. \A m \in Records : Live(p, m) = p.power[m]
  BY NameFacts DEF Live
<1>3. TotalPower(p) \in Nat
  BY <1>1 DEF TotalPower, Records, MainPhases
<1>4. /\ Live(p, "total") = TotalPower(p)
      /\ Live(p, "voltage_a") = p.voltage["phase_a"]
      /\ Live(p, "voltage_b") = p.voltage["phase_b"]
      /\ Live(p, "frequency") = p.frequency
  BY NameFacts DEF Live
<1>5. \A m \in InCycle : Live(p, m) \in Nat
  BY <1>1, <1>2, <1>3, <1>4, NameFacts
<1>6. \A m \in Records : Available(p, m)
  BY NameFacts DEF Available
<1>7. Available(p, "total")
  BY DEF Available
<1>8. /\ \A m \in InCycle : Live(p, m) # 0 => Available(p, m)
      /\ \A m \in {"voltage_a", "voltage_b", "frequency"} : Available(p, m) <=> Live(p, m) # 0
  BY DEF Available
<1>9. QED
  BY <1>2, <1>4, <1>5, <1>6, <1>7, <1>8 DEF TotalPower

(* Decoding takes over what the cycle carries and keeps all else.           *)
LEMMA DecodeFacts ==
  ASSUME NEW p \in Parser, NEW cycle \in Cycles, StructurallyValid(cycle)
  PROVE  LET q == Decode(p, cycle)
         IN  /\ q \in Parser
             /\ \A m \in Carried(cycle) : Available(q, m) /\ Live(q, m) = CarriedValue(cycle, m)
             /\ \A m \in InCycle \ Carried(cycle) : Live(q, m) = Live(p, m)
<1> DEFINE q == Decode(p, cycle)
<1>1. cycle \in Cycle /\ cycle.phaseBMarker \in Markers
  BY PipelineAssumption DEF StructurallyValid
<1>2. \A r \in Records : cycle.reading[r] \in Reading
  BY <1>1 DEF Cycle
<1>3. \A r \in VoltagePhases : r \in Records
  BY DEF VoltagePhases, Records, MainPhases
<1>4. /\ q.power = [r \in Records |-> IF cycle.reading[r].idle THEN 0
                                      ELSE cycle.reading[r].power]
      /\ q.voltage = [r \in VoltagePhases |-> IF CarriesVoltage(cycle, r)
                                              THEN cycle.reading[r].voltage
                                              ELSE p.voltage[r]]
      /\ q.frequency = IF CarriesVoltage(cycle, "phase_a") THEN cycle.phaseBMarker
                       ELSE p.frequency
  BY DEF Decode
<1>5. q.power \in [Records -> Nat]
  BY <1>2, <1>4 DEF Reading
<1>6. ASSUME NEW r \in VoltagePhases
      PROVE  /\ q.voltage[r] \in Voltages
             /\ CarriesVoltage(cycle, r) =>
                  q.voltage[r] # 0 /\ q.voltage[r] = cycle.reading[r].voltage
             /\ ~CarriesVoltage(cycle, r) => q.voltage[r] = p.voltage[r]
  <2>1. p.voltage[r] \in Voltages
    BY DEF Parser
  <2>2. CASE CarriesVoltage(cycle, r)
    <3>1. q.voltage[r] = cycle.reading[r].voltage
      BY <1>4, <2>2
    <3>2. cycle.reading[r].voltage \in Nat /\ cycle.reading[r].voltage > MinimumValidVoltage
      BY <1>2, <1>3, <2>2 DEF Reading, CarriesVoltage
    <3>3. QED
      BY <2>2, <3>1, <3>2, ParserAssumption DEF Voltages
  <2>3. CASE ~CarriesVoltage(cycle, r)
    BY <1>4, <2>1, <2>3
  <2>4. QED
    BY <2>2, <2>3
<1>7. q.voltage \in [VoltagePhases -> Voltages]
  BY <1>4, <1>6
<1>8. /\ q.frequency \in Markers \union {0}
      /\ CarriesVoltage(cycle, "phase_a") =>
           q.frequency # 0 /\ q.frequency = cycle.phaseBMarker
      /\ ~CarriesVoltage(cycle, "phase_a") => q.frequency = p.frequency
  BY <1>1, <1>4, ParserAssumption DEF Parser
<1>9. q \in Parser
  <2>1. q = [power |-> q.power, voltage |-> q.voltage, frequency |-> q.frequency]
    BY DEF Decode
  <2>2. QED
    BY <1>5, <1>7, <1>8, <2>1 DEF Parser
<1>10. "phase_a" \in VoltagePhases /\ "phase_b" \in VoltagePhases
  BY DEF VoltagePhases
<1>11. /\ \A m \in Records : Live(q, m) = PowerIn(cycle, m)
       /\ Live(q, "total") = PowerIn(cycle, "phase_a") + PowerIn(cycle, "phase_b")
                                + PowerIn(cycle, "phase_c")
  <2>1. \A m \in Records : q.power[m] = PowerIn(cycle, m)
    BY <1>4 DEF PowerIn
  <2>2. {"phase_a", "phase_b", "phase_c"} \subseteq Records
    BY DEF Records, MainPhases
  <2> HIDE DEF q
  <2>3. QED
    BY <1>9, <2>1, <2>2, LiveFacts
<1> HIDE DEF q
<1>12. ASSUME NEW m \in Carried(cycle)
       PROVE  Available(q, m) /\ Live(q, m) = CarriedValue(cycle, m)
  <2>1. CASE m \in Records
    BY <1>9, <1>11, <2>1, LiveFacts, NameFacts DEF CarriedValue
  <2>2. CASE m = "total"
    BY <1>9, <1>11, <2>2, LiveFacts, NameFacts DEF CarriedValue
  <2>3. CASE m = "voltage_a"
    <3>1. CarriesVoltage(cycle, "phase_a")
      BY <2>3, NameFacts DEF Carried
    <3>2. CarriedValue(cycle, m) = cycle.reading["phase_a"].voltage
      BY <2>3, NameFacts DEF CarriedValue
    <3>3. QED
      BY <1>6, <1>9, <1>10, <2>3, <3>1, <3>2, LiveFacts
  <2>4. CASE m = "voltage_b"
    <3>1. CarriesVoltage(cycle, "phase_b")
      BY <2>4, NameFacts DEF Carried
    <3>2. CarriedValue(cycle, m) = cycle.reading["phase_b"].voltage
      BY <2>4, NameFacts DEF CarriedValue
    <3>3. QED
      BY <1>6, <1>9, <1>10, <2>4, <3>1, <3>2, LiveFacts
  <2>5. CASE m = "frequency"
    <3>1. CarriesVoltage(cycle, "phase_a")
      BY <2>5, NameFacts DEF Carried
    <3>2. CarriedValue(cycle, m) = cycle.phaseBMarker
      BY <2>5, NameFacts DEF CarriedValue
    <3>3. QED
      BY <1>8, <1>9, <2>5, <3>1, <3>2, LiveFacts
  <2>6. QED
    BY <2>1, <2>2, <2>3, <2>4, <2>5 DEF Carried
<1>13. ASSUME NEW m \in InCycle \ Carried(cycle)
       PROVE  Live(q, m) = Live(p, m)
  <2>1. m \in {"voltage_a", "voltage_b", "frequency"}
    BY NameFacts DEF Carried
  <2>2. m \in {"voltage_a", "frequency"} => ~CarriesVoltage(cycle, "phase_a")
    BY DEF Carried
  <2>3. m = "voltage_b" => ~CarriesVoltage(cycle, "phase_b")
    BY DEF Carried
  <2>4. QED
    BY <1>6, <1>8, <1>9, <1>10, <2>1, <2>2, <2>3, LiveFacts
<1>14. QED
  BY <1>9, <1>12, <1>13 DEF q

-----------------------------------------------------------------------------
(* The invariant.                                                           *)

(* Only what was measured is ready for publication.                         *)
ReadyMeasured == \A m \in ready \ {"balance"} : m \in measured

(* What was accepted of a cycle is within the limits.                       *)
LatestInRange ==
  \A m \in InCycle :
    latest[m] # Unset => latest[m] \in LimitsOf[m].minimum .. LimitsOf[m].maximum

(* An entity shows what its validator accepted last, or neither has a value.*)
EntityAccepted ==
  \A m \in Sensors : accepted[m] = (IF entity[m] = NaN THEN Unset ELSE entity[m])

(* The other circuits are always on and never doubled.                      *)
SwitchesKept == Branches \ Switchable \subseteq enabled /\ doubled \subseteq Switchable

(* Until the next cycle is accepted a direct entity shows the live value.   *)
FreshShown == \A m \in Direct : lag[m] = 0 => entity[m] = Live(parser, m)

(* After one it is still near enough.  This is LockOutNeedsTwoCycles, by    *)
(* the live value.                                                          *)
TooFar(m) ==
  /\ Distance(Live(parser, m), entity[m]) > LimitsOf[m].delta
  /\ ~(LimitsOf[m].zeroBypass /\ Live(parser, m) = 0)

OneCycleNear == \A m \in Direct : entity[m] # NaN /\ TooFar(m) => lag[m] = 2

(* What is said of the live values, and of the entities.                    *)
LiveInv   == ReadyMeasured /\ LatestInRange /\ ValidatorMatchesParser /\ FrequencyIsMarker
EntityInv == EntityAccepted /\ OnlyMeasuredShown /\ OnlyZeroFabricated
LagInv    == SwitchesKept /\ FreshShown /\ OneCycleNear

IInv == TypeOK /\ LiveInv /\ EntityInv /\ LagInv

(* ValidatorMatchesParser, by measurement.                                  *)
MatchOf(m) ==
  /\ cycleAccepted[m] = latest[m]
  /\ Live(parser, m) = (IF latest[m] = Unset THEN 0 ELSE latest[m])

(* Validator and parser match measurement by measurement.                   *)
LEMMA MatchFacts == ValidatorMatchesParser <=> \A m \in InCycle : MatchOf(m)
BY OrderFacts DEF ValidatorMatchesParser, MatchOf

(* The initial states satisfy the invariant.                                *)
LEMMA InitInvariant == Init => IInv
<1> SUFFICES ASSUME Init PROVE IInv
  OBVIOUS
<1> USE DEF Init
<1>1. parser \in Parser
  <2>1. parser = [power |-> [r \in Records |-> 0], voltage |-> [r \in VoltagePhases |-> 0],
                  frequency |-> 0]
    BY DEF InitialParser
  <2>2. [r \in VoltagePhases |-> 0] \in [VoltagePhases -> Voltages]
    BY DEF Voltages
  <2>3. QED
    BY <2>1, <2>2 DEF Parser
<1>2. rejection \in [measurement : Measurements \union {"none"}, reason : Reasons]
  BY DEF NoRejection, Reasons
<1>3. TypeOK
  BY <1>1, <1>2 DEF TypeOK
<1>4. /\ parser.voltage["phase_a"] = 0 /\ parser.voltage["phase_b"] = 0
      /\ parser.frequency = 0 /\ \A r \in Records : parser.power[r] = 0
  BY DEF InitialParser, VoltagePhases
<1>5. ReadyMeasured /\ LatestInRange /\ FrequencyIsMarker
  BY <1>4, SensorFacts DEF ReadyMeasured, LatestInRange, FrequencyIsMarker
<1>6. ValidatorMatchesParser
  <2>1. \A m \in InCycle : Live(parser, m) = 0
    <3>1. {"phase_a", "phase_b", "phase_c"} \subseteq Records
      BY DEF Records, MainPhases
    <3>2. QED
      BY <1>1, <1>4, <3>1, LiveFacts, NameFacts
  <2>2. \A m \in InCycle : MatchOf(m)
    BY <2>1, SensorFacts DEF MatchOf
  <2>3. QED
    BY <2>2, MatchFacts
<1>7. EntityInv
  BY PipelineAssumption DEF EntityInv, EntityAccepted, OnlyMeasuredShown, OnlyZeroFabricated
<1>8. LagInv
  <2>1. \A m \in Direct : lag[m] = 2
    OBVIOUS
  <2>2. QED
    BY <2>1 DEF LagInv, SwitchesKept, FreshShown, OneCycleNear
<1>9. QED
  BY <1>3, <1>5, <1>6, <1>7, <1>8 DEF IInv, LiveInv

-----------------------------------------------------------------------------
(* The actions.                                                             *)

(* An accepted cycle, as the proofs use it.                                 *)
Accepted(cycle) ==
  /\ StructurallyValid(cycle)
  /\ parser' = Decode(parser, cycle)
  /\ CycleAccepted(cycleAccepted, parser')
  /\ cycleAccepted' = Staged(cycleAccepted, parser')
  /\ latest' = [m \in Measurements |-> IF m \in Carried(cycle) THEN CarriedValue(cycle, m)
                                       ELSE latest[m]]
  /\ lag' = [m \in Direct |-> IF lag[m] < 2 THEN lag[m] + 1 ELSE 2]
  /\ ready' = ready \union ReadyAfter(parser')
  /\ UNCHANGED <<accepted, entity, rejection, enabled, doubled>>

(* What it carries becomes the live and the accepted value, and passed.     *)
LEMMA AcceptedFacts ==
  ASSUME IInv, NEW cycle \in Cycles, Accepted(cycle)
  PROVE  /\ parser' \in Parser
         /\ \A m \in InCycle \intersect Carried(cycle) :
              /\ latest'[m] \in Nat /\ latest'[m] = Live(parser', m)
              /\ cycleAccepted'[m] = Live(parser', m)
              /\ Reason(cycleAccepted[m], m, Live(parser', m)) = "NONE"
         /\ \A m \in InCycle \ Carried(cycle) :
              /\ latest'[m] = latest[m] /\ Live(parser', m) = Live(parser, m)
              /\ cycleAccepted'[m] = cycleAccepted[m]
<1>1. parser \in Parser
  BY DEF IInv, TypeOK
<1>2. /\ parser' \in Parser
      /\ \A m \in Carried(cycle) : Available(parser', m) /\ Live(parser', m) = CarriedValue(cycle, m)
      /\ \A m \in InCycle \ Carried(cycle) : Live(parser', m) = Live(parser, m)
  BY <1>1, DecodeFacts DEF Accepted
<1>3. \A m \in Measurements :
        cycleAccepted'[m] = IF m \in InCycle /\ Available(parser', m)
                            THEN Live(parser', m) ELSE cycleAccepted[m]
  BY StagedFacts DEF Accepted
<1>4. ASSUME NEW m \in InCycle \intersect Carried(cycle)
      PROVE  /\ latest'[m] \in Nat /\ latest'[m] = Live(parser', m)
             /\ cycleAccepted'[m] = Live(parser', m)
             /\ Reason(cycleAccepted[m], m, Live(parser', m)) = "NONE"
  <2>1. latest'[m] = Live(parser', m) /\ cycleAccepted'[m] = Live(parser', m)
    BY <1>2, <1>3, SensorFacts DEF Accepted
  <2>2. Live(parser', m) \in Nat
    BY <1>2, LiveFacts
  <2>3. Reason(cycleAccepted[m], m, Live(parser', m)) = "NONE"
    BY <1>2, AcceptedPasses DEF Accepted
  <2>4. QED
    BY <2>1, <2>2, <2>3
<1>5. ASSUME NEW m \in InCycle \ Carried(cycle)
      PROVE  /\ latest'[m] = latest[m] /\ Live(parser', m) = Live(parser, m)
             /\ cycleAccepted'[m] = cycleAccepted[m]
  <2>1. latest'[m] = latest[m] /\ Live(parser', m) = Live(parser, m)
    BY <1>2, SensorFacts DEF Accepted
  <2>2. CASE Available(parser', m)
    <3>1. Live(parser', m) # 0
      BY <1>2, <2>2, LiveFacts, NameFacts DEF Carried
    <3>2. MatchOf(m)
      BY MatchFacts DEF IInv, LiveInv
    <3>3. QED
      BY <1>3, <2>1, <2>2, <3>1, <3>2, SensorFacts DEF MatchOf
  <2>3. CASE ~Available(parser', m)
    BY <1>3, <2>1, <2>3, SensorFacts
  <2>4. QED
    BY <2>1, <2>2, <2>3
<1>6. QED
  BY <1>2, <1>4, <1>5

(* An accepted cycle is committed to validator and parser alike.            *)
LEMMA AcceptedLive ==
  ASSUME IInv, NEW cycle \in Cycles, Accepted(cycle)
  PROVE  LiveInv'
<1>1. \A m \in InCycle : MatchOf(m)
  BY MatchFacts DEF IInv, LiveInv
<1>2. \A m \in InCycle : MatchOf(m)'
  BY <1>1, AcceptedFacts, PlaceholderAssumption DEF MatchOf
<1>3. ValidatorMatchesParser'
  BY <1>2, OrderFacts DEF ValidatorMatchesParser, MatchOf
<1>4. ReadyMeasured'
  <2>1. SUFFICES ASSUME NEW m \in ready' \ {"balance"} PROVE m \in measured'
    BY DEF ReadyMeasured
  <2>2. m \in InCycle /\ (m \in ready \/ Available(parser', m))
    BY DEF Accepted, ReadyAfter, IInv, TypeOK, InCycle
  <2>3. CASE m \in Carried(cycle)
    BY <2>2, <2>3, AcceptedFacts, PlaceholderAssumption, SensorFacts DEF measured
  <2>4. CASE m \in ready /\ m \notin Carried(cycle)
    BY <2>2, <2>4, AcceptedFacts, SensorFacts DEF measured, IInv, LiveInv, ReadyMeasured
  <2>5. CASE Available(parser', m) /\ m \notin Carried(cycle)
    <3>1. Live(parser', m) # 0
      BY <2>2, <2>5, AcceptedFacts, LiveFacts, NameFacts DEF Carried
    <3>2. QED
      BY <1>2, <2>2, <3>1, SensorFacts DEF measured, MatchOf
  <2>6. QED
    BY <2>2, <2>3, <2>4, <2>5
<1>5. LatestInRange'
  <2>1. SUFFICES ASSUME NEW m \in InCycle, latest'[m] # Unset
                 PROVE  latest'[m] \in LimitsOf[m].minimum .. LimitsOf[m].maximum
    BY DEF LatestInRange
  <2>2. CASE m \in Carried(cycle)
    <3>1. /\ latest'[m] \in Nat /\ latest'[m] = Live(parser', m)
          /\ Reason(cycleAccepted[m], m, Live(parser', m)) = "NONE"
      BY <2>2, AcceptedFacts
    <3>2. ~(latest'[m] < LimitsOf[m].minimum) /\ ~(latest'[m] > LimitsOf[m].maximum)
      BY <3>1 DEF Reason
    <3>3. LimitsOf[m].minimum \in Nat /\ LimitsOf[m].maximum \in Nat
      BY SensorFacts, LimitTypes
    <3>4. QED
      BY <3>1, <3>2, <3>3
  <2>3. CASE m \notin Carried(cycle)
    BY <2>1, <2>3, AcceptedFacts DEF IInv, LiveInv, LatestInRange
  <2>4. QED
    BY <2>2, <2>3
<1>6. FrequencyIsMarker'
  <2> DEFINE a == "voltage_a"
             f == "frequency"
  <2>1. /\ Live(parser', a) = parser'.voltage["phase_a"] /\ Live(parser', f) = parser'.frequency
        /\ Live(parser, a) = parser.voltage["phase_a"] /\ Live(parser, f) = parser.frequency
    BY AcceptedFacts, LiveFacts DEF IInv, TypeOK
  <2>2. a \in Carried(cycle) <=> f \in Carried(cycle)
    BY NameFacts DEF Carried
  <2>3. CASE f \in Carried(cycle)
    <3>1. Live(parser', a) # 0 /\ Live(parser', f) # 0
      BY <2>2, <2>3, DecodeFacts, AcceptedFacts, LiveFacts DEF Accepted, IInv, TypeOK
    <3>2. parser'.frequency \in Markers
      BY <2>1, <3>1, AcceptedFacts DEF Parser
    <3>3. parser'.frequency <= LimitsOf[f].maximum
      <4>1. LatestInRange' /\ latest'[f] \in Nat /\ latest'[f] = parser'.frequency
        BY <1>5, <2>1, <2>3, AcceptedFacts, NameFacts
      <4>2. latest'[f] \in LimitsOf[f].minimum .. LimitsOf[f].maximum
        BY <4>1, NameFacts, PlaceholderAssumption DEF LatestInRange
      <4>3. QED
        BY <4>1, <4>2
    <3>4. LimitsOf[f] = Limits["frequency"]
      BY NameFacts, SensorFacts DEF LimitsOf
    <3>5. QED
      BY <2>1, <3>1, <3>2, <3>3, <3>4 DEF FrequencyIsMarker
  <2>4. CASE f \notin Carried(cycle)
    <3>1. /\ parser'.frequency = parser.frequency
          /\ parser'.voltage["phase_a"] = parser.voltage["phase_a"]
      BY <2>1, <2>2, <2>4, AcceptedFacts, NameFacts
    <3>2. QED
      BY <3>1 DEF IInv, LiveInv, FrequencyIsMarker
  <2>5. QED
    BY <2>3, <2>4
<1>7. QED
  BY <1>3, <1>4, <1>5, <1>6 DEF LiveInv

(* The validators share their limits: a value that an entity showed before  *)
(* the cycle is as far from the new one as the cycle validator allows.      *)
LEMMA AcceptedNear ==
  ASSUME IInv, NEW cycle \in Cycles, Accepted(cycle)
  PROVE  LagInv'
<1>1. /\ \A m \in Direct : lag'[m] = IF lag[m] < 2 THEN lag[m] + 1 ELSE 2
      /\ lag \in [Direct -> 0 .. 2] /\ entity' = entity
  BY DEF Accepted, IInv, TypeOK
<1>2. SwitchesKept' /\ FreshShown'
  BY <1>1 DEF Accepted, IInv, LagInv, SwitchesKept, FreshShown
<1>3. OneCycleNear'
  <2>1. SUFFICES ASSUME NEW m \in Direct, entity[m] # NaN, TooFar(m)', lag'[m] # 2
                 PROVE  FALSE
    BY <1>1 DEF OneCycleNear
  <2>2. lag[m] = 0
    BY <1>1, <2>1
  <2>3. entity[m] = Live(parser, m) /\ m \in InCycle /\ m \in Sensors
    BY <2>2, SensorFacts DEF IInv, LagInv, FreshShown
  <2>4. latest[m] # Unset
    BY <2>1, <2>3, SensorFacts DEF IInv, EntityInv, OnlyMeasuredShown, measured
  <2>5. cycleAccepted[m] = entity[m]
    <3>1. MatchOf(m)
      BY <2>3, MatchFacts DEF IInv, LiveInv
    <3>2. QED
      BY <2>3, <2>4, <3>1 DEF MatchOf
  <2>6. /\ Distance(Live(parser', m), entity[m]) > LimitsOf[m].delta
        /\ ~(LimitsOf[m].zeroBypass /\ Live(parser', m) = 0)
    BY <1>1, <2>1 DEF TooFar
  <2>7. CASE m \in Carried(cycle)
    <3>1. ~Jumps(cycleAccepted[m], m, Live(parser', m))
      BY <2>3, <2>7, AcceptedFacts DEF Reason
    <3>2. cycleAccepted[m] # Unset
      BY <2>4, <2>3, MatchFacts DEF IInv, LiveInv, MatchOf
    <3>3. QED
      BY <2>5, <2>6, <3>1, <3>2 DEF Jumps
  <2>8. CASE m \notin Carried(cycle)
    <3>1. Live(parser', m) = entity[m] /\ entity[m] \in Nat
      BY <2>1, <2>3, <2>8, AcceptedFacts DEF IInv, TypeOK
    <3>2. Distance(Live(parser', m), entity[m]) = 0
      BY <3>1 DEF Distance
    <3>3. LimitsOf[m].delta \in Nat
      BY <2>3, SensorFacts, LimitTypes
    <3>4. QED
      BY <2>6, <3>2, <3>3
  <2>9. QED
    BY <2>7, <2>8
<1>4. QED
  BY <1>2, <1>3 DEF LagInv

(* An accepted cycle keeps the invariant.                                   *)
LEMMA AcceptCycleInvariant ==
  ASSUME IInv, AcceptCycle
  PROVE  IInv'
<1>1. PICK cycle \in Cycles : Accepted(cycle)
  BY DEF AcceptCycle, Accepted
<1>2. TypeOK'
  <2>1. parser' \in Parser
    BY <1>1, AcceptedFacts
  <2>2. latest' \in [Measurements -> Nat \union {Unset}]
        /\ cycleAccepted' \in [Measurements -> Nat \union {Unset}]
    <3>1. /\ latest' = [m \in Measurements |-> latest'[m]]
          /\ cycleAccepted' = [m \in Measurements |-> cycleAccepted'[m]]
      BY <1>1 DEF Accepted, Staged
    <3>2. \A m \in InCycle : latest'[m] \in Nat \union {Unset}
                            /\ cycleAccepted'[m] \in Nat \union {Unset}
      BY <1>1, AcceptedFacts, SensorFacts DEF IInv, TypeOK
    <3>3. latest'["balance"] = latest["balance"]
      BY <1>1, NameFacts DEF Accepted, Carried, Measurements
    <3>4. cycleAccepted'["balance"] = cycleAccepted["balance"]
      BY <1>1, StagedFacts DEF Accepted, InCycle, Measurements
    <3>5. "balance" \in Measurements /\ Measurements = InCycle \union {"balance"}
      BY DEF Measurements, InCycle
    <3>6. \A m \in Measurements : latest'[m] \in Nat \union {Unset}
                                 /\ cycleAccepted'[m] \in Nat \union {Unset}
      BY <3>2, <3>3, <3>4, <3>5 DEF IInv, TypeOK
    <3>7. QED
      BY <3>1, <3>6
  <2>3. ready' \subseteq Measurements
    BY <1>1 DEF Accepted, IInv, TypeOK, ReadyAfter
  <2>4. lag' \in [Direct -> 0 .. 2]
    BY <1>1 DEF Accepted, IInv, TypeOK
  <2>5. QED
    BY <1>1, <2>1, <2>2, <2>3, <2>4 DEF Accepted, IInv, TypeOK
<1>3. EntityInv'
  <2>1. ASSUME NEW m \in InCycle, m \in measured PROVE m \in measured'
    BY <1>1, <2>1, AcceptedFacts, PlaceholderAssumption DEF measured
  <2>2. OnlyMeasuredShown'
    BY <1>1, <2>1, SensorFacts DEF Accepted, IInv, EntityInv, OnlyMeasuredShown
  <2>3. QED
    BY <1>1, <2>2 DEF Accepted, IInv, EntityInv, EntityAccepted, OnlyZeroFabricated
<1>4. QED
  BY <1>1, <1>2, <1>3, AcceptedLive, AcceptedNear DEF IInv

(* A step that leaves the live values alone keeps what is said of them.     *)
LEMMA LiveUnchanged ==
  ASSUME IInv, UNCHANGED <<parser, cycleAccepted, latest, ready>>
  PROVE  LiveInv'
<1>1. ReadyMeasured' /\ LatestInRange'
  BY DEF IInv, LiveInv, ReadyMeasured, LatestInRange, measured
<1>2. ValidatorMatchesParser'
  BY DEF IInv, LiveInv, ValidatorMatchesParser
<1>3. FrequencyIsMarker'
  BY DEF IInv, LiveInv, FrequencyIsMarker
<1>4. QED
  BY <1>1, <1>2, <1>3 DEF LiveInv

(* So with the entities, and with both and the switches.                    *)
LEMMA EntityUnchanged ==
  ASSUME IInv, UNCHANGED <<accepted, entity, latest>>
  PROVE  EntityInv'
BY DEF IInv, EntityInv, EntityAccepted, OnlyMeasuredShown, OnlyZeroFabricated, measured

LEMMA LagUnchanged ==
  ASSUME IInv, UNCHANGED <<parser, entity, lag>>, SwitchesKept'
  PROVE  LagInv'
BY DEF IInv, LagInv, FreshShown, OneCycleNear, TooFar

(* A rejected cycle changes neither.                                        *)
LEMMA RejectCycleInvariant ==
  ASSUME IInv, RejectCycle
  PROVE  IInv'
<1>1. /\ UNCHANGED <<parser, cycleAccepted, latest, ready>>
      /\ UNCHANGED <<accepted, entity, lag, enabled, doubled>>
  BY DEF RejectCycle, live, samples
<1>2. PICK p, m : /\ ~CycleAccepted(cycleAccepted, p)
                  /\ m = FirstFailure(cycleAccepted, p)
                  /\ rejection' = [measurement |-> m,
                                   reason |-> Reason(cycleAccepted[m], m, Live(p, m))]
  BY DEF RejectCycle
<1>3. m \in Measurements
  BY <1>2, FailureFacts DEF InCycle
<1>4. Reason(cycleAccepted[m], m, Live(p, m)) \in Reasons
  BY DEF Reason, Reasons
<1>5. TypeOK'
  BY <1>1, <1>2, <1>3, <1>4 DEF IInv, TypeOK
<1>6. EntityInv' /\ LagInv'
  BY <1>1, EntityUnchanged, LagUnchanged DEF SwitchesKept, IInv, LagInv
<1>7. QED
  BY <1>1, <1>5, <1>6, LiveUnchanged DEF IInv

(* A sample is a number.                                                    *)
LEMMA SampleType ==
  ASSUME TypeOK, NEW m \in Sensors
  PROVE  Sample(m) \in Nat
<1>1. CASE m = "balance"
  <2>1. \A part \in {"total"} \union Branches : part \in Sensors
    BY <1>1, PipelineAssumption
  <2>2. entity["total"] \in Nat \union {NaN}
    BY <2>1 DEF TypeOK
  <2> DEFINE used == SumFunction([c \in Branches |-> entity[c]])
  <2>3. BalanceSample = IF \E part \in {"total"} \union Branches : entity[part] = NaN THEN 0
                        ELSE IF used \in 0 .. entity["total"] THEN entity["total"] - used ELSE 0
    BY DEF BalanceSample
  <2> HIDE DEF used
  <2>4. BalanceSample \in Nat
    BY <2>2, <2>3
  <2>5. QED
    BY <1>1, <2>4 DEF Sample
<1>2. CASE m # "balance" /\ m \in Branches
  <2>1. parser.power[m] \in Nat
    BY <1>2 DEF TypeOK, Parser, Records
  <2>2. CircuitSample(m) \in Nat
    BY <2>1 DEF CircuitSample
  <2>3. QED
    BY <1>2, <2>2 DEF Sample
<1>3. CASE m # "balance" /\ m \notin Branches
  <2>1. m \in InCycle
    BY <1>3, PipelineAssumption DEF InCycle
  <2>2. Live(parser, m) \in Nat
    BY <2>1, LiveFacts DEF TypeOK
  <2>3. QED
    BY <1>3, <2>2 DEF Sample
<1>4. QED
  BY <1>1, <1>2, <1>3

(* A publication gives an entity a value and takes none from another; a     *)
(* balance other than zero needs the values of all it is computed from.     *)
LEMMA BalancePublished ==
  ASSUME IInv, NEW m \in Sensors, Publish(m)
  PROVE  OnlyZeroFabricated'
<1> DEFINE parts == {"total"} \union Branches
<1> SUFFICES ASSUME "balance" \in Sensors, entity'["balance"] \notin {NaN, 0}, NEW p \in parts
             PROVE  entity'[p] # NaN
  BY DEF OnlyZeroFabricated
<1>1. entity' = [entity EXCEPT ![m] = Sample(m)] /\ DOMAIN entity = Sensors
  BY DEF Publish, IInv, TypeOK
<1>2. p \in Sensors /\ p # "balance"
  BY PipelineAssumption, MeasurementNames
<1>3. Sample(m) \in Nat
  BY SampleType DEF IInv
<1>4. CASE m = "balance"
  <2>1. BalanceSample # 0 /\ entity'[p] = entity[p]
    BY <1>1, <1>2, <1>4 DEF Sample
  <2>2. ~(\E q \in parts : entity[q] = NaN)
    BY <2>1 DEF BalanceSample
  <2>3. QED
    BY <2>1, <2>2
<1>5. CASE m # "balance"
  <2>1. entity["balance"] \notin {NaN, 0}
    BY <1>1, <1>5
  <2>2. entity[p] # NaN
    BY <2>1 DEF IInv, EntityInv, OnlyZeroFabricated
  <2>3. CASE m = p
    BY <1>1, <1>3, <2>3, PlaceholderAssumption
  <2>4. CASE m # p
    BY <1>1, <1>2, <2>2, <2>4
  <2>5. QED
    BY <2>3, <2>4
<1>6. QED
  BY <1>4, <1>5

(* A direct sample is the live value.                                       *)
LEMMA DirectSample ==
  ASSUME IInv, NEW m \in Direct
  PROVE  Sample(m) = Live(parser, m)
<1>1. m # "balance" /\ (m \in Branches => m \in Records)
  BY DEF Direct, Records
<1>2. CASE m \in Branches
  <2>1. m \in enabled /\ m \notin doubled
    BY <1>2 DEF IInv, LagInv, SwitchesKept, Direct
  <2>2. parser.power[m] \in Nat
    BY <1>1, <1>2 DEF IInv, TypeOK, Parser
  <2>3. Sample(m) = parser.power[m]
    BY <1>1, <1>2, <2>1, <2>2 DEF Sample, CircuitSample
  <2>4. QED
    BY <1>1, <1>2, <2>3, LiveFacts DEF IInv, TypeOK
<1>3. CASE m \notin Branches
  BY <1>1, <1>3 DEF Sample
<1>4. QED
  BY <1>2, <1>3

(* A poll publishes what the parser holds.                                  *)
LEMMA PublishInvariant ==
  ASSUME IInv, NEW m \in Sensors, Publish(m)
  PROVE  IInv'
<1>1. /\ UNCHANGED <<parser, cycleAccepted, latest, ready>>
      /\ UNCHANGED <<rejection, enabled, doubled>>
  BY DEF Publish, live
<1>2. /\ m \in ready
      /\ accepted' = [accepted EXCEPT ![m] = Sample(m)]
      /\ entity' = [entity EXCEPT ![m] = Sample(m)]
      /\ lag' = [n \in Direct |-> IF n = m THEN 0 ELSE lag[n]]
  BY DEF Publish
<1>3. Sample(m) \in Nat
  BY SampleType DEF IInv
<1>4. m \in Measurements
  BY PipelineAssumption
<1>5. TypeOK'
  <2>1. accepted' \in [Measurements -> Nat \union {Unset}]
    BY <1>2, <1>3, <1>4 DEF IInv, TypeOK
  <2>2. entity' \in [Sensors -> Nat \union {NaN}]
    BY <1>2, <1>3 DEF IInv, TypeOK
  <2>3. lag \in [Direct -> 0 .. 2] /\ lag' = [n \in Direct |-> IF n = m THEN 0 ELSE lag[n]]
    BY <1>2 DEF IInv, TypeOK
  <2>4. lag' \in [Direct -> 0 .. 2]
    BY <2>3
  <2>5. QED
    BY <1>1, <2>1, <2>2, <2>4 DEF IInv, TypeOK
<1>6. EntityAccepted'
  BY <1>2, <1>3, <1>4, PipelineAssumption, PlaceholderAssumption
  DEF IInv, TypeOK, EntityInv, EntityAccepted
<1>7. OnlyMeasuredShown'
  BY <1>1, <1>2 DEF IInv, TypeOK, LiveInv, EntityInv, OnlyMeasuredShown, ReadyMeasured, measured
<1>8. EntityInv'
  BY <1>6, <1>7, BalancePublished DEF EntityInv
<1>9. LagInv'
  <2>1. SwitchesKept'
    BY <1>1 DEF IInv, LagInv, SwitchesKept
  <2>2. ASSUME NEW n \in Direct
        PROVE  /\ lag'[n] = 0 => entity'[n] = Live(parser, n)
               /\ entity'[n] # NaN /\ TooFar(n)' => lag'[n] = 2
    <3>1. CASE n = m
      <4>1. entity'[n] = Live(parser, n) /\ Live(parser, n) \in Nat
        BY <1>2, <1>3, <3>1, DirectSample, SensorFacts DEF IInv, TypeOK
      <4>2. Distance(Live(parser, n), entity'[n]) = 0
        BY <4>1 DEF Distance
      <4>3. LimitsOf[n].delta \in Nat
        BY SensorFacts, LimitTypes
      <4>4. ~TooFar(n)'
        BY <1>1, <4>2, <4>3 DEF TooFar
      <4>5. QED
        BY <4>1, <4>4
    <3>2. CASE n # m
      <4>1. entity'[n] = entity[n] /\ lag'[n] = lag[n] /\ parser' = parser
        BY <1>1, <1>2, <3>2, SensorFacts DEF IInv, TypeOK
      <4>2. TooFar(n)' <=> TooFar(n)
        BY <4>1 DEF TooFar
      <4>3. QED
        BY <4>1, <4>2 DEF IInv, LagInv, FreshShown, OneCycleNear
    <3>3. QED
      BY <3>1, <3>2
  <2>3. FreshShown' /\ OneCycleNear'
    BY <1>1, <2>2 DEF FreshShown, OneCycleNear
  <2>4. QED
    BY <2>1, <2>3 DEF LagInv
<1>10. QED
  BY <1>1, <1>5, <1>8, <1>9, LiveUnchanged DEF IInv

(* A rejected sample leaves its entity alone.                               *)
LEMMA RejectSampleInvariant ==
  ASSUME IInv, NEW m \in Sensors, RejectSample(m)
  PROVE  IInv'
<1>1. /\ UNCHANGED <<parser, cycleAccepted, latest, ready>>
      /\ UNCHANGED <<accepted, entity, lag, enabled, doubled>>
      /\ rejection' = [measurement |-> m, reason |-> Reason(accepted[m], m, Sample(m))]
  BY DEF RejectSample, live, samples
<1>2. m \in Measurements
  BY PipelineAssumption
<1>3. Reason(accepted[m], m, Sample(m)) \in Reasons
  BY DEF Reason, Reasons
<1>4. TypeOK'
  BY <1>1, <1>2, <1>3 DEF IInv, TypeOK
<1>5. EntityInv' /\ LagInv'
  BY <1>1, EntityUnchanged, LagUnchanged DEF SwitchesKept, IInv, LagInv
<1>6. QED
  BY <1>1, <1>4, <1>5, LiveUnchanged DEF IInv

(* Toggling a circuit switch changes no value.                              *)
LEMMA ToggleInvariant ==
  ASSUME IInv, ToggleEnabled \/ ToggleMultiplier
  PROVE  IInv'
<1>1. /\ UNCHANGED <<parser, cycleAccepted, latest, ready>>
      /\ UNCHANGED <<accepted, entity, lag, rejection>>
  BY DEF ToggleEnabled, ToggleMultiplier, live, samples
<1>2. PICK c \in Switchable :
        \/ enabled' = Toggled(enabled, c) /\ doubled' = doubled
        \/ doubled' = Toggled(doubled, c) /\ enabled' = enabled
  BY DEF ToggleEnabled, ToggleMultiplier
<1>3. enabled' \subseteq Branches /\ doubled' \subseteq Branches
  BY <1>2, PipelineAssumption DEF Toggled, IInv, TypeOK
<1>4. TypeOK'
  BY <1>1, <1>3 DEF IInv, TypeOK
<1>5. SwitchesKept'
  BY <1>2 DEF Toggled, IInv, LagInv, SwitchesKept
<1>6. QED
  BY <1>1, <1>4, <1>5, LiveUnchanged, EntityUnchanged, LagUnchanged DEF IInv

(* Every step keeps the invariant.                                          *)
LEMMA InvariantStep == IInv /\ [Next]_vars => IInv'
<1> SUFFICES ASSUME IInv, [Next]_vars PROVE IInv'
  OBVIOUS
<1>1. CASE AcceptCycle
  BY <1>1, AcceptCycleInvariant
<1>2. CASE RejectCycle
  BY <1>2, RejectCycleInvariant
<1>3. ASSUME NEW m \in Sensors, Poll(m) PROVE IInv'
  BY <1>3, PublishInvariant, RejectSampleInvariant DEF Poll
<1>4. CASE ToggleEnabled \/ ToggleMultiplier
  BY <1>4, ToggleInvariant
<1>5. CASE UNCHANGED vars
  <2>1. /\ UNCHANGED <<parser, cycleAccepted, latest, ready>>
        /\ UNCHANGED <<accepted, entity, lag, rejection, enabled, doubled>>
    BY <1>5 DEF vars, live, samples
  <2>2. TypeOK'
    BY <2>1 DEF IInv, TypeOK
  <2>3. SwitchesKept'
    BY <2>1 DEF IInv, LagInv, SwitchesKept
  <2>4. QED
    BY <2>1, <2>2, <2>3, LiveUnchanged, EntityUnchanged, LagUnchanged DEF IInv
<1>6. QED
  BY <1>1, <1>2, <1>3, <1>4, <1>5 DEF Next

(* The invariant holds in every reachable state.                            *)
LEMMA Invariance == Spec => []IInv
BY InitInvariant, InvariantStep, PTL DEF Spec

-----------------------------------------------------------------------------
(* The variables stay within their types.                                   *)
THEOREM TypeCorrect == Spec => []TypeOK
<1>1. IInv => TypeOK
  BY DEF IInv
<1>2. QED
  BY <1>1, Invariance, PTL

(* What the next cycle is compared with is what the entities are computed   *)
(* from, and both are the last accepted word of the meter on each           *)
(* measurement: validate_candidate_cycle_transactionally commits both or    *)
(* neither, and an idle phase leaves its voltage as the last accepted cycle *)
(* that carried one left it.                                                *)
THEOREM CommittedTogether == Spec => []ValidatorMatchesParser
<1>1. IInv => ValidatorMatchesParser
  BY DEF IInv, LiveInv
<1>2. QED
  BY <1>1, Invariance, PTL

(* A live frequency is a record marker within the limits, and there is one  *)
(* if and only if there is a voltage of phase A: validate_record_sequence_  *)
(* admits nothing else at the byte that decode_record_sequence_ reads as    *)
(* the frequency.                                                           *)
THEOREM FrequencyMarked == Spec => []FrequencyIsMarker
<1>1. IInv => FrequencyIsMarker
  BY DEF IInv, LiveInv
<1>2. QED
  BY <1>1, Invariance, PTL

(* The readiness check of validate_sensor_value keeps startup placeholders  *)
(* from every entity but the balance, and what the balance lambda publishes *)
(* before every entity it reads has a value is zero.                        *)
THEOREM OnlyMeasured == Spec => []NothingFabricated
<1>1. IInv => NothingFabricated
  BY DEF IInv, EntityInv, NothingFabricated
<1>2. QED
  BY <1>1, Invariance, PTL

(* The step formula of EntitiesNeverJump.                                   *)
JumpFree ==
  \A m \in Sensors :
    entity[m] # NaN /\ entity'[m] # entity[m]
      => \/ LimitsOf[m].zeroBypass /\ entity'[m] = 0
         \/ Distance(entity'[m], entity[m]) <= LimitsOf[m].delta

(* A step moves no entity by more than its limit, except to an idle zero.   *)
LEMMA NoJump ==
  ASSUME IInv, [Next]_vars
  PROVE  JumpFree
<1> SUFFICES ASSUME NEW m \in Sensors, entity[m] # NaN, entity'[m] # entity[m]
             PROVE  \/ LimitsOf[m].zeroBypass /\ entity'[m] = 0
                    \/ Distance(entity'[m], entity[m]) <= LimitsOf[m].delta
  BY DEF JumpFree
<1>1. PICK n \in Sensors : Publish(n)
  BY DEF Next, AcceptCycle, RejectCycle, Poll, RejectSample, ToggleEnabled, ToggleMultiplier,
         vars, live, samples
<1>2. entity' = [entity EXCEPT ![n] = Sample(n)] /\ Reason(accepted[n], n, Sample(n)) = "NONE"
  BY <1>1 DEF Publish
<1>3. entity \in [Sensors -> Nat \union {NaN}]
  BY DEF IInv, TypeOK
<1>4. n = m /\ entity'[m] = Sample(m)
  BY <1>2, <1>3
<1>5. accepted[m] = entity[m] /\ entity[m] # Unset
  BY <1>3, PlaceholderAssumption DEF IInv, EntityInv, EntityAccepted
<1>6. ~Jumps(entity[m], m, Sample(m))
  BY <1>2, <1>4, <1>5 DEF Reason
<1>7. Sample(m) \in Nat /\ entity[m] \in Nat
  BY <1>3, SampleType DEF IInv
<1>8. LimitsOf[m].delta \in Nat
  BY SensorFacts, LimitTypes
<1>9. Distance(Sample(m), entity[m]) \in Nat
  BY <1>7 DEF Distance
<1>10. \/ LimitsOf[m].zeroBypass /\ Sample(m) = 0
       \/ ~(Distance(Sample(m), entity[m]) > LimitsOf[m].delta)
  BY <1>5, <1>6 DEF Jumps
<1>11. QED
  BY <1>4, <1>8, <1>9, <1>10

(* Cycles and samples are judged by the same limits, so an entity that was  *)
(* published after the last cycle but one is never locked out by its own    *)
(* validator.                                                               *)
THEOREM OneCycleHarmless == Spec => []LockOutNeedsTwoCycles
<1>1. ASSUME IInv PROVE LockOutNeedsTwoCycles
  BY <1>1, DirectSample DEF LockOutNeedsTwoCycles, LockedOut, IInv, LagInv, OneCycleNear, TooFar
<1>2. QED
  BY <1>1, Invariance, PTL

(* The publication validator compares every sample with what Home Assistant *)
(* shows, so an entity never jumps, whichever cycles arrived and switches   *)
(* were toggled since its last poll.                                        *)
THEOREM NeverJumps == Spec => EntitiesNeverJump
<1>1. IInv /\ [Next]_vars => [JumpFree]_vars
  BY NoJump
<1>2. EntitiesNeverJump <=> [][JumpFree]_vars
  BY PTL DEF EntitiesNeverJump, JumpFree
<1>3. QED
  BY <1>1, <1>2, Invariance, PTL DEF Spec


(* The step formula of PollSettles.                                        *)
Settled == \A m \in Sensors : Poll(m) => KeepsUp(m)'

(* A direct sample that is ready is in range.                               *)
LEMMA DirectInRange ==
  ASSUME IInv, NEW m \in Direct, m \in ready
  PROVE  ~OutOfRange(m)
<1>1. m \in InCycle /\ m \in measured /\ MatchOf(m)
  BY SensorFacts, MatchFacts DEF IInv, LiveInv, ReadyMeasured
<1>2. Sample(m) = latest[m] /\ latest[m] # Unset
  BY <1>1, DirectSample DEF MatchOf, measured
<1>3. QED
  BY <1>1, <1>2 DEF OutOfRange, IInv, LiveInv, LatestInRange

(* Why KeepsUp exempts an entity.                                           *)
Exempt(m) ==
  \/ m \notin Direct /\ OutOfRange(m)
  \/ entity[m] # NaN /\ LockedOut(m) /\ (m \in Direct => lag[m] = 2)

(* A sample is rejected for its range or because it is too far from what    *)
(* the entity shows.                                                        *)
LEMMA RejectedForCause ==
  ASSUME IInv, NEW m \in Sensors, m \in ready, Reason(accepted[m], m, Sample(m)) # "NONE"
  PROVE  Exempt(m)
<1>1. Sample(m) \in Nat /\ Sample(m) # NaN
  BY SampleType, PlaceholderAssumption DEF IInv
<1>2. CASE Jumps(accepted[m], m, Sample(m))
  <2>1. accepted[m] = (IF entity[m] = NaN THEN Unset ELSE entity[m])
    BY DEF IInv, EntityInv, EntityAccepted
  <2>2. accepted[m] # Unset
    BY <1>2 DEF Jumps
  <2>3. entity[m] # NaN /\ accepted[m] = entity[m]
    BY <2>1, <2>2
  <2>4. LockedOut(m)
    BY <1>2, <2>3 DEF Jumps, LockedOut
  <2>5. m \in Direct => lag[m] = 2
    BY <2>3, <2>4, DirectSample DEF LockedOut, IInv, LagInv, OneCycleNear, TooFar
  <2>6. QED
    BY <2>3, <2>4, <2>5 DEF Exempt
<1>3. CASE Sample(m) < LimitsOf[m].minimum \/ Sample(m) > LimitsOf[m].maximum
  <2>1. LimitsOf[m].minimum \in Nat /\ LimitsOf[m].maximum \in Nat
    BY SensorFacts, LimitTypes
  <2>2. OutOfRange(m)
    BY <1>1, <1>3, <2>1 DEF OutOfRange
  <2>3. QED
    BY <2>2, DirectInRange DEF Exempt
<1>4. QED
  BY <1>1, <1>2, <1>3 DEF Reason

(* A poll changes no sample, not even the one of the balance, which is      *)
(* computed from other entities.                                            *)
LEMMA SampleUnchanged ==
  ASSUME IInv, NEW m \in Sensors, Poll(m)
  PROVE  Sample(m)' = Sample(m)
<1>1. UNCHANGED <<parser, enabled, doubled>>
  BY DEF Poll, Publish, RejectSample, live
<1>2. CASE m = "balance"
  <2>1. \A part \in {"total"} \union Branches : part \in Sensors /\ part # m
    BY <1>2, PipelineAssumption, MeasurementNames
  <2>2. entity' = entity \/ entity' = [entity EXCEPT ![m] = Sample(m)]
    BY DEF Poll, Publish, RejectSample, samples
  <2>3. \A part \in {"total"} \union Branches : entity'[part] = entity[part]
    BY <2>1, <2>2 DEF IInv, TypeOK
  <2>4. [c \in Branches |-> entity'[c]] = [c \in Branches |-> entity[c]]
    BY <2>3
  <2>5. BalanceSample' = BalanceSample
    BY <2>3, <2>4 DEF BalanceSample
  <2>6. QED
    BY <1>2, <2>5 DEF Sample
<1>3. CASE m # "balance"
  BY <1>1, <1>3 DEF Sample, CircuitSample
<1>4. QED
  BY <1>2, <1>3

(* A published sample is shown.                                            *)
LEMMA PublishSettles ==
  ASSUME IInv, NEW m \in Sensors, Publish(m)
  PROVE  KeepsUp(m)'
<1>1. entity'[m] = Sample(m)
  BY DEF Publish, IInv, TypeOK
<1>2. Sample(m)' = Sample(m)
  BY SampleUnchanged DEF Poll
<1>3. QED
  BY <1>1, <1>2 DEF KeepsUp

(* A rejected one leaves everything its rejection was decided on as it was. *)
LEMMA RejectionSettles ==
  ASSUME IInv, NEW m \in Sensors, RejectSample(m)
  PROVE  KeepsUp(m)'
<1>1. entity' = entity /\ lag' = lag
  BY DEF RejectSample, samples
<1>2. Sample(m)' = Sample(m)
  BY SampleUnchanged DEF Poll
<1>3. Exempt(m)
  BY RejectedForCause DEF RejectSample
<1>4. Exempt(m)'
  BY <1>1, <1>2, <1>3 DEF Exempt, OutOfRange, LockedOut
<1>5. QED
  BY <1>4 DEF KeepsUp, Exempt

(* validate_sensor_value publishes all that is within its limits at once,   *)
(* so a direct entity falls behind the live value only if two cycles were   *)
(* accepted without a publication between them; a value computed from       *)
(* switches or other entities may also be out of range.                     *)
THEOREM OnePollSettles == Spec => PollSettles
<1>1. ASSUME IInv PROVE Settled
  BY PublishSettles, RejectionSettles, <1>1 DEF Settled, Poll
<1>2. IInv /\ [Next]_vars => [Settled]_vars
  BY <1>1
<1>3. PollSettles <=> [][Settled]_vars
  BY PTL DEF PollSettles, Settled
<1>4. QED
  BY <1>2, <1>3, Invariance, PTL DEF Spec
=============================================================================
