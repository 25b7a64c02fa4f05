-------------------------- MODULE MeasurementPipeline --------------------------
(***************************************************************************)
(* The way of a measurement from a received cycle to Home Assistant:        *)
(* decoding into a candidate parser, the transactional check against the    *)
(* cycle validator, the live parser, and the template sensors of            *)
(* sem-meter.yaml, each of which polls the live parser on its own schedule  *)
(* and sends its sample through the publication validator.                  *)
(***************************************************************************)
EXTENDS SensorValidator

CONSTANTS
  Cycles,      (* the cycles the meter may send                             *)
  Sensors,     (* the template sensors of the configuration                 *)
  Switchable   (* circuits whose enable and 240 V switches are used         *)

ASSUME PipelineAssumption ==
  /\ Cycles \subseteq Cycle
  /\ Sensors \subseteq Measurements
  /\ "balance" \in Sensors => {"total"} \union Branches \subseteq Sensors
  /\ Switchable \subseteq Branches

VARIABLES
  parser,        (* the live parser_                                        *)
  cycleAccepted, (* accepted_ of cycle_validator_                           *)
  accepted,      (* accepted_ of validator_, the publication validator      *)
  ready,         (* ready_ of validator_                                    *)
  rejection,     (* last_rejected_measurement_ and last_rejection_reason_   *)
  entity,        (* the states of the template sensors                      *)
  enabled,       (* the circuits that are switched on                       *)
  doubled        (* those with the 240 V multiplier                         *)

(* History, which no action reads.                                          *)
VARIABLES
  latest,   (* the value of each measurement in the last accepted cycle that *)
            (* carried it                                                    *)
  lag       (* cycles accepted since a direct entity was last published, up  *)
            (* to 2                                                          *)

(* The entities computed from one live value only, without switches.        *)
Direct == Sensors \ ({"balance"} \union Switchable)

live    == <<parser, cycleAccepted, latest>>
samples == <<accepted, entity, lag>>
vars    == <<live, samples, ready, rejection, enabled, doubled>>

NoRejection == [measurement |-> "none", reason |-> "NONE"]

Init ==
  /\ parser = InitialParser
  /\ cycleAccepted = [m \in Measurements |-> Unset]
  /\ accepted = [m \in Measurements |-> Unset]
  /\ ready = {}
  /\ rejection = NoRejection
  /\ entity = [m \in Sensors |-> NaN]
  /\ enabled = Branches /\ doubled = {}
  /\ latest = [m \in Measurements |-> Unset]
  /\ lag = [m \in Direct |-> 2]

-----------------------------------------------------------------------------
(* A structurally valid cycle reaches process_buffer_.                      *)

(* update_measurement_readiness_ of all the records of the live parser.     *)
ReadyAfter(p) ==
  {m \in Measurements : m = "balance" \/ Available(p, m)}

(* What a cycle itself says of the measurements, for the history.           *)
Carried(cycle) ==
  Records \union {"total"}
    \union (IF CarriesVoltage(cycle, "phase_a") THEN {"voltage_a", "frequency"} ELSE {})
    \union (IF CarriesVoltage(cycle, "phase_b") THEN {"voltage_b"} ELSE {})

PowerIn(cycle, r) == IF cycle.reading[r].idle THEN 0 ELSE cycle.reading[r].power

CarriedValue(cycle, m) ==
  CASE m \in Records   -> PowerIn(cycle, m)
    [] m = "total"     -> PowerIn(cycle, "phase_a") + PowerIn(cycle, "phase_b")
                            + PowerIn(cycle, "phase_c")
    [] m = "voltage_a" -> cycle.reading["phase_a"].voltage
    [] m = "voltage_b" -> cycle.reading["phase_b"].voltage
    [] m = "frequency" -> cycle.phaseBMarker

AcceptCycle ==
  \E cycle \in Cycles :
    /\ StructurallyValid(cycle)
    /\ LET candidate == Decode(parser, cycle)
       IN  CycleAccepted(cycleAccepted, candidate) /\ parser' = candidate
    /\ cycleAccepted' = Staged(cycleAccepted, parser')
    /\ ready' = ready \union ReadyAfter(parser')
    /\ latest' = [m \in Measurements |-> IF m \in Carried(cycle) THEN CarriedValue(cycle, m)
                                         ELSE latest[m]]
    /\ lag' = [m \in Direct |-> IF lag[m] < 2 THEN lag[m] + 1 ELSE 2]
    /\ UNCHANGED <<accepted, entity, rejection, enabled, doubled>>

(* A mutant: the measurements checked before the one that failed are kept.  *)
RejectLate ==
  \E cycle \in Cycles :
    /\ StructurallyValid(cycle)
    /\ ~CycleAccepted(cycleAccepted, Decode(parser, cycle))
    /\ cycleAccepted' = Staged(cycleAccepted, Decode(parser, cycle))
    /\ UNCHANGED <<parser, latest, samples, ready, rejection, enabled, doubled>>

(* The rejection is recorded in the publication validator by loop().        *)
RejectCycle ==
  \E cycle \in Cycles :
    /\ StructurallyValid(cycle)
    /\ LET candidate == Decode(parser, cycle)
           m == FirstFailure(cycleAccepted, candidate)
       IN  /\ ~CycleAccepted(cycleAccepted, candidate)
           /\ rejection' = [measurement |-> m,
                            reason |-> Reason(cycleAccepted[m], m, Live(candidate, m))]
    /\ UNCHANGED <<live, samples, ready, enabled, doubled>>

-----------------------------------------------------------------------------
(* The template sensors.                                                    *)

(* The lambda of a circuit.                                                 *)
CircuitSample(c) ==
  IF c \notin enabled THEN 0
  ELSE parser.power[c] * (IF c \in doubled THEN 2 ELSE 1)

(* A mutant: an entity without a value counts as no consumption.            *)
BalanceOfKnown ==
  LET known == {c \in Branches : entity[c] # NaN}
      used  == SumFunction([c \in known |-> entity[c]])
  IN  IF entity["total"] # NaN /\ used \in 0 .. entity["total"]
      THEN entity["total"] - used ELSE 0

(* The lambda of Balance Power, from the entities of the total and the      *)
(* circuits: a NaN among them fails the comparison, and 0 is returned.      *)
BalanceSample ==
  LET parts == {"total"} \union Branches
      used  == SumFunction([c \in Branches |-> entity[c]])
  IN  IF \E m \in parts : entity[m] = NaN THEN 0
      ELSE IF used \in 0 .. entity["total"] THEN entity["total"] - used ELSE 0

Sample(m) ==
  IF m = "balance" THEN BalanceSample
  ELSE IF m \in Branches THEN CircuitSample(m)
  ELSE Live(parser, m)

(* A mutant: samples are published before their measurement is ready.       *)
PublishAlways(m) ==
  /\ Reason(accepted[m], m, Sample(m)) = "NONE"
  /\ accepted' = [accepted EXCEPT ![m] = Sample(m)]
  /\ entity' = [entity EXCEPT ![m] = Sample(m)]
  /\ lag' = [n \in Direct |-> IF n = m THEN 0 ELSE lag[n]]
  /\ UNCHANGED <<live, ready, rejection, enabled, doubled>>

(* A mutant: the first published sample stays the one compared with.        *)
PublishOnce(m) ==
  /\ m \in ready
  /\ Reason(accepted[m], m, Sample(m)) = "NONE"
  /\ accepted' = [accepted EXCEPT ![m] = IF accepted[m] = Unset THEN Sample(m) ELSE accepted[m]]
  /\ entity' = [entity EXCEPT ![m] = Sample(m)]
  /\ lag' = [n \in Direct |-> IF n = m THEN 0 ELSE lag[n]]
  /\ UNCHANGED <<live, ready, rejection, enabled, doubled>>

(* validate_sensor_value: a measurement that is not ready is dropped        *)
(* without a trace, a rejected sample leaves the entity as it is.           *)
Publish(m) ==
  /\ m \in ready
  /\ Reason(accepted[m], m, Sample(m)) = "NONE"
  /\ accepted' = [accepted EXCEPT ![m] = Sample(m)]
  /\ entity' = [entity EXCEPT ![m] = Sample(m)]
  /\ lag' = [n \in Direct |-> IF n = m THEN 0 ELSE lag[n]]
  /\ UNCHANGED <<live, ready, rejection, enabled, doubled>>

RejectSample(m) ==
  /\ m \in ready
  /\ Reason(accepted[m], m, Sample(m)) # "NONE"
  /\ rejection' = [measurement |-> m, reason |-> Reason(accepted[m], m, Sample(m))]
  /\ UNCHANGED <<live, samples, ready, enabled, doubled>>

Poll(m) == Publish(m) \/ RejectSample(m)

(* The switches the lambdas of a circuit read.                              *)
Toggled(set, c) == IF c \in set THEN set \ {c} ELSE set \union {c}

ToggleEnabled ==
  /\ \E c \in Switchable : enabled' = Toggled(enabled, c)
  /\ UNCHANGED <<live, samples, ready, rejection, doubled>>

ToggleMultiplier ==
  /\ \E c \in Switchable : doubled' = Toggled(doubled, c)
  /\ UNCHANGED <<live, samples, ready, rejection, enabled>>

Next ==
  \/ AcceptCycle \/ RejectCycle
  \/ \E m \in Sensors : Poll(m)
  \/ ToggleEnabled \/ ToggleMultiplier

Spec == Init /\ [][Next]_vars

(* Every template sensor polls every five seconds.                          *)
FairSpec == Spec /\ \A m \in Sensors : WF_vars(Poll(m))

-----------------------------------------------------------------------------
TypeOK ==
  /\ parser \in Parser
  /\ cycleAccepted \in [Measurements -> Nat \union {Unset}]
  /\ accepted \in [Measurements -> Nat \union {Unset}]
  /\ ready \subseteq Measurements
  /\ rejection \in [measurement : Measurements \union {"none"}, reason : Reasons]
  /\ entity \in [Sensors -> Nat \union {NaN}]
  /\ enabled \subseteq Branches /\ doubled \subseteq Branches
  /\ latest \in [Measurements -> Nat \union {Unset}]
  /\ lag \in [Direct -> 0 .. 2]

(* The live parser and the cycle validator never drift apart, and neither   *)
(* holds anything but the last accepted word of the meter on a measurement: *)
(* a rejected cycle leaves no trace, also of the measurements that passed   *)
(* before the one that failed, and a voltage or a frequency that a cycle    *)
(* with an idle phase leaves alone is the one of the last accepted cycle    *)
(* that carried it.                                                         *)
ValidatorMatchesParser ==
  \A i \in DOMAIN CycleOrder :
    LET m == CycleOrder[i]
    IN  /\ cycleAccepted[m] = latest[m]
        /\ Live(parser, m) = (IF latest[m] = Unset THEN 0 ELSE latest[m])

(* Because the frequency byte is a record marker, a line frequency other    *)
(* than 59 or 60 Hz never becomes a live value, although the validator      *)
(* admits 40 to 70 Hz: 255 fails the range, all others the structure.  It   *)
(* comes and stays with the voltage of phase A, from whichever accepted     *)
(* cycle last carried that voltage.                                         *)
FrequencyIsMarker ==
  /\ parser.frequency # 0 =>
       parser.frequency \in {f \in Markers : f <= Limits["frequency"].maximum}
  /\ parser.frequency # 0 <=> parser.voltage["phase_a"] # 0

(* The measurements some accepted cycle carried.                            *)
measured == {m \in Measurements : latest[m] # Unset}

(* No startup placeholder is published: an entity has a value only if an    *)
(* accepted cycle carried its measurement.  The balance is published before *)
(* the entities it is computed from (BalanceFromPublished below), but then  *)
(* only as zero: no power is attributed to it that a circuit not yet polled *)
(* may be using.                                                            *)
OnlyMeasuredShown ==
  \A m \in Sensors \ {"balance"} : entity[m] # NaN => m \in measured

OnlyZeroFabricated ==
  "balance" \in Sensors /\ entity["balance"] \notin {NaN, 0} =>
    \A m \in {"total"} \union Branches : entity[m] # NaN

NothingFabricated == OnlyMeasuredShown /\ OnlyZeroFabricated

(* An entity never jumps by more than its limit, whatever the live value    *)
(* and the switches do between two polls, except to an idle zero.           *)
EntitiesNeverJump ==
  [][ \A m \in Sensors :
        entity[m] # NaN /\ entity'[m] # entity[m]
          => \/ LimitsOf[m].zeroBypass /\ entity'[m] = 0
             \/ Distance(entity'[m], entity[m]) <= LimitsOf[m].delta ]_vars

(* An entity that is locked out is too far from the live value for its own  *)
(* validator, and stays so until the live value comes back.                 *)
LockedOut(m) ==
  /\ Distance(Sample(m), entity[m]) > LimitsOf[m].delta
  /\ ~(LimitsOf[m].zeroBypass /\ Sample(m) = 0)

(* The cycle validator and the publication validator have the same limits,  *)
(* so that one accepted cycle never locks an entity out: it takes two or    *)
(* more without a publication between them.  An entity published as often   *)
(* as cycles are accepted always keeps up.                                  *)
LockOutNeedsTwoCycles ==
  \A m \in Direct : entity[m] # NaN /\ LockedOut(m) => lag[m] = 2

(* The publication validator rejects a direct value for one reason only:    *)
(* two or more cycles were accepted since the entity was last published,    *)
(* and moved the value too far from it.  A value computed from switches or  *)
(* other entities may also be out of range.                                 *)
OutOfRange(m) == Sample(m) \notin LimitsOf[m].minimum .. LimitsOf[m].maximum

KeepsUp(m) ==
  m \in ready =>
    \/ entity[m] = Sample(m)
    \/ m \notin Direct /\ OutOfRange(m)
    \/ entity[m] # NaN /\ LockedOut(m) /\ (m \in Direct => lag[m] = 2)

EntitiesKeepUp == \A m \in Sensors : []<>KeepsUp(m)

(* One poll settles it: whatever cycles and switches came before, after a   *)
(* call of validate_sensor_value the entity shows the live value, or is     *)
(* exempt for one of those reasons.                                         *)
PollSettles == [][ \A m \in Sensors : Poll(m) => KeepsUp(m)' ]_vars

(* README.md: startup placeholder values remain unavailable.  The balance   *)
(* is a startup placeholder until the total and every circuit have been     *)
(* published.                                                               *)
BalanceFromPublished ==
  "balance" \in Sensors /\ entity["balance"] # NaN =>
    \A m \in {"total"} \union Branches : entity[m] # NaN

=============================================================================
