------------------------- MODULE MCMeasurementPipeline -------------------------
(* Cycles and limits for the model checker.  One unit of power stands for   *)
(* 50 kW on a main phase and 25 kW on a circuit, one unit of voltage for    *)
(* 10 V; the frequency is in Hz.                                            *)
EXTENDS MeasurementPipeline, TLC

MCCircuits == <<"circuit_1">>

MCLimits ==
  [circuit   |-> [minimum |-> 0,  maximum |-> 2,  delta |-> 1,  zeroBypass |-> TRUE],
   phase     |-> [minimum |-> 0,  maximum |-> 2,  delta |-> 1,  zeroBypass |-> TRUE],
   total     |-> [minimum |-> 0,  maximum |-> 4,  delta |-> 2,  zeroBypass |-> TRUE],
   balance   |-> [minimum |-> 0,  maximum |-> 4,  delta |-> 2,  zeroBypass |-> TRUE],
   voltage   |-> [minimum |-> 7,  maximum |-> 15, delta |-> 4,  zeroBypass |-> FALSE],
   frequency |-> [minimum |-> 40, maximum |-> 70, delta |-> 10, zeroBypass |-> FALSE]]

Idle         == [idle |-> TRUE, power |-> 0, voltage |-> 0]
Active(p, v) == [idle |-> FALSE, power |-> p, voltage |-> v]

MadeOf(circuit, a, b, c, markers) ==
  {[reading |-> ("circuit_1" :> r @@ "phase_a" :> x @@ "phase_b" :> y @@ "phase_c" :> z),
    phaseBMarker |-> f] : r \in circuit, x \in a, y \in b, z \in c, f \in markers}

(* Ways to pass and to fail the checks, at the boundaries of the limits.  A  *)
(* voltage that goes from 9 by 13 to 15 in two accepted cycles is too far    *)
(* from an entity that still shows 9.                                        *)
AllKindsOfCycles ==
  MadeOf({Idle, Active(2, 0)},
         {Idle, Active(1, 9), Active(1, 13), Active(1, 15), Active(1, 8)},
         {Idle, Active(1, 15)}, {Active(2, 0)}, {59, 60, 255})
  \union MadeOf({Idle}, {Idle, Active(1, 9)}, {Idle, Active(1, 16)}, {Active(2, 0)}, {60, 61})

(* Powers, for the sensors derived from them, and a voltage that only some   *)
(* cycles carry.  The total is 1, 3 or 4, and 4 is too far from 1.           *)
PowerCycles ==
  LET circuits == {Active(1, 0), Active(2, 0)}
  IN  MadeOf(circuits, {Active(1, 0)}, {Idle}, {Idle}, {60})
        \union MadeOf(circuits, {Active(2, 9)}, {Idle}, {Active(1, 0), Active(2, 0)}, {60})
=============================================================================
