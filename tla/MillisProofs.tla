----------------------------- MODULE MillisProofs -----------------------------
(* What the watchdogs need to know of the wrapping clock.                   *)
EXTENDS Millis, TLAPS

(* The unsigned difference of two timestamps is a timestamp.               *)
LEMMA ElapsedType == \A a, s \in Timestamps : Elapsed(a, s) \in Timestamps
<1>1. \A x \in Int : x % Wrap \in 0 .. Wrap - 1
  BY WrapAssumption
<1>2. QED
  BY <1>1, WrapAssumption DEF Elapsed, Timestamps

(* Nothing has elapsed since now.                                         *)
LEMMA ElapsedZero == \A a \in Timestamps : Elapsed(a, a) = 0
<1>1. 0 % Wrap = 0
  BY WrapAssumption
<1>2. QED
  BY <1>1, WrapAssumption DEF Elapsed, Timestamps

(* What elapsed since s grows by one with the clock, also when the clock    *)
(* wraps, as long as it is shorter than a turn.                            *)
LEMMA ElapsedNext ==
  ASSUME NEW a \in Timestamps, NEW s \in Timestamps, Elapsed(a, s) + 1 < Wrap
  PROVE  /\ (a + 1) % Wrap \in Timestamps
         /\ Elapsed((a + 1) % Wrap, s) = Elapsed(a, s) + 1
<1>1. \A x \in 0 .. Wrap - 1 : x % Wrap = x
  BY WrapAssumption
<1>2. \A x \in (1 - Wrap) .. (-1) : x % Wrap = x + Wrap
  BY WrapAssumption
<1>3. Wrap % Wrap = 0
  BY WrapAssumption
<1>4. CASE a + 1 = Wrap
  <2>1. (a + 1) % Wrap = 0
    BY <1>3, <1>4
  <2>2. CASE s = 0
    <3>1. Elapsed(a, s) = Wrap - 1
      BY <1>1, <1>4, <2>2, WrapAssumption DEF Elapsed, Timestamps
    <3>2. QED
      BY <3>1, WrapAssumption
  <2>3. CASE s # 0
    <3>1. Elapsed(a, s) = Wrap - 1 - s
      BY <1>1, <1>4, <2>3, WrapAssumption DEF Elapsed, Timestamps
    <3>2. 0 - s \in (1 - Wrap) .. (-1)
      BY <2>3, WrapAssumption DEF Timestamps
    <3>3. Elapsed(0, s) = Wrap - s
      BY <1>2, <3>2, WrapAssumption DEF Elapsed, Timestamps
    <3>4. QED
      BY <2>1, <3>1, <3>3, WrapAssumption DEF Timestamps
  <2>4. QED
    BY <2>2, <2>3
<1>5. CASE a + 1 # Wrap
  <2>1. (a + 1) % Wrap = a + 1 /\ a + 1 \in Timestamps
    BY <1>1, <1>5, WrapAssumption DEF Timestamps
  <2>2. CASE s <= a
    <3>1. Elapsed(a, s) = a - s
      BY <1>1, <2>2, WrapAssumption DEF Elapsed, Timestamps
    <3>2. Elapsed(a + 1, s) = a + 1 - s
      BY <1>1, <1>5, <2>2, WrapAssumption DEF Elapsed, Timestamps
    <3>3. QED
      BY <2>1, <3>1, <3>2 DEF Timestamps
  <2>3. CASE s > a
    <3>1. Elapsed(a, s) = a - s + Wrap
      BY <1>2, <2>3, WrapAssumption DEF Elapsed, Timestamps
    <3>2. a + 1 - s \in (1 - Wrap) .. (-1)
      BY <2>3, <3>1, WrapAssumption DEF Timestamps
    <3>3. Elapsed(a + 1, s) = a + 1 - s + Wrap
      BY <1>2, <3>2, WrapAssumption DEF Elapsed, Timestamps
    <3>4. QED
      BY <2>1, <3>1, <3>3, WrapAssumption DEF Timestamps
  <2>4. QED
    BY <2>2, <2>3 DEF Timestamps
<1>6. QED
  BY <1>4, <1>5

(* The clock stays in its range.                                           *)
LEMMA ClockType == \A a \in Timestamps : (a + 1) % Wrap \in Timestamps
BY WrapAssumption DEF Timestamps
=============================================================================
