------------------------------ MODULE CycleScan ------------------------------
(***************************************************************************)
(* What SEMMeterFrameAccumulator promises its callers, without a buffer:   *)
(* of the measurement cycles present in the UART byte stream it takes,     *)
(* from left to right, every one that does not begin inside the part of    *)
(* the stream an earlier taken cycle used up.  How the bytes were cut into *)
(* feeds plays no role.                                                    *)
(*                                                                         *)
(* Positions are absolute offsets in the byte stream, counted from 0.      *)
(***************************************************************************)
EXTENDS Integers, Sequences

CONSTANTS
  StreamLength,   (* bytes the UART delivers; bounds the model            *)
  SeqSize,        (* bytes of one complete cycle (RECORD_SEQUENCE_SIZE)   *)
  Overlap         (* bytes kept of a taken cycle (RECORD_OVERLAP_SIZE)    *)

VARIABLES
  intact,         (* offsets at which a structurally valid cycle begins   *)
  received,       (* bytes delivered so far                               *)
  cursor,         (* first offset not used up by a taken cycle            *)
  taken           (* the cycles taken, each with its electrical verdict   *)

vars == <<intact, received, cursor, taken>>

Verdicts == {"accepted", "rejected"}

Init ==
  /\ intact \in SUBSET (0 .. StreamLength - 1)
  /\ received = 0
  /\ cursor = 0
  /\ taken = << >>

Receive ==
  /\ \E n \in 0 .. StreamLength - received : received' = received + n
  /\ UNCHANGED <<intact, cursor, taken>>

(* The next cycle to take: the leftmost one from the cursor on.            *)
IsNext(p) ==
  /\ p \in intact
  /\ p >= cursor
  /\ \A q \in intact : q >= cursor => p <= q

Take(p, verdict) ==
  /\ IsNext(p)
  /\ p + SeqSize <= received
  /\ cursor' = p + SeqSize - Overlap
  /\ taken' = Append(taken, [start |-> p, verdict |-> verdict])
  /\ UNCHANGED <<intact, received>>

TakeNext == \E p \in intact, verdict \in Verdicts : Take(p, verdict)

Next == Receive \/ TakeNext

Spec == Init /\ [][Next]_vars

FairSpec == Spec /\ WF_vars(TakeNext)

=============================================================================
