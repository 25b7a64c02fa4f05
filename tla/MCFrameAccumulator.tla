-------------------------- MODULE MCFrameAccumulator --------------------------
(* Instances of FrameAccumulator for TLC.  The streams have at most         *)
(* MaxHeaders circuit-1 headers, which bounds the number of initial states. *)
EXTENDS FrameAccumulator, FiniteSetsExt

CONSTANT MaxHeaders

MCInit ==
  /\ candidates \in UNION {kSubset(k, Offsets) : k \in 0 .. MaxHeaders}
  /\ Init

MCSpec == MCInit /\ [][Next]_vars

MCFairSpec == MCSpec /\ WF_vars(ProcessBuffer) /\ WF_vars(MoreBytes)
=============================================================================
