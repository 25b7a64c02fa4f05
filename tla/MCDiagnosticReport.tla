-------------------------- MODULE MCDiagnosticReport --------------------------
(***************************************************************************)
(* The reports DiagnosticReport is checked on: those the firmware formats,  *)
(* with the shortest and the longest values, and short ones of any shape.   *)
(***************************************************************************)
EXTENDS FirmwareReport, SequencesExt

(* A device with the longer or the shorter texts, each with the shortest    *)
(* and the longest reset reason, before and after a self-test.              *)
Extremes(digits, outages) ==
  {Snapshot(IF well THEN 8 ELSE 10, reset, well, well, well, test,
            <<digits, digits, digits, digits>>, <<outages, outages>>) :
     reset \in {5, 18}, well \in BOOLEAN, test \in {"PASS", "NOT_RUN"}}

(* With no outage yet and with long ones.                                   *)
MCOrdinarySnapshots == Extremes(1, 0) \union Extremes(4, 0) \union Extremes(4, 7)

WornSnapshots == Extremes(10, 7)

(* In units of a length of which two fill a part exactly.                   *)
ShapedReports ==
  {BlockEnds(s) : s \in SeqOf({60, 110}, 4) \ {<< >>}}
    \union {BlockEnds(s) : s \in {<<221>>, <<110, 221>>, <<60, 221, 60>>}}

MCReports == {BuildReport(s) : s \in MCOrdinarySnapshots \union WornSnapshots} \union ShapedReports

=============================================================================
