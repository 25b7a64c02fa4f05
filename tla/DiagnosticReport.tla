--------------------------- MODULE DiagnosticReport ---------------------------
(***************************************************************************)
(* SEMMeterDiagnosticReportGenerator and generate_diagnostic_report: a      *)
(* request takes a snapshot, formats it, splits it between its blocks into  *)
(* at most PartCount parts of at most PartMax characters, and publishes the *)
(* parts one after the other, or none if they do not suffice.               *)
(*                                                                          *)
(* A report is the set of the positions where its blocks end (a block ends  *)
(* after its "\n\n", the last one with the report), which is all that       *)
(* split_report looks at.  A part is a piece of a report between two        *)
(* positions.                                                               *)
(***************************************************************************)
EXTENDS Integers

CONSTANTS
  PartCount,       (* DIAGNOSTIC_REPORT_PART_COUNT                          *)
  PartMax,         (* DIAGNOSTIC_REPORT_PART_MAX_LENGTH                     *)
  Reports          (* the reports snapshots may be formatted as             *)

Size(report) == CHOOSE e \in report : \A f \in report : f <= e

ASSUME PartAssumption == PartCount \in Nat \ {0} /\ PartMax \in Nat \ {0}

ASSUME ReportAssumption ==
  \A r \in Reports : /\ r \subseteq Nat \ {0}
                     /\ \E e \in r : \A f \in r : f <= e

VARIABLES
  generating,      (* generating_                                           *)
  pc,              (* "idle", "split" or "publish"                          *)
  report,          (* the report being split or published                   *)
  blockStart,      (* block_start                                           *)
  partIndex,       (* part_index, from 1                                    *)
  parts,           (* parts.values                                          *)
  published,       (* how many of the parts have been published             *)
  shown            (* the states of the three entities                      *)

(* History: how the last request ended.                                     *)
VARIABLE outcome

vars == <<generating, pc, report, blockStart, partIndex, parts, published, shown, outcome>>

PartNumbers == 1 .. PartCount

Piece(r, from, to) == [of |-> r, from |-> from, to |-> to]

(* The text NONE, which an unused part holds.                               *)
None == Piece({}, 0, 0)

Init ==
  /\ generating = FALSE
  /\ pc = "idle"
  /\ report = {}
  /\ blockStart = 0 /\ partIndex = 1
  /\ parts = [i \in PartNumbers |-> None]
  /\ published = 0
  /\ shown = [i \in PartNumbers |-> None]
  /\ outcome = "none"

(* A mutant: a request is accepted at any time.                             *)
BeginAlways == TRUE

BeginGeneration == ~generating

(* generate_diagnostic_report, from the button or, while the parts are      *)
(* published, from an automation on one of them.                            *)
Request ==
  /\ pc \in {"idle", "publish"}
  /\ IF ~BeginGeneration THEN UNCHANGED vars
     ELSE /\ report' \in Reports
          /\ generating' = TRUE
          /\ pc' = "split"
          /\ blockStart' = 0 /\ partIndex' = 1
          /\ parts' = [i \in PartNumbers |-> None]
          /\ published' = 0
          /\ UNCHANGED <<shown, outcome>>

-----------------------------------------------------------------------------
(* split_report, block by block.                                            *)

BlockEnd == CHOOSE e \in report : e > blockStart /\ \A f \in report : f > blockStart => e <= f

Part == parts[partIndex]

BlockTooLong == BlockEnd - blockStart > PartMax

(* A mutant: the block that fills a part is not counted in.                 *)
OverfullBefore == Part # None /\ Part.to - Part.from > PartMax

Overfull == Part # None /\ Part.to - Part.from + (BlockEnd - blockStart) > PartMax

(* A mutant: a refused request leaves the generator busy.                   *)
RefuseUnfinished ==
  /\ pc' = "idle"
  /\ outcome' = "refused"
  /\ UNCHANGED <<generating, report, blockStart, partIndex, parts, published, shown>>

Refuse ==
  /\ pc' = "idle"
  /\ generating' = FALSE
  /\ outcome' = "refused"
  /\ UNCHANGED <<report, blockStart, partIndex, parts, published, shown>>

(* A mutant: the block just added is looked at again.                       *)
AppendWithoutAdvance(i, from) ==
  /\ parts' = [parts EXCEPT ![i] = Piece(report, from, BlockEnd)]
  /\ partIndex' = i
  /\ UNCHANGED <<generating, pc, report, blockStart, published, shown, outcome>>

AppendTo(i, from) ==
  /\ parts' = [parts EXCEPT ![i] = Piece(report, from, BlockEnd)]
  /\ partIndex' = i
  /\ blockStart' = BlockEnd
  /\ UNCHANGED <<generating, pc, report, published, shown, outcome>>

TakeBlock ==
  /\ pc = "split" /\ blockStart < Size(report)
  /\ IF BlockTooLong THEN Refuse
     ELSE IF ~Overfull THEN AppendTo(partIndex, IF Part = None THEN blockStart ELSE Part.from)
     ELSE IF partIndex = PartCount THEN Refuse
     ELSE AppendTo(partIndex + 1, blockStart)

EndSplit ==
  /\ pc = "split" /\ blockStart >= Size(report)
  /\ pc' = "publish"
  /\ UNCHANGED <<generating, report, blockStart, partIndex, parts, published, shown, outcome>>

-----------------------------------------------------------------------------
PublishPart ==
  /\ pc = "publish" /\ published < PartCount
  /\ published' = published + 1
  /\ shown' = [shown EXCEPT ![published + 1] = parts[published + 1]]
  /\ UNCHANGED <<generating, pc, report, blockStart, partIndex, parts, outcome>>

FinishGeneration ==
  /\ pc = "publish" /\ published = PartCount
  /\ pc' = "idle"
  /\ generating' = FALSE
  /\ outcome' = "generated"
  /\ UNCHANGED <<report, blockStart, partIndex, parts, published, shown>>

Next == Request \/ TakeBlock \/ EndSplit \/ PublishPart \/ FinishGeneration

Spec == Init /\ [][Next]_vars

-----------------------------------------------------------------------------
Pieces == [of : Reports \union {{}}, from : Nat, to : Nat]

TypeOK ==
  /\ generating \in BOOLEAN
  /\ pc \in {"idle", "split", "publish"}
  /\ report \in Reports \union {{}}
  /\ blockStart \in Nat /\ partIndex \in PartNumbers
  /\ parts \in [PartNumbers -> Pieces]
  /\ published \in 0 .. PartCount
  /\ shown \in [PartNumbers -> Pieces]
  /\ outcome \in {"none", "generated", "refused"}

(* The parts p are consecutive pieces of r between ends of its blocks, from *)
(* its beginning to its end, none too long; those after the last are NONE.  *)
Tiles(p, r) ==
  \E last \in PartNumbers :
    /\ p[1].from = 0 /\ p[last].to = Size(r)
    /\ \A i \in 1 .. last :
         /\ p[i].of = r /\ p[i].to \in r
         /\ p[i].from < p[i].to /\ p[i].to - p[i].from <= PartMax
    /\ \A i \in 1 .. last - 1 : p[i + 1].from = p[i].to
    /\ \A i \in last + 1 .. PartCount : p[i] = None

(* The ways to cut r between its blocks into PartCount parts, none too      *)
(* long; parts may be empty.                                                *)
CutAt(r, c, i) == IF i = 0 THEN 0 ELSE IF i = PartCount THEN Size(r) ELSE c[i]

Cuts(r) ==
  {c \in [1 .. PartCount - 1 -> r \union {0}] :
     \A i \in PartNumbers : /\ CutAt(r, c, i - 1) <= CutAt(r, c, i)
                            /\ CutAt(r, c, i) - CutAt(r, c, i - 1) <= PartMax}

Fits(r) == Cuts(r) # {}

(* The greedy split is as good as any: a report is refused only if no way   *)
(* to cut it between blocks would do, and what is published is the report,  *)
(* whole and cut between blocks.                                            *)
SplitExact ==
  /\ outcome = "refused" /\ pc = "idle" => ~Fits(report)
  /\ pc = "publish" => Tiles(parts, report)

(* Whenever no publication is under way the three entities show one report, *)
(* whole, or none yet: a refused or a duplicate request leaves no mixture.  *)
OneReportShown ==
  pc # "publish" =>
    \/ \A i \in PartNumbers : shown[i] = None
    \/ Tiles(shown, shown[1].of)

(* The steps a request can still take: blocks to place, parts to publish    *)
(* and the end.                                                             *)
Remaining ==
  CASE pc = "split"   -> Size(report) - blockStart + PartCount + 2
    [] pc = "publish" -> PartCount - published + 1
    [] pc = "idle"    -> 0

(* Every step of a request brings its end nearer, also when an automation   *)
(* presses the button again meanwhile: generate_diagnostic_report returns   *)
(* within a number of steps fixed when the report is formatted, and then    *)
(* the generator is free for the next request, also after a refusal.        *)
GenerationProgress ==
  [][ pc # "idle" =>
        Remaining' \in 0 .. Remaining - 1 /\ (generating' <=> Remaining' > 0) ]_vars

=============================================================================
