------------------------ MODULE DiagnosticReportProofs ------------------------
(***************************************************************************)
(* The report generator splits exactly and publishes whole reports, for    *)
(* every number and size of the parts and every set of reports.            *)
(***************************************************************************)
EXTENDS FirmwareReport, WellFoundedInduction, TLAPS

(* A set of naturals that is not empty has a least element.                *)
LEMMA LeastNatural ==
  ASSUME NEW T \in SUBSET Nat, T # {}
  PROVE  \E m \in T : \A n \in T : m <= n
<1> DEFINE R == OpToRel(<, Nat)
<1>1. IsWellFoundedOn(R, Nat)
  BY NatLessThanWellFounded, Zenon
<1>2. \A x, y \in Nat : <<x, y>> \in R <=> x < y
  BY Zenon DEF OpToRel
<1>3. PICK m \in T : \A n \in T : <<n, m>> \notin R
  <2> HIDE DEF R
  <2>1. QED
    BY <1>1, WFMin, Zenon
<1>4. \A n \in T : ~(n < m)
  BY <1>2, <1>3
<1>5. QED
  BY <1>4

-----------------------------------------------------------------------------
(* Reports and their blocks.                                               *)

(* The last of the block ends of a report is its size.                      *)
LEMMA SizeFacts ==
  ASSUME NEW r \in Reports
  PROVE  /\ r \subseteq Nat /\ r # {} /\ 0 \notin r
         /\ Size(r) \in r /\ \A f \in r : f <= Size(r)
<1>1. r \subseteq Nat \ {0} /\ \E e \in r : \A f \in r : f <= e
  BY ReportAssumption
<1>2. Size(r) \in r /\ \A f \in r : f <= Size(r)
  BY <1>1 DEF Size
<1>3. QED
  BY <1>1, <1>2

(* BlockEnd is the next end of a block.                                    *)
LEMMA BlockEndFacts ==
  ASSUME report \in Reports, blockStart \in Nat, blockStart < Size(report)
  PROVE  /\ BlockEnd \in report /\ BlockEnd \in Nat /\ BlockEnd > blockStart
         /\ \A f \in report : f > blockStart => BlockEnd <= f
<1> DEFINE Rest == {f \in report : f > blockStart}
<1>1. report \subseteq Nat /\ Size(report) \in report
  BY SizeFacts
<1>2. Rest \in SUBSET Nat /\ Rest # {}
  BY <1>1
<1>3. PICK e \in Rest : \A f \in Rest : e <= f
  BY <1>2, LeastNatural
<1>4. e \in report /\ e > blockStart /\ \A f \in report : f > blockStart => e <= f
  BY <1>3
<1>5. BlockEnd \in report /\ BlockEnd > blockStart
      /\ \A f \in report : f > blockStart => BlockEnd <= f
  BY <1>4 DEF BlockEnd
<1>6. QED
  BY <1>1, <1>5

(* A split begins at 0, ends with the report and goes forward by at most a  *)
(* part at a time.                                                          *)
LEMMA CutFacts ==
  ASSUME NEW r \in Reports, NEW c \in Cuts(r)
  PROVE  /\ CutAt(r, c, 0) = 0 /\ CutAt(r, c, PartCount) = Size(r)
         /\ \A i \in 0 .. PartCount : CutAt(r, c, i) \in r \union {0} /\ CutAt(r, c, i) \in Nat
         /\ \A i \in PartNumbers : /\ CutAt(r, c, i - 1) <= CutAt(r, c, i)
                                   /\ CutAt(r, c, i) - CutAt(r, c, i - 1) <= PartMax
<1>1. /\ r \subseteq Nat /\ Size(r) \in r /\ PartCount \in Nat \ {0}
  BY SizeFacts, PartAssumption
<1>2. c \in [1 .. PartCount - 1 -> r \union {0}]
  BY DEF Cuts
<1>3. CutAt(r, c, 0) = 0 /\ CutAt(r, c, PartCount) = Size(r)
  BY <1>1 DEF CutAt
<1>4. \A i \in 0 .. PartCount : CutAt(r, c, i) \in r \union {0}
  BY <1>1, <1>2 DEF CutAt
<1>5. \A i \in PartNumbers : /\ CutAt(r, c, i - 1) <= CutAt(r, c, i)
                             /\ CutAt(r, c, i) - CutAt(r, c, i - 1) <= PartMax
  BY DEF Cuts
<1>6. \A i \in 0 .. PartCount : CutAt(r, c, i) \in Nat
  <2> TAKE i \in 0 .. PartCount
  <2>1. CutAt(r, c, i) \in r \union {0}
    BY <1>4
  <2>2. \A x \in r \union {0} : x \in Nat
    BY <1>1
  <2>3. QED
    BY <2>1, <2>2, Zenon
<1>7. QED
  BY <1>3, <1>4, <1>5, <1>6, Zenon

-----------------------------------------------------------------------------
(* The inductive invariant.                                                *)

(* Nothing has been split yet.                                             *)
AtStart ==
  /\ blockStart = 0 /\ partIndex = 1
  /\ \A i \in PartNumbers : parts[i] = None

(* The parts up to partIndex tile the report up to blockStart.             *)
UnderWay ==
  /\ blockStart \in report
  /\ parts[1].from = 0 /\ parts[partIndex].to = blockStart
  /\ \A i \in 1 .. partIndex :
       /\ parts[i].of = report /\ parts[i].to \in report
       /\ parts[i].from < parts[i].to /\ parts[i].to - parts[i].from <= PartMax
  /\ \A i \in 1 .. partIndex - 1 : parts[i + 1].from = parts[i].to
  /\ \A i \in partIndex + 1 .. PartCount : parts[i] = None

(* Where the part being filled begins.                                     *)
From == IF parts[partIndex] = None THEN blockStart ELSE parts[partIndex].from

(* No way to cut the report gets further with as many parts.               *)
Ahead == \A c \in Cuts(report) : CutAt(report, c, partIndex - 1) <= From

SplitInv ==
  pc = "split" => /\ generating /\ report \in Reports /\ published = 0
                  /\ AtStart \/ UnderWay
                  /\ Ahead

PublishInv ==
  pc = "publish" => /\ generating /\ report \in Reports
                    /\ Tiles(parts, report)
                    /\ \A i \in 1 .. published : shown[i] = parts[i]

IdleInv == pc = "idle" => ~generating /\ (outcome = "refused" => ~Fits(report))

IInv == TypeOK /\ SplitInv /\ PublishInv /\ IdleInv /\ OneReportShown

(* An empty part is a piece of a report.                                    *)
LEMMA NoneType == None \in Pieces
BY DEF None, Piece, Pieces

(* The initial states satisfy the invariant.                                *)
LEMMA InitInvariant == Init => IInv
<1> SUFFICES ASSUME Init PROVE IInv
  OBVIOUS
<1>1. TypeOK
  <2>1. blockStart \in Nat /\ partIndex \in PartNumbers /\ published \in 0 .. PartCount
    BY PartAssumption DEF Init, PartNumbers
  <2>2. parts \in [PartNumbers -> Pieces] /\ shown \in [PartNumbers -> Pieces]
    BY NoneType, Zenon DEF Init
  <2>3. /\ generating \in BOOLEAN /\ pc \in {"idle", "split", "publish"}
        /\ report \in Reports \union {{}}
        /\ outcome \in {"none", "generated", "refused"}
    BY DEF Init
  <2>4. QED
    BY <2>1, <2>2, <2>3, Zenon DEF TypeOK
<1>2. SplitInv /\ PublishInv /\ IdleInv /\ OneReportShown
  BY DEF Init, SplitInv, PublishInv, IdleInv, OneReportShown
<1>3. QED
  BY <1>1, <1>2 DEF IInv

(* The part being filled.                                                  *)
LEMMA PartFacts ==
  ASSUME IInv, pc = "split"
  PROVE  /\ report \in Reports /\ report # {} /\ report \subseteq Nat
         /\ blockStart \in Nat /\ partIndex \in PartNumbers
         /\ \A i \in PartNumbers : parts[i].from \in Nat /\ parts[i].to \in Nat
         /\ From \in Nat /\ From <= blockStart
         /\ AtStart => Part = None
         /\ UnderWay => /\ Part # None /\ From = Part.from /\ Part.from < Part.to
                        /\ Part.to = blockStart
<1>1. report \in Reports /\ (AtStart \/ UnderWay)
  BY DEF IInv, SplitInv
<1>2. report # {} /\ report \subseteq Nat
  BY <1>1, SizeFacts
<1>3. blockStart \in Nat /\ partIndex \in PartNumbers /\ parts \in [PartNumbers -> Pieces]
  BY DEF IInv, TypeOK
<1>4. \A i \in PartNumbers : parts[i].from \in Nat /\ parts[i].to \in Nat
  BY <1>3 DEF Pieces
<1>5. AtStart => Part = None
  BY <1>3 DEF AtStart, Part
<1>6. UnderWay => /\ Part # None /\ From = Part.from /\ Part.from < Part.to
                  /\ Part.to = blockStart
  <2> SUFFICES ASSUME UnderWay
               PROVE  /\ Part # None /\ From = Part.from /\ Part.from < Part.to
                      /\ Part.to = blockStart
    OBVIOUS
  <2>1. partIndex \in 1 .. partIndex
    BY <1>3 DEF PartNumbers
  <2>2. /\ Part.of = report /\ Part.from < Part.to /\ Part.to = blockStart
    BY <2>1 DEF UnderWay, Part
  <2>3. Part # None
    BY <1>2, <2>2 DEF None, Piece
  <2>4. QED
    BY <2>2, <2>3 DEF From, Part
<1>7. From \in Nat /\ From <= blockStart
  <2>1. CASE AtStart
    BY <1>3, <1>5, <2>1 DEF From, Part
  <2>2. CASE UnderWay
    <3>1. Part.from \in Nat
      BY <1>3, <1>4 DEF Part
    <3>2. QED
      BY <1>3, <1>6, <2>2, <3>1
  <2>3. QED
    BY <1>1, <2>1, <2>2
<1>8. QED
  BY <1>1, <1>2, <1>3, <1>4, <1>5, <1>6, <1>7

(* A block that is longer than a part fits nowhere.                        *)
LEMMA BlockTooLongMisfits ==
  ASSUME IInv, pc = "split", blockStart < Size(report), BlockTooLong
  PROVE  ~Fits(report)
<1> SUFFICES ASSUME NEW c \in Cuts(report) PROVE FALSE
  BY DEF Fits
<1>1. /\ report \in Reports /\ blockStart \in Nat /\ partIndex \in PartNumbers
      /\ From \in Nat /\ From <= blockStart
  BY PartFacts
<1>2. PartCount \in Nat \ {0} /\ PartMax \in Nat \ {0}
  BY PartAssumption
<1>3. /\ BlockEnd \in Nat /\ BlockEnd - blockStart > PartMax
      /\ \A f \in report : f > blockStart => BlockEnd <= f
  BY <1>1, BlockEndFacts DEF BlockTooLong
<1> DEFINE At(i) == CutAt(report, c, i)
           Beyond == {i \in partIndex .. PartCount : At(i) > blockStart}
<1>4. /\ At(PartCount) = Size(report)
      /\ \A i \in 0 .. PartCount : At(i) \in report \union {0} /\ At(i) \in Nat
      /\ \A i \in PartNumbers : At(i) - At(i - 1) <= PartMax
  BY <1>1, CutFacts
<1>5. At(partIndex - 1) <= blockStart
  <2>1. At(partIndex - 1) <= From
    BY DEF IInv, SplitInv, Ahead
  <2>2. partIndex - 1 \in 0 .. PartCount
    BY <1>1, <1>2 DEF PartNumbers
  <2>3. At(partIndex - 1) \in Nat
    BY <1>4, <2>2
  <2> HIDE DEF At
  <2>4. QED
    BY <1>1, <2>1, <2>3
<1> HIDE DEF At
<1>6. Beyond \in SUBSET Nat /\ PartCount \in Beyond
  BY <1>1, <1>2, <1>4 DEF PartNumbers
<1>7. PICK m \in Beyond : \A i \in Beyond : m <= i
  BY <1>6, LeastNatural
<1>8. m \in PartNumbers /\ m \in 0 .. PartCount /\ m - 1 \in 0 .. PartCount /\ At(m) > blockStart
  BY <1>1, <1>2, <1>7 DEF PartNumbers
<1>9. At(m - 1) <= blockStart
  <2>1. CASE m = partIndex
    BY <1>5, <2>1
  <2>2. CASE m # partIndex
    <3>1. m - 1 \in partIndex .. PartCount /\ m - 1 \notin Beyond
      BY <1>1, <1>2, <1>7, <2>2 DEF PartNumbers
    <3>2. ~(At(m - 1) > blockStart)
      BY <3>1
    <3>3. At(m - 1) \in Nat
      BY <1>4, <1>8
    <3>4. QED
      BY <1>1, <3>2, <3>3
  <2>3. QED
    BY <2>1, <2>2
<1>10. At(m) \in report
  <2>1. At(m) \in report \union {0}
    BY <1>4, <1>8
  <2>2. At(m) # 0
    BY <1>1, <1>8
  <2>3. QED
    BY <2>1, <2>2
<1>11. BlockEnd <= At(m)
  BY <1>3, <1>8, <1>10
<1>12. At(m) - At(m - 1) <= PartMax /\ At(m) \in Nat /\ At(m - 1) \in Nat
  BY <1>4, <1>8
<1>13. QED
  BY <1>1, <1>2, <1>3, <1>9, <1>11, <1>12

(* When the last part is full, no other way to cut would have done.        *)
LEMMA FullMisfits ==
  ASSUME IInv, pc = "split", blockStart < Size(report), Overfull, partIndex = PartCount
  PROVE  ~Fits(report)
<1> SUFFICES ASSUME NEW c \in Cuts(report) PROVE FALSE
  BY DEF Fits
<1>1. /\ report \in Reports /\ blockStart \in Nat /\ partIndex \in PartNumbers
      /\ From \in Nat
  BY PartFacts
<1>2. PartCount \in Nat \ {0} /\ PartMax \in Nat \ {0}
  BY PartAssumption
<1>3. BlockEnd \in Nat /\ \A f \in report : f > blockStart => BlockEnd <= f
  BY <1>1, BlockEndFacts
<1>4. BlockEnd - From > PartMax
  <2>1. Part # None /\ Part.to - Part.from + (BlockEnd - blockStart) > PartMax
    BY DEF Overfull
  <2>2. From = Part.from /\ Part.to = blockStart
    BY <2>1, PartFacts DEF IInv, SplitInv
  <2>3. QED
    BY <1>1, <1>2, <1>3, <2>1, <2>2
<1>5. Size(report) \in report /\ Size(report) \in Nat
  BY <1>1, SizeFacts
<1>6. BlockEnd <= Size(report)
  BY <1>3, <1>5
<1>7. /\ CutAt(report, c, PartCount) = Size(report)
      /\ CutAt(report, c, PartCount) - CutAt(report, c, PartCount - 1) <= PartMax
  BY <1>1, <1>2, CutFacts DEF PartNumbers
<1>8. CutAt(report, c, PartCount - 1) <= From
  BY DEF IInv, SplitInv, Ahead
<1>9. CutAt(report, c, PartCount - 1) \in Nat
  <2>1. PartCount - 1 \in 0 .. PartCount
    BY <1>2
  <2>2. QED
    BY <1>1, <2>1, CutFacts
<1>10. QED
  BY <1>1, <1>2, <1>3, <1>4, <1>5, <1>6, <1>7, <1>8, <1>9

-----------------------------------------------------------------------------
(* The actions.                                                            *)

(* A refusal is justified and leaves what is shown alone.                  *)
LEMMA RefuseInvariant ==
  ASSUME IInv, pc = "split", Refuse, ~Fits(report)
  PROVE  IInv'
<1>1. /\ pc' = "idle" /\ generating' = FALSE /\ outcome' = "refused"
      /\ UNCHANGED <<report, blockStart, partIndex, parts, published, shown>>
  BY DEF Refuse
<1>2. TypeOK'
  BY <1>1 DEF IInv, TypeOK
<1>3. SplitInv' /\ PublishInv'
  BY <1>1 DEF SplitInv, PublishInv
<1>4. IdleInv'
  BY <1>1 DEF IdleInv, Fits, Cuts, CutAt
<1>5. OneReportShown'
  BY <1>1 DEF IInv, OneReportShown, Tiles
<1>6. QED
  BY <1>2, <1>3, <1>4, <1>5 DEF IInv

(* A block taken into the part being filled, or into the next one.         *)
LEMMA AppendInvariant ==
  ASSUME IInv, pc = "split", blockStart < Size(report), ~BlockTooLong,
         NEW i, NEW from, AppendTo(i, from),
         \/ ~Overfull /\ i = partIndex /\ from = (IF Part = None THEN blockStart ELSE Part.from)
         \/ Overfull /\ partIndex # PartCount /\ i = partIndex + 1 /\ from = blockStart
  PROVE  IInv'
<1>1. /\ report \in Reports /\ report # {} /\ report \subseteq Nat
      /\ blockStart \in Nat /\ partIndex \in PartNumbers
      /\ From \in Nat /\ From <= blockStart
      /\ AtStart \/ UnderWay
      /\ parts \in [PartNumbers -> Pieces] /\ generating /\ published = 0
  BY PartFacts DEF IInv, SplitInv, TypeOK
<1>2. PartCount \in Nat \ {0} /\ PartMax \in Nat \ {0}
  BY PartAssumption
<1>3. /\ BlockEnd \in report /\ BlockEnd \in Nat /\ BlockEnd > blockStart
      /\ \A f \in report : f > blockStart => BlockEnd <= f
      /\ BlockEnd - blockStart <= PartMax
  BY <1>1, <1>2, BlockEndFacts DEF BlockTooLong
<1>4. PICK end \in Nat : end = BlockEnd
  BY <1>3
<1> DEFINE piece == Piece(report, from, end)
<1>5. /\ parts' = [parts EXCEPT ![i] = piece] /\ partIndex' = i /\ blockStart' = end
      /\ UNCHANGED <<generating, pc, report, published, shown, outcome>>
  BY <1>4 DEF AppendTo
(* The piece is short enough and begins where the last one ends.           *)
<1>6. /\ i \in PartNumbers /\ from \in Nat /\ from < end /\ end - from <= PartMax
      /\ \/ i = partIndex /\ from = From
         \/ UnderWay /\ i = partIndex + 1 /\ from = blockStart
  <2>1. CASE ~Overfull /\ AtStart
    <3>1. Part = None /\ i = partIndex /\ from = blockStart /\ From = blockStart
      <4>1. Part = None
        BY <2>1, PartFacts
      <4>2. QED
        BY <2>1, <4>1 DEF From, Part, Overfull
    <3>2. QED
      BY <1>1, <1>2, <1>3, <1>4, <3>1
  <2>2. CASE ~Overfull /\ UnderWay
    <3>1. Part # None /\ From = Part.from /\ Part.to = blockStart
      BY <2>2, PartFacts
    <3>2. i = partIndex /\ from = From
      BY <2>2, <3>1
    <3>3. ~(Part.to - Part.from + (BlockEnd - blockStart) > PartMax)
      BY <2>2, <3>1 DEF Overfull
    <3>4. end - From <= PartMax /\ From < end
      BY <1>1, <1>2, <1>3, <1>4, <3>1, <3>3
    <3>5. QED
      BY <1>1, <3>2, <3>4
  <2>3. CASE Overfull
    <3>1. Part # None /\ i = partIndex + 1 /\ from = blockStart /\ partIndex # PartCount
      BY <2>3 DEF Overfull
    <3>2. UnderWay
      BY <1>1, <3>1, PartFacts
    <3>3. i \in PartNumbers
      BY <1>1, <1>2, <3>1 DEF PartNumbers
    <3>4. QED
      BY <1>1, <1>2, <1>3, <1>4, <3>1, <3>2, <3>3
  <2>4. QED
    BY <1>1, <2>1, <2>2, <2>3
<1>7. /\ piece \in Pieces /\ piece.of = report /\ piece.from = from /\ piece.to = end
      /\ piece # None
  BY <1>1, <1>4, <1>6 DEF Piece, Pieces, None
<1> HIDE DEF piece
<1>8. /\ parts'[i] = piece
      /\ \A j \in PartNumbers : j # i => parts'[j] = parts[j]
      /\ parts' \in [PartNumbers -> Pieces]
  BY <1>1, <1>5, <1>6, <1>7
<1>9. TypeOK'
  <2>1. blockStart' \in Nat /\ partIndex' \in PartNumbers
    BY <1>4, <1>5, <1>6
  <2>2. QED
    BY <1>5, <1>8, <2>1 DEF IInv, TypeOK
<1>10. UnderWay'
  <2>1. blockStart' \in report' /\ parts'[partIndex'].to = blockStart'
    BY <1>3, <1>4, <1>5, <1>7, <1>8
  <2>2. parts'[1].from = 0
    <3>1. CASE AtStart
      <4>1. i = 1 /\ from = 0
        <5>1. Part = None /\ ~UnderWay
          BY <3>1, PartFacts
        <5>2. From = blockStart
          BY <5>1 DEF From, Part
        <5>3. QED
          BY <1>6, <3>1, <5>1, <5>2 DEF AtStart
      <4>2. QED
        BY <1>7, <1>8, <4>1
    <3>2. CASE UnderWay /\ i = 1
      <4>1. partIndex = 1 /\ from = From
        BY <1>1, <1>2, <1>6, <3>2 DEF PartNumbers
      <4>2. From = parts[1].from
        BY <3>2, <4>1, PartFacts DEF Part
      <4>3. QED
        BY <1>7, <1>8, <3>2, <4>1, <4>2 DEF UnderWay
    <3>3. CASE UnderWay /\ i # 1
      <4>1. 1 \in PartNumbers
        BY <1>2 DEF PartNumbers
      <4>2. QED
        BY <1>8, <3>3, <4>1 DEF UnderWay
    <3>4. QED
      BY <1>1, <3>1, <3>2, <3>3
  (* All parts but the one appended to are those of before.                *)
  <2>3. ASSUME NEW j \in 1 .. i, j # i
        PROVE  /\ UnderWay /\ j \in 1 .. partIndex /\ j \in PartNumbers /\ parts'[j] = parts[j]
    <3>1. j \in PartNumbers /\ j \in 1 .. partIndex
      BY <1>1, <1>2, <1>6, <2>3 DEF PartNumbers
    <3>2. UnderWay
      <4>1. CASE AtStart
        BY <1>6, <2>3, <4>1 DEF AtStart
      <4>2. QED
        BY <1>1, <4>1
    <3>3. QED
      BY <1>8, <2>3, <3>1, <3>2
  <2>4. \A j \in 1 .. i :
          /\ parts'[j].of = report /\ parts'[j].to \in report
          /\ parts'[j].from < parts'[j].to /\ parts'[j].to - parts'[j].from <= PartMax
    <3> TAKE j \in 1 .. i
    <3>1. CASE j = i
      BY <1>3, <1>4, <1>6, <1>7, <1>8, <3>1
    <3>2. CASE j # i
      BY <2>3, <3>2 DEF UnderWay
    <3>3. QED
      BY <3>1, <3>2
  <2>5. \A j \in 1 .. i - 1 : parts'[j + 1].from = parts'[j].to
    <3> TAKE j \in 1 .. i - 1
    <3>1. /\ j \in 1 .. i /\ j # i /\ j + 1 \in 1 .. i /\ j \in Nat
      BY <1>6 DEF PartNumbers
    <3>2. UnderWay /\ j \in 1 .. partIndex /\ parts'[j] = parts[j]
      BY <2>3, <3>1
    <3>3. CASE j + 1 = i /\ i = partIndex
      <4>1. parts'[i].from = From
        BY <1>1, <1>6, <1>7, <1>8, <3>3 DEF PartNumbers
      <4>2. From = parts[partIndex].from
        BY <3>2, PartFacts DEF Part
      <4>3. j \in 1 .. partIndex - 1
        BY <1>1, <3>1, <3>3 DEF PartNumbers
      <4>4. parts[j + 1].from = parts[j].to
        BY <3>2, <4>3 DEF UnderWay
      <4>5. QED
        BY <3>2, <3>3, <4>1, <4>2, <4>4
    <3>4. CASE j + 1 = i /\ i # partIndex
      <4>1. i = partIndex + 1 /\ from = blockStart
        BY <1>6, <3>4
      <4>2. j = partIndex
        BY <1>1, <3>1, <3>4, <4>1 DEF PartNumbers
      <4>3. QED
        BY <1>7, <1>8, <3>2, <3>4, <4>1, <4>2 DEF UnderWay
    <3>5. CASE j + 1 # i
      <4>1. parts'[j + 1] = parts[j + 1] /\ j + 1 \in 1 .. partIndex
        BY <2>3, <3>1, <3>5
      <4>2. j \in 1 .. partIndex - 1
        BY <1>1, <3>1, <4>1 DEF PartNumbers
      <4>3. parts[j + 1].from = parts[j].to
        BY <3>2, <4>2 DEF UnderWay
      <4>4. QED
        BY <3>2, <4>1, <4>3
    <3>6. QED
      BY <3>3, <3>4, <3>5
  <2>6. \A j \in i + 1 .. PartCount : parts'[j] = None
    <3> TAKE j \in i + 1 .. PartCount
    <3>1. /\ j \in PartNumbers /\ j # i /\ j \in partIndex + 1 .. PartCount
      BY <1>1, <1>2, <1>6 DEF PartNumbers
    <3>2. parts[j] = None
      BY <1>1, <3>1 DEF AtStart, UnderWay
    <3>3. QED
      BY <1>8, <3>1, <3>2
  <2>7. QED
    BY <1>5, <2>1, <2>2, <2>4, <2>5, <2>6 DEF UnderWay
<1>11. Ahead'
  <2> SUFFICES ASSUME NEW c \in Cuts(report)
               PROVE  CutAt(report, c, i - 1) <= from
    BY <1>5, <1>7, <1>8 DEF Ahead, From, Cuts, CutAt
  <2>1. CutAt(report, c, partIndex - 1) <= From
    BY DEF IInv, SplitInv, Ahead
  <2>2. CASE i = partIndex /\ from = From
    BY <2>1, <2>2
  <2>3. CASE UnderWay /\ i = partIndex + 1 /\ from = blockStart
    <3>1. /\ partIndex - 1 \in 0 .. PartCount /\ partIndex \in 0 .. PartCount
          /\ i - 1 = partIndex /\ partIndex # PartCount
      BY <1>1, <1>2, <1>6, <2>3 DEF PartNumbers
    <3>2. PICK a \in Nat : a = CutAt(report, c, partIndex - 1)
      BY <1>1, <3>1, CutFacts
    <3>3. PICK b \in report \union {0} : b = CutAt(report, c, partIndex)
      BY <1>1, <3>1, CutFacts
    <3>4. b - a <= PartMax
      BY <1>1, <3>2, <3>3, CutFacts
    <3>5. end - From > PartMax
      <4>1. Part # None /\ Part.to - Part.from + (BlockEnd - blockStart) > PartMax
        <5>1. Overfull
          BY <1>1, <2>3 DEF PartNumbers
        <5>2. QED
          BY <5>1 DEF Overfull
      <4>2. From = Part.from /\ Part.to = blockStart
        BY <2>3, PartFacts
      <4>3. QED
        BY <1>1, <1>2, <1>3, <1>4, <4>1, <4>2
    <3>6. b \in Nat
      BY <1>1
    <3>7. b < end
      BY <1>1, <1>2, <2>1, <3>2, <3>4, <3>5, <3>6
    <3>8. b <= blockStart
      <4>1. CASE b = 0
        BY <1>1, <4>1
      <4>2. CASE b \in report
        BY <1>1, <1>3, <1>4, <3>6, <3>7, <4>2
      <4>3. QED
        BY <4>1, <4>2
    <3>9. QED
      BY <2>3, <3>1, <3>3, <3>8
  <2>4. QED
    BY <1>6, <2>2, <2>3
<1>12. SplitInv' /\ PublishInv' /\ IdleInv'
  BY <1>1, <1>5, <1>10, <1>11 DEF SplitInv, PublishInv, IdleInv
<1>13. OneReportShown'
  BY <1>5 DEF IInv, OneReportShown, Tiles
<1>14. QED
  BY <1>9, <1>12, <1>13 DEF IInv

(* Taking a block keeps the invariant: the greedy part never ends before    *)
(* another split's.                                                         *)
LEMMA TakeBlockInvariant == IInv /\ TakeBlock => IInv'
<1> SUFFICES ASSUME IInv, TakeBlock PROVE IInv'
  OBVIOUS
<1>1. pc = "split" /\ blockStart < Size(report)
  BY DEF TakeBlock
<1>2. CASE BlockTooLong
  <2>1. Refuse
    BY <1>2 DEF TakeBlock
  <2>2. QED
    BY <1>1, <1>2, <2>1, BlockTooLongMisfits, RefuseInvariant
<1>3. CASE ~BlockTooLong /\ ~Overfull
  <2>1. AppendTo(partIndex, IF Part = None THEN blockStart ELSE Part.from)
    BY <1>3 DEF TakeBlock
  <2>2. QED
    BY <1>1, <1>3, <2>1, AppendInvariant
<1>4. CASE ~BlockTooLong /\ Overfull /\ partIndex = PartCount
  <2>1. Refuse
    BY <1>4 DEF TakeBlock
  <2>2. QED
    BY <1>1, <1>4, <2>1, FullMisfits, RefuseInvariant
<1>5. CASE ~BlockTooLong /\ Overfull /\ partIndex # PartCount
  <2>1. AppendTo(partIndex + 1, blockStart)
    BY <1>5 DEF TakeBlock
  <2>2. QED
    BY <1>1, <1>5, <2>1, AppendInvariant
<1>6. QED
  BY <1>2, <1>3, <1>4, <1>5

(* The split has reached the end of the report.                            *)
LEMMA EndSplitInvariant == IInv /\ EndSplit => IInv'
<1> SUFFICES ASSUME IInv, EndSplit PROVE IInv'
  OBVIOUS
<1>1. /\ pc = "split" /\ pc' = "publish" /\ blockStart >= Size(report)
      /\ UNCHANGED <<generating, report, blockStart, partIndex, parts, published, shown, outcome>>
  BY DEF EndSplit
<1>2. /\ report \in Reports /\ blockStart \in Nat /\ partIndex \in PartNumbers
      /\ generating /\ published = 0
      /\ AtStart \/ UnderWay
  BY <1>1, PartFacts DEF IInv, SplitInv
<1>3. /\ report \subseteq Nat /\ 0 \notin report
      /\ Size(report) \in report /\ \A f \in report : f <= Size(report)
  BY <1>2, SizeFacts
<1>4. UnderWay
  <2>1. Size(report) \in Nat /\ Size(report) # 0
    BY <1>3
  <2>2. ~AtStart
    BY <1>1, <2>1 DEF AtStart
  <2>3. QED
    BY <1>2, <2>2
<1>5. blockStart = Size(report)
  <2>1. blockStart <= Size(report) /\ Size(report) \in Nat
    BY <1>3, <1>4 DEF UnderWay
  <2>2. QED
    BY <1>1, <1>2, <2>1
<1>6. Tiles(parts, report)
  BY <1>2, <1>4, <1>5 DEF Tiles, UnderWay
<1>7. TypeOK'
  BY <1>1 DEF IInv, TypeOK
<1>8. SplitInv' /\ IdleInv' /\ OneReportShown'
  BY <1>1 DEF SplitInv, IdleInv, OneReportShown
<1>9. PublishInv'
  <2>1. Tiles(parts', report')
    BY <1>1, <1>6 DEF Tiles
  <2>2. \A i \in 1 .. published' : FALSE
    BY <1>1, <1>2
  <2>3. QED
    BY <1>1, <1>2, <2>1, <2>2 DEF PublishInv
<1>10. QED
  BY <1>7, <1>8, <1>9 DEF IInv

(* A request, ignored or not.                                              *)
LEMMA RequestInvariant == IInv /\ Request => IInv'
<1> SUFFICES ASSUME IInv, Request PROVE IInv'
  OBVIOUS
<1>1. CASE UNCHANGED vars
  BY <1>1 DEF vars, IInv, TypeOK, SplitInv, AtStart, UnderWay, Ahead, From, Cuts, CutAt,
     PublishInv, IdleInv, Fits, OneReportShown, Tiles
<1>2. CASE ~UNCHANGED vars
  <2>1. /\ ~generating /\ report' \in Reports /\ generating' = TRUE /\ pc' = "split"
        /\ blockStart' = 0 /\ partIndex' = 1 /\ parts' = [i \in PartNumbers |-> None]
        /\ published' = 0 /\ UNCHANGED <<shown, outcome>>
        /\ pc \in {"idle", "publish"}
    BY <1>2 DEF Request, BeginGeneration
  <2>2. pc = "idle"
    BY <2>1 DEF IInv, PublishInv
  <2>3. TypeOK'
    <3>1. blockStart' \in Nat /\ partIndex' \in PartNumbers /\ published' \in 0 .. PartCount
      BY <2>1, PartAssumption DEF PartNumbers
    <3>2. parts' \in [PartNumbers -> Pieces] /\ shown' \in [PartNumbers -> Pieces]
      BY <2>1, NoneType DEF IInv, TypeOK
    <3>3. /\ generating' \in BOOLEAN /\ pc' \in {"idle", "split", "publish"}
          /\ report' \in Reports \union {{}}
          /\ outcome' \in {"none", "generated", "refused"}
      BY <2>1 DEF IInv, TypeOK
    <3>4. QED
      BY <3>1, <3>2, <3>3, Zenon DEF TypeOK
  <2>4. AtStart'
    BY <2>1 DEF AtStart
  <2>5. Ahead'
    <3> SUFFICES ASSUME NEW c \in Cuts(report')
                 PROVE  CutAt(report', c, partIndex' - 1) <= From'
      BY DEF Ahead
    <3>1. From' = 0
      <4>1. 1 \in PartNumbers
        BY PartAssumption DEF PartNumbers
      <4>2. parts'[partIndex'] = None /\ blockStart' = 0
        BY <2>1, <4>1
      <4>3. QED
        BY <4>2 DEF From
    <3>2. CutAt(report', c, partIndex' - 1) = 0
      BY <2>1 DEF CutAt
    <3>3. QED
      BY <3>1, <3>2
  <2>6. SplitInv'
    BY <2>1, <2>4, <2>5 DEF SplitInv
  <2>7. PublishInv' /\ IdleInv' /\ OneReportShown'
    BY <2>1, <2>2 DEF IInv, PublishInv, IdleInv, OneReportShown, Tiles
  <2>8. QED
    BY <2>3, <2>6, <2>7 DEF IInv
<1>3. QED
  BY <1>1, <1>2

(* Publishing a part keeps it.                                              *)
LEMMA PublishPartInvariant == IInv /\ PublishPart => IInv'
<1> SUFFICES ASSUME IInv, PublishPart PROVE IInv'
  OBVIOUS
<1>1. /\ pc = "publish" /\ published < PartCount /\ published' = published + 1
      /\ shown' = [shown EXCEPT ![published + 1] = parts[published + 1]]
      /\ UNCHANGED <<generating, pc, report, blockStart, partIndex, parts, outcome>>
  BY DEF PublishPart
<1>2. /\ published \in 0 .. PartCount /\ PartCount \in Nat
      /\ shown \in [PartNumbers -> Pieces] /\ parts \in [PartNumbers -> Pieces]
  BY PartAssumption DEF IInv, TypeOK
<1>3. published + 1 \in PartNumbers /\ published' \in 0 .. PartCount
  BY <1>1, <1>2 DEF PartNumbers
<1>4. shown' \in [PartNumbers -> Pieces]
  BY <1>1, <1>2, <1>3
<1>5. TypeOK'
  BY <1>1, <1>3, <1>4 DEF IInv, TypeOK
<1>6. \A i \in 1 .. published' : shown'[i] = parts'[i]
  <2> TAKE i \in 1 .. published'
  <2>1. i \in PartNumbers /\ (i # published + 1 => i \in 1 .. published)
    BY <1>1, <1>2 DEF PartNumbers
  <2>2. CASE i = published + 1
    BY <1>1, <1>2, <1>3, <2>2
  <2>3. CASE i # published + 1
    BY <1>1, <1>2, <2>1, <2>3 DEF IInv, PublishInv
  <2>4. QED
    BY <2>2, <2>3
<1>7. PublishInv'
  BY <1>1, <1>6 DEF IInv, PublishInv, Tiles
<1>8. SplitInv' /\ IdleInv' /\ OneReportShown'
  BY <1>1 DEF SplitInv, IdleInv, OneReportShown
<1>9. QED
  BY <1>5, <1>7, <1>8 DEF IInv

(* The three entities show what the parts hold.                            *)
LEMMA FinishInvariant == IInv /\ FinishGeneration => IInv'
<1> SUFFICES ASSUME IInv, FinishGeneration PROVE IInv'
  OBVIOUS
<1>1. /\ pc = "publish" /\ published = PartCount
      /\ pc' = "idle" /\ generating' = FALSE /\ outcome' = "generated"
      /\ UNCHANGED <<report, blockStart, partIndex, parts, published, shown>>
  BY DEF FinishGeneration
<1>2. TypeOK'
  BY <1>1 DEF IInv, TypeOK
<1>3. SplitInv' /\ PublishInv' /\ IdleInv'
  BY <1>1 DEF SplitInv, PublishInv, IdleInv
<1>4. OneReportShown'
  <2>1. /\ Tiles(parts, report) /\ \A i \in PartNumbers : shown[i] = parts[i]
        /\ parts \in [PartNumbers -> Pieces] /\ shown \in [PartNumbers -> Pieces]
    BY <1>1 DEF IInv, PublishInv, TypeOK, PartNumbers
  <2>2. shown = parts
    BY <2>1
  <2>3. parts[1].of = report
    <3>1. PICK last \in PartNumbers : \A i \in 1 .. last : parts[i].of = report
      BY <2>1 DEF Tiles
    <3>2. 1 \in 1 .. last
      BY <3>1 DEF PartNumbers
    <3>3. QED
      BY <3>1, <3>2
  <2>4. Tiles(shown, shown[1].of)
    BY <2>1, <2>2, <2>3
  <2>5. QED
    BY <1>1, <2>4 DEF OneReportShown, Tiles
<1>5. QED
  BY <1>2, <1>3, <1>4 DEF IInv

(* The invariant is inductive.                                             *)
LEMMA Invariance == Spec => []IInv
<1>1. IInv /\ [Next]_vars => IInv'
  <2> SUFFICES ASSUME IInv, [Next]_vars PROVE IInv'
    OBVIOUS
  <2>1. CASE Next
    BY <2>1, RequestInvariant, TakeBlockInvariant, EndSplitInvariant, PublishPartInvariant,
       FinishInvariant DEF Next
  <2>2. CASE UNCHANGED vars
    BY <2>2 DEF vars, IInv, TypeOK, SplitInv, AtStart, UnderWay, Ahead, From, Cuts, CutAt,
       PublishInv, IdleInv, Fits, OneReportShown, Tiles
  <2>3. QED
    BY <2>1, <2>2
<1>2. QED
  BY InitInvariant, <1>1, PTL DEF Spec

-----------------------------------------------------------------------------
(* The generator and the entities keep their types.                        *)
THEOREM TypeCorrect == Spec => []TypeOK
<1>1. IInv => TypeOK
  BY DEF IInv
<1>2. QED
  BY Invariance, <1>1, PTL

(* split_report() refuses a report only if no way to cut it between its     *)
(* blocks into the parts exists, and cuts it whole otherwise.              *)
THEOREM GreedyIsExact == Spec => []SplitExact
<1>1. IInv => SplitExact
  BY DEF IInv, IdleInv, PublishInv, SplitExact
<1>2. QED
  BY Invariance, <1>1, PTL

(* Between publications the entities show one whole report, or none yet.   *)
THEOREM NeverMixed == Spec => []OneReportShown
<1>1. IInv => OneReportShown
  BY DEF IInv
<1>2. QED
  BY Invariance, <1>1, PTL

(* A step of a request leaves fewer to take.                                *)
LEMMA RequestProgress ==
  ASSUME IInv, pc # "idle", Next, ~UNCHANGED vars
  PROVE  Remaining' \in 0 .. Remaining - 1
<1> USE PartAssumption
<1>1. CASE Request
  <2>1. pc = "publish" /\ generating
    BY <1>1 DEF Request, IInv, TypeOK, PublishInv
  <2>2. QED
    BY <1>1, <2>1 DEF Request, BeginGeneration
<1>2. CASE TakeBlock
  <2>1. pc = "split" /\ blockStart < Size(report)
    BY <1>2 DEF TakeBlock
  <2>2. report \in Reports /\ blockStart \in Nat /\ Size(report) \in Nat
    <3>1. report \in Reports /\ blockStart \in Nat
      BY <2>1, PartFacts DEF IInv, SplitInv
    <3>2. QED
      BY <3>1, SizeFacts
  <2>3. Remaining = Size(report) - blockStart + PartCount + 2
    BY <2>1 DEF Remaining
  <2>4. CASE Refuse
    BY <2>1, <2>2, <2>3, <2>4 DEF Refuse, Remaining
  <2>5. CASE \E i, from : AppendTo(i, from)
    <3>1. blockStart' = BlockEnd /\ pc' = "split" /\ report' = report
      BY <2>1, <2>5 DEF AppendTo
    <3>2. BlockEnd \in Nat /\ BlockEnd > blockStart /\ BlockEnd <= Size(report)
      BY <2>1, <2>2, BlockEndFacts, SizeFacts
    <3>3. Remaining' = Size(report) - BlockEnd + PartCount + 2
      BY <3>1 DEF Remaining, Size
    <3>4. QED
      BY <2>2, <2>3, <3>2, <3>3
  <2>6. QED
    BY <1>2, <2>4, <2>5 DEF TakeBlock
<1>3. CASE EndSplit
  <2>1. pc = "split" /\ pc' = "publish" /\ published' = published
    BY <1>3 DEF EndSplit
  <2>2. /\ report \in Reports /\ blockStart \in Nat /\ published = 0
        /\ AtStart \/ UnderWay
    BY <2>1, PartFacts DEF IInv, SplitInv
  <2>3. Size(report) \in Nat /\ blockStart <= Size(report)
    BY <2>2, SizeFacts DEF AtStart, UnderWay
  <2>4. QED
    BY <2>1, <2>2, <2>3 DEF Remaining
<1>4. CASE PublishPart
  BY <1>4 DEF PublishPart, Remaining, IInv, TypeOK
<1>5. CASE FinishGeneration
  BY <1>5 DEF FinishGeneration, Remaining
<1>6. QED
  BY <1>1, <1>2, <1>3, <1>4, <1>5 DEF Next

(* The generator is busy exactly while something remains to do.             *)
Busy == generating <=> Remaining > 0

LEMMA BusyWhileRemaining == IInv => Busy
<1> SUFFICES ASSUME IInv PROVE generating <=> Remaining > 0
  BY DEF Busy
<1> USE PartAssumption
<1>1. CASE pc = "split"
  <2>1. /\ generating /\ report \in Reports /\ blockStart \in Nat
        /\ AtStart \/ UnderWay
    BY <1>1, PartFacts DEF IInv, SplitInv
  <2>2. Size(report) \in Nat /\ blockStart <= Size(report)
    BY <2>1, SizeFacts DEF AtStart, UnderWay
  <2>3. QED
    BY <1>1, <2>1, <2>2 DEF Remaining
<1>2. CASE pc = "publish"
  <2>1. generating /\ published \in 0 .. PartCount
    BY <1>2 DEF IInv, TypeOK, PublishInv
  <2>2. QED
    BY <1>2, <2>1 DEF Remaining
<1>3. CASE pc = "idle"
  BY <1>3 DEF Remaining, IInv, IdleInv
<1>4. QED
  BY <1>1, <1>2, <1>3 DEF IInv, TypeOK

(* What GenerationProgress says of a step of a request.                     *)
FewerRemain == Remaining' \in 0 .. Remaining - 1 /\ (generating' <=> Remaining' > 0)

(* Every request ends, whatever the report and however often the button is  *)
(* pressed meanwhile: each of its steps brings the end nearer.              *)
THEOREM RequestsEnd == Spec => GenerationProgress
<1>1. IInv /\ Busy' /\ [Next]_vars => [pc # "idle" => FewerRemain]_vars
  <2> SUFFICES ASSUME IInv, Busy', Next, pc # "idle", ~UNCHANGED vars
               PROVE  FewerRemain
    OBVIOUS
  <2>1. Remaining' \in 0 .. Remaining - 1
    BY RequestProgress
  <2>2. QED
    BY <2>1 DEF FewerRemain, Busy
<1>2. GenerationProgress <=> [][pc # "idle" => FewerRemain]_vars
  BY PTL DEF GenerationProgress, FewerRemain
<1>3. QED
  BY Invariance, BusyWhileRemaining, <1>1, <1>2, PTL DEF Spec

-----------------------------------------------------------------------------
(* The reports of the firmware.                                            *)

(* A definition by recursion over the blocks defines a function: the sums   *)
(* of the lengths up to each block.                                         *)
LEMMA EndsDefined ==
  ASSUME NEW lengths \in Seq(Nat)
  PROVE  /\ EndsOf(lengths) \in [0 .. Len(lengths) -> Nat]
         /\ EndsOf(lengths)[0] = 0
         /\ \A k \in 1 .. Len(lengths) :
              EndsOf(lengths)[k] = EndsOf(lengths)[k - 1] + lengths[k]
<1> DEFINE Sums(f, n) == f = [k \in 0 .. n |-> IF k = 0 THEN 0 ELSE f[k - 1] + lengths[k]]
           Missing == {n \in 0 .. Len(lengths) : ~\E f \in [0 .. n -> Nat] : Sums(f, n)}
<1>1. Missing = {}
  <2> SUFFICES ASSUME Missing # {} PROVE FALSE
    OBVIOUS
  <2>1. PICK n \in Missing : \A m \in Missing : n <= m
    <3>1. Missing \in SUBSET Nat
      OBVIOUS
    <3> HIDE DEF Missing
    <3>2. QED
      BY <3>1, LeastNatural
  <2>2. n \in 0 .. Len(lengths) /\ ~\E f \in [0 .. n -> Nat] : Sums(f, n)
    OBVIOUS
  <2>3. n # 0
    <3>1. [k \in 0 .. 0 |-> 0] \in [0 .. 0 -> Nat] /\ Sums([k \in 0 .. 0 |-> 0], 0)
      OBVIOUS
    <3>2. QED
      BY <2>2, <3>1
  <2>4. n - 1 \in 0 .. Len(lengths) /\ n - 1 \notin Missing
    <3>1. n - 1 \in 0 .. Len(lengths) /\ ~(n <= n - 1)
      BY <2>2, <2>3
    <3> HIDE DEF Missing
    <3>2. QED
      BY <2>1, <3>1
  <2>5. PICK f \in [0 .. n - 1 -> Nat] : Sums(f, n - 1)
    BY <2>4
  <2> DEFINE g == [k \in 0 .. n |-> IF k = n THEN f[n - 1] + lengths[n] ELSE f[k]]
  <2>6. lengths[n] \in Nat /\ f[n - 1] \in Nat
    BY <2>2, <2>3
  <2>7. g \in [0 .. n -> Nat]
    BY <2>2, <2>3, <2>6
  <2>8. Sums(g, n)
    <3>1. \A k \in 0 .. n : g[k] = IF k = 0 THEN 0 ELSE g[k - 1] + lengths[k]
      <4> TAKE k \in 0 .. n
      <4>1. CASE k = n
        BY <2>2, <2>3, <4>1
      <4>2. CASE k # n
        <5>1. k \in 0 .. n - 1 /\ g[k] = f[k]
          BY <2>2, <4>2
        <5>2. f[k] = IF k = 0 THEN 0 ELSE f[k - 1] + lengths[k]
          BY <2>5, <5>1, Zenon
        <5>3. k # 0 => g[k - 1] = f[k - 1]
          BY <2>2, <5>1
        <5>4. QED
          BY <5>1, <5>2, <5>3
      <4>3. QED
        BY <4>1, <4>2
    <3>2. g = [k \in 0 .. n |-> g[k]]
      BY <2>7
    <3>3. QED
      BY <3>1, <3>2
  <2>9. QED
    BY <2>2, <2>7, <2>8
<1>2. PICK f \in [0 .. Len(lengths) -> Nat] : Sums(f, Len(lengths))
  <2>1. Len(lengths) \in 0 .. Len(lengths)
    OBVIOUS
  <2>2. QED
    BY <1>1, <2>1
<1> DEFINE n == Len(lengths)
<1>3. EndsOf(lengths) = [k \in 0 .. n |-> IF k = 0 THEN 0
                                          ELSE EndsOf(lengths)[k - 1] + lengths[k]]
  <2>1. EndsOf(lengths) =
          CHOOSE end : end = [k \in 0 .. Len(lengths) |->
                                IF k = 0 THEN 0 ELSE end[k - 1] + lengths[k]]
    BY Zenon DEF EndsOf
  <2>2. QED
    BY <1>2, <2>1, Zenon
<1> DEFINE ends == EndsOf(lengths)
<1>4. \A k \in 0 .. Len(lengths) : ends[k] = IF k = 0 THEN 0 ELSE ends[k - 1] + lengths[k]
  <2> HIDE DEF ends
  <2>1. ends = [k \in 0 .. n |-> IF k = 0 THEN 0 ELSE ends[k - 1] + lengths[k]]
    BY <1>3, Zenon DEF ends
  <2>2. QED
    BY <2>1, Zenon
<1>5. \A k \in 0 .. Len(lengths) : ends[k] \in Nat
  <2> DEFINE Untyped == {k \in 0 .. Len(lengths) : ends[k] \notin Nat}
  <2> SUFFICES ASSUME Untyped # {} PROVE FALSE
    OBVIOUS
  <2> HIDE DEF ends
  <2>1. PICK k \in Untyped : \A m \in Untyped : k <= m
    <3>1. Untyped \in SUBSET Nat
      OBVIOUS
    <3> HIDE DEF Untyped
    <3>2. QED
      BY <3>1, LeastNatural
  <2>2. k \in 0 .. Len(lengths) /\ ends[k] \notin Nat
    OBVIOUS
  <2>3. k # 0
    BY <1>4, <2>2
  <2>4. k - 1 \in 0 .. Len(lengths) /\ ends[k - 1] \in Nat
    BY <2>1, <2>2, <2>3
  <2>5. ends[k] = ends[k - 1] + lengths[k] /\ lengths[k] \in Nat
    BY <1>4, <2>2, <2>3
  <2>6. QED
    BY <2>2, <2>4, <2>5
<1>6. ends \in [0 .. Len(lengths) -> Nat]
  <2> HIDE DEF ends
  <2>1. ends = [k \in 0 .. n |-> IF k = 0 THEN 0 ELSE ends[k - 1] + lengths[k]]
    BY <1>3, Zenon DEF ends
  <2>2. ends = [k \in 0 .. Len(lengths) |-> ends[k]]
    BY <1>4, <2>1
  <2>3. QED
    BY <1>5, <2>2
<1>7. QED
  <2> HIDE DEF ends
  <2>1. ends[0] = 0 /\ \A k \in 1 .. Len(lengths) : ends[k] = ends[k - 1] + lengths[k]
    BY <1>4
  <2>2. QED
    BY <1>6, <2>1, Zenon DEF ends

(* Whatever texts are formatted, if none is empty the report is one the     *)
(* generator is proved about: ReportAssumption is no restriction.           *)
LEMMA FormattedReports ==
  ASSUME NEW lengths \in Seq(Nat \ {0}), lengths # << >>
  PROVE  /\ BlockEnds(lengths) \subseteq Nat \ {0}
         /\ \E e \in BlockEnds(lengths) : \A f \in BlockEnds(lengths) : f <= e
<1> DEFINE n == Len(lengths)
           e == EndsOf(lengths)
<1>1. /\ n \in Nat \ {0} /\ lengths \in Seq(Nat)
      /\ \A k \in 1 .. n : lengths[k] \in Nat \ {0}
  OBVIOUS
<1>2. e \in [0 .. n -> Nat] /\ \A k \in 1 .. n : e[k] = e[k - 1] + lengths[k]
  BY <1>1, EndsDefined
<1>3. BlockEnds(lengths) = {e[k] : k \in 1 .. n}
  BY DEF BlockEnds
<1> HIDE DEF n, e
<1>4. \A k \in 1 .. n : e[k] \in Nat \ {0} /\ e[k - 1] < e[k]
  <2> TAKE k \in 1 .. n
  <2>1. k \in 0 .. n /\ k - 1 \in 0 .. n
    BY <1>1
  <2>2. e[k] \in Nat /\ e[k - 1] \in Nat /\ e[k] = e[k - 1] + lengths[k]
    BY <1>2, <2>1
  <2>3. lengths[k] \in Nat \ {0}
    BY <1>1
  <2>4. QED
    BY <2>2, <2>3
<1>5. \A k \in 1 .. n : e[k] <= e[n]
  <2> DEFINE Above == {d \in 0 .. n - 1 : ~(e[n - d] <= e[n])}
  <2>1. Above = {}
    <3> SUFFICES ASSUME Above # {} PROVE FALSE
      OBVIOUS
    <3>1. Above \in SUBSET Nat
      BY <1>1
    <3>2. PICK d \in Above : \A x \in Above : d <= x
      <4> HIDE DEF Above
      <4> QED
        BY <3>1, LeastNatural
    <3>3. d \in 0 .. n - 1 /\ ~(e[n - d] <= e[n])
      OBVIOUS
    <3>4. d # 0
      BY <1>1, <1>4, <3>3
    <3>5. d - 1 \in 0 .. n - 1 /\ d - 1 \notin Above
      <4>1. d - 1 \in 0 .. n - 1 /\ ~(d <= d - 1)
        BY <1>1, <3>3, <3>4
      <4> HIDE DEF Above
      <4>2. QED
        BY <3>2, <4>1
    <3>6. e[n - (d - 1)] <= e[n]
      BY <3>5
    <3>7. /\ n - (d - 1) \in 1 .. n /\ (n - (d - 1)) - 1 = n - d
          /\ n - d \in 1 .. n
      BY <1>1, <3>3, <3>4
    <3>8. e[n - d] < e[n - (d - 1)] /\ e[n - d] \in Nat /\ e[n - (d - 1)] \in Nat /\ e[n] \in Nat
      BY <1>1, <1>4, <3>7
    <3>9. QED
      BY <3>3, <3>6, <3>8
  <2>2. TAKE k \in 1 .. n
  <2>3. n - k \in 0 .. n - 1 /\ n - (n - k) = k
    BY <1>1
  <2>4. QED
    BY <2>1, <2>3
<1>6. e[n] \in BlockEnds(lengths)
  BY <1>1, <1>3
<1>7. QED
  BY <1>3, <1>4, <1>5, <1>6

(* The blocks of a report of the firmware and where they end.               *)
LEMMA FirmwareBlocks ==
  ASSUME NEW s, Ordinary(s)
  PROVE  LET l == BlockLengths(s)
         IN  /\ l \in Seq(Nat) /\ Len(l) = 19
             /\ \A k \in 1 .. 19 : l[k] \in Nat
             /\ l[1] + l[2] + l[3] + l[4] <= 169
             /\ l[5] + l[6] + l[7] + l[8] + l[9] + l[10] + l[11] <= 202
             /\ l[12] + l[13] + l[14] + l[15] + l[16] + l[17] + l[18] + l[19] <= 217
<1>1. /\ HealthLength(s.parser) \in {7, 9} /\ HealthLength(s.wifi) \in {7, 9}
      /\ OnlineLength(s.api) \in {6, 7} /\ TestLength(s.test) \in {4, 7}
  BY DEF HealthLength, OnlineLength, TestLength
<1>2. /\ s.version \in 1 .. 10 /\ s.reset \in 1 .. 18
      /\ s.counters[1] \in 1 .. 4 /\ s.counters[2] \in 1 .. 4
      /\ s.counters[3] \in 1 .. 4 /\ s.counters[4] \in 1 .. 4
  BY DEF Ordinary
<1>3. OutageLength(s.outages[1]) \in 7 .. 15 /\ OutageLength(s.outages[2]) \in 7 .. 15
  <2>1. s.outages[1] \in 0 .. 7 /\ s.outages[2] \in 0 .. 7
    BY DEF Ordinary
  <2>2. QED
    BY <2>1 DEF OutageLength
<1> DEFINE l == BlockLengths(s)
<1>4. /\ l[1] = 99 /\ l[2] = 17 /\ l[3] = 25 /\ l[4] = s.version + 18 /\ l[5] = 60 /\ l[6] = 27
      /\ l[7] = s.reset + 15 /\ l[8] = HealthLength(s.parser) + 9
      /\ l[9] = HealthLength(s.wifi) + 7 /\ l[10] = OnlineLength(s.api) + 17
      /\ l[11] = TestLength(s.test) + 17 /\ l[12] = s.counters[1] + 16
      /\ l[13] = s.counters[2] + 14 /\ l[14] = s.counters[3] + 17
      /\ l[15] = s.counters[4] + 21 /\ l[16] = OutageLength(s.outages[1]) + 21
      /\ l[17] = OutageLength(s.outages[2]) + 19 /\ l[18] = 29 /\ l[19] = 34
  BY <1>1, <1>2, <1>3 DEF BlockLengths, Field
<1>5. Len(l) = 19 /\ l = [k \in 1 .. 19 |-> l[k]]
  BY DEF BlockLengths
<1>6. \A k \in 1 .. 19 : l[k] \in Nat \ {0}
  <2> HIDE DEF l
  <2> QED
    BY <1>1, <1>2, <1>3, <1>4
<1>7. l \in Seq(Nat)
  <2> HIDE DEF l
  <2> QED
    BY <1>5, <1>6
<1>8. /\ l[1] + l[2] + l[3] + l[4] <= 169
      /\ l[5] + l[6] + l[7] + l[8] + l[9] + l[10] + l[11] <= 202
      /\ l[12] + l[13] + l[14] + l[15] + l[16] + l[17] + l[18] + l[19] <= 217
  <2> HIDE DEF l
  <2> QED
    BY <1>1, <1>2, <1>3, <1>4
<1>9. QED
  BY <1>5, <1>6, <1>7, <1>8

(* The end of every block of a report of the firmware, and of its last.     *)
LEMMA FirmwareEnds ==
  ASSUME NEW s, Ordinary(s)
  PROVE  LET e == EndsOf(BlockLengths(s))
         IN  /\ e \in [0 .. 19 -> Nat]
             /\ BuildReport(s) = {e[k] : k \in 1 .. 19}
             /\ e[4] <= 169 /\ e[4] <= e[11] /\ e[11] - e[4] <= 202
             /\ e[11] <= e[19] /\ e[19] - e[11] <= 217
             /\ \A k \in 1 .. 19 : e[k] <= e[19]
<1> DEFINE l == BlockLengths(s)
           e == EndsOf(l)
<1>1. /\ l \in Seq(Nat) /\ Len(l) = 19
      /\ \A k \in 1 .. 19 : l[k] \in Nat
      /\ l[1] + l[2] + l[3] + l[4] <= 169
      /\ l[5] + l[6] + l[7] + l[8] + l[9] + l[10] + l[11] <= 202
      /\ l[12] + l[13] + l[14] + l[15] + l[16] + l[17] + l[18] + l[19] <= 217
  BY FirmwareBlocks
<1> HIDE DEF l
<1>2. \A k \in 1 .. 19 : l[k] \in Nat
  BY <1>1
<1>3. e \in [0 .. 19 -> Nat] /\ e[0] = 0 /\ \A k \in 1 .. 19 : e[k] = e[k - 1] + l[k]
  BY <1>1, EndsDefined
<1>4. BuildReport(s) = {e[k] : k \in 1 .. 19}
  BY <1>1 DEF BuildReport, BlockEnds, l
<1> HIDE DEF e
<1>5. /\ e[1] = e[0] + l[1] /\ e[2] = e[1] + l[2] /\ e[3] = e[2] + l[3] /\ e[4] = e[3] + l[4]
      /\ e[5] = e[4] + l[5] /\ e[6] = e[5] + l[6] /\ e[7] = e[6] + l[7] /\ e[8] = e[7] + l[8]
      /\ e[9] = e[8] + l[9] /\ e[10] = e[9] + l[10] /\ e[11] = e[10] + l[11]
      /\ e[12] = e[11] + l[12] /\ e[13] = e[12] + l[13] /\ e[14] = e[13] + l[14]
      /\ e[15] = e[14] + l[15] /\ e[16] = e[15] + l[16] /\ e[17] = e[16] + l[17]
      /\ e[18] = e[17] + l[18] /\ e[19] = e[18] + l[19]
  BY <1>3
<1>6. /\ e[0] \in Nat /\ e[1] \in Nat /\ e[2] \in Nat /\ e[3] \in Nat /\ e[4] \in Nat
      /\ e[5] \in Nat /\ e[6] \in Nat /\ e[7] \in Nat /\ e[8] \in Nat /\ e[9] \in Nat
      /\ e[10] \in Nat /\ e[11] \in Nat /\ e[12] \in Nat /\ e[13] \in Nat /\ e[14] \in Nat
      /\ e[15] \in Nat /\ e[16] \in Nat /\ e[17] \in Nat /\ e[18] \in Nat /\ e[19] \in Nat
      /\ l[1] \in Nat /\ l[2] \in Nat /\ l[3] \in Nat /\ l[4] \in Nat /\ l[5] \in Nat
      /\ l[6] \in Nat /\ l[7] \in Nat /\ l[8] \in Nat /\ l[9] \in Nat /\ l[10] \in Nat
      /\ l[11] \in Nat /\ l[12] \in Nat /\ l[13] \in Nat /\ l[14] \in Nat /\ l[15] \in Nat
      /\ l[16] \in Nat /\ l[17] \in Nat /\ l[18] \in Nat /\ l[19] \in Nat
  BY <1>2, <1>3
<1>7. /\ e[4] <= 169 /\ e[4] <= e[11] /\ e[11] - e[4] <= 202
      /\ e[11] <= e[19] /\ e[19] - e[11] <= 217
  <2>1. e[4] = l[1] + l[2] + l[3] + l[4]
    BY <1>3, <1>5, <1>6
  <2>2. e[11] = e[4] + (l[5] + l[6] + l[7] + l[8] + l[9] + l[10] + l[11])
    BY <1>5, <1>6
  <2>3. e[19] = e[11] + (l[12] + l[13] + l[14] + l[15] + l[16] + l[17] + l[18] + l[19])
    BY <1>5, <1>6
  <2>4. /\ l[1] + l[2] + l[3] + l[4] <= 169
        /\ l[5] + l[6] + l[7] + l[8] + l[9] + l[10] + l[11] <= 202
        /\ l[12] + l[13] + l[14] + l[15] + l[16] + l[17] + l[18] + l[19] <= 217
    BY <1>1
  <2>5. e[4] <= 169
    BY <2>1, <2>4
  <2>6. e[4] <= e[11] /\ e[11] - e[4] <= 202
    BY <1>6, <2>2, <2>4
  <2>7. e[11] <= e[19] /\ e[19] - e[11] <= 217
    BY <1>6, <2>3, <2>4
  <2>8. QED
    BY <2>5, <2>6, <2>7
<1>8. \A k \in 1 .. 19 : e[k] <= e[19]
  <2>1. /\ e[1] <= e[2] /\ e[2] <= e[3] /\ e[3] <= e[4] /\ e[4] <= e[5] /\ e[5] <= e[6]
        /\ e[6] <= e[7] /\ e[7] <= e[8] /\ e[8] <= e[9] /\ e[9] <= e[10] /\ e[10] <= e[11]
        /\ e[11] <= e[12] /\ e[12] <= e[13] /\ e[13] <= e[14] /\ e[14] <= e[15]
        /\ e[15] <= e[16] /\ e[16] <= e[17] /\ e[17] <= e[18] /\ e[18] <= e[19]
    BY <1>5, <1>6
  <2>2. QED
    BY <1>6, <2>1
<1>9. QED
  BY <1>3, <1>4, <1>7, <1>8 DEF e, l

(* Cut after ESPHome Version and after Last Self-Test, it fits three parts. *)
LEMMA OrdinaryFits ==
  ASSUME NEW s, Ordinary(s), PartCount = 3, PartMax = 220
  PROVE  Fits(BuildReport(s))
<1> DEFINE e == EndsOf(BlockLengths(s))
           r == BuildReport(s)
           c == [i \in 1 .. 2 |-> IF i = 1 THEN e[4] ELSE e[11]]
<1>1. /\ e \in [0 .. 19 -> Nat] /\ r = {e[k] : k \in 1 .. 19}
      /\ e[4] <= 169 /\ e[4] <= e[11] /\ e[11] - e[4] <= 202
      /\ e[11] <= e[19] /\ e[19] - e[11] <= 217
      /\ \A k \in 1 .. 19 : e[k] <= e[19]
  BY FirmwareEnds
<1> HIDE DEF e, r
<1>2. e[4] \in r /\ e[11] \in r /\ e[19] \in r /\ r \subseteq Nat
  BY <1>1
<1>3. Size(r) = e[19]
  <2>1. \A f \in r : f <= e[19]
    BY <1>1
  <2>2. ASSUME NEW x \in r, \A f \in r : f <= x
        PROVE  x = e[19]
    <3>1. x <= e[19] /\ e[19] <= x
      BY <1>2, <2>1, <2>2
    <3>2. x \in Nat /\ e[19] \in Nat
      BY <1>2
    <3>3. QED
      BY <3>1, <3>2
  <2>3. QED
    BY <1>2, <2>1, <2>2 DEF Size
<1>4. c \in [1 .. PartCount - 1 -> r \union {0}]
  BY <1>2
<1>5. /\ CutAt(r, c, 0) = 0 /\ CutAt(r, c, 1) = e[4] /\ CutAt(r, c, 2) = e[11]
      /\ CutAt(r, c, 3) = e[19]
  BY <1>3 DEF CutAt
<1>6. \A i \in PartNumbers : /\ CutAt(r, c, i - 1) <= CutAt(r, c, i)
                             /\ CutAt(r, c, i) - CutAt(r, c, i - 1) <= PartMax
  <2> HIDE DEF c
  <2>1. \A i \in PartNumbers : i = 1 \/ i = 2 \/ i = 3
    BY DEF PartNumbers
  <2>2. e[4] \in Nat /\ e[11] \in Nat /\ e[19] \in Nat
    BY <1>2
  <2>3. QED
    BY <1>1, <1>5, <2>1, <2>2
<1>7. c \in Cuts(r)
  BY <1>4, <1>6 DEF Cuts
<1>8. QED
  BY <1>7 DEF Fits, r

(* The firmware publishes every ordinary report: none is refused whose      *)
(* version, reset reason, counters and outages are as long as Ordinary      *)
(* admits, counters of four digits among them.                              *)
THEOREM OrdinaryReportsPublished ==
  ASSUME PartCount = 3, PartMax = 220
  PROVE  Spec => []OrdinaryReportsFit
<1>1. SplitExact => OrdinaryReportsFit
  <2> SUFFICES ASSUME SplitExact, pc = "idle", outcome = "refused",
                      NEW s \in OrdinarySnapshots, report = BuildReport(s)
               PROVE  FALSE
    BY DEF OrdinaryReportsFit
  <2>1. Fits(report)
    BY OrdinaryAssumption, OrdinaryFits
  <2>2. QED
    BY <2>1 DEF SplitExact
<1>2. QED
  BY GreedyIsExact, <1>1, PTL
=============================================================================
