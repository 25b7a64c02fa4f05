------------------------ MODULE FrameAccumulatorProofs ------------------------
(***************************************************************************)
(* Proofs about FrameAccumulator, for every stream and every size.         *)
(***************************************************************************)
EXTENDS FrameAccumulator, FiniteSetTheorems, TLAPS

USE DEF HeaderSize, SplitHeaderBytes

(* The sizes of a cycle as the other proofs use them.                      *)
LEMMA SizeFacts ==
  /\ SeqSize \in Nat /\ Overlap \in Nat
  /\ SeqSize >= 3
  /\ Overlap < SeqSize
<1>1. (RecordCount - 1) \in Nat /\ RecordCadence \in Nat
  BY LayoutAssumption
<1>2. (RecordCount - 1) * RecordCadence \in Nat
  BY <1>1
<1>3. QED
  BY <1>2, LayoutAssumption DEF SeqSize, Overlap

-----------------------------------------------------------------------------
(* Type correctness: in particular the buffer never holds more than        *)
(* MAX_BUFFER_SIZE bytes and no size_t subtraction of the code wraps.      *)
THEOREM TypeCorrect == Spec => []TypeOK
<1>1. Init => TypeOK
  <2>1. << >> \in Seq(Cycles)
    OBVIOUS
  <2>2. Init => /\ candidates \in SUBSET Offsets /\ intact \in SUBSET candidates
                /\ taken = << >> /\ waiting = FALSE /\ pc = "idle"
                /\ failed = {} /\ counted = {} /\ partial = {}
    BY DEF Init
  <2>3. Init => /\ received \in 0 .. StreamLength /\ base \in Nat
                /\ size \in 0 .. MaxBuffer /\ search \in 0 .. MaxBuffer
                /\ episodeEnd \in Nat /\ result \in Nat /\ dropped \in Nat
                /\ partials \in Nat /\ rejections \in Nat /\ malformed \in Nat
                /\ cursor \in Nat /\ dropEnd \in Nat
    BY CapacityAssumption DEF Init
  <2>4. QED
    BY <2>1, <2>2, <2>3 DEF TypeOK
<1>2. TypeOK /\ [Next]_vars => TypeOK'
  <2> SUFFICES ASSUME TypeOK, [Next]_vars PROVE TypeOK'
    OBVIOUS
  <2> USE CapacityAssumption DEF TypeOK, stream, buffer, counters, history
  <2>1. CASE Feed
    BY <2>1 DEF Feed, BeginSearch, Excess, Advanced
  <2>2. CASE FeedWholeBuffer
    BY <2>2 DEF FeedWholeBuffer, BeginSearch
  <2>3. CASE Skip
    BY <2>3 DEF Skip, HeaderSeen
  <2>4. CASE Incomplete
    BY <2>4
    DEF Incomplete, HeaderSeen, Here, DiscardPrefix, Advanced, EndFeed
  <2>5. CASE Malformed
    <3>1. Here \in candidates /\ failed' = failed \union {Here}
      BY <2>5 DEF Malformed
    <3>3. /\ episodeEnd' \in Nat /\ malformed' \in Nat /\ result' \in Nat
          /\ search' \in 0 .. MaxBuffer
      BY <2>5, SizeFacts DEF Malformed, HeaderSeen
    <3>4. failed' \subseteq candidates /\ counted' \subseteq failed'
      BY <2>5, <3>1 DEF Malformed
    <3>5. /\ UNCHANGED <<stream, buffer, pc, dropped, partials>>
          /\ UNCHANGED <<cursor, taken, partial, dropEnd>>
          /\ waiting' \in BOOLEAN /\ rejections' = rejections + 1
      BY <2>5 DEF Malformed
    <3>6. QED
      BY <3>3, <3>4, <3>5
  <2>6. CASE ConsumeCycle
    <3>1. Here \in Offsets
      BY <2>6 DEF ConsumeCycle
    <3>2. PICK v \in Verdicts : taken' = Append(taken, [start |-> Here, verdict |-> v])
      BY <2>6 DEF ConsumeCycle
    <3>3. [start |-> Here, verdict |-> v] \in Cycles
      BY <3>1 DEF Cycles
    <3>4. taken' \in Seq(Cycles)
      BY <3>2, <3>3
    <3>5. base' \in Nat /\ size' \in 0 .. MaxBuffer /\ cursor' \in Nat
      BY <2>6, SizeFacts DEF ConsumeCycle, HeaderSeen, Complete, Here
    <3>6. /\ UNCHANGED <<stream, received, counters, result>>
          /\ UNCHANGED <<failed, counted, partial, dropEnd>>
          /\ waiting' \in BOOLEAN /\ episodeEnd' = 0
          /\ pc' = "idle" /\ search' = 0
      BY <2>6 DEF ConsumeCycle, EndFeed
    <3>7. QED
      BY <3>4, <3>5, <3>6
  <2>7. CASE Exhausted
    <3>1. /\ base' \in Nat /\ size' \in 0 .. MaxBuffer /\ episodeEnd' \in Nat
          /\ UNCHANGED received
      <4>1. CASE size <= SplitHeaderBytes
        BY <2>7, <4>1 DEF Exhausted
      <4>2. CASE size > SplitHeaderBytes
        BY <2>7, <4>2 DEF Exhausted, DiscardPrefix, Advanced
      <4>3. QED
        BY <4>1, <4>2
    <3>2. /\ UNCHANGED <<stream, counters, result, cursor, taken>>
          /\ UNCHANGED <<failed, counted, partial, dropEnd>>
          /\ waiting' \in BOOLEAN /\ pc' = "idle" /\ search' = 0
      BY <2>7 DEF Exhausted, EndFeed
    <3>3. QED
      BY <3>1, <3>2
  <2>8. CASE UNCHANGED vars
    BY <2>8 DEF vars
  <2>9. QED
    BY <2>1, <2>2, <2>3, <2>4, <2>5, <2>6, <2>7, <2>8 DEF Next, ProcessBuffer
<1>3. QED
  BY <1>1, <1>2, PTL DEF Spec

-----------------------------------------------------------------------------
(* The inductive invariant, under the proportions the firmware has: what a *)
(* chunk brings and what a consumed cycle leaves is shorter than a cycle   *)
(* (128 + 22 <= 419), and a chunk fits beside an unfinished cycle          *)
(* (418 + 128 <= 894).                                                     *)
FirmwareSizes ==
  /\ MaxChunk + Overlap <= SeqSize
  /\ SeqSize - 1 + MaxChunk <= MaxBuffer

BufferInv ==
  /\ Contiguous
  /\ dropped = 0
  /\ pc = "idle" => search = 0 /\ size < SeqSize
  /\ pc = "search" => size < SeqSize + MaxChunk
  /\ search > 0 => search + SplitHeaderBytes <= size

(* Everything before the search position has been looked at.               *)
ScanInv ==
  /\ cursor <= base
  /\ \A p \in intact : p < base + search => p < cursor

(* The relative end of the malformed episode stays attached to the stream  *)
(* position of the candidate counted last.                                 *)
EpisodeInv ==
  /\ \A q \in failed : q < base + search /\ q + SeqSize <= received
  /\ episodeEnd > 0 => \E m \in counted : base + episodeEnd = m + SeqSize
  /\ \A m \in counted :
       \/ m + SeqSize <= base + search
       \/ m + SeqSize <= base + episodeEnd
       \/ \E i \in DOMAIN taken : m < taken[i].start /\ taken[i].start < base + search

(* A second count in one feed would need two cycles in the buffer.         *)
ResultInv ==
  pc = "search" /\ result > 0 => result = 1 /\ episodeEnd >= SeqSize

IInv == /\ BufferInv /\ ScanInv /\ EpisodeInv /\ DamageCounted /\ CountedOnce
        /\ ResultInv /\ OneMalformedPerFeed

(* The constants of the firmware are such sizes: 19 records of 23 bytes, 22 *)
(* bytes apart, in a buffer of 894 bytes fed 128 at a time.                 *)
LEMMA FirmwareConstants ==
  ASSUME RecordCount = 19, RecordCadence = 22, RecordSize = 23, MaxBuffer = 894, MaxChunk = 128
  PROVE  FirmwareSizes /\ SeqSize = 419
BY DEF FirmwareSizes, SeqSize, Overlap

(* A feed that finds the buffer as the invariant says has room for a chunk.*)
LEMMA RoomForChunk ==
  ASSUME FirmwareSizes, TypeOK, BufferInv, pc = "idle", NEW n \in 0 .. MaxChunk
  PROVE  Excess(n) = 0 /\ n < MaxBuffer
BY SizeFacts, CapacityAssumption
DEF FirmwareSizes, TypeOK, BufferInv, Excess

(* Nothing discarded, nothing moved.                                       *)
LEMMA AdvanceByZero == TypeOK => Advanced(0) = episodeEnd
BY DEF TypeOK, Advanced

(* What the steps that move the front of the buffer do to it.              *)
LEMMA FeedEffect ==
  ASSUME FirmwareSizes, TypeOK, BufferInv, Feed \/ FeedWholeBuffer
  PROVE  /\ pc = "idle" /\ pc' = "search" /\ search' = 0 /\ result' = 0
         /\ \E n \in 0 .. MaxChunk : /\ received + n <= StreamLength
                                     /\ received' = received + n
                                     /\ size' = size + n
         /\ UNCHANGED <<stream, base, episodeEnd, dropped>>
         /\ UNCHANGED <<cursor, taken, failed, counted>>
<1>1. CASE Feed
  <2>1. pc = "idle"
    BY <1>1 DEF Feed
  <2>2. PICK n \in 0 .. MaxChunk :
          /\ received + n <= StreamLength
          /\ received' = received + n
          /\ base' = base + Excess(n)
          /\ size' = size + n - Excess(n)
          /\ episodeEnd' = Advanced(Excess(n))
          /\ dropped' = dropped + Excess(n)
    BY <1>1 DEF Feed
  <2>3. Excess(n) = 0
    BY <2>1, RoomForChunk
  <2>4. base' = base /\ size' = size + n /\ episodeEnd' = episodeEnd /\ dropped' = dropped
    BY <2>2, <2>3, AdvanceByZero, CapacityAssumption DEF TypeOK
  <2>5. QED
    BY <1>1, <2>1, <2>2, <2>4 DEF Feed, BeginSearch
<1>2. CASE FeedWholeBuffer
  <2>1. PICK n \in MaxBuffer .. MaxChunk : pc = "idle"
    BY <1>2 DEF FeedWholeBuffer
  <2>2. n \in 0 .. MaxChunk
    BY CapacityAssumption
  <2>3. n < MaxBuffer
    BY <2>1, <2>2, RoomForChunk
  <2>4. QED
    BY <2>3, CapacityAssumption
<1>3. QED
  BY <1>1, <1>2

(* An incomplete cycle stays in the buffer, with what precedes it gone.    *)
LEMMA IncompleteEffect ==
  ASSUME TypeOK, Incomplete
  PROVE  /\ pc = "search" /\ pc' = "idle" /\ search' = 0
         /\ search + HeaderSize <= size /\ size - search < SeqSize
         /\ base' = base + search /\ size' = size - search
         /\ episodeEnd' = Advanced(search)
         /\ UNCHANGED <<stream, received, dropped, result>>
         /\ UNCHANGED <<cursor, taken, failed, counted>>
<1>1. ~Complete /\ HeaderSeen
  BY DEF Incomplete
<1>2. size - search < SeqSize
  BY <1>1, SizeFacts, CapacityAssumption DEF Complete, TypeOK
<1>3. QED
  BY <1>1, <1>2 DEF Incomplete, HeaderSeen, DiscardPrefix, EndFeed

(* A search that finds no header keeps at most the last header byte.       *)
LEMMA ExhaustedEffect ==
  ASSUME TypeOK, BufferInv, Exhausted
  PROVE  /\ pc = "search" /\ pc' = "idle" /\ search' = 0
         /\ base' = base + search /\ size' = size - search
         /\ size' <= SplitHeaderBytes
         /\ episodeEnd' = Advanced(search)
         /\ UNCHANGED <<stream, received, dropped, result>>
         /\ UNCHANGED <<cursor, taken, failed, counted>>
<1>1. pc = "search" /\ search + HeaderSize > size
  BY CapacityAssumption DEF Exhausted, HeaderSeen, TypeOK
<1>2. CASE size <= SplitHeaderBytes
  <2>1. search = 0
    BY <1>2, <1>1, CapacityAssumption DEF TypeOK, BufferInv
  <2>2. UNCHANGED <<received, base, size, episodeEnd>>
    BY <1>2 DEF Exhausted, buffer
  <2>3. base' = base + search /\ size' = size - search
    BY <2>1, <2>2, CapacityAssumption DEF TypeOK
  <2>4. episodeEnd' = Advanced(search)
    BY <2>1, <2>2, AdvanceByZero
  <2>5. QED
    BY <1>1, <1>2, <2>2, <2>3, <2>4 DEF Exhausted, EndFeed, counters
<1>3. CASE size > SplitHeaderBytes
  <2>1. search > 0 => search + SplitHeaderBytes <= size
    BY DEF BufferInv
  <2>2. search = size - SplitHeaderBytes
    BY <1>3, <1>1, <2>1, CapacityAssumption DEF TypeOK
  <2>3. DiscardPrefix(size - SplitHeaderBytes)
    BY <1>3, CapacityAssumption DEF Exhausted, TypeOK
  <2>4. DiscardPrefix(search)
    BY <2>2, <2>3
  <2>5. base' = base + search /\ size' = size - search /\ episodeEnd' = Advanced(search)
        /\ UNCHANGED received
    BY <2>4 DEF DiscardPrefix
  <2>6. size' <= SplitHeaderBytes
    BY <2>2, <2>5, CapacityAssumption DEF TypeOK
  <2>7. QED
    BY <1>1, <2>5, <2>6 DEF Exhausted, EndFeed, counters
<1>4. QED
  BY <1>2, <1>3, CapacityAssumption DEF TypeOK

(* A taken cycle leaves the buffer; what follows it stays.                 *)
LEMMA ConsumeEffect ==
  ASSUME TypeOK, ConsumeCycle
  PROVE  /\ pc = "search" /\ pc' = "idle" /\ search' = 0
         /\ Here \in intact /\ search + SeqSize <= size
         /\ base' = Here + SeqSize - Overlap /\ cursor' = base'
         /\ size' = size - (search + SeqSize - Overlap)
         /\ episodeEnd' = 0
         /\ UNCHANGED <<stream, received, dropped, result, failed, counted>>
         /\ \E v \in Verdicts : taken' = Append(taken, [start |-> Here, verdict |-> v])
<1>1. HeaderSeen /\ Complete /\ EndFeed
  BY DEF ConsumeCycle
<1>2. search + SeqSize <= size
  BY <1>1, SizeFacts, CapacityAssumption DEF Complete, TypeOK
<1>3. QED
  BY <1>1, <1>2 DEF ConsumeCycle, HeaderSeen, EndFeed, counters

(* Skipping a byte touches nothing but the position of the search.         *)
LEMMA SkipEffect ==
  ASSUME TypeOK, Skip
  PROVE  /\ pc = "search" /\ search + HeaderSize <= size /\ Here \notin candidates
         /\ search' = search + 1
         /\ UNCHANGED <<stream, received, base, size, pc, episodeEnd, result, dropped>>
         /\ UNCHANGED <<cursor, taken, failed, counted>>
BY DEF Skip, HeaderSeen, buffer, counters, history

(* A damaged cycle gives up its header only.                                *)
LEMMA MalformedEffect ==
  ASSUME TypeOK, Malformed
  PROVE  /\ pc = "search" /\ search + SeqSize <= size
         /\ Here \in candidates /\ Here \notin intact
         /\ search' = search + 1
         /\ failed' = failed \union {Here}
         /\ \/ /\ search < episodeEnd
               /\ UNCHANGED <<episodeEnd, counted, result>>
            \/ /\ search >= episodeEnd
               /\ episodeEnd' = search + SeqSize
               /\ counted' = counted \union {Here}
               /\ result' = result + 1
         /\ UNCHANGED <<stream, received, base, size, pc, dropped, cursor, taken>>
<1>1. HeaderSeen /\ Complete
  BY DEF Malformed
<1>2. search + SeqSize <= size
  BY <1>1, SizeFacts, CapacityAssumption DEF Complete, TypeOK
<1>3. CASE InEpisode(search)
  BY <1>1, <1>2, <1>3 DEF Malformed, InEpisode, HeaderSeen, buffer
<1>4. CASE ~InEpisode(search)
  <2>1. search >= episodeEnd
    BY <1>4, CapacityAssumption DEF InEpisode, TypeOK
  <2>2. QED
    BY <1>1, <1>2, <1>4, <2>1 DEF Malformed, HeaderSeen, buffer
<1>5. QED
  BY <1>3, <1>4

-----------------------------------------------------------------------------
(* The parts of the invariant, one lemma each.                             *)

(* The buffer is a stretch of the stream, with room for the next chunk.    *)
LEMMA BufferStep ==
  ASSUME FirmwareSizes, TypeOK, BufferInv, [Next]_vars
  PROVE  BufferInv'
<1> USE CapacityAssumption, SizeFacts DEF TypeOK, BufferInv, Contiguous, FirmwareSizes
<1>1. CASE Feed \/ FeedWholeBuffer
  BY <1>1, FeedEffect
<1>2. CASE Skip
  BY <1>2, SkipEffect
<1>3. CASE Incomplete
  BY <1>3, IncompleteEffect
<1>4. CASE Malformed
  BY <1>4, MalformedEffect
<1>5. CASE ConsumeCycle
  BY <1>5, ConsumeEffect DEF Here
<1>6. CASE Exhausted
  BY <1>6, ExhaustedEffect
<1>7. CASE UNCHANGED vars
  BY <1>7 DEF vars, buffer, counters
<1>8. QED
  BY <1>1, <1>2, <1>3, <1>4, <1>5, <1>6, <1>7 DEF Next, ProcessBuffer

(* What the arithmetic of the parts below needs of the types.              *)
LEMMA Numbers ==
  ASSUME TypeOK
  PROVE  /\ base \in Nat /\ size \in Nat /\ search \in Nat /\ received \in Nat
         /\ cursor \in Nat /\ episodeEnd \in Nat /\ Here \in Nat
         /\ \A p \in candidates : p \in Nat
         /\ intact \subseteq candidates /\ failed \subseteq candidates
         /\ counted \subseteq failed
BY CapacityAssumption DEF TypeOK, Offsets, Here

(* Whatever starts before the cursor has been decided on.                  *)
LEMMA ScanStep ==
  ASSUME FirmwareSizes, TypeOK, BufferInv, ScanInv, [Next]_vars
  PROVE  ScanInv'
<1>1. ASSUME intact' = intact, cursor' = cursor, base' >= base,
             base' \in Nat, (base + search)' = base + search
      PROVE  ScanInv'
  BY <1>1, Numbers DEF ScanInv
<1>2. ASSUME intact' = intact, cursor' = cursor, base' = base,
             (base + search)' = base + search + 1, Here \notin intact
      PROVE  ScanInv'
  <2>1. \A p \in intact : p < base + search + 1 => p < base + search
    BY <1>2, Numbers DEF Here
  <2>2. QED
    BY <1>2, <2>1, Numbers DEF ScanInv
<1>3. CASE Feed \/ FeedWholeBuffer
  BY <1>1, <1>3, FeedEffect, Numbers DEF BufferInv, stream
<1>4. CASE Skip
  BY <1>2, <1>4, SkipEffect, Numbers DEF stream
<1>5. CASE Incomplete
  BY <1>1, <1>5, IncompleteEffect, Numbers DEF stream
<1>6. CASE Malformed
  BY <1>2, <1>6, MalformedEffect, Numbers DEF stream
<1>7. CASE ConsumeCycle
  BY <1>7, ConsumeEffect, Numbers, SizeFacts DEF ScanInv, stream
<1>8. CASE Exhausted
  BY <1>1, <1>8, ExhaustedEffect, Numbers DEF stream
<1>9. CASE UNCHANGED vars
  BY <1>1, <1>9, Numbers DEF vars, buffer, history, stream
<1>10. QED
  BY <1>3, <1>4, <1>5, <1>6, <1>7, <1>8, <1>9 DEF Next, ProcessBuffer

(* What a feed reports agrees with what it did.                             *)
LEMMA ResultStep ==
  ASSUME FirmwareSizes, TypeOK, BufferInv, ResultInv, OneMalformedPerFeed,
         [Next]_vars
  PROVE  ResultInv' /\ OneMalformedPerFeed'
<1> USE CapacityAssumption, SizeFacts, Numbers DEF ResultInv, OneMalformedPerFeed
<1>0. result \in Nat
  BY DEF TypeOK
<1>1. CASE Feed \/ FeedWholeBuffer
  BY <1>1, FeedEffect
<1>2. CASE Skip
  BY <1>2, SkipEffect
<1>3. CASE Incomplete
  BY <1>3, IncompleteEffect
<1>4. CASE Malformed
  <2>1. size < SeqSize + MaxChunk /\ MaxChunk <= SeqSize
    BY <1>4, MalformedEffect DEF BufferInv, FirmwareSizes
  <2>2. search < SeqSize
    BY <1>4, <2>1, MalformedEffect
  <2>3. QED
    BY <1>0, <1>4, <2>2, MalformedEffect
<1>5. CASE ConsumeCycle
  BY <1>5, ConsumeEffect
<1>6. CASE Exhausted
  BY <1>6, ExhaustedEffect
<1>7. CASE UNCHANGED vars
  BY <1>7 DEF vars
<1>8. QED
  BY <1>1, <1>2, <1>3, <1>4, <1>5, <1>6, <1>7 DEF Next, ProcessBuffer

(* Every action that discards k bytes and stops moves the anchor of the    *)
(* episode with the buffer, or ends the episode behind its last byte.      *)
LEMMA AnchorMoves ==
  ASSUME TypeOK, EpisodeInv, NEW k \in Nat, k <= search,
         base' = base + k, (base + search)' = base + search, base' \in Nat,
         episodeEnd' = Advanced(k), received' >= received, received' \in Nat,
         UNCHANGED <<taken, failed, counted>>
  PROVE  EpisodeInv'
<1> USE Numbers, SizeFacts
<1>1. counted \subseteq Nat /\ failed \subseteq Nat
  OBVIOUS
<1>2. \A q \in failed' : q < (base + search)' /\ q + SeqSize <= received'
  BY <1>1 DEF EpisodeInv
<1>3. CASE k < episodeEnd
  <2>1. episodeEnd' = episodeEnd - k /\ base' + episodeEnd' = base + episodeEnd
    BY <1>3 DEF Advanced
  <2>2. episodeEnd' > 0 => \E m \in counted' : base' + episodeEnd' = m + SeqSize
    BY <1>3, <2>1 DEF EpisodeInv
  <2>3. QED
    BY <1>2, <2>1, <2>2 DEF EpisodeInv
<1>4. CASE k >= episodeEnd
  <2>1. episodeEnd' = 0
    BY <1>4 DEF Advanced
  <2>2. \A m \in counted : m + SeqSize <= base + episodeEnd => m + SeqSize <= base + search
    BY <1>1, <1>4
  <2>3. QED
    BY <1>2, <2>1, <2>2 DEF EpisodeInv
<1>5. QED
  BY <1>3, <1>4

(* The cycles of a stream start within it.                                  *)
LEMMA StartsAreOffsets ==
  ASSUME TypeOK, NEW i \in DOMAIN taken
  PROVE  taken[i].start \in Nat
<1>1. taken[i] \in Cycles
  BY DEF TypeOK
<1>2. QED
  BY <1>1 DEF Cycles, Offsets

(* A step of the search that counts nothing leaves the anchor in place.    *)
LEMMA AnchorStays ==
  ASSUME TypeOK, EpisodeInv,
         base' = base, search' = search + 1,
         UNCHANGED <<episodeEnd, taken, counted>>,
         \A q \in failed' : q < (base + search)' /\ q + SeqSize <= received'
  PROVE  EpisodeInv'
<1> USE Numbers, SizeFacts
<1>1. ASSUME NEW m \in counted'
      PROVE  \/ m + SeqSize <= (base + search)'
             \/ m + SeqSize <= base' + episodeEnd'
             \/ \E i \in DOMAIN taken' :
                  m < taken'[i].start /\ taken'[i].start < (base + search)'
  <2>1. m \in counted /\ m \in Nat
    BY <1>1
  <2>2. CASE m + SeqSize <= base + search \/ m + SeqSize <= base + episodeEnd
    BY <2>1, <2>2
  <2>3. CASE \E i \in DOMAIN taken :
               m < taken[i].start /\ taken[i].start < base + search
    <3>1. PICK i \in DOMAIN taken : m < taken[i].start /\ taken[i].start < base + search
      BY <2>3
    <3>2. taken[i].start < base + search + 1
      BY <3>1, StartsAreOffsets
    <3>3. QED
      BY <3>1, <3>2
  <2>4. QED
    BY <2>1, <2>2, <2>3 DEF EpisodeInv
<1>2. episodeEnd' > 0 => \E m \in counted' : base' + episodeEnd' = m + SeqSize
  BY DEF EpisodeInv
<1>3. QED
  BY <1>1, <1>2 DEF EpisodeInv

(* The malformed episode stays tied to a candidate it has counted.         *)
LEMMA EpisodeStep ==
  ASSUME FirmwareSizes, TypeOK, BufferInv, EpisodeInv, [Next]_vars
  PROVE  EpisodeInv'
<1> USE Numbers, SizeFacts
<1>0. counted \subseteq Nat /\ failed \subseteq Nat /\ Advanced(0) = episodeEnd
  BY AdvanceByZero
<1>1. CASE Feed \/ FeedWholeBuffer
  <2>1. /\ base' = base + 0 /\ (base + search)' = base + search /\ base' \in Nat
        /\ episodeEnd' = Advanced(0) /\ received' >= received /\ received' \in Nat
        /\ UNCHANGED <<taken, failed, counted>>
    BY <1>0, <1>1, FeedEffect DEF BufferInv
  <2>2. QED
    BY <2>1, AnchorMoves
<1>2. CASE Skip
  <2>1. /\ base' = base /\ search' = search + 1 /\ episodeEnd' = episodeEnd
        /\ UNCHANGED <<received, taken, failed, counted>>
    BY <1>2, SkipEffect
  <2>2. \A q \in failed' : q < (base + search)' /\ q + SeqSize <= received'
    BY <1>0, <2>1 DEF EpisodeInv
  <2>3. QED
    BY <2>1, <2>2, AnchorStays
<1>3. CASE Incomplete
  <2>1. /\ base' = base + search /\ (base + search)' = base + search /\ base' \in Nat
        /\ episodeEnd' = Advanced(search) /\ received' >= received /\ received' \in Nat
        /\ UNCHANGED <<taken, failed, counted>>
    BY <1>3, IncompleteEffect
  <2>2. QED
    BY <2>1, AnchorMoves
<1>4. CASE Malformed
  <2>1. /\ base' = base /\ search' = search + 1 /\ received' = received
        /\ taken' = taken /\ failed' = failed \union {Here}
        /\ Here = base + search /\ Here + SeqSize <= received
    BY <1>4, MalformedEffect DEF Here, BufferInv, Contiguous
  <2>2. \A q \in failed' : q < (base + search)' /\ q + SeqSize <= received'
    BY <1>0, <2>1 DEF EpisodeInv
  <2>3. CASE search < episodeEnd /\ UNCHANGED <<episodeEnd, counted>>
    BY <2>1, <2>2, <2>3, AnchorStays
  <2>4. CASE /\ search >= episodeEnd /\ episodeEnd' = search + SeqSize
             /\ counted' = counted \union {Here}
    <3>1. base' + episodeEnd' = Here + SeqSize /\ Here \in counted'
      BY <2>1, <2>4
    <3>2. ASSUME NEW m \in counted'
          PROVE  \/ m + SeqSize <= (base + search)'
                 \/ m + SeqSize <= base' + episodeEnd'
                 \/ \E i \in DOMAIN taken' :
                      m < taken'[i].start /\ taken'[i].start < (base + search)'
      <4>1. CASE m = Here
        BY <3>1, <4>1
      <4>2. CASE m \in counted /\ m + SeqSize <= base + episodeEnd
        BY <1>0, <2>1, <2>4, <4>2
      <4>3. CASE m \in counted /\ m + SeqSize <= base + search
        BY <1>0, <2>1, <4>3
      <4>4. CASE /\ m \in counted
                 /\ \E i \in DOMAIN taken :
                      m < taken[i].start /\ taken[i].start < base + search
        <5>1. PICK i \in DOMAIN taken : m < taken[i].start /\ taken[i].start < base + search
          BY <4>4
        <5>2. QED
          BY <2>1, <5>1, StartsAreOffsets
      <4>5. QED
        BY <2>4, <4>1, <4>2, <4>3, <4>4 DEF EpisodeInv
    <3>3. QED
      BY <2>2, <3>1, <3>2 DEF EpisodeInv
  <2>5. QED
    BY <1>4, <2>3, <2>4, MalformedEffect
<1>5. CASE ConsumeCycle
  <2>1. /\ base' = Here + SeqSize - Overlap /\ search' = 0 /\ episodeEnd' = 0
        /\ Here = base + search
        /\ UNCHANGED <<received, failed, counted>>
    BY <1>5, ConsumeEffect DEF Here
  <2>2. PICK v \in Verdicts : taken' = Append(taken, [start |-> Here, verdict |-> v])
    BY <1>5, ConsumeEffect
  <2>3. /\ Len(taken) + 1 \in DOMAIN taken'
        /\ taken'[Len(taken) + 1] = [start |-> Here, verdict |-> v]
    BY <2>2 DEF TypeOK
  <2>4. Here < base'
    BY <2>1
  <2>5. \A m \in counted' : m < Here
    BY <2>1 DEF EpisodeInv
  <2>6. \A m \in counted' : \E i \in DOMAIN taken' :
          m < taken'[i].start /\ taken'[i].start < (base + search)'
    BY <2>1, <2>3, <2>4, <2>5
  <2>7. \A q \in failed' : q < (base + search)' /\ q + SeqSize <= received'
    <3>1. (base + search)' = base' /\ base' \in Int
      BY <2>1
    <3>2. \A q \in failed : q \in Nat /\ q < Here /\ q + SeqSize <= received
      BY <1>0, <2>1 DEF EpisodeInv
    <3>3. QED
      BY <2>1, <2>4, <3>1, <3>2
  <2>8. QED
    BY <2>1, <2>6, <2>7 DEF EpisodeInv
<1>6. CASE Exhausted
  <2>1. /\ base' = base + search /\ (base + search)' = base + search /\ base' \in Nat
        /\ episodeEnd' = Advanced(search) /\ received' >= received /\ received' \in Nat
        /\ UNCHANGED <<taken, failed, counted>>
    BY <1>6, ExhaustedEffect
  <2>2. QED
    BY <2>1, AnchorMoves
<1>7. CASE UNCHANGED vars
  BY <1>7 DEF vars, buffer, history, EpisodeInv
<1>8. QED
  BY <1>1, <1>2, <1>3, <1>4, <1>5, <1>6, <1>7 DEF Next, ProcessBuffer

(* Every damaged candidate belongs to a counted one.                       *)
LEMMA DamageStep ==
  ASSUME FirmwareSizes, TypeOK, BufferInv, EpisodeInv, DamageCounted, [Next]_vars
  PROVE  DamageCounted'
<1> USE Numbers, SizeFacts
<1>1. UNCHANGED <<failed, counted>> => DamageCounted'
  BY DEF DamageCounted
<1>2. CASE Malformed
  <2>1. failed' = failed \union {Here} /\ counted \subseteq counted'
    BY <1>2, MalformedEffect
  <2>2. \E m \in counted' : m <= Here /\ Here < m + SeqSize
    <3>1. CASE search < episodeEnd /\ counted' = counted
      <4>1. PICK m \in counted : base + episodeEnd = m + SeqSize
        BY <3>1 DEF EpisodeInv
      <4>2. m < base + search
        BY <4>1 DEF EpisodeInv
      <4>3. QED
        BY <3>1, <4>1, <4>2 DEF Here
    <3>2. CASE counted' = counted \union {Here}
      BY <3>2
    <3>3. QED
      BY <1>2, <3>1, <3>2, MalformedEffect
  <2>3. QED
    BY <2>1, <2>2 DEF DamageCounted
<1>3. CASE Feed \/ FeedWholeBuffer
  BY <1>1, <1>3, FeedEffect
<1>4. CASE Skip
  BY <1>1, <1>4, SkipEffect
<1>5. CASE Incomplete
  BY <1>1, <1>5, IncompleteEffect
<1>6. CASE ConsumeCycle
  BY <1>1, <1>6, ConsumeEffect
<1>7. CASE Exhausted
  BY <1>1, <1>7, ExhaustedEffect
<1>8. CASE UNCHANGED vars
  BY <1>1, <1>8 DEF vars, history
<1>9. QED
  BY <1>2, <1>3, <1>4, <1>5, <1>6, <1>7, <1>8 DEF Next, ProcessBuffer

(* No damaged cycle is counted twice.                                       *)
LEMMA CountedStep ==
  ASSUME FirmwareSizes, TypeOK, BufferInv, EpisodeInv, CountedOnce, [Next]_vars
  PROVE  CountedOnce'
<1> USE Numbers, SizeFacts
<1>1. UNCHANGED <<counted, taken>> => CountedOnce'
  BY DEF CountedOnce
<1>2. CASE Malformed
  <2>1. taken' = taken /\ Here = base + search
    BY <1>2, MalformedEffect DEF Here
  <2>2. CASE counted' = counted
    BY <1>1, <2>1, <2>2
  <2>3. CASE search >= episodeEnd /\ counted' = counted \union {Here}
    <3>1. ASSUME NEW m \in counted', NEW n \in counted', m < n, n < m + SeqSize
          PROVE  \E i \in DOMAIN taken' : m < taken'[i].start /\ taken'[i].start < n
      <4>1. \A q \in counted : q \in Nat /\ q < Here
        BY <2>1 DEF EpisodeInv
      <4>2. CASE n \in counted
        <5>1. m \in counted
          BY <2>3, <3>1, <4>1, <4>2
        <5>2. QED
          BY <2>1, <3>1, <4>2, <5>1 DEF CountedOnce
      <4>3. CASE n = Here
        <5>1. m \in counted /\ m \in Nat
          BY <2>3, <3>1, <4>1, <4>3
        <5>2. ~(m + SeqSize <= base + search) /\ ~(m + SeqSize <= base + episodeEnd)
          BY <2>1, <2>3, <3>1, <4>3, <5>1
        <5>3. QED
          BY <2>1, <4>3, <5>1, <5>2 DEF EpisodeInv
      <4>4. QED
        BY <2>3, <4>2, <4>3
    <3>2. QED
      BY <3>1 DEF CountedOnce
  <2>4. QED
    BY <1>2, <2>2, <2>3, MalformedEffect
<1>3. CASE ConsumeCycle
  <2>1. PICK v \in Verdicts : taken' = Append(taken, [start |-> Here, verdict |-> v])
    BY <1>3, ConsumeEffect
  <2>2. \A i \in DOMAIN taken : i \in DOMAIN taken' /\ taken'[i] = taken[i]
    BY <2>1 DEF TypeOK
  <2>3. counted' = counted
    BY <1>3, ConsumeEffect
  <2>4. QED
    BY <2>2, <2>3 DEF CountedOnce
<1>4. CASE Feed \/ FeedWholeBuffer
  BY <1>1, <1>4, FeedEffect
<1>5. CASE Skip
  BY <1>1, <1>5, SkipEffect
<1>6. CASE Incomplete
  BY <1>1, <1>6, IncompleteEffect
<1>7. CASE Exhausted
  BY <1>1, <1>7, ExhaustedEffect
<1>8. CASE UNCHANGED vars
  BY <1>1, <1>8 DEF vars, history
<1>9. QED
  BY <1>2, <1>3, <1>4, <1>5, <1>6, <1>7, <1>8 DEF Next, ProcessBuffer

-----------------------------------------------------------------------------
(* The invariant, and what follows from it.                                *)

(* Together they are inductive for the firmware's sizes.                    *)
LEMMA FirmwareInvariant ==
  ASSUME FirmwareSizes
  PROVE  Spec => []IInv
<1>1. Init => IInv
  <2>1. Init => /\ base = 0 /\ size = 0 /\ search = 0 /\ received = 0 /\ cursor = 0
                /\ episodeEnd = 0 /\ dropped = 0 /\ result = 0 /\ pc = "idle"
                /\ failed = {} /\ counted = {}
                /\ intact \subseteq candidates /\ candidates \subseteq Offsets
    BY DEF Init
  <2>2. \A p \in Offsets : p >= 0
    BY CapacityAssumption DEF Offsets
  <2>3. Init => BufferInv
    BY <2>1, SizeFacts DEF BufferInv, Contiguous
  <2>4. Init => ScanInv
    BY <2>1, <2>2, CapacityAssumption DEF ScanInv, Offsets
  <2>5. Init => EpisodeInv /\ DamageCounted /\ CountedOnce
    BY <2>1 DEF EpisodeInv, DamageCounted, CountedOnce
  <2>6. Init => ResultInv /\ OneMalformedPerFeed
    BY <2>1 DEF ResultInv, OneMalformedPerFeed
  <2>7. QED
    BY <2>3, <2>4, <2>5, <2>6 DEF IInv
<1>2. TypeOK /\ IInv /\ [Next]_vars => IInv'
  BY BufferStep, ScanStep, EpisodeStep, DamageStep, CountedStep, ResultStep DEF IInv
<1>3. QED
  BY <1>1, <1>2, TypeCorrect, PTL DEF Spec

(* The firmware's accumulator drops no byte it was given, so the           *)
(* BUFFER_OVERFLOW branch of loop() is never taken.                        *)
THEOREM NeverDrops ==
  ASSUME FirmwareSizes
  PROVE  Spec => []NoByteDropped
<1>1. IInv => NoByteDropped
  BY DEF IInv, BufferInv, NoByteDropped
<1>2. QED
  BY <1>1, FirmwareInvariant, PTL

(* A cycle is taken in the feed that brings its last byte, for every       *)
(* stream and every way of cutting it into chunks.                         *)
THEOREM DeliversPromptly ==
  ASSUME FirmwareSizes
  PROVE  Spec => []PromptDelivery
<1>1. TypeOK /\ IInv => PromptDelivery
  <2> SUFFICES ASSUME TypeOK, IInv, pc = "idle",
                      NEW p \in intact, p + SeqSize <= received
               PROVE  p < cursor
    BY DEF PromptDelivery
  <2>1. base + size = received /\ search = 0 /\ size < SeqSize
    BY DEF IInv, BufferInv, Contiguous
  <2>2. p < base + search
    BY <2>1, Numbers, SizeFacts
  <2>3. QED
    BY <2>2 DEF IInv, ScanInv
<1>2. QED
  BY <1>1, FirmwareInvariant, TypeCorrect, PTL

(* Every damaged candidate belongs to a malformed frame that was counted.  *)
THEOREM CountsDamage ==
  ASSUME FirmwareSizes
  PROVE  Spec => []DamageCounted
<1>1. IInv => DamageCounted
  BY DEF IInv
<1>2. QED
  BY <1>1, FirmwareInvariant, PTL

(* No damaged cycle is counted twice, however many false headers it has.   *)
THEOREM CountsOnce ==
  ASSUME FirmwareSizes
  PROVE  Spec => []CountedOnce
<1>1. IInv => CountedOnce
  BY DEF IInv
<1>2. QED
  BY <1>1, FirmwareInvariant, PTL

(* One feed counts at most one damaged cycle: the FeedResults of module    *)
(* SEMMeterComponent are all there are.                                    *)
THEOREM CountsOnePerFeed ==
  ASSUME FirmwareSizes
  PROVE  Spec => []OneMalformedPerFeed
<1>1. IInv => OneMalformedPerFeed
  BY DEF IInv
<1>2. QED
  BY <1>1, FirmwareInvariant, PTL

-----------------------------------------------------------------------------
(* The counters agree with the sets of candidates they count.              *)

(* A candidate counted as partial is behind the search, or it is the one   *)
(* the accumulator waits for, whole header and all, at the front of the    *)
(* buffer.                                                                 *)
PartialInv ==
  \A p \in partial :
    \/ p < base + search
    \/ waiting /\ search = 0 /\ p = base /\ size >= HeaderSize

JudgedInv == PartialInv /\ JudgedOnce

(* Sets of candidates are finite, and a new member counts one.             *)
LEMMA CandidateSets ==
  ASSUME TypeOK, NEW S, S \subseteq candidates
  PROVE  /\ IsFiniteSet(S) /\ Cardinality(S) \in Nat
         /\ \A c : c \notin S => Cardinality(S \union {c}) = Cardinality(S) + 1
<1>1. IsFiniteSet(Offsets)
  BY FS_Interval, CapacityAssumption DEF Offsets
<1>2. S \subseteq Offsets
  BY DEF TypeOK
<1>3. IsFiniteSet(S)
  BY <1>1, <1>2, FS_Subset
<1>4. QED
  BY <1>3, FS_AddElement, FS_CardinalityType

(* No step counts as partial what lies ahead of the search position, but    *)
(* the candidate that waits there.                                          *)
LEMMA PartialStep ==
  ASSUME FirmwareSizes, TypeOK, BufferInv, PartialInv, [Next]_vars
  PROVE  PartialInv'
<1> USE CapacityAssumption, SizeFacts DEF TypeOK
<1> DEFINE Behind(p) == \/ p < base + search
                        \/ waiting /\ search = 0 /\ p = base /\ size >= HeaderSize
<1>0. (\A p \in partial' : Behind(p)') => PartialInv'
  BY DEF PartialInv
<1>1. \A p \in partial : Behind(p) /\ p \in candidates /\ p \in Nat
  BY DEF PartialInv, Offsets
<1> HIDE DEF Behind
<1>2. CASE Feed \/ FeedWholeBuffer
  <2>1. /\ search' = 0 /\ base' = base /\ search = 0 /\ size' \in Nat /\ size' >= size
        /\ partial' = partial /\ (waiting => waiting')
    BY <1>2, FeedEffect DEF BufferInv, Feed, FeedWholeBuffer, BeginSearch
  <2>2. \A p \in partial : Behind(p)'
    BY <1>1, <2>1 DEF Behind
  <2>3. QED
    BY <1>0, <2>1, <2>2
<1>3. CASE Skip
  <2>1. /\ search' = search + 1 /\ UNCHANGED <<base, partial>>
        /\ base + search \notin candidates
    BY <1>3 DEF Skip, buffer, history, Here
  <2>2. \A p \in partial : Behind(p)'
    BY <1>1, <2>1 DEF Behind
  <2>3. QED
    BY <1>0, <2>1, <2>2
<1>4. CASE Incomplete
  <2>1. /\ search' = 0 /\ base' = base + search /\ size' = size - search
        /\ search + HeaderSize <= size /\ waiting' = TRUE
    BY <1>4, IncompleteEffect DEF Incomplete
  <2>2. partial' \subseteq partial \union {base + search}
    BY <1>4 DEF Incomplete, Here
  <2>3. \A p \in partial' : Behind(p)'
    BY <1>1, <2>1, <2>2 DEF Behind
  <2>4. QED
    BY <1>0, <2>3
<1>5. CASE Malformed
  <2>1. search' = search + 1 /\ UNCHANGED <<base, partial>>
    BY <1>5, MalformedEffect DEF Malformed
  <2>2. \A p \in partial : Behind(p)'
    BY <1>1, <2>1 DEF Behind
  <2>3. QED
    BY <1>0, <2>1, <2>2
<1>6. CASE ConsumeCycle
  <2>1. /\ base' = base + search + SeqSize - Overlap /\ search' = 0
        /\ UNCHANGED partial
    BY <1>6, ConsumeEffect DEF ConsumeCycle, Here
  <2>2. \A p \in partial : Behind(p)'
    BY <1>1, <2>1 DEF Behind
  <2>3. QED
    BY <1>0, <2>1, <2>2
<1>7. CASE Exhausted
  <2>1. search' = 0 /\ base' = base + search
    BY <1>7, ExhaustedEffect
  <2>2. search + HeaderSize > size /\ UNCHANGED partial
    BY <1>7 DEF Exhausted, HeaderSeen
  <2>3. \A p \in partial : p < base + search
    BY <1>1, <2>2 DEF Behind
  <2>4. \A p \in partial : Behind(p)'
    BY <2>1, <2>3 DEF Behind
  <2>5. QED
    BY <1>0, <2>2, <2>4
<1>8. CASE UNCHANGED vars
  BY <1>8 DEF vars, buffer, history, PartialInv
<1>9. QED
  BY <1>2, <1>3, <1>4, <1>5, <1>6, <1>7, <1>8 DEF Next, ProcessBuffer

(* No step judges a candidate that an earlier feed judged.                  *)
LEMMA JudgedStep ==
  ASSUME FirmwareSizes, TypeOK, IInv, JudgedInv, [Next]_vars
  PROVE  JudgedOnce'
<1>1. BufferInv /\ EpisodeInv /\ PartialInv /\ JudgedOnce
  BY DEF IInv, JudgedInv
<1>2. CASE Incomplete
  <2>1. UNCHANGED <<failed, counted, rejections, malformed>> /\ Here \in candidates
    BY <1>2 DEF Incomplete
  <2>2. CASE waiting
    BY <1>1, <1>2, <2>1, <2>2 DEF Incomplete, JudgedOnce
  <2>3. CASE ~waiting
    <3>1. Here \notin partial
      BY <1>1, <2>3, Numbers DEF PartialInv, Here
    <3>2. partials' = partials + 1 /\ partial' = partial \union {Here}
      BY <1>2, <2>3 DEF Incomplete
    <3>3. partial \subseteq candidates
      BY DEF TypeOK
    <3>4. Cardinality(partial') = Cardinality(partial) + 1
      BY <3>1, <3>2, <3>3, CandidateSets
    <3>5. QED
      BY <1>1, <2>1, <3>2, <3>4 DEF JudgedOnce
  <2>4. QED
    BY <2>2, <2>3
<1>3. CASE Malformed
  <2>1. Here \notin failed /\ failed \subseteq candidates
    BY <1>1, Numbers DEF EpisodeInv, Here, TypeOK
  <2>2. Here \notin counted /\ counted \subseteq candidates
    BY <2>1 DEF TypeOK
  <2>3. /\ failed' = failed \union {Here} /\ rejections' = rejections + 1
        /\ UNCHANGED <<partial, partials>>
    BY <1>3 DEF Malformed
  <2>4. \/ UNCHANGED <<malformed, counted>>
        \/ malformed' = malformed + 1 /\ counted' = counted \union {Here}
    BY <1>3 DEF Malformed
  <2>5. Cardinality(failed') = Cardinality(failed) + 1
    BY <2>1, <2>3, CandidateSets
  <2>6. counted' = counted \union {Here} => Cardinality(counted') = Cardinality(counted) + 1
    BY <2>2, CandidateSets
  <2>7. QED
    BY <1>1, <2>3, <2>4, <2>5, <2>6 DEF JudgedOnce
<1>4. CASE Feed \/ FeedWholeBuffer
  BY <1>1, <1>4 DEF Feed, FeedWholeBuffer, BeginSearch, JudgedOnce
<1>5. CASE Skip \/ ConsumeCycle \/ Exhausted
  BY <1>1, <1>5 DEF Skip, ConsumeCycle, Exhausted, counters, history, JudgedOnce
<1>6. CASE UNCHANGED vars
  BY <1>1, <1>6 DEF vars, counters, history, JudgedOnce
<1>7. QED
  BY <1>2, <1>3, <1>4, <1>5, <1>6 DEF Next, ProcessBuffer

(* No candidate is judged twice: not rejected, counted as malformed or     *)
(* counted as partial again in a later feed.                               *)
THEOREM JudgesOnce ==
  ASSUME FirmwareSizes
  PROVE  Spec => []JudgedOnce
<1>1. Init => JudgedInv
  BY FS_EmptySet DEF Init, JudgedInv, PartialInv, JudgedOnce
<1>2. TypeOK /\ IInv /\ JudgedInv /\ [Next]_vars => JudgedInv'
  BY PartialStep, JudgedStep DEF JudgedInv, IInv
<1>3. JudgedInv => JudgedOnce
  BY DEF JudgedInv
<1>4. QED
  BY <1>1, <1>2, <1>3, FirmwareInvariant, TypeCorrect, PTL DEF Spec

-----------------------------------------------------------------------------
(* Whatever the sizes: an overflow costs the dropped bytes only.           *)

DropInv == Contiguous /\ (pc = "idle" => search = 0) /\ LostOnlyByDrop

(* Whatever the sizes, a step loses only cycles that touch dropped or       *)
(* retained bytes.                                                          *)
LEMMA DropStep ==
  ASSUME TypeOK, DropInv, [Next]_vars
  PROVE  DropInv'
<1> USE CapacityAssumption, SizeFacts DEF TypeOK, DropInv, Contiguous
<1>0. \A p \in intact : p \in Nat /\ p \in candidates
  BY DEF Offsets
<1>1. CASE Feed
  <2>1. PICK n \in Nat, e \in Nat :
          /\ received' = received + n
          /\ base' = base + e
          /\ size' = size + n - e
          /\ dropEnd' = IF e > 0 THEN base + e ELSE dropEnd
    <3>1. PICK n \in 0 .. MaxChunk :
            /\ received' = received + n
            /\ base' = base + Excess(n)
            /\ size' = size + n - Excess(n)
            /\ dropEnd' = IF Excess(n) > 0 THEN base + Excess(n) ELSE dropEnd
      BY <1>1 DEF Feed
    <3>2. n \in Nat /\ Excess(n) \in Nat
      BY DEF Excess
    <3>3. QED
      BY <3>1, <3>2
  <2>2. pc = "idle" /\ pc' = "search" /\ search' = 0 /\ UNCHANGED <<stream, cursor>>
    BY <1>1 DEF Feed, BeginSearch
  <2>3. base' + size' = received'
    BY <2>1
  <2>4. base' \in Nat /\ search = 0 /\ intact' = intact /\ cursor' = cursor
    BY <2>1, <2>2 DEF stream
  <2>5. ASSUME NEW p \in intact, dropEnd' <= p, p < base' PROVE p < cursor
    <3>1. e = 0
      BY <1>0, <2>1, <2>5
    <3>2. dropEnd <= p /\ p < base + search
      BY <1>0, <2>1, <2>4, <2>5, <3>1
    <3>3. QED
      BY <3>2 DEF LostOnlyByDrop
  <2>6. LostOnlyByDrop'
    BY <1>0, <2>2, <2>4, <2>5 DEF LostOnlyByDrop
  <2>7. QED
    BY <2>2, <2>3, <2>6
<1>2. CASE FeedWholeBuffer
  <2>1. PICK n \in MaxBuffer .. MaxChunk :
          /\ received' = received + n
          /\ base' = received + n - MaxBuffer
          /\ dropEnd' = received + n - MaxBuffer
    BY <1>2 DEF FeedWholeBuffer
  <2>2. /\ pc' = "search" /\ search' = 0 /\ size' = MaxBuffer
        /\ UNCHANGED <<stream, cursor>>
    BY <1>2 DEF FeedWholeBuffer, BeginSearch
  <2>3. QED
    BY <1>0, <2>1, <2>2 DEF LostOnlyByDrop, stream
<1>3. CASE Skip
  BY <1>0, <1>3, SkipEffect DEF LostOnlyByDrop, Here, Skip, history, stream
<1>4. CASE Incomplete
  BY <1>0, <1>4, IncompleteEffect DEF LostOnlyByDrop, Incomplete, EndFeed, stream
<1>5. CASE Malformed
  <2>1. /\ base + search \notin intact /\ search' = search + 1 /\ pc = "search"
        /\ UNCHANGED <<intact, base, size, received, pc, cursor, dropEnd>>
    BY <1>5, MalformedEffect DEF Malformed, Here, stream
  <2>2. QED
    BY <1>0, <2>1 DEF LostOnlyByDrop
<1>6. CASE ConsumeCycle
  BY <1>0, <1>6, ConsumeEffect DEF LostOnlyByDrop, Here, stream
<1>7. CASE Exhausted
  <2>1. /\ pc' = "idle" /\ search' = 0 /\ UNCHANGED <<intact, cursor, dropEnd>>
        /\ pc = "search" /\ search + HeaderSize > size
    BY <1>7 DEF Exhausted, EndFeed, HeaderSeen, stream
  <2>2. /\ base' + size' = base + size /\ base' <= base + search
        /\ UNCHANGED received
    <3>1. CASE size <= SplitHeaderBytes
      BY <1>7, <3>1 DEF Exhausted, buffer
    <3>2. CASE size > SplitHeaderBytes
      BY <1>7, <2>1, <3>2 DEF Exhausted, DiscardPrefix
    <3>3. QED
      BY <3>1, <3>2
  <2>3. base' \in Nat
    BY <1>7 DEF Exhausted, DiscardPrefix, buffer
  <2>4. QED
    BY <1>0, <2>1, <2>2, <2>3 DEF LostOnlyByDrop
<1>8. CASE UNCHANGED vars
  BY <1>8 DEF vars, buffer, history, stream, LostOnlyByDrop
<1>9. QED
  BY <1>1, <1>2, <1>3, <1>4, <1>5, <1>6, <1>7, <1>8 DEF Next, ProcessBuffer

(* The receiver recovers from every overflow at the first cycle after it,  *)
(* also with chunks larger than the buffer.                                *)
THEOREM ConfinesOverflow == Spec => []OverflowConfined
<1>1. Init => DropInv
  <2>1. Init => /\ base = 0 /\ size = 0 /\ search = 0 /\ received = 0
                /\ intact \subseteq Offsets
    BY DEF Init
  <2>2. QED
    BY <2>1, CapacityAssumption DEF DropInv, Contiguous, LostOnlyByDrop, Offsets
<1>2. TypeOK /\ DropInv /\ [Next]_vars => DropInv'
  BY DropStep
<1>3. DropInv => OverflowConfined
  BY DEF DropInv, OverflowConfined
<1>4. QED
  BY <1>1, <1>2, <1>3, TypeCorrect, PTL DEF Spec

-----------------------------------------------------------------------------
(* The accumulator implements the scan of the stream: it takes the same    *)
(* cycles in the same order, however the bytes are cut into feeds.         *)
THEOREM Refinement ==
  ASSUME FirmwareSizes
  PROVE  Spec => Scan!Spec
<1>1. Init => Scan!Init
  BY DEF Init, Scan!Init, Offsets
<1>2. TypeOK /\ IInv /\ [Next]_vars => [Scan!Next]_Scan!vars
  <2> SUFFICES ASSUME TypeOK, IInv, [Next]_vars
               PROVE  Scan!Next \/ UNCHANGED Scan!vars
    BY DEF Scan!vars
  <2>1. CASE Feed \/ FeedWholeBuffer
    <3>1. BufferInv
      BY DEF IInv
    <3>2. PICK n \in 0 .. MaxChunk : received + n <= StreamLength /\ received' = received + n
      BY <2>1, <3>1, FeedEffect
    <3>3. n \in 0 .. StreamLength - received
      BY <3>2, CapacityAssumption DEF TypeOK
    <3>4. UNCHANGED <<intact, cursor, taken>>
      BY <2>1, <3>1, FeedEffect DEF stream
    <3>5. Scan!Receive
      BY <3>2, <3>3, <3>4 DEF Scan!Receive
    <3>6. QED
      BY <3>5 DEF Scan!Next
  <2>2. CASE ConsumeCycle
    <3>1. PICK v \in Verdicts : taken' = Append(taken, [start |-> Here, verdict |-> v])
      BY <2>2, ConsumeEffect
    <3>2. /\ Here \in intact /\ cursor' = Here + SeqSize - Overlap
          /\ UNCHANGED <<intact, received>>
      BY <2>2, ConsumeEffect DEF stream
    <3>3. Here + SeqSize <= received
      BY <2>2, ConsumeEffect, Numbers, SizeFacts DEF IInv, BufferInv, Contiguous, Here
    <3>4. Here >= cursor
      BY Numbers DEF IInv, ScanInv, Here
    <3>5. \A q \in intact : q >= cursor => Here <= q
      BY Numbers DEF IInv, ScanInv, Here
    <3>6. Scan!IsNext(Here)
      BY <3>2, <3>4, <3>5 DEF Scan!IsNext
    <3>7. Scan!Take(Here, v)
      BY <3>1, <3>2, <3>3, <3>6 DEF Scan!Take
    <3>8. QED
      BY <3>1, <3>2, <3>7 DEF Scan!Next, Scan!TakeNext, Scan!Verdicts, Verdicts
  <2>3. CASE Skip
    BY <2>3, SkipEffect DEF Scan!vars, stream
  <2>4. CASE Incomplete
    BY <2>4, IncompleteEffect DEF Scan!vars, stream
  <2>5. CASE Malformed
    BY <2>5, MalformedEffect DEF Scan!vars, stream
  <2>6. CASE Exhausted
    BY <2>6, ExhaustedEffect DEF Scan!vars, stream, IInv
  <2>7. CASE UNCHANGED vars
    BY <2>7 DEF vars, stream, buffer, history, Scan!vars
  <2>8. QED
    BY <2>1, <2>2, <2>3, <2>4, <2>5, <2>6, <2>7 DEF Next, ProcessBuffer
<1>3. QED
  BY <1>1, <1>2, FirmwareInvariant, TypeCorrect, PTL DEF Spec, Scan!Spec
-----------------------------------------------------------------------------
(* Every feed ends.                                                        *)

(* The search stays inside the buffer.                                      *)
SearchInside == pc = "search" => search <= size

(* A step keeps the search inside the buffer.                               *)
LEMMA SearchStep ==
  ASSUME TypeOK, TypeOK', SearchInside, [Next]_vars
  PROVE  SearchInside'
<1>1. CASE Feed \/ FeedWholeBuffer
  BY <1>1 DEF Feed, FeedWholeBuffer, BeginSearch, TypeOK, SearchInside
<1>2. CASE Skip \/ Malformed
  BY <1>2 DEF Skip, Malformed, HeaderSeen, buffer, TypeOK, SearchInside
<1>3. CASE Incomplete \/ ConsumeCycle \/ Exhausted
  BY <1>3 DEF Incomplete, ConsumeCycle, Exhausted, EndFeed, SearchInside
<1>4. CASE UNCHANGED vars
  BY <1>4 DEF vars, buffer, SearchInside
<1>5. QED
  BY <1>1, <1>2, <1>3, <1>4 DEF Next, ProcessBuffer

(* A pass through the loop leaves fewer passes.                             *)
LEMMA PassProgress ==
  ASSUME TypeOK, TypeOK', SearchInside, pc = "search", Next
  PROVE  Remaining' \in 0 .. Remaining - 1
<1>1. /\ size \in Nat /\ search \in Nat /\ search <= size
      /\ Remaining = size - search + 1
  BY DEF TypeOK, SearchInside, Remaining
<1>2. CASE Skip \/ Malformed
  <2>1. pc' = "search" /\ search' = search + 1 /\ size' = size /\ search + 3 <= size
    BY <1>2 DEF Skip, Malformed, HeaderSeen, buffer
  <2>2. QED
    BY <1>1, <2>1 DEF Remaining
<1>3. CASE Incomplete \/ ConsumeCycle \/ Exhausted
  <2>1. pc' = "idle"
    BY <1>3 DEF Incomplete, ConsumeCycle, Exhausted, EndFeed
  <2>2. QED
    BY <1>1, <2>1 DEF Remaining
<1>4. QED
  BY <1>2, <1>3 DEF Next, ProcessBuffer, Feed, FeedWholeBuffer

(* Whatever the sizes and the bytes, a feed ends: the passes left are at    *)
(* most the bytes of the buffer and one, and every pass takes one away.     *)
THEOREM FeedsEnd == Spec => [](Remaining <= MaxBuffer + 1) /\ SearchProgress
<1>1. Init => SearchInside
  BY DEF Init, SearchInside
<1>2. TypeOK /\ TypeOK' /\ SearchInside /\ [Next]_vars => SearchInside'
  BY SearchStep
<1>3. TypeOK => Remaining <= MaxBuffer + 1
  BY CapacityAssumption DEF TypeOK, Remaining
<1>4. TypeOK /\ TypeOK' /\ SearchInside /\ [Next]_vars
        => [pc = "search" => Remaining' \in 0 .. Remaining - 1]_vars
  BY PassProgress
<1>5. QED
  BY TypeCorrect, <1>1, <1>2, <1>3, <1>4, PTL DEF Spec, SearchProgress
=============================================================================
