--------------------------- MODULE FrameAccumulator ---------------------------
(***************************************************************************)
(* SEMMeterFrameAccumulator (components/sem_meter/sem_meter_accumulator.h):*)
(* the receive buffer that cuts the UART byte stream into measurement      *)
(* cycles of RecordCount records.                                          *)
(*                                                                         *)
(* A byte is known by its absolute offset in the stream.  What the code    *)
(* can tell about the bytes at an offset is whether a circuit-1 header is  *)
(* there (is_circuit_1_candidate_) and whether a whole cycle with correct  *)
(* markers, identifiers and statuses begins there                          *)
(* (validate_record_sequence_): the sets candidates and intact.  One call  *)
(* of feed() is an Append step followed by the iterations of the search    *)
(* loop, each a step of its own.                                           *)
(***************************************************************************)
EXTENDS Integers, Sequences, FiniteSets

CONSTANTS
  RecordCount,    (* RECORD_COUNT, 19 in the firmware                     *)
  RecordCadence,  (* RECORD_CADENCE_SIZE, 22                              *)
  RecordSize,     (* RECORD_MINIMUM_SIZE, 23                              *)
  MaxBuffer,      (* MAX_BUFFER_SIZE, 894                                 *)
  MaxChunk,       (* the most bytes one feed() brings, 128                *)
  StreamLength    (* bytes the UART delivers; bounds the model            *)

OneHeaderByte    == 1   (* a mutant of SplitHeaderBytes                   *)

HeaderSize       == 3   (* marker, record identifier, status              *)
SplitHeaderBytes == 2   (* the most a header split over two feeds leaves     *)
SeqSize          == (RecordCount - 1) * RecordCadence + RecordSize
Overlap          == RecordSize - 1

ASSUME LayoutAssumption ==
  /\ RecordCount \in Nat \ {0, 1}
  /\ RecordCadence \in Nat /\ RecordCadence >= HeaderSize
  /\ RecordSize \in Nat /\ RecordSize >= HeaderSize

ASSUME CapacityAssumption ==
  /\ MaxBuffer \in Nat /\ MaxBuffer >= SeqSize
  /\ MaxChunk \in Nat
  /\ StreamLength \in Nat

VARIABLES
  candidates,     (* offsets of the circuit-1 headers in the stream       *)
  intact,         (* those at which a structurally valid cycle begins     *)
  received,       (* bytes passed to feed() so far                        *)
  base,           (* stream offset of buffer_[0]                          *)
  size,           (* buffer_size_                                         *)
  pc,             (* "idle" between two feeds, "search" in the loop       *)
  search,         (* search_offset                                        *)
  waiting,        (* waiting_for_sequence_                                *)
  episodeEnd,     (* malformed_episode_end_offset_; 0 when not active     *)
  result,         (* malformed_frames of the SEMMeterFeedResult           *)
  dropped,        (* the counters in SEMMeterDiagnostics: bytes dropped,  *)
  partials,       (* partial records,                                     *)
  rejections,     (* structural cycle rejections                          *)
  malformed       (* and malformed frames                                 *)

(* History of what the feeds did, read by the properties only.             *)
VARIABLES
  cursor,         (* end of the stream used up by taken cycles            *)
  taken,          (* cycles taken, with their electrical verdict          *)
  failed,         (* candidates rejected for their structure              *)
  counted,        (* those among them counted as a malformed frame        *)
  partial,        (* candidates counted as a partial record               *)
  dropEnd         (* end of the last bytes dropped for lack of room       *)

stream  == <<candidates, intact>>
buffer  == <<received, base, size>>
counters == <<dropped, partials, rejections, malformed>>
history == <<cursor, taken, failed, counted, partial, dropEnd>>
vars    == <<stream, buffer, pc, search, waiting, episodeEnd, result, counters,
             history>>

-----------------------------------------------------------------------------
(* The streams the UART can deliver.                                       *)

Offsets == 0 .. StreamLength - 1

(* The header of record k of the cycle that begins at p.                   *)
HeaderAt(p, k) == p + k * RecordCadence

(* The three bytes of a header cannot overlap those of another one: a      *)
(* marker, an identifier and a status have no value in common at the same  *)
(* place, and a record identifier is 0 only in the first record.           *)
Apart(a, b) == a >= b + HeaderSize \/ b >= a + HeaderSize

WellFormed(C, G) ==
  /\ \A c, d \in C : c # d => Apart(c, d)
  /\ \A p \in G : \A k \in 1 .. RecordCount - 1 :
       /\ \A c \in C : Apart(c, HeaderAt(p, k))
       /\ \A q \in G \ {p} : \A j \in 1 .. RecordCount - 1 :
            Apart(HeaderAt(p, k), HeaderAt(q, j))

Verdicts == {"accepted", "rejected"}

Cycles == [start : Offsets, verdict : Verdicts]

Init ==
  /\ candidates \in SUBSET Offsets
  /\ intact \in SUBSET candidates
  /\ WellFormed(candidates, intact)
  /\ received = 0 /\ base = 0 /\ size = 0
  /\ pc = "idle"
  /\ search = 0
  /\ waiting = FALSE
  /\ episodeEnd = 0
  /\ dropped = 0 /\ partials = 0 /\ rejections = 0 /\ malformed = 0
  /\ result = 0
  /\ cursor = 0
  /\ taken = << >>
  /\ failed = {} /\ counted = {} /\ partial = {}
  /\ dropEnd = 0

-----------------------------------------------------------------------------
(* The malformed episode: a damaged cycle is counted once, however many    *)
(* false headers its bytes contain.  malformed_episode_active_ is TRUE     *)
(* exactly when the end offset is not 0.                                   *)

(* Mutants: the end offset is not moved; the episode suppresses nothing.    *)
NotAdvanced(k) == episodeEnd
NeverInEpisode(offset) == FALSE

(* advance_malformed_episode_: k bytes left the front of the buffer.       *)
Advanced(k) == IF k < episodeEnd THEN episodeEnd - k ELSE 0

(* record_malformed_cycle_: is the candidate inside the current episode?   *)
InEpisode(offset) == offset < episodeEnd

-----------------------------------------------------------------------------
(* feed(): append_ and make_room_for_.                                     *)

(* A mutant: every feed forgets that it waits.                              *)
BeginSearchAfresh ==
  /\ pc' = "search"
  /\ search' = 0
  /\ result' = 0
  /\ waiting' = FALSE
  /\ UNCHANGED <<stream, partials, rejections, malformed,
                 cursor, taken, failed, counted, partial>>

(* Bytes make_room_for_ drops from the front to take n more.               *)
Excess(n) == IF size + n > MaxBuffer THEN size + n - MaxBuffer ELSE 0

(* A new feed result, and the search from the front of the buffer.         *)
BeginSearch ==
  /\ pc' = "search"
  /\ search' = 0
  /\ result' = 0
  /\ UNCHANGED <<stream, waiting, partials, rejections, malformed,
                 cursor, taken, failed, counted, partial>>

(* A chunk that fits beside what it leaves of the buffer.  The data        *)
(* pointer is never null: loop() passes the address of a local array.      *)
Feed ==
  /\ pc = "idle"
  /\ \E n \in 0 .. MaxChunk :
       /\ received + n <= StreamLength
       /\ n < MaxBuffer
       /\ received' = received + n
       /\ base' = base + Excess(n)
       /\ size' = size + n - Excess(n)
       /\ episodeEnd' = Advanced(Excess(n))
       /\ dropped' = dropped + Excess(n)
       /\ dropEnd' = IF Excess(n) > 0 THEN base + Excess(n) ELSE dropEnd
  /\ BeginSearch

(* A mutant: of a chunk too large for the buffer the beginning is kept.     *)
FeedBeginning ==
  /\ pc = "idle"
  /\ \E n \in MaxBuffer .. MaxChunk :
       /\ received + n <= StreamLength
       /\ received' = received + n
       /\ base' = received
       /\ size' = MaxBuffer
       /\ dropped' = dropped + size + n - MaxBuffer
       /\ dropEnd' = received
  /\ episodeEnd' = 0
  /\ BeginSearch

(* A chunk at least as large as the buffer replaces its whole contents.    *)
FeedWholeBuffer ==
  /\ pc = "idle"
  /\ \E n \in MaxBuffer .. MaxChunk :
       /\ received + n <= StreamLength
       /\ received' = received + n
       /\ base' = received + n - MaxBuffer
       /\ size' = MaxBuffer
       /\ dropped' = dropped + size + n - MaxBuffer
       /\ dropEnd' = received + n - MaxBuffer
  /\ episodeEnd' = 0
  /\ BeginSearch

-----------------------------------------------------------------------------
(* process_buffer_: one action per way through the body of its loop.       *)

(* Mutants: one byte too many is asked for; the loop goes on after an       *)
(* incomplete cycle.                                                        *)
CompleteOffByOne == size - search > SeqSize
SearchAgain == search' = 0 /\ UNCHANGED <<pc, stream, result, dropEnd>>

Here       == base + search
HeaderSeen == pc = "search" /\ search + HeaderSize <= size
Complete   == size - search >= SeqSize

(* discard_prefix_: forget k bytes at the front of the buffer.             *)
DiscardPrefix(k) ==
  /\ base' = base + k
  /\ size' = size - k
  /\ episodeEnd' = Advanced(k)
  /\ UNCHANGED received

EndFeed ==
  /\ pc' = "idle"
  /\ search' = 0
  /\ UNCHANGED <<stream, result, dropEnd>>

Skip ==
  /\ HeaderSeen
  /\ Here \notin candidates
  /\ search' = search + 1
  /\ UNCHANGED <<stream, buffer, pc, waiting, episodeEnd, result,
                 counters, history>>

(* The header is there, the rest of the cycle is not: keep it for the next *)
(* feed.  Only the first feed that waits for a cycle counts a partial      *)
(* record.                                                                 *)
Incomplete ==
  /\ HeaderSeen
  /\ Here \in candidates
  /\ ~Complete
  /\ IF waiting THEN UNCHANGED <<partials, partial>>
     ELSE /\ partials' = partials + 1
          /\ partial' = partial \union {Here}
  /\ waiting' = TRUE
  /\ DiscardPrefix(search)
  /\ EndFeed
  /\ UNCHANGED <<dropped, rejections, malformed, cursor, taken, failed, counted>>

(* A header whose 19 records do not all check out.  decode_record accepts  *)
(* every record validate_record_sequence_ let through, so the second       *)
(* rejection of the loop (fewer than RECORD_COUNT records decoded) repeats *)
(* this one and is never reached.                                          *)
Malformed ==
  /\ HeaderSeen
  /\ Here \in candidates \ intact
  /\ Complete
  /\ waiting' = FALSE
  /\ failed' = failed \union {Here}
  /\ rejections' = rejections + 1
  /\ IF InEpisode(search)
     THEN UNCHANGED <<episodeEnd, malformed, counted, result>>
     ELSE /\ malformed' = malformed + 1
          /\ episodeEnd' = search + SeqSize
          /\ counted' = counted \union {Here}
          /\ result' = result + 1
  /\ search' = search + 1
  /\ UNCHANGED <<stream, buffer, pc, dropped, partials, cursor, taken, partial,
                 dropEnd>>

(* A structurally valid cycle.  The cycle validator accepts or rejects it  *)
(* on its electrical values (MeasurementPipeline); either way its bytes    *)
(* are used up, except for the overlap, and the feed ends.                 *)
ConsumeCycle ==
  /\ HeaderSeen
  /\ Here \in intact
  /\ Complete
  /\ waiting' = FALSE
  /\ episodeEnd' = 0
  /\ base' = Here + SeqSize - Overlap
  /\ size' = size - (search + SeqSize - Overlap)
  /\ EndFeed
  /\ cursor' = Here + SeqSize - Overlap
  /\ \E verdict \in Verdicts :
       taken' = Append(taken, [start |-> Here, verdict |-> verdict])
  /\ UNCHANGED <<received, counters, failed, counted, partial>>

(* Nothing left to look at: keep the two bytes that may begin a header.    *)
Exhausted ==
  /\ pc = "search"
  /\ ~HeaderSeen
  /\ waiting' = FALSE
  /\ IF size <= SplitHeaderBytes THEN UNCHANGED <<buffer, episodeEnd>>
     ELSE DiscardPrefix(size - SplitHeaderBytes)
  /\ EndFeed
  /\ UNCHANGED <<counters, cursor, taken, failed, counted, partial>>

ProcessBuffer == Skip \/ Incomplete \/ Malformed \/ ConsumeCycle \/ Exhausted

Next == Feed \/ FeedWholeBuffer \/ ProcessBuffer

Spec == Init /\ [][Next]_vars

(* The search loop runs to its end inside one call of feed(), and the main *)
(* loop calls feed() again and again, with the bytes the UART has.         *)
MoreBytes == (Feed \/ FeedWholeBuffer) /\ received' > received

FairSpec == Spec /\ WF_vars(ProcessBuffer) /\ WF_vars(MoreBytes)

-----------------------------------------------------------------------------
(* Type invariant.                                                         *)
TypeOK ==
  /\ candidates \in SUBSET Offsets
  /\ intact \in SUBSET candidates
  /\ received \in 0 .. StreamLength
  /\ base \in Nat
  /\ size \in 0 .. MaxBuffer
  /\ pc \in {"idle", "search"}
  /\ search \in 0 .. MaxBuffer
  /\ waiting \in BOOLEAN
  /\ episodeEnd \in Nat
  /\ dropped \in Nat /\ partials \in Nat /\ rejections \in Nat /\ malformed \in Nat
  /\ cursor \in Nat
  /\ taken \in Seq(Cycles)
  /\ failed \subseteq candidates
  /\ counted \subseteq failed
  /\ partial \subseteq candidates
  /\ dropEnd \in Nat
  /\ result \in Nat

(* The buffer always holds the last size bytes of the stream, without a    *)
(* gap: no sequence of discards, drops and consumed cycles splices bytes   *)
(* together that were not adjacent on the wire.                            *)
Contiguous == base + size = received

(* With the firmware's sizes the accumulator never drops a received byte:  *)
(* what a feed leaves is shorter than a cycle, so the next chunk fits.     *)
NoByteDropped == dropped = 0

(* A cycle is taken in the very feed that delivers its last byte: between  *)
(* two feeds no complete cycle is left in the buffer, and none was passed  *)
(* over unless an earlier taken cycle overlaps its beginning.              *)
PromptDelivery ==
  pc = "idle" =>
    \A p \in intact : p + SeqSize <= received => p < cursor

(* Every damaged candidate belongs to a malformed frame that was counted:  *)
(* the one counted at or before it begins less than a cycle away.          *)
DamageCounted ==
  \A q \in failed : \E m \in counted : m <= q /\ q < m + SeqSize

(* A damaged cycle is counted once: two counted candidates are at least a  *)
(* cycle apart unless a cycle was taken in between.                        *)
CountedOnce ==
  \A m, n \in counted :
    m < n /\ n < m + SeqSize =>
      \E i \in DOMAIN taken : m < taken[i].start /\ taken[i].start < n

(* No candidate is judged twice, in the same feed or in a later one, and a  *)
(* cycle spread over many feeds is one partial record: the counters agree   *)
(* with the sets of candidates they count.                                  *)
JudgedOnce ==
  /\ rejections = Cardinality(failed)
  /\ malformed = Cardinality(counted)
  /\ partials = Cardinality(partial)

(* At most one damaged cycle is counted in one feed, so loop() raises at   *)
(* most one MALFORMED_FRAME event per iteration.                           *)
OneMalformedPerFeed == result <= 1

(* The passes through the search loop that can still come in this feed.     *)
Remaining == IF pc = "search" THEN size - search + 1 ELSE 0

(* The search makes progress with every pass, whatever the bytes are and    *)
(* however the prefix was cut: process_buffer_ returns after at most one    *)
(* pass for each buffered byte and a last one.                              *)
SearchProgress == [][pc = "search" => Remaining' \in 0 .. Remaining - 1]_vars

(* A whole cycle that was passed over without being taken was lost to a    *)
(* drop or overlaps a taken one: every cycle that begins after the last    *)
(* dropped byte is taken, so the receiver recovers from an overflow at the *)
(* next cycle.                                                             *)
LostOnlyByDrop ==
  \A p \in intact : dropEnd <= p /\ p < base + search => p < cursor

(* An overflow costs the dropped bytes and nothing else: what is kept is    *)
(* still one piece of the stream, and the receiver recovers at the first    *)
(* cycle after the gap.                                                     *)
OverflowConfined == Contiguous /\ LostOnlyByDrop

(* The accumulator implements the scan of the stream, whatever the chunk   *)
(* sizes: it takes the same cycles in the same order, and takes every one  *)
(* that has arrived.                                                       *)
Scan == INSTANCE CycleScan WITH
  StreamLength <- StreamLength, SeqSize <- SeqSize, Overlap <- Overlap,
  intact <- intact, received <- received, cursor <- cursor, taken <- taken
ImplementsScan == Scan!FairSpec

=============================================================================
