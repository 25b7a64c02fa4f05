----------------------- MODULE SEMMeterComponentProofs -----------------------
(***************************************************************************)
(* Whatever a feed brings and however callbacks and ticks fall between two  *)
(* publications, the entities end up agreeing with the component, the       *)
(* trigger comes last, the buzzer plays once per outage and RECOVERED ends. *)
(***************************************************************************)
EXTENDS ComponentWatchdog, MillisProofs, SequenceTheorems

-----------------------------------------------------------------------------
(* Publications one after the other.                                        *)

(* A sequence that lists each element of a set once.                        *)
Lists(seq, S) ==
  /\ seq \in Seq(S)
  /\ \A x \in S : \E i \in 1 .. Len(seq) : seq[i] = x
  /\ \A i, j \in 1 .. Len(seq) : seq[i] = seq[j] => i = j

(* No item.                                                                 *)
LEMMA ListsNone == Lists(<< >>, {})
BY DEF Lists

(* One item.                                                                *)
LEMMA ListsOne == ASSUME NEW a PROVE Lists(<<a>>, {a})
BY DEF Lists

(* Two different items.                                                     *)
LEMMA ListsTwo == ASSUME NEW a, NEW b, a # b PROVE Lists(<<a, b>>, {a, b})
<1>1. /\ <<a, b>> \in Seq({a, b}) /\ Len(<<a, b>>) = 2
      /\ <<a, b>>[1] = a /\ <<a, b>>[2] = b
  OBVIOUS
<1> DEFINE seq == <<a, b>>
<1> HIDE DEF seq
<1>2. seq \in Seq({a, b}) /\ Len(seq) = 2 /\ seq[1] = a /\ seq[2] = b
  BY <1>1 DEF seq
<1>3. Lists(seq, {a, b})
  BY <1>2 DEF Lists
<1>4. QED
  BY <1>3 DEF seq

(* A concatenation lists both sets, if they are disjoint.                   *)
LEMMA ListsBoth ==
  ASSUME NEW S, NEW T, S \intersect T = {},
         NEW l, Lists(l, S), NEW r, Lists(r, T)
  PROVE  Lists(l \o r, S \union T)
<1> DEFINE U == S \union T
           t == l \o r
<1>1. l \in Seq(S) /\ r \in Seq(T)
  BY DEF Lists
<1>2. l \in Seq(U) /\ r \in Seq(U)
  BY <1>1, SeqMonotonic
<1>3. Len(l) \in Nat /\ Len(r) \in Nat
  BY <1>1, LenProperties
<1>4. /\ \A i \in 1 .. Len(l) : l[i] \in S
      /\ \A i \in 1 .. Len(r) : r[i] \in T
  BY <1>1, ElementOfSeq
<1>5. t \in Seq(U)
  BY <1>2, ConcatProperties
<1>6. Len(t) = Len(l) + Len(r)
  BY <1>2, ConcatProperties
<1>7. \A i \in 1 .. Len(l) + Len(r) : t[i] = IF i <= Len(l) THEN l[i] ELSE r[i - Len(l)]
  BY <1>2, ConcatProperties
<1> HIDE DEF t
<1>8. /\ \A i \in 1 .. Len(l) : i \in 1 .. Len(t) /\ t[i] = l[i]
      /\ \A i \in 1 .. Len(r) : Len(l) + i \in 1 .. Len(t) /\ t[Len(l) + i] = r[i]
  BY <1>3, <1>6, <1>7
<1>9. ASSUME NEW x \in U PROVE \E i \in 1 .. Len(t) : t[i] = x
  <2>1. CASE x \in S
    <3>1. PICK i \in 1 .. Len(l) : l[i] = x
      BY <2>1 DEF Lists
    <3>2. QED
      BY <1>8, <3>1
  <2>2. CASE x \in T
    <3>1. PICK i \in 1 .. Len(r) : r[i] = x
      BY <2>2 DEF Lists
    <3>2. QED
      BY <1>8, <3>1
  <2>3. QED
    BY <2>1, <2>2
<1>10. ASSUME NEW i \in 1 .. Len(t), NEW j \in 1 .. Len(t), t[i] = t[j] PROVE i = j
  <2>1. \A k \in 1 .. Len(t) : \/ k \in 1 .. Len(l) /\ t[k] = l[k]
                               \/ k - Len(l) \in 1 .. Len(r) /\ t[k] = r[k - Len(l)]
    BY <1>3, <1>6, <1>7
  <2>2. CASE i \in 1 .. Len(l) /\ t[i] = l[i]
    <3>1. t[j] \in S
      BY <1>4, <1>10, <2>2
    <3>2. j \in 1 .. Len(l) /\ t[j] = l[j]
      BY <1>4, <2>1, <3>1
    <3>3. QED
      BY <1>10, <2>2, <3>2 DEF Lists
  <2>3. CASE i - Len(l) \in 1 .. Len(r) /\ t[i] = r[i - Len(l)]
    <3>1. t[j] \in T
      BY <1>4, <1>10, <2>3
    <3>2. j - Len(l) \in 1 .. Len(r) /\ t[j] = r[j - Len(l)]
      BY <1>4, <2>1, <3>1
    <3>3. i - Len(l) = j - Len(l)
      BY <1>10, <2>3, <3>2 DEF Lists
    <3>4. QED
      BY <1>3, <3>3
  <2>4. QED
    BY <2>1, <2>2, <2>3
<1>11. QED
  BY <1>5, <1>9, <1>10 DEF Lists, t

(* The last of a concatenation.                                             *)
LastItem(seq) == seq[Len(seq)]

(* If the second set is not empty, the last item is one of it.              *)
LEMMA LastOfBoth ==
  ASSUME NEW S, NEW T, NEW l, Lists(l, S), NEW r, Lists(r, T), NEW x \in T
  PROVE  LastItem(l \o r) = LastItem(r)
<1> DEFINE U == S \union T
<1>1. l \in Seq(S) /\ r \in Seq(T)
  BY DEF Lists
<1>2. l \in Seq(U) /\ r \in Seq(U)
  BY <1>1, SeqMonotonic
<1>3. Len(l) \in Nat /\ Len(r) \in Nat \ {0}
  <2>1. Len(l) \in Nat /\ Len(r) \in Nat
    BY <1>1, LenProperties
  <2>2. \E i \in 1 .. Len(r) : TRUE
    BY DEF Lists
  <2>3. QED
    BY <2>1, <2>2
<1>4. Len(l \o r) = Len(l) + Len(r)
  BY <1>2, ConcatProperties
<1>5. \A i \in 1 .. Len(l) + Len(r) :
        (l \o r)[i] = IF i <= Len(l) THEN l[i] ELSE r[i - Len(l)]
  BY <1>2, ConcatProperties
<1>6. QED
  BY <1>3, <1>4, <1>5 DEF LastItem

-----------------------------------------------------------------------------
(* What dispatch_event_ publishes, as a set.                                *)

Raised == {"UART_STARTED", "UART_TIMEOUT", "UART_RESTORED", "MALFORMED_FRAME",
           "INVALID_SENSOR_VALUE", "WIFI_TIMEOUT", "WIFI_RESTORED"}

CountSet(event) ==
  {Item(name, Counted(counters, RecordEvent(event))[name]) : name \in RecordEvent(event)}

BaseSet(h, event) == {Item("state", h.state), Item("event", event)}

TextSet(h, event) ==
  IF event \in HealthTransitions THEN {Item("status", DiagnosticStatus(h, event))} ELSE {}

OutageSet(h, event) ==
  IF event = "UART_RESTORED" /\ h.hadOutage THEN {Item("outage", h.outage)} ELSE {}

HealthSet(h, event) ==
  IF event \in HealthTransitions THEN {Item("healthy", ParserHealthy(h))} ELSE {}

Published(h, event, B) ==
  CountSet(event) \union (BaseSet(h, event) \union TextSet(h, event) \union OutageSet(h, event)
                            \union HealthSet(h, event)) \union B

(* An item is an entity and its value.                                      *)
LEMMA EntityOf == \A e, v : Item(e, v).entity = e /\ Item(e, v).value = v
BY DEF Item

(* The entities of each of the sets differ.                                 *)
LEMMA SetFacts ==
  ASSUME NEW h, NEW event \in Raised
  PROVE  /\ \A x \in CountSet(event) : x.entity \in {"parserFaults", "wifiFaults"}
         /\ \A x \in BaseSet(h, event) : x.entity \in {"state", "event"}
         /\ \A x \in TextSet(h, event) : x.entity = "status"
         /\ \A x \in OutageSet(h, event) : x.entity = "outage"
         /\ \A x \in HealthSet(h, event) : x.entity = "healthy"
<1>1. \A x \in CountSet(event) : x.entity \in {"parserFaults", "wifiFaults"}
  BY EntityOf DEF CountSet, RecordEvent, Raised
<1>2. \A x \in BaseSet(h, event) : x.entity \in {"state", "event"}
  BY EntityOf DEF BaseSet
<1>3. \A x \in TextSet(h, event) : x.entity = "status"
  BY EntityOf DEF TextSet
<1>4. \A x \in OutageSet(h, event) : x.entity = "outage"
  BY EntityOf DEF OutageSet
<1>5. \A x \in HealthSet(h, event) : x.entity = "healthy"
  BY EntityOf DEF HealthSet
<1>6. QED
  BY <1>1, <1>2, <1>3, <1>4, <1>5

(* The counter an event increments is published once.                       *)
LEMMA CountItemsFacts ==
  ASSUME NEW event \in Raised
  PROVE  Lists(CounterItems(RecordEvent(event)), CountSet(event))
<1> DEFINE Value(name) == Counted(counters, RecordEvent(event))[name]
<1>1. CASE event = "UART_TIMEOUT"
  <2>1. RecordEvent(event) = {"parserFaults"}
    BY <1>1 DEF RecordEvent
  <2>2. CounterItems(RecordEvent(event)) = <<Item("parserFaults", Value("parserFaults"))>> \o << >>
    BY <2>1 DEF CounterItems
  <2>3. CountSet(event) = {Item("parserFaults", Value("parserFaults"))}
    BY <2>1 DEF CountSet
  <2> HIDE DEF Value
  <2>4. QED
    BY <2>2, <2>3, ListsOne, ListsNone, ListsBoth
<1>2. CASE event = "WIFI_TIMEOUT"
  <2>1. RecordEvent(event) = {"wifiFaults"}
    BY <1>2 DEF RecordEvent
  <2>2. CounterItems(RecordEvent(event)) = << >> \o <<Item("wifiFaults", Value("wifiFaults"))>>
    BY <2>1 DEF CounterItems
  <2>3. CountSet(event) = {Item("wifiFaults", Value("wifiFaults"))}
    BY <2>1 DEF CountSet
  <2> HIDE DEF Value
  <2>4. QED
    BY <2>2, <2>3, ListsOne, ListsNone, ListsBoth
<1>3. CASE event \notin {"UART_TIMEOUT", "WIFI_TIMEOUT"}
  <2>1. RecordEvent(event) = {}
    BY <1>3 DEF RecordEvent
  <2>2. CounterItems(RecordEvent(event)) = << >> \o << >> /\ CountSet(event) = {}
    BY <2>1 DEF CounterItems, CountSet
  <2>3. QED
    BY <2>2, ListsNone, ListsBoth
<1>4. QED
  BY <1>1, <1>2, <1>3

(* The immediate publications list their sets, and the health is the last   *)
(* of them.                                                                 *)
LEMMA ImmediateFacts ==
  ASSUME NEW h, NEW event \in Raised
  PROVE  /\ Lists(Immediate(h, event), BaseSet(h, event) \union TextSet(h, event)
                                         \union OutageSet(h, event) \union HealthSet(h, event))
         /\ event \in HealthTransitions =>
              LastItem(Immediate(h, event)) = Item("healthy", ParserHealthy(h))
<1> DEFINE base   == <<Item("state", h.state), Item("event", event)>>
           text   == IF event \in HealthTransitions
                     THEN <<Item("status", DiagnosticStatus(h, event))>> ELSE << >>
           outage == IF event = "UART_RESTORED" /\ h.hadOutage
                     THEN <<Item("outage", h.outage)>> ELSE << >>
           well   == IF event \in HealthTransitions
                     THEN <<Item("healthy", ParserHealthy(h))>> ELSE << >>
<1>1. Immediate(h, event) = base \o text \o outage \o well
  BY DEF Immediate
<1>2. Lists(base, BaseSet(h, event))
  <2>1. Item("state", h.state) # Item("event", event)
    BY EntityOf
  <2>2. QED
    BY <2>1, ListsTwo DEF BaseSet
<1>3. Lists(text, TextSet(h, event))
  BY ListsOne, ListsNone DEF TextSet
<1>4. Lists(outage, OutageSet(h, event))
  BY ListsOne, ListsNone DEF OutageSet
<1>5. Lists(well, HealthSet(h, event))
  BY ListsOne, ListsNone DEF HealthSet
<1>6. event \in HealthTransitions =>
        /\ HealthSet(h, event) # {}
        /\ LastItem(well) = Item("healthy", ParserHealthy(h))
  BY DEF HealthSet, LastItem
<1> HIDE DEF base, text, outage, well
<1>7. Lists(base \o text, BaseSet(h, event) \union TextSet(h, event))
  <2>1. BaseSet(h, event) \intersect TextSet(h, event) = {}
    BY SetFacts
  <2>2. QED
    BY <1>2, <1>3, <2>1, ListsBoth
<1>8. Lists(base \o text \o outage,
            BaseSet(h, event) \union TextSet(h, event) \union OutageSet(h, event))
  <2>1. (BaseSet(h, event) \union TextSet(h, event)) \intersect OutageSet(h, event) = {}
    BY SetFacts
  <2>2. QED
    BY <1>4, <1>7, <2>1, ListsBoth
<1>9. Lists(base \o text \o outage \o well,
            BaseSet(h, event) \union TextSet(h, event) \union OutageSet(h, event)
              \union HealthSet(h, event))
  <2>1. (BaseSet(h, event) \union TextSet(h, event) \union OutageSet(h, event))
          \intersect HealthSet(h, event) = {}
    BY SetFacts
  <2>2. QED
    BY <1>5, <1>8, <2>1, ListsBoth
<1>10. ASSUME event \in HealthTransitions
       PROVE  LastItem(Immediate(h, event)) = Item("healthy", ParserHealthy(h))
  <2> DEFINE front == base \o text \o outage
             F     == BaseSet(h, event) \union TextSet(h, event) \union OutageSet(h, event)
             W     == HealthSet(h, event)
  <2>1. Lists(front, F) /\ Lists(well, W) /\ W # {}
    BY <1>5, <1>6, <1>8, <1>10
  <2>2. Immediate(h, event) = front \o well
    BY <1>1
  <2> HIDE DEF front, F, W
  <2>3. PICK x : x \in W
    BY <2>1
  <2>4. LastItem(front \o well) = LastItem(well)
    BY <2>1, <2>3, LastOfBoth
  <2>5. QED
    BY <1>6, <1>10, <2>2, <2>4
<1>11. QED
  BY <1>1, <1>9, <1>10

(* The publications of an event, the last of which is the health if it is   *)
(* among them.                                                              *)
LEMMA PublishedFacts ==
  ASSUME NEW h, NEW event \in Raised, NEW besides, NEW B, Lists(besides, B),
         \A x \in B : x.entity = "rejected", B # {} => event = "INVALID_SENSOR_VALUE"
  PROVE  LET seq == CounterItems(RecordEvent(event)) \o Immediate(h, event) \o besides
         IN  /\ Lists(seq, Published(h, event, B))
             /\ event \in HealthTransitions =>
                  LastItem(seq) = Item("healthy", ParserHealthy(h))
<1> DEFINE count   == CounterItems(RecordEvent(event))
           at_once == Immediate(h, event)
           I       == BaseSet(h, event) \union TextSet(h, event) \union OutageSet(h, event)
                      \union HealthSet(h, event)
<1>1. /\ Lists(count, CountSet(event)) /\ Lists(at_once, I)
      /\ event \in HealthTransitions => LastItem(at_once) = Item("healthy", ParserHealthy(h))
  BY CountItemsFacts, ImmediateFacts
<1>2. I # {}
  BY DEF BaseSet
<1>3. /\ CountSet(event) \intersect I = {}
      /\ (CountSet(event) \union I) \intersect B = {}
  BY SetFacts
<1>4. Published(h, event, B) = CountSet(event) \union I \union B
  BY DEF Published
<1>5. event \in HealthTransitions => besides = << >>
  <2>1. ASSUME B = {} PROVE besides = << >>
    BY <2>1, EmptySeq DEF Lists
  <2>2. QED
    BY <2>1 DEF HealthTransitions
<1> HIDE DEF count, at_once, I
<1>6. Lists(count \o at_once, CountSet(event) \union I)
  BY <1>1, <1>3, ListsBoth
<1>7. Lists(count \o at_once \o besides, CountSet(event) \union I \union B)
  BY <1>3, <1>6, ListsBoth
<1>8. LastItem(count \o at_once) = LastItem(at_once)
  <2> DEFINE F == CountSet(event)
  <2>1. Lists(count, F) /\ Lists(at_once, I) /\ I # {}
    BY <1>1, <1>2
  <2> HIDE DEF F
  <2>2. PICK x : x \in I
    BY <2>1
  <2>3. QED
    BY <2>1, <2>2, LastOfBoth
<1>9. event \in HealthTransitions => count \o at_once \o besides = count \o at_once
  <2>1. count \o at_once \in Seq(CountSet(event) \union I)
    BY <1>6 DEF Lists
  <2>2. QED
    BY <1>5, <2>1, ConcatEmptySeq
<1>10. QED
  BY <1>1, <1>4, <1>7, <1>8, <1>9 DEF count, at_once

-----------------------------------------------------------------------------
(* The invariant of the entities.                                           *)

(* What the entities should show.  The status text may be one of several.   *)
Known ==
  [state |-> health.state, event |-> lastEvent, outage |-> health.outage, rejected |-> rejected,
   parserFaults |-> counters["parserFaults"], wifiFaults |-> counters["wifiFaults"]]

Plain == {"state", "event", "outage", "rejected", "parserFaults", "wifiFaults"}

TextsOf(state) ==
  IF state = "WAITING_FOR_UART" THEN {"STARTING", "WAITING_FOR_FIRST_FRAME"}
  ELSE IF state = "RECEIVING_DATA" THEN {"RECEIVING_DATA", "RECOVERED"}
  ELSE {"FRAME_TIMEOUT"}

Suits(text, state, active) == text \in TextsOf(state) /\ (text = "RECOVERED" <=> active)

(* What is published shows what is known.                                   *)
Proper(x) ==
  /\ x.entity \in Plain \union {"status", "healthy"}
  /\ x.entity \in Plain => x.value = Known[x.entity]
  /\ x.entity = "status" => Suits(x.value, health.state, recoveredActive)
  /\ x.entity = "healthy" => x.value \in BOOLEAN /\ (x.value <=> ParserHealthy(health))

OutboxInv ==
  /\ outbox \in Seq(Range(outbox))
  /\ \A i \in 1 .. Len(outbox) : Proper(outbox[i])
  /\ \A i, j \in 1 .. Len(outbox) : outbox[i].entity = outbox[j].entity => i = j
  /\ \A i \in 1 .. Len(outbox) : outbox[i].entity = "healthy" => i = Len(outbox)

Pending(e) == \E i \in 1 .. Len(outbox) : outbox[i].entity = e

(* What is not published any more is shown already.                         *)
ShownInv ==
  /\ \A e \in Plain : shown[e] = Known[e] \/ Pending(e)
  /\ Suits(shown.status, health.state, recoveredActive) \/ Pending("status")
  /\ (shown.healthy <=> ParserHealthy(health)) \/ Pending("healthy")

(* The transitions, as far as they are announced with the health.           *)
Transition(event, h) ==
  \/ event = "UART_STARTED" /\ h.state = "RECEIVING_DATA" /\ ~h.hadOutage
  \/ event = "UART_RESTORED" /\ h.state = "RECEIVING_DATA" /\ h.hadOutage
  \/ event = "UART_TIMEOUT" /\ h.state = "DATA_TIMEOUT"

HealthInv ==
  /\ health.state \in {"WAITING_FOR_UART", "RECEIVING_DATA", "DATA_TIMEOUT"}
  /\ health.state = "WAITING_FOR_UART" => ~health.seenFrame /\ ~health.hadOutage
  /\ health.state = "RECEIVING_DATA" => health.seenFrame
  /\ recoveredActive => health.state = "RECEIVING_DATA"
  /\ Pending("healthy") => Transition(lastEvent, health)

(* Outages announced and not yet heard.                                     *)
Unheard(event) == IF Pending("event") /\ lastEvent = event THEN 1 ELSE 0

BuzzerInv ==
  /\ counters["parserFaults"] = (warnings + Unheard("UART_TIMEOUT")) % CounterWrap
  /\ warnings - chirps + Unheard("UART_TIMEOUT") - Unheard("UART_RESTORED")
       = IF health.state = "DATA_TIMEOUT" THEN 1 ELSE 0

EntityInv == OutboxInv /\ ShownInv /\ HealthInv /\ BuzzerInv

(* Nothing published remains when the outbox is empty.                      *)
LEMMA EmptyOutbox ==
  ASSUME outbox = << >>
  PROVE  /\ \A e : ~Pending(e)
         /\ \A event : Unheard(event) = 0
<1>1. Len(outbox) = 0
  OBVIOUS
<1>2. \A e : ~Pending(e)
  BY <1>1 DEF Pending
<1>3. QED
  BY <1>2 DEF Unheard

(* The same after a step.                                                   *)
LEMMA EmptiedOutbox ==
  ASSUME outbox' = << >>
  PROVE  /\ \A e : ~Pending(e)'
         /\ \A event : Unheard(event)' = 0
<1>1. Len(outbox') = 0
  OBVIOUS
<1>2. \A e : ~Pending(e)'
  BY <1>1 DEF Pending
<1>3. QED
  BY <1>2 DEF Unheard

(* Types of what the invariant speaks of.                                   *)
EntityType ==
  /\ health \in Tracker /\ recoveredActive \in BOOLEAN
  /\ lastEvent \in Events
  /\ counters \in [{"parserFaults", "wifiFaults"} -> CounterValues]
  /\ rejected \in Rejected
  /\ shown \in [status : Statuses, healthy : BOOLEAN, state : ParserStates, event : Events,
                outage : Timestamps, rejected : Rejected, parserFaults : CounterValues,
                wifiFaults : CounterValues]
  /\ warnings \in Nat /\ chirps \in Nat

-----------------------------------------------------------------------------
(* Steps that announce nothing.                                             *)

QuietStep ==
  /\ outbox = << >>
  /\ UNCHANGED <<lastEvent, counters, rejected, recoveredActive, outbox, shown, warnings, chirps>>
  /\ health'.state = health.state /\ health'.outage = health.outage
  /\ health'.seenFrame <=> health.seenFrame
  /\ health'.hadOutage <=> health.hadOutage

(* A step that announces nothing keeps the invariant.                       *)
LEMMA QuietKeeps ==
  ASSUME EntityInv, QuietStep
  PROVE  EntityInv'
<1>1. outbox = << >> /\ outbox' = << >>
  BY DEF QuietStep
<1>2. /\ \A e : ~Pending(e) /\ ~Pending(e)'
      /\ \A event : Unheard(event) = 0 /\ Unheard(event)' = 0
  BY <1>1, EmptyOutbox, EmptiedOutbox
<1>3. Known' = Known
  BY DEF QuietStep, Known
<1>4. ParserHealthy(health') <=> ParserHealthy(health)
  BY DEF QuietStep, ParserHealthy
<1>5. OutboxInv'
  <2>1. Len(outbox') = 0
    BY <1>1
  <2>2. outbox' \in Seq(Range(outbox'))
    BY <1>1, EmptySeq
  <2>3. QED
    BY <2>1, <2>2 DEF OutboxInv
<1>6. ShownInv'
  <2>1. \A e \in Plain : shown[e] = Known[e]
    BY <1>2 DEF EntityInv, ShownInv
  <2>2. Suits(shown.status, health.state, recoveredActive)
    BY <1>2 DEF EntityInv, ShownInv
  <2>3. shown.healthy <=> ParserHealthy(health)
    BY <1>2 DEF EntityInv, ShownInv
  <2>4. \A e \in Plain : shown'[e] = Known'[e]
    BY <1>3, <2>1 DEF QuietStep
  <2>5. Suits(shown'.status, health'.state, recoveredActive')
    BY <2>2 DEF QuietStep
  <2>6. shown'.healthy <=> ParserHealthy(health')
    BY <1>4, <2>3 DEF QuietStep
  <2>7. QED
    BY <2>4, <2>5, <2>6 DEF ShownInv
<1>7. HealthInv'
  BY <1>2 DEF EntityInv, HealthInv, QuietStep
<1>8. BuzzerInv'
  BY <1>2 DEF EntityInv, BuzzerInv, QuietStep
<1>9. QED
  BY <1>5, <1>6, <1>7, <1>8 DEF EntityInv

-----------------------------------------------------------------------------
(* Steps that dispatch an event.                                            *)

(* How the tracker changes with an event.                                   *)
Moves(event) ==
  \/ /\ event \in {"MALFORMED_FRAME", "INVALID_SENSOR_VALUE", "WIFI_TIMEOUT", "WIFI_RESTORED"}
     /\ health' = health
     /\ recoveredActive' = recoveredActive
  \/ /\ event = "UART_STARTED"
     /\ health.state = "WAITING_FOR_UART"
     /\ health'.state = "RECEIVING_DATA" /\ health'.seenFrame
     /\ health'.hadOutage <=> health.hadOutage
     /\ health'.outage = health.outage
     /\ recoveredActive' = recoveredActive
  \/ /\ event = "UART_TIMEOUT"
     /\ health.state # "DATA_TIMEOUT"
     /\ health'.state = "DATA_TIMEOUT"
     /\ health'.outage = health.outage
     /\ ~recoveredActive'
  \/ /\ event = "UART_RESTORED"
     /\ health.state = "DATA_TIMEOUT"
     /\ health'.state = "RECEIVING_DATA" /\ health'.seenFrame
     /\ health'.hadOutage
     /\ recoveredActive'

(* What the caller publishes besides.                                       *)
Besides(event, besides) ==
  \/ besides = << >> /\ rejected' = rejected
  \/ event = "INVALID_SENSOR_VALUE" /\ besides = <<Item("rejected", rejected')>>

DispatchStep(event, besides) ==
  /\ outbox = << >>
  /\ Moves(event)
  /\ Besides(event, besides)
  /\ health' \in Tracker /\ recoveredActive' \in BOOLEAN /\ rejected' \in Rejected
  /\ lastEvent' = event
  /\ counters' = Counted(counters, RecordEvent(event))
  /\ outbox' = CounterItems(RecordEvent(event)) \o Immediate(health', event) \o besides
  /\ UNCHANGED <<shown, warnings, chirps>>

(* Which items the outbox holds then.                                       *)
LEMMA DispatchOutbox ==
  ASSUME NEW event \in Raised, NEW besides, DispatchStep(event, besides)
  PROVE  \E B : /\ Lists(outbox', Published(health', event, B))
                /\ event \in HealthTransitions =>
                     LastItem(outbox') = Item("healthy", ParserHealthy(health'))
                /\ B \subseteq {Item("rejected", rejected')}
                /\ rejected' # rejected => B # {}
<1>1. CASE besides = << >> /\ rejected' = rejected
  <2>1. Lists(besides, {})
    BY <1>1, ListsNone
  <2>2. /\ Lists(outbox', Published(health', event, {}))
        /\ event \in HealthTransitions =>
             LastItem(outbox') = Item("healthy", ParserHealthy(health'))
    BY <2>1, PublishedFacts DEF DispatchStep
  <2>3. QED
    BY <1>1, <2>2
<1>2. CASE event = "INVALID_SENSOR_VALUE" /\ besides = <<Item("rejected", rejected')>>
  <2> DEFINE B == {Item("rejected", rejected')}
  <2>1. Lists(besides, B)
    BY <1>2, ListsOne
  <2>2. \A x \in B : x.entity = "rejected"
    BY EntityOf
  <2>3. B # {} /\ B \subseteq {Item("rejected", rejected')}
    OBVIOUS
  <2> HIDE DEF B
  <2>4. Lists(outbox', Published(health', event, B))
    BY <1>2, <2>1, <2>2, PublishedFacts DEF DispatchStep
  <2>5. event \notin HealthTransitions
    BY <1>2 DEF HealthTransitions
  <2>6. QED
    BY <2>3, <2>4, <2>5
<1>3. QED
  BY <1>1, <1>2 DEF DispatchStep, Besides

(* One item for each entity.                                                *)
LEMMA OnePerEntity ==
  ASSUME NEW h, NEW event \in Raised, NEW r, NEW B, B \subseteq {Item("rejected", r)},
         NEW x \in Published(h, event, B), NEW y \in Published(h, event, B),
         x.entity = y.entity
  PROVE  x = y
<1>1. \A z \in CountSet(event) : \A w \in CountSet(event) : z.entity = w.entity => z = w
  BY EntityOf DEF CountSet
<1>2. \A z \in BaseSet(h, event) : \A w \in BaseSet(h, event) : z.entity = w.entity => z = w
  BY EntityOf DEF BaseSet
<1>3. \A z \in TextSet(h, event) : \A w \in TextSet(h, event) : z = w
  BY DEF TextSet
<1>4. \A z \in OutageSet(h, event) : \A w \in OutageSet(h, event) : z = w
  BY DEF OutageSet
<1>5. \A z \in HealthSet(h, event) : \A w \in HealthSet(h, event) : z = w
  BY DEF HealthSet
<1>6. \A z \in B : z.entity = "rejected" /\ \A w \in B : z = w
  BY EntityOf
<1>7. \A z \in Published(h, event, B) :
        \/ z \in CountSet(event) /\ z.entity \in {"parserFaults", "wifiFaults"}
        \/ z \in BaseSet(h, event) /\ z.entity \in {"state", "event"}
        \/ z \in TextSet(h, event) /\ z.entity = "status"
        \/ z \in OutageSet(h, event) /\ z.entity = "outage"
        \/ z \in HealthSet(h, event) /\ z.entity = "healthy"
        \/ z \in B /\ z.entity = "rejected"
  BY <1>6, SetFacts DEF Published
<1>8. CASE x \in CountSet(event) /\ x.entity \in {"parserFaults", "wifiFaults"}
  BY <1>1, <1>7, <1>8
<1>9. CASE x \in BaseSet(h, event) /\ x.entity \in {"state", "event"}
  BY <1>2, <1>7, <1>9
<1>10. CASE x \in TextSet(h, event) /\ x.entity = "status"
  BY <1>3, <1>7, <1>10
<1>11. CASE x \in OutageSet(h, event) /\ x.entity = "outage"
  BY <1>4, <1>7, <1>11
<1>12. CASE x \in HealthSet(h, event) /\ x.entity = "healthy"
  BY <1>5, <1>7, <1>12
<1>13. CASE x \in B /\ x.entity = "rejected"
  BY <1>6, <1>7, <1>13
<1>14. QED
  BY <1>7, <1>8, <1>9, <1>10, <1>11, <1>12, <1>13

(* The text that goes with an event.                                        *)
LEMMA TextSuits ==
  ASSUME EntityInv, EntityType, NEW event \in Raised, NEW besides, DispatchStep(event, besides),
         event \in HealthTransitions
  PROVE  Suits(DiagnosticStatus(health', event), health'.state, recoveredActive')
<1>1. Moves(event) /\ HealthInv
  BY DEF DispatchStep, EntityInv
<1>2. CASE event = "UART_STARTED"
  <2>1. health'.state = "RECEIVING_DATA" /\ ~recoveredActive'
    BY <1>1, <1>2 DEF Moves, HealthInv
  <2>2. DiagnosticStatus(health', event) = "RECEIVING_DATA"
    BY <1>2, <2>1 DEF DiagnosticStatus
  <2>3. QED
    BY <2>1, <2>2 DEF Suits, TextsOf
<1>3. CASE event = "UART_TIMEOUT"
  <2>1. health'.state = "DATA_TIMEOUT" /\ ~recoveredActive'
    BY <1>1, <1>3 DEF Moves
  <2>2. DiagnosticStatus(health', event) = "FRAME_TIMEOUT"
    BY <1>3, <2>1 DEF DiagnosticStatus
  <2>3. QED
    BY <2>1, <2>2 DEF Suits, TextsOf
<1>4. CASE event = "UART_RESTORED"
  <2>1. health'.state = "RECEIVING_DATA" /\ recoveredActive'
    BY <1>1, <1>4 DEF Moves
  <2>2. DiagnosticStatus(health', event) = "RECOVERED"
    BY <1>4 DEF DiagnosticStatus
  <2>3. QED
    BY <2>1, <2>2 DEF Suits, TextsOf
<1>5. QED
  BY <1>2, <1>3, <1>4 DEF HealthTransitions, Raised

(* Everything published is what is known then.                              *)
LEMMA DispatchProper ==
  ASSUME EntityInv, EntityType, NEW event \in Raised, NEW besides, DispatchStep(event, besides),
         NEW B, B \subseteq {Item("rejected", rejected')},
         NEW x \in Published(health', event, B)
  PROVE  Proper(x)'
<1>1. /\ Known'.state = health'.state /\ Known'.event = event
      /\ Known'.outage = health'.outage /\ Known'.rejected = rejected'
      /\ Known'.parserFaults = counters'["parserFaults"]
      /\ Known'.wifiFaults = counters'["wifiFaults"]
  BY DEF Known, DispatchStep
<1>2. CASE x \in CountSet(event)
  <2>1. PICK name \in RecordEvent(event) :
          x = Item(name, Counted(counters, RecordEvent(event))[name])
    BY <1>2 DEF CountSet
  <2>2. name \in {"parserFaults", "wifiFaults"}
    BY DEF RecordEvent, Raised
  <2>3. x.entity = name /\ x.value = counters'[name]
    BY <2>1, EntityOf DEF DispatchStep
  <2>4. QED
    BY <1>1, <2>2, <2>3 DEF Proper, Plain
<1>3. CASE x \in BaseSet(health', event)
  BY <1>1, <1>3, EntityOf DEF BaseSet, Proper, Plain
<1>4. CASE x \in TextSet(health', event)
  <2>1. /\ event \in HealthTransitions
        /\ x.entity = "status" /\ x.value = DiagnosticStatus(health', event)
    BY <1>4, EntityOf DEF TextSet
  <2>2. Suits(x.value, health'.state, recoveredActive')
    BY <2>1, TextSuits
  <2>3. QED
    BY <2>1, <2>2 DEF Proper, Plain
<1>5. CASE x \in OutageSet(health', event)
  <2>1. x.entity = "outage" /\ x.value = health'.outage
    BY <1>5, EntityOf DEF OutageSet
  <2>2. QED
    BY <1>1, <2>1 DEF Proper, Plain
<1>6. CASE x \in HealthSet(health', event)
  <2>1. x = Item("healthy", ParserHealthy(health'))
    BY <1>6 DEF HealthSet
  <2>2. x.entity = "healthy"
    BY <2>1, EntityOf
  <2>3. x.value \in BOOLEAN /\ (x.value <=> ParserHealthy(health'))
    BY <2>1 DEF Item, ParserHealthy
  <2>4. QED
    BY <2>2, <2>3 DEF Proper, Plain
<1>7. CASE x \in B
  <2>1. x.entity = "rejected" /\ x.value = rejected'
    BY <1>7, EntityOf
  <2>2. QED
    BY <1>1, <2>1 DEF Proper, Plain
<1>8. QED
  BY <1>2, <1>3, <1>4, <1>5, <1>6, <1>7 DEF Published

(* What is published then is proper, one item for each entity, the health   *)
(* last.                                                                    *)
LEMMA DispatchOutboxInv ==
  ASSUME EntityInv, EntityType, NEW event \in Raised, NEW besides, DispatchStep(event, besides)
  PROVE  OutboxInv'
<1>1. PICK B : /\ Lists(outbox', Published(health', event, B))
               /\ event \in HealthTransitions =>
                    LastItem(outbox') = Item("healthy", ParserHealthy(health'))
               /\ B \subseteq {Item("rejected", rejected')}
               /\ rejected' # rejected => B # {}
  BY DispatchOutbox
<1> DEFINE S == Published(health', event, B)
<1>2. /\ outbox' \in Seq(S)
      /\ \A i, j \in 1 .. Len(outbox') : outbox'[i] = outbox'[j] => i = j
  BY <1>1 DEF Lists
<1>3. \A x \in S : Proper(x)'
  BY <1>1, DispatchProper
<1>4. \A x, y \in S : x.entity = y.entity => x = y
  BY <1>1, OnePerEntity
<1>5. \A x \in S : x.entity = "healthy" => event \in HealthTransitions
  <2>1. \A x \in B : x.entity = "rejected"
    BY <1>1, EntityOf
  <2>2. \A x \in S : x.entity = "healthy" => x \in HealthSet(health', event)
    BY <2>1, SetFacts DEF Published
  <2>3. QED
    BY <2>2 DEF HealthSet
<1> HIDE DEF S
<1>6. Len(outbox') \in Nat /\ \A i \in 1 .. Len(outbox') : outbox'[i] \in S
  BY <1>2, LenProperties, ElementOfSeq
<1>7. outbox' \in Seq(Range(outbox'))
  BY <1>2, SeqOfRange
<1>8. (\A i \in 1 .. Len(outbox) : Proper(outbox[i]))'
  BY <1>3, <1>6 DEF Proper
<1>9. \A i, j \in 1 .. Len(outbox') : outbox'[i].entity = outbox'[j].entity => i = j
  BY <1>2, <1>4, <1>6
<1>10. ASSUME NEW i \in 1 .. Len(outbox'), outbox'[i].entity = "healthy"
       PROVE  i = Len(outbox')
  <2>1. event \in HealthTransitions
    BY <1>5, <1>6, <1>10
  <2>2. LastItem(outbox') = Item("healthy", ParserHealthy(health'))
    BY <1>1, <2>1
  <2>3. outbox'[Len(outbox')].entity = "healthy" /\ Len(outbox') \in 1 .. Len(outbox')
    BY <1>6, <2>2, EntityOf DEF LastItem
  <2>4. QED
    BY <1>9, <1>10, <2>3
<1>11. QED
  BY <1>7, <1>8, <1>9, <1>10 DEF OutboxInv

(* Which entities are published.                                            *)
LEMMA DispatchPending ==
  ASSUME EntityInv, NEW event \in Raised, NEW besides, DispatchStep(event, besides)
  PROVE  /\ Pending("state")' /\ Pending("event")'
         /\ event \in HealthTransitions => Pending("status")' /\ Pending("healthy")'
         /\ Pending("healthy")' \/ Pending("status")' => event \in HealthTransitions
         /\ event = "UART_RESTORED" => Pending("outage")'
         /\ rejected' # rejected => Pending("rejected")'
         /\ \A name \in RecordEvent(event) : Pending(name)'
<1>1. PICK B : /\ Lists(outbox', Published(health', event, B))
               /\ B \subseteq {Item("rejected", rejected')}
               /\ rejected' # rejected => B # {}
  BY DispatchOutbox
<1> DEFINE S == Published(health', event, B)
<1>2. /\ outbox' \in Seq(S)
      /\ \A x \in S : \E i \in 1 .. Len(outbox') : outbox'[i] = x
  BY <1>1 DEF Lists
<1>3. \A x \in S : x.entity \in {"healthy", "status"} => event \in HealthTransitions
  <2>1. \A x \in B : x.entity = "rejected"
    BY <1>1, EntityOf
  <2>2. \A x \in S : x.entity \in {"healthy", "status"} =>
                      x \in HealthSet(health', event) \union TextSet(health', event)
    BY <2>1, SetFacts DEF Published
  <2>3. QED
    BY <2>2 DEF HealthSet, TextSet
<1>4. Item("state", health'.state) \in S /\ Item("event", event) \in S
  BY DEF Published, BaseSet
<1>5. event \in HealthTransitions =>
        /\ Item("status", DiagnosticStatus(health', event)) \in S
        /\ Item("healthy", ParserHealthy(health')) \in S
  BY DEF Published, TextSet, HealthSet
<1>6. event = "UART_RESTORED" => Item("outage", health'.outage) \in S
  BY DEF Published, OutageSet, DispatchStep, Moves
<1>7. rejected' # rejected => Item("rejected", rejected') \in S
  BY <1>1 DEF Published
<1>8. \A name \in RecordEvent(event) :
        Item(name, Counted(counters, RecordEvent(event))[name]) \in S
  BY DEF Published, CountSet
<1> HIDE DEF S
<1>9. \A x \in S : \E i \in 1 .. Len(outbox') : outbox'[i].entity = x.entity
  BY <1>2
<1>10. \A i \in 1 .. Len(outbox') : outbox'[i] \in S
  BY <1>2, ElementOfSeq
<1>11. Pending("state")' /\ Pending("event")'
  BY <1>4, <1>9, EntityOf DEF Pending
<1>12. event \in HealthTransitions => Pending("status")' /\ Pending("healthy")'
  <2> SUFFICES ASSUME event \in HealthTransitions PROVE Pending("status")' /\ Pending("healthy")'
    OBVIOUS
  <2> DEFINE text == Item("status", DiagnosticStatus(health', event))
             well == Item("healthy", ParserHealthy(health'))
  <2>1. text \in S /\ well \in S
    BY <1>5
  <2>2. text.entity = "status" /\ well.entity = "healthy"
    BY EntityOf
  <2> HIDE DEF text, well
  <2>3. QED
    BY <1>9, <2>1, <2>2 DEF Pending
<1>13. Pending("healthy")' \/ Pending("status")' => event \in HealthTransitions
  BY <1>3, <1>10 DEF Pending
<1>14. event = "UART_RESTORED" => Pending("outage")'
  BY <1>6, <1>9, EntityOf DEF Pending
<1>15. rejected' # rejected => Pending("rejected")'
  BY <1>7, <1>9, EntityOf DEF Pending
<1>16. ASSUME NEW name \in RecordEvent(event) PROVE Pending(name)'
  BY <1>8, <1>9, EntityOf DEF Pending
<1>17. QED
  BY <1>11, <1>12, <1>13, <1>14, <1>15, <1>16

(* Counting one more, modulo the width of the counters.                     *)
LEMMA IncrementModulo == \A n \in Nat : Increment(n % CounterWrap) = (n + 1) % CounterWrap
<1> TAKE n \in Nat
<1> DEFINE r == n % CounterWrap
           q == n \div CounterWrap
<1>1. CounterWrap \in Nat \ {0}
  BY CounterAssumption
<1>2. r \in 0 .. CounterWrap - 1 /\ q \in Nat /\ n = q * CounterWrap + r
  BY <1>1
<1>3. CASE r = CounterWrap - 1
  <2>1. n + 1 = (q + 1) * CounterWrap
    BY <1>1, <1>2, <1>3
  <2>2. ((q + 1) * CounterWrap) % CounterWrap = 0
    BY <1>1, <1>2
  <2>3. QED
    BY <1>3, <2>1, <2>2 DEF Increment
<1>4. CASE r # CounterWrap - 1
  <2>1. n + 1 = q * CounterWrap + (r + 1) /\ r + 1 \in 0 .. CounterWrap - 1
    BY <1>1, <1>2, <1>4
  <2>2. (n + 1) % CounterWrap = r + 1
    <3> DEFINE s == (n + 1) % CounterWrap
               p == (n + 1) \div CounterWrap
    <3>1. s \in 0 .. CounterWrap - 1 /\ p \in Nat /\ n + 1 = p * CounterWrap + s
      BY <1>1
    <3> HIDE DEF r, q, s, p
    <3>2. (p - q) * CounterWrap = r + 1 - s
      BY <1>1, <1>2, <2>1, <3>1
    <3>3. \A k \in Nat \ {0} : k * CounterWrap >= CounterWrap
      BY <1>1
    <3>4. ~(p > q)
      <4>1. p > q => p - q \in Nat \ {0}
        BY <1>2, <3>1
      <4>2. QED
        BY <1>1, <1>2, <2>1, <3>1, <3>2, <3>3, <4>1
    <3>5. ~(q > p)
      <4>1. q > p => q - p \in Nat \ {0}
        BY <1>2, <3>1
      <4>2. (q - p) * CounterWrap = s - (r + 1)
        BY <1>1, <1>2, <2>1, <3>1
      <4>3. QED
        BY <1>1, <1>2, <2>1, <3>1, <3>3, <4>1, <4>2
    <3>6. p = q
      BY <1>2, <3>1, <3>4, <3>5
    <3>7. QED
      BY <1>1, <1>2, <2>1, <3>1, <3>6 DEF s
  <2>3. QED
    BY <1>4, <2>2 DEF Increment
<1>5. QED
  BY <1>3, <1>4

(* A dispatched event keeps the invariant.                                  *)
LEMMA DispatchKeeps ==
  ASSUME EntityInv, EntityType, NEW event \in Raised, NEW besides, DispatchStep(event, besides)
  PROVE  EntityInv'
<1>1. /\ Pending("state")' /\ Pending("event")'
      /\ event \in HealthTransitions => Pending("status")' /\ Pending("healthy")'
      /\ Pending("healthy")' => event \in HealthTransitions
      /\ event = "UART_RESTORED" => Pending("outage")'
      /\ rejected' # rejected => Pending("rejected")'
      /\ \A name \in RecordEvent(event) : Pending(name)'
  BY DispatchPending
<1>2. /\ outbox = << >> /\ Moves(event) /\ lastEvent' = event
      /\ counters' = Counted(counters, RecordEvent(event))
      /\ UNCHANGED <<shown, warnings, chirps>>
  BY DEF DispatchStep
<1>3. /\ \A e : ~Pending(e)
      /\ \A e : Unheard(e) = 0
  BY <1>2, EmptyOutbox
<1>4. /\ \A e \in Plain : shown[e] = Known[e]
      /\ Suits(shown.status, health.state, recoveredActive)
      /\ shown.healthy <=> ParserHealthy(health)
  BY <1>3 DEF EntityInv, ShownInv
<1>5. event \in HealthTransitions <=> event \in {"UART_STARTED", "UART_TIMEOUT", "UART_RESTORED"}
  BY DEF HealthTransitions, Raised
<1>6. OutboxInv'
  BY DispatchOutboxInv
<1>7. ShownInv'
  <2>1. ASSUME NEW e \in Plain PROVE shown'[e] = Known'[e] \/ Pending(e)'
    <3>1. CASE e \in {"state", "event"}
      BY <1>1, <3>1
    <3>2. CASE e = "outage"
      <4>1. CASE event = "UART_RESTORED"
        BY <1>1, <3>2, <4>1
      <4>2. CASE event # "UART_RESTORED"
        <5>1. health'.outage = health.outage
          BY <1>2, <4>2 DEF Moves
        <5>2. Known'.outage = Known.outage
          BY <5>1 DEF Known
        <5>3. QED
          BY <1>2, <1>4, <3>2, <5>2
      <4>3. QED
        BY <4>1, <4>2
    <3>3. CASE e = "rejected"
      <4>1. CASE rejected' # rejected
        BY <1>1, <3>3, <4>1
      <4>2. CASE rejected' = rejected
        BY <1>2, <1>4, <3>3, <4>2 DEF Known
      <4>3. QED
        BY <4>1, <4>2
    <3>4. CASE e \in {"parserFaults", "wifiFaults"}
      <4>1. CASE e \in RecordEvent(event)
        BY <1>1, <4>1
      <4>2. CASE e \notin RecordEvent(event)
        <5>1. counters'[e] = counters[e]
          BY <1>2, <3>4, <4>2 DEF Counted, EntityType
        <5>2. Known'[e] = Known[e]
          BY <3>4, <5>1 DEF Known
        <5>3. QED
          BY <1>2, <1>4, <5>2
      <4>3. QED
        BY <4>1, <4>2
    <3>5. QED
      BY <3>1, <3>2, <3>3, <3>4 DEF Plain
  <2>2. Suits(shown'.status, health'.state, recoveredActive') \/ Pending("status")'
    <3>1. CASE event \in HealthTransitions
      BY <1>1, <3>1
    <3>2. CASE event \notin HealthTransitions
      <4>1. health' = health /\ recoveredActive' = recoveredActive
        BY <1>2, <1>5, <3>2 DEF Moves
      <4>2. QED
        BY <1>2, <1>4, <4>1
    <3>3. QED
      BY <3>1, <3>2
  <2>3. (shown'.healthy <=> ParserHealthy(health')) \/ Pending("healthy")'
    <3>1. CASE event \in HealthTransitions
      BY <1>1, <3>1
    <3>2. CASE event \notin HealthTransitions
      <4>1. health' = health
        BY <1>2, <1>5, <3>2 DEF Moves
      <4>2. QED
        BY <1>2, <1>4, <4>1
    <3>3. QED
      BY <3>1, <3>2
  <2>4. QED
    BY <2>1, <2>2, <2>3 DEF ShownInv
<1>8. HealthInv'
  <2>1. Pending("healthy")' => Transition(event, health')
    <3>1. SUFFICES ASSUME event \in {"UART_STARTED", "UART_TIMEOUT", "UART_RESTORED"}
                   PROVE  Transition(event, health')
      BY <1>1, <1>5
    <3>2. QED
      BY <1>2, <3>1 DEF Moves, Transition, EntityInv, HealthInv
  <2>2. health'.state \in {"WAITING_FOR_UART", "RECEIVING_DATA", "DATA_TIMEOUT"}
    BY <1>2 DEF Moves, EntityInv, HealthInv
  <2>3. health'.state = "WAITING_FOR_UART" => ~health'.seenFrame /\ ~health'.hadOutage
    BY <1>2 DEF Moves, EntityInv, HealthInv
  <2>4. health'.state = "RECEIVING_DATA" => health'.seenFrame
    BY <1>2 DEF Moves, EntityInv, HealthInv
  <2>5. recoveredActive' => health'.state = "RECEIVING_DATA"
    BY <1>2 DEF Moves, EntityInv, HealthInv
  <2>6. QED
    BY <1>2, <2>1, <2>2, <2>3, <2>4, <2>5 DEF HealthInv
<1>9. BuzzerInv'
  <2>1. \A e : Unheard(e)' = IF event = e THEN 1 ELSE 0
    BY <1>1, <1>2 DEF Unheard
  <2>2. /\ counters["parserFaults"] = warnings % CounterWrap
        /\ warnings - chirps = IF health.state = "DATA_TIMEOUT" THEN 1 ELSE 0
        /\ warnings \in Nat /\ chirps \in Nat
    <3>1. warnings + 0 = warnings /\ warnings - chirps + 0 - 0 = warnings - chirps
      BY DEF EntityType
    <3>2. QED
      BY <1>3, <3>1 DEF EntityInv, BuzzerInv, EntityType
  <2>3. counters'["parserFaults"] = (warnings + Unheard("UART_TIMEOUT")') % CounterWrap
    <3>1. CASE event = "UART_TIMEOUT"
      <4>1. counters'["parserFaults"] = Increment(counters["parserFaults"])
        BY <1>2, <3>1 DEF Counted, RecordEvent, EntityType
      <4>2. QED
        BY <2>1, <2>2, <3>1, <4>1, IncrementModulo
    <3>2. CASE event # "UART_TIMEOUT"
      <4>1. counters'["parserFaults"] = counters["parserFaults"]
        BY <1>2, <3>2 DEF Counted, RecordEvent, EntityType, Raised
      <4>2. QED
        BY <2>1, <2>2, <3>2, <4>1
    <3>3. QED
      BY <3>1, <3>2
  <2>4. warnings - chirps + Unheard("UART_TIMEOUT")' - Unheard("UART_RESTORED")'
          = IF health'.state = "DATA_TIMEOUT" THEN 1 ELSE 0
    <3>1. CASE event = "UART_TIMEOUT"
      BY <1>2, <2>1, <2>2, <3>1 DEF Moves
    <3>2. CASE event = "UART_RESTORED"
      BY <1>2, <2>1, <2>2, <3>2 DEF Moves
    <3>3. CASE event \notin {"UART_TIMEOUT", "UART_RESTORED"}
      <4>1. Unheard("UART_TIMEOUT")' = 0 /\ Unheard("UART_RESTORED")' = 0
        BY <2>1, <3>3
      <4>2. health'.state = "DATA_TIMEOUT" <=> health.state = "DATA_TIMEOUT"
        BY <1>2, <3>3 DEF Moves
      <4>3. QED
        BY <2>2, <4>1, <4>2
    <3>4. QED
      BY <3>1, <3>2, <3>3
  <2>5. QED
    BY <1>2, <2>3, <2>4 DEF BuzzerInv
<1>10. QED
  BY <1>6, <1>7, <1>8, <1>9 DEF EntityInv

-----------------------------------------------------------------------------
(* The delivery of one publication.                                         *)

DeliverStep(x) ==
  /\ Proper(x)
  /\ Len(outbox) \in Nat \ {0} /\ x = outbox[1]
  /\ outbox' \in Seq(Range(outbox')) /\ Len(outbox') = Len(outbox) - 1
  /\ \A i \in 1 .. Len(outbox') : outbox'[i] = outbox[i + 1]
  /\ shown' = [shown EXCEPT ![x.entity] = x.value]
  /\ warnings' = warnings + (IF x.entity = "event" /\ x.value = "UART_TIMEOUT" THEN 1 ELSE 0)
  /\ chirps' = chirps + (IF x.entity = "event" /\ x.value = "UART_RESTORED" THEN 1 ELSE 0)
  /\ restoredFor' = (IF x.entity = "status" /\ x.value = "RECOVERED" THEN 0 ELSE restoredFor)
  /\ UNCHANGED <<clock, pc, loopNow, feed, tracker, simulation, lastEval, periodic, wifiOut>>

(* A delivery shows a proper item, the first of the outbox.                 *)
LEMMA DeliverEffect == EntityInv /\ Deliver => \E x : DeliverStep(x)
<1> SUFFICES ASSUME EntityInv, Deliver PROVE \E x : DeliverStep(x)
  OBVIOUS
<1> DEFINE S == Range(outbox)
           x == outbox[1]
<1>1. outbox \in Seq(S) /\ outbox # << >> /\ outbox' = Tail(outbox)
  BY DEF EntityInv, OutboxInv, Deliver
<1>2. /\ shown' = [shown EXCEPT ![Head(outbox).entity] = Head(outbox).value]
      /\ warnings' = warnings + (IF /\ Head(outbox).entity = "event"
                                    /\ Head(outbox).value = "UART_TIMEOUT" THEN 1 ELSE 0)
      /\ chirps' = chirps + (IF /\ Head(outbox).entity = "event"
                                /\ Head(outbox).value = "UART_RESTORED" THEN 1 ELSE 0)
      /\ restoredFor' = (IF Head(outbox).entity = "status" /\ Head(outbox).value = "RECOVERED"
                         THEN 0 ELSE restoredFor)
      /\ UNCHANGED <<clock, pc, loopNow, feed, tracker, simulation, lastEval, periodic, wifiOut>>
  BY DEF Deliver
<1> HIDE DEF S
<1>3. Len(outbox) \in Nat \ {0}
  BY <1>1, EmptySeq
<1>4. Head(outbox) = x
  BY <1>1
<1>5. /\ Tail(outbox) \in Seq(S) /\ Len(Tail(outbox)) = Len(outbox) - 1
      /\ \A i \in 1 .. Len(Tail(outbox)) : Tail(outbox)[i] = outbox[i + 1]
  BY <1>1, HeadTailProperties
<1>6. outbox' \in Seq(Range(outbox'))
  BY <1>1, <1>5, SeqOfRange
<1>7. Proper(x)
  BY <1>3 DEF EntityInv, OutboxInv
<1>8. DeliverStep(x)
  BY <1>1, <1>2, <1>3, <1>4, <1>5, <1>6, <1>7 DEF DeliverStep
<1>9. QED
  BY <1>8

(* A delivery keeps the invariant: what is not under way any more is shown. *)
LEMMA DeliverKeeps ==
  ASSUME EntityInv, EntityType, NEW x, DeliverStep(x)
  PROVE  EntityInv' /\ EntityType'
<1>1. /\ Proper(x)
      /\ Len(outbox) \in Nat \ {0} /\ x = outbox[1]
      /\ outbox' \in Seq(Range(outbox')) /\ Len(outbox') = Len(outbox) - 1
      /\ \A i \in 1 .. Len(outbox') : outbox'[i] = outbox[i + 1]
      /\ shown' = [shown EXCEPT ![x.entity] = x.value]
      /\ warnings' = warnings + (IF x.entity = "event" /\ x.value = "UART_TIMEOUT" THEN 1 ELSE 0)
      /\ chirps' = chirps + (IF x.entity = "event" /\ x.value = "UART_RESTORED" THEN 1 ELSE 0)
  BY DEF DeliverStep
<1>2. UNCHANGED <<health, lastEvent, counters, rejected, recoveredActive>>
  BY DEF DeliverStep, tracker, periodic
<1>3. Known' = Known
  BY <1>2 DEF Known
<1>4. \A y : Proper(y)' <=> Proper(y)
  BY <1>2, <1>3 DEF Proper
<1>5. \A i \in 1 .. Len(outbox') : i + 1 \in 1 .. Len(outbox) /\ outbox'[i] = outbox[i + 1]
  BY <1>1
<1>6. OutboxInv'
  <2>1. (\A i \in 1 .. Len(outbox) : Proper(outbox[i]))'
    <3>1. \A i \in 1 .. Len(outbox') : Proper(outbox[i + 1])
      BY <1>5 DEF EntityInv, OutboxInv
    <3>2. QED
      BY <1>2, <1>3, <1>5, <3>1 DEF Proper
  <2>2. \A i, j \in 1 .. Len(outbox') : outbox'[i].entity = outbox'[j].entity => i = j
    <3>1. \A i, j \in 1 .. Len(outbox') :
            outbox[i + 1].entity = outbox[j + 1].entity => i + 1 = j + 1
      BY <1>5 DEF EntityInv, OutboxInv
    <3>2. QED
      BY <1>5, <3>1
  <2>3. \A i \in 1 .. Len(outbox') : outbox'[i].entity = "healthy" => i = Len(outbox')
    <3>1. \A i \in 1 .. Len(outbox') : outbox[i + 1].entity = "healthy" => i + 1 = Len(outbox)
      BY <1>5 DEF EntityInv, OutboxInv
    <3>2. QED
      BY <1>1, <1>5, <3>1
  <2>4. QED
    BY <1>1, <2>1, <2>2, <2>3 DEF OutboxInv
<1>7. ASSUME NEW e, e # x.entity PROVE Pending(e)' <=> Pending(e)
  <2>1. ASSUME Pending(e) PROVE Pending(e)'
    <3>1. PICK i \in 1 .. Len(outbox) : outbox[i].entity = e
      BY <2>1 DEF Pending
    <3>2. i # 1
      BY <1>1, <1>7, <3>1
    <3>3. i - 1 \in 1 .. Len(outbox') /\ (i - 1) + 1 = i
      BY <1>1, <3>2
    <3>4. outbox'[i - 1].entity = e
      BY <1>1, <3>1, <3>3
    <3>5. QED
      BY <3>3, <3>4 DEF Pending
  <2>2. ASSUME Pending(e)' PROVE Pending(e)
    <3>1. PICK i \in 1 .. Len(outbox') : outbox'[i].entity = e
      BY <2>2 DEF Pending
    <3>2. QED
      BY <1>5, <3>1 DEF Pending
  <2>3. QED
    BY <2>1, <2>2
<1>8. Pending(x.entity) /\ ~Pending(x.entity)'
  <2>1. Pending(x.entity)
    BY <1>1 DEF Pending
  <2>2. ASSUME NEW i \in 1 .. Len(outbox'), outbox'[i].entity = x.entity PROVE FALSE
    <3>1. i + 1 = 1
      BY <1>1, <1>5, <2>2 DEF EntityInv, OutboxInv
    <3>2. QED
      BY <3>1
  <2>3. QED
    BY <2>1, <2>2 DEF Pending
<1>9. x.entity \in {"status", "healthy", "state", "event", "outage", "rejected", "parserFaults",
                    "wifiFaults"}
  BY <1>1 DEF Proper, Plain
<1>10. DOMAIN shown = {"status", "healthy", "state", "event", "outage", "rejected",
                       "parserFaults", "wifiFaults"}
  BY DEF EntityType
<1>11. /\ shown'[x.entity] = x.value
       /\ \A e \in DOMAIN shown \ {x.entity} : shown'[e] = shown[e]
  BY <1>1, <1>9, <1>10
<1>12. ShownInv'
  <2>1. ASSUME NEW e \in Plain PROVE shown'[e] = Known[e] \/ Pending(e)'
    <3>1. CASE e = x.entity
      BY <1>1, <1>11, <3>1 DEF Proper
    <3>2. CASE e # x.entity
      <4>1. shown'[e] = shown[e]
        BY <1>10, <1>11, <3>2 DEF Plain
      <4>2. QED
        BY <1>7, <3>2, <4>1 DEF EntityInv, ShownInv
    <3>3. QED
      BY <3>1, <3>2
  <2>2. Suits(shown'.status, health.state, recoveredActive) \/ Pending("status")'
    <3>1. CASE x.entity = "status"
      BY <1>1, <1>11, <3>1 DEF Proper
    <3>2. CASE x.entity # "status"
      <4>1. shown'.status = shown.status
        BY <1>10, <1>11, <3>2
      <4>2. QED
        BY <1>7, <3>2, <4>1 DEF EntityInv, ShownInv
    <3>3. QED
      BY <3>1, <3>2
  <2>3. (shown'.healthy <=> ParserHealthy(health)) \/ Pending("healthy")'
    <3>1. CASE x.entity = "healthy"
      <4>1. shown'.healthy = x.value
        BY <1>11, <3>1
      <4>2. x.value <=> ParserHealthy(health)
        BY <1>1, <3>1 DEF Proper
      <4>3. QED
        BY <4>1, <4>2
    <3>2. CASE x.entity # "healthy"
      <4>1. shown'.healthy = shown.healthy
        BY <1>10, <1>11, <3>2
      <4>2. QED
        BY <1>7, <3>2, <4>1 DEF EntityInv, ShownInv
    <3>3. QED
      BY <3>1, <3>2
  <2>4. QED
    BY <1>2, <1>3, <2>1, <2>2, <2>3 DEF ShownInv
<1>13. HealthInv'
  <2>1. Pending("healthy")' => Pending("healthy")
    BY <1>7, <1>8
  <2>2. QED
    BY <1>2, <2>1 DEF EntityInv, HealthInv
<1>14. BuzzerInv'
  <2>1. CASE x.entity = "event"
    <3>1. x.value = lastEvent
      BY <1>1, <2>1 DEF Proper, Plain, Known
    <3>2. \A e : Unheard(e) = IF lastEvent = e THEN 1 ELSE 0
      BY <1>8, <2>1 DEF Unheard
    <3>3. \A e : Unheard(e)' = 0
      BY <1>8, <2>1 DEF Unheard
    <3>4. /\ warnings' + Unheard("UART_TIMEOUT")' = warnings + Unheard("UART_TIMEOUT")
          /\ warnings' - chirps' + Unheard("UART_TIMEOUT")' - Unheard("UART_RESTORED")'
               = warnings - chirps + Unheard("UART_TIMEOUT") - Unheard("UART_RESTORED")
      BY <1>1, <2>1, <3>1, <3>2, <3>3 DEF EntityType
    <3>5. QED
      BY <1>2, <3>4 DEF EntityInv, BuzzerInv
  <2>2. CASE x.entity # "event"
    <3>1. \A e : Unheard(e)' = Unheard(e)
      BY <1>2, <1>7, <2>2 DEF Unheard
    <3>2. warnings' = warnings /\ chirps' = chirps
      BY <1>1, <2>2 DEF EntityType
    <3>3. QED
      BY <1>2, <3>1, <3>2 DEF EntityInv, BuzzerInv
  <2>3. QED
    BY <2>1, <2>2
<1>15. EntityType'
  <2>1. /\ x.entity = "status" => x.value \in Statuses
        /\ x.entity = "healthy" => x.value \in BOOLEAN
        /\ x.entity = "state" => x.value \in ParserStates
        /\ x.entity = "event" => x.value \in Events
        /\ x.entity = "outage" => x.value \in Timestamps
        /\ x.entity = "rejected" => x.value \in Rejected
        /\ x.entity = "parserFaults" => x.value \in CounterValues
        /\ x.entity = "wifiFaults" => x.value \in CounterValues
    <3>1. x.entity = "status" => x.value \in Statuses
      BY <1>1 DEF Proper, Suits, TextsOf, Statuses
    <3>2. x.entity = "healthy" => x.value \in BOOLEAN
      BY <1>1 DEF Proper
    <3>3. x.entity \in Plain => x.value = Known[x.entity]
      BY <1>1 DEF Proper
    <3>4. /\ Known["state"] \in ParserStates /\ Known["event"] \in Events
          /\ Known["outage"] \in Timestamps /\ Known["rejected"] \in Rejected
          /\ Known["parserFaults"] \in CounterValues /\ Known["wifiFaults"] \in CounterValues
      BY DEF Known, EntityType, Tracker
    <3>5. QED
      BY <3>1, <3>2, <3>3, <3>4 DEF Plain
  <2>2. shown' \in [status : Statuses, healthy : BOOLEAN, state : ParserStates, event : Events,
                    outage : Timestamps, rejected : Rejected, parserFaults : CounterValues,
                    wifiFaults : CounterValues]
    BY <1>1, <1>9, <2>1 DEF EntityType
  <2>3. warnings' \in Nat /\ chirps' \in Nat
    BY <1>1 DEF EntityType
  <2>4. QED
    BY <1>2, <2>2, <2>3 DEF EntityType
<1>16. QED
  BY <1>6, <1>12, <1>13, <1>14, <1>15 DEF EntityInv

-----------------------------------------------------------------------------
(* The statements of loop() and the calls between two iterations.           *)

Statements == {"idle", "malformed", "rejection", "frame", "watchdog", "wifi", "periodic"}

(* A statement or call announces nothing, or it dispatches one event.       *)
Announces ==
  \/ QuietStep /\ health' \in Tracker /\ recoveredAt' = recoveredAt
  \/ \E event \in Raised : \E besides :
       /\ DispatchStep(event, besides)
       /\ recoveredAt' = IF event = "UART_RESTORED" THEN now ELSE recoveredAt

PhaseStep ==
  /\ Announces
  /\ UNCHANGED <<now, gap, loopNow, restoredFor, lastPublish, waitingPublished>>
  /\ feed' = feed /\ simulation' \in BOOLEAN
  /\ pc' \in Statements /\ (pc' = "idle" => pc = "idle")
  /\ lastEval' \in {lastEval, loopNow}
  /\ wifiOut' \in BOOLEAN

LoopType ==
  /\ now \in 0 .. Horizon /\ gap \in 0 .. MaxGap /\ loopNow \in 0 .. Horizon
  /\ pc \in Statements
  /\ feed \in FeedResults
  /\ simulation \in BOOLEAN /\ wifiOut \in BOOLEAN
  /\ lastEval \in 0 .. Horizon /\ lastPublish \in 0 .. Horizon /\ recoveredAt \in 0 .. Horizon
  /\ waitingPublished \in BOOLEAN
  /\ restoredFor \in Nat

(* The types of the entities and of the loop are all types.                 *)
LEMMA Types == TypeOK <=> EntityType /\ LoopType
BY DEF TypeOK, EntityType, LoopType, Statements

(* The model's times are all timestamps.                                    *)
LEMMA Moments == \A t \in 0 .. Horizon : t \in Timestamps
BY ComponentAssumption, WrapAssumption DEF Timestamps

(* What an accepted frame does to the tracker.                              *)
LEMMA FrameFacts ==
  ASSUME HealthInv, health \in Tracker, NEW t \in Timestamps
  PROVE  LET u == RecordAcceptedFrame(health, simulation, t)
         IN  /\ u.tracker \in Tracker
             /\ \/ /\ u.event = "NONE"
                   /\ u.tracker.state = health.state /\ u.tracker.outage = health.outage
                   /\ u.tracker.seenFrame <=> health.seenFrame
                   /\ u.tracker.hadOutage <=> health.hadOutage
                \/ /\ u.event = "UART_STARTED"
                   /\ health.state = "WAITING_FOR_UART"
                   /\ u.tracker.state = "RECEIVING_DATA" /\ u.tracker.seenFrame
                   /\ u.tracker.hadOutage <=> health.hadOutage
                   /\ u.tracker.outage = health.outage
                \/ /\ u.event = "UART_RESTORED"
                   /\ health.state = "DATA_TIMEOUT"
                   /\ u.tracker.state = "RECEIVING_DATA" /\ u.tracker.seenFrame
                   /\ u.tracker.hadOutage
<1> DEFINE u == RecordAcceptedFrame(health, simulation, t)
           accepted == [health EXCEPT !.lastFrame = t, !.seenFrame = TRUE,
                                      !.state = "RECEIVING_DATA"]
           restored == [accepted EXCEPT !.outage = Elapsed(t, health.outageAt),
                                        !.hadOutage = TRUE]
<1>1. accepted \in Tracker
  BY DEF Tracker, ParserStates
<1>2. /\ accepted.state = "RECEIVING_DATA" /\ accepted.seenFrame
      /\ accepted.hadOutage <=> health.hadOutage
      /\ accepted.outage = health.outage
  BY DEF Tracker
<1>3. Elapsed(t, health.outageAt) \in Timestamps
  BY ElapsedType DEF Tracker
<1> HIDE DEF accepted
<1>4. restored \in Tracker
  BY <1>1, <1>3 DEF Tracker
<1>5. /\ restored.state = "RECEIVING_DATA" /\ restored.seenFrame /\ restored.hadOutage
  BY <1>1, <1>2 DEF Tracker
<1>6. u = IF simulation THEN Update(health, "NONE")
          ELSE IF health.state = "DATA_TIMEOUT" THEN Update(restored, "UART_RESTORED")
          ELSE Update(accepted, IF health.state = "RECEIVING_DATA" THEN "NONE" ELSE "UART_STARTED")
  BY DEF RecordAcceptedFrame, RecordValidFrame, accepted
<1> HIDE DEF u, restored
<1>7. CASE simulation
  BY <1>6, <1>7 DEF Update, u
<1>8. CASE ~simulation /\ health.state = "DATA_TIMEOUT"
  BY <1>4, <1>5, <1>6, <1>8 DEF Update, u
<1>9. CASE ~simulation /\ health.state = "RECEIVING_DATA"
  <2>1. u.tracker = accepted /\ u.event = "NONE"
    BY <1>6, <1>9 DEF Update
  <2>2. health.seenFrame
    BY <1>9 DEF HealthInv
  <2>3. QED
    BY <1>1, <1>2, <1>9, <2>1, <2>2 DEF u
<1>10. CASE ~simulation /\ health.state = "WAITING_FOR_UART"
  <2>1. u.tracker = accepted /\ u.event = "UART_STARTED"
    BY <1>6, <1>10 DEF Update
  <2>2. QED
    BY <1>1, <1>2, <1>10, <2>1 DEF u
<1>11. QED
  BY <1>7, <1>8, <1>9, <1>10 DEF HealthInv

(* What an evaluation of the watchdog does to it.                           *)
LEMMA TimeoutFacts ==
  ASSUME health \in Tracker, NEW t \in Timestamps
  PROVE  LET u == CheckTimeout(health, t)
         IN  /\ u.tracker \in Tracker
             /\ \/ u.event = "NONE" /\ u.tracker = health
                \/ /\ u.event = "UART_TIMEOUT"
                   /\ health.state # "DATA_TIMEOUT"
                   /\ u.tracker.state = "DATA_TIMEOUT"
                   /\ u.tracker.outage = health.outage
<1> DEFINE declared(since) == [health EXCEPT !.outageAt = since, !.state = "DATA_TIMEOUT"]
<1>1. ASSUME NEW since \in Timestamps
      PROVE  /\ declared(since) \in Tracker
             /\ declared(since).state = "DATA_TIMEOUT"
             /\ declared(since).outage = health.outage
  BY DEF Tracker, ParserStates
<1>2. health.lastFrame \in Timestamps
  BY DEF Tracker
<1>3. CheckTimeout(health, t) =
        IF GraceExpired(health, t) THEN Update(declared(t), "UART_TIMEOUT")
        ELSE IF FramesStopped(health, t) THEN Update(declared(health.lastFrame), "UART_TIMEOUT")
        ELSE Update(health, "NONE")
  BY DEF CheckTimeout, DeclareTimeout
<1>4. GraceExpired(health, t) \/ FramesStopped(health, t) => health.state # "DATA_TIMEOUT"
  BY DEF GraceExpired, FramesStopped
<1> HIDE DEF declared
<1>5. QED
  BY <1>1, <1>2, <1>3, <1>4 DEF Update

(* The health an event stands for.                                          *)
HealthMoves(event) ==
  \/ /\ event \in {"MALFORMED_FRAME", "INVALID_SENSOR_VALUE", "WIFI_TIMEOUT", "WIFI_RESTORED"}
     /\ health' = health
  \/ /\ event = "UART_STARTED"
     /\ health.state = "WAITING_FOR_UART"
     /\ health'.state = "RECEIVING_DATA" /\ health'.seenFrame
     /\ health'.hadOutage <=> health.hadOutage
     /\ health'.outage = health.outage
  \/ /\ event = "UART_TIMEOUT"
     /\ health.state # "DATA_TIMEOUT"
     /\ health'.state = "DATA_TIMEOUT"
     /\ health'.outage = health.outage
  \/ /\ event = "UART_RESTORED"
     /\ health.state = "DATA_TIMEOUT"
     /\ health'.state = "RECEIVING_DATA" /\ health'.seenFrame
     /\ health'.hadOutage

(* Dispatching an event after the tracker moved with it.                    *)
LEMMA DispatchAnnounces ==
  ASSUME EntityType, outbox = << >>, NEW event \in Raised, NEW besides,
         Dispatch(health', event, besides), HealthMoves(event), Besides(event, besides),
         health' \in Tracker, rejected' \in Rejected
  PROVE  Announces /\ UNCHANGED <<lastPublish, waitingPublished>>
<1>1. /\ lastEvent' = event
      /\ counters' = Counted(counters, RecordEvent(event))
      /\ outbox' = CounterItems(RecordEvent(event)) \o Immediate(health', event) \o besides
      /\ UNCHANGED <<lastPublish, waitingPublished, shown, warnings, chirps>>
  BY DEF Dispatch
<1>2. /\ event = "UART_RESTORED" => recoveredAt' = now /\ recoveredActive' = TRUE
      /\ event = "UART_TIMEOUT" => recoveredAt' = recoveredAt /\ recoveredActive' = FALSE
      /\ event \notin {"UART_RESTORED", "UART_TIMEOUT"} =>
           recoveredAt' = recoveredAt /\ recoveredActive' = recoveredActive
  BY DEF Dispatch
<1>3. recoveredActive' \in BOOLEAN
  BY <1>2 DEF EntityType
<1>4. Moves(event)
  BY <1>2 DEF HealthMoves, Moves
<1>5. DispatchStep(event, besides)
  BY <1>1, <1>3, <1>4 DEF DispatchStep
<1>6. recoveredAt' = IF event = "UART_RESTORED" THEN now ELSE recoveredAt
  BY <1>2
<1>7. QED
  BY <1>1, <1>5, <1>6 DEF Announces

(* Changing nothing but when a frame was received.                          *)
LEMMA QuietAnnounces ==
  ASSUME EntityType, outbox = << >>, health' \in Tracker,
         UNCHANGED <<lastEvent, counters, periodic, entities, rejected>>,
         health'.state = health.state, health'.outage = health.outage,
         health'.seenFrame <=> health.seenFrame, health'.hadOutage <=> health.hadOutage
  PROVE  Announces /\ UNCHANGED <<lastPublish, waitingPublished>>
<1>1. QuietStep
  BY DEF QuietStep, periodic, entities
<1>2. QED
  BY <1>1 DEF Announces, periodic

(* Applying an update of the tracker.                                       *)
LEMMA ApplyAnnounces ==
  ASSUME EntityType, outbox = << >>, NEW u, Apply(u), u.tracker \in Tracker,
         \/ /\ u.event = "NONE"
            /\ u.tracker.state = health.state /\ u.tracker.outage = health.outage
            /\ u.tracker.seenFrame <=> health.seenFrame
            /\ u.tracker.hadOutage <=> health.hadOutage
         \/ u.event \in Raised /\ HealthMoves(u.event)
  PROVE  Announces /\ UNCHANGED <<lastPublish, waitingPublished>>
<1>1. health' = u.tracker /\ rejected' = rejected
  BY DEF Apply
<1>2. CASE u.event = "NONE"
  <2>1. UNCHANGED <<lastEvent, counters, periodic, entities>>
    BY <1>2 DEF Apply
  <2>2. u.event \notin Raised
    BY <1>2 DEF Raised
  <2>3. QED
    BY <1>1, <2>1, <2>2, QuietAnnounces
<1>3. CASE u.event # "NONE"
  <2>1. Dispatch(health', u.event, << >>)
    BY <1>1, <1>3 DEF Apply
  <2>2. Besides(u.event, << >>) /\ rejected' \in Rejected
    BY <1>1 DEF Besides, EntityType
  <2>3. QED
    BY <1>1, <1>3, <2>1, <2>2, DispatchAnnounces
<1>4. QED
  BY <1>2, <1>3

(* Recording a rejection.                                                   *)
LEMMA RejectAnnounces ==
  ASSUME EntityType, outbox = << >>, NEW what \in Rejected, Reject(what)
  PROVE  Announces /\ UNCHANGED <<lastPublish, waitingPublished>>
<1> DEFINE event == "INVALID_SENSOR_VALUE"
           besides == <<Item("rejected", what)>>
<1>1. rejected' = what /\ health' = health /\ Dispatch(health', event, besides)
  BY DEF Reject
<1>2. HealthMoves(event) /\ Besides(event, besides)
  BY <1>1 DEF HealthMoves, Besides
<1>3. event \in Raised /\ health' \in Tracker /\ rejected' \in Rejected
  BY <1>1 DEF Raised, EntityType
<1> HIDE DEF event, besides
<1>4. QED
  BY <1>1, <1>2, <1>3, DispatchAnnounces

(* An event of the Wi-Fi watchdog.                                          *)
LEMMA WiFiAnnounces ==
  ASSUME EntityType, outbox = << >>, WiFiTransition
  PROVE  Announces /\ UNCHANGED <<lastPublish, waitingPublished>>
<1> DEFINE event == IF wifiOut THEN "WIFI_RESTORED" ELSE "WIFI_TIMEOUT"
<1>1. UNCHANGED <<health, rejected>> /\ Dispatch(health', event, << >>)
  BY DEF WiFiTransition
<1>2. HealthMoves(event) /\ Besides(event, << >>)
  BY <1>1 DEF HealthMoves, Besides
<1>3. event \in Raised /\ health' \in Tracker /\ rejected' \in Rejected
  BY <1>1 DEF Raised, EntityType
<1> HIDE DEF event
<1>4. QED
  BY <1>1, <1>2, <1>3, DispatchAnnounces

(* Each statement and call that may announce something.                     *)
LEMMA MalformedEffect ==
  ASSUME TypeOK, EntityInv, MalformedFrame
  PROVE  PhaseStep /\ pc = "malformed"
<1> DEFINE event == IF feed.malformed THEN "MALFORMED_FRAME" ELSE "NONE"
           u     == Update(health, event)
<1>1. EntityType /\ LoopType /\ outbox = << >> /\ pc = "malformed"
  BY Types DEF MalformedFrame, At
<1>2. u.tracker = health /\ u.event = event
  BY DEF Update
<1>3. \/ u.event = "NONE"
      \/ u.event \in Raised /\ HealthMoves(u.event)
  <2>1. Apply(u)
    BY DEF MalformedFrame
  <2>2. health' = health
    BY <1>2, <2>1 DEF Apply
  <2>3. QED
    BY <1>2, <2>2 DEF Raised, HealthMoves
<1>4. Apply(u) /\ u.tracker \in Tracker
  BY <1>1, <1>2 DEF MalformedFrame, EntityType
<1> HIDE DEF u
<1>5. Announces /\ UNCHANGED <<lastPublish, waitingPublished>>
  BY <1>1, <1>2, <1>3, <1>4, ApplyAnnounces
<1>6. QED
  BY <1>1, <1>5 DEF PhaseStep, MalformedFrame, Continue, clock, Statements, LoopType

(* A rejected cycle.                                                        *)
LEMMA RejectionEffect ==
  ASSUME TypeOK, EntityInv, ValidationRejection
  PROVE  PhaseStep /\ pc = "rejection"
<1>1. EntityType /\ LoopType /\ outbox = << >> /\ pc = "rejection"
  BY Types DEF ValidationRejection, At
<1>2. Announces /\ UNCHANGED <<lastPublish, waitingPublished>>
  <2>1. CASE feed.cycle = "rejected"
    <3>1. Reject("cycle") /\ "cycle" \in Rejected
      BY <2>1 DEF ValidationRejection, Rejected
    <3>2. QED
      BY <1>1, <3>1, RejectAnnounces
  <2>2. CASE feed.cycle # "rejected"
    <3>1. UNCHANGED <<tracker, periodic, entities>>
      BY <2>2 DEF ValidationRejection
    <3>2. QED
      BY <1>1, <3>1, QuietAnnounces DEF tracker, EntityType
  <2>3. QED
    BY <2>1, <2>2
<1>3. QED
  BY <1>1, <1>2 DEF PhaseStep, ValidationRejection, Continue, clock, Statements, LoopType

(* An accepted cycle.                                                       *)
LEMMA AcceptedEffect ==
  ASSUME TypeOK, EntityInv, AcceptedFrame
  PROVE  PhaseStep /\ pc = "frame"
<1> DEFINE u == RecordAcceptedFrame(health, simulation, loopNow)
           w == IF feed.cycle = "accepted" THEN u ELSE Update(health, "NONE")
<1>1. EntityType /\ LoopType /\ outbox = << >> /\ pc = "frame" /\ HealthInv
  BY Types DEF AcceptedFrame, At, EntityInv
<1>2. Apply(w)
  BY DEF AcceptedFrame
<1>3. /\ w.tracker \in Tracker
      /\ \/ /\ w.event = "NONE"
            /\ w.tracker.state = health.state /\ w.tracker.outage = health.outage
            /\ w.tracker.seenFrame <=> health.seenFrame
            /\ w.tracker.hadOutage <=> health.hadOutage
         \/ w.event \in Raised /\ HealthMoves(w.event)
  <2>1. CASE feed.cycle = "accepted"
    <3>1. loopNow \in Timestamps /\ health \in Tracker
      BY <1>1, Moments DEF LoopType, EntityType
    <3>2. w = u
      BY <2>1
    <3>3. health' = u.tracker
      BY <1>2, <3>2 DEF Apply
    <3>4. /\ u.tracker \in Tracker
          /\ \/ /\ u.event = "NONE"
                /\ u.tracker.state = health.state /\ u.tracker.outage = health.outage
                /\ u.tracker.seenFrame <=> health.seenFrame
                /\ u.tracker.hadOutage <=> health.hadOutage
             \/ /\ u.event = "UART_STARTED"
                /\ health.state = "WAITING_FOR_UART"
                /\ u.tracker.state = "RECEIVING_DATA" /\ u.tracker.seenFrame
                /\ u.tracker.hadOutage <=> health.hadOutage
                /\ u.tracker.outage = health.outage
             \/ /\ u.event = "UART_RESTORED"
                /\ health.state = "DATA_TIMEOUT"
                /\ u.tracker.state = "RECEIVING_DATA" /\ u.tracker.seenFrame
                /\ u.tracker.hadOutage
      BY <1>1, <3>1, FrameFacts
    <3> HIDE DEF u, w
    <3>5. QED
      BY <3>2, <3>3, <3>4 DEF Raised, HealthMoves
  <2>2. CASE feed.cycle # "accepted"
    <3>1. w.tracker = health /\ w.event = "NONE"
      BY <2>2 DEF Update
    <3>2. QED
      BY <1>1, <3>1 DEF EntityType
  <2>3. QED
    BY <2>1, <2>2
<1> HIDE DEF u, w
<1>4. Announces /\ UNCHANGED <<lastPublish, waitingPublished>>
  BY <1>1, <1>2, <1>3, ApplyAnnounces
<1>5. QED
  BY <1>1, <1>4 DEF PhaseStep, AcceptedFrame, Continue, clock, Statements, LoopType

(* The evaluation of the parser watchdog.                                   *)
LEMMA WatchdogEffect ==
  ASSUME TypeOK, EntityInv, EvaluateWatchdog
  PROVE  PhaseStep /\ pc = "watchdog"
<1> DEFINE u == CheckTimeout(health, loopNow)
<1>1. EntityType /\ LoopType /\ outbox = << >> /\ pc = "watchdog"
  BY Types DEF EvaluateWatchdog, At
<1>2. /\ Announces /\ UNCHANGED <<lastPublish, waitingPublished>>
      /\ lastEval' \in {lastEval, loopNow}
  <2>1. CASE Elapsed(loopNow, lastEval) < EvalInterval
    <3>1. UNCHANGED <<tracker, lastEval, periodic, entities>>
      BY <2>1 DEF EvaluateWatchdog
    <3>2. QED
      BY <1>1, <3>1, QuietAnnounces DEF tracker, EntityType
  <2>2. CASE ~(Elapsed(loopNow, lastEval) < EvalInterval)
    <3>1. lastEval' = loopNow /\ Apply(u)
      BY <2>2 DEF EvaluateWatchdog
    <3>2. loopNow \in Timestamps /\ health \in Tracker
      BY <1>1, Moments DEF LoopType, EntityType
    <3>3. health' = u.tracker
      BY <3>1 DEF Apply
    <3>4. /\ u.tracker \in Tracker
          /\ \/ u.event = "NONE" /\ u.tracker = health
             \/ /\ u.event = "UART_TIMEOUT"
                /\ health.state # "DATA_TIMEOUT"
                /\ u.tracker.state = "DATA_TIMEOUT"
                /\ u.tracker.outage = health.outage
      BY <3>2, TimeoutFacts
    <3> HIDE DEF u
    <3>5. \/ u.event = "NONE" /\ u.tracker = health
          \/ u.event \in Raised /\ HealthMoves(u.event)
      BY <3>3, <3>4 DEF Raised, HealthMoves
    <3>6. QED
      BY <1>1, <3>1, <3>4, <3>5, ApplyAnnounces
  <2>3. QED
    BY <2>1, <2>2
<1>3. QED
  BY <1>1, <1>2 DEF PhaseStep, EvaluateWatchdog, Continue, clock, Statements, LoopType

(* The evaluation of the Wi-Fi watchdog.                                    *)
LEMMA WiFiEffect ==
  ASSUME TypeOK, EntityInv, EvaluateWiFiWatchdog
  PROVE  PhaseStep /\ pc = "wifi"
<1>1. EntityType /\ LoopType /\ outbox = << >> /\ pc = "wifi"
  BY Types DEF EvaluateWiFiWatchdog, At
<1>2. /\ Announces /\ UNCHANGED <<lastPublish, waitingPublished>>
      /\ lastEval' = lastEval /\ wifiOut' \in BOOLEAN
  <2>1. CASE WiFiTransition
    <3>1. lastEval' = lastEval /\ wifiOut' \in BOOLEAN
      BY <2>1 DEF WiFiTransition
    <3>2. QED
      BY <1>1, <2>1, <3>1, WiFiAnnounces
  <2>2. CASE UNCHANGED <<tracker, lastEval, periodic, wifiOut, entities>>
    BY <1>1, <2>2, QuietAnnounces DEF tracker, EntityType, LoopType
  <2>3. QED
    BY <2>1, <2>2 DEF EvaluateWiFiWatchdog
<1>3. QED
  BY <1>1, <1>2 DEF PhaseStep, EvaluateWiFiWatchdog, Continue, clock, Statements, LoopType

(* A rejected sample.                                                       *)
LEMMA SampleEffect ==
  ASSUME TypeOK, EntityInv, RejectSample
  PROVE  PhaseStep
<1>1. EntityType /\ LoopType /\ outbox = << >> /\ pc = "idle"
  BY Types DEF RejectSample, At
<1>2. Reject("sample") /\ "sample" \in Rejected
  BY DEF RejectSample, Rejected
<1>3. Announces /\ UNCHANGED <<lastPublish, waitingPublished>>
  BY <1>1, <1>2, RejectAnnounces
<1>4. QED
  BY <1>1, <1>3 DEF PhaseStep, RejectSample, Idle, clock, Statements, LoopType

(* A callback of the Wi-Fi component.                                       *)
LEMMA CallbackEffect ==
  ASSUME TypeOK, EntityInv, WiFiCallback
  PROVE  PhaseStep
<1>1. EntityType /\ LoopType /\ outbox = << >> /\ pc = "idle"
  BY Types DEF WiFiCallback, At
<1>2. WiFiTransition
  BY DEF WiFiCallback
<1>3. Announces /\ UNCHANGED <<lastPublish, waitingPublished>>
  BY <1>1, <1>2, WiFiAnnounces
<1>4. lastEval' = lastEval /\ wifiOut' \in BOOLEAN
  BY <1>2 DEF WiFiTransition
<1>5. QED
  BY <1>1, <1>3, <1>4 DEF PhaseStep, WiFiCallback, Idle, clock, Statements, LoopType

-----------------------------------------------------------------------------
(* The types of the entities after a statement or call.                     *)
LEMMA CountedType ==
  ASSUME NEW changed, NEW c \in [{"parserFaults", "wifiFaults"} -> CounterValues]
  PROVE  Counted(c, changed) \in [{"parserFaults", "wifiFaults"} -> CounterValues]
<1>1. \A v \in CounterValues : Increment(v) \in CounterValues
  BY CounterAssumption DEF CounterValues, Increment
<1>2. QED
  BY <1>1 DEF Counted

(* A statement or call keeps the types of the entities,                     *)
LEMMA AnnouncesType ==
  ASSUME EntityType, Announces
  PROVE  EntityType'
<1>1. CASE QuietStep /\ health' \in Tracker /\ recoveredAt' = recoveredAt
  <2>1. /\ UNCHANGED <<lastEvent, counters, rejected, recoveredActive, shown, warnings, chirps>>
        /\ health' \in Tracker
    BY <1>1 DEF QuietStep
  <2>2. QED
    BY <2>1 DEF EntityType
<1>2. ASSUME NEW event \in Raised, NEW besides, DispatchStep(event, besides)
      PROVE  EntityType'
  <2>1. /\ health' \in Tracker /\ recoveredActive' \in BOOLEAN /\ rejected' \in Rejected
        /\ lastEvent' = event
        /\ counters' = Counted(counters, RecordEvent(event))
        /\ UNCHANGED <<shown, warnings, chirps>>
    BY <1>2 DEF DispatchStep
  <2>2. event \in Events
    BY DEF Raised, Events, ParserEvents
  <2>3. counters' \in [{"parserFaults", "wifiFaults"} -> CounterValues]
    BY <2>1, CountedType DEF EntityType
  <2>4. QED
    BY <2>1, <2>2, <2>3 DEF EntityType
<1>3. QED
  BY <1>1, <1>2 DEF Announces

(* and their invariant.                                                     *)
LEMMA AnnouncesKeeps ==
  ASSUME EntityInv, EntityType, Announces
  PROVE  EntityInv'
<1>1. CASE QuietStep
  BY <1>1, QuietKeeps
<1>2. ASSUME NEW event \in Raised, NEW besides, DispatchStep(event, besides)
      PROVE  EntityInv'
  BY <1>2, DispatchKeeps
<1>3. QED
  BY <1>1, <1>2 DEF Announces

-----------------------------------------------------------------------------
(* The periodic publication, of which the status text matters here.         *)

TextStep(text) ==
  /\ outbox = << >>
  /\ outbox' = <<Item("status", text)>>
  /\ Suits(text, health.state, recoveredActive')
  /\ recoveredActive' \in BOOLEAN /\ (recoveredActive' => recoveredActive)
  /\ UNCHANGED <<health, lastEvent, counters, rejected, shown, warnings, chirps>>

(* The periodic status text keeps the invariant of the entities.            *)
LEMMA TextKeeps ==
  ASSUME EntityInv, EntityType, NEW text, TextStep(text)
  PROVE  EntityInv' /\ EntityType'
<1>1. /\ outbox = << >> /\ outbox' = <<Item("status", text)>>
      /\ Suits(text, health.state, recoveredActive')
      /\ recoveredActive' \in BOOLEAN /\ (recoveredActive' => recoveredActive)
      /\ UNCHANGED <<health, lastEvent, counters, rejected, shown, warnings, chirps>>
  BY DEF TextStep
<1>2. /\ \A e : ~Pending(e)
      /\ \A e : Unheard(e) = 0
  BY <1>1, EmptyOutbox
<1>3. Lists(outbox', {Item("status", text)}) /\ Len(outbox') = 1
  BY <1>1, ListsOne
<1> DEFINE S == {Item("status", text)}
<1>4. /\ outbox' \in Seq(S)
      /\ \A i, j \in 1 .. Len(outbox') : outbox'[i] = outbox'[j] => i = j
      /\ \A x \in S : x.entity = "status" /\ x.value = text
      /\ Item("status", text) \in S
      /\ \A x, y \in S : x = y
  BY <1>3, EntityOf DEF Lists
<1> HIDE DEF S
<1>5. \A i \in 1 .. Len(outbox') : outbox'[i] \in S
  BY <1>4, ElementOfSeq
<1>6. /\ Pending("status")'
      /\ \A e : e # "status" => ~Pending(e)'
  <2>1. 1 \in 1 .. Len(outbox') /\ outbox'[1].entity = "status"
    BY <1>3, <1>4, <1>5
  <2>2. \A i \in 1 .. Len(outbox') : outbox'[i].entity = "status"
    BY <1>4, <1>5
  <2>3. QED
    BY <2>1, <2>2 DEF Pending
<1>7. \A e : Unheard(e)' = 0
  BY <1>6 DEF Unheard
<1>8. Known' = Known
  BY <1>1 DEF Known
<1>9. OutboxInv'
  <2>1. \A x \in S : Proper(x)'
    BY <1>1, <1>4 DEF Proper, Plain
  <2>2. (\A i \in 1 .. Len(outbox) : Proper(outbox[i]))'
    BY <1>5, <2>1 DEF Proper
  <2>3. \A i, j \in 1 .. Len(outbox') : i = j
    BY <1>4, <1>5
  <2>4. \A i \in 1 .. Len(outbox') : outbox'[i].entity = "healthy" => i = Len(outbox')
    BY <1>4, <1>5
  <2>5. outbox' \in Seq(Range(outbox'))
    BY <1>4, SeqOfRange
  <2>6. QED
    BY <2>2, <2>3, <2>4, <2>5 DEF OutboxInv
<1>10. ShownInv'
  <2>1. \A e \in Plain : shown'[e] = Known'[e]
    BY <1>1, <1>2, <1>8 DEF EntityInv, ShownInv
  <2>2. shown'.healthy <=> ParserHealthy(health')
    BY <1>1, <1>2 DEF EntityInv, ShownInv
  <2>3. QED
    BY <1>6, <2>1, <2>2 DEF ShownInv
<1>11. HealthInv'
  BY <1>1, <1>6 DEF EntityInv, HealthInv
<1>12. BuzzerInv'
  BY <1>1, <1>2, <1>7 DEF EntityInv, BuzzerInv
<1>13. EntityType'
  BY <1>1 DEF EntityType
<1>14. QED
  BY <1>9, <1>10, <1>11, <1>12, <1>13 DEF EntityInv

(* Steps that leave the entities and what they show alone.                  *)
LEMMA SameKeeps ==
  ASSUME EntityInv, EntityType,
         UNCHANGED <<health, recoveredActive, lastEvent, counters, rejected, outbox, shown,
                     warnings, chirps>>
  PROVE  EntityInv' /\ EntityType'
<1>1. Known' = Known
  BY DEF Known
<1>2. \A e : Pending(e)' <=> Pending(e)
  BY DEF Pending
<1>3. \A e : Unheard(e)' = Unheard(e)
  BY <1>2 DEF Unheard
<1>4. OutboxInv'
  <2>1. (\A i \in 1 .. Len(outbox) : Proper(outbox[i]))'
    BY <1>1 DEF EntityInv, OutboxInv, Proper
  <2>2. QED
    BY <2>1 DEF EntityInv, OutboxInv
<1>5. ShownInv'
  BY <1>1, <1>2 DEF EntityInv, ShownInv
<1>6. HealthInv'
  BY <1>2 DEF EntityInv, HealthInv
<1>7. BuzzerInv'
  BY <1>3 DEF EntityInv, BuzzerInv
<1>8. EntityType'
  BY DEF EntityType
<1>9. QED
  BY <1>4, <1>5, <1>6, <1>7, <1>8 DEF EntityInv

-----------------------------------------------------------------------------
(* The invariant of the times: how late a periodic publication is, and how  *)
(* long RECOVERED has been shown, while it is held and once it is not.      *)

TimeInv ==
  /\ now = loopNow + gap
  /\ lastPublish <= loopNow
  /\ loopNow - lastPublish < PublishInterval + (IF pc = "idle" THEN 0 ELSE MaxGap)
  /\ recoveredActive => recoveredAt <= now /\ lastPublish - recoveredAt < PublishInterval
  /\ shown.status = "RECOVERED" =>
       restoredFor <= IF recoveredActive THEN now - recoveredAt
                      ELSE gap + 2 * (PublishInterval - 1) + MaxGap

IInv == TypeOK /\ EntityInv /\ TimeInv

(* With nothing under way RECOVERED is shown exactly while it is held.      *)
LEMMA ShownAtRest ==
  ASSUME EntityInv, outbox = << >>
  PROVE  /\ shown.status = "RECOVERED" <=> recoveredActive
         /\ shown.status \in TextsOf(health.state)
BY EmptyOutbox DEF EntityInv, ShownInv, Suits

(* While it is held the bound of its end is kept.                           *)
LEMMA HeldInTime ==
  ASSUME TypeOK, TimeInv, shown.status = "RECOVERED"
  PROVE  restoredFor <= gap + 2 * (PublishInterval - 1) + MaxGap
<1>1. /\ now \in Nat /\ gap \in Nat /\ loopNow \in Nat /\ lastPublish \in Nat
      /\ recoveredAt \in Nat /\ restoredFor \in Nat
      /\ PublishInterval \in Nat /\ MaxGap \in Nat
  BY ComponentAssumption DEF TypeOK
<1>2. /\ now = loopNow + gap
      /\ loopNow - lastPublish < PublishInterval + (IF pc = "idle" THEN 0 ELSE MaxGap)
  BY DEF TimeInv
<1>3. loopNow - lastPublish < PublishInterval + MaxGap
  BY <1>1, <1>2
<1>4. CASE recoveredActive
  <2>1. lastPublish - recoveredAt < PublishInterval /\ restoredFor <= now - recoveredAt
    BY <1>4 DEF TimeInv
  <2>2. QED
    BY <1>1, <1>2, <1>3, <2>1
<1>5. CASE ~recoveredActive
  BY <1>5 DEF TimeInv
<1>6. QED
  BY <1>4, <1>5

(* A statement or call takes no time, and holds RECOVERED only from now on. *)
LEMMA PhaseTimes ==
  ASSUME IInv, PhaseStep
  PROVE  LoopType' /\ TimeInv'
<1>1. /\ EntityType /\ LoopType /\ EntityInv /\ TypeOK /\ TimeInv /\ Announces
      /\ UNCHANGED <<now, gap, loopNow, restoredFor, lastPublish, waitingPublished>>
      /\ feed' = feed /\ simulation' \in BOOLEAN
      /\ pc' \in Statements /\ (pc' = "idle" => pc = "idle")
      /\ lastEval' \in {lastEval, loopNow}
      /\ wifiOut' \in BOOLEAN
  BY Types DEF IInv, PhaseStep
<1>2. /\ now \in Nat /\ gap \in Nat /\ loopNow \in Nat /\ lastPublish \in Nat
      /\ recoveredAt \in Nat /\ restoredFor \in Nat
      /\ PublishInterval \in Nat \ {0} /\ MaxGap \in Nat
  BY <1>1, ComponentAssumption DEF LoopType
<1>3. /\ outbox = << >> /\ shown' = shown
      /\ recoveredAt' \in {recoveredAt, now}
      /\ \/ recoveredActive' = recoveredActive /\ recoveredAt' = recoveredAt
         \/ ~recoveredActive'
         \/ health.state = "DATA_TIMEOUT" /\ recoveredActive' /\ recoveredAt' = now
  <2>1. CASE QuietStep /\ health' \in Tracker /\ recoveredAt' = recoveredAt
    BY <2>1 DEF QuietStep
  <2>2. ASSUME NEW event \in Raised, NEW besides, DispatchStep(event, besides),
               recoveredAt' = IF event = "UART_RESTORED" THEN now ELSE recoveredAt
        PROVE  /\ outbox = << >> /\ shown' = shown
               /\ recoveredAt' \in {recoveredAt, now}
               /\ \/ recoveredActive' = recoveredActive /\ recoveredAt' = recoveredAt
                  \/ ~recoveredActive'
                  \/ health.state = "DATA_TIMEOUT" /\ recoveredActive' /\ recoveredAt' = now
    BY <2>2 DEF DispatchStep, Moves
  <2>3. QED
    BY <1>1, <2>1, <2>2 DEF Announces
<1>4. LoopType'
  BY <1>1, <1>3 DEF LoopType
<1>5. /\ now' = loopNow' + gap' /\ lastPublish' <= loopNow'
      /\ loopNow' - lastPublish' < PublishInterval + (IF pc' = "idle" THEN 0 ELSE MaxGap)
  <2>1. loopNow - lastPublish < PublishInterval + (IF pc = "idle" THEN 0 ELSE MaxGap)
    BY <1>1 DEF TimeInv
  <2>2. QED
    BY <1>1, <1>2, <2>1 DEF TimeInv
<1>6. /\ shown.status = "RECOVERED" <=> recoveredActive
      /\ health.state = "DATA_TIMEOUT" => shown.status # "RECOVERED"
  BY <1>1, <1>3, ShownAtRest DEF TextsOf
<1>7. recoveredActive' => recoveredAt' <= now /\ lastPublish - recoveredAt' < PublishInterval
  <2>1. CASE recoveredActive' = recoveredActive /\ recoveredAt' = recoveredAt
    BY <1>1, <2>1 DEF TimeInv
  <2>2. CASE recoveredAt' = now
    <3>1. lastPublish <= now
      BY <1>1, <1>2 DEF TimeInv
    <3>2. QED
      BY <1>2, <2>2, <3>1
  <2>3. QED
    BY <1>3, <2>1, <2>2
<1>8. ASSUME shown.status = "RECOVERED"
      PROVE  restoredFor <= IF recoveredActive' THEN now - recoveredAt'
                            ELSE gap + 2 * (PublishInterval - 1) + MaxGap
  <2>1. CASE recoveredActive' = recoveredActive /\ recoveredAt' = recoveredAt
    BY <1>1, <1>8, <2>1 DEF TimeInv
  <2>2. CASE ~recoveredActive'
    BY <1>1, <1>8, <2>2, HeldInTime
  <2>3. QED
    BY <1>3, <1>6, <1>8, <2>1, <2>2
<1>9. QED
  BY <1>1, <1>3, <1>4, <1>5, <1>7, <1>8 DEF TimeInv

(* A statement or call keeps the invariant.                                 *)
LEMMA PhaseInvariant ==
  ASSUME IInv, PhaseStep
  PROVE  IInv'
<1>1. EntityType /\ EntityInv /\ Announces
  BY Types DEF IInv, PhaseStep
<1>2. EntityType' /\ EntityInv'
  BY <1>1, AnnouncesType, AnnouncesKeeps
<1>3. LoopType' /\ TimeInv'
  BY PhaseTimes
<1>4. TypeOK'
  BY <1>2, <1>3 DEF TypeOK, EntityType, LoopType, Statements
<1>5. QED
  BY <1>2, <1>3, <1>4 DEF IInv

(* What the periodic publication does.                                      *)
LEMMA PeriodicEffect ==
  ASSUME IInv, PublishPeriodic
  PROVE  /\ (QuietStep /\ health' = health) \/ \E text : TextStep(text)
         /\ pc = "periodic" /\ pc' = "idle"
         /\ waitingPublished' \in BOOLEAN
         /\ UNCHANGED <<now, gap, loopNow, restoredFor, feed, simulation, lastEval, wifiOut,
                        recoveredAt, shown>>
         /\ recoveredActive' \in BOOLEAN /\ (recoveredActive' => recoveredActive)
         /\ \/ lastPublish' = lastPublish /\ Elapsed(loopNow, lastPublish) < PublishInterval
            \/ lastPublish' = loopNow /\ (recoveredActive' => HoldRecovered)
<1>1. EntityType /\ LoopType /\ HealthInv /\ outbox = << >> /\ pc = "periodic"
  BY Types DEF PublishPeriodic, At, IInv, EntityInv
<1>2. /\ pc' = "idle"
      /\ UNCHANGED <<now, gap, loopNow, feed, simulation, restoredFor>>
      /\ UNCHANGED <<health, lastEvent, counters, rejected, lastEval, wifiOut>>
  BY DEF PublishPeriodic, Continue, clock, tracker
<1>3. CASE Elapsed(loopNow, lastPublish) < PublishInterval
  <2>1. UNCHANGED <<lastPublish, recoveredAt, recoveredActive, waitingPublished, outbox, shown,
                    warnings, chirps>>
    BY <1>3 DEF PublishPeriodic, periodic, entities
  <2>2. QuietStep
    BY <1>1, <1>2, <2>1 DEF QuietStep
  <2>3. QED
    BY <1>1, <1>2, <1>3, <2>1, <2>2 DEF EntityType, LoopType
<1>4. CASE ~(Elapsed(loopNow, lastPublish) < PublishInterval)
  <2>1. /\ lastPublish' = loopNow /\ outbox' = StatusDue
        /\ recoveredActive' = (recoveredActive /\ HoldRecovered)
        /\ waitingPublished' =
             (waitingPublished \/ StatusDue = <<Item("status", "WAITING_FOR_FIRST_FRAME")>>)
        /\ UNCHANGED <<recoveredAt, shown, warnings, chirps>>
    BY <1>4 DEF PublishPeriodic
  <2>2. recoveredActive' \in BOOLEAN /\ (recoveredActive' => recoveredActive /\ HoldRecovered)
    BY <2>1
  <2>3. waitingPublished' \in BOOLEAN
    BY <2>1
  <2>4. CASE recoveredActive /\ ~HoldRecovered
    <3>1. health.state = "RECEIVING_DATA" /\ ~recoveredActive'
      BY <1>1, <2>1, <2>4 DEF HealthInv
    <3>2. StatusDue = <<Item("status", "RECEIVING_DATA")>>
      <4>1. DiagnosticStatus(health, "NONE") = "RECEIVING_DATA"
        BY <3>1 DEF DiagnosticStatus
      <4>2. QED
        BY <2>4, <4>1 DEF StatusDue
    <3>3. Suits("RECEIVING_DATA", health.state, recoveredActive')
      BY <3>1 DEF Suits, TextsOf
    <3>4. TextStep("RECEIVING_DATA")
      BY <1>1, <1>2, <2>1, <2>2, <3>2, <3>3 DEF TextStep
    <3>5. QED
      BY <1>1, <1>2, <2>1, <2>2, <2>3, <3>4
  <2>5. CASE /\ ~(recoveredActive /\ ~HoldRecovered)
             /\ health.state = "WAITING_FOR_UART" /\ ~waitingPublished
    <3>1. StatusDue = <<Item("status", "WAITING_FOR_FIRST_FRAME")>>
      BY <2>5 DEF StatusDue
    <3>2. ~recoveredActive'
      BY <1>1, <2>2, <2>5 DEF HealthInv
    <3>3. Suits("WAITING_FOR_FIRST_FRAME", health.state, recoveredActive')
      BY <2>5, <3>2 DEF Suits, TextsOf
    <3>4. TextStep("WAITING_FOR_FIRST_FRAME")
      BY <1>1, <1>2, <2>1, <2>2, <3>1, <3>3 DEF TextStep
    <3>5. QED
      BY <1>1, <1>2, <2>1, <2>2, <2>3, <3>4
  <2>6. CASE /\ ~(recoveredActive /\ ~HoldRecovered)
             /\ ~(health.state = "WAITING_FOR_UART" /\ ~waitingPublished)
    <3>1. StatusDue = << >>
      BY <2>6 DEF StatusDue
    <3>2. recoveredActive' = recoveredActive
      BY <1>1, <2>1, <2>6 DEF EntityType
    <3>3. QuietStep
      BY <1>1, <1>2, <2>1, <3>1, <3>2 DEF QuietStep
    <3>4. QED
      BY <1>1, <1>2, <2>1, <2>2, <2>3, <3>3
  <2>7. QED
    BY <2>4, <2>5, <2>6
<1>5. QED
  BY <1>3, <1>4

(* No clock of the model wraps.                                             *)
LEMMA ElapsedPlain ==
  ASSUME NEW t \in 0 .. Horizon, NEW s \in 0 .. Horizon, s <= t
  PROVE  Elapsed(t, s) = t - s
<1>1. t - s \in 0 .. Wrap - 1
  BY ComponentAssumption, WrapAssumption
<1>2. \A x \in 0 .. Wrap - 1 : x % Wrap = x
  BY WrapAssumption
<1>3. QED
  BY <1>1, <1>2 DEF Elapsed

(* So does the periodic publication,                                        *)
LEMMA PeriodicInvariant ==
  ASSUME IInv, PublishPeriodic
  PROVE  IInv'
<1>1. /\ (QuietStep /\ health' = health) \/ \E text : TextStep(text)
      /\ pc = "periodic" /\ pc' = "idle"
      /\ waitingPublished' \in BOOLEAN
      /\ UNCHANGED <<now, gap, loopNow, restoredFor, feed, simulation, lastEval, wifiOut,
                     recoveredAt, shown>>
      /\ recoveredActive' \in BOOLEAN /\ (recoveredActive' => recoveredActive)
      /\ \/ lastPublish' = lastPublish /\ Elapsed(loopNow, lastPublish) < PublishInterval
         \/ lastPublish' = loopNow /\ (recoveredActive' => HoldRecovered)
  BY PeriodicEffect
<1>2. EntityType /\ LoopType /\ EntityInv /\ TypeOK /\ TimeInv
  BY Types DEF IInv
<1>3. EntityType' /\ EntityInv'
  <2>1. CASE QuietStep /\ health' = health
    <3>1. EntityType'
      BY <1>2, <2>1 DEF QuietStep, EntityType
    <3>2. QED
      BY <1>2, <2>1, <3>1, QuietKeeps
  <2>2. CASE \E text : TextStep(text)
    BY <1>2, <2>2, TextKeeps
  <2>3. QED
    BY <1>1, <2>1, <2>2
<1>4. LoopType'
  BY <1>1, <1>2 DEF LoopType, Statements
<1>5. TypeOK'
  BY <1>3, <1>4 DEF TypeOK, EntityType, LoopType, Statements
<1>6. /\ now \in Nat /\ gap \in Nat /\ loopNow \in 0 .. Horizon /\ lastPublish \in 0 .. Horizon
      /\ recoveredAt \in 0 .. Horizon /\ restoredFor \in Nat /\ Horizon \in Nat
      /\ PublishInterval \in Nat \ {0} /\ MaxGap \in Nat
  BY <1>2, ComponentAssumption DEF LoopType
<1>7. now = loopNow + gap /\ lastPublish <= loopNow
  BY <1>2 DEF TimeInv
<1>8. lastPublish' <= loopNow /\ loopNow - lastPublish' < PublishInterval
  <2>1. CASE lastPublish' = lastPublish /\ Elapsed(loopNow, lastPublish) < PublishInterval
    BY <1>6, <1>7, <2>1, ElapsedPlain
  <2>2. CASE lastPublish' = loopNow
    BY <1>6, <2>2
  <2>3. QED
    BY <1>1, <2>1, <2>2
<1>9. recoveredActive' => recoveredAt <= now /\ lastPublish' - recoveredAt < PublishInterval
  <2>1. SUFFICES ASSUME recoveredActive'
                 PROVE  recoveredAt <= now /\ lastPublish' - recoveredAt < PublishInterval
    OBVIOUS
  <2>2. recoveredAt <= now /\ lastPublish - recoveredAt < PublishInterval
    BY <1>1, <1>2, <2>1 DEF TimeInv
  <2>3. CASE lastPublish' = lastPublish
    BY <2>2, <2>3
  <2>4. CASE lastPublish' = loopNow /\ HoldRecovered
    <3>1. CASE recoveredAt <= loopNow
      BY <1>6, <2>2, <2>4, <3>1, ElapsedPlain DEF HoldRecovered
    <3>2. CASE ~(recoveredAt <= loopNow)
      BY <1>6, <2>2, <2>4, <3>2
    <3>3. QED
      BY <3>1, <3>2
  <2>5. QED
    BY <1>1, <2>1, <2>3, <2>4
<1>10. ASSUME shown.status = "RECOVERED"
       PROVE  restoredFor <= IF recoveredActive' THEN now - recoveredAt
                             ELSE gap + 2 * (PublishInterval - 1) + MaxGap
  <2>1. CASE recoveredActive'
    BY <1>1, <1>2, <1>10, <2>1 DEF TimeInv
  <2>2. CASE ~recoveredActive'
    BY <1>2, <1>10, <2>2, HeldInTime
  <2>3. QED
    BY <2>1, <2>2
<1>11. TimeInv'
  <2>1. /\ now' = loopNow' + gap' /\ lastPublish' <= loopNow'
        /\ loopNow' - lastPublish' < PublishInterval + (IF pc' = "idle" THEN 0 ELSE MaxGap)
    BY <1>1, <1>6, <1>7, <1>8
  <2>2. QED
    BY <1>1, <1>9, <1>10, <2>1 DEF TimeInv
<1>12. QED
  BY <1>3, <1>5, <1>11 DEF IInv

(* the next iteration,                                                      *)
LEMMA BeginInvariant ==
  ASSUME IInv, BeginLoop
  PROVE  IInv'
<1>1. /\ EntityType /\ LoopType /\ EntityInv /\ TypeOK /\ TimeInv
      /\ outbox = << >> /\ pc = "idle"
  BY Types DEF IInv, BeginLoop, At
<1>2. /\ gap' = 0 /\ loopNow' = now /\ feed' \in FeedResults /\ pc' = "malformed"
      /\ UNCHANGED <<now, simulation, lastEval, wifiOut, restoredFor>>
      /\ UNCHANGED <<health, lastEvent, counters, rejected>>
      /\ UNCHANGED <<lastPublish, recoveredAt, recoveredActive, waitingPublished>>
      /\ UNCHANGED <<outbox, shown, warnings, chirps>>
  BY DEF BeginLoop, tracker, periodic, entities
<1>3. EntityType' /\ EntityInv'
  BY <1>1, <1>2, SameKeeps
<1>4. LoopType'
  BY <1>1, <1>2, ComponentAssumption DEF LoopType, Statements
<1>5. TypeOK'
  BY <1>3, <1>4 DEF TypeOK, EntityType, LoopType, Statements
<1>6. /\ now \in Nat /\ gap \in 0 .. MaxGap /\ loopNow \in Nat /\ lastPublish \in Nat
      /\ PublishInterval \in Nat \ {0} /\ MaxGap \in Nat
  BY <1>1, ComponentAssumption DEF LoopType
<1>7. /\ now = loopNow + gap /\ lastPublish <= loopNow
      /\ loopNow - lastPublish < PublishInterval
  <2>1. loopNow - lastPublish < PublishInterval + 0
    BY <1>1 DEF TimeInv
  <2>2. QED
    BY <1>1, <1>6, <2>1 DEF TimeInv
<1>8. /\ now' = loopNow' + gap' /\ lastPublish' <= loopNow'
      /\ loopNow' - lastPublish' < PublishInterval + (IF pc' = "idle" THEN 0 ELSE MaxGap)
  BY <1>2, <1>6, <1>7
<1>9. shown.status = "RECOVERED" => recoveredActive
  BY <1>1, ShownAtRest
<1>10. TimeInv'
  BY <1>1, <1>2, <1>8, <1>9 DEF TimeInv
<1>11. QED
  BY <1>3, <1>5, <1>10 DEF IInv

(* time that passes, also inside the iteration,                             *)
LEMMA TickInvariant ==
  ASSUME IInv, Tick
  PROVE  IInv'
<1>1. EntityType /\ LoopType /\ EntityInv /\ TypeOK /\ TimeInv
  BY Types DEF IInv
<1>2. /\ gap < MaxGap /\ now < Horizon /\ now' = now + 1 /\ gap' = gap + 1
      /\ restoredFor' = IF shown.status = "RECOVERED" THEN restoredFor + 1 ELSE 0
      /\ UNCHANGED <<pc, loopNow, feed, simulation, lastEval, wifiOut>>
      /\ UNCHANGED <<health, lastEvent, counters, rejected>>
      /\ UNCHANGED <<lastPublish, recoveredAt, recoveredActive, waitingPublished>>
      /\ UNCHANGED <<outbox, shown, warnings, chirps>>
  BY DEF Tick, tracker, periodic, entities
<1>3. EntityType' /\ EntityInv'
  BY <1>1, <1>2, SameKeeps
<1>4. LoopType'
  BY <1>1, <1>2, ComponentAssumption DEF LoopType
<1>5. TypeOK'
  BY <1>3, <1>4 DEF TypeOK, EntityType, LoopType, Statements
<1>6. /\ now \in Nat /\ gap \in Nat /\ loopNow \in Nat /\ lastPublish \in Nat
      /\ recoveredAt \in Nat /\ restoredFor \in Nat
      /\ PublishInterval \in Nat \ {0} /\ MaxGap \in Nat
  BY <1>1, ComponentAssumption DEF LoopType
<1>7. now' = loopNow + gap'
  BY <1>1, <1>2, <1>6 DEF TimeInv
<1>8. ASSUME recoveredActive PROVE recoveredAt <= now'
  BY <1>1, <1>2, <1>6, <1>8 DEF TimeInv
<1>9. ASSUME shown.status = "RECOVERED"
      PROVE  restoredFor' <= IF recoveredActive THEN now' - recoveredAt
                             ELSE gap' + 2 * (PublishInterval - 1) + MaxGap
  <2>1. restoredFor <= IF recoveredActive THEN now - recoveredAt
                       ELSE gap + 2 * (PublishInterval - 1) + MaxGap
    BY <1>1, <1>9 DEF TimeInv
  <2>2. QED
    BY <1>2, <1>6, <1>9, <2>1
<1>10. TimeInv'
  BY <1>1, <1>2, <1>7, <1>8, <1>9 DEF TimeInv
<1>11. QED
  BY <1>3, <1>5, <1>10 DEF IInv

(* the timeout simulation                                                   *)
LEMMA SimulationInvariant ==
  ASSUME IInv, SetParserTimeoutSimulation
  PROVE  IInv'
<1>1. EntityType /\ LoopType /\ EntityInv /\ TypeOK /\ TimeInv
  BY Types DEF IInv
<1>2. /\ simulation' = ~simulation
      /\ UNCHANGED <<now, gap, pc, loopNow, feed, lastEval, wifiOut, restoredFor>>
      /\ UNCHANGED <<health, lastEvent, counters, rejected>>
      /\ UNCHANGED <<lastPublish, recoveredAt, recoveredActive, waitingPublished>>
      /\ UNCHANGED <<outbox, shown, warnings, chirps>>
  BY DEF SetParserTimeoutSimulation, Idle, clock, tracker, periodic, entities
<1>3. EntityType' /\ EntityInv'
  BY <1>1, <1>2, SameKeeps
<1>4. LoopType'
  BY <1>1, <1>2 DEF LoopType
<1>5. TypeOK'
  BY <1>3, <1>4 DEF TypeOK, EntityType, LoopType, Statements
<1>6. TimeInv'
  BY <1>1, <1>2 DEF TimeInv
<1>7. QED
  BY <1>3, <1>5, <1>6 DEF IInv

(* and the delivery of a publication.                                       *)
LEMMA DeliverInvariant ==
  ASSUME IInv, Deliver
  PROVE  IInv'
<1>1. EntityType /\ LoopType /\ EntityInv /\ TypeOK /\ TimeInv
  BY Types DEF IInv
<1>2. PICK x : DeliverStep(x)
  BY <1>1, DeliverEffect
<1>3. EntityType' /\ EntityInv'
  BY <1>1, <1>2, DeliverKeeps
<1>4. /\ UNCHANGED <<now, gap, pc, loopNow, feed, simulation, lastEval, wifiOut>>
      /\ UNCHANGED <<lastPublish, recoveredAt, recoveredActive, waitingPublished>>
      /\ Proper(x)
      /\ shown' = [shown EXCEPT ![x.entity] = x.value]
      /\ restoredFor' = (IF x.entity = "status" /\ x.value = "RECOVERED" THEN 0 ELSE restoredFor)
  BY <1>2 DEF DeliverStep, clock, periodic
<1>5. LoopType'
  BY <1>1, <1>4 DEF LoopType
<1>6. TypeOK'
  BY <1>3, <1>5 DEF TypeOK, EntityType, LoopType, Statements
<1>7. /\ now \in Nat /\ gap \in Nat /\ recoveredAt \in Nat /\ restoredFor \in Nat
      /\ PublishInterval \in Nat \ {0} /\ MaxGap \in Nat
  BY <1>1, ComponentAssumption DEF LoopType
<1>8. x.entity # "status" => shown'.status = shown.status
  BY <1>1, <1>4 DEF EntityType
<1>9. x.entity = "status" => shown'.status = x.value /\ (x.value = "RECOVERED" <=> recoveredActive)
  BY <1>1, <1>4 DEF EntityType, Proper, Suits
<1>10. ASSUME shown'.status = "RECOVERED"
       PROVE  restoredFor' <= IF recoveredActive THEN now - recoveredAt
                              ELSE gap + 2 * (PublishInterval - 1) + MaxGap
  <2>1. CASE x.entity = "status"
    <3>1. restoredFor' = 0 /\ recoveredActive
      BY <1>4, <1>9, <1>10, <2>1
    <3>2. recoveredAt <= now
      BY <1>1, <3>1 DEF TimeInv
    <3>3. QED
      BY <1>7, <3>1, <3>2
  <2>2. CASE x.entity # "status"
    <3>1. restoredFor' = restoredFor /\ shown.status = "RECOVERED"
      BY <1>4, <1>8, <1>10, <2>2
    <3>2. QED
      BY <1>1, <3>1 DEF TimeInv
  <2>3. QED
    BY <2>1, <2>2
<1>11. TimeInv'
  BY <1>1, <1>4, <1>10 DEF TimeInv
<1>12. QED
  BY <1>3, <1>6, <1>11 DEF IInv

(* The initial states satisfy the invariant.                                *)
LEMMA InitInvariant == Init => IInv
<1> SUFFICES ASSUME Init PROVE IInv
  OBVIOUS
<1>1. health = [state |-> "WAITING_FOR_UART", setupAt |-> 0, lastFrame |-> 0, seenFrame |-> FALSE,
                outageAt |-> 0, outage |-> 0, hadOutage |-> FALSE]
  <2>1. BootingTracker.state = "BOOTING"
    BY DEF BootingTracker
  <2>2. health = [BootingTracker EXCEPT !.setupAt = 0, !.state = "WAITING_FOR_UART"]
    BY <2>1 DEF Init, SetupCompleted, Update
  <2>3. QED
    BY <2>2 DEF BootingTracker
<1>2. /\ health \in Tracker /\ health.state = "WAITING_FOR_UART"
      /\ ~health.seenFrame /\ ~health.hadOutage /\ health.outage = 0
  <2>1. 0 \in Timestamps
    BY WrapAssumption DEF Timestamps
  <2> HIDE DEF Init
  <2>2. QED
    BY <1>1, <2>1 DEF Tracker, ParserStates
<1>3. /\ now = 0 /\ gap = 0 /\ loopNow = 0 /\ pc = "idle" /\ feed = NoFeed
      /\ lastEvent = "SYSTEM_STARTED"
      /\ counters = [parserFaults |-> 0, wifiFaults |-> 0] /\ rejected = "none"
      /\ simulation = FALSE /\ wifiOut = FALSE /\ lastEval = 0 /\ lastPublish = 0
      /\ recoveredAt = 0 /\ recoveredActive = FALSE /\ waitingPublished = FALSE
      /\ outbox = << >>
      /\ warnings = 0 /\ chirps = 0 /\ restoredFor = 0
  BY DEF Init
<1>4. shown = [status |-> "STARTING", healthy |-> FALSE, state |-> "WAITING_FOR_UART",
               event |-> "SYSTEM_STARTED", outage |-> 0, rejected |-> "none",
               parserFaults |-> 0, wifiFaults |-> 0]
  BY DEF Init
<1>5. 0 \in CounterValues /\ 0 \in Timestamps
  BY CounterAssumption, WrapAssumption DEF CounterValues, Timestamps
<1>6. EntityType
  <2>1. lastEvent \in Events /\ rejected \in Rejected
    BY <1>3 DEF Events, ParserEvents, Rejected
  <2>2. shown \in [status : Statuses, healthy : BOOLEAN, state : ParserStates, event : Events,
                   outage : Timestamps, rejected : Rejected, parserFaults : CounterValues,
                   wifiFaults : CounterValues]
    BY <1>4, <1>5 DEF Statuses, ParserStates, Events, ParserEvents, Rejected
  <2>3. counters \in [{"parserFaults", "wifiFaults"} -> CounterValues]
    BY <1>3, <1>5
  <2>4. QED
    BY <1>2, <1>3, <2>1, <2>2, <2>3 DEF EntityType
<1>7. LoopType
  <2>1. feed \in FeedResults
    BY <1>3 DEF FeedResults, NoFeed
  <2>2. 0 \in 0 .. Horizon /\ 0 \in 0 .. MaxGap
    BY ComponentAssumption
  <2>3. QED
    BY <1>3, <2>1, <2>2 DEF LoopType, Statements
<1>8. EntityInv
  <2>1. /\ \A e : ~Pending(e)
        /\ \A e : Unheard(e) = 0
    BY <1>3, EmptyOutbox
  <2>2. OutboxInv
    <3>1. Len(outbox) = 0
      BY <1>3
    <3>2. outbox \in Seq(Range(outbox))
      BY <1>3, EmptySeq
    <3>3. QED
      BY <3>1, <3>2 DEF OutboxInv
  <2>3. ShownInv
    <3>1. \A e \in Plain : shown[e] = Known[e]
      BY <1>2, <1>3, <1>4 DEF Plain, Known
    <3>2. Suits(shown.status, health.state, recoveredActive)
      BY <1>2, <1>3, <1>4 DEF Suits, TextsOf
    <3>3. ~shown.healthy /\ ~ParserHealthy(health)
      BY <1>2, <1>4 DEF ParserHealthy
    <3>4. QED
      BY <3>1, <3>2, <3>3 DEF ShownInv
  <2>4. HealthInv
    BY <1>2, <1>3, <2>1 DEF HealthInv
  <2>5. BuzzerInv
    <3>1. 0 % CounterWrap = 0
      BY CounterAssumption
    <3>2. QED
      BY <1>2, <1>3, <2>1, <3>1 DEF BuzzerInv
  <2>6. QED
    BY <2>2, <2>3, <2>4, <2>5 DEF EntityInv
<1>9. TimeInv
  BY <1>3, <1>4, ComponentAssumption DEF TimeInv
<1>10. QED
  BY <1>6, <1>7, <1>8, <1>9, Types DEF IInv

(* So does a step that changes nothing.                                     *)
LEMMA StutterInvariant ==
  ASSUME IInv, UNCHANGED vars
  PROVE  IInv'
<1>1. EntityType /\ LoopType /\ EntityInv /\ TimeInv
  BY Types DEF IInv
<1>2. /\ UNCHANGED <<now, gap, pc, loopNow, feed, simulation, lastEval, wifiOut, restoredFor>>
      /\ UNCHANGED <<health, lastEvent, counters, rejected>>
      /\ UNCHANGED <<lastPublish, recoveredAt, recoveredActive, waitingPublished>>
      /\ UNCHANGED <<outbox, shown, warnings, chirps>>
  BY DEF vars, clock, tracker, periodic, entities
<1>3. EntityType' /\ EntityInv'
  BY <1>1, <1>2, SameKeeps
<1>4. LoopType'
  BY <1>1, <1>2 DEF LoopType
<1>5. TypeOK'
  BY <1>3, <1>4 DEF TypeOK, EntityType, LoopType, Statements
<1>6. TimeInv'
  BY <1>1, <1>2 DEF TimeInv
<1>7. QED
  BY <1>3, <1>5, <1>6 DEF IInv

(* Every step keeps the invariant.                                          *)
LEMMA NextInvariant == IInv /\ [Next]_vars => IInv'
<1> SUFFICES ASSUME IInv, [Next]_vars PROVE IInv'
  OBVIOUS
<1>1. TypeOK /\ EntityInv
  BY DEF IInv
<1>2. CASE Tick
  BY <1>2, TickInvariant
<1>3. CASE Deliver
  BY <1>3, DeliverInvariant
<1>4. CASE BeginLoop
  BY <1>4, BeginInvariant
<1>5. CASE MalformedFrame
  BY <1>1, <1>5, MalformedEffect, PhaseInvariant
<1>6. CASE ValidationRejection
  BY <1>1, <1>6, RejectionEffect, PhaseInvariant
<1>7. CASE AcceptedFrame
  BY <1>1, <1>7, AcceptedEffect, PhaseInvariant
<1>8. CASE EvaluateWatchdog
  BY <1>1, <1>8, WatchdogEffect, PhaseInvariant
<1>9. CASE EvaluateWiFiWatchdog
  BY <1>1, <1>9, WiFiEffect, PhaseInvariant
<1>10. CASE PublishPeriodic
  BY <1>10, PeriodicInvariant
<1>11. CASE RejectSample
  BY <1>1, <1>11, SampleEffect, PhaseInvariant
<1>12. CASE WiFiCallback
  BY <1>1, <1>12, CallbackEffect, PhaseInvariant
<1>13. CASE SetParserTimeoutSimulation
  BY <1>13, SimulationInvariant
<1>14. CASE UNCHANGED vars
  BY <1>14, StutterInvariant
<1>15. QED
  BY <1>2, <1>3, <1>4, <1>5, <1>6, <1>7, <1>8, <1>9, <1>10, <1>11, <1>12, <1>13, <1>14
     DEF Next, Loop

(* The invariant holds in every reachable state.                            *)
LEMMA Invariance == Spec => []IInv
BY InitInvariant, NextInvariant, PTL DEF Spec

-----------------------------------------------------------------------------
(* What every reachable state shows.                                        *)

(* The state of the component and of the entities stays within its types.   *)
THEOREM TypeCorrect == Spec => []TypeOK
<1>1. IInv => TypeOK
  BY DEF IInv
<1>2. QED
  BY <1>1, Invariance, PTL

(* Whatever a feed brought and whatever the watchdogs announced, the        *)
(* entities agree with the component after every iteration of loop() and    *)
(* every callback.                                                          *)
THEOREM Agreement == Spec => []EntitiesAgree
<1>1. IInv => EntitiesAgree
  <2> SUFFICES ASSUME IInv, AtRest
               PROVE  /\ shown.healthy <=> ParserHealthy(health)
                      /\ shown.state = health.state
                      /\ shown.event = lastEvent
                      /\ shown.rejected = rejected
                      /\ \A name \in DOMAIN counters : shown[name] = counters[name]
                      /\ shown.status \in
                           (CASE health.state = "WAITING_FOR_UART" ->
                                   {"STARTING", "WAITING_FOR_FIRST_FRAME"}
                              [] health.state = "RECEIVING_DATA" ->
                                   {"RECEIVING_DATA", "RECOVERED"}
                              [] OTHER -> {"FRAME_TIMEOUT"})
                      /\ shown.status = "RECOVERED" <=> recoveredActive
    BY DEF EntitiesAgree
  <2>1. EntityInv /\ EntityType /\ outbox = << >>
    BY Types DEF IInv, AtRest
  <2>2. \A e : ~Pending(e)
    BY <2>1, EmptyOutbox
  <2>3. \A e \in Plain : shown[e] = Known[e]
    BY <2>1, <2>2 DEF EntityInv, ShownInv
  <2>4. shown.healthy <=> ParserHealthy(health)
    BY <2>1, <2>2 DEF EntityInv, ShownInv
  <2>5. /\ shown.state = health.state /\ shown.event = lastEvent /\ shown.rejected = rejected
        /\ shown["parserFaults"] = counters["parserFaults"]
        /\ shown["wifiFaults"] = counters["wifiFaults"]
    BY <2>3 DEF Plain, Known
  <2>6. DOMAIN counters = {"parserFaults", "wifiFaults"}
    BY <2>1 DEF EntityType
  <2>7. /\ shown.status = "RECOVERED" <=> recoveredActive
        /\ shown.status \in TextsOf(health.state)
    BY <2>1, ShownAtRest
  <2>8. shown.status \in
          (CASE health.state = "WAITING_FOR_UART" -> {"STARTING", "WAITING_FOR_FIRST_FRAME"}
             [] health.state = "RECEIVING_DATA"   -> {"RECEIVING_DATA", "RECOVERED"}
             [] OTHER                             -> {"FRAME_TIMEOUT"})
    BY <2>7 DEF TextsOf
  <2>9. QED
    BY <2>4, <2>5, <2>6, <2>7, <2>8
<1>2. QED
  BY <1>1, Invariance, PTL

(* The buzzer warns once per outage and chirps once per recovery, and the   *)
(* fault counter counts the same outages.                                   *)
THEOREM BuzzerOnce == Spec => []BuzzerOncePerOutage
<1>1. IInv => BuzzerOncePerOutage
  <2> SUFFICES ASSUME IInv, AtRest
               PROVE  /\ counters["parserFaults"] = warnings % CounterWrap
                      /\ warnings - chirps = (IF health.state = "DATA_TIMEOUT" THEN 1 ELSE 0)
    BY DEF BuzzerOncePerOutage
  <2>1. BuzzerInv /\ outbox = << >> /\ warnings \in Nat /\ chirps \in Nat
    BY DEF IInv, EntityInv, AtRest, TypeOK
  <2>2. \A e : Unheard(e) = 0
    BY <2>1, EmptyOutbox
  <2>3. warnings + 0 = warnings /\ warnings - chirps + 0 - 0 = warnings - chirps
    BY <2>1
  <2>4. QED
    BY <2>1, <2>2, <2>3 DEF BuzzerInv
<1>2. QED
  BY <1>1, Invariance, PTL

(* RECOVERED is shown for less than two intervals and what two iterations   *)
(* add, however the recovery falls into the schedule of publications.       *)
THEOREM RecoveryEnds == Spec => []RecoveredEnds
<1>1. IInv => RecoveredEnds
  <2> SUFFICES ASSUME IInv, shown.status = "RECOVERED"
               PROVE  restoredFor <= 2 * (PublishInterval + MaxGap - 1)
    BY DEF RecoveredEnds
  <2>1. restoredFor <= gap + 2 * (PublishInterval - 1) + MaxGap
    BY HeldInTime DEF IInv
  <2>2. /\ gap \in 0 .. MaxGap /\ restoredFor \in Nat
        /\ PublishInterval \in Nat /\ MaxGap \in Nat
    BY ComponentAssumption DEF IInv, TypeOK
  <2>3. QED
    BY <2>1, <2>2
<1>2. QED
  BY <1>1, Invariance, PTL

(* Entities change by the delivery of a publication only.                   *)
LEMMA OnlyDeliveryShows ==
  ASSUME IInv, Next, shown' # shown
  PROVE  Deliver
<1>1. EntityInv /\ TypeOK
  BY DEF IInv
<1>2. Announces => shown' = shown
  <2>1. QuietStep => shown' = shown
    BY DEF QuietStep
  <2>2. \A event \in Raised : \A besides : DispatchStep(event, besides) => shown' = shown
    BY DEF DispatchStep
  <2>3. QED
    BY <2>1, <2>2 DEF Announces
<1>3. PhaseStep => shown' = shown
  BY <1>2 DEF PhaseStep
<1>4. ~MalformedFrame /\ ~ValidationRejection /\ ~AcceptedFrame /\ ~EvaluateWatchdog
  BY <1>1, <1>3, MalformedEffect, RejectionEffect, AcceptedEffect, WatchdogEffect
<1>5. ~EvaluateWiFiWatchdog /\ ~RejectSample /\ ~WiFiCallback /\ ~PublishPeriodic
  BY <1>1, <1>3, WiFiEffect, SampleEffect, CallbackEffect, PeriodicEffect
<1>6. ~Tick /\ ~BeginLoop /\ ~SetParserTimeoutSimulation
  BY DEF Tick, BeginLoop, SetParserTimeoutSimulation, entities
<1>7. QED
  BY <1>4, <1>5, <1>6 DEF Next, Loop

(* SEM Parser Healthy changes only once the status, the event and the       *)
(* outage duration it belongs to are shown.                                 *)
THEOREM TriggersLast == Spec => TriggerLast
<1> DEFINE Trigger ==
      ~(shown'.healthy <=> shown.healthy) =>
        IF shown'.healthy
        THEN /\ shown.status \in {"RECEIVING_DATA", "RECOVERED"}
             /\ shown.event = (IF health.hadOutage THEN "UART_RESTORED" ELSE "UART_STARTED")
             /\ shown.outage = health.outage
        ELSE shown.status = "FRAME_TIMEOUT" /\ shown.event = "UART_TIMEOUT"
<1>1. IInv /\ [Next]_vars => [Trigger]_vars
  <2> SUFFICES ASSUME IInv, Next, ~(shown'.healthy <=> shown.healthy) PROVE Trigger
    BY DEF vars, entities
  <2>1. EntityType /\ EntityInv
    BY Types DEF IInv
  <2>2. Deliver
    <3>1. shown' # shown
      OBVIOUS
    <3>2. QED
      BY <3>1, OnlyDeliveryShows
  <2>3. PICK x : DeliverStep(x)
    BY <2>1, <2>2, DeliverEffect
  <2>4. /\ Proper(x) /\ x = outbox[1] /\ Len(outbox) \in Nat \ {0}
        /\ shown' = [shown EXCEPT ![x.entity] = x.value]
    BY <2>3 DEF DeliverStep
  <2>5. x.entity = "healthy"
    <3>1. x.entity # "healthy" => shown'.healthy = shown.healthy
      BY <2>1, <2>4 DEF EntityType
    <3>2. QED
      BY <3>1
  <2>6. Len(outbox) = 1
    <3>1. 1 \in 1 .. Len(outbox)
      BY <2>4
    <3>2. \A i \in 1 .. Len(outbox) : outbox[i].entity = "healthy" => i = Len(outbox)
      BY <2>1 DEF EntityInv, OutboxInv
    <3>3. QED
      BY <2>4, <2>5, <3>1, <3>2
  <2>7. /\ Pending("healthy")
        /\ ~Pending("status") /\ ~Pending("event") /\ ~Pending("outage")
    BY <2>4, <2>5, <2>6 DEF Pending
  <2>8. shown.event = lastEvent /\ shown.outage = health.outage
    <3>1. \A e \in {"event", "outage"} : shown[e] = Known[e]
      BY <2>1, <2>7 DEF EntityInv, ShownInv, Plain
    <3>2. QED
      BY <3>1 DEF Known
  <2>9. shown.status \in TextsOf(health.state)
    BY <2>1, <2>7 DEF EntityInv, ShownInv, Suits
  <2>10. Transition(lastEvent, health)
    BY <2>1, <2>7 DEF EntityInv, HealthInv
  <2>11. shown'.healthy <=> ParserHealthy(health)
    <3>1. shown'.healthy = x.value
      BY <2>1, <2>4, <2>5 DEF EntityType
    <3>2. x.value <=> ParserHealthy(health)
      BY <2>4, <2>5 DEF Proper
    <3>3. QED
      BY <3>1, <3>2
  <2>12. CASE health.state = "RECEIVING_DATA"
    <3>1. shown'.healthy
      BY <2>1, <2>11, <2>12 DEF EntityInv, HealthInv, ParserHealthy
    <3>2. lastEvent = (IF health.hadOutage THEN "UART_RESTORED" ELSE "UART_STARTED")
      BY <2>10, <2>12 DEF Transition
    <3>3. shown.status \in {"RECEIVING_DATA", "RECOVERED"}
      BY <2>9, <2>12 DEF TextsOf
    <3>4. QED
      BY <2>8, <3>1, <3>2, <3>3
  <2>13. CASE health.state = "DATA_TIMEOUT"
    <3>1. ~shown'.healthy
      BY <2>11, <2>13 DEF ParserHealthy
    <3>2. lastEvent = "UART_TIMEOUT"
      BY <2>10, <2>13 DEF Transition
    <3>3. shown.status = "FRAME_TIMEOUT"
      BY <2>9, <2>13 DEF TextsOf
    <3>4. QED
      BY <2>8, <3>1, <3>2, <3>3
  <2>14. QED
    BY <2>10, <2>12, <2>13 DEF Transition
<1>2. QED
  BY <1>1, Invariance, PTL DEF Spec, TriggerLast

-----------------------------------------------------------------------------
(* How RECOVERED ends.                                                     *)

(* What is shown was announced not long before; what is still to be shown   *)
(* was announced in this iteration; and what is not held any more is old    *)
(* enough, announced after the iteration began, or over.                    *)
CutInv ==
  /\ shown.status = "RECOVERED" =>
       /\ now <= recoveredAt + restoredFor + MaxGap
       /\ \/ recoveredActive \/ health.state = "DATA_TIMEOUT"
          \/ recoveredAt > loopNow \/ recoveredAt + PublishInterval <= loopNow
  /\ recoveredActive /\ (shown.status # "RECOVERED" \/ Pending("status")) =>
       now <= recoveredAt + gap

(* The times as numbers.                                                   *)
LEMMA CutTypes ==
  ASSUME IInv
  PROVE  /\ EntityType /\ LoopType /\ EntityInv
         /\ now \in Nat /\ gap \in 0 .. MaxGap /\ loopNow \in 0 .. Horizon
         /\ recoveredAt \in 0 .. Horizon /\ restoredFor \in Nat
         /\ PublishInterval \in Nat \ {0} /\ MaxGap \in Nat /\ Horizon \in Nat
         /\ now = loopNow + gap
<1>1. EntityType /\ LoopType /\ EntityInv
  BY Types DEF IInv
<1>2. QED
  BY <1>1, ComponentAssumption DEF IInv, TimeInv, LoopType

(* With nothing under way RECOVERED is shown exactly while it is held.      *)
LEMMA CutAtRest ==
  ASSUME IInv, outbox = << >>
  PROVE  /\ shown.status = "RECOVERED" <=> recoveredActive
         /\ recoveredActive => health.state = "RECEIVING_DATA"
         /\ ~Pending("status")
BY ShownAtRest, EmptyOutbox DEF IInv, EntityInv, HealthInv

(* A statement or call announces nothing, or RECOVERED as of now.           *)
LEMMA CutPhase ==
  ASSUME IInv, CutInv, PhaseStep
  PROVE  CutInv'
<1>1. /\ Announces
      /\ UNCHANGED <<now, gap, loopNow, restoredFor>>
  BY DEF PhaseStep
<1>2. /\ now \in Nat /\ gap \in Nat /\ EntityInv
  BY CutTypes
<1>3. CASE QuietStep /\ health' \in Tracker /\ recoveredAt' = recoveredAt
  <2>1. /\ outbox = << >> /\ outbox' = << >> /\ shown' = shown
        /\ recoveredActive' = recoveredActive /\ health'.state = health.state
    BY <1>3 DEF QuietStep
  <2>2. ~Pending("status")'
    BY <2>1, EmptiedOutbox
  <2>3. QED
    BY <1>1, <1>3, <2>1, <2>2, CutAtRest DEF CutInv
<1>4. ASSUME NEW event \in Raised, NEW besides, DispatchStep(event, besides),
             recoveredAt' = IF event = "UART_RESTORED" THEN now ELSE recoveredAt
      PROVE  CutInv'
  <2>1. /\ outbox = << >> /\ shown' = shown /\ Moves(event)
    BY <1>4 DEF DispatchStep
  <2>2. /\ shown.status = "RECOVERED" <=> recoveredActive
        /\ recoveredActive => health.state = "RECEIVING_DATA"
    BY <2>1, CutAtRest
  <2>3. Pending("status")' => event \in HealthTransitions
    BY <1>2, <1>4, DispatchPending
  <2>4. CASE event = "UART_RESTORED"
    <3>1. health.state = "DATA_TIMEOUT" /\ recoveredAt' = now
      BY <1>4, <2>1, <2>4 DEF Moves
    <3>2. shown'.status # "RECOVERED"
      BY <2>1, <2>2, <3>1
    <3>3. now' <= recoveredAt' + gap'
      BY <1>1, <1>2, <3>1
    <3>4. QED
      BY <3>2, <3>3 DEF CutInv
  <2>5. CASE event # "UART_RESTORED"
    <3>1. recoveredAt' = recoveredAt
      BY <1>4, <2>5
    <3>2. /\ recoveredActive' => recoveredActive
          /\ recoveredActive => recoveredActive' \/ health'.state = "DATA_TIMEOUT"
      BY <2>1, <2>5 DEF Moves
    <3>3. recoveredActive' => ~Pending("status")'
      BY <2>1, <2>2, <2>3, <2>5, <3>2 DEF Moves, HealthTransitions, Raised
    <3>4. QED
      BY <1>1, <2>1, <2>2, <3>1, <3>2, <3>3 DEF CutInv
  <2>6. QED
    BY <2>4, <2>5
<1>5. QED
  BY <1>1, <1>3, <1>4 DEF Announces

(* The periodic publication ends only what is old enough.                   *)
LEMMA CutPeriodic ==
  ASSUME IInv, CutInv, PublishPeriodic
  PROVE  CutInv'
<1>1. /\ outbox = << >>
      /\ UNCHANGED <<now, gap, loopNow, restoredFor, recoveredAt, shown, health>>
  <2>1. outbox = << >> /\ health' = health
    BY DEF PublishPeriodic, At, tracker
  <2>2. QED
    BY <2>1, PeriodicEffect
<1>2. /\ shown.status = "RECOVERED" <=> recoveredActive
      /\ recoveredActive => health.state = "RECEIVING_DATA"
  BY <1>1, CutAtRest
<1>3. /\ now \in Nat /\ loopNow \in 0 .. Horizon /\ recoveredAt \in 0 .. Horizon
      /\ PublishInterval \in Nat /\ Horizon \in Nat
  BY CutTypes
<1>4. /\ recoveredActive' => recoveredActive /\ outbox' = << >>
      /\ recoveredActive /\ ~recoveredActive' =>
           ~(Elapsed(loopNow, recoveredAt) < PublishInterval)
  <2>1. CASE Elapsed(loopNow, lastPublish) < PublishInterval
    BY <1>1, <2>1 DEF PublishPeriodic, periodic, entities
  <2>2. CASE ~(Elapsed(loopNow, lastPublish) < PublishInterval)
    <3>1. outbox' = StatusDue /\ recoveredActive' = (recoveredActive /\ HoldRecovered)
      BY <2>2 DEF PublishPeriodic
    <3>2. recoveredActive /\ HoldRecovered => StatusDue = << >>
      BY <1>2 DEF StatusDue
    <3>3. QED
      BY <3>1, <3>2 DEF HoldRecovered
  <2>3. QED
    BY <2>1, <2>2
<1>5. recoveredActive /\ ~recoveredActive' =>
        recoveredAt > loopNow \/ recoveredAt + PublishInterval <= loopNow
  <2>1. CASE recoveredAt <= loopNow
    <3>1. Elapsed(loopNow, recoveredAt) = loopNow - recoveredAt
      BY <1>3, <2>1, ElapsedPlain
    <3>2. QED
      BY <1>3, <1>4, <3>1
  <2>2. CASE ~(recoveredAt <= loopNow)
    BY <1>3, <2>2
  <2>3. QED
    BY <2>1, <2>2
<1>6. recoveredActive' => ~Pending("status")'
  BY <1>4, EmptiedOutbox
<1>7. QED
  BY <1>1, <1>2, <1>4, <1>5, <1>6 DEF CutInv

(* A delivery shows what was announced in this iteration.                   *)
LEMMA CutDeliver ==
  ASSUME IInv, CutInv, Deliver
  PROVE  CutInv'
<1>1. /\ EntityType /\ EntityInv
      /\ now \in Nat /\ gap \in 0 .. MaxGap /\ recoveredAt \in 0 .. Horizon
      /\ restoredFor \in Nat /\ MaxGap \in Nat /\ Horizon \in Nat
  BY CutTypes
<1>2. PICK x : DeliverStep(x)
  BY <1>1, DeliverEffect
<1>3. /\ UNCHANGED <<now, gap, loopNow, recoveredAt, recoveredActive, health>>
      /\ Proper(x) /\ Len(outbox) \in Nat \ {0} /\ x = outbox[1]
      /\ Len(outbox') = Len(outbox) - 1
      /\ \A i \in 1 .. Len(outbox') : outbox'[i] = outbox[i + 1]
      /\ shown' = [shown EXCEPT ![x.entity] = x.value]
      /\ restoredFor' = (IF x.entity = "status" /\ x.value = "RECOVERED" THEN 0 ELSE restoredFor)
  BY <1>2 DEF DeliverStep, clock, periodic, tracker
<1>4. Pending("status")' => Pending("status")
  BY <1>3 DEF Pending
<1>5. CASE x.entity = "status"
  <2>1. Pending("status")
    BY <1>3, <1>5 DEF Pending
  <2>2. shown'.status = x.value /\ (x.value = "RECOVERED" <=> recoveredActive)
    BY <1>1, <1>3, <1>5 DEF EntityType, Proper, Suits
  <2>3. recoveredActive => now <= recoveredAt + gap /\ restoredFor' = 0
    BY <1>3, <1>5, <2>1, <2>2 DEF CutInv
  <2>4. recoveredActive => now <= recoveredAt + restoredFor' + MaxGap
    BY <1>1, <2>3
  <2>5. QED
    BY <1>3, <2>2, <2>3, <2>4 DEF CutInv
<1>6. CASE x.entity # "status"
  <2>1. shown'.status = shown.status /\ restoredFor' = restoredFor
    BY <1>1, <1>3, <1>6 DEF EntityType
  <2>2. QED
    BY <1>3, <1>4, <2>1 DEF CutInv
<1>7. QED
  BY <1>5, <1>6

(* Every step keeps it.                                                     *)
LEMMA CutStep == IInv /\ CutInv /\ [Next]_vars => CutInv'
<1> SUFFICES ASSUME IInv, CutInv, [Next]_vars PROVE CutInv'
  OBVIOUS
<1>1. /\ TypeOK /\ EntityInv
      /\ now \in Nat /\ gap \in 0 .. MaxGap /\ recoveredAt \in 0 .. Horizon
      /\ restoredFor \in Nat /\ MaxGap \in Nat /\ Horizon \in Nat
  BY CutTypes DEF IInv
<1>2. CASE Tick
  <2>1. /\ now' = now + 1 /\ gap' = gap + 1
        /\ shown.status = "RECOVERED" => restoredFor' = restoredFor + 1
        /\ UNCHANGED <<loopNow, health, recoveredAt, recoveredActive, outbox, shown>>
    BY <1>2 DEF Tick, tracker, periodic, entities
  <2>2. Pending("status")' <=> Pending("status")
    BY <2>1 DEF Pending
  <2>3. QED
    BY <1>1, <2>1, <2>2 DEF CutInv
<1>3. CASE Deliver
  BY <1>3, CutDeliver
<1>4. CASE BeginLoop
  <2>1. /\ outbox = << >> /\ outbox' = << >>
        /\ UNCHANGED <<now, restoredFor, health, recoveredAt, recoveredActive, shown>>
    BY <1>4 DEF BeginLoop, At, tracker, periodic, entities
  <2>2. ~Pending("status")'
    BY <2>1, EmptiedOutbox
  <2>3. QED
    BY <2>1, <2>2, CutAtRest DEF CutInv
<1>5. CASE \/ MalformedFrame \/ ValidationRejection \/ AcceptedFrame \/ EvaluateWatchdog
           \/ EvaluateWiFiWatchdog \/ RejectSample \/ WiFiCallback
  <2>1. PhaseStep
    BY <1>1, <1>5, MalformedEffect, RejectionEffect, AcceptedEffect, WatchdogEffect, WiFiEffect,
       SampleEffect, CallbackEffect
  <2>2. QED
    BY <2>1, CutPhase
<1>6. CASE PublishPeriodic
  BY <1>6, CutPeriodic
<1>7. CASE SetParserTimeoutSimulation \/ UNCHANGED vars
  <2>1. UNCHANGED <<now, gap, loopNow, restoredFor, health, recoveredAt, recoveredActive, outbox,
                    shown>>
    BY <1>7 DEF SetParserTimeoutSimulation, Idle, vars, clock, tracker, periodic, entities
  <2>2. QED
    BY <2>1 DEF CutInv, Pending
<1>8. QED
  BY <1>2, <1>3, <1>4, <1>5, <1>6, <1>7 DEF Next, Loop

(* It holds in every reachable state.                                       *)
LEMMA CutInvariance == Spec => [](IInv /\ CutInv)
<1>1. Init => CutInv
  BY DEF Init, CutInv
<1>2. QED
  BY <1>1, InitInvariant, NextInvariant, CutStep, PTL DEF Spec

(* What the documentation promises of RECOVERED is broken in one way only:  *)
(* in the iteration that published it, when the clock advanced inside it.   *)
THEOREM CutOnlyAtOnce == Spec => RecoveredCutAtOnce
<1> DEFINE Cut == shown.status = "RECOVERED" /\ shown'.status = "RECEIVING_DATA"
                    => restoredFor >= PublishInterval - MaxGap \/ recoveredAt > loopNow
<1>1. IInv /\ CutInv /\ [Next]_vars => [Cut]_vars
  <2> SUFFICES ASSUME IInv, CutInv, Next,
                      shown.status = "RECOVERED", shown'.status = "RECEIVING_DATA"
               PROVE  restoredFor >= PublishInterval - MaxGap \/ recoveredAt > loopNow
    OBVIOUS
  <2>1. /\ EntityType /\ EntityInv /\ TypeOK
        /\ now \in Nat /\ gap \in 0 .. MaxGap /\ recoveredAt \in 0 .. Horizon
        /\ loopNow \in 0 .. Horizon /\ restoredFor \in Nat /\ MaxGap \in Nat /\ Horizon \in Nat
        /\ PublishInterval \in Nat \ {0} /\ now = loopNow + gap
    BY CutTypes DEF IInv
  <2>2. Deliver
    <3>1. shown' # shown
      OBVIOUS
    <3>2. QED
      BY <2>1, <3>1, OnlyDeliveryShows
  <2>3. PICK x : DeliverStep(x)
    BY <2>1, <2>2, DeliverEffect
  <2>4. Proper(x) /\ shown' = [shown EXCEPT ![x.entity] = x.value]
    BY <2>3 DEF DeliverStep
  <2>5. x.entity = "status" /\ x.value = "RECEIVING_DATA"
    BY <2>1, <2>4 DEF EntityType
  <2>6. ~recoveredActive /\ health.state # "DATA_TIMEOUT"
    BY <2>4, <2>5 DEF Proper, Suits, TextsOf
  <2>7. /\ now <= recoveredAt + restoredFor + MaxGap
        /\ recoveredAt > loopNow \/ recoveredAt + PublishInterval <= loopNow
    BY <2>6 DEF CutInv
  <2>8. QED
    BY <2>1, <2>7
<1>2. QED
  BY <1>1, CutInvariance, PTL DEF Spec, RecoveredCutAtOnce

-----------------------------------------------------------------------------
(* The loop implements the parser watchdog.                                *)

Proved == INSTANCE ParserWatchdogProofs
  WITH health <- HealthAhead, lastEval <- LastEvalAhead, event <- raised, BootTimes <- {0}

(* The parser watchdog uses the same tracker.                               *)
LEMMA SameTracker ==
  /\ \A a, b : Watchdog!Elapsed(a, b) = Elapsed(a, b)
  /\ \A h, e : Watchdog!Update(h, e) = Update(h, e)
  /\ \A h, t : Watchdog!SetupCompleted(h, t) = SetupCompleted(h, t)
  /\ Watchdog!BootingTracker = BootingTracker
  /\ \A h, s, t : Watchdog!RecordAcceptedFrame(h, s, t) = RecordAcceptedFrame(h, s, t)
  /\ \A h, t : Watchdog!CheckTimeout(h, t) = CheckTimeout(h, t)
BY Zenon
DEF Watchdog!Elapsed, Elapsed, Watchdog!Update, Update, Watchdog!SetupCompleted, SetupCompleted,
    Watchdog!BootingTracker, BootingTracker,
    Watchdog!RecordAcceptedFrame, RecordAcceptedFrame, Watchdog!RecordValidFrame, RecordValidFrame,
    Watchdog!CheckTimeout, CheckTimeout, Watchdog!DeclareTimeout, DeclareTimeout,
    Watchdog!GraceExpired, GraceExpired, Watchdog!FramesStopped, FramesStopped

(* The tracker ahead does not change while what it depends on does not.     *)
LEMMA AheadKept ==
  ASSUME UNCHANGED <<pc, loopNow, feed, health, simulation, lastEval>>
  PROVE  UNCHANGED <<HealthAhead, LastEvalAhead>>
BY Zenon DEF HealthAhead, LastEvalAhead, Unfed, Unevaluated, Fed, Evaluated, EvaluationDue

(* Outside the first half of loop() nothing is ahead.                       *)
LEMMA NothingAhead ==
  ASSUME pc \in {"idle", "wifi", "periodic"}
  PROVE  HealthAhead = health /\ LastEvalAhead = lastEval
BY DEF HealthAhead, LastEvalAhead, Unfed, Unevaluated

(* setup() leaves the watchdog in its initial state.                        *)
LEMMA InitMaps == WatchedInit => Watchdog!Init
<1> SUFFICES ASSUME WatchedInit PROVE Watchdog!Init
  OBVIOUS
<1>1. /\ pc = "idle" /\ now = 0 /\ gap = 0 /\ simulation = FALSE /\ lastEval = 0
      /\ health = SetupCompleted(BootingTracker, 0).tracker
      /\ raised = << >> /\ silence = 0 /\ overdue = 0 /\ openOutages = 0
  BY DEF WatchedInit, Init
<1>2. HealthAhead = health /\ LastEvalAhead = lastEval
  BY <1>1, NothingAhead
<1>3. QED
  BY <1>1, <1>2, SameTracker DEF Watchdog!Init

(* Time passes for both, also within an iteration.                          *)
LEMMA TickMaps == TypeOK /\ WatchedTick => Watchdog!Tick
<1> SUFFICES ASSUME TypeOK, WatchedTick PROVE Watchdog!Tick
  OBVIOUS
<1>1. /\ gap < MaxGap /\ now < Horizon /\ now' = now + 1 /\ gap' = gap + 1
      /\ UNCHANGED <<pc, loopNow, feed, health, simulation, lastEval>>
  BY DEF WatchedTick, Tick, tracker
<1>2. UNCHANGED <<HealthAhead, LastEvalAhead>>
  BY <1>1, AheadKept
<1>3. now' = (now + 1) % Wrap
  BY <1>1, ComponentAssumption, WrapAssumption DEF TypeOK
<1>4. QED
  BY <1>1, <1>2, <1>3 DEF WatchedTick, Watchdog!Tick

(* The iteration of the watchdog is taken when loop() begins.               *)
LEMMA BeginMaps == WatchedBegin => Watchdog!Loop
<1> SUFFICES ASSUME WatchedBegin PROVE Watchdog!Loop
  OBVIOUS
<1>1. /\ pc = "idle" /\ pc' = "malformed" /\ gap' = 0 /\ loopNow' = now
      /\ UNCHANGED <<now, health, simulation, lastEval>>
  BY DEF WatchedBegin, BeginLoop, At, tracker
<1> DEFINE frame   == feed'.cycle = "accepted"
           fed     == IF frame THEN RecordAcceptedFrame(health, simulation, now)
                      ELSE Update(health, "NONE")
           due     == Elapsed(now, lastEval) >= EvalInterval
           checked == IF due THEN CheckTimeout(fed.tracker, now) ELSE Update(fed.tracker, "NONE")
<1>2. HealthAhead = health /\ LastEvalAhead = lastEval
  BY <1>1, NothingAhead
<1>3. Fed(health)' = fed
  BY <1>1, Zenon DEF Fed
<1>4. EvaluationDue' <=> due
  BY <1>1, Zenon DEF EvaluationDue
<1>5. Evaluated(Fed(health).tracker)' = checked
  BY <1>1, <1>3, <1>4, Zenon DEF Evaluated
<1>6. HealthAhead' = checked.tracker
  BY <1>1, <1>5 DEF HealthAhead, Unfed
<1>7. LastEvalAhead' = IF due THEN now ELSE lastEval
  BY <1>1, <1>4 DEF LastEvalAhead, Unevaluated, Unfed
<1>8. /\ raised' = Watchdog!Raised(fed.event, checked.event)
      /\ silence' = IF frame /\ ~simulation THEN 0 ELSE silence
      /\ overdue' = IF checked.event = "UART_TIMEOUT"
                    THEN IF health.seenFrame THEN silence ELSE 0
                    ELSE overdue
      /\ openOutages' = openOutages
                        - (IF fed.event = "UART_RESTORED" THEN 1 ELSE 0)
                        + (IF checked.event = "UART_TIMEOUT" THEN 1 ELSE 0)
  <2> DEFINE f == Fed(health)'
             c == Evaluated(Fed(health).tracker)'
  <2>1. /\ raised' = Watchdog!Raised(f.event, c.event)
        /\ silence' = IF frame /\ ~simulation THEN 0 ELSE silence
        /\ overdue' = IF c.event = "UART_TIMEOUT"
                      THEN IF health.seenFrame THEN silence ELSE 0
                      ELSE overdue
        /\ openOutages' = openOutages
                          - (IF f.event = "UART_RESTORED" THEN 1 ELSE 0)
                          + (IF c.event = "UART_TIMEOUT" THEN 1 ELSE 0)
    BY Zenon DEF WatchedBegin
  <2>2. f = fed /\ c = checked
    BY <1>3, <1>5
  <2> HIDE DEF f, c, fed, checked
  <2>3. QED
    BY <2>1, <2>2, Zenon
<1>9. Watchdog!EvaluationDue <=> due
  BY <1>2, SameTracker, Zenon DEF Watchdog!EvaluationDue
<1>10. \A h : Watchdog!Evaluated(h) = IF due THEN CheckTimeout(h, now) ELSE Update(h, "NONE")
  BY <1>9, SameTracker, Zenon DEF Watchdog!Evaluated
<1>11. Watchdog!Iterate(frame)
  <2> HIDE DEF due
  <2> QED
    BY <1>1, <1>2, <1>6, <1>7, <1>8, <1>9, <1>10, SameTracker, Zenon DEF Watchdog!Iterate
<1>12. QED
  BY <1>11 DEF Watchdog!Loop

(* The simulation is switched between two iterations.                       *)
LEMMA SimulationMaps == WatchedSimulation => Watchdog!SetSimulation
<1> SUFFICES ASSUME WatchedSimulation PROVE Watchdog!SetSimulation
  OBVIOUS
<1>1. /\ pc = "idle" /\ pc' = "idle" /\ simulation' = ~simulation /\ raised' = << >>
      /\ UNCHANGED <<now, gap, health, lastEval, silence, overdue, openOutages>>
  BY DEF WatchedSimulation, SetParserTimeoutSimulation, At, Idle, clock, tracker
<1>2. /\ HealthAhead = health /\ LastEvalAhead = lastEval
      /\ HealthAhead' = health' /\ LastEvalAhead' = lastEval'
  <2>1. HealthAhead' = health' /\ LastEvalAhead' = lastEval'
    BY <1>1 DEF HealthAhead, LastEvalAhead, Unfed, Unevaluated
  <2>2. QED
    BY <1>1, <2>1, NothingAhead
<1>3. QED
  BY <1>1, <1>2 DEF Watchdog!SetSimulation

(* What is ahead of a statement is what it does, and what is ahead of the   *)
(* next one.                                                                *)
LEMMA StatementMaps == TypeOK /\ WatchedStatement => UNCHANGED Watchdog!vars
<1> SUFFICES ASSUME TypeOK, WatchedStatement PROVE UNCHANGED Watchdog!vars
  OBVIOUS
<1> DEFINE Fixed == UNCHANGED <<now, gap, loopNow, feed, simulation, raised, silence, overdue,
                                openOutages>>
<1>1. SUFFICES Fixed /\ UNCHANGED <<HealthAhead, LastEvalAhead>>
  BY DEF Watchdog!vars
<1>2. Fixed
  BY DEF WatchedStatement, history, Deliver, MalformedFrame, ValidationRejection, AcceptedFrame,
     EvaluateWatchdog, EvaluateWiFiWatchdog, PublishPeriodic, RejectSample, WiFiCallback,
     Continue, Idle, clock
<1>3. CASE Deliver
  BY <1>2, <1>3, AheadKept DEF Deliver, tracker
<1>4. CASE RejectSample \/ WiFiCallback
  <2>1. UNCHANGED <<pc, health, lastEval>>
    BY <1>4 DEF RejectSample, WiFiCallback, Idle, Reject, WiFiTransition
  <2>2. QED
    BY <1>2, <2>1, AheadKept
<1>5. CASE MalformedFrame \/ ValidationRejection
  <2>1. pc \in {"malformed", "rejection"} /\ pc' \in {"rejection", "frame"}
    BY <1>5 DEF MalformedFrame, ValidationRejection, At, Continue
  <2>2. UNCHANGED <<health, lastEval>>
    BY <1>5 DEF MalformedFrame, ValidationRejection, Apply, Update, Reject, tracker
  <2>3. Unfed /\ Unfed' /\ Unevaluated /\ Unevaluated'
    BY <2>1 DEF Unfed, Unevaluated
  <2>4. QED
    BY <1>2, <2>2, <2>3, Zenon DEF HealthAhead, LastEvalAhead, Fed, Evaluated, EvaluationDue
<1>6. CASE AcceptedFrame
  <2>1. /\ pc = "frame" /\ pc' = "watchdog" /\ lastEval' = lastEval
        /\ health' = Fed(health).tracker
    BY <1>6 DEF AcceptedFrame, At, Continue, Apply, Fed
  <2>2. Unfed /\ Unevaluated /\ ~Unfed' /\ Unevaluated'
    BY <2>1 DEF Unfed, Unevaluated
  <2>3. HealthAhead = Evaluated(health').tracker /\ HealthAhead' = Evaluated(health)'.tracker
    BY <2>1, <2>2, Zenon DEF HealthAhead
  <2>4. UNCHANGED EvaluationDue
    BY <1>2, <2>1, Zenon DEF EvaluationDue
  <2>5. Evaluated(health') = Evaluated(health)'
    BY <1>2, <2>4, Zenon DEF Evaluated
  <2>6. LastEvalAhead' = LastEvalAhead
    BY <1>2, <2>1, <2>2, <2>4, Zenon DEF LastEvalAhead
  <2>7. QED
    BY <1>2, <2>3, <2>5, <2>6, Zenon
<1>7. CASE EvaluateWatchdog
  <2>1. /\ pc = "watchdog" /\ pc' = "wifi"
        /\ health' = Evaluated(health).tracker
        /\ lastEval' = IF EvaluationDue THEN loopNow ELSE lastEval
    <3>1. Elapsed(loopNow, lastEval) \in Int /\ EvalInterval \in Int
      BY ComponentAssumption, WrapAssumption DEF TypeOK, Elapsed
    <3>2. EvaluationDue <=> ~(Elapsed(loopNow, lastEval) < EvalInterval)
      BY <3>1 DEF EvaluationDue
    <3>3. QED
      BY <1>7, <3>2, Zenon
      DEF EvaluateWatchdog, At, Continue, Apply, Evaluated, Update, tracker
  <2>2. ~Unfed /\ Unevaluated /\ ~Unfed' /\ ~Unevaluated'
    BY <2>1 DEF Unfed, Unevaluated
  <2>3. QED
    BY <1>2, <2>1, <2>2, Zenon DEF HealthAhead, LastEvalAhead
<1>8. CASE EvaluateWiFiWatchdog \/ PublishPeriodic
  <2>1. pc \in {"wifi", "periodic"} /\ pc' \in {"periodic", "idle"}
    BY <1>8 DEF EvaluateWiFiWatchdog, PublishPeriodic, At, Continue
  <2>2. UNCHANGED <<health, lastEval>>
    BY <1>8 DEF EvaluateWiFiWatchdog, PublishPeriodic, WiFiTransition, tracker
  <2>3. ~Unfed /\ ~Unevaluated /\ ~Unfed' /\ ~Unevaluated'
    BY <2>1 DEF Unfed, Unevaluated
  <2>4. QED
    BY <1>2, <2>2, <2>3, Zenon DEF HealthAhead, LastEvalAhead
<1>9. QED
  BY <1>3, <1>4, <1>5, <1>6, <1>7, <1>8 DEF WatchedStatement

(* Every step of the component is a step of the watchdog or none.           *)
LEMMA StepMaps == TypeOK /\ [WatchedNext]_watchedVars => [Watchdog!Next]_(Watchdog!vars)
<1> SUFFICES ASSUME TypeOK, [WatchedNext]_watchedVars
             PROVE  Watchdog!Next \/ UNCHANGED Watchdog!vars
  OBVIOUS
<1>1. CASE UNCHANGED watchedVars
  <2>1. /\ UNCHANGED <<now, gap, pc, loopNow, feed, health, simulation, lastEval>>
        /\ UNCHANGED <<raised, silence, overdue, openOutages>>
    BY <1>1 DEF watchedVars, vars, history, clock, tracker
  <2>2. QED
    BY <2>1, AheadKept DEF Watchdog!vars
<1>2. CASE WatchedNext
  BY <1>2, TickMaps, BeginMaps, SimulationMaps, StatementMaps DEF WatchedNext, Watchdog!Next
<1>3. QED
  BY <1>1, <1>2

(* Without the history the watched component is the component.              *)
LEMMA WatchedIsSpec == WatchedSpec => Spec
<1>1. WatchedInit => Init
  BY DEF WatchedInit
<1>2. [WatchedNext]_watchedVars => [Next]_vars
  BY DEF WatchedNext, WatchedTick, WatchedBegin, WatchedSimulation, WatchedStatement, watchedVars,
     Next, Loop
<1>3. QED
  BY <1>1, <1>2, PTL DEF WatchedSpec, Spec

(* The statements of loop(), with everything that may happen between them,  *)
(* implement the parser watchdog: each iteration is one step of it.         *)
THEOREM Refinement == WatchedSpec => RunsWatchdog
<1>1. WatchedSpec => []TypeOK
  BY WatchedIsSpec, TypeCorrect, PTL
<1>2. QED
  BY <1>1, InitMaps, StepMaps, PTL DEF WatchedSpec, RunsWatchdog, Watchdog!Spec

-----------------------------------------------------------------------------
(* What is proved of the parser watchdog holds of the loop.                *)

(* The assumptions of the parser watchdog are those of the loop.            *)
LEMMA ProvedAssumptions ==
  Proved!WrapAssumption /\ Proved!ParserTimingAssumption /\ Proved!LoopAssumption
BY WrapAssumption, ParserTimingAssumption, ComponentAssumption, WatchdogAssumption
DEF Proved!WrapAssumption, Proved!ParserTimingAssumption, Proved!LoopAssumption,
    Proved!Timestamps

(* The module with the proofs is about the same initial states ...          *)
LEMMA ProvedInit == Watchdog!Init => Proved!Init
BY Zenon
DEF Watchdog!Init, Proved!Init, Watchdog!SetupCompleted, Proved!SetupCompleted,
    Watchdog!BootingTracker, Proved!BootingTracker, Watchdog!Update, Proved!Update

(* ... and the same steps.                                                  *)
LEMMA ProvedStep == [Watchdog!Next]_(Watchdog!vars) => [Proved!Next]_(Proved!vars)
<1>1. Watchdog!Loop => Proved!Loop
  BY Zenon
  DEF Watchdog!Loop, Proved!Loop, Watchdog!Iterate, Proved!Iterate,
      Watchdog!Evaluated, Proved!Evaluated, Watchdog!EvaluationDue, Proved!EvaluationDue,
      Watchdog!RecordAcceptedFrame, Proved!RecordAcceptedFrame,
      Watchdog!RecordValidFrame, Proved!RecordValidFrame, Watchdog!Update, Proved!Update,
      Watchdog!CheckTimeout, Proved!CheckTimeout, Watchdog!DeclareTimeout, Proved!DeclareTimeout,
      Watchdog!GraceExpired, Proved!GraceExpired, Watchdog!FramesStopped, Proved!FramesStopped,
      Watchdog!Raised, Proved!Raised, Watchdog!Elapsed, Proved!Elapsed
<1>2. Watchdog!Tick => Proved!Tick
  BY Zenon DEF Watchdog!Tick, Proved!Tick, Watchdog!Later, Proved!Later
<1>3. Watchdog!SetSimulation => Proved!SetSimulation
  BY Zenon DEF Watchdog!SetSimulation, Proved!SetSimulation
<1>4. QED
  BY <1>1, <1>2, <1>3, Zenon
  DEF Watchdog!Next, Proved!Next, Watchdog!vars, Proved!vars

(* So everything proved about the watchdog holds here.                      *)
LEMMA ProvedSpec == WatchedSpec => Proved!Spec
BY Refinement, ProvedInit, ProvedStep, PTL DEF RunsWatchdog, Watchdog!Spec, Proved!Spec

(* The watchdog in the loop raises no timeout early and none late, counts   *)
(* its outages and times them, on the tracker the iteration under way       *)
(* leaves.                                                                  *)
THEOREM LoopWatches ==
  WatchedSpec => [](/\ Watchdog!NoEarlyTimeout /\ Watchdog!DetectionBounded
                    /\ Watchdog!OutagesAlternate /\ Watchdog!OutageMeasured)
<1>1. Proved!NoEarlyTimeout => Watchdog!NoEarlyTimeout
  BY Zenon DEF Watchdog!NoEarlyTimeout, Proved!NoEarlyTimeout, Watchdog!Limit, Proved!Limit,
     Watchdog!Occurred, Proved!Occurred
<1>2. Proved!DetectionBounded => Watchdog!DetectionBounded
  BY Zenon DEF Watchdog!DetectionBounded, Proved!DetectionBounded, Watchdog!Limit, Proved!Limit
<1>3. Proved!OutagesAlternate => Watchdog!OutagesAlternate
  BY Zenon DEF Watchdog!OutagesAlternate, Proved!OutagesAlternate
<1>4. Proved!OutageMeasured => Watchdog!OutageMeasured
  BY Zenon DEF Watchdog!OutageMeasured, Proved!OutageMeasured, Watchdog!Occurred, Proved!Occurred
<1>5. /\ WatchedSpec => []Proved!NoEarlyTimeout
      /\ WatchedSpec => []Proved!DetectionBounded
      /\ WatchedSpec => []Proved!OutagesAlternate
      /\ WatchedSpec => []Proved!OutageMeasured
  BY ProvedSpec, ProvedAssumptions, Proved!NoFalseAlarm, Proved!BoundedDetection,
     Proved!Alternation, Proved!TrueDurations, PTL
<1>6. QED
  BY <1>1, <1>2, <1>3, <1>4, <1>5, PTL

(* What Home Assistant shows when the loop is at rest is neither a false    *)
(* alarm nor a late one, whatever was published, dispatched or called back  *)
(* in the meantime and however long it took.                                *)
THEOREM AlarmsTruthful == WatchedSpec => []AlarmTruthful
<1>1. WatchedSpec => []Watchdog!DetectionBounded
  BY LoopWatches, PTL
<1>2. WatchedSpec => []Proved!TimedOutInv
  BY ProvedSpec, ProvedAssumptions, Proved!TimedOutInvariance, PTL
<1>3. WatchedSpec => [](IInv /\ EntitiesAgree)
  BY WatchedIsSpec, Invariance, Agreement, PTL
<1>4. Watchdog!DetectionBounded /\ Proved!TimedOutInv /\ IInv /\ EntitiesAgree => AlarmTruthful
  <2> SUFFICES ASSUME Watchdog!DetectionBounded, Proved!TimedOutInv, IInv, EntitiesAgree, AtRest
               PROVE  /\ shown.status = "FRAME_TIMEOUT" => silence >= Watchdog!Limit
                      /\ silence >= Watchdog!Limit + EvalInterval + MaxGap - 1 =>
                           shown.status = "FRAME_TIMEOUT" /\ ~shown.healthy
    BY DEF AlarmTruthful
  <2>1. HealthAhead = health
    BY NothingAhead DEF AtRest
  <2>2. Proved!Limit = Watchdog!Limit
    BY DEF Proved!Limit, Watchdog!Limit
  <2>3. /\ shown.healthy <=> ParserHealthy(health)
        /\ shown.status \in
             (CASE health.state = "WAITING_FOR_UART" -> {"STARTING", "WAITING_FOR_FIRST_FRAME"}
                [] health.state = "RECEIVING_DATA"   -> {"RECEIVING_DATA", "RECOVERED"}
                [] OTHER                             -> {"FRAME_TIMEOUT"})
    BY DEF EntitiesAgree
  <2>4. health.state \in {"WAITING_FOR_UART", "RECEIVING_DATA", "DATA_TIMEOUT"}
    BY DEF IInv, EntityInv, HealthInv
  <2>5. shown.status = "FRAME_TIMEOUT" <=> health.state = "DATA_TIMEOUT"
    BY <2>3, <2>4
  <2>6. shown.status = "FRAME_TIMEOUT" => silence >= Watchdog!Limit
    BY <2>1, <2>2, <2>5 DEF Proved!TimedOutInv
  <2>7. silence >= Watchdog!Limit + EvalInterval + MaxGap - 1 => health.state = "DATA_TIMEOUT"
    BY <2>1 DEF Watchdog!DetectionBounded
  <2>8. health.state = "DATA_TIMEOUT" => ~shown.healthy
    BY <2>3 DEF ParserHealthy
  <2>9. QED
    BY <2>5, <2>6, <2>7, <2>8
<1>5. QED
  BY <1>1, <1>2, <1>3, <1>4, PTL
=============================================================================
