--------------------------- MODULE StreamChannel ---------------------------
(* The channel behind run.stream, src/src/core/streaming.ts: a logger that *)
(* puts every event of a run in a bounded buffer, or straight in the hands *)
(* of the consumer that waits for one, and an iterator over the buffer.    *)
(*                                                                         *)
(* Events are numbered in the order they are recorded.  The consumer is a  *)
(* for await loop: it asks for the next event when it has dealt with the   *)
(* last, and may break out.                                                *)
EXTENDS Naturals, Sequences, SequenceTheorems, TLAPS

CONSTANTS
  HighWater,  \* high_water_mark
  MaxEvents   \* bound of the model: how many events the run records

ASSUME ChannelAssumption == HighWater \in Nat \ {0} /\ MaxEvents \in Nat

VARIABLES
  buffer,
  dropped,
  closed,
  waiter,     \* whether the consumer waits in next()
  recorded,   \* how many events the run has recorded
  accepted,   \* the number of the last one the channel took before it closed
  received,   \* what the consumer got, in order
  stopped     \* "no", or how the consumer's loop ended: "done" or "left"

vars == <<buffer, dropped, closed, waiter, recorded, accepted, received, stopped>>

Event(n) == [kind |-> "event", n |-> n]

EventsDropped(n) == [kind |-> "events_dropped", n |-> n]

Init ==
  /\ buffer = <<>>
  /\ dropped = 0
  /\ closed = FALSE
  /\ waiter = FALSE
  /\ recorded = 0
  /\ accepted = 0
  /\ received = <<>>
  /\ stopped = "no"

----------------------------------------------------------------------------

HandOver(event) ==
  /\ waiter' = FALSE
  /\ received' = Append(received, event)
  /\ UNCHANGED <<buffer, dropped>>

(* Mutant: an event pushed out of the buffer is not counted. *)
BufferUncounted(event) ==
  /\ buffer' = IF Len(buffer) >= HighWater THEN Append(Tail(buffer), event) ELSE Append(buffer, event)
  /\ UNCHANGED <<dropped, waiter, received>>

Buffer(event) ==
  /\ IF Len(buffer) >= HighWater
     THEN buffer' = Append(Tail(buffer), event) /\ dropped' = dropped + 1
     ELSE buffer' = Append(buffer, event) /\ UNCHANGED dropped
  /\ UNCHANGED <<waiter, received>>

(* enqueue, by record, start_span and end_span. *)
Enqueue ==
  /\ recorded < MaxEvents
  /\ recorded' = recorded + 1
  /\ \/ closed /\ UNCHANGED <<buffer, dropped, waiter, accepted, received>>
     \/ ~closed /\ accepted' = recorded' /\ waiter /\ HandOver(Event(recorded'))
     \/ ~closed /\ accepted' = recorded' /\ ~waiter /\ Buffer(Event(recorded'))
  /\ UNCHANGED <<closed, stopped>>

Shut ==
  /\ closed' = TRUE
  /\ buffer' = IF dropped > 0 /\ ~closed THEN Append(buffer, EventsDropped(dropped)) ELSE buffer
  /\ UNCHANGED <<dropped, recorded, accepted, received>>

(* Mutant: the waiting consumer is not told. *)
CloseSilently ==
  /\ ~closed
  /\ Shut
  /\ UNCHANGED <<waiter, stopped>>

(* close, when the run settles. *)
Close ==
  /\ ~closed
  /\ Shut
  /\ waiter' = FALSE
  /\ stopped' = IF waiter THEN "done" ELSE stopped

----------------------------------------------------------------------------
(* The consumer. *)

Asks == stopped = "no" /\ ~waiter

NextBuffered ==
  /\ Asks /\ buffer # <<>>
  /\ received' = Append(received, Head(buffer))
  /\ buffer' = Tail(buffer)
  /\ UNCHANGED <<dropped, closed, waiter, recorded, accepted, stopped>>

(* Mutant: a closed channel is over even while events are buffered. *)
NextDoneAtOnce ==
  /\ Asks /\ closed
  /\ stopped' = "done"
  /\ UNCHANGED <<buffer, dropped, closed, waiter, recorded, accepted, received>>

NextDone ==
  /\ Asks /\ buffer = <<>> /\ closed
  /\ stopped' = "done"
  /\ UNCHANGED <<buffer, dropped, closed, waiter, recorded, accepted, received>>

NextWaits ==
  /\ Asks /\ buffer = <<>> /\ ~closed
  /\ waiter' = TRUE
  /\ UNCHANGED <<buffer, dropped, closed, recorded, accepted, received, stopped>>

(* The loop is left: return() closes the channel, and the run goes on. *)
Return ==
  /\ Asks
  /\ Shut
  /\ stopped' = "left"
  /\ UNCHANGED waiter

Consumer == NextBuffered \/ NextDone \/ NextWaits

Next == Enqueue \/ Close \/ Consumer \/ Return

Spec == Init /\ [][Next]_vars

(* Every run settles and then closes its channel, and a loop that has not  *)
(* been left asks for more.                                                *)
FairSpec == Spec /\ WF_vars(Close) /\ WF_vars(Consumer)

----------------------------------------------------------------------------
(* Properties.                                                             *)

Items == [kind : {"event", "events_dropped"}, n : 0 .. MaxEvents]

TypeOK ==
  /\ buffer \in Seq(Items)
  /\ dropped \in 0 .. MaxEvents
  /\ closed \in BOOLEAN
  /\ waiter \in BOOLEAN
  /\ recorded \in 0 .. MaxEvents
  /\ accepted \in 0 .. recorded
  /\ received \in Seq(Items)
  /\ stopped \in {"no", "done", "left"}

(* The marker can only come last: the number of events before it. *)
Events(s) ==
  IF s # <<>> /\ s[Len(s)].kind = "events_dropped" THEN Len(s) - 1 ELSE Len(s)

(* A slow consumer misses the oldest events and no other: those buffered   *)
(* are the last ones the channel took, none missing among them.            *)
KeepsTheNewest ==
  \A i \in 1 .. Events(buffer) : buffer[i] = Event(accepted - Events(buffer) + i)

(* The books balance: every event the channel took was received, waits, or *)
(* is in the count that the marker reports.                                *)
CountsTheMissing == Events(received) + Events(buffer) + dropped = accepted

(* The buffer stays within the high-water mark, the marker aside. *)
Bounded == Events(buffer) <= HighWater

(* The newest event the consumer has received. *)
Seen == IF Events(received) = 0 THEN 0 ELSE received[Events(received)].n

Feed == INSTANCE EventFeed WITH
  emitted <- accepted, seen <- Seen, open <- ~closed, over <- stopped = "done"

(* The channel is the feed that run.stream promises. *)
IsFeed == Feed!Spec

(* A consumer that keeps asking is told in the end that the run is over,   *)
(* however the close interleaves with its asking.                          *)
LoopEnds == <>(stopped # "no")

----------------------------------------------------------------------------
(* Proofs: what a slow consumer misses, that the books of the channel      *)
(* balance, and that the channel is the feed run.stream promises, for      *)
(* every high-water mark and every number of events.                       *)

IsMarker(item) == item.kind = "events_dropped"

(* A marker comes last, in a buffer or in what was received, once the      *)
(* channel is closed.                                                      *)
MarkersLast ==
  /\ \A i \in DOMAIN buffer : IsMarker(buffer[i]) => i = Len(buffer) /\ closed
  /\ \A i \in DOMAIN received : IsMarker(received[i]) => i = Len(received) /\ closed /\ buffer = <<>>

WaiterWaits == waiter => buffer = <<>> /\ ~closed /\ stopped = "no"

(* The consumer is behind by at least what is buffered, and not behind at  *)
(* all when nothing is.                                                    *)
SeenIsBehind ==
  /\ Events(buffer) = 0 => Seen = accepted
  /\ Seen + Events(buffer) <= accepted

DoneIsEmpty == stopped = "done" => Events(buffer) = 0 /\ closed

AcceptsAll == ~closed => accepted = recorded

FeedInv ==
  /\ TypeOK
  /\ KeepsTheNewest
  /\ CountsTheMissing
  /\ Bounded
  /\ MarkersLast
  /\ WaiterWaits
  /\ SeenIsBehind
  /\ DoneIsEmpty
  /\ AcceptsAll

----------------------------------------------------------------------------

(* The number of events in a sequence of items. *)
LEMMA EventsNat ==
  ASSUME NEW s \in Seq(Items)
  PROVE  Events(s) \in Nat /\ Events(s) \in {Len(s), Len(s) - 1} /\ Len(s) \in Nat
<1>1. Len(s) \in Nat /\ (s # <<>> => Len(s) \in Nat \ {0})
  BY EmptySeq, LenProperties
<1> QED BY <1>1 DEF Events

(* What Append, Head and Tail do to a sequence of anything. *)
LEMMA Appended ==
  ASSUME NEW S, NEW s \in Seq(S), NEW x \in S
  PROVE  /\ Append(s, x) \in Seq(S)
         /\ Len(s) \in Nat
         /\ Len(Append(s, x)) = Len(s) + 1
         /\ Append(s, x)[Len(s) + 1] = x
         /\ \A i \in 1 .. Len(s) : Append(s, x)[i] = s[i]
OBVIOUS

LEMMA EmptyIsZero ==
  ASSUME NEW S, NEW s \in Seq(S)
  PROVE  /\ Len(s) \in Nat /\ (s = <<>> <=> Len(s) = 0)
         /\ DOMAIN s = 1 .. Len(s)
BY EmptySeq, LenProperties

LEMMA Tailed ==
  ASSUME NEW S, NEW s \in Seq(S), s # <<>>
  PROVE  /\ Tail(s) \in Seq(S)
         /\ Head(s) \in S /\ Head(s) = s[1]
         /\ Len(s) \in Nat \ {0}
         /\ Len(Tail(s)) = Len(s) - 1
         /\ Tail(s) = <<>> <=> Len(s) = 1
         /\ \A i \in 1 .. Len(s) - 1 : Tail(s)[i] = s[i + 1]
<1>1. Head(s) = s[1]
  OBVIOUS
<1>2. /\ Head(s) \in S /\ Tail(s) \in Seq(S) /\ Len(Tail(s)) = Len(s) - 1
      /\ \A i \in 1 .. Len(Tail(s)) : Tail(s)[i] = s[i + 1]
  BY HeadTailProperties
<1>3. Len(s) \in Nat \ {0}
  BY EmptySeq
<1>4. Tail(s) = <<>> <=> Len(Tail(s)) = 0
  BY <1>2, EmptyIsZero
<1> QED BY <1>1, <1>2, <1>3, <1>4

LEMMA EventsEmpty == Events(<<>>) = 0
BY DEF Events

(* An item appended after events only: an event counts, a marker does not. *)
LEMMA EventsAppend ==
  ASSUME NEW s \in Seq(Items), NEW x \in Items, Events(s) = Len(s)
  PROVE  /\ Append(s, x) \in Seq(Items)
         /\ ~IsMarker(x) => Events(Append(s, x)) = Len(s) + 1
         /\ IsMarker(x) => Events(Append(s, x)) = Len(s)
<1>1. /\ Append(s, x) \in Seq(Items)
      /\ Len(Append(s, x)) = Len(s) + 1
      /\ Append(s, x)[Len(s) + 1] = x
      /\ Len(s) \in Nat
  BY Appended
<1>2. Append(s, x) # <<>>
  BY <1>1, EmptySeq
<1> QED BY <1>1, <1>2 DEF Events, IsMarker

(* Taking the head off: the marker stays where it is, at the end. *)
LEMMA EventsTail ==
  ASSUME NEW s \in Seq(Items), s # <<>>
  PROVE  /\ Tail(s) \in Seq(Items)
         /\ Head(s) \in Items
         /\ Len(Tail(s)) = Len(s) - 1
         /\ \A i \in 1 .. Len(s) - 1 : Tail(s)[i] = s[i + 1]
         /\ Len(s) > 1 => Events(Tail(s)) = Events(s) - 1
         /\ Len(s) = 1 => Events(Tail(s)) = 0
         /\ Len(s) = 1 /\ ~IsMarker(Head(s)) => Events(s) = 1
         /\ Len(s) = 1 /\ IsMarker(Head(s)) => Events(s) = 0
<1>1. /\ Tail(s) \in Seq(Items)
      /\ Head(s) \in Items /\ Head(s) = s[1]
      /\ Len(s) \in Nat \ {0}
      /\ Len(Tail(s)) = Len(s) - 1
      /\ Tail(s) = <<>> <=> Len(s) = 1
      /\ \A i \in 1 .. Len(s) - 1 : Tail(s)[i] = s[i + 1]
  BY Tailed
<1>2. CASE Len(s) > 1
  <2>1. Tail(s) # <<>> /\ Tail(s)[Len(Tail(s))] = s[Len(s)]
    BY <1>1, <1>2
  <2> QED BY <1>1, <1>2, <2>1 DEF Events
<1>3. CASE Len(s) = 1
  <2>1. Tail(s) = <<>>
    BY <1>1, <1>3
  <2> QED BY <1>1, <1>3, <2>1 DEF Events, IsMarker
<1> QED BY <1>1, <1>2, <1>3

LEMMA SeenIsNat ==
  ASSUME TypeOK
  PROVE  Seen \in Nat
<1>1. received \in Seq(Items) /\ DOMAIN received = 1 .. Len(received)
  BY EmptyIsZero DEF TypeOK
<1>2. CASE Events(received) = 0
  BY <1>2 DEF Seen
<1>3. CASE Events(received) # 0
  <2>1. Events(received) \in 1 .. Len(received)
    BY <1>1, <1>3, EventsNat
  <2>2. received[Events(received)] \in Items
    BY <1>1, <2>1, ElementOfSeq
  <2> QED BY <1>3, <2>2, ChannelAssumption DEF Seen, Items
<1> QED BY <1>2, <1>3

(* While the channel is open there are no markers. *)
LEMMA OpenHasNoMarker ==
  ASSUME FeedInv, ~closed
  PROVE  Events(buffer) = Len(buffer) /\ Events(received) = Len(received)
<1>1. /\ buffer \in Seq(Items) /\ received \in Seq(Items)
      /\ \A i \in DOMAIN buffer : ~IsMarker(buffer[i])
      /\ \A i \in DOMAIN received : ~IsMarker(received[i])
  BY DEF FeedInv, TypeOK, MarkersLast
<1>2. buffer # <<>> => Len(buffer) \in DOMAIN buffer
  BY <1>1, EmptyIsZero
<1>3. received # <<>> => Len(received) \in DOMAIN received
  BY <1>1, EmptyIsZero
<1>4. Len(buffer) = 0 <=> buffer = <<>>
  BY <1>1, EmptyIsZero
<1>5. Len(received) = 0 <=> received = <<>>
  BY <1>1, EmptyIsZero
<1> QED BY <1>1, <1>2, <1>3, <1>4, <1>5 DEF Events, IsMarker

----------------------------------------------------------------------------

LEMMA InitFeedInv == Init => FeedInv
<1> SUFFICES ASSUME Init PROVE FeedInv
  OBVIOUS
<1>1. /\ buffer = <<>> /\ received = <<>>
      /\ Events(buffer) = 0 /\ Events(received) = 0 /\ DOMAIN <<>> = {}
  BY EventsEmpty DEF Init
<1>2. TypeOK
  <2>1. <<>> \in Seq(Items)
    BY EmptySeq
  <2>2. closed \in BOOLEAN /\ waiter \in BOOLEAN /\ stopped \in {"no", "done", "left"}
    BY Zenon DEF Init
  <2>3. dropped \in 0 .. MaxEvents /\ recorded \in 0 .. MaxEvents /\ accepted \in 0 .. recorded
    BY ChannelAssumption DEF Init
  <2> QED BY <2>1, <2>2, <2>3, Zenon DEF Init, TypeOK
<1>3. KeepsTheNewest /\ CountsTheMissing /\ Bounded /\ SeenIsBehind
  BY <1>1, ChannelAssumption DEF Init, KeepsTheNewest, CountsTheMissing, Bounded, SeenIsBehind, Seen
<1>4. MarkersLast /\ WaiterWaits /\ DoneIsEmpty /\ AcceptsAll
  BY <1>1 DEF Init, MarkersLast, WaiterWaits, DoneIsEmpty, AcceptsAll
<1> QED BY <1>2, <1>3, <1>4 DEF FeedInv

(* An event recorded after the close changes nothing but the count. *)
LEMMA RecordClosed ==
  ASSUME FeedInv, Enqueue, closed
  PROVE  FeedInv'
<1>1. /\ UNCHANGED <<buffer, dropped, closed, waiter, accepted, received, stopped>>
      /\ recorded' = recorded + 1 /\ recorded < MaxEvents
  BY DEF Enqueue
<1>2. Events(buffer)' = Events(buffer) /\ Events(received)' = Events(received)
  BY <1>1 DEF Events
<1>3. TypeOK'
  BY <1>1, ChannelAssumption DEF FeedInv, TypeOK
<1>4. (KeepsTheNewest /\ CountsTheMissing /\ Bounded /\ SeenIsBehind)'
  BY <1>1, <1>2 DEF FeedInv, KeepsTheNewest, CountsTheMissing, Bounded, SeenIsBehind, Seen, Event
<1>5. (MarkersLast /\ WaiterWaits /\ DoneIsEmpty /\ AcceptsAll)'
  BY <1>1 DEF FeedInv, MarkersLast, WaiterWaits, DoneIsEmpty, AcceptsAll, IsMarker
<1> QED BY <1>3, <1>4, <1>5 DEF FeedInv

(* What every event recorded while the channel is open has in common. *)
LEMMA RecordOpen ==
  ASSUME FeedInv, Enqueue, ~closed
  PROVE  /\ dropped \in Nat /\ accepted \in Nat /\ HighWater \in Nat \ {0} /\ MaxEvents \in Nat
         /\ recorded' = accepted + 1 /\ accepted' = accepted + 1 /\ accepted' <= MaxEvents
         /\ Event(accepted') \in Items /\ ~IsMarker(Event(accepted')) /\ Event(accepted').n = accepted'
         /\ UNCHANGED <<closed, stopped>>
         /\ buffer \in Seq(Items) /\ received \in Seq(Items)
         /\ Events(buffer) = Len(buffer) /\ Events(received) = Len(received)
         /\ Len(buffer) \in Nat /\ Len(received) \in Nat
         /\ waiter \in BOOLEAN
         /\ waiter => HandOver(Event(accepted'))
         /\ ~waiter => Buffer(Event(accepted'))
<1>1. /\ recorded \in Nat /\ accepted = recorded /\ dropped \in Nat
      /\ recorded < MaxEvents /\ recorded' = recorded + 1 /\ accepted' = recorded'
      /\ buffer \in Seq(Items) /\ received \in Seq(Items) /\ waiter \in BOOLEAN
      /\ UNCHANGED <<closed, stopped>>
      /\ waiter => HandOver(Event(recorded'))
      /\ ~waiter => Buffer(Event(recorded'))
  BY ChannelAssumption DEF FeedInv, TypeOK, AcceptsAll, Enqueue
<1>2. Event(accepted') \in Items /\ ~IsMarker(Event(accepted')) /\ Event(accepted').n = accepted'
  BY <1>1, ChannelAssumption DEF Event, Items, IsMarker
<1>3. Len(buffer) \in Nat /\ Len(received) \in Nat
  BY <1>1, EmptyIsZero
<1> QED BY <1>1, <1>2, <1>3, OpenHasNoMarker, ChannelAssumption

(* An event handed to the consumer that waits: nothing was buffered, and   *)
(* it is now the newest the consumer has.                                  *)
LEMMA HandOverKeeps ==
  ASSUME FeedInv, Enqueue, ~closed, waiter
  PROVE  FeedInv'
<1> USE RecordOpen
<1>1. /\ received' = Append(received, Event(accepted')) /\ waiter' = FALSE
      /\ UNCHANGED <<buffer, dropped>>
  BY DEF HandOver
<1>2. buffer = <<>> /\ stopped = "no"
  BY DEF FeedInv, WaiterWaits
<1>3. /\ received' \in Seq(Items) /\ Len(received') = Len(received) + 1
      /\ received'[Len(received) + 1] = Event(accepted')
      /\ \A i \in 1 .. Len(received) : received'[i] = received[i]
      /\ Events(received') = Len(received) + 1
      /\ DOMAIN received' = 1 .. Len(received) + 1 /\ DOMAIN received = 1 .. Len(received)
  BY <1>1, Appended, EventsAppend, EmptyIsZero
<1>4. Events(buffer') = 0 /\ Events(buffer) = 0 /\ Len(buffer) = 0 /\ buffer' = <<>>
  BY <1>1, <1>2, EventsEmpty
<1>5. TypeOK'
  <2>1. closed' \in BOOLEAN /\ waiter' \in BOOLEAN /\ stopped' \in {"no", "done", "left"}
    BY <1>1, Zenon DEF FeedInv, TypeOK
  <2>2. dropped' \in 0 .. MaxEvents /\ recorded' \in 0 .. MaxEvents /\ accepted' \in 0 .. recorded'
    BY <1>1 DEF FeedInv, TypeOK
  <2>3. buffer' \in Seq(Items) /\ received' \in Seq(Items)
    BY <1>1, <1>3
  <2> QED BY <2>1, <2>2, <2>3, Zenon DEF TypeOK
<1>6. (KeepsTheNewest /\ Bounded)'
  BY <1>4 DEF KeepsTheNewest, Bounded
<1>7. CountsTheMissing'
  BY <1>1, <1>3, <1>4 DEF FeedInv, CountsTheMissing
<1>8. SeenIsBehind'
  BY <1>3, <1>4 DEF SeenIsBehind, Seen
<1>9. MarkersLast'
  <2>1. \A i \in DOMAIN received' : ~IsMarker(received'[i])
    <3> TAKE i \in DOMAIN received'
    <3>1. CASE i = Len(received) + 1
      BY <1>3, <3>1
    <3>2. CASE i \in 1 .. Len(received)
      <4>1. ~IsMarker(received[i])
        BY <1>3, <3>2 DEF FeedInv, MarkersLast
      <4> QED BY <1>3, <3>2, <4>1
    <3> QED BY <1>3, <3>1, <3>2
  <2>2. DOMAIN buffer' = {}
    BY <1>4
  <2> QED BY <2>1, <2>2 DEF MarkersLast
<1>10. (WaiterWaits /\ DoneIsEmpty /\ AcceptsAll)'
  BY <1>1, <1>2 DEF WaiterWaits, DoneIsEmpty, AcceptsAll
<1> QED BY <1>5, <1>6, <1>7, <1>8, <1>9, <1>10 DEF FeedInv

(* An event put in the buffer, past an old one when the buffer is full:    *)
(* what the buffer holds afterwards, whichever it was.                     *)
LEMMA Buffered ==
  ASSUME FeedInv, Enqueue, ~closed, ~waiter
  PROVE  /\ buffer' \in Seq(Items) /\ waiter' = waiter /\ received' = received
         /\ Events(buffer') \in 1 .. HighWater /\ Len(buffer') = Events(buffer')
         /\ DOMAIN buffer' = 1 .. Len(buffer')
         /\ \A i \in 1 .. Len(buffer') : buffer'[i] = Event(accepted' - Len(buffer') + i)
         /\ dropped' \in Nat /\ dropped' >= dropped
         /\ Events(buffer') + dropped' = Events(buffer) + dropped + 1
<1> USE RecordOpen
<1>0. dropped \in Nat /\ Len(buffer) \in Nat /\ Events(buffer) = Len(buffer)
  BY RecordOpen
<1>1. \A i \in 1 .. Len(buffer) : buffer[i] = Event(accepted - Len(buffer) + i)
  BY DEF FeedInv, KeepsTheNewest
<1>2. Len(buffer) <= HighWater
  BY DEF FeedInv, Bounded
<1>3. CASE Len(buffer) >= HighWater
  <2>1. buffer' = Append(Tail(buffer), Event(accepted')) /\ dropped' = dropped + 1 /\ waiter' = waiter /\ received' = received
    BY <1>3 DEF Buffer
  <2>2. buffer # <<>>
    BY <1>3, EmptyIsZero
  <2>3. /\ Tail(buffer) \in Seq(Items) /\ Len(Tail(buffer)) = Len(buffer) - 1
        /\ \A i \in 1 .. Len(buffer) - 1 : Tail(buffer)[i] = buffer[i + 1]
        /\ Events(Tail(buffer)) = Len(buffer) - 1
    <3>1. Len(buffer) > 1 => Events(Tail(buffer)) = Events(buffer) - 1
      BY <2>2, EventsTail
    <3>2. Len(buffer) = 1 => Events(Tail(buffer)) = 0
      BY <2>2, EventsTail
    <3> QED BY <1>3, <2>2, <3>1, <3>2, EventsTail
  <2>4. /\ buffer' \in Seq(Items) /\ Len(buffer') = Len(buffer)
        /\ buffer'[Len(buffer)] = Event(accepted')
        /\ \A i \in 1 .. Len(buffer) - 1 : buffer'[i] = Tail(buffer)[i]
        /\ DOMAIN buffer' = 1 .. Len(buffer)
    <3>1. Tail(buffer) \in Seq(Items) /\ Event(accepted') \in Items
      BY <2>3
    <3>2. /\ Append(Tail(buffer), Event(accepted')) \in Seq(Items)
          /\ Len(Append(Tail(buffer), Event(accepted'))) = Len(Tail(buffer)) + 1
          /\ Append(Tail(buffer), Event(accepted'))[Len(Tail(buffer)) + 1] = Event(accepted')
          /\ \A i \in 1 .. Len(Tail(buffer)) :
               Append(Tail(buffer), Event(accepted'))[i] = Tail(buffer)[i]
      BY <3>1, Appended
    <3> HIDE RecordOpen
    <3> QED BY <2>1, <2>3, <3>2, RecordOpen, EmptyIsZero
  <2>5. Events(buffer') = Len(buffer)
    <3>1. Tail(buffer) \in Seq(Items) /\ Events(Tail(buffer)) = Len(Tail(buffer))
      BY <2>3
    <3>2. Events(Append(Tail(buffer), Event(accepted'))) = Len(Tail(buffer)) + 1
      BY <3>1, EventsAppend
    <3> QED BY <2>1, <2>3, <3>2
  <2>6. \A i \in 1 .. Len(buffer') : buffer'[i] = Event(accepted' - Len(buffer') + i)
    <3> TAKE i \in 1 .. Len(buffer')
    <3>1. CASE i = Len(buffer)
      BY <2>4, <3>1
    <3>2. CASE i < Len(buffer)
      <4>1. buffer'[i] = buffer[i + 1] /\ i + 1 \in 1 .. Len(buffer)
        BY <2>3, <2>4, <3>2
      <4>2. accepted - Len(buffer) + (i + 1) = accepted' - Len(buffer') + i
        BY <2>4
      <4> QED BY <1>1, <4>1, <4>2
    <3> QED BY <2>4, <3>1, <3>2
  <2>7. Events(buffer') \in 1 .. HighWater /\ Len(buffer') = Events(buffer')
    BY <1>2, <1>3, <2>4, <2>5
  <2>8. dropped' \in Nat /\ dropped' >= dropped /\ Events(buffer') + dropped' = Events(buffer) + dropped + 1
    <3> HIDE RecordOpen
    <3> QED BY <1>0, <2>1, <2>5
  <2> QED BY <2>1, <2>4, <2>6, <2>7, <2>8
<1>4. CASE ~(Len(buffer) >= HighWater)
  <2>1. buffer' = Append(buffer, Event(accepted')) /\ dropped' = dropped /\ waiter' = waiter /\ received' = received
    BY <1>4 DEF Buffer
  <2>2. /\ buffer' \in Seq(Items) /\ Len(buffer') = Len(buffer) + 1
        /\ buffer'[Len(buffer) + 1] = Event(accepted')
        /\ \A i \in 1 .. Len(buffer) : buffer'[i] = buffer[i]
        /\ Events(buffer') = Len(buffer) + 1
        /\ DOMAIN buffer' = 1 .. Len(buffer) + 1
    BY <2>1, Appended, EventsAppend, EmptyIsZero
  <2>3. \A i \in 1 .. Len(buffer') : buffer'[i] = Event(accepted' - Len(buffer') + i)
    <3> TAKE i \in 1 .. Len(buffer')
    <3>1. CASE i = Len(buffer) + 1
      BY <2>2, <3>1
    <3>2. CASE i \in 1 .. Len(buffer)
      <4>1. buffer'[i] = buffer[i]
        BY <2>2, <3>2
      <4>2. accepted - Len(buffer) + i = accepted' - Len(buffer') + i
        BY <2>2
      <4> QED BY <1>1, <3>2, <4>1, <4>2
    <3> QED BY <2>2, <3>1, <3>2
  <2>4. Events(buffer') \in 1 .. HighWater /\ Len(buffer') = Events(buffer')
    BY <1>2, <1>4, <2>2
  <2>5. dropped' \in Nat /\ dropped' >= dropped /\ Events(buffer') + dropped' = Events(buffer) + dropped + 1
    <3> HIDE RecordOpen
    <3> QED BY <1>0, <2>1, <2>2
  <2> QED BY <2>1, <2>2, <2>3, <2>4, <2>5
<1> QED BY <1>3, <1>4

(* One event more is buffered at most, and one less for each one dropped.   *)
LEMMA OneMoreAtMost ==
  ASSUME NEW e \in Nat, NEW f \in Nat, NEW d \in Nat, NEW k \in Nat, k >= d, f + k = e + d + 1
  PROVE  f <= e + 1
OBVIOUS

LEMMA BufferKeeps ==
  ASSUME FeedInv, Enqueue, ~closed, ~waiter
  PROVE  FeedInv'
<1>1. /\ received' = received /\ waiter' = waiter /\ closed' = closed /\ stopped' = stopped
      /\ accepted' = accepted + 1 /\ recorded' = accepted' /\ accepted' <= MaxEvents
      /\ accepted \in Nat /\ MaxEvents \in Nat /\ dropped' \in Nat /\ dropped \in Nat
      /\ Events(buffer) \in Nat /\ HighWater \in Nat
      /\ dropped' >= dropped
      /\ Events(buffer') + dropped' = Events(buffer) + dropped + 1
      /\ Events(buffer') \in 1 .. HighWater /\ Len(buffer') = Events(buffer')
      /\ received \in Seq(Items) /\ buffer' \in Seq(Items)
  BY RecordOpen, Buffered
<1>2. \A i \in 1 .. Len(buffer') : buffer'[i] = Event(accepted' - Len(buffer') + i)
  BY Buffered
<1>3. /\ Events(received) \in Nat
      /\ Events(received) + Events(buffer) + dropped = accepted
      /\ Seen + Events(buffer) <= accepted
      /\ Events(buffer) = 0 => Seen = accepted
  BY <1>1, EventsNat DEF FeedInv, CountsTheMissing, SeenIsBehind
<1>4. Events(received') = Events(received) /\ Seen' = Seen
  BY <1>1 DEF Seen
<1>5. TypeOK'
  <2>1. closed' \in BOOLEAN /\ waiter' \in BOOLEAN /\ stopped' \in {"no", "done", "left"}
    BY <1>1, Zenon DEF FeedInv, TypeOK
  <2>2. dropped' \in 0 .. MaxEvents /\ recorded' \in 0 .. MaxEvents /\ accepted' \in 0 .. recorded'
    BY <1>1, <1>3
  <2> QED BY <1>1, <2>1, <2>2, Zenon DEF TypeOK
<1>6. (KeepsTheNewest /\ Bounded)'
  BY <1>1, <1>2 DEF KeepsTheNewest, Bounded
<1>7. CountsTheMissing'
  <2>1. Events(received') + Events(buffer') + dropped' = accepted'
    <3>1. Events(buffer') \in Nat /\ dropped' \in Nat /\ Events(buffer') + dropped' = Events(buffer) + dropped + 1
      BY <1>1
    <3>2. Events(received') = Events(received) /\ accepted' = accepted + 1 /\ accepted \in Nat
      BY <1>1, <1>4
    <3>3. Events(buffer) \in Nat /\ dropped \in Nat
      BY <1>1
    <3> QED BY <1>3, <3>1, <3>2, <3>3
  <2> QED BY <2>1 DEF CountsTheMissing
<1>8. SeenIsBehind'
  <2>1. Seen \in Int
    BY SeenIsNat DEF FeedInv
  <2>2. PICK e, f : e = Events(buffer) /\ f = Events(buffer')
    OBVIOUS
  <2>3. e \in Nat /\ f \in Nat /\ f # 0 /\ f + dropped' = e + dropped + 1 /\ Seen + e <= accepted
    <3>1. f \in Nat /\ f # 0
      BY <1>1, <2>2
    <3> QED BY <1>1, <1>3, <2>2, <3>1
  <2>4. dropped' \in Nat /\ dropped \in Nat /\ dropped' >= dropped /\ accepted' = accepted + 1 /\ accepted \in Nat
    BY <1>1
  <2>5. f <= e + 1
    BY <2>3, <2>4, OneMoreAtMost
  <2>6. PICK s : s = Seen
    OBVIOUS
  <2>7. s \in Int /\ s + e <= accepted /\ accepted' = accepted + 1 /\ accepted \in Nat
    BY <2>1, <2>3, <2>4, <2>6
  <2>8. Seen + f <= accepted'
    BY <2>3, <2>5, <2>6, <2>7
  <2> QED BY <1>4, <2>2, <2>3, <2>8 DEF SeenIsBehind
<1>9. MarkersLast'
  <2>1. \A i \in DOMAIN buffer' : ~IsMarker(buffer'[i])
    <3> TAKE i \in DOMAIN buffer'
    <3>1. i \in 1 .. Len(buffer')
      BY <1>1, EmptyIsZero
    <3>2. buffer'[i] = Event(accepted' - Len(buffer') + i)
      BY <1>2, <3>1
    <3> QED BY <3>2 DEF Event, IsMarker
  <2>2. \A i \in DOMAIN received' : ~IsMarker(received'[i])
    BY <1>1 DEF FeedInv, MarkersLast
  <2> QED BY <2>1, <2>2 DEF MarkersLast
<1>10. (WaiterWaits /\ DoneIsEmpty /\ AcceptsAll)'
  BY <1>1 DEF FeedInv, WaiterWaits, DoneIsEmpty, AcceptsAll
<1> QED BY <1>5, <1>6, <1>7, <1>8, <1>9, <1>10 DEF FeedInv

(* No marker was received, so all of it is events. *)
LEMMA ReceivedEvents ==
  ASSUME FeedInv, buffer # <<>> \/ ~closed
  PROVE  /\ received \in Seq(Items) /\ Len(received) \in Nat
         /\ \A i \in DOMAIN received : ~IsMarker(received[i])
         /\ Events(received) = Len(received)
<1>1. /\ received \in Seq(Items) /\ \A i \in DOMAIN received : ~IsMarker(received[i])
  BY DEF FeedInv, TypeOK, MarkersLast
<1>2. Len(received) \in Nat /\ (received # <<>> => Len(received) \in DOMAIN received)
  BY <1>1, EmptyIsZero
<1>3. Len(received) = 0 <=> received = <<>>
  BY <1>1, EmptyIsZero
<1> QED BY <1>1, <1>2, <1>3 DEF Events, IsMarker

(* The channel shuts: a marker goes in behind the events, if any were      *)
(* dropped.                                                                *)
LEMMA Shutting ==
  ASSUME FeedInv, Shut, ~closed
  PROVE  /\ buffer' \in Seq(Items) /\ Events(buffer') = Events(buffer)
         /\ \A i \in 1 .. Events(buffer) : buffer'[i] = buffer[i]
         /\ \A i \in DOMAIN buffer' : IsMarker(buffer'[i]) => i = Len(buffer')
         /\ closed' = TRUE /\ dropped' = dropped /\ recorded' = recorded
         /\ accepted' = accepted /\ received' = received
<1>1. /\ closed' = TRUE /\ dropped' = dropped /\ recorded' = recorded
      /\ accepted' = accepted /\ received' = received
      /\ dropped > 0 => buffer' = Append(buffer, EventsDropped(dropped))
      /\ ~(dropped > 0) => buffer' = buffer
  BY DEF Shut
<1>2. /\ buffer \in Seq(Items) /\ Len(buffer) \in Nat /\ DOMAIN buffer = 1 .. Len(buffer)
      /\ Events(buffer) = Len(buffer)
      /\ \A i \in DOMAIN buffer : ~IsMarker(buffer[i])
  BY OpenHasNoMarker, EmptyIsZero DEF FeedInv, TypeOK, MarkersLast
<1>3. CASE dropped > 0
  <2>1. EventsDropped(dropped) \in Items /\ IsMarker(EventsDropped(dropped))
    BY DEF FeedInv, TypeOK, EventsDropped, Items, IsMarker
  <2>2. /\ buffer' \in Seq(Items) /\ Len(buffer') = Len(buffer) + 1
        /\ \A i \in 1 .. Len(buffer) : buffer'[i] = buffer[i]
    BY <1>1, <1>2, <1>3, <2>1, Appended
  <2>3. Events(buffer') = Len(buffer)
    BY <1>1, <1>2, <1>3, <2>1, EventsAppend
  <2>4. DOMAIN buffer' = 1 .. Len(buffer) + 1
    BY <2>2, EmptyIsZero
  <2> QED BY <1>1, <1>2, <2>2, <2>3, <2>4
<1>4. CASE ~(dropped > 0)
  BY <1>1, <1>2, <1>4
<1> QED BY <1>3, <1>4

LEMMA ShutKeeps ==
  ASSUME FeedInv, Shut, ~closed, waiter' = FALSE,
         stopped' \in {"no", "done", "left"},
         stopped' = "done" => Events(buffer) = 0
  PROVE  FeedInv'
<1>1. /\ buffer' \in Seq(Items) /\ Events(buffer') = Events(buffer)
      /\ \A i \in 1 .. Events(buffer) : buffer'[i] = buffer[i]
      /\ \A i \in DOMAIN buffer' : IsMarker(buffer'[i]) => i = Len(buffer')
      /\ closed' = TRUE /\ dropped' = dropped /\ recorded' = recorded
      /\ accepted' = accepted /\ received' = received
  BY Shutting
<1>2. Events(received') = Events(received) /\ Seen' = Seen
  BY <1>1 DEF Seen
<1>3. TypeOK'
  <2>1. waiter' \in BOOLEAN /\ closed' \in BOOLEAN
    BY <1>1, Zenon
  <2>2. dropped' \in 0 .. MaxEvents /\ recorded' \in 0 .. MaxEvents /\ accepted' \in 0 .. recorded'
        /\ received' \in Seq(Items)
    BY <1>1 DEF FeedInv, TypeOK
  <2> QED BY <1>1, <2>1, <2>2, Zenon DEF TypeOK
<1>4. KeepsTheNewest'
  BY <1>1 DEF FeedInv, KeepsTheNewest, Event
<1>5. (CountsTheMissing /\ Bounded /\ SeenIsBehind)'
  BY <1>1, <1>2 DEF FeedInv, CountsTheMissing, Bounded, SeenIsBehind
<1>6. MarkersLast'
  BY <1>1, ReceivedEvents DEF MarkersLast
<1>7. (WaiterWaits /\ DoneIsEmpty /\ AcceptsAll)'
  BY <1>1 DEF WaiterWaits, DoneIsEmpty, AcceptsAll
<1> QED BY <1>3, <1>4, <1>5, <1>6, <1>7 DEF FeedInv

LEMMA CloseKeeps ==
  ASSUME FeedInv, Close
  PROVE  FeedInv'
<1>1. ~closed /\ Shut /\ waiter' = FALSE /\ stopped' = IF waiter THEN "done" ELSE stopped
  BY DEF Close
<1>2. stopped \in {"no", "done", "left"} /\ (stopped = "done" => closed)
  BY DEF FeedInv, TypeOK, DoneIsEmpty
<1>3. waiter => Events(buffer) = 0
  BY EventsEmpty DEF FeedInv, WaiterWaits
<1>4. stopped' \in {"no", "done", "left"}
  BY <1>1, <1>2, Zenon
<1>5. stopped' = "done" => Events(buffer) = 0
  BY <1>1, <1>2, <1>3, Zenon
<1> QED BY <1>1, <1>4, <1>5, ShutKeeps

(* Leaving the loop closes an open channel and does nothing to a closed one. *)
LEMMA ReturnKeeps ==
  ASSUME FeedInv, Return
  PROVE  FeedInv'
<1>1. Shut /\ stopped' = "left" /\ waiter' = waiter /\ waiter = FALSE /\ stopped = "no"
  BY DEF Return, Asks, FeedInv, TypeOK
<1>2. CASE ~closed
  <2>1. stopped' \in {"no", "done", "left"} /\ (stopped' = "done" => Events(buffer) = 0) /\ waiter' = FALSE
    BY <1>1, Zenon
  <2> QED BY <1>1, <1>2, <2>1, ShutKeeps
<1>3. CASE closed
  <2>1. /\ closed' = closed /\ buffer' = buffer /\ dropped' = dropped /\ recorded' = recorded
        /\ accepted' = accepted /\ received' = received /\ waiter' = waiter
    BY <1>1, <1>3 DEF Shut
  <2>2. Events(buffer)' = Events(buffer) /\ Events(received)' = Events(received) /\ Seen' = Seen
    BY <2>1 DEF Events, Seen
  <2>3. TypeOK'
    <3>1. closed' \in BOOLEAN /\ waiter' \in BOOLEAN /\ stopped' \in {"no", "done", "left"}
      BY <1>1, <2>1, Zenon DEF FeedInv, TypeOK
    <3>2. /\ dropped' \in 0 .. MaxEvents /\ recorded' \in 0 .. MaxEvents /\ accepted' \in 0 .. recorded'
          /\ buffer' \in Seq(Items) /\ received' \in Seq(Items)
      BY <2>1 DEF FeedInv, TypeOK
    <3> QED BY <3>1, <3>2, Zenon DEF TypeOK
  <2>4. (KeepsTheNewest /\ CountsTheMissing /\ Bounded /\ SeenIsBehind)'
    BY <2>1, <2>2 DEF FeedInv, KeepsTheNewest, CountsTheMissing, Bounded, SeenIsBehind, Event
  <2>5. (MarkersLast /\ WaiterWaits /\ DoneIsEmpty /\ AcceptsAll)'
    BY <1>1, <2>1 DEF FeedInv, MarkersLast, WaiterWaits, DoneIsEmpty, AcceptsAll, IsMarker
  <2> QED BY <2>3, <2>4, <2>5 DEF FeedInv
<1> QED BY <1>2, <1>3

(* The next item leaves the buffer.  An event: it is newer than all the    *)
(* consumer has, and the rest of the buffer follows it.                    *)
LEMMA TakesAnEvent ==
  ASSUME FeedInv, NextBuffered, ~IsMarker(Head(buffer))
  PROVE  /\ buffer' \in Seq(Items) /\ received' \in Seq(Items)
         /\ Events(buffer) \in 1 .. Len(buffer) /\ Events(buffer') = Events(buffer) - 1
         /\ Len(buffer') = Len(buffer) - 1
         /\ Events(received') = Events(received) + 1 /\ Events(received) \in Nat
         /\ Seen' = accepted - Events(buffer) + 1
         /\ DOMAIN buffer' = 1 .. Len(buffer) - 1
         /\ \A i \in DOMAIN buffer' : buffer'[i] = buffer[i + 1]
         /\ \A i \in DOMAIN received' : ~IsMarker(received'[i])
<1>1. /\ buffer # <<>> /\ received' = Append(received, Head(buffer)) /\ buffer' = Tail(buffer)
      /\ buffer \in Seq(Items)
  BY DEF NextBuffered, FeedInv, TypeOK
<1>2. /\ Tail(buffer) \in Seq(Items) /\ Head(buffer) \in Items
      /\ Len(Tail(buffer)) = Len(buffer) - 1
      /\ \A i \in 1 .. Len(buffer) - 1 : Tail(buffer)[i] = buffer[i + 1]
      /\ Len(buffer) > 1 => Events(Tail(buffer)) = Events(buffer) - 1
      /\ Len(buffer) = 1 => Events(Tail(buffer)) = 0
      /\ Len(buffer) = 1 => Events(buffer) = 1
  BY <1>1, EventsTail
<1>3. Head(buffer) = buffer[1] /\ Len(buffer) \in Nat \ {0}
  BY <1>1, Tailed
<1>4. Events(buffer) \in {Len(buffer), Len(buffer) - 1}
  BY <1>1, EventsNat
<1>5. Events(buffer) \in 1 .. Len(buffer) /\ Events(Tail(buffer)) = Events(buffer) - 1
  BY <1>2, <1>3, <1>4
<1>6. Head(buffer) = Event(accepted - Events(buffer) + 1)
  BY <1>3, <1>5 DEF FeedInv, KeepsTheNewest
<1>7. /\ received \in Seq(Items) /\ Len(received) \in Nat /\ DOMAIN received = 1 .. Len(received)
      /\ \A i \in DOMAIN received : ~IsMarker(received[i])
      /\ Events(received) = Len(received)
  BY <1>1, ReceivedEvents, EmptyIsZero
<1>8. /\ Append(received, Head(buffer)) \in Seq(Items)
      /\ Len(Append(received, Head(buffer))) = Len(received) + 1
      /\ Append(received, Head(buffer))[Len(received) + 1] = Head(buffer)
      /\ \A i \in 1 .. Len(received) : Append(received, Head(buffer))[i] = received[i]
  BY <1>2, <1>7, Appended
<1>9. Events(received') = Len(received) + 1
  BY <1>1, <1>2, <1>7, EventsAppend
<1>10. Seen' = accepted - Events(buffer) + 1
  <2>1. Seen' = Head(buffer).n
    BY <1>1, <1>7, <1>8, <1>9 DEF Seen
  <2> QED BY <1>6, <2>1 DEF Event
<1>11. \A i \in DOMAIN received' : ~IsMarker(received'[i])
  <2>1. DOMAIN received' = 1 .. Len(received) + 1
    BY <1>1, <1>8, EmptyIsZero
  <2> TAKE i \in DOMAIN received'
  <2>2. CASE i = Len(received) + 1
    BY <1>1, <1>8, <2>2
  <2>3. CASE i \in 1 .. Len(received)
    BY <1>1, <1>7, <1>8, <2>3
  <2> QED BY <1>7, <2>1, <2>2, <2>3
<1>12. DOMAIN buffer' = 1 .. Len(buffer) - 1
  BY <1>1, <1>2, EmptyIsZero
<1> QED BY <1>1, <1>2, <1>5, <1>7, <1>8, <1>9, <1>10, <1>11, <1>12

LEMMA EventTakenKeeps ==
  ASSUME FeedInv, NextBuffered, ~IsMarker(Head(buffer))
  PROVE  FeedInv'
<1>1. /\ buffer' \in Seq(Items) /\ received' \in Seq(Items)
      /\ Events(buffer) \in 1 .. Len(buffer) /\ Events(buffer') = Events(buffer) - 1
      /\ Len(buffer') = Len(buffer) - 1 /\ Len(buffer) \in Nat
      /\ Events(received') = Events(received) + 1 /\ Events(received) \in Nat
      /\ Seen' = accepted - Events(buffer) + 1
      /\ DOMAIN buffer' = 1 .. Len(buffer) - 1 /\ DOMAIN buffer = 1 .. Len(buffer)
  BY TakesAnEvent, EmptyIsZero DEF FeedInv, TypeOK
<1>2. \A i \in DOMAIN buffer' : buffer'[i] = buffer[i + 1]
  BY TakesAnEvent
<1>3. /\ dropped' = dropped /\ closed' = closed /\ waiter' = waiter /\ recorded' = recorded
      /\ accepted' = accepted /\ stopped' = stopped /\ waiter = FALSE /\ stopped = "no"
  BY Zenon DEF NextBuffered, Asks, FeedInv, TypeOK
<1>4. accepted \in Nat /\ dropped \in Nat /\ HighWater \in Nat
  BY ChannelAssumption DEF FeedInv, TypeOK
<1>5. TypeOK'
  <2>1. closed' \in BOOLEAN /\ waiter' \in BOOLEAN /\ stopped' \in {"no", "done", "left"}
    BY <1>3, Zenon DEF FeedInv, TypeOK
  <2>2. dropped' \in 0 .. MaxEvents /\ recorded' \in 0 .. MaxEvents /\ accepted' \in 0 .. recorded'
    BY <1>3 DEF FeedInv, TypeOK
  <2> QED BY <1>1, <2>1, <2>2, Zenon DEF TypeOK
<1>6. KeepsTheNewest'
  <2> SUFFICES ASSUME NEW i \in 1 .. Events(buffer')
               PROVE  buffer'[i] = Event(accepted' - Events(buffer') + i)
    BY DEF KeepsTheNewest
  <2>1. i \in DOMAIN buffer' /\ i + 1 \in 1 .. Events(buffer)
    BY <1>1
  <2>2. buffer'[i] = Event(accepted - Events(buffer) + (i + 1))
    BY <1>2, <2>1 DEF FeedInv, KeepsTheNewest
  <2>3. accepted - Events(buffer) + (i + 1) = accepted' - Events(buffer') + i
    BY <1>1, <1>3, <1>4
  <2> QED BY <2>2, <2>3
<1>7. (CountsTheMissing /\ Bounded /\ SeenIsBehind)'
  <2>1. Events(received) + Events(buffer) + dropped = accepted /\ Events(buffer) <= HighWater
    BY DEF FeedInv, CountsTheMissing, Bounded
  <2>2. Events(received') + Events(buffer') + dropped' = accepted' /\ Events(buffer') <= HighWater
    <3>1. Events(received') = Events(received) + 1 /\ Events(buffer') = Events(buffer) - 1
      BY <1>1
    <3>2. Events(received) \in Int /\ Events(buffer) \in Int /\ dropped \in Int /\ accepted \in Int
      BY <1>1, <1>4
    <3> QED BY <1>3, <1>4, <2>1, <3>1, <3>2
  <2>3. (Events(buffer') = 0 => Seen' = accepted') /\ Seen' + Events(buffer') <= accepted'
    BY <1>1, <1>3, <1>4
  <2> QED BY <2>2, <2>3 DEF CountsTheMissing, Bounded, SeenIsBehind
<1>8. MarkersLast'
  <2>1. \A i \in DOMAIN received' : ~IsMarker(received'[i])
    BY TakesAnEvent
  <2>2. ASSUME NEW i \in DOMAIN buffer', IsMarker(buffer'[i])
        PROVE  i = Len(buffer') /\ closed'
    <3>1. IsMarker(buffer[i + 1]) /\ i + 1 \in DOMAIN buffer
      BY <1>1, <1>2, <2>2
    <3>2. i + 1 = Len(buffer) /\ closed
      BY <3>1 DEF FeedInv, MarkersLast
    <3> QED BY <1>1, <1>3, <3>2
  <2> QED BY <2>1, <2>2 DEF MarkersLast
<1>9. (WaiterWaits /\ DoneIsEmpty /\ AcceptsAll)'
  BY <1>3 DEF FeedInv, WaiterWaits, DoneIsEmpty, AcceptsAll
<1> QED BY <1>5, <1>6, <1>7, <1>8, <1>9 DEF FeedInv

(* The marker is the last item there is. *)
LEMMA MarkerTakenKeeps ==
  ASSUME FeedInv, NextBuffered, IsMarker(Head(buffer))
  PROVE  FeedInv'
<1>1. /\ buffer # <<>> /\ received' = Append(received, Head(buffer)) /\ buffer' = Tail(buffer)
      /\ buffer \in Seq(Items)
  BY DEF NextBuffered, FeedInv, TypeOK
<1>2. /\ Head(buffer) = buffer[1] /\ Len(buffer) \in Nat \ {0} /\ Head(buffer) \in Items
      /\ DOMAIN buffer = 1 .. Len(buffer)
      /\ Tail(buffer) = <<>> <=> Len(buffer) = 1
  BY <1>1, Tailed, EmptyIsZero
<1>3. Len(buffer) = 1 /\ closed
  BY <1>2 DEF FeedInv, MarkersLast
<1>4. Events(buffer) = 0
  BY <1>1, <1>3, EventsTail
<1>5. buffer' = <<>> /\ Events(buffer') = 0 /\ DOMAIN buffer' = {} /\ Len(buffer') = 0
  <2>1. buffer' = <<>>
    BY <1>1, <1>2, <1>3
  <2> QED BY <2>1, EventsEmpty
<1>6. /\ received \in Seq(Items) /\ Len(received) \in Nat /\ DOMAIN received = 1 .. Len(received)
      /\ \A i \in DOMAIN received : ~IsMarker(received[i])
      /\ Events(received) = Len(received)
  BY <1>1, ReceivedEvents, EmptyIsZero
<1>7. /\ received' \in Seq(Items) /\ Len(received') = Len(received) + 1
      /\ \A i \in 1 .. Len(received) : received'[i] = received[i]
      /\ DOMAIN received' = 1 .. Len(received) + 1
  BY <1>1, <1>2, <1>6, Appended, EmptyIsZero
<1>8. Events(received') = Events(received)
  BY <1>1, <1>2, <1>6, EventsAppend
<1>9. Seen' = Seen
  BY <1>6, <1>7, <1>8 DEF Seen
<1>10. /\ dropped' = dropped /\ closed' = closed /\ waiter' = waiter /\ recorded' = recorded
       /\ accepted' = accepted /\ stopped' = stopped /\ waiter = FALSE /\ stopped = "no"
  BY Zenon DEF NextBuffered, Asks, FeedInv, TypeOK
<1>11. TypeOK'
  <2>1. closed' \in BOOLEAN /\ waiter' \in BOOLEAN /\ stopped' \in {"no", "done", "left"}
    BY <1>10, Zenon DEF FeedInv, TypeOK
  <2>2. dropped' \in 0 .. MaxEvents /\ recorded' \in 0 .. MaxEvents /\ accepted' \in 0 .. recorded'
    BY <1>10 DEF FeedInv, TypeOK
  <2>3. buffer' \in Seq(Items)
    BY <1>5, EmptySeq
  <2> QED BY <1>7, <2>1, <2>2, <2>3, Zenon DEF TypeOK
<1>12. (KeepsTheNewest /\ Bounded)'
  BY <1>5, ChannelAssumption DEF KeepsTheNewest, Bounded
<1>13. CountsTheMissing'
  BY <1>4, <1>5, <1>8, <1>10 DEF FeedInv, CountsTheMissing
<1>14. SeenIsBehind'
  BY <1>4, <1>5, <1>9, <1>10 DEF FeedInv, SeenIsBehind
<1>15. MarkersLast'
  <2>1. ASSUME NEW i \in DOMAIN received', IsMarker(received'[i])
        PROVE  i = Len(received')
    BY <1>6, <1>7, <2>1
  <2> QED BY <1>3, <1>5, <1>10, <2>1 DEF MarkersLast
<1>16. (WaiterWaits /\ DoneIsEmpty /\ AcceptsAll)'
  BY <1>10 DEF FeedInv, WaiterWaits, DoneIsEmpty, AcceptsAll
<1> QED BY <1>11, <1>12, <1>13, <1>14, <1>15, <1>16 DEF FeedInv

LEMMA DoneKeeps ==
  ASSUME FeedInv, NextDone \/ NextWaits
  PROVE  FeedInv'
<1>1. /\ buffer' = buffer /\ dropped' = dropped /\ closed' = closed /\ recorded' = recorded
      /\ accepted' = accepted /\ received' = received
      /\ buffer = <<>> /\ stopped = "no" /\ waiter = FALSE
      /\ \/ closed /\ stopped' = "done" /\ waiter' = waiter
         \/ ~closed /\ waiter' = TRUE /\ stopped' = stopped
  BY Zenon DEF NextDone, NextWaits, Asks, FeedInv, TypeOK
<1>2. Events(buffer)' = Events(buffer) /\ Events(received)' = Events(received) /\ Seen' = Seen
  BY <1>1 DEF Events, Seen
<1>3. TypeOK'
  <2>1. closed' \in BOOLEAN /\ waiter' \in BOOLEAN /\ stopped' \in {"no", "done", "left"}
    BY <1>1, Zenon DEF FeedInv, TypeOK
  <2>2. /\ dropped' \in 0 .. MaxEvents /\ recorded' \in 0 .. MaxEvents /\ accepted' \in 0 .. recorded'
        /\ buffer' \in Seq(Items) /\ received' \in Seq(Items)
    BY <1>1 DEF FeedInv, TypeOK
  <2> QED BY <2>1, <2>2, Zenon DEF TypeOK
<1>4. (KeepsTheNewest /\ CountsTheMissing /\ Bounded /\ SeenIsBehind)'
  BY <1>1, <1>2 DEF FeedInv, KeepsTheNewest, CountsTheMissing, Bounded, SeenIsBehind, Event
<1>5. MarkersLast'
  BY <1>1 DEF FeedInv, MarkersLast, IsMarker
<1>6. (WaiterWaits /\ DoneIsEmpty /\ AcceptsAll)'
  BY <1>1, EventsEmpty DEF FeedInv, WaiterWaits, DoneIsEmpty, AcceptsAll
<1> QED BY <1>3, <1>4, <1>5, <1>6 DEF FeedInv

LEMMA StutterKeeps ==
  ASSUME FeedInv, UNCHANGED vars
  PROVE  FeedInv' /\ UNCHANGED Feed!feed
<1>1. /\ buffer' = buffer /\ dropped' = dropped /\ closed' = closed /\ recorded' = recorded
      /\ accepted' = accepted /\ received' = received /\ waiter' = waiter /\ stopped' = stopped
  BY DEF vars
<1>2. Events(buffer)' = Events(buffer) /\ Events(received)' = Events(received) /\ Seen' = Seen
  BY <1>1 DEF Events, Seen
<1>3. (TypeOK /\ MarkersLast /\ WaiterWaits /\ DoneIsEmpty /\ AcceptsAll)'
  BY <1>1, <1>2, Zenon DEF FeedInv, TypeOK, MarkersLast, WaiterWaits, DoneIsEmpty, AcceptsAll, IsMarker
<1>4. (KeepsTheNewest /\ CountsTheMissing /\ Bounded /\ SeenIsBehind)'
  BY <1>1, <1>2 DEF FeedInv, KeepsTheNewest, CountsTheMissing, Bounded, SeenIsBehind, Event
<1> QED BY <1>1, <1>2, <1>3, <1>4 DEF FeedInv, Feed!feed

LEMMA NextFeedInv == FeedInv /\ [Next]_vars => FeedInv'
<1> SUFFICES ASSUME FeedInv, [Next]_vars PROVE FeedInv'
  OBVIOUS
<1>1. CASE Enqueue
  BY <1>1, RecordClosed, HandOverKeeps, BufferKeeps
<1>2. CASE Close
  BY <1>2, CloseKeeps
<1>3. CASE NextBuffered
  BY <1>3, EventTakenKeeps, MarkerTakenKeeps
<1>4. CASE NextDone \/ NextWaits
  BY <1>4, DoneKeeps
<1>5. CASE Return
  BY <1>5, ReturnKeeps
<1>6. CASE UNCHANGED vars
  BY <1>6, StutterKeeps
<1> QED BY <1>1, <1>2, <1>3, <1>4, <1>5, <1>6 DEF Next, Consumer

LEMMA FeedInvHolds == Spec => []FeedInv
BY InitFeedInv, NextFeedInv, PTL DEF Spec

(* Every variable of the channel keeps its type. *)
THEOREM TypeCorrect == Spec => []TypeOK
<1>1. FeedInv => TypeOK
  BY DEF FeedInv
<1> QED BY <1>1, FeedInvHolds, PTL

(* A slow consumer misses the oldest events and no other, for every        *)
(* high-water mark: enqueue shifts the oldest out and nothing else does.   *)
THEOREM TheNewestAreKept == Spec => []KeepsTheNewest
<1>1. FeedInv => KeepsTheNewest
  BY DEF FeedInv
<1> QED BY <1>1, FeedInvHolds, PTL

(* Every event recorded before the close was received, is buffered, or is  *)
(* in the count of the events_dropped marker.                              *)
THEOREM TheBooksBalance == Spec => []CountsTheMissing
<1>1. FeedInv => CountsTheMissing
  BY DEF FeedInv
<1> QED BY <1>1, FeedInvHolds, PTL

(* The buffer never outgrows the high-water mark, the marker aside. *)
THEOREM TheBufferIsBounded == Spec => []Bounded
<1>1. FeedInv => Bounded
  BY DEF FeedInv
<1> QED BY <1>1, FeedInvHolds, PTL

----------------------------------------------------------------------------
(* The channel is the feed that run.stream promises.                       *)

LEMMA InitIsFeed == Init => Feed!Init
BY EventsEmpty DEF Init, Feed!Init, Seen

(* An event recorded is one more to be had, and the consumer that waits    *)
(* has it at once.                                                         *)
LEMMA EnqueueEmits ==
  ASSUME FeedInv, FeedInv', Enqueue
  PROVE  Feed!Emit \/ UNCHANGED Feed!feed
<1>1. CASE closed
  <2>1. accepted' = accepted /\ received' = received /\ closed' = closed /\ stopped' = stopped
    BY <1>1 DEF Enqueue
  <2> QED BY <2>1 DEF Feed!feed, Seen, Events
<1>2. CASE ~closed
  <2>1. accepted' = accepted + 1 /\ closed' = closed /\ stopped' = stopped
    BY <1>2, RecordOpen
  <2>2. Seen' \in {Seen, accepted'}
    <3>1. CASE waiter
      <4>1. buffer' = <<>>
        BY <1>2, <3>1, RecordOpen DEF HandOver, FeedInv, WaiterWaits
      <4>2. Events(buffer') = 0
        BY <4>1, EventsEmpty
      <4> QED BY <4>2 DEF FeedInv, SeenIsBehind
    <3>2. CASE ~waiter
      <4>1. received' = received
        BY <1>2, <3>2, RecordOpen DEF Buffer
      <4> QED BY <4>1 DEF Seen, Events
    <3> QED BY <3>1, <3>2
  <2> QED BY <1>2, <2>1, <2>2, Zenon DEF Feed!Emit
<1> QED BY <1>1, <1>2

(* Taking an event from the buffer brings the consumer forward, taking the *)
(* marker does not.                                                        *)
LEMMA TakingReceives ==
  ASSUME FeedInv, FeedInv', NextBuffered
  PROVE  Feed!Receive \/ UNCHANGED Feed!feed
<1>1. accepted' = accepted /\ closed' = closed /\ stopped' = stopped /\ accepted \in Nat /\ Seen \in Nat
  BY SeenIsNat, ChannelAssumption DEF NextBuffered, FeedInv, TypeOK
<1>2. CASE ~IsMarker(Head(buffer))
  <2>1. Seen' = accepted - Events(buffer) + 1 /\ Events(buffer) \in Nat \ {0}
    <3>1. buffer \in Seq(Items)
      BY DEF FeedInv, TypeOK
    <3>2. Len(buffer) \in Nat
      BY <3>1, EmptyIsZero
    <3> QED BY <1>2, <3>2, TakesAnEvent
  <2>2. Seen + Events(buffer) <= accepted
    BY DEF FeedInv, SeenIsBehind
  <2>3. Seen' \in Seen + 1 .. accepted
    BY <1>1, <2>1, <2>2
  <2> QED BY <1>1, <2>3, Zenon DEF Feed!Receive
<1>3. CASE IsMarker(Head(buffer))
  <2>1. buffer # <<>> /\ buffer \in Seq(Items) /\ buffer' = Tail(buffer)
    BY DEF NextBuffered, FeedInv, TypeOK
  <2>2. Head(buffer) = buffer[1] /\ 1 \in DOMAIN buffer
    BY <2>1, Tailed, EmptyIsZero
  <2>3. Len(buffer) = 1
    BY <1>3, <2>2 DEF FeedInv, MarkersLast
  <2>4. Events(buffer) = 0 /\ buffer' = <<>>
    BY <1>3, <2>1, <2>3, EventsTail, Tailed
  <2>5. Events(buffer') = 0
    BY <2>4, EventsEmpty
  <2>6. Seen = accepted /\ Seen' = accepted'
    BY <2>4, <2>5 DEF FeedInv, SeenIsBehind
  <2> QED BY <1>1, <2>6 DEF Feed!feed
<1> QED BY <1>2, <1>3

(* The consumer is told that the feed is over when it has the newest event. *)
LEMMA ClosingShuts ==
  ASSUME FeedInv, Close \/ Return
  PROVE  Feed!Shut
<1>1. accepted' = accepted /\ received' = received /\ closed' = TRUE
  BY DEF Close, Return, Shut
<1>2. Seen' = Seen
  BY <1>1 DEF Seen, Events
<1>3. waiter => Seen = accepted
  BY EventsEmpty DEF FeedInv, WaiterWaits, SeenIsBehind
<1>4. (stopped' = "done") \in {stopped = "done", Seen = accepted}
  <2>1. CASE Close /\ waiter
    BY <1>3, <2>1 DEF Close
  <2>2. CASE Close /\ ~waiter
    BY <2>2 DEF Close
  <2>3. CASE Return
    BY <2>3 DEF Return, Asks
  <2> QED BY <2>1, <2>2, <2>3
<1> QED BY <1>1, <1>2, <1>4, Zenon DEF Feed!Shut

LEMMA DoneFinishes ==
  ASSUME FeedInv, NextDone
  PROVE  Feed!Finish
<1>1. /\ accepted' = accepted /\ received' = received /\ closed' = closed
      /\ closed /\ buffer = <<>> /\ stopped' = "done"
  BY DEF NextDone
<1>2. Seen' = Seen /\ Seen = accepted
  BY <1>1, EventsEmpty DEF Seen, Events, FeedInv, SeenIsBehind
<1> QED BY <1>1, <1>2, Zenon DEF Feed!Finish

LEMMA StepIsFeed == FeedInv /\ FeedInv' /\ [Next]_vars => [Feed!Next]_Feed!feed
<1> SUFFICES ASSUME FeedInv, FeedInv', [Next]_vars PROVE [Feed!Next]_Feed!feed
  OBVIOUS
<1>1. CASE Enqueue
  BY <1>1, EnqueueEmits DEF Feed!Next
<1>2. CASE Close \/ Return
  BY <1>2, ClosingShuts DEF Feed!Next
<1>3. CASE NextBuffered
  BY <1>3, TakingReceives DEF Feed!Next
<1>4. CASE NextDone
  BY <1>4, DoneFinishes DEF Feed!Next
<1>5. CASE NextWaits
  <2>1. accepted' = accepted /\ received' = received /\ closed' = closed /\ stopped' = stopped
    BY <1>5 DEF NextWaits
  <2> QED BY <2>1 DEF Feed!feed, Seen, Events
<1>6. CASE UNCHANGED vars
  BY <1>6, StutterKeeps
<1> QED BY <1>1, <1>2, <1>3, <1>4, <1>5, <1>6 DEF Next, Consumer

(* The channel implements the feed of run.stream: in the order of the run, *)
(* never without the newest, and over only when all was received.          *)
THEOREM ChannelIsFeed == Spec => IsFeed
<1>1. Init => Feed!Init
  BY InitIsFeed
<1>2. FeedInv /\ FeedInv' /\ [Next]_vars => [Feed!Next]_Feed!feed
  BY StepIsFeed
<1> QED BY <1>1, <1>2, FeedInvHolds, PTL DEF Spec, IsFeed, Feed!Spec

----------------------------------------------------------------------------
(* The chunks of a chat page, which is one that reads such a channel       *)
(* (UiStream): for any number of calls, of their steps and of their        *)
(* chunks, and any capacity of the channel.                                *)
CONSTANTS
  UiCalls,   \* the model calls of the run, in the order a sequence makes them
  UiSteps,   \* bound of the model: the steps of a call
  UiChunks   \* bound of the model: the chunks of a step

ASSUME CallsAssumption == UiCalls \subseteq Nat

VARIABLES ui_parallel, ui_call, ui_events, ui_lost, ui_settled, ui_open, ui_tool_names, ui_client,
          ui_broken, ui_over

TheChat == INSTANCE UiStream WITH
  parallel <- ui_parallel, call <- ui_call, events <- ui_events, lost <- ui_lost,
  settled <- ui_settled, open <- ui_open, tool_names <- ui_tool_names, client <- ui_client,
  broken <- ui_broken, over <- ui_over, Calls <- UiCalls, MaxSteps <- UiSteps, MaxChunks <- UiChunks

(* A chat page is sent chunks that its protocol allows, and all of them    *)
(* (ui/to_ui_message_stream.ts).                                           *)
StreamIsWellFormed == TheChat!StreamIsWellFormed

(* The kinds of chunks. *)
UiKinds == {"text", "reasoning", "tool_call_start", "tool_call_end", "step_finish", "tool_result", "finish"}

(* An event of a call. *)
UiEvent == [kind : UiKinds, call : UiCalls, step : Nat]

(* What a call is. *)
UiCall == [state : {"idle", "on", "tools", "last", "over", "failed"}, step : Nat, chunks : Nat, tool : {"none", "open", "closed"}]

(* What the variables hold. *)
UiTypes ==
  /\ ui_call \in [UiCalls -> UiCall]
  /\ ui_events \in Seq(UiEvent)
  /\ ui_parallel \in BOOLEAN /\ ui_lost \in BOOLEAN /\ ui_over \in BOOLEAN

(* The stream and its client agree on the blocks that are open, and have   *)
(* none left at the end.                                                   *)
UiBlocksInv ==
  /\ DOMAIN ui_client = ui_open
  /\ "block" \notin ui_broken
  /\ ui_over => ui_settled # "no" /\ ui_events = <<>> /\ ui_open = {}

(* The place n of the buffer, or what the client shows at 0, is shut off   *)
(* from place m by the finish of a call.                                   *)
UiFinishIn(n, m) == \E k \in n .. m : ui_events[k].kind = "finish"

UiHasNotFailed(c) == ui_call[c].state # "failed"

(* In a row, calls have ended before the next begins, and what is of two   *)
(* calls has a finish between, unless the first failed.                    *)
UiInARow ==
  /\ \A c, d \in UiCalls : c < d /\ ui_call[d].state # "idle" => ui_call[c].state \in {"over", "failed"}
  /\ \A i \in DOMAIN ui_events :
       /\ ui_call[ui_events[i].call].state # "idle"
       /\ ui_call[ui_events[i].call].state = "over" => UiFinishIn(i, Len(ui_events))
  /\ \A b \in ui_open :
       /\ ui_client[b] \in UiCalls /\ ui_call[ui_client[b]].state # "idle"
       /\ ui_call[ui_client[b]].state = "over" => UiFinishIn(1, Len(ui_events))
  /\ \A i, j \in DOMAIN ui_events :
       i < j /\ ui_events[i].call # ui_events[j].call /\ UiHasNotFailed(ui_events[i].call) => UiFinishIn(i, j - 1)
  /\ \A b \in ui_open : \A j \in DOMAIN ui_events :
       ui_client[b] # ui_events[j].call /\ UiHasNotFailed(ui_client[b]) => UiFinishIn(1, j - 1)

(* As long as nothing was lost, calls that come in a row are told apart. *)
UiRowInv == ~ui_parallel /\ ~ui_lost => "mixed" \notin ui_broken /\ UiInARow

(* The tool of a call is known by name from its start on, which is on its  *)
(* way or has come.                                                        *)
UiKnown(c, s, n) ==
  \/ <<c, s>> \in ui_tool_names
  \/ \E i \in 1 .. n : ui_events[i].kind = "tool_call_start" /\ ui_events[i].call = c /\ ui_events[i].step = s

UiAllKnown ==
  /\ \A c \in UiCalls : ui_call[c].tool = "open" => UiKnown(c, ui_call[c].step, Len(ui_events))
  /\ \A j \in DOMAIN ui_events : ui_events[j].kind = "tool_call_end" => UiKnown(ui_events[j].call, ui_events[j].step, j - 1)

(* As long as nothing was lost, a tool call is named.                       *)
UiNamesInv == ~ui_lost => "nameless" \notin ui_broken /\ UiAllKnown

(* The whole of it. *)
UiInv == UiTypes /\ UiBlocksInv /\ UiRowInv /\ UiNamesInv

(* An event is put behind the others, if none has to go for it. *)
LEMMA UiRecorded ==
  ASSUME UiTypes, NEW e \in UiEvent, TheChat!Record(e)
  PROVE  /\ ui_events' \in Seq(UiEvent) /\ ui_lost' \in BOOLEAN
         /\ ui_lost => ui_lost'
         /\ ~ui_lost' => /\ ui_events' = Append(ui_events, e)
                      /\ Len(ui_events') = Len(ui_events) + 1
                      /\ DOMAIN ui_events' = 1 .. Len(ui_events) + 1
                      /\ \A i \in DOMAIN ui_events : ui_events'[i] = ui_events[i]
                      /\ ui_events'[Len(ui_events) + 1] = e
<1> USE DEF UiTypes
<1>1. CASE Len(ui_events) >= HighWater
  <2>1. ui_events # <<>> /\ Tail(ui_events) \in Seq(UiEvent)
    BY <1>1, ChannelAssumption, CallsAssumption
  <2>2. ui_events' = Append(Tail(ui_events), e) /\ ui_lost' = TRUE
    BY <1>1 DEF TheChat!Record
  <2>3. QED
    BY <2>1, <2>2
<1>2. CASE ~(Len(ui_events) >= HighWater)
  <2>1. ui_events' = Append(ui_events, e) /\ ui_lost' = ui_lost
    BY <1>2 DEF TheChat!Record
  <2>2. QED
    BY <2>1
<1>3. QED
  BY <1>1, <1>2

(* A chunk is an event. *)
LEMMA UiChunkIsEvent ==
  ASSUME UiTypes, NEW c \in UiCalls, NEW kind \in UiKinds
  PROVE  /\ TheChat!Chunk(c, kind) \in UiEvent
         /\ TheChat!Chunk(c, kind).call = c /\ TheChat!Chunk(c, kind).kind = kind /\ TheChat!Chunk(c, kind).step = ui_call[c].step
  BY DEF UiTypes, UiEvent, UiCall, TheChat!Chunk

(* What a call that is at work records comes behind the finish of every    *)
(* call before it.                                                         *)
LEMMA UiRowRecords ==
  ASSUME UiTypes, UiTypes', UiInARow, ~ui_lost', NEW c \in UiCalls, NEW e \in UiEvent, e.call = c, TheChat!Record(e),
         ui_call[c].state \notin {"idle", "over", "failed"}, ui_call'[c].state # "idle",
         ui_call'[c].state = "over" => e.kind = "finish",
         \A d \in UiCalls \ {c} : ui_call'[d] = ui_call[d],
         UNCHANGED <<ui_open, ui_client>>
  PROVE  UiInARow'
<1> USE DEF UiTypes
<1>n. PICK n \in Nat : n = Len(ui_events)
  OBVIOUS
<1>1. /\ n = Len(ui_events) /\ DOMAIN ui_events = 1 .. n /\ DOMAIN ui_events' = 1 .. n + 1 /\ Len(ui_events') = n + 1
      /\ \A i \in 1 .. n : ui_events'[i] = ui_events[i]
      /\ ui_events'[n + 1] = e
  BY <1>n, UiRecorded
<1>2. \A i \in 1 .. n : ui_events[i].call \in UiCalls
  <2>1. \A i \in 1 .. n : ui_events[i] \in UiEvent
    BY <1>1
  <2>2. QED
    BY <2>1 DEF UiEvent
<1>3. \A d \in UiCalls \ {c} : ui_call[d].state # "idle" => ui_call[d].state \in {"over", "failed"}
  BY ChannelAssumption, CallsAssumption DEF UiInARow
<1>4. ASSUME NEW i \in 1 .. n, NEW m \in i .. n, UiFinishIn(i, m) PROVE UiFinishIn(i, m)'
  BY <1>1, <1>4 DEF UiFinishIn
<1>5. ASSUME NEW m \in 0 .. n, UiFinishIn(1, m) PROVE UiFinishIn(1, m)'
  BY <1>1, <1>5 DEF UiFinishIn
<1>6. ASSUME NEW i \in 1 .. n, UiFinishIn(i, n) PROVE UiFinishIn(i, n + 1)'
  BY <1>1, <1>6 DEF UiFinishIn
<1>7. e.kind = "finish" => \A i \in 1 .. n + 1 : UiFinishIn(i, n + 1)'
  BY <1>1 DEF UiFinishIn
<1>8. \A a, d \in UiCalls : a < d /\ ui_call'[d].state # "idle" => ui_call'[a].state \in {"over", "failed"}
  BY <1>3, ChannelAssumption, CallsAssumption DEF UiInARow
<1>9. ASSUME NEW i \in 1 .. n + 1
      PROVE  /\ ui_call'[ui_events'[i].call].state # "idle"
             /\ ui_call'[ui_events'[i].call].state = "over" => UiFinishIn(i, Len(ui_events))'
  <2>1. CASE i = n + 1
    BY <1>1, <1>7, <2>1
  <2>2. CASE i \in 1 .. n /\ ui_events[i].call = c
    BY <1>1, <1>7, <2>2
  <2>3. CASE i \in 1 .. n /\ ui_events[i].call # c
    BY <1>1, <1>2, <1>6, <2>3 DEF UiInARow
  <2>4. QED
    BY <1>1, <2>1, <2>2, <2>3
<1>10. ASSUME NEW b \in ui_open
       PROVE  /\ ui_client[b] \in UiCalls /\ ui_call'[ui_client[b]].state # "idle"
              /\ ui_call'[ui_client[b]].state = "over" => UiFinishIn(1, Len(ui_events))'
  <2>1. ui_client[b] \in UiCalls /\ ui_call[ui_client[b]].state # "idle"
    BY DEF UiInARow
  <2>2. CASE ui_client[b] = c
    BY <1>1, <1>7, <2>2
  <2>3. CASE ui_client[b] # c
    <3>1. ui_call[ui_client[b]].state = "over" => UiFinishIn(1, n)
      BY <1>1, <1>3, <2>1, <2>3 DEF UiInARow
    <3>2. QED
      BY <1>1, <2>1, <2>3, <3>1 DEF UiFinishIn
  <2>4. QED
    BY <2>2, <2>3
<1>13. ASSUME NEW d \in UiCalls, ui_call'[d].state # "failed" PROVE ui_call[d].state # "failed"
  BY <1>13
<1>11. ASSUME NEW i \in 1 .. n + 1, NEW j \in 1 .. n + 1, i < j, ui_events'[i].call # ui_events'[j].call,
              ui_call'[ui_events'[i].call].state # "failed"
       PROVE  UiFinishIn(i, j - 1)'
  <2>1. CASE j = n + 1
    <3>1. i \in 1 .. n /\ ui_events[i].call # c
      BY <1>1, <1>11, <2>1
    <3>4. ui_events[i].call \in UiCalls \ {c} /\ ui_call[ui_events[i].call].state # "failed"
      BY <1>1, <1>2, <1>11, <3>1
    <3>2. UiFinishIn(i, n)
      BY <1>1, <1>2, <1>3, <3>1, <3>4 DEF UiInARow
    <3>3. QED
      BY <1>1, <1>4, <2>1, <3>1, <3>2
  <2>2. CASE j \in 1 .. n
    <3>1. i \in 1 .. n /\ j - 1 \in i .. n
      BY <1>11, <2>2
    <3>2. /\ ui_events[i].call # ui_events[j].call
          /\ UiHasNotFailed(ui_events[i].call)
      BY <1>1, <1>2, <1>11, <2>2, <3>1, <1>13 DEF UiHasNotFailed
    <3>3. UiFinishIn(i, j - 1)
      BY <1>1, <1>11, <2>2, <3>1, <3>2 DEF UiInARow
    <3>4. QED
      BY <1>4, <3>1, <3>3
  <2>3. QED
    BY <1>1, <2>1, <2>2
<1>12. ASSUME NEW b \in ui_open, NEW j \in 1 .. n + 1, ui_client[b] # ui_events'[j].call,
              ui_call'[ui_client[b]].state # "failed"
       PROVE  UiFinishIn(1, j - 1)'
  <2>1. ui_client[b] \in UiCalls /\ ui_call[ui_client[b]].state # "idle"
    BY DEF UiInARow
  <2>2. CASE j = n + 1
    <3>3. ui_client[b] \in UiCalls \ {c} /\ ui_call[ui_client[b]].state = "over"
      BY <1>1, <1>3, <1>12, <2>1, <2>2
    <3>1. UiFinishIn(1, n)
      BY <1>1, <3>3 DEF UiInARow
    <3>2. QED
      BY <1>1, <1>5, <2>2, <3>1
  <2>3. CASE j \in 1 .. n
    <3>1. ui_client[b] # ui_events[j].call /\ UiHasNotFailed(ui_client[b])
      BY <1>1, <1>12, <1>13, <2>1, <2>3 DEF UiHasNotFailed
    <3>2. UiFinishIn(1, j - 1)
      BY <1>1, <2>3, <3>1 DEF UiInARow
    <3>3. QED
      BY <1>5, <2>3, <3>2
  <2>4. QED
    BY <1>1, <2>2, <2>3
<1>14. QED
  BY <1>1, <1>8, <1>9, <1>10, <1>11, <1>12 DEF UiInARow, UiHasNotFailed

(* What is read goes from the buffer to the client.                        *)
LEMMA UiRowReads ==
  ASSUME UiTypes, UiInARow, ui_events # <<>>, ui_events' = Tail(ui_events), UNCHANGED ui_call,
         Head(ui_events).kind = "finish" => ui_open' = {},
         \A b \in ui_open' : (b \in ui_open /\ ui_client'[b] = ui_client[b]) \/ ui_client'[b] = Head(ui_events).call
  PROVE  UiInARow'
<1> USE DEF UiTypes
<1>1. PICK n \in Nat : n + 1 = Len(ui_events)
  <2>1. Len(ui_events) \in Nat \ {0}
    OBVIOUS
  <2>2. QED
    BY <2>1
<1>2. /\ DOMAIN ui_events = 1 .. n + 1 /\ DOMAIN ui_events' = 1 .. n /\ Len(ui_events') = n
      /\ \A i \in 1 .. n : ui_events'[i] = ui_events[i + 1]
      /\ Head(ui_events) = ui_events[1] /\ 1 \in DOMAIN ui_events
  BY <1>1
<1>3. \A i \in 1 .. n + 1 : ui_events[i].call \in UiCalls
  <2>1. \A i \in 1 .. n + 1 : ui_events[i] \in UiEvent
    BY <1>2
  <2>2. QED
    BY <2>1 DEF UiEvent
<1>4. ASSUME NEW i \in 1 .. n, NEW m \in 0 .. n, UiFinishIn(i + 1, m + 1) PROVE UiFinishIn(i, m)'
  <2>1. PICK k \in i + 1 .. m + 1 : ui_events[k].kind = "finish"
    BY <1>4 DEF UiFinishIn
  <2>2. k - 1 \in i .. m /\ ui_events'[k - 1] = ui_events[k]
    BY <1>2, <2>1
  <2>3. QED
    BY <2>1, <2>2 DEF UiFinishIn
<1>5. ASSUME NEW b \in ui_open', NEW m \in 0 .. n, UiFinishIn(1, m + 1) PROVE UiFinishIn(1, m)'
  <2>1. PICK k \in 1 .. m + 1 : ui_events[k].kind = "finish"
    BY <1>5 DEF UiFinishIn
  <2>2. k - 1 \in 1 .. m /\ ui_events'[k - 1] = ui_events[k]
    BY <1>2, <2>1
  <2>3. QED
    BY <2>1, <2>2 DEF UiFinishIn
<1>6. ASSUME NEW i \in 1 .. n
      PROVE  /\ ui_call[ui_events'[i].call].state # "idle"
             /\ ui_call[ui_events'[i].call].state = "over" => UiFinishIn(i, n)'
  BY <1>1, <1>2, <1>4, i + 1 \in 1 .. n + 1, SMTT(20) DEF UiInARow
<1>7. ASSUME NEW b \in ui_open'
      PROVE  /\ ui_client'[b] \in UiCalls /\ ui_call[ui_client'[b]].state # "idle"
             /\ ui_call[ui_client'[b]].state = "over" => UiFinishIn(1, n)'
  <2>1. CASE b \in ui_open /\ ui_client'[b] = ui_client[b]
    BY <1>1, <1>5, <2>1 DEF UiInARow
  <2>2. CASE ui_client'[b] = ui_events[1].call
    BY <1>1, <1>2, <1>3, <1>5, <2>2 DEF UiInARow
  <2>3. QED
    BY <1>2, <2>1, <2>2
<1>8. ASSUME NEW i \in 1 .. n, NEW j \in 1 .. n, i < j, ui_events'[i].call # ui_events'[j].call,
             UiHasNotFailed(ui_events'[i].call)
      PROVE  UiFinishIn(i, j - 1)'
  <2>1. UiFinishIn(i + 1, (j - 1) + 1)
    <3>1. i + 1 \in DOMAIN ui_events /\ j + 1 \in DOMAIN ui_events /\ i + 1 < j + 1
      BY <1>2, <1>8
    <3>2. ui_events[i + 1].call # ui_events[j + 1].call /\ UiHasNotFailed(ui_events[i + 1].call)
      BY <1>2, <1>8
    <3>3. \A k \in DOMAIN ui_events : k > i + 1 /\ ui_events[i + 1].call # ui_events[k].call => UiFinishIn(i + 1, k - 1)
      BY <3>1, <3>2 DEF UiInARow
    <3>4. UiFinishIn(i + 1, (j + 1) - 1)
      BY <3>1, <3>2, <3>3
    <3>5. QED
      BY <3>4 DEF UiFinishIn
  <2>2. j - 1 \in 0 .. n
    OBVIOUS
  <2>3. QED
    BY <1>4, <2>1, <2>2
<1>9. ASSUME NEW b \in ui_open', NEW j \in 1 .. n, ui_client'[b] # ui_events'[j].call, UiHasNotFailed(ui_client'[b])
      PROVE  UiFinishIn(1, j - 1)'
  <2>1. /\ j + 1 \in DOMAIN ui_events /\ 1 < j + 1 /\ (j + 1) - 1 = (j - 1) + 1
        /\ ui_client'[b] # ui_events[j + 1].call /\ j - 1 \in 0 .. n
    BY <1>2, <1>9
  <2>2. CASE b \in ui_open /\ ui_client'[b] = ui_client[b]
    <3>1. UiFinishIn(1, (j - 1) + 1)
      BY <1>9, <2>1, <2>2 DEF UiInARow
    <3>2. QED
      BY <1>5, <2>1, <3>1
  <2>3. CASE ui_client'[b] = ui_events[1].call
    <3>1. UiFinishIn(1, (j - 1) + 1)
      BY <1>2, <1>9, <2>1, <2>3 DEF UiInARow
    <3>2. QED
      BY <1>5, <2>1, <3>1
  <2>4. QED
    BY <1>2, <2>2, <2>3
<1>10. QED
  BY <1>2, <1>6, <1>7, <1>8, <1>9 DEF UiInARow, UiHasNotFailed

(* A tool's name comes before all else that is said of its call.           *)
LEMMA UiNamesRecord ==
  ASSUME UiTypes, UiTypes', UiAllKnown, ~ui_lost', NEW c \in UiCalls, NEW e \in UiEvent, e.call = c, TheChat!Record(e),
         \A d \in UiCalls \ {c} : ui_call'[d] = ui_call[d],
         ui_call'[c].tool = "open" =>
           \/ e.kind = "tool_call_start" /\ e.step = ui_call'[c].step
           \/ ui_call[c].tool = "open" /\ ui_call'[c].step = ui_call[c].step,
         e.kind = "tool_call_end" => ui_call[c].tool = "open" /\ e.step = ui_call[c].step,
         UNCHANGED ui_tool_names
  PROVE  UiAllKnown'
<1> USE DEF UiTypes
<1>n. PICK n \in Nat : n = Len(ui_events)
  OBVIOUS
<1>1. /\ n = Len(ui_events) /\ DOMAIN ui_events = 1 .. n /\ DOMAIN ui_events' = 1 .. n + 1 /\ Len(ui_events') = n + 1
      /\ \A i \in 1 .. n : ui_events'[i] = ui_events[i]
      /\ ui_events'[n + 1] = e
  BY <1>n, UiRecorded
<1>2. ASSUME NEW d, NEW s, NEW m \in 0 .. n, UiKnown(d, s, m) PROVE UiKnown(d, s, m)'
  BY <1>1, <1>2 DEF UiKnown
<1>3. ASSUME NEW d, NEW s, UiKnown(d, s, n) PROVE UiKnown(d, s, n + 1)'
  BY <1>1, <1>3 DEF UiKnown
<1>4. ASSUME NEW d \in UiCalls, ui_call'[d].tool = "open" PROVE UiKnown(d, ui_call[d].step, Len(ui_events))'
  <2>0. PICK t : t = ui_call'[d].step
    OBVIOUS
  <2>1. CASE d # c
    <3>1. t = ui_call[d].step /\ UiKnown(d, t, n)
      BY <1>1, <1>4, <2>0, <2>1 DEF UiAllKnown
    <3>2. UiKnown(d, t, n + 1)'
      BY <1>3, <3>1
    <3>3. QED
      BY <1>1, <2>0, <3>2 DEF UiKnown
  <2>2. CASE d = c /\ e.kind = "tool_call_start" /\ e.step = ui_call'[c].step
    BY <1>1, <2>2 DEF UiKnown
  <2>3. CASE d = c /\ ui_call[c].tool = "open" /\ ui_call'[c].step = ui_call[c].step
    <3>1. t = ui_call[c].step /\ UiKnown(c, t, n)
      BY <1>1, <2>0, <2>3 DEF UiAllKnown
    <3>2. UiKnown(c, t, n + 1)'
      BY <1>3, <3>1
    <3>3. QED
      BY <1>1, <2>0, <2>3, <3>2 DEF UiKnown
  <2>4. QED
    BY <1>4, <2>1, <2>2, <2>3
<1>5. ASSUME NEW j \in 1 .. n + 1, ui_events'[j].kind = "tool_call_end"
      PROVE  UiKnown(ui_events[j].call, ui_events[j].step, j - 1)'
  <2>0. PICK d, t : d = ui_events'[j].call /\ t = ui_events'[j].step
    OBVIOUS
  <2>1. UiKnown(d, t, j - 1)
    <3>1. CASE j = n + 1
      BY <1>1, <1>5, <2>0, <3>1 DEF UiAllKnown
    <3>2. CASE j \in 1 .. n
      BY <1>1, <1>5, <2>0, <3>2 DEF UiAllKnown
    <3>3. QED
      BY <3>1, <3>2
  <2>2. UiKnown(d, t, j - 1)'
    BY <1>2, <2>1, j - 1 \in 0 .. n
  <2>3. QED
    BY <2>0, <2>2 DEF UiKnown
<1>6. QED
  BY <1>1, <1>4, <1>5 DEF UiAllKnown
(* What was read of a tool's call is known.                                *)
LEMMA UiNamesRead ==
  ASSUME UiTypes, UiAllKnown, ui_events # <<>>, ui_events' = Tail(ui_events), UNCHANGED ui_call,
         ui_tool_names \subseteq ui_tool_names',
         Head(ui_events).kind = "tool_call_start" => <<Head(ui_events).call, Head(ui_events).step>> \in ui_tool_names'
  PROVE  UiAllKnown'
<1> USE DEF UiTypes
<1>1. PICK n \in Nat : n + 1 = Len(ui_events)
  <2>1. Len(ui_events) \in Nat \ {0}
    OBVIOUS
  <2>2. QED
    BY <2>1
<1>2. /\ DOMAIN ui_events = 1 .. n + 1 /\ DOMAIN ui_events' = 1 .. n /\ Len(ui_events') = n
      /\ \A i \in 1 .. n : ui_events'[i] = ui_events[i + 1]
      /\ Head(ui_events) = ui_events[1]
  BY <1>1
<1>3. ASSUME NEW d, NEW t, NEW m \in 0 .. n, UiKnown(d, t, m + 1) PROVE UiKnown(d, t, m)'
  <2>1. CASE <<d, t>> \in ui_tool_names
    BY <2>1 DEF UiKnown
  <2>2. CASE <<d, t>> \notin ui_tool_names
    <3>1. PICK i \in 1 .. m + 1 : ui_events[i].kind = "tool_call_start" /\ ui_events[i].call = d /\ ui_events[i].step = t
      BY <1>3, <2>2 DEF UiKnown
    <3>2. CASE i = 1
      BY <1>2, <3>1, <3>2 DEF UiKnown
    <3>3. CASE i # 1
      <4>1. i - 1 \in 1 .. m /\ ui_events'[i - 1] = ui_events[i]
        BY <1>2, <3>1, <3>3
      <4>2. QED
        BY <3>1, <4>1 DEF UiKnown
    <3>4. QED
      BY <3>2, <3>3
  <2>3. QED
    BY <2>1, <2>2
<1>4. ASSUME NEW d \in UiCalls, ui_call[d].tool = "open" PROVE UiKnown(d, ui_call[d].step, Len(ui_events))'
  <2>1. UiKnown(d, ui_call[d].step, n + 1)
    BY <1>1, <1>4 DEF UiAllKnown
  <2>2. PICK t : t = ui_call[d].step
    OBVIOUS
  <2>3. UiKnown(d, t, n)'
    BY <1>3, <2>1, <2>2
  <2>4. QED
    BY <1>2, <2>2, <2>3 DEF UiKnown
<1>5. ASSUME NEW j \in 1 .. n, ui_events'[j].kind = "tool_call_end"
      PROVE  UiKnown(ui_events[j].call, ui_events[j].step, j - 1)'
  <2>0. PICK d, t : d = ui_events'[j].call /\ t = ui_events'[j].step
    OBVIOUS
  <2>1. UiKnown(d, t, (j + 1) - 1)
    BY <1>2, <1>5, <2>0, j + 1 \in 1 .. n + 1 DEF UiAllKnown
  <2>2. (j + 1) - 1 = (j - 1) + 1 /\ j - 1 \in 0 .. n
    OBVIOUS
  <2>3. UiKnown(d, t, j - 1)'
    BY <1>3, <2>1, <2>2
  <2>4. QED
    BY <2>0, <2>3 DEF UiKnown
<1>6. QED
  BY <1>2, <1>4, <1>5 DEF UiAllKnown

(* A call at work records an event.                                        *)
LEMMA UiRecordsOK ==
  ASSUME UiInv, NEW c \in UiCalls, NEW e \in UiEvent, e.call = c, TheChat!Record(e), ui_settled = "no",
         ui_call' \in [UiCalls -> UiCall], \A d \in UiCalls \ {c} : ui_call'[d] = ui_call[d],
         ui_call[c].state \notin {"idle", "over", "failed"}, ui_call'[c].state # "idle",
         ui_call'[c].state = "over" => e.kind = "finish",
         ui_call'[c].tool = "open" =>
           \/ e.kind = "tool_call_start" /\ e.step = ui_call'[c].step
           \/ ui_call[c].tool = "open" /\ ui_call'[c].step = ui_call[c].step,
         e.kind = "tool_call_end" => ui_call[c].tool = "open" /\ e.step = ui_call[c].step,
         UNCHANGED <<ui_parallel, ui_open, ui_tool_names, ui_client, ui_broken, ui_over>>
  PROVE  UiInv'
<1>1. UiTypes /\ UiTypes'
  BY UiRecorded DEF UiInv, UiTypes
<1>2. UiBlocksInv'
  BY DEF UiInv, UiBlocksInv
<1>4. UiRowInv'
  <2>1. SUFFICES ASSUME ~ui_parallel, ~ui_lost' PROVE "mixed" \notin ui_broken /\ UiInARow'
    BY DEF UiRowInv
  <2>2. ~ui_lost
    BY <1>1, <2>1, UiRecorded
  <2>3. "mixed" \notin ui_broken /\ UiInARow
    BY <2>1, <2>2 DEF UiInv, UiRowInv
  <2>4. UiInARow'
    BY <1>1, <2>1, <2>3, UiRowRecords
  <2>5. QED
    BY <2>3, <2>4
<1>5. UiNamesInv'
  <2>1. SUFFICES ASSUME ~ui_lost' PROVE "nameless" \notin ui_broken /\ UiAllKnown'
    BY DEF UiNamesInv
  <2>2. ~ui_lost
    BY <1>1, <2>1, UiRecorded
  <2>3. "nameless" \notin ui_broken /\ UiAllKnown
    BY <2>2 DEF UiInv, UiNamesInv
  <2>4. UiAllKnown'
    BY <1>1, <2>1, <2>3, UiNamesRecord
  <2>5. QED
    BY <2>3, <2>4
<1>6. QED
  BY <1>1, <1>2, <1>4, <1>5 DEF UiInv

(* A call begins.                                                          *)
LEMMA UiBeginsOK ==
  ASSUME UiInv, NEW c \in UiCalls, TheChat!Begins(c)
  PROVE  UiInv'
<1> USE DEF TheChat!Begins, TheChat!sent
<1>1. UiTypes
  BY DEF UiInv
<1>2. /\ ui_call' \in [UiCalls -> UiCall]
      /\ ui_call'[c].state = "on" /\ ui_call'[c].tool = ui_call[c].tool /\ ui_call'[c].step = ui_call[c].step
      /\ \A d \in UiCalls \ {c} : ui_call'[d] = ui_call[d]
  BY <1>1 DEF UiTypes, UiCall
<1>3. UiTypes' /\ UiBlocksInv'
  BY <1>1, <1>2 DEF UiInv, UiTypes, UiBlocksInv
<1>4. UiRowInv'
  <2>1. SUFFICES ASSUME ~ui_parallel, ~ui_lost PROVE UiInARow'
    BY DEF UiRowInv, UiInv
  <2>2. UiInARow
    BY <2>1 DEF UiInv, UiRowInv
  <2>3. \A d \in UiCalls : d < c => ui_call[d].state \in {"over", "failed"}
    BY <2>1 DEF TheChat!MayBegin, TheChat!Ended
  <2>4. \A a, d \in UiCalls : a < d /\ ui_call'[d].state # "idle" => ui_call'[a].state \in {"over", "failed"}
    BY <1>2, <2>2, <2>3, ChannelAssumption, CallsAssumption DEF UiInARow
  <2>5. \A i \in DOMAIN ui_events : ui_events[i].call \in UiCalls
    <3>1. \A i \in DOMAIN ui_events : ui_events[i] \in UiEvent
      BY <1>1 DEF UiTypes
    <3>2. QED
      BY <3>1 DEF UiEvent
  <2>6. QED
    BY <1>2, <2>2, <2>4, <2>5 DEF UiInARow, UiFinishIn, UiHasNotFailed
<1>5. UiNamesInv'
  <2>1. SUFFICES ASSUME ~ui_lost PROVE UiAllKnown'
    BY DEF UiNamesInv, UiInv
  <2>2. UiAllKnown
    BY <2>1 DEF UiInv, UiNamesInv
  <2>3. QED
    BY <1>2, <2>2 DEF UiAllKnown, UiKnown
<1>6. QED
  BY <1>3, <1>4, <1>5 DEF UiInv

(* A call emits a piece of text or reasoning, or a part of its tool call.  *)
LEMMA UiEmitsOK ==
  ASSUME UiInv, NEW c \in UiCalls, TheChat!Emits(c)
  PROVE  UiInv'
<1>1. UiTypes /\ ui_call[c] \in UiCall
  BY DEF UiInv, UiTypes
<1>2. ui_settled = "no" /\ ui_call[c].state = "on" /\ UNCHANGED <<ui_parallel, ui_open, ui_tool_names, ui_client, ui_broken, ui_over>>
  BY DEF TheChat!Emits, TheChat!sent
<1>3. PICK kind \in {"text", "reasoning", "tool_call_start", "tool_call_end"} :
        /\ kind = "tool_call_end" <=> ui_call[c].tool = "open"
        /\ TheChat!Record(TheChat!Chunk(c, kind))
        /\ ui_call' = [ui_call EXCEPT ![c].chunks = @ + 1,
                      ![c].tool = CASE kind = "tool_call_start" -> "open" [] kind = "tool_call_end" -> "closed" [] OTHER -> @]
  BY DEF TheChat!Emits
<1>4. PICK tool : tool = CASE kind = "tool_call_start" -> "open" [] kind = "tool_call_end" -> "closed" [] OTHER -> ui_call[c].tool
  OBVIOUS
<1>5. /\ tool \in {"none", "open", "closed"}
      /\ tool = "open" => kind = "tool_call_start"
  BY <1>1, <1>3, <1>4 DEF UiCall
<1>6. /\ ui_call' \in [UiCalls -> UiCall] /\ \A d \in UiCalls \ {c} : ui_call'[d] = ui_call[d]
      /\ ui_call'[c].state = "on" /\ ui_call'[c].step = ui_call[c].step /\ ui_call'[c].tool = tool
  <2>1. PICK me : me = [ui_call[c] EXCEPT !.chunks = ui_call[c].chunks + 1, !.tool = tool]
    OBVIOUS
  <2>2. me \in UiCall /\ me.state = ui_call[c].state /\ me.step = ui_call[c].step /\ me.tool = tool
    <3>1. ui_call[c] \in UiCall /\ tool \in {"none", "open", "closed"}
      BY <1>1, <1>5
    <3>2. PICK n \in Nat : n = ui_call[c].chunks + 1
      BY <3>1 DEF UiCall
    <3>3. me = [[ui_call[c] EXCEPT !.chunks = n] EXCEPT !.tool = tool]
      BY <2>1, <3>2
    <3>4. PICK half : half = [ui_call[c] EXCEPT !.chunks = n]
      OBVIOUS
    <3>5. half \in UiCall /\ half.state = ui_call[c].state /\ half.step = ui_call[c].step
      BY <3>1, <3>4 DEF UiCall
    <3>6. me = [half EXCEPT !.tool = tool]
      BY <3>3, <3>4
    <3>7. QED
      BY <3>1, <3>5, <3>6 DEF UiCall
  <2>3. ui_call' = [ui_call EXCEPT ![c] = me]
    BY <1>1, <1>3, <1>4, <2>1 DEF UiTypes
  <2>4. QED
    BY <1>1, <1>2, <2>2, <2>3 DEF UiTypes
<1>7. kind \in UiKinds
  BY DEF UiKinds
<1>8. PICK e \in UiEvent : e = TheChat!Chunk(c, kind) /\ e.call = c /\ e.kind = kind /\ e.step = ui_call[c].step
  BY <1>1, <1>7, UiChunkIsEvent
<1>9. TheChat!Record(e)
  BY <1>3, <1>8
<1>10. kind = "tool_call_end" => ui_call[c].tool = "open"
  BY <1>3
<1>11. QED
  BY <1>2, <1>5, <1>6, <1>8, <1>9, <1>10, UiRecordsOK

(* A turn is over; its call is in its last stage, or has its tool run.      *)
LEMMA UiStepFinishesOK ==
  ASSUME UiInv, NEW c \in UiCalls, TheChat!StepFinishes(c)
  PROVE  UiInv'
<1>1. UiTypes /\ ui_call[c] \in UiCall
  BY DEF UiInv, UiTypes
<1>2. /\ ui_settled = "no" /\ ui_call[c].state \notin {"idle", "over", "failed"}
      /\ TheChat!Record(TheChat!Chunk(c, "step_finish"))
      /\ UNCHANGED <<ui_parallel, ui_open, ui_tool_names, ui_client, ui_broken, ui_over>>
  BY DEF TheChat!StepFinishes, TheChat!sent
<1>3. ui_call' \in [UiCalls -> UiCall] /\ \A d \in UiCalls \ {c} : ui_call'[d] = ui_call[d]
  BY <1>1 DEF TheChat!StepFinishes, UiTypes, UiCall
<1>4. ui_call'[c].state # "idle" /\ ui_call'[c].state # "over" /\ ui_call'[c].tool # "open"
  BY <1>1 DEF TheChat!StepFinishes, UiTypes, UiCall
<1>6. "step_finish" \in UiKinds
  BY DEF UiKinds
<1>7. PICK e \in UiEvent : e = TheChat!Chunk(c, "step_finish") /\ e.call = c /\ e.kind = "step_finish"
  BY <1>1, <1>6, UiChunkIsEvent
<1>8. TheChat!Record(e)
  BY <1>2, <1>7
<1>9. QED
  BY <1>2, <1>3, <1>4, <1>7, <1>8, UiRecordsOK

(* The tool of a call answers, and the call goes on or ends.                *)
LEMMA UiToolAnswersOK ==
  ASSUME UiInv, NEW c \in UiCalls, TheChat!ToolAnswers(c)
  PROVE  UiInv'
<1>1. UiTypes /\ ui_call[c] \in UiCall
  BY DEF UiInv, UiTypes
<1>2. /\ ui_settled = "no" /\ ui_call[c].state \notin {"idle", "over", "failed"}
      /\ TheChat!Record(TheChat!Chunk(c, "tool_result"))
      /\ UNCHANGED <<ui_parallel, ui_open, ui_tool_names, ui_client, ui_broken, ui_over>>
  BY DEF TheChat!ToolAnswers, TheChat!sent
<1>3. PICK me : /\ me \in UiCall
                /\ ui_call' = [ui_call EXCEPT ![c] = me]
                /\ me.state \in {"on", "last"}
                /\ me.tool = "open" => ui_call[c].tool = "open" /\ me.step = ui_call[c].step
  <2>2. CASE ui_call[c].step + 1 < UiSteps
    <3>1. PICK me : me = [TheChat!Idle EXCEPT !.state = "on", !.step = @ + ui_call[c].step + 1]
      OBVIOUS
    <3>2. TheChat!Idle \in UiCall /\ TheChat!Idle.tool = "none" /\ TheChat!Idle.step = 0
      BY DEF TheChat!Idle, UiCall
    <3>3. TheChat!Idle.step + ui_call[c].step + 1 \in Nat
      BY <1>1, <3>2 DEF UiCall
    <3>4. me \in UiCall /\ me.state = "on" /\ me.tool = "none"
      BY <3>1, <3>2, <3>3 DEF UiCall
    <3>5. ui_call' = [ui_call EXCEPT ![c] = me]
      BY <1>1, <2>2, <3>1 DEF TheChat!ToolAnswers, UiTypes
    <3>6. QED
      BY <3>4, <3>5
  <2>3. CASE ~(ui_call[c].step + 1 < UiSteps)
    <3>1. ui_call' = [ui_call EXCEPT ![c] = [ui_call[c] EXCEPT !.state = "last"]]
      BY <1>1, <2>3 DEF TheChat!ToolAnswers, UiTypes
    <3>2. PICK me : me = [ui_call[c] EXCEPT !.state = "last"]
      OBVIOUS
    <3>3. me \in UiCall /\ me.state = "last" /\ me.tool = ui_call[c].tool /\ me.step = ui_call[c].step
      BY <1>1, <3>2 DEF UiCall
    <3>4. QED
      BY <3>1, <3>2, <3>3
  <2>4. QED
    BY <2>2, <2>3
<1>4. /\ ui_call' \in [UiCalls -> UiCall] /\ \A d \in UiCalls \ {c} : ui_call'[d] = ui_call[d]
      /\ ui_call'[c] = me
  <2>1. me \in UiCall /\ ui_call' = [ui_call EXCEPT ![c] = me]
    BY <1>3
  <2>2. QED
    BY <1>1, <2>1 DEF UiTypes
<1>5. ui_call[c].state \notin {"idle", "over", "failed"} /\ ui_call'[c].state # "idle" /\ ui_call'[c].state # "over"
      /\ (ui_call'[c].tool = "open" => ui_call[c].tool = "open" /\ ui_call'[c].step = ui_call[c].step)
  BY <1>2, <1>3, <1>4
<1>6. "tool_result" \in UiKinds
  BY DEF UiKinds
<1>7. PICK e \in UiEvent : e = TheChat!Chunk(c, "tool_result") /\ e.call = c /\ e.kind = "tool_result"
  BY <1>1, <1>6, UiChunkIsEvent
<1>8. TheChat!Record(e)
  BY <1>2, <1>7
<1>9. QED
  BY <1>2, <1>4, <1>5, <1>7, <1>8, UiRecordsOK

(* A call finishes.                                                         *)
LEMMA UiFinishesOK ==
  ASSUME UiInv, NEW c \in UiCalls, TheChat!Finishes(c)
  PROVE  UiInv'
<1>1. UiTypes /\ ui_call[c] \in UiCall
  BY DEF UiInv, UiTypes
<1>2. /\ ui_settled = "no" /\ ui_call[c].state \notin {"idle", "over", "failed"}
      /\ TheChat!Record(TheChat!Chunk(c, "finish"))
      /\ UNCHANGED <<ui_parallel, ui_open, ui_tool_names, ui_client, ui_broken, ui_over>>
  BY DEF TheChat!Finishes, TheChat!sent
<1>3. ui_call' \in [UiCalls -> UiCall] /\ \A d \in UiCalls \ {c} : ui_call'[d] = ui_call[d]
  BY <1>1 DEF TheChat!Finishes, UiTypes, UiCall
<1>4. ui_call'[c].state = "over" /\ ui_call'[c].tool = ui_call[c].tool /\ ui_call'[c].step = ui_call[c].step
  BY <1>1 DEF TheChat!Finishes, UiTypes, UiCall
<1>6. "finish" \in UiKinds
  BY DEF UiKinds
<1>7. PICK e \in UiEvent : e = TheChat!Chunk(c, "finish") /\ e.call = c /\ e.kind = "finish"
  BY <1>1, <1>6, UiChunkIsEvent
<1>8. TheChat!Record(e)
  BY <1>2, <1>7
<1>9. QED
  BY <1>2, <1>3, <1>4, <1>7, <1>8, UiRecordsOK

(* The run settles: nothing but that is changed.                           *)
LEMMA UiSettlesOK ==
  ASSUME UiInv, ui_settled = "no", UNCHANGED <<ui_parallel, ui_call, ui_events, ui_lost, ui_open, ui_tool_names, TheChat!sent>>
  PROVE  UiInv'
<1>1. ~ui_over
  BY DEF UiInv, UiBlocksInv
<1>2. UiTypes' /\ UiRowInv' /\ UiNamesInv'
  BY DEF UiInv, UiTypes, UiRowInv, UiInARow, UiFinishIn, UiHasNotFailed, UiNamesInv, UiAllKnown, UiKnown, TheChat!sent
<1>3. QED
  BY <1>1, <1>2 DEF UiInv, UiBlocksInv, TheChat!sent

(* A call fails, and the run with it, or not.                              *)
LEMMA UiFailsOK ==
  ASSUME UiInv, NEW c \in UiCalls, TheChat!Fails(c)
  PROVE  UiInv'
<1> USE DEF TheChat!Fails, TheChat!sent
<1>1. UiTypes /\ ui_call[c] \in UiCall /\ ~ui_over
  BY DEF UiInv, UiTypes, UiBlocksInv
<1>2. /\ ui_call' \in [UiCalls -> UiCall]
      /\ ui_call'[c].state = "failed" /\ ui_call'[c].tool = ui_call[c].tool /\ ui_call'[c].step = ui_call[c].step
      /\ \A d \in UiCalls \ {c} : ui_call'[d] = ui_call[d]
  BY <1>1 DEF UiTypes, UiCall
<1>3. UiTypes' /\ UiBlocksInv'
  BY <1>1, <1>2 DEF UiInv, UiTypes, UiBlocksInv
<1>4. UiRowInv'
  <2>1. SUFFICES ASSUME ~ui_parallel, ~ui_lost PROVE UiInARow'
    BY DEF UiRowInv, UiInv
  <2>2. UiInARow
    BY <2>1 DEF UiInv, UiRowInv
  <2>3. \A a, d \in UiCalls : a < d /\ ui_call'[d].state # "idle" => ui_call'[a].state \in {"over", "failed"}
    BY <1>2, <2>2, ui_call[c].state # "idle" DEF UiInARow
  <2>4. \A i \in DOMAIN ui_events : ui_events[i].call \in UiCalls
    <3>1. \A i \in DOMAIN ui_events : ui_events[i] \in UiEvent
      BY <1>1 DEF UiTypes
    <3>2. QED
      BY <3>1 DEF UiEvent
  <2>5. QED
    BY <1>2, <2>2, <2>3, <2>4 DEF UiInARow, UiFinishIn, UiHasNotFailed
<1>5. UiNamesInv'
  <2>1. SUFFICES ASSUME ~ui_lost PROVE UiAllKnown'
    BY DEF UiNamesInv, UiInv
  <2>2. UiAllKnown
    BY <2>1 DEF UiInv, UiNamesInv
  <2>3. QED
    BY <1>2, <2>2 DEF UiAllKnown, UiKnown
<1>6. QED
  BY <1>3, <1>4, <1>5 DEF UiInv

(* An event is read: what was said of the calls in a row, and of the names *)
(* of the tools, is what its reading needs.                                *)
LEMMA UiReadsOK ==
  ASSUME UiInv, ui_events # <<>>, ui_events' = Tail(ui_events), UNCHANGED <<ui_parallel, ui_call, ui_lost, ui_settled, ui_over>>,
         DOMAIN ui_client' = ui_open', "block" \notin ui_broken',
         Head(ui_events).kind = "finish" => ui_open' = {},
         \A b \in ui_open' : (b \in ui_open /\ ui_client'[b] = ui_client[b]) \/ ui_client'[b] = Head(ui_events).call,
         ui_tool_names \subseteq ui_tool_names',
         Head(ui_events).kind = "tool_call_start" => <<Head(ui_events).call, Head(ui_events).step>> \in ui_tool_names',
         "mixed" \in ui_broken' => \/ "mixed" \in ui_broken
                               \/ \E b \in ui_open : ui_client[b] # Head(ui_events).call /\ UiHasNotFailed(ui_client[b]),
         "nameless" \in ui_broken' => \/ "nameless" \in ui_broken
                                  \/ /\ Head(ui_events).kind = "tool_call_end"
                                     /\ <<Head(ui_events).call, Head(ui_events).step>> \notin ui_tool_names
  PROVE  UiInv'
<1>1. UiTypes /\ UiTypes'
  BY DEF UiInv, UiTypes
<1>2. UiBlocksInv'
  BY DEF UiInv, UiBlocksInv
<1>3. 1 \in DOMAIN ui_events /\ Head(ui_events) = ui_events[1]
  BY <1>1 DEF UiTypes
<1>4. UiRowInv'
  <2>1. SUFFICES ASSUME ~ui_parallel, ~ui_lost PROVE "mixed" \notin ui_broken' /\ UiInARow'
    BY DEF UiRowInv
  <2>2. "mixed" \notin ui_broken /\ UiInARow
    BY <2>1 DEF UiInv, UiRowInv
  <2>3. ASSUME NEW b \in ui_open, ui_client[b] # ui_events[1].call, UiHasNotFailed(ui_client[b]) PROVE FALSE
    <3>1. UiFinishIn(1, 1 - 1)
      BY <1>3, <2>2, <2>3 DEF UiInARow
    <3>2. QED
      BY <3>1 DEF UiFinishIn
  <2>4. UiInARow'
    BY <1>1, <2>2, UiRowReads
  <2>5. QED
    BY <1>3, <2>2, <2>3, <2>4
<1>5. UiNamesInv'
  <2>1. SUFFICES ASSUME ~ui_lost PROVE "nameless" \notin ui_broken' /\ UiAllKnown'
    BY DEF UiNamesInv
  <2>2. "nameless" \notin ui_broken /\ UiAllKnown
    BY <2>1 DEF UiInv, UiNamesInv
  <2>3. ui_events[1].kind = "tool_call_end" => <<ui_events[1].call, ui_events[1].step>> \in ui_tool_names
    <3>1. ui_events[1].kind = "tool_call_end" => UiKnown(ui_events[1].call, ui_events[1].step, 1 - 1)
      BY <1>3, <2>2 DEF UiAllKnown
    <3>2. QED
      BY <3>1 DEF UiKnown
  <2>4. UiAllKnown'
    BY <1>1, <2>2, UiNamesRead
  <2>5. QED
    BY <1>3, <2>2, <2>3, <2>4
<1>6. QED
  BY <1>1, <1>2, <1>4, <1>5 DEF UiInv

(* Blocks that are open are ended.                                         *)
LEMMA UiEnded ==
  ASSUME UiBlocksInv, NEW blocks \in SUBSET ui_open, TheChat!End(blocks)
  PROVE  /\ DOMAIN ui_client' = ui_open \ blocks
         /\ \A b \in ui_open \ blocks : ui_client'[b] = ui_client[b]
         /\ ui_broken' = ui_broken
  BY DEF UiBlocksInv, TheChat!End

(* What the reading of an event does with it.                              *)
LEMMA UiMapsOK ==
  ASSUME UiInv, TheChat!to_ui_message_chunks
  PROVE  UiInv'
<1>1. /\ ui_events # <<>> /\ ui_events' = Tail(ui_events) /\ UNCHANGED <<ui_parallel, ui_call, ui_lost, ui_settled, ui_over>>
      /\ TheChat!map_chunk(Head(ui_events))
  BY DEF TheChat!to_ui_message_chunks
<1>2. DOMAIN ui_client = ui_open /\ "block" \notin ui_broken /\ UiBlocksInv
  BY DEF UiInv, UiBlocksInv
<1>3. PICK chunk : chunk = Head(ui_events)
  OBVIOUS
<1>4. CASE chunk.kind \in {"text", "reasoning"} /\ TheChat!InBlock(chunk) /\ UNCHANGED ui_tool_names
  <2>1. PICK b : b = TheChat!Block(chunk.kind, chunk.step)
    OBVIOUS
  <2>2. TheChat!Delta(b, b \notin ui_open, chunk.call) /\ ui_open' = ui_open \union {b}
    BY <1>4, <2>1 DEF TheChat!InBlock
  <2>3. /\ ui_client' = [o \in ui_open \union {b} |-> IF o = b THEN chunk.call ELSE ui_client[o]]
        /\ ui_broken' = ui_broken \union (IF b \in ui_open /\ ui_client[b] # chunk.call
                                        THEN {IF UiHasNotFailed(ui_client[b]) THEN "mixed" ELSE "taken_up"} ELSE {})
    BY <1>2, <2>2 DEF TheChat!Delta, UiHasNotFailed
  <2>4. /\ DOMAIN ui_client' = ui_open' /\ "block" \notin ui_broken'
        /\ \A o \in ui_open' : (o \in ui_open /\ ui_client'[o] = ui_client[o]) \/ ui_client'[o] = chunk.call
        /\ "mixed" \in ui_broken' => \/ "mixed" \in ui_broken
                                   \/ \E o \in ui_open : ui_client[o] # chunk.call /\ UiHasNotFailed(ui_client[o])
        /\ "nameless" \in ui_broken' => "nameless" \in ui_broken
    BY <1>2, <2>2, <2>3
  <2>5. QED
    BY <1>1, <1>3, <1>4, <2>4, UiReadsOK
<1>5. CASE chunk.kind = "tool_call_start" /\ ui_tool_names' = ui_tool_names \union {<<chunk.call, chunk.step>>}
             /\ UNCHANGED <<ui_open, ui_client, ui_broken>>
  BY <1>1, <1>2, <1>3, <1>5, UiReadsOK
<1>6. CASE chunk.kind = "tool_call_end" /\ UNCHANGED <<ui_open, ui_client, ui_tool_names>>
             /\ ui_broken' = IF <<chunk.call, chunk.step>> \in ui_tool_names THEN ui_broken ELSE ui_broken \union {"nameless"}
  BY <1>1, <1>2, <1>3, <1>6, UiReadsOK
<1>7. CASE chunk.kind = "tool_result" /\ UNCHANGED <<ui_open, ui_client, ui_broken, ui_tool_names>>
  BY <1>1, <1>2, <1>3, <1>7, UiReadsOK
<1>8. CASE chunk.kind = "step_finish" /\ TheChat!close_step_blocks(chunk.step) /\ UNCHANGED ui_tool_names
  <2>1. PICK mine \in SUBSET ui_open : ui_open' = ui_open \ mine /\ TheChat!End(mine)
    BY <1>8 DEF TheChat!close_step_blocks
  <2>2. DOMAIN ui_client' = ui_open' /\ ui_broken' = ui_broken /\ \A b \in ui_open' : b \in ui_open /\ ui_client'[b] = ui_client[b]
    BY <1>2, <2>1, UiEnded
  <2>3. QED
    BY <1>1, <1>2, <1>3, <1>8, <2>2, UiReadsOK
<1>9. CASE chunk.kind = "finish" /\ TheChat!close_open_blocks /\ UNCHANGED ui_tool_names
  <2>1. ui_open' = {} /\ TheChat!End(ui_open)
    BY <1>9 DEF TheChat!close_open_blocks
  <2>2. DOMAIN ui_client' = {} /\ ui_broken' = ui_broken
    BY <1>2, <2>1, UiEnded
  <2>3. QED
    BY <1>1, <1>2, <1>3, <1>9, <2>1, <2>2, UiReadsOK
<1>10. QED
  BY <1>1, <1>3, <1>4, <1>5, <1>6, <1>7, <1>8, <1>9 DEF TheChat!map_chunk

(* The stream ends once the run has settled and all is read.               *)
LEMMA UiStreamEndsOK ==
  ASSUME UiInv, TheChat!StreamEnds
  PROVE  UiInv'
<1>1. /\ ui_settled # "no" /\ ui_events = <<>> /\ ui_open' = {} /\ ui_over' = TRUE /\ TheChat!End(ui_open)
      /\ UNCHANGED <<ui_parallel, ui_call, ui_events, ui_lost, ui_settled, ui_tool_names>>
  BY DEF TheChat!StreamEnds, TheChat!close_open_blocks
<1>2. DOMAIN ui_client' = {} /\ ui_broken' = ui_broken
  BY <1>1, UiEnded DEF UiInv
<1>3. UiBlocksInv' /\ UiTypes'
  BY <1>1, <1>2 DEF UiInv, UiTypes, UiBlocksInv
<1>4. UiRowInv'
  BY <1>1, <1>2 DEF UiInv, UiRowInv, UiInARow, UiFinishIn, UiHasNotFailed
<1>5. UiNamesInv'
  BY <1>1, <1>2 DEF UiInv, UiNamesInv, UiAllKnown, UiKnown
<1>6. QED
  BY <1>3, <1>4, <1>5 DEF UiInv

(* At the beginning nothing is open, and nothing was recorded.             *)
LEMMA UiInitial == TheChat!Init => UiInv
<1> SUFFICES ASSUME TheChat!Init PROVE UiInv
  OBVIOUS
<1>1. /\ ui_call = [c \in UiCalls |-> TheChat!Idle] /\ ui_events = <<>> /\ ui_open = {} /\ ui_client = <<>> /\ ui_broken = {}
      /\ ui_parallel \in BOOLEAN /\ ui_lost = FALSE /\ ui_over = FALSE
  BY DEF TheChat!Init
<1>2. DOMAIN ui_client = {}
  BY <1>1
<1>3. \A c \in UiCalls : ui_call[c].state = "idle" /\ ui_call[c].tool = "none"
  BY <1>1 DEF TheChat!Idle
<1>4. UiTypes
  <2>1. TheChat!Idle \in UiCall
    BY DEF TheChat!Idle, UiCall
  <2>2. ui_call \in [UiCalls -> UiCall] /\ ui_events \in Seq(UiEvent)
    BY <1>1, <2>1
  <2>3. QED
    BY <1>1, <2>2 DEF UiTypes
<1>5. DOMAIN ui_events = {}
  BY <1>1
<1>6. UiBlocksInv /\ UiRowInv /\ UiNamesInv
  BY <1>1, <1>2, <1>3, <1>5 DEF UiBlocksInv, UiRowInv, UiInARow, UiNamesInv, UiAllKnown
<1>7. QED
  BY <1>4, <1>6 DEF UiInv

(* It is kept by every step. *)
LEMMA UiKeeps == UiInv /\ [TheChat!Next]_(TheChat!vars) => UiInv'
<1> SUFFICES ASSUME UiInv, [TheChat!Next]_(TheChat!vars) PROVE UiInv'
  OBVIOUS
<1>1. CASE TheChat!Run
  <2>2. CASE TheChat!RunSettles
    BY <2>2, UiSettlesOK DEF TheChat!RunSettles
  <2>3. QED
    BY <1>1, <2>2, UiBeginsOK, UiEmitsOK, UiStepFinishesOK, UiToolAnswersOK, UiFinishesOK, UiFailsOK DEF TheChat!Run
<1>2. CASE TheChat!Stream
  BY <1>2, UiMapsOK, UiStreamEndsOK DEF TheChat!Stream
<1>3. CASE UNCHANGED TheChat!vars
  <2>1. UNCHANGED <<ui_parallel, ui_call, ui_events, ui_lost, ui_settled, ui_open, ui_tool_names, ui_client, ui_broken, ui_over>>
    BY <1>3 DEF TheChat!vars
  <2>2. UiTypes' /\ UiBlocksInv'
    BY <2>1 DEF UiInv, UiTypes, UiBlocksInv
  <2>3. UiRowInv' /\ UiNamesInv'
    BY <2>1 DEF UiInv, UiRowInv, UiInARow, UiFinishIn, UiHasNotFailed, UiNamesInv, UiAllKnown, UiKnown
  <2>4. QED
    BY <2>2, <2>3 DEF UiInv
<1>4. QED
  BY <1>1, <1>2, <1>3 DEF TheChat!Next

(* What is sent breaks no rule. *)
LEMMA UiInvTells == UiInv => TheChat!StreamIsWellFormed
  BY DEF UiInv, UiTypes, UiBlocksInv, UiRowInv, UiNamesInv, TheChat!StreamIsWellFormed

(* A chat page is sent a well-formed message: however the calls interleave *)
(* or fail, whatever the channel dropped and however the run ends.         *)
THEOREM ChatPageIsWellFormed == TheChat!Spec => []StreamIsWellFormed
<1>1. TheChat!Init => UiInv
  BY UiInitial
<1>2. UiInv /\ [TheChat!Next]_(TheChat!vars) => UiInv'
  BY UiKeeps
<1>3. UiInv => StreamIsWellFormed
  BY UiInvTells DEF StreamIsWellFormed
<1>4. QED
  BY <1>1, <1>2, <1>3, PTL DEF TheChat!Spec
=============================================================================
