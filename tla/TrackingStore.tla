---------------------------- MODULE TrackingStore ---------------------------
(***************************************************************************)
(* The store of tracking beacons (trackingStore in                         *)
(* endpoints/video_pipeline.go): a fixed ring of compact records, and a    *)
(* map from a record's sequence number to the optional fields a record has *)
(* no room for.  record() runs under the write lock and all() under the    *)
(* read lock, so each is one step.                                         *)
(*                                                                         *)
(* The required fields (auction, bid, bidder, placement, price, time) are  *)
(* one opaque value; CrID and ADomain are one optional value.  A ring that *)
(* is not allocated yet is a ring of zero records: all() returns no event  *)
(* for either.                                                             *)
(***************************************************************************)
EXTENDS Integers, Sequences

CONSTANTS MaxEvents,     \* trackingStoreMaxEvents
          Cores,         \* values of the required fields
          Options,       \* non-empty values of CrID / ADomain
          KnownEvents,   \* event types that have a code of their own
          CustomEvents,  \* any other event type
          Absent,        \* the empty string
          Custom,        \* the code trackingEventCustom
          MaxRecords     \* bound on the number of calls of record()

ASSUME SizeAssumption == MaxEvents \in Nat \ {0} /\ MaxRecords \in Nat
ASSUME ValueAssumption ==
  /\ Absent \notin Options \cup KnownEvents \cup CustomEvents
  /\ Custom \notin KnownEvents
  /\ KnownEvents \cap CustomEvents = {}

VARIABLES ring, extras, pos, full, count

ringVars == <<ring, extras, pos, full, count>>

TrackingEvent ==
  [core : Cores, opt : Options \cup {Absent}, event : KnownEvents \cup CustomEvents]

Slots == 0 .. MaxEvents - 1

ZeroRecord == [seq |-> 0]

\* Mutant of CustomEventOf: the text of a custom event is not kept.
NoCustomEvent(event) == Absent

\* The code kept in the record, and the event type when no code stands for it.
EventCode(event) == IF event \in KnownEvents THEN event ELSE Custom
CustomEventOf(event) == IF event \in KnownEvents THEN Absent ELSE event

\* The event type a code stands for.
EventOfCode(code) == IF code \in KnownEvents THEN code ELSE Absent

RingInit ==
  /\ ring = [i \in Slots |-> ZeroRecord]
  /\ extras = << >>
  /\ pos = 0
  /\ full = FALSE
  /\ count = 0

\* Mutant of DropOverwritten: the extras of the overwritten record stay.
DropNothing == extras

\* The extras left once those of the record about to be overwritten are gone.
DropOverwritten ==
  [s \in DOMAIN extras \ {ring[pos].seq} |-> extras[s]]

\* Whether the position p is past the last slot.
Wraps(p) == p >= MaxEvents

FullAfter(p) == full \/ Wraps(p)

NeedsExtras(ev) == ev.opt # Absent \/ CustomEventOf(ev.event) # Absent

Record(ev) ==
  LET seq == count + 1
      kept == DropOverwritten
  IN  /\ count < MaxRecords
      /\ count' = seq
      /\ ring' = [ring EXCEPT ![pos] =
                    [seq |-> seq, core |-> ev.core, code |-> EventCode(ev.event)]]
      /\ extras' = IF NeedsExtras(ev)
                   THEN [s \in DOMAIN kept \cup {seq} |->
                           IF s = seq
                           THEN [opt |-> ev.opt, custom |-> CustomEventOf(ev.event)]
                           ELSE kept[s]]
                   ELSE kept
      /\ pos' = IF Wraps(pos + 1) THEN 0 ELSE pos + 1
      /\ full' = FullAfter(pos + 1)

RingNext == \E ev \in TrackingEvent : Record(ev)

RingSpec == RingInit /\ [][RingNext]_ringVars
-----------------------------------------------------------------------------
\* expand: the event a record stands for.
Expand(rec) ==
  LET known == rec.seq \in DOMAIN extras
  IN  [core  |-> rec.core,
       opt   |-> IF known THEN extras[rec.seq].opt ELSE Absent,
       event |-> IF known /\ extras[rec.seq].custom # Absent
                 THEN extras[rec.seq].custom ELSE EventOfCode(rec.code)]

\* all: the slots from pos to the end, then those before pos, when full.
Stored == IF full THEN MaxEvents ELSE pos

\* Mutant of SlotOf: the ring is read from its first slot.
SlotFromZero(i) == i - 1

SlotOf(i) ==
  IF ~full THEN i - 1
  ELSE IF i <= MaxEvents - pos THEN pos + i - 1 ELSE i - 1 - (MaxEvents - pos)

All == [i \in 1 .. Stored |-> Expand(ring[SlotOf(i)])]
-----------------------------------------------------------------------------
RingTypeOK ==
  /\ ring \in [Slots -> {ZeroRecord} \cup
                [seq : 1 .. count, core : Cores, code : KnownEvents \cup {Custom}]]
  /\ DOMAIN extras \subseteq 1 .. count
  /\ \A s \in DOMAIN extras :
       extras[s] \in [opt : Options \cup {Absent}, custom : CustomEvents \cup {Absent}]
  /\ pos \in Slots
  /\ full \in BOOLEAN
  /\ count \in Nat

\* No extras outlive their record: record() deletes the extras of the record it
\* overwrites, so the map holds the optional fields of records still in the ring
\* and of no other (otherwise it would grow for as long as the process runs).
ExtrasOfLiveRecords ==
  \A s \in DOMAIN extras : \E i \in Slots : ring[i].seq = s

\* The sequence number the slot i must hold: numbers grow by one from the oldest
\* record, at pos when the ring is full, to the newest, just before pos.
SeqAt(i) ==
  IF i < pos THEN count - pos + i + 1
  ELSE IF full THEN count - pos + i + 1 - MaxEvents ELSE 0

\* The ring is in recording order with no gap: `full`, `pos` and `count` agree,
\* and every slot holds the record its position says (what all() relies on when
\* it concatenates the two halves of the ring).
RingOrder ==
  /\ IF full THEN count >= MaxEvents ELSE count = pos
  /\ \A i \in Slots : ring[i].seq = SeqAt(i)

\* all() returns the last MaxEvents events that record() was given, oldest
\* first, with their optional fields and custom event types restored, whatever
\* the position of the ring and however many times it has wrapped.
BL == INSTANCE BoundedLog WITH Events <- TrackingEvent, Capacity <- MaxEvents, log <- All

ImplementsBoundedLog == BL!Spec
=============================================================================
