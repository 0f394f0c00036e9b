------------------------- MODULE VideoPipelineProofs ------------------------
(***************************************************************************)
(* Proofs about four parts of the video pipeline, each for every value of  *)
(* its constants: the ring of tracking events, the choice among the bids   *)
(* of a response, the statistics and their file, and the demand sources of *)
(* a request.                                                              *)
(***************************************************************************)
EXTENDS MCVideoPipeline, FiniteSets, TLAPS

-----------------------------------------------------------------------------
(* The tracking store keeps its ring in order, keeps no optional fields of *)
(* overwritten records, and implements BoundedLog.                         *)

RingInv == RingTypeOK /\ RingOrder /\ ExtrasOfLiveRecords

\* The empty store satisfies the invariant.
LEMMA InitRing == RingInit => RingInv
<1> SUFFICES ASSUME RingInit PROVE RingInv
  OBVIOUS
<1>1. RingTypeOK
  BY SizeAssumption DEF RingInit, RingTypeOK, Slots, ZeroRecord
<1>2. RingOrder
  BY SizeAssumption DEF RingInit, RingOrder, SeqAt, Slots, ZeroRecord
<1>3. ExtrasOfLiveRecords
  BY DEF RingInit, ExtrasOfLiveRecords
<1> QED
  BY Zenon, <1>1, <1>2, <1>3 DEF RingInv

\* record() keeps the types.
LEMMA RecordTypeOK ==
  ASSUME RingTypeOK, NEW ev \in TrackingEvent, Record(ev)
  PROVE  RingTypeOK'
<1> USE SizeAssumption DEF RingTypeOK, Record
<1>1. pos' \in Slots /\ full' \in BOOLEAN /\ count' \in Nat /\ count' = count + 1
  BY DEF Slots, Wraps, FullAfter
<1>2. ring' \in [Slots -> {ZeroRecord} \cup
                 [seq : 1 .. count', core : Cores, code : KnownEvents \cup {Custom}]]
  <2> DEFINE rec == [seq |-> count + 1, core |-> ev.core, code |-> EventCode(ev.event)]
  <2>1. rec \in [seq : 1 .. count', core : Cores, code : KnownEvents \cup {Custom}]
    BY <1>1 DEF EventCode, TrackingEvent
  <2>2. \A i \in Slots : ring[i] \in {ZeroRecord} \cup
                 [seq : 1 .. count', core : Cores, code : KnownEvents \cup {Custom}]
    BY <1>1
  <2>3. ring' = [ring EXCEPT ![pos] = rec]
    OBVIOUS
  <2> QED
    BY Zenon, <2>1, <2>2, <2>3
<1>3. /\ DOMAIN extras' \subseteq 1 .. count'
      /\ \A s \in DOMAIN extras' :
            extras'[s] \in [opt : Options \cup {Absent}, custom : CustomEvents \cup {Absent}]
  BY <1>1 DEF DropOverwritten, CustomEventOf, TrackingEvent
<1> QED
  BY Zenon, <1>1, <1>2, <1>3

\* record() keeps the ring in order.
LEMMA RecordRingOrder ==
  ASSUME RingTypeOK, RingOrder, NEW ev \in TrackingEvent, Record(ev)
  PROVE  RingOrder'
<1>1. ring'[pos].seq = count + 1 /\ \A i \in Slots : i # pos => ring'[i] = ring[i]
  BY DEF RingTypeOK, Record
<1>2. /\ pos \in 0 .. MaxEvents - 1 /\ count \in Nat /\ count' = count + 1
      /\ Slots = 0 .. MaxEvents - 1
      /\ IF full THEN count >= MaxEvents ELSE count = pos
      /\ \A i \in Slots : ring[i].seq = IF i < pos THEN count - pos + i + 1
                        ELSE IF full THEN count - pos + i + 1 - MaxEvents ELSE 0
  BY Zenon DEF RingTypeOK, RingOrder, SeqAt, Record, Slots
<1>3. CASE pos + 1 >= MaxEvents
  <2>1. full' /\ pos' = 0
    BY Zenon, <1>3 DEF Record, Wraps, FullAfter
  <2>2. count' >= MaxEvents
    BY <1>2, <1>3, SizeAssumption
  <2>3. ASSUME NEW i \in Slots PROVE ring'[i].seq = count' + i + 1 - MaxEvents
    <3>1. CASE i = pos
      BY <3>1, <1>1, <1>2, <1>3, SizeAssumption
    <3>2. CASE i # pos
      <4>1. ring'[i].seq = ring[i].seq /\ i < pos
        BY <3>2, <1>1, <1>2, <1>3, SizeAssumption
      <4>2. ring[i].seq = count - pos + i + 1
        BY <4>1, <1>2
      <4>3. pos = MaxEvents - 1 /\ i \in Int /\ count \in Nat /\ count' = count + 1 /\ MaxEvents \in Int
        BY <1>2, <1>3, SizeAssumption
      <4> QED
        BY <4>1, <4>2, <4>3
    <3> QED
      BY <3>1, <3>2
  <2> QED
    BY <1>2, <2>1, <2>2, <2>3 DEF RingOrder, SeqAt
<1>4. CASE ~(pos + 1 >= MaxEvents)
  <2>1. pos' = pos + 1 /\ (full' <=> full)
    BY Zenon, <1>4, <1>2 DEF Record, Wraps, FullAfter
  <2>2. IF full THEN count' >= MaxEvents ELSE count' = pos'
    BY <1>2, <2>1, SizeAssumption
  <2>3. \A i \in Slots : ring'[i].seq = IF i < pos' THEN count' - pos' + i + 1
                         ELSE IF full THEN count' - pos' + i + 1 - MaxEvents ELSE 0
    <3> SUFFICES ASSUME NEW i \in Slots
                 PROVE  ring'[i].seq = IF i < pos' THEN count' - pos' + i + 1
                         ELSE IF full THEN count' - pos' + i + 1 - MaxEvents ELSE 0
      OBVIOUS
    <3>1. CASE i = pos
      BY <3>1, <1>1, <1>2, <2>1, SizeAssumption
    <3>2. CASE i # pos
      <4>1. ring'[i].seq = ring[i].seq /\ (i < pos' <=> i < pos)
        BY <3>2, <1>1, <1>2, <2>1, SizeAssumption
      <4> QED
        BY <4>1, <1>2, <2>1, SizeAssumption
    <3> QED
      BY <3>1, <3>2
  <2> QED
    BY <2>1, <2>2, <2>3 DEF RingOrder, SeqAt
<1> QED
  BY <1>3, <1>4

\* record() deletes the extras of the record it overwrites.
LEMMA RecordExtras ==
  ASSUME RingTypeOK, ExtrasOfLiveRecords, NEW ev \in TrackingEvent, Record(ev)
  PROVE  ExtrasOfLiveRecords'
<1>1. /\ pos \in Slots
      /\ ring'[pos].seq = count + 1
      /\ \A i \in Slots : i # pos => ring'[i] = ring[i]
  BY Zenon DEF RingTypeOK, Record
<1>2. DOMAIN extras' \subseteq (DOMAIN extras \ {ring[pos].seq}) \cup {count + 1}
  BY Zenon DEF Record, DropOverwritten
<1> QED
  BY <1>1, <1>2 DEF ExtrasOfLiveRecords

\* Storing an event keeps the order of the ring (record).
LEMMA NextRing == RingInv /\ [RingNext]_ringVars => RingInv'
<1> SUFFICES ASSUME RingInv, [RingNext]_ringVars PROVE RingInv'
  OBVIOUS
<1>1. ASSUME NEW ev \in TrackingEvent, Record(ev) PROVE RingInv'
  BY <1>1, RecordTypeOK, RecordRingOrder, RecordExtras DEF RingInv
<1>2. CASE UNCHANGED ringVars
  BY Zenon, <1>2 DEF ringVars, RingInv, RingTypeOK, RingOrder, SeqAt, ExtrasOfLiveRecords
<1> QED
  BY <1>1, <1>2 DEF RingNext

\* The ring is always in recording order.
THEOREM RingOrderHolds == RingSpec => []RingOrder
<1>1. RingInv => RingOrder
  BY DEF RingInv
<1> QED
  BY InitRing, NextRing, <1>1, PTL DEF RingSpec

\* The map of optional fields never holds those of a record that is gone.
THEOREM ExtrasOfLiveRecordsHolds == RingSpec => []ExtrasOfLiveRecords
<1>1. RingInv => ExtrasOfLiveRecords
  BY DEF RingInv
<1> QED
  BY InitRing, NextRing, <1>1, PTL DEF RingSpec

\* Every value the store holds has its type.
THEOREM RingTypeCorrect == RingSpec => []RingTypeOK
<1>1. RingInv => RingTypeOK
  BY DEF RingInv
<1> QED
  BY InitRing, NextRing, <1>1, PTL DEF RingSpec
-----------------------------------------------------------------------------
\* all() returns a sequence of Stored events.
LEMMA AllIsSeq ==
  ASSUME RingInv
  PROVE  Stored \in 0 .. MaxEvents /\ Len(All) = Stored /\ DOMAIN All = 1 .. Stored
<1>1. Stored \in 0 .. MaxEvents
  BY SizeAssumption DEF RingInv, RingTypeOK, Slots, Stored
<1> QED
  BY <1>1 DEF All

\* The slots of records still in the ring hold full records with distinct
\* sequence numbers that the next call of record() cannot reuse.
LEMMA LiveSlots ==
  ASSUME RingInv, NEW i \in 1 .. Stored
  PROVE  /\ SlotOf(i) \in Slots
         /\ ring[SlotOf(i)].seq \in 1 .. count
         /\ ring[SlotOf(i)] \in [seq : 1 .. count, core : Cores, code : KnownEvents \cup {Custom}]
<1>1. /\ SlotOf(i) \in Slots
      /\ SeqAt(SlotOf(i)) \in 1 .. count
  BY SizeAssumption DEF RingInv, RingTypeOK, RingOrder, Slots, Stored, SlotOf, SeqAt
<1>2. ring[SlotOf(i)].seq \in 1 .. count
  BY <1>1 DEF RingInv, RingOrder
<1>3. ring[SlotOf(i)] # ZeroRecord
  BY <1>2 DEF ZeroRecord, RingInv, RingTypeOK
<1> QED
  BY Zenon, <1>1, <1>2, <1>3 DEF RingInv, RingTypeOK

\* How a call of record() moves the position and the flag.
LEMMA StepShape ==
  ASSUME RingInv, NEW ev \in TrackingEvent, Record(ev)
  PROVE  /\ pos \in 0 .. MaxEvents - 1
         /\ pos' = IF pos + 1 >= MaxEvents THEN 0 ELSE pos + 1
         /\ full' <=> (full \/ pos + 1 >= MaxEvents)
         /\ MaxEvents \in Nat \ {0}
<1>1. pos \in 0 .. MaxEvents - 1 /\ MaxEvents \in Nat \ {0}
  BY SizeAssumption DEF RingInv, RingTypeOK, Slots
<1>2. pos' = (IF pos + 1 >= MaxEvents THEN 0 ELSE pos + 1)
  BY DEF Record, Wraps
<1>3. full' <=> (full \/ pos + 1 >= MaxEvents)
  BY Zenon DEF Record, Wraps, FullAfter
<1> QED
  BY <1>1, <1>2, <1>3

\* A record that is not overwritten expands to the same event after the step.
LEMMA ExpandKept ==
  ASSUME RingInv, NEW ev \in TrackingEvent, Record(ev),
         NEW j \in Slots, j # pos, ring[j].seq \in 1 .. count
  PROVE  Expand(ring[j])' = Expand(ring[j])
<1>1. ring'[j] = ring[j]
  BY Zenon DEF RingInv, RingTypeOK, Record
<1>2. ring[j].seq # count + 1
  BY DEF RingInv, RingTypeOK
<1>3. ring[j].seq # ring[pos].seq
  <2>1. /\ pos \in 0 .. MaxEvents - 1 /\ j \in 0 .. MaxEvents - 1
        /\ count \in Nat /\ MaxEvents \in Nat
        /\ ring[j].seq = SeqAt(j) /\ ring[pos].seq = SeqAt(pos)
    BY Zenon, SizeAssumption DEF RingInv, RingTypeOK, RingOrder, Slots
  <2>2. SeqAt(j) \in 1 .. count
    BY <2>1
  <2>3. CASE full
    BY <2>1, <2>3 DEF SeqAt
  <2>4. CASE ~full
    BY <2>1, <2>2, <2>4 DEF SeqAt
  <2> QED
    BY <2>3, <2>4
<1>4. /\ ring[j].seq \in DOMAIN extras' <=> ring[j].seq \in DOMAIN extras
      /\ ring[j].seq \in DOMAIN extras => extras'[ring[j].seq] = extras[ring[j].seq]
  BY Zenon, <1>2, <1>3 DEF Record, DropOverwritten
<1> QED
  BY Zenon, <1>1, <1>4 DEF Expand

\* The record written by the step expands to the event it was given.
LEMMA ExpandNew ==
  ASSUME RingInv, NEW ev \in TrackingEvent, Record(ev), NEW j, j = pos
  PROVE  Expand(ring[j])' = ev
<1> DEFINE seq == count + 1
<1>1. /\ ring'[j] = [seq |-> seq, core |-> ev.core, code |-> EventCode(ev.event)]
      /\ ring'[j].seq = seq /\ ring'[j].core = ev.core
      /\ ring'[j].code = EventCode(ev.event)
  BY Zenon DEF RingInv, RingTypeOK, Record
<1>2. seq \notin DOMAIN DropOverwritten
  BY DEF RingInv, RingTypeOK, DropOverwritten
<1>3. /\ ev = [core |-> ev.core, opt |-> ev.opt, event |-> ev.event]
      /\ ev.event \in KnownEvents \cup CustomEvents
  BY DEF TrackingEvent
<1>4. CASE NeedsExtras(ev)
  <2>1. seq \in DOMAIN extras' /\ extras'[seq].opt = ev.opt
        /\ extras'[seq].custom = CustomEventOf(ev.event)
    BY Zenon, <1>4 DEF Record, DropOverwritten
  <2> HIDE DEF seq
  <2> QED
    BY Zenon, <1>1, <1>3, <2>1, ValueAssumption DEF Expand, EventCode, EventOfCode, CustomEventOf
<1>5. CASE ~NeedsExtras(ev)
  <2>1. seq \notin DOMAIN extras'
    BY Zenon, <1>2, <1>5 DEF Record
  <2>2. ev.opt = Absent /\ ev.event \in KnownEvents
    BY <1>3, <1>5, ValueAssumption DEF NeedsExtras, CustomEventOf
  <2> HIDE DEF seq
  <2> QED
    BY Zenon, <1>1, <1>3, <2>1, <2>2 DEF Expand, EventCode, EventOfCode
<1> QED
  BY <1>4, <1>5

\* A call of record() is the step of BoundedLog that adds the same event.
LEMMA RecordIsAdd ==
  ASSUME RingInv, RingInv', NEW ev \in TrackingEvent, Record(ev)
  PROVE  All' = BL!Remember(All, ev)
<1> DEFINE drop == IF full THEN 1 ELSE 0
<1>1. /\ Stored \in 0 .. MaxEvents /\ Len(All) = Stored
      /\ (Len(All) < MaxEvents <=> ~full)
  BY AllIsSeq, SizeAssumption DEF RingInv, RingTypeOK, Slots, Stored
<1>2. Stored' = Stored + 1 - drop
  BY StepShape DEF Stored
<1>3. BL!Remember(All, ev) =
        [i \in 1 .. Stored' |-> IF i + drop <= Stored THEN All[i + drop] ELSE ev]
  BY <1>1, <1>2 DEF BL!Remember
<1>4. ASSUME NEW i \in 1 .. Stored'
      PROVE  Expand(ring[SlotOf(i)])' = IF i + drop <= Stored THEN All[i + drop] ELSE ev
  <2>1. CASE i + drop <= Stored
    <3>1. i + drop \in 1 .. Stored /\ SlotOf(i)' = SlotOf(i + drop) /\ SlotOf(i + drop) # pos
      <4>1. CASE full
        BY <4>1, <2>1, <1>2, StepShape DEF Stored, SlotOf
      <4>2. CASE ~full
        BY <4>2, <2>1, <1>2, StepShape DEF Stored, SlotOf
      <4> QED
        BY <4>1, <4>2
    <3>2. PICK k \in Slots : k = SlotOf(i + drop) /\ ring[k].seq \in 1 .. count
      BY Zenon, <3>1, LiveSlots
    <3>3. Expand(ring[k])' = Expand(ring[k])
      BY Zenon, <3>1, <3>2, ExpandKept
    <3>4. Expand(ring[SlotOf(i)])' = Expand(ring[k])'
      BY Zenon, <3>1, <3>2 DEF Expand
    <3> QED
      BY Zenon, <2>1, <3>1, <3>2, <3>3, <3>4 DEF All
  <2>2. CASE ~(i + drop <= Stored)
    <3>1. SlotOf(i)' = pos
      <4>1. CASE full
        BY <4>1, <2>2, <1>2, StepShape DEF Stored, SlotOf
      <4>2. CASE ~full
        BY <4>2, <2>2, <1>2, StepShape DEF Stored, SlotOf
      <4> QED
        BY <4>1, <4>2
    <3>2. PICK k : k = pos
      OBVIOUS
    <3>3. Expand(ring[k])' = ev
      BY <3>2, ExpandNew
    <3>4. Expand(ring[SlotOf(i)])' = Expand(ring[k])'
      BY Zenon, <3>1, <3>2 DEF Expand
    <3> QED
      BY <2>2, <3>3, <3>4
  <2> QED
    BY <2>1, <2>2
<1>5. All' = [i \in 1 .. Stored' |-> Expand(ring[SlotOf(i)])']
  BY DEF All
<1> QED
  BY <1>3, <1>4, <1>5

\* all() always returns the last MaxEvents recorded events, oldest first and
\* unchanged: the store implements BoundedLog.
THEOREM StoreImplementsBoundedLog == RingSpec => ImplementsBoundedLog
<1>1. RingInit => BL!Init
  BY DEF RingInit, BL!Init, All, Stored
<1>2. RingInv /\ RingInv' /\ [RingNext]_ringVars => [BL!Next]_All
  <2> SUFFICES ASSUME RingInv, RingInv', [RingNext]_ringVars PROVE [BL!Next]_All
    OBVIOUS
  <2>1. ASSUME NEW ev \in TrackingEvent, Record(ev) PROVE BL!Next
    BY <2>1, RecordIsAdd DEF BL!Next, BL!Add
  <2>2. CASE UNCHANGED ringVars
    BY <2>2 DEF ringVars, All, Stored, SlotOf, Expand
  <2> QED
    BY <2>1, <2>2 DEF RingNext
<1> QED
  BY <1>1, <1>2, InitRing, NextRing, PTL DEF RingSpec, BL!Spec, ImplementsBoundedLog

-----------------------------------------------------------------------------
(* extractWinningBid picks the right bid, whatever the bids and the floor. *)

\* Prices, weights and floors are numbers.
LEMMA BidTyped ==
  ASSUME SelectionTypeOK, NEW i \in 1 .. Len(bids)
  PROVE  bids[i].price \in Nat /\ bids[i].weight \in Nat /\ floor \in Nat
  <1>1. bids[i] \in Bid
    BY DEF SelectionTypeOK
  <1>2. bids[i].price \in BidPrices /\ bids[i].weight \in Weights
    BY <1>1 DEF Bid
  <1> QED
    BY Zenon, <1>2, BidAssumption DEF SelectionTypeOK

\* A bid the code accepts is a bid that may win: "no floor" is a floor of zero.
LEMMA EligibleMayWin ==
  ASSUME SelectionTypeOK, NEW i \in 1 .. Len(bids)
  PROVE  Eligible(i) <=> MayWin(i)
  <1>1. ~(floor > 0 /\ bids[i].price < floor) <=> bids[i].price >= floor
    BY BidTyped
  <1> QED
    BY <1>1 DEF Eligible, MayWin

\* bidBetter decides the preference the tie-break rules describe.
LEMMA BetterBeats ==
  ASSUME SelectionTypeOK, NEW i \in 1 .. Len(bids), NEW j \in 1 .. Len(bids)
  PROVE  BidBetter(i, j) <=> Beats(i, j)
  <1>1. /\ bids[i].price \in Nat /\ bids[j].price \in Nat
        /\ bids[i].weight \in Nat /\ bids[j].weight \in Nat
    BY Zenon, BidTyped
  <1> QED
    BY <1>1 DEF BidBetter, Beats

\* The preference is transitive and decides between any two bids: a strict total
\* order, so that the winner exists and is unique.
THEOREM BeatsIsStrictOrder ==
  ASSUME SelectionTypeOK, NEW i \in 1 .. Len(bids), NEW j \in 1 .. Len(bids), NEW k \in 1 .. Len(bids)
  PROVE  /\ ~Beats(i, i)
         /\ i # j => Beats(i, j) \/ Beats(j, i)
         /\ Beats(i, j) /\ Beats(j, k) => Beats(i, k)
  <1>1. /\ bids[i].price \in Nat /\ bids[j].price \in Nat /\ bids[k].price \in Nat
        /\ bids[i].weight \in Nat /\ bids[j].weight \in Nat /\ bids[k].weight \in Nat
    BY Zenon, BidTyped
  <1>2. ~Beats(i, i) /\ (i # j => Beats(i, j) \/ Beats(j, i))
    <2>1. ~Beats(i, i)
      BY <1>1 DEF Beats
    <2>2. CASE bids[i].price # bids[j].price
      BY <1>1, <2>1, <2>2 DEF Beats
    <2>3. CASE bids[i].price = bids[j].price /\ bids[i].weight # bids[j].weight
      BY <1>1, <2>1, <2>3 DEF Beats
    <2>4. CASE bids[i].price = bids[j].price /\ bids[i].weight = bids[j].weight
      <3>1. i # j => i < j \/ j < i
        OBVIOUS
      <3> QED
        BY Zenon, <2>1, <2>4, <3>1 DEF Beats
    <2> QED
      BY Zenon, <2>1, <2>2, <2>3, <2>4
  <1>3. ASSUME Beats(i, j), Beats(j, k) PROVE Beats(i, k)
    <2>1. bids[i].price >= bids[j].price /\ bids[j].price >= bids[k].price
      BY <1>1, <1>3 DEF Beats
    <2>2. CASE bids[i].price > bids[k].price
      BY Zenon, <2>2 DEF Beats
    <2>3. CASE bids[i].price = bids[k].price
      <3>1. bids[i].price = bids[j].price /\ bids[j].price = bids[k].price
        BY <1>1, <2>1, <2>3
      <3> QED
        BY <1>1, <1>3, <3>1 DEF Beats
    <2> QED
      BY <1>1, <2>1, <2>2, <2>3
  <1> QED
    BY <1>2, <1>3

\* Before the first bid there is no winner (extractWinningBid).
LEMMA InitBest == SelectionInit => SelectionTypeOK /\ BestSoFar
  <1> SUFFICES ASSUME SelectionInit PROVE SelectionTypeOK /\ BestSoFar
    OBVIOUS
  <1>1. bids \in Seq(Bid)
    <2>1. PICK len \in 0 .. MaxBids : bids \in [1 .. len -> Bid]
      BY DEF SelectionInit
    <2> QED
      BY <2>1, BidAssumption
  <1> QED
    BY <1>1 DEF SelectionInit, SelectionTypeOK, BestSoFar

\* Looking at a bid keeps the types.
LEMMA LookType == SelectionTypeOK /\ Look => SelectionTypeOK'
  BY DEF SelectionTypeOK, Look

\* One step of the pass keeps the best bid, by the order of the preference.
LEMMA LookBest == SelectionTypeOK /\ BestSoFar /\ Look => BestSoFar'
  <1> SUFFICES ASSUME SelectionTypeOK, BestSoFar, Look PROVE BestSoFar'
    OBVIOUS
  <1> DEFINE next == seen + 1
  <1>1. /\ next \in 1 .. Len(bids) /\ seen' = next /\ UNCHANGED <<bids, floor>>
        /\ winner \in 0 .. seen /\ seen \in Nat /\ \A i \in 1 .. next : i \in 1 .. Len(bids)
        /\ \A i \in 1 .. next : i \in 1 .. seen \/ i = next
    BY DEF SelectionTypeOK, Look
  <1>2. \A i, j : MayWin(i)' = MayWin(i) /\ Beats(i, j)' = Beats(i, j)
    BY ZenonT(30), <1>1 DEF MayWin, Beats
  <1>3. Eligible(next) <=> MayWin(next)
    BY <1>1, EligibleMayWin
  <1>4. CASE MayWin(next) /\ winner = 0
    <2>1. winner' = next
      BY <1>3, <1>4 DEF Look
    <2> QED
      BY <1>1, <1>2, <1>4, <2>1 DEF BestSoFar
  <1>5. CASE MayWin(next) /\ winner # 0 /\ BidBetter(next, winner)
    <2>1. winner' = next /\ winner \in 1 .. Len(bids) /\ Beats(next, winner)
      BY <1>1, <1>3, <1>5, BetterBeats DEF Look
    <2>2. \A i \in 1 .. seen : MayWin(i) => Beats(next, i)
      BY <1>1, <1>5, <2>1, BeatsIsStrictOrder DEF BestSoFar
    <2> QED
      BY <1>1, <1>2, <1>5, <2>1, <2>2 DEF BestSoFar
  <1>6. CASE MayWin(next) /\ winner # 0 /\ ~BidBetter(next, winner)
    <2>1. winner' = winner /\ winner \in 1 .. Len(bids) /\ Beats(winner, next)
      BY <1>1, <1>6, BetterBeats, BeatsIsStrictOrder DEF Look
    <2> QED
      BY Zenon, <1>1, <1>2, <1>6, <2>1 DEF BestSoFar
  <1>7. CASE ~MayWin(next)
    <2>1. winner' = winner
      BY <1>3, <1>7 DEF Look
    <2> QED
      BY <1>1, <1>2, <1>7, <2>1 DEF BestSoFar
  <1> QED
    BY <1>4, <1>5, <1>6, <1>7

\* Every step of the pass keeps the best bid so far.
LEMMA NextBest == SelectionTypeOK /\ BestSoFar /\ [SelectionNext]_selectionVars => (SelectionTypeOK /\ BestSoFar)'
  <1> SUFFICES ASSUME SelectionTypeOK, BestSoFar, [SelectionNext]_selectionVars PROVE (SelectionTypeOK /\ BestSoFar)'
    OBVIOUS
  <1>1. CASE UNCHANGED selectionVars
    BY Zenon, <1>1 DEF selectionVars, SelectionTypeOK, BestSoFar, MayWin, Beats
  <1>2. CASE Look
    BY <1>2, LookType, LookBest
  <1> QED
    BY <1>1, <1>2 DEF SelectionNext

\* The pass of extractWinningBid is correct for every response: its winner has a
\* creative, reaches the floor and beats every other such bid.
THEOREM BestSoFarHolds == SelectionSpec => []BestSoFar
  BY InitBest, NextBest, PTL DEF SelectionSpec

\* The winner is only replaced by a bid that beats it.
THEOREM OnlyImprovesHolds == SelectionSpec => OnlyImproves
  <1>1. SelectionTypeOK /\ [SelectionNext]_selectionVars => [winner # 0 => winner' # 0 /\ (winner' = winner \/ Beats(winner', winner))]_selectionVars
    <2> SUFFICES ASSUME SelectionTypeOK, Look, winner # 0
                 PROVE  winner' # 0 /\ (winner' = winner \/ Beats(winner', winner))
      BY DEF SelectionNext
    <2>1. CASE winner' = winner
      BY <2>1
    <2>2. CASE winner' # winner
      <3>1. winner' = seen + 1 /\ BidBetter(seen + 1, winner) /\ winner \in 1 .. Len(bids)
            /\ seen + 1 \in 1 .. Len(bids)
        BY <2>2 DEF Look, SelectionTypeOK
      <3> QED
        BY <3>1, BetterBeats
    <2> QED
      BY <2>1, <2>2
  <1> QED
    BY <1>1, InitBest, NextBest, PTL DEF SelectionSpec, OnlyImproves

-----------------------------------------------------------------------------
(* The statistics and their file, for any number of increments, resets,    *)
(* failures and crashes.                                                   *)

\* What the save under way has put into the temporary file, unless a reset has
\* removed it: nothing complete before the write ends, then the copy.
TmpFollows ==
  /\ saver \in {"writing", "writing final"} => tmp \in {Missing, Partial}
  /\ saver \in {"written", "written final"} => tmp \in {Missing, snap}

\* While the process runs, the file and the copy hold nothing that is neither in
\* memory nor cleared by a reset.
Accounted ==
  /\ Running => snap \subseteq cleared \cup clearing \cup mem
  /\ Running /\ disk # Missing => disk \subseteq cleared \cup clearing \cup mem
  /\ resetter = "idle" => clearing = {}
  /\ up = "down" => saver = "idle" /\ resetter = "idle" /\ snap = {}

StatsTyped ==
  /\ incs \in 0 .. MaxIncs
  /\ mem \in Counters /\ snap \in Counters /\ disk \in Counters \cup {Missing}
  /\ up \in {"up", "closing", "down"}
  /\ saver \in {"idle", "snapped", "final", "writing", "writing final", "written",
                "written final", "stopped"}
  /\ resetter \in {"idle", "cleared", "removed"}

StatsInv == StatsTyped /\ TmpFollows /\ Accounted

\* The first start finds no file (newVideoStatsStore).
LEMMA InitStats == StatsInit => StatsInv
  BY StatsAssumption
  DEF StatsInit, StatsInv, StatsTyped, TmpFollows, Accounted, Counters, Running

\* A new increment has a number of its own (incRequestBatch, incFillBatch, ...).
LEMMA IncCounts ==
  ASSUME StatsTyped, Inc
  PROVE  incs' \in 0 .. MaxIncs /\ mem' \in SUBSET (1 .. MaxIncs) /\ mem \subseteq mem'
  <1>1. MaxIncs \in Nat
    BY StatsAssumption
  <1>2. incs \in 0 .. MaxIncs /\ incs < MaxIncs /\ mem \in SUBSET (1 .. MaxIncs)
    BY Zenon DEF StatsTyped, Inc, Counters
  <1>3. incs + 1 \in 1 .. MaxIncs /\ incs + 1 \in 0 .. MaxIncs
    BY <1>1, <1>2
  <1> QED
    BY <1>2, <1>3 DEF Inc

\* Increments, saves, resets, crashes and restarts keep the invariant: a restart
\* begins with what the file holds, and a save never publishes a file that is
\* not its copy (inc..., save, reset, load).
LEMMA NextStats == StatsInv /\ [StatsNext]_statsVars => StatsInv'
  <1> SUFFICES ASSUME StatsInv, [StatsNext]_statsVars PROVE StatsInv'
    OBVIOUS
  <1> USE StatsAssumption DEF StatsInv, StatsTyped, TmpFollows, Accounted, Counters, Running
  <1>1. CASE Inc
    <2>1. incs' \in 0 .. MaxIncs /\ mem' \in SUBSET (1 .. MaxIncs) /\ mem \subseteq mem'
      BY Zenon, <1>1, IncCounts
    <2>2. UNCHANGED <<tmp, disk, saver, snap, resetter, clearing, up, cleared>>
      BY Zenon, <1>1 DEF Inc
    <2> QED
      BY ZenonT(30), <2>1, <2>2
  <1>2. CASE Tick
    BY Zenon, <1>2 DEF Tick
  <1>3. CASE WriteBegin
    <2>1. saver \in {"snapped", "final"} /\ saver' = Writing[saver]
      BY Zenon, <1>3 DEF WriteBegin, Writing
    <2>2. saver' \in {"writing", "writing final"}
      BY Zenon, <2>1 DEF Writing
    <2> QED
      BY Zenon, <1>3, <2>1, <2>2 DEF WriteBegin
  <1>4. CASE WriteEnd
    BY Zenon, <1>4 DEF WriteEnd, Written
  <1>5. CASE Rename
    BY Zenon, <1>5 DEF Rename
  <1>6. CASE SaveFails
    BY Zenon, <1>6 DEF SaveFails
  <1>7. CASE ResetClear
    BY Zenon, <1>7 DEF ResetClear
  <1>8. CASE ResetRemoveFile
    BY Zenon, <1>8 DEF ResetRemoveFile
  <1>9. CASE ResetRemoveTmp
    BY Zenon, <1>9 DEF ResetRemoveTmp
  <1>10. CASE Shutdown
    BY Zenon, <1>10 DEF Shutdown
  <1>11. CASE Crash \/ Exit
    BY Zenon, <1>11 DEF Crash, Exit, Stop
  <1>12. CASE Restart
    BY Zenon, <1>12 DEF Restart, Loaded
  <1>13. CASE UNCHANGED statsVars
    BY ZenonT(30), <1>13 DEF statsVars
  <1> QED
    BY Zenon, <1>1, <1>2, <1>3, <1>4, <1>5, <1>6, <1>7, <1>8, <1>9, <1>10, <1>11, <1>12, <1>13
    DEF StatsNext, SaverStep, ResetStep

\* Only a rename and the reset change the file, and neither loses an increment
\* that no reset has cleared (save, reset).
LEMMA DurableStep ==
  ASSUME StatsInv, [StatsNext]_statsVars, disk' # disk
  PROVE  /\ disk' # Partial
         /\ disk # Missing =>
              disk \subseteq cleared' \cup clearing' \cup mem'
                               \cup (IF disk' = Missing THEN {} ELSE disk')
  <1> USE StatsAssumption DEF StatsInv, StatsTyped, TmpFollows, Accounted, Counters, Running
  <1>1. CASE Rename
    BY Zenon, <1>1 DEF Rename
  <1>2. CASE ResetRemoveFile
    BY Zenon, <1>2 DEF ResetRemoveFile
  <1> QED
    BY Zenon, <1>1, <1>2
    DEF StatsNext, statsVars, SaverStep, ResetStep, Inc, Tick, WriteBegin, WriteEnd, SaveFails,
        ResetClear, ResetRemoveTmp, Shutdown, Crash, Exit, Stop, Restart

\* An increment that was saved stays in the file until a reset clears it, across
\* every crash and restart, and the file can always be read (save, load).
THEOREM DurableUntilResetHolds == StatsSpec => DurableUntilReset
  <1>1. StatsSpec => []StatsInv
    BY InitStats, NextStats, PTL DEF StatsSpec
  <1>2. StatsInv /\ [StatsNext]_statsVars =>
          [/\ disk' # Partial
           /\ disk # Missing =>
                disk \subseteq cleared' \cup clearing' \cup mem'
                                 \cup (IF disk' = Missing THEN {} ELSE disk')]_disk
    BY DurableStep
  <1> QED
    BY <1>1, <1>2, PTL DEF StatsSpec, DurableUntilReset

-----------------------------------------------------------------------------
(* The demand waterfall, for every number of sources and every order of    *)
(* their answers.                                                          *)

Sent == {s \in Sources : pc[s] = "sent"}

\* The result the source s has sent.
Result(s) == ResultOf(s, answer[s])

\* Every result in the channel is the result of a source that has sent it.
Genuine(r) == r.src \in Sent /\ r = Result(r.src)

\* The sources of this request are the first n.
Present == \A s \in Sources : pc[s] = "absent" <=> s > n

Waiting(s) == \E i \in 1 .. Len(ch) : ch[i] = Result(s)

\* The strengthening BestFillServed needs: every fill that was sent is still in
\* the channel or has been compared with the best one, and the collector has
\* received exactly the results that are no longer in the channel.
WInv ==
  /\ TypeOK /\ Present
  /\ \A s \in Sent : answer[s] \in Answers(s)
  /\ \A i \in 1 .. Len(ch) : Genuine(ch[i])
  /\ got + Len(ch) = Cardinality(Sent)
  /\ n > 1 =>
       /\ best # None => Genuine(best) /\ Counts(best)
       /\ \A s \in Sent : Counts(Result(s)) =>
            Waiting(s) \/ (best # None /\ Result(s).price <= best.price)
  /\ out # None => got = n
  /\ BestFillServed

\* What an adapter returns is a response, whatever the demand answered.
LEMMA ResultTyped ==
  ASSUME NEW s \in Sources, NEW a \in Answers(s), TypeOK
  PROVE  ResultOf(s, a) \in Responses /\ ResultOf(s, a).src = s
  BY Zenon, WaterfallAssumption
  DEF ResultOf, Answers, Responses, Response, ErrorOf, MinPrice, TypeOK, Bids

INSTANCE FiniteSetTheorems

\* Only the sources of the request send, so there are at most n senders.
LEMMA SentFinite ==
  ASSUME TypeOK, Present
  PROVE  /\ IsFiniteSet(1 .. n) /\ Cardinality(1 .. n) = n /\ n \in Nat
         /\ IsFiniteSet(Sent) /\ Cardinality(Sent) \in Nat /\ Cardinality(Sent) <= n
  <1>1. n \in Nat /\ n >= 1 /\ Sent \subseteq 1 .. n
    <2>1. N \in Nat \ {0}
      BY Zenon, WaterfallAssumption
    <2>2. n \in 1 .. N
      BY Zenon DEF TypeOK, Sources
    <2>3. \A s \in Sent : s \in 1 .. N /\ ~(s > n)
      BY Zenon DEF Sent, Present, Sources
    <2> QED
      BY <2>1, <2>2, <2>3
  <1>2. IsFiniteSet(1 .. n) /\ Cardinality(1 .. n) = n
    BY <1>1, FS_Interval
  <1> QED
    BY Zenon, <1>1, <1>2, FS_Subset, FS_CardinalityType

\* What the invariant says of the channel and of what has been collected.
LEMMA WFacts ==
  ASSUME WInv
  PROVE  /\ TypeOK /\ Present /\ n \in Nat /\ got \in 0 .. n
         /\ ch \in Seq(Responses) /\ Len(ch) \in Nat
         /\ \A i \in 1 .. Len(ch) : Genuine(ch[i])
         /\ got + Len(ch) = Cardinality(Sent)
         /\ Cardinality(Sent) \in Nat /\ Cardinality(Sent) <= n
         /\ IsFiniteSet(1 .. n) /\ Cardinality(1 .. n) = n /\ IsFiniteSet(Sent)
         /\ out # None => got = n
  <1>1. /\ TypeOK /\ Present /\ got + Len(ch) = Cardinality(Sent) /\ (out # None => got = n)
        /\ \A i \in 1 .. Len(ch) : Genuine(ch[i])
    BY Zenon DEF WInv
  <1>2. ch \in Seq(Responses)
    BY Zenon, <1>1 DEF TypeOK
  <1>3. Len(ch) \in Nat
    BY <1>2
  <1>4. got \in 0 .. n
    BY Zenon, <1>1 DEF TypeOK
  <1> QED
    BY Zenon, <1>1, <1>2, <1>3, <1>4, SentFinite

\* A step that keeps the request keeps what each answer means.
LEMMA SameResults ==
  ASSUME UNCHANGED <<inbound, cfg>>
  PROVE  \A s, a : ResultOf(s, a)' = ResultOf(s, a) /\ Answers(s)' = Answers(s)
  <1>1. \A s : cfg'[s] = cfg[s] /\ MinPrice(cfg[s])' = MinPrice(cfg[s])
    BY ZenonT(30) DEF MinPrice
  <1>2. \A s, a : ResultOf(s, a)' = ResultOf(s, a)
    BY <1>1 DEF ResultOf, Response, ErrorOf
  <1>3. \A s : Answers(s)' = Answers(s)
    BY <1>1 DEF Answers
  <1> QED
    BY Zenon, <1>2, <1>3

\* Nothing has been sent when the request comes in.
LEMMA InitWInv == Init => WInv
  <1> SUFFICES ASSUME Init PROVE WInv
    OBVIOUS
  <1>1. cfg \in [Sources -> [kind : Kinds, floor : Floors]]
    BY WaterfallAssumption DEF Init, SourceCfg, Sources
  <1>2. TypeOK
    <2>1. /\ n \in Sources /\ got = 0 /\ got \in 0 .. n
          /\ ch = << >> /\ ch \in Seq(Responses) /\ Len(ch) + got <= n
      BY WaterfallAssumption DEF Init, Sources
    <2>2. /\ pc \in [Sources -> {"running", "sent", "panicked", "absent"}]
          /\ answer \in [Sources -> Bids \cup {None, NoBid, Error, Document}]
      BY Zenon DEF Init
    <2> QED
      BY Zenon, <1>1, <2>1, <2>2 DEF Init, TypeOK
  <1>3. Sent = {}
    BY DEF Init, Sent
  <1>4. Cardinality(Sent) = 0
    BY <1>3, FS_EmptySet
  <1> QED
    BY <1>2, <1>3, <1>4, WaterfallAssumption DEF Init, WInv, BestFillServed, Present, Sources

\* A source sends its result: one more sender, one more result in the channel.
LEMMA ExecuteWInv ==
  ASSUME WInv, NEW s \in Sources, Execute(s)
  PROVE  WInv'
  <1> PICK a \in Answers(s) :
        /\ answer' = [answer EXCEPT ![s] = a]
        /\ ch' = Append(ch, ResultOf(s, a))
    BY Zenon DEF Execute
  <1>a. pc[s] = "running" /\ pc' = [pc EXCEPT ![s] = "sent"] /\ s \notin Sent
    BY Zenon DEF Execute, Sent
  <1>b. UNCHANGED <<inbound, n, cfg, got, best, out>>
    BY Zenon DEF Execute
  <1>c. ResultOf(s, a) \in Responses /\ ResultOf(s, a).src = s
    BY Zenon, ResultTyped DEF WInv
  <1>d. ch \in Seq(Responses) /\ Len(ch) \in Nat /\ got \in 0 .. n /\ n \in Nat
    BY Zenon, WFacts
  <1>e. /\ ch' \in Seq(Responses) /\ Len(ch') = Len(ch) + 1
        /\ \A i \in 1 .. Len(ch) : ch'[i] = ch[i]
        /\ ch'[Len(ch) + 1] = ResultOf(s, a)
    BY <1>c, <1>d
  <1>f. Sent' = Sent \cup {s}
    BY Zenon, <1>a DEF Sent, WInv, TypeOK
  <1>g. Cardinality(Sent') = Cardinality(Sent) + 1
    BY ZenonT(30), <1>a, <1>f, WFacts, FS_AddElement
  <1>h. got + Len(ch') = Cardinality(Sent') /\ got + Len(ch') <= n
    <2>1. Cardinality(Sent') <= n
      <3>1. \A t \in Sent' : t \in 1 .. N /\ ~(t > n)
        <4>1. \A t \in Sent \cup {s} : t \in Sources /\ pc[t] # "absent"
          BY Zenon, <1>a DEF Sent
        <4>2. \A t \in Sources : pc[t] # "absent" => ~(t > n)
          BY Zenon, WFacts DEF Present
        <4> QED
          BY Zenon, <4>1, <4>2, <1>f DEF Sources
      <3>2. N \in Nat
        BY Zenon, WaterfallAssumption
      <3>3. Sent' \subseteq 1 .. n
        BY <1>d, <3>1, <3>2
      <3>4. IsFiniteSet(1 .. n) /\ Cardinality(1 .. n) = n
        BY Zenon, WFacts
      <3>5. Cardinality(Sent') <= Cardinality(1 .. n)
        BY Zenon, <3>3, <3>4, FS_Subset
      <3> QED
        BY Zenon, <3>4, <3>5
    <2>2. got + Len(ch) = Cardinality(Sent)
      BY Zenon, WFacts
    <2> QED
      BY <1>d, <1>e, <1>g, <2>1, <2>2
  <1>i. TypeOK'
    <2>1. a \in Bids \cup {None, NoBid, Error, Document}
      BY Zenon DEF Answers
    <2>2. /\ answer' \in [Sources -> Bids \cup {None, NoBid, Error, Document}]
          /\ pc' \in [Sources -> {"running", "sent", "panicked", "absent"}]
      BY Zenon, <1>a, <2>1 DEF WInv, TypeOK
    <2>3. fired' \subseteq Sources
      BY Zenon DEF WInv, TypeOK, Execute
    <2>4. Len(ch') + got <= n
      BY <1>d, <1>e, <1>h
    <2> QED
      BY Zenon, <1>b, <1>e, <2>2, <2>3, <2>4 DEF WInv, TypeOK
  <1>j. \A t \in Sent' : /\ answer'[t] = IF t = s THEN a ELSE answer[t]
                         /\ answer'[t] \in Answers(t)
    <2>1. \A t \in Sources : answer'[t] = IF t = s THEN a ELSE answer[t]
      BY Zenon DEF WInv, TypeOK
    <2> QED
      BY Zenon, <1>f, <2>1 DEF WInv, Sent
  <1>k. \A t \in Sent' : /\ Answers(t)' = Answers(t)
                         /\ Result(t)' = IF t = s THEN ResultOf(s, a) ELSE Result(t)
    BY Zenon, <1>b, <1>j, SameResults DEF Result
  <1>l. \A r : Genuine(r) => Genuine(r)'
    BY ZenonT(30), <1>a, <1>f, <1>k DEF Genuine
  <1>m. \A i \in 1 .. Len(ch') : Genuine(ch[i])'
    <2> SUFFICES ASSUME NEW i \in 1 .. Len(ch') PROVE Genuine(ch[i])'
      BY Zenon
    <2>1. CASE i <= Len(ch)
      <3>1. i \in 1 .. Len(ch)
        BY <2>1, <1>d, <1>e
      <3> QED
        BY ZenonT(30), <3>1, <1>e, <1>l, WFacts
    <2>2. CASE i = Len(ch) + 1
      BY Zenon, <2>2, <1>c, <1>e, <1>f, <1>k DEF Genuine
    <2> QED
      BY <2>1, <2>2, <1>d, <1>e
  <1>n. \A t \in Sent : Waiting(t) => Waiting(t)'
    <2>1. \A i \in 1 .. Len(ch) : i \in 1 .. Len(ch')
      BY <1>d, <1>e
    <2>2. \A t \in Sent : Result(t)' = Result(t)
      BY Zenon, <1>a, <1>f, <1>k
    <2> QED
      BY ZenonT(30), <1>e, <2>1, <2>2 DEF Waiting
  <1>o. Waiting(s)'
    <2>1. Len(ch) + 1 \in 1 .. Len(ch')
      BY <1>d, <1>e
    <2> QED
      BY ZenonT(30), <1>e, <1>f, <1>k, <2>1 DEF Waiting
  <1>p. out = None /\ out' = None
    <2>1. got # n
      BY <1>d, <1>e, <1>h
    <2> QED
      BY ZenonT(30), <1>b, <2>1, WFacts
  <1>q. ASSUME n > 1
        PROVE  (/\ best # None => Genuine(best) /\ Counts(best)
                /\ \A t \in Sent : Counts(Result(t)) =>
                     Waiting(t) \/ (best # None /\ Result(t).price <= best.price))'
    <2>1. (best # None => Genuine(best) /\ Counts(best))'
      BY Zenon, <1>a, <1>b, <1>f, <1>k, <1>q DEF WInv, Genuine, Counts
    <2>2. ASSUME NEW t \in Sent', Counts(Result(t))'
          PROVE  (Waiting(t) \/ (best # None /\ Result(t).price <= best.price))'
      <3>1. CASE t = s
        BY <3>1, <1>o
      <3>2. CASE t # s
        <4>1. t \in Sent /\ Result(t)' = Result(t)
          BY Zenon, <3>2, <1>f, <1>k
        <4>2. Counts(Result(t))
          BY Zenon, <2>2, <4>1 DEF Counts
        <4>3. Waiting(t) \/ (best # None /\ Result(t).price <= best.price)
          BY Zenon, <1>q, <4>1, <4>2 DEF WInv
        <4> QED
          BY Zenon, <1>b, <1>n, <4>1, <4>3
      <3> QED
        BY Zenon, <3>1, <3>2
    <2> QED
      BY Zenon, <2>1, <2>2
  <1>r. \A t \in Sent' : answer'[t] \in Answers(t)'
    BY Zenon, <1>j, <1>k
  <1>s. Present'
    BY Zenon, <1>a, <1>b DEF WInv, TypeOK, Present
  <1> QED
    BY ZenonT(30), <1>b, <1>s, <1>h, <1>i, <1>m, <1>p, <1>q, <1>r DEF WInv, BestFillServed

\* The collector takes a result: what was the best fill stays or is beaten.
LEMMA CollectWInv ==
  ASSUME WInv, Collect
  PROVE  WInv'
  <1>a. /\ ch \in Seq(Responses) /\ ch # << >> /\ got \in 0 .. n /\ n \in Nat
        /\ got' = got + 1 /\ ch' = Tail(ch)
    BY Zenon, WFacts DEF Collect
  <1>b. UNCHANGED <<inbound, n, cfg, pc, answer, fired, out>>
    BY Zenon DEF Collect
  <1>c. /\ Len(ch) \in Nat \ {0} /\ Len(ch') = Len(ch) - 1 /\ ch' \in Seq(Responses)
        /\ \A i \in 1 .. Len(ch') : ch'[i] = ch[i + 1]
        /\ Head(ch) = ch[1] /\ ch[1] \in Responses
    BY <1>a
  <1>d. Sent' = Sent
    BY <1>b DEF Sent
  <1>e. \A t : Answers(t)' = Answers(t) /\ Result(t)' = Result(t)
    BY Zenon, <1>b, SameResults DEF Result
  <1>f. \A r : Genuine(r)' = Genuine(r)
    BY Zenon, <1>d, <1>e DEF Genuine
  <1>g. TypeOK'
    <2>1. best' \in Responses \cup {None}
      BY Zenon, <1>c, WFacts DEF TypeOK, Collect
    <2>2. Len(ch') + got' <= n' /\ got' \in 0 .. n'
      <3>1. Len(ch) + got <= n
        BY Zenon, WFacts DEF TypeOK
      <3> QED
        BY <1>a, <1>b, <1>c, <3>1
    <2> QED
      BY Zenon, <1>b, <1>c, <2>1, <2>2, WFacts DEF TypeOK
  <1>h. \A i \in 1 .. Len(ch') : Genuine(ch[i])'
    <2>1. \A i \in 1 .. Len(ch') : i + 1 \in 1 .. Len(ch)
      BY <1>c
    <2> QED
      BY Zenon, <1>c, <1>f, <2>1, WFacts
  <1>i. got' + Len(ch') = Cardinality(Sent')
    <2>1. got + Len(ch) = Cardinality(Sent)
      BY Zenon, WFacts
    <2> QED
      BY <1>a, <1>c, <1>d, <2>1
  <1>j. out = None /\ out' = None
    <2>1. Len(ch) + got <= n
      BY Zenon, WFacts DEF TypeOK
    <2>2. got # n
      BY <1>a, <1>c, <2>1
    <2> QED
      BY Zenon, <1>b, <2>2, WFacts
  <1>k. ASSUME n > 1
        PROVE  (/\ best # None => Genuine(best) /\ Counts(best)
                /\ \A s \in Sent : Counts(Result(s)) =>
                     Waiting(s) \/ (best # None /\ Result(s).price <= best.price))'
    <2>1. Genuine(ch[1])
      <3>1. 1 \in 1 .. Len(ch)
        BY <1>c
      <3> QED
        BY Zenon, <3>1, WFacts
    <2>2. best' = IF Counts(ch[1]) /\ Replaces(ch[1]) THEN ch[1] ELSE best
      BY <1>c, <1>k DEF Collect
    <2>3. (best # None => Genuine(best) /\ Counts(best))'
      BY Zenon, <1>d, <1>e, <1>k, <2>1, <2>2 DEF WInv, Genuine, Counts
    <2>4. best \in Responses \cup {None} /\ ch[1] # None
      BY Zenon, <1>c, WaterfallAssumption DEF WInv, TypeOK
    <2>5. /\ Counts(ch[1]) => best' # None /\ ch[1].price <= best'.price
          /\ best # None => best' # None /\ best.price <= best'.price
      BY <1>c, <2>2, <2>4 DEF Replaces, Responses
    <2>6. ASSUME NEW s \in Sent', Counts(Result(s))'
          PROVE  (Waiting(s) \/ (best # None /\ Result(s).price <= best.price))'
      <3>1. s \in Sent /\ Result(s)' = Result(s) /\ Counts(Result(s))
        BY Zenon, <1>d, <1>e, <2>6 DEF Counts
      <3>2. Result(s).price \in Nat
        <4>1. Result(s) \in Responses
          BY Zenon, <3>1, ResultTyped DEF WInv, Result, Sent
        <4> QED
          BY <4>1 DEF Responses
      <3>3. CASE best # None /\ Result(s).price <= best.price
        <4>1. best \in Responses /\ best' \in Responses /\ best.price <= best'.price /\ best' # None
          BY ZenonT(30), <3>3, <2>4, <2>5, <1>g DEF TypeOK
        <4>2. best.price \in Nat /\ best'.price \in Nat
          BY <4>1 DEF Responses
        <4> QED
          BY <3>1, <3>2, <3>3, <4>1, <4>2
      <3>4. CASE Waiting(s)
        <4> PICK i \in 1 .. Len(ch) : ch[i] = Result(s)
          BY <3>4 DEF Waiting
        <4>1. CASE i = 1
          BY Zenon, <3>1, <4>1, <2>5
        <4>2. CASE i # 1
          <5>1. i - 1 \in 1 .. Len(ch') /\ ch'[i - 1] = Result(s)
            BY <1>c, <4>2
          <5>2. Waiting(s)'
            BY Zenon, <3>1, <5>1 DEF Waiting
          <5> QED
            BY Zenon, <5>2
        <4> QED
          BY Zenon, <4>1, <4>2
      <3> QED
        BY Zenon, <1>k, <3>1, <3>3, <3>4 DEF WInv
    <2> QED
      BY Zenon, <2>3, <2>6
  <1> QED
    BY ZenonT(30), <1>b, <1>d, <1>e, <1>g, <1>h, <1>i, <1>j, <1>k DEF WInv, BestFillServed, Present

\* The endpoint answers when every result has been collected.
LEMMA RespondWInv ==
  ASSUME WInv, Respond
  PROVE  WInv'
  <1>a. UNCHANGED <<inbound, n, cfg, pc, answer, ch, got, best>> /\ got = n /\ out = None
    BY Zenon DEF Respond
  <1>b. Sent' = Sent
    BY Zenon, <1>a DEF Sent
  <1>c. \A t : Answers(t)' = Answers(t) /\ Result(t)' = Result(t)
    BY Zenon, <1>a, SameResults DEF Result
  <1>d. TypeOK'
    <2>1. best # None => best.src \in Sources
      BY Zenon DEF WInv, TypeOK, Responses
    <2>2. fired' \subseteq Sources
      BY Zenon, <2>1 DEF WInv, TypeOK, Respond
    <2> QED
      BY Zenon, <1>a, <2>2 DEF WInv, TypeOK
  <1>e. Len(ch) = 0
    <2>1. /\ Len(ch) \in Nat /\ got + Len(ch) = Cardinality(Sent)
          /\ n \in Nat /\ Cardinality(Sent) \in Nat /\ Cardinality(Sent) <= n
      BY Zenon, WFacts
    <2> QED
      BY <1>a, <2>1
  <1>f. BestFillServed'
    <2> SUFFICES ASSUME n > 1, out' # None
                 PROVE  (/\ out.fill <=> Fills # {}
                         /\ out.fill => /\ out.resp.src \in Fills
                                        /\ \A s \in Fills :
                                             ResultOf(s, answer[s]).price <= out.resp.price)'
      BY ZenonT(30), <1>a DEF BestFillServed
    <2>1. Fills' = {s \in Sent : Counts(Result(s))}
      BY <1>b, <1>c DEF Fills, Sent, Result, Counts
    <2>2. \A s \in Fills' : best # None /\ Result(s).price <= best.price
      <3>1. \A s : ~Waiting(s)
        BY <1>e DEF Waiting
      <3> QED
        BY Zenon, <2>1, <3>1 DEF WInv
    <2>3. best # None => best.src \in Fills' /\ ~best.err
      BY Zenon, <2>1 DEF WInv, Genuine, Counts
    <2>4. CASE best = None
      <3>1. out' = NoFill
        BY Zenon, <2>4 DEF Respond
      <3> QED
        BY Zenon, <2>2, <2>4, <3>1 DEF NoFill
    <2>5. CASE best # None
      <3>1. out'.fill = TRUE /\ out'.resp = best
        BY <2>3, <2>5 DEF Respond
      <3>2. \A s : ResultOf(s, answer[s])' = Result(s)
        BY Zenon, <1>c DEF Result
      <3> QED
        BY ZenonT(30), <2>2, <2>3, <2>5, <3>1, <3>2
    <2> QED
      BY Zenon, <2>4, <2>5
  <1> QED
    BY Zenon, <1>a, <1>b, <1>c, <1>d, <1>f DEF WInv, Genuine, Waiting, Counts, Present

\* A source that panics sends nothing.
LEMMA PanicWInv ==
  ASSUME WInv, NEW s \in Sources, Panic(s)
  PROVE  WInv'
  <1>a. UNCHANGED <<inbound, n, cfg, answer, ch, got, best, fired, out>>
    BY DEF Panic
  <1>b. pc[s] = "running" /\ pc' = [pc EXCEPT ![s] = "panicked"]
    BY Zenon DEF Panic
  <1>c. Sent' = Sent
    BY Zenon, <1>b DEF Sent, WInv, TypeOK
  <1>d. \A t : Answers(t)' = Answers(t) /\ Result(t)' = Result(t)
    BY Zenon, <1>a, SameResults DEF Result
  <1>e. TypeOK' /\ Present'
    BY Zenon, <1>a, <1>b DEF WInv, TypeOK, Present
  <1>f. BestFillServed'
    <2>1. Fills = {t \in Sent : Counts(Result(t))} /\ Fills' = {t \in Sent' : Counts(Result(t)')}
      BY Zenon DEF Fills, Sent, Result, Counts
    <2>2. Fills' = Fills
      BY Zenon, <1>c, <1>d, <2>1
    <2> QED
      BY Zenon, <1>a, <1>d, <2>2 DEF WInv, BestFillServed, Result
  <1> QED
    BY ZenonT(30), <1>a, <1>c, <1>d, <1>e, <1>f DEF WInv, Genuine, Waiting, Counts

\* Every step of sources, collector and endpoint keeps the invariant.
LEMMA NextWInv == WInv /\ [Next]_vars => WInv'
  <1> SUFFICES ASSUME WInv, [Next]_vars PROVE WInv'
    OBVIOUS
  <1>1. CASE UNCHANGED vars
    <2>1. UNCHANGED <<inbound, n, cfg, pc, answer, ch, got, best, fired, out>>
      BY Zenon, <1>1 DEF vars
    <2>2. \A t : Answers(t)' = Answers(t) /\ Result(t)' = Result(t)
      BY Zenon, <2>1, SameResults DEF Result
    <2>3. TypeOK' /\ Present' /\ Sent' = Sent
      BY Zenon, <2>1 DEF WInv, TypeOK, Present, Sent
    <2>4. BestFillServed'
      BY Zenon, <2>1, <2>2 DEF WInv, BestFillServed, Fills, Result, Counts
    <2> QED
      BY Zenon, <2>1, <2>2, <2>3, <2>4 DEF WInv, Genuine, Waiting, Counts
  <1>2. CASE \E s \in Sources : Execute(s)
    BY <1>2, ExecuteWInv
  <1>3. CASE \E s \in Sources : Panic(s)
    BY <1>3, PanicWInv
  <1>4. CASE Collect
    BY <1>4, CollectWInv
  <1>5. CASE Respond
    BY <1>5, RespondWInv
  <1> QED
    BY <1>1, <1>2, <1>3, <1>4, <1>5 DEF Next

\* Before the response, the server has called exactly the NURLs that the adapters
\* call.  What is in best is a result some source has sent, also with one source.
NoticeInv ==
  /\ best # None => Genuine(best)
  /\ out = None =>
       \A s \in Sources : s \in fired <=> s \in Sent /\ FiresInAdapter(s, answer[s])
  /\ NoticesHaveOneOwner

\* A source that still runs means that there is no response yet: the collector
\* waits for every source.
LEMMA RunningNoResponse ==
  ASSUME WInv, NEW s \in Sources, pc[s] = "running"
  PROVE  out = None
  <1>1. Sent \subseteq 1 .. n /\ s \in 1 .. n /\ s \notin Sent
    BY WaterfallAssumption DEF WInv, TypeOK, Present, Sources, Sent
  <1>2. Cardinality(Sent) # n
    BY ZenonT(30), <1>1, SentFinite, FS_Subset DEF WInv
  <1>3. got + Len(ch) = Cardinality(Sent) /\ Len(ch) \in Nat /\ got \in 0 .. n
    BY DEF WInv, TypeOK
  <1>4. n \in Nat /\ Cardinality(Sent) \in Nat /\ Cardinality(Sent) <= n
    BY Zenon, SentFinite DEF WInv
  <1>5. got # n
    BY <1>2, <1>3, <1>4
  <1> QED
    BY ZenonT(30), <1>5 DEF WInv

\* The adapters call the NURL of a bid before the collector sees it.
LEMMA ExecuteNotices ==
  ASSUME WInv, NoticeInv, NEW s \in Sources, Execute(s)
  PROVE  NoticeInv'
  <1> PICK a \in Answers(s) :
        /\ answer' = [answer EXCEPT ![s] = a]
        /\ fired' = IF FiresInAdapter(s, a) THEN fired \cup {s} ELSE fired
    BY Zenon DEF Execute
  <1>1. pc[s] = "running" /\ pc' = [pc EXCEPT ![s] = "sent"] /\ s \notin Sent
    BY Zenon DEF Execute, Sent
  <1>2. UNCHANGED <<inbound, n, cfg, got, best, out>> /\ out = None
    BY Zenon, <1>1, RunningNoResponse DEF Execute
  <1>3. Sent' = Sent \cup {s}
    BY Zenon, <1>1 DEF Sent, WInv, TypeOK
  <1>4. \A t \in Sources : answer'[t] = IF t = s THEN a ELSE answer[t]
    BY Zenon DEF WInv, TypeOK
  <1>5. \A t \in Sent : Result(t)' = Result(t)
    BY Zenon, <1>1, <1>2, <1>4, SameResults DEF Result, Sent
  <1>6. (best # None => Genuine(best))'
    BY Zenon, <1>1, <1>2, <1>3, <1>5 DEF NoticeInv, Genuine
  <1>7. \A t \in Sources : t \in fired' <=> t \in Sent' /\ FiresInAdapter(t, answer[t])'
    <2>1. \A t, b : FiresInAdapter(t, b)' = FiresInAdapter(t, b)
      BY Zenon, <1>2 DEF FiresInAdapter
    <2>2. \A t \in Sources : t \in fired <=> t \in Sent /\ FiresInAdapter(t, answer[t])
      BY Zenon, <1>2 DEF NoticeInv
    <2>3. \A t \in Sources : FiresInAdapter(t, answer[t])' = FiresInAdapter(t, answer'[t])
      BY Zenon, <1>2 DEF FiresInAdapter
    <2> QED
      BY Zenon, <1>1, <1>3, <1>4, <2>2, <2>3
  <1> QED
    BY Zenon, <1>2, <1>6, <1>7 DEF NoticeInv, NoticesHaveOneOwner

\* The bid of a result is the demand's answer, and its source has called the NURL
\* only in the cases of FiresInAdapter.
LEMMA BidIsAnswer ==
  ASSUME WInv, NEW r, Genuine(r), r.bid # None
  PROVE  r.bid = answer[r.src] /\ r.bid \in Bids /\ r.src \in Sources
  <1>1. r.src \in Sources /\ answer[r.src] \in Answers(r.src) /\ r = ResultOf(r.src, answer[r.src])
    BY Zenon DEF WInv, Genuine, Sent, Result
  <1>2. ResultOf(r.src, answer[r.src]).bid # None
    BY Zenon, <1>1
  <1>3. /\ cfg[r.src].kind # "vast" /\ answer[r.src] # Error /\ answer[r.src] # NoBid
        /\ ResultOf(r.src, answer[r.src]).bid = answer[r.src]
    BY Zenon, <1>2 DEF ResultOf, Response, ErrorOf
  <1> QED
    BY Zenon, <1>1, <1>3 DEF Answers

\* VASTEndpoint leaves the NURL to the adapter or shows it; ORTBEndpoint calls the
\* NURL of the winner it finds again and blanks it, and shows it otherwise.
LEMMA RespondNotices ==
  ASSUME WInv, NoticeInv, Respond
  PROVE  NoticeInv'
  <1>1. UNCHANGED <<inbound, n, cfg, pc, answer, ch, got, best>> /\ out = None
    BY Zenon DEF Respond
  <1>2. (best # None => Genuine(best))'
    <2>1. Sent' = Sent /\ \A t : Result(t)' = Result(t)
      BY Zenon, <1>1, SameResults DEF Sent, Result
    <2> QED
      BY Zenon, <1>1, <2>1 DEF NoticeInv, Genuine
  <1>3. CASE best = None \/ best.err
    <2>1. out' = NoFill
      BY Zenon, <1>3 DEF Respond
    <2>2. out'.fill = FALSE /\ out' # None
      BY Zenon, <2>1, WaterfallAssumption DEF NoFill
    <2>3. NoticesHaveOneOwner'
      BY Zenon, <2>2 DEF NoticesHaveOneOwner
    <2> QED
      BY Zenon, <1>2, <2>2, <2>3 DEF NoticeInv
  <1>4. CASE best # None /\ ~best.err
    <2>1. /\ out' = [fill |-> TRUE, resp |-> best, counted |-> ~best.nofill,
                     nurl |-> ExposedNURL(best), burl |-> ExposedBURL(best),
                     cached |-> CachedBURL(best)]
          /\ fired' = IF Reextracted(best) /\ best.bid.nurl /\ best.bid.adm # "none"
                      THEN fired \cup {best.src} ELSE fired
      BY Zenon, <1>4 DEF Respond
    <2>2. /\ out'.resp = best /\ out'.nurl = ExposedNURL(best)
          /\ out'.burl = ExposedBURL(best) /\ out'.cached = CachedBURL(best)
      BY Zenon, <2>1
    <2>3. out' # None
      <3>1. best \in Responses
        BY Zenon, <1>4 DEF WInv, TypeOK
      <3>2. (~best.nofill) \in BOOLEAN /\ ExposedNURL(best) \in BOOLEAN
            /\ ExposedBURL(best) \in BOOLEAN /\ CachedBURL(best) \in BOOLEAN
        BY Zenon DEF ExposedNURL, ExposedBURL, CachedBURL
      <3>3. out' \in Filled
        BY <2>1, <3>1, <3>2, Zenon DEF Filled
      <3> QED
        BY <3>3, WaterfallAssumption
    <2>4. Genuine(best)
      BY <1>4 DEF NoticeInv
    <2>5. ASSUME best.bid # None
          PROVE  /\ best.bid.nurl => (ExposedNURL(best) <=> best.src \notin fired')
                 /\ best.bid.burl => (ExposedBURL(best) <=> ~CachedBURL(best))
      <3>1. best.bid = answer[best.src] /\ best.bid \in Bids /\ best.src \in Sources
        BY Zenon, <2>4, <2>5, BidIsAnswer
      <3>2. best.src \in fired <=> FiresInAdapter(best.src, best.bid)
        BY Zenon, <1>1, <2>4, <3>1 DEF NoticeInv, Genuine
      <3>3. inbound \in {"VAST", "ORTB"}
        BY Zenon, WaterfallAssumption DEF WInv, TypeOK
      <3>4. CASE inbound = "VAST"
        BY Zenon, <2>1, <2>5, <3>1, <3>2, <3>4
        DEF FiresInAdapter, ExposedNURL, ExposedBURL, CachedBURL, Reextracted
      <3>5. CASE inbound = "ORTB"
        BY ZenonT(30), <2>1, <2>5, <3>1, <3>2, <3>5
        DEF FiresInAdapter, ExposedNURL, ExposedBURL, CachedBURL, Reextracted
      <3> QED
        BY Zenon, <3>3, <3>4, <3>5
    <2>6. NoticesHaveOneOwner'
      BY Zenon, <2>2, <2>5 DEF NoticesHaveOneOwner
    <2> QED
      BY Zenon, <1>2, <2>3, <2>6 DEF NoticeInv
  <1> QED
    BY <1>3, <1>4

\* The collector, a panic and a stuttering step call no NURL.
LEMMA OtherNotices ==
  ASSUME WInv, NoticeInv, Collect \/ (\E s \in Sources : Panic(s)) \/ UNCHANGED vars
  PROVE  NoticeInv'
  <1>1. UNCHANGED <<inbound, n, cfg, answer, fired, out>> /\ Sent' = Sent
    BY Zenon DEF Collect, Panic, vars, Sent, WInv, TypeOK
  <1>2. \A t : Result(t)' = Result(t)
    BY Zenon, <1>1, SameResults DEF Result
  <1>3. best' = best \/ (ch # << >> /\ best' = Head(ch))
    BY Zenon DEF Collect, Panic, vars
  <1>4. ch # << >> => Genuine(Head(ch))
    <2>1. ch \in Seq(Responses)
      BY Zenon DEF WInv, TypeOK
    <2>2. ch # << >> => 1 \in 1 .. Len(ch) /\ Head(ch) = ch[1]
      BY <2>1
    <2> QED
      BY Zenon, <2>2 DEF WInv
  <1>5. (best # None => Genuine(best))'
    BY Zenon, <1>1, <1>2, <1>3, <1>4 DEF NoticeInv, Genuine
  <1>6. \A t \in Sources : FiresInAdapter(t, answer[t])' = FiresInAdapter(t, answer[t])
    BY Zenon, <1>1 DEF FiresInAdapter
  <1>7. NoticesHaveOneOwner'
    BY Zenon, <1>1 DEF NoticeInv, NoticesHaveOneOwner
  <1> QED
    BY Zenon, <1>1, <1>5, <1>6, <1>7 DEF NoticeInv

\* The notices of the bid that is served have one owner each, whatever the
\* protocol, the floors and the order of the sources (buildVASTResponse,
\* ORTBEndpoint).
THEOREM NoticesHaveOneOwnerHolds == Spec => []NoticesHaveOneOwner
  <1>1. Init => NoticeInv
    <2> SUFFICES ASSUME Init PROVE NoticeInv
      OBVIOUS
    <2>1. best = None /\ out = None /\ fired = {} /\ Sent = {}
      BY Zenon DEF Init, Sent
    <2> QED
      BY Zenon, <2>1 DEF NoticeInv, NoticesHaveOneOwner
  <1>2. WInv /\ NoticeInv /\ [Next]_vars => NoticeInv'
    BY ExecuteNotices, RespondNotices, OtherNotices DEF Next
  <1>3. NoticeInv => NoticesHaveOneOwner
    BY DEF NoticeInv
  <1> QED
    BY <1>1, <1>2, <1>3, InitWInv, NextWInv, PTL DEF Spec

\* The type invariant of the waterfall: in particular no goroutine of a source
\* ever blocks on the channel, whatever the number of sources.
THEOREM WaterfallTypeCorrect == Spec => []TypeOK
  <1>1. WInv => TypeOK
    BY Zenon DEF WInv
  <1> QED
    BY <1>1, InitWInv, NextWInv, PTL DEF Spec

\* runDemandWaterfall serves a response of the highest price, in whatever order
\* the sources answer, and serves nothing only if no source had a fill.
THEOREM BestFillServedHolds == Spec => []BestFillServed
  <1>1. WInv => BestFillServed
    BY Zenon DEF WInv
  <1> QED
    BY <1>1, InitWInv, NextWInv, PTL DEF Spec

-----------------------------------------------------------------------------
(* The composition of MCVideoPipeline: a step of one part is a stutter of  *)
(* the others.                                                             *)

\* The video pipeline as it is model-checked runs its parts as they are: what is
\* proved of the ring, the statistics, the choice of a bid and the waterfall
\* holds in it.  Where the waterfall is not the part that runs, one request
\* without a fill stays answered.
THEOREM PipelineRunsParts ==
  PipelineSpec =>
    /\ RingSpec /\ StatsSpec
    /\ SelectionInit /\ [][SelectionNext]_selectionVars
    /\ part = "demand" => Spec
    /\ part = "demand" \/ (NoRequest /\ [][FALSE]_vars)
  <1>1. PipelineInit =>
          /\ RingInit /\ StatsInit /\ SelectionInit
          /\ (part = "demand" => Init) /\ (part = "demand" \/ NoRequest)
    BY Zenon DEF PipelineInit
  <1>2. [PipelineNext]_pipelineVars =>
          /\ [RingNext]_ringVars /\ [StatsNext]_statsVars
          /\ [SelectionNext]_selectionVars /\ [Next]_vars
    BY Zenon DEF PipelineNext, Tracking, Stats, Selecting, Demand, pipelineVars
  <1>3. ~(part = "demand") /\ [PipelineNext]_pipelineVars =>
          ~(part = "demand")' /\ [FALSE]_vars
    BY Zenon DEF PipelineNext, Tracking, Stats, Selecting, Demand, pipelineVars
  <1> QED
    BY <1>1, <1>2, <1>3, PTL DEF PipelineSpec, RingSpec, StatsSpec, Spec
=============================================================================
