---------------------------- MODULE BidSelection ----------------------------
(***************************************************************************)
(* extractWinningBid and bidBetter (endpoints/video_pipeline.go): one pass *)
(* over the bids of a response, in the order of the seats, that keeps the  *)
(* best eligible bid.  One step looks at one bid.                          *)
(*                                                                         *)
(* A bid carries the weight of its seat; a creative is what is left of its *)
(* AdM and NURL once normalizeAdM has emptied placeholders.                *)
(***************************************************************************)
EXTENDS Integers, Sequences

CONSTANTS MaxBids,   \* bound on the number of bids of a response
          BidPrices, Weights,
          WinnerFloors  \* values of winnerMinPriceCPM; 0 is "no floor"

ASSUME BidAssumption ==
  /\ MaxBids \in Nat /\ BidPrices \subseteq Nat /\ Weights \subseteq Nat /\ WinnerFloors \subseteq Nat

VARIABLES bids, floor,   \* the input
          seen,          \* how many bids were looked at
          winner         \* the position of the best one so far, 0 is none

selectionVars == <<bids, floor, seen, winner>>

Bid == [price : BidPrices, weight : Weights, creative : BOOLEAN]

SelectionInit ==
  /\ bids \in UNION {[1 .. n -> Bid] : n \in 0 .. MaxBids}
  /\ floor \in WinnerFloors
  /\ seen = 0 /\ winner = 0

\* Mutant of Eligible: a bid without a creative can win.
EligibleByPrice(i) == ~(floor > 0 /\ bids[i].price < floor)

Eligible(i) == bids[i].creative /\ ~(floor > 0 /\ bids[i].price < floor)

\* Mutant of BidBetter: the weight is compared before the price.
WeightFirst(i, j) ==
  IF bids[i].weight # bids[j].weight THEN bids[i].weight > bids[j].weight
  ELSE IF bids[i].price # bids[j].price THEN bids[i].price > bids[j].price
  ELSE i < j

\* Highest price, then highest weight of the seat, then the earliest bid.
BidBetter(i, j) ==
  IF bids[i].price # bids[j].price THEN bids[i].price > bids[j].price
  ELSE IF bids[i].weight # bids[j].weight THEN bids[i].weight > bids[j].weight
  ELSE i < j

Look ==
  /\ seen < Len(bids)
  /\ seen' = seen + 1
  /\ winner' = IF Eligible(seen + 1) /\ (winner = 0 \/ BidBetter(seen + 1, winner))
               THEN seen + 1 ELSE winner
  /\ UNCHANGED <<bids, floor>>

SelectionNext == Look

SelectionSpec == SelectionInit /\ [][SelectionNext]_selectionVars /\ WF_selectionVars(SelectionNext)
-----------------------------------------------------------------------------
\* The type invariant: a winner is one of the bids already looked at.
SelectionTypeOK ==
  /\ bids \in Seq(Bid) /\ floor \in WinnerFloors
  /\ seen \in 0 .. Len(bids) /\ winner \in 0 .. seen

\* The preference the tie-break rules describe, as an order on prices, weights
\* and positions.
Beats(i, j) ==
  \/ bids[i].price > bids[j].price
  \/ bids[i].price = bids[j].price /\ bids[i].weight > bids[j].weight
  \/ bids[i].price = bids[j].price /\ bids[i].weight = bids[j].weight /\ i < j

\* The bids that may win: they have a creative and reach the floor.
MayWin(i) == bids[i].creative /\ bids[i].price >= floor

\* At every point of the pass the winner so far may win and beats every other
\* bid that may, and there is none only if no bid looked at may win: the result
\* depends on the set of bids and their positions only, never on what was best
\* on the way.
BestSoFar ==
  /\ winner = 0 => \A i \in 1 .. seen : ~MayWin(i)
  /\ winner # 0 => /\ MayWin(winner)
                  /\ \A i \in 1 .. seen : MayWin(i) /\ i # winner => Beats(winner, i)

\* The winner only ever improves: once a bid has been preferred, no later bid
\* takes its place without beating it, and a winner is never given up.
OnlyImproves ==
  [][winner # 0 => winner' # 0 /\ (winner' = winner \/ Beats(winner', winner))]_selectionVars
=============================================================================
