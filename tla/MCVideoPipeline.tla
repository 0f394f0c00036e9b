--------------------------- MODULE MCVideoPipeline --------------------------
(***************************************************************************)
(* Four parts of endpoints/video_pipeline.go for TLC: the ring of tracking *)
(* events, the statistics and their file, the demand sources of a request, *)
(* and the choice among the bids of one response.  They share no state, so *)
(* a behaviour takes the steps of one part and leaves the others in one    *)
(* initial state.                                                          *)
(***************************************************************************)
EXTENDS TrackingStore, StatsStore, BidSelection, DemandWaterfall

VARIABLE part  \* the part that takes steps

pipelineVars == <<ringVars, statsVars, selectionVars, vars, part>>

Tracking(A) == part = "tracking" /\ A /\ UNCHANGED <<statsVars, selectionVars, vars, part>>
Stats(A) == part = "stats" /\ A /\ UNCHANGED <<ringVars, selectionVars, vars, part>>
Selecting(A) == part = "selection" /\ A /\ UNCHANGED <<ringVars, statsVars, vars, part>>
Demand(A) == part = "demand" /\ A /\ UNCHANGED <<ringVars, statsVars, selectionVars, part>>

\* No request is at work: one has been answered without a fill.
NoRequest ==
  /\ inbound = "VAST" /\ n = 1
  /\ cfg = [s \in Sources |-> [kind |-> "vast", floor |-> 0]]
  /\ pc = [s \in Sources |-> IF s = 1 THEN "sent" ELSE "absent"]
  /\ answer = [s \in Sources |-> IF s = 1 THEN Error ELSE None]
  /\ ch = << >> /\ got = 1 /\ best = None
  /\ fired = {} /\ out = NoFill

PipelineInit ==
  /\ part \in {"tracking", "stats", "selection", "demand"}
  /\ part = "selection" \/ (bids = << >> /\ floor = 0)
  /\ IF part = "demand" THEN Init ELSE NoRequest
  /\ RingInit /\ StatsInit /\ SelectionInit

PipelineNext ==
  \/ Tracking(RingNext) \/ Stats(StatsNext) \/ Selecting(SelectionNext) \/ Demand(Next)

\* The fairness of StatsStore, of BidSelection and of DemandWaterfall.
PipelineSpec ==
  /\ PipelineInit /\ [][PipelineNext]_pipelineVars
  /\ WF_pipelineVars(Stats(SaverStep)) /\ WF_pipelineVars(Stats(ResetStep))
  /\ WF_pipelineVars(Selecting(SelectionNext)) /\ WF_pipelineVars(Demand(Next))

=============================================================================
