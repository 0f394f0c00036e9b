--------------------------- MODULE MCDataServices ---------------------------
(***************************************************************************)
(* Three services behind the request handlers for TLC: the table of video  *)
(* metrics, the cache of stored requests and the currency rates.  They     *)
(* share no state, so a behaviour takes the steps of one service and       *)
(* leaves the others in one initial state.                                 *)
(***************************************************************************)
EXTENDS ClickHouseMetrics, StoredRequests, RateConverter

VARIABLE service  \* the service that takes steps

dataVars == <<vars, storedVars, rateVars, service>>

Metrics(A) == service = "metrics" /\ A /\ UNCHANGED <<storedVars, rateVars, service>>
Requests(A) == service = "requests" /\ A /\ UNCHANGED <<vars, rateVars, service>>
Rates(A) == service = "rates" /\ A /\ UNCHANGED <<vars, storedVars, service>>

\* The cache without entries to follow.
NoStored == source = "database" /\ \A id \in Ids : ~stored[id].live

DataInit ==
  /\ service \in {"metrics", "requests", "rates"}
  /\ Init /\ StoredInit /\ RateInit
  /\ service = "requests" \/ NoStored
  /\ service = "rates" \/ (interval = 0 /\ threshold = 0)

DataNext == Metrics(Next) \/ Requests(StoredNext) \/ Rates(RateNext)

\* The fairness of ClickHouseMetrics and of StoredRequests.
DataSpec ==
  /\ DataInit /\ [][DataNext]_dataVars
  /\ WF_dataVars(Metrics(Receive)) /\ SF_dataVars(Metrics(Tick)) /\ SF_dataVars(Metrics(Stop))
  /\ WF_dataVars(Metrics(Inserted)) /\ WF_dataVars(Metrics(CloseDB))
  /\ WF_dataVars(Requests(PollStep)) /\ SF_dataVars(Requests(QueryEnds))
  /\ WF_dataVars(Requests(ReceiveSave)) /\ WF_dataVars(Requests(ReceiveInvalidation))
  /\ \A f \in Fetchers : WF_dataVars(Requests(FetchStep(f)))

DataTypeOK == TypeOK /\ StoredTypeOK /\ RateTypeOK

=============================================================================
