----------------------------- MODULE MCDashboard ----------------------------
(***************************************************************************)
(* The dashboard for TLC.  The store of one kind of entries with its file  *)
(* (EntityStore) and the pushes into the pipeline (AdUnitSync) share no    *)
(* state, so a behaviour takes the steps of one of the two parts only and  *)
(* leaves the other in one initial state.                                  *)
(***************************************************************************)
EXTENDS AdUnitSync, EntityStore

VARIABLE part  \* the part that takes steps

dashboardVars == <<vars, storeVars, part>>

MCLinks == {<< >>, <<1, 2>>}

DashboardInit ==
  /\ part \in {"sync", "store"}
  /\ Init
  /\ part = "store" => units = << >> /\ campaigns = << >> /\ cfgs = << >>
  /\ StoreInit

Sync(A) == part = "sync" /\ A /\ UNCHANGED <<storeVars, part>>

DashboardNext ==
  \/ Sync(Next)
  \/ part = "store" /\ StoreNext /\ UNCHANGED <<vars, part>>

\* Handlers and goroutines of AdUnitSync run to their end (its FairSpec).
DashboardSpec ==
  /\ DashboardInit /\ [][DashboardNext]_dashboardVars
  /\ WF_dashboardVars(Sync(Serve))
  /\ \A w \in Workers : WF_dashboardVars(Sync(Step(w)))

=============================================================================
