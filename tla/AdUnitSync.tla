----------------------------- MODULE AdUnitSync -----------------------------
(***************************************************************************)
(* Ad units and campaigns of the dashboard and the placement               *)
(* configurations of the video pipeline (VideoExchangeHandler and          *)
(* CampaignHandler in endpoints/dashboard.go).  A change of an ad unit is  *)
(* made in its store and then pushed into the pipeline by the same         *)
(* handler; a change of a campaign starts a goroutine that pushes every ad *)
(* unit again (SyncAllToPipeline).  The stores and the registry of         *)
(* configurations have a lock each and no lock covers two of them: nothing *)
(* orders two pushes of one ad unit.  The endpoint /video/adserver writes  *)
(* and removes configurations too, whatever the stores hold.               *)
(*                                                                         *)
(* The contents of an ad unit or campaign are the number of the change     *)
(* that made it.  The stores are loaded from files of their own when the   *)
(* process starts, so the initial states take any combination of them.     *)
(* How the files are written is in EntityStore and ConfigStore.            *)
(***************************************************************************)
EXTENDS Integers, Sequences, FiniteSets

CONSTANTS UnitIds,      \* identifiers of ad units, in order of creation
          CampaignIds,  \* identifiers of campaigns, in order of creation
          NoCampaign,   \* an empty CampaignID
          OldUnits,     \* ad units the files may hold when the process starts
          OldCampaigns, \* campaigns the files may hold
          Links,        \* values of DemandLinks: sequences of campaigns
          Workers,      \* handlers and goroutines at work at a time
          MaxChanges    \* bound on the changes made in the dashboard and by /video/adserver

ASSUME IdAssumption ==
  /\ OldUnits \subseteq UnitIds /\ OldCampaigns \subseteq CampaignIds
  /\ UnitIds \subseteq Nat /\ IsFiniteSet(UnitIds)
  /\ CampaignIds \subseteq Nat \ {NoCampaign} /\ IsFiniteSet(CampaignIds)
  /\ MaxChanges \in Nat /\ Workers # {}

VARIABLES units,      \* store of ad units
          campaigns,  \* store of campaigns
          cfgs,       \* configurations registered in the pipeline
          used,       \* identifiers given so far: [units, campaigns]
          worker,     \* what each handler or goroutine is doing
          serving,    \* the server listens
          changes,    \* number of changes made
          overtaken,  \* history: ad units whose last push had been overtaken
          direct,     \* history: ad units whose configuration /video/adserver set last
          orphans     \* history: configurations loaded without an ad unit

vars == <<units, campaigns, cfgs, used, worker, serving, changes, overtaken, direct, orphans>>

Newest(ids) == CHOOSE i \in ids : \A j \in ids : j <= i

Idle == [pc |-> "idle", todo |-> {}, camp |-> NoCampaign, demand |-> 0,
         extra |-> << >>, late |-> {}]

Unit(id, ver, camp, links) == [id |-> id, ver |-> ver, camp |-> camp, links |-> links]

\* A function with the value x at i, added or replaced, and one without i.
Put(f, i, x) == [j \in DOMAIN f \cup {i} |-> IF j = i THEN x ELSE f[j]]
Without(f, i) == [j \in DOMAIN f \ {i} |-> f[j]]

-----------------------------------------------------------------------------
(* syncPipelineCfg: the configuration of an ad unit.                       *)

\* The elements of s that are in the set S, in their order: SelectSeq for a
\* test given by a set, which the proofs can reason about.
Only(s, S) ==
  LET upTo[n \in 0 .. Len(s)] ==
        IF n = 0 THEN << >>
        ELSE IF s[n] \in S THEN Append(upTo[n - 1], s[n]) ELSE upTo[n - 1]
  IN upTo[Len(s)]

Existing(links) == Only(links, DOMAIN campaigns)

SuppliedBy(e) == {c \in DOMAIN campaigns : e.id \in campaigns[c].supply}

\* The campaign of the ad unit, else the first of its demand links that
\* exists, else the newest campaign that names the ad unit.
Resolved(e) ==
  IF e.camp # NoCampaign THEN e.camp
  ELSE IF Existing(e.links) # << >> THEN Head(Existing(e.links))
  ELSE IF SuppliedBy(e) # {} THEN Newest(SuppliedBy(e))
  ELSE NoCampaign

\* The contents of a campaign, 0 when it does not exist.
DemandOf(c) == IF c \in DOMAIN campaigns THEN campaigns[c].ver ELSE 0

\* The other demand links.  The comparison is with the campaign the ad unit
\* names, not with the one that was resolved.
ExtraOf(e) ==
  LET links == Only(e.links, DOMAIN campaigns \ {e.camp})
  IN [i \in DOMAIN links |-> [camp |-> links[i], ver |-> DemandOf(links[i])]]

Config(e, camp, demand, extra) ==
  [unit |-> e.ver, camp |-> camp, demand |-> demand, extra |-> extra]

ConfigOf(e) == Config(e, Resolved(e), DemandOf(Resolved(e)), ExtraOf(e))

-----------------------------------------------------------------------------

\* newEntityStore and the configuration store have loaded their files.
Init ==
  /\ \E us \in SUBSET OldUnits, cs \in SUBSET OldCampaigns, ls \in Links,
        camp \in CampaignIds \cup {NoCampaign}, supply \in SUBSET OldUnits :
       /\ units = [u \in us |-> Unit(u, 0, camp, ls)]
       /\ campaigns = [c \in cs |-> [ver |-> 0, supply |-> supply]]
       /\ used = [units |-> OldUnits, campaigns |-> OldCampaigns]
  /\ \E us \in SUBSET OldUnits :
       /\ cfgs = [u \in us |-> Config(Unit(u, 0, NoCampaign, << >>), NoCampaign, 0, << >>)]
       /\ orphans = us \ DOMAIN units
  /\ LET boot == CHOOSE w \in Workers : TRUE
     IN worker = [w \in Workers |-> IF w = boot THEN [Idle EXCEPT !.pc = "list"] ELSE Idle]
  /\ serving = FALSE
  /\ changes = 0
  /\ overtaken = {}
  /\ direct = {}

\* WireVideoExchange has pushed every ad unit and the server starts.
Serve ==
  /\ ~serving
  /\ \A w \in Workers : worker[w].pc = "idle"
  /\ serving' = TRUE
  /\ UNCHANGED <<units, campaigns, cfgs, used, worker, changes, overtaken, direct, orphans>>

Change(w) ==
  /\ serving
  /\ worker[w].pc = "idle"
  /\ changes < MaxChanges
  /\ changes' = changes + 1

Push(w, e) == worker' = [worker EXCEPT ![w] = [Idle EXCEPT !.pc = "resolve", !.todo = {e}]]

CreateUnit(w, u) ==
  /\ Change(w)
  /\ u \in UnitIds \ used.units
  /\ \E camp \in CampaignIds \cup {NoCampaign}, ls \in Links :
       LET e == Unit(u, changes', camp, ls) IN
       units' = Put(units, u, e) /\ Push(w, e)
  /\ used' = [used EXCEPT !.units = @ \cup {u}]
  /\ UNCHANGED <<campaigns, cfgs, serving, overtaken, direct, orphans>>

UpdateUnit(w, u) ==
  /\ Change(w)
  /\ u \in DOMAIN units
  /\ \E camp \in CampaignIds \cup {NoCampaign}, ls \in Links :
       LET e == Unit(u, changes', camp, ls) IN
       units' = Put(units, u, e) /\ Push(w, e)
  /\ UNCHANGED <<campaigns, cfgs, used, serving, overtaken, direct, orphans>>

DeleteUnit(w, u) ==
  /\ Change(w)
  /\ u \in DOMAIN units
  /\ units' = Without(units, u)
  /\ worker' = [worker EXCEPT ![w] = [Idle EXCEPT !.pc = "unregister", !.todo = {units[u]}]]
  /\ UNCHANGED <<campaigns, cfgs, used, serving, overtaken, direct, orphans>>

\* Mutant of OnChange: a change of a campaign is not pushed.
NoOnChange(w) == UNCHANGED worker

\* safeGo(h.onChange): a goroutine that runs SyncAllToPipeline.
OnChange(w) == worker' = [worker EXCEPT ![w] = [Idle EXCEPT !.pc = "list"]]

CreateCampaign(w, c) ==
  /\ Change(w)
  /\ c \in CampaignIds \ used.campaigns
  /\ \E supply \in SUBSET DOMAIN units :
       campaigns' = Put(campaigns, c, [ver |-> changes', supply |-> supply])
  /\ used' = [used EXCEPT !.campaigns = @ \cup {c}]
  /\ OnChange(w)
  /\ UNCHANGED <<units, cfgs, serving, overtaken, direct, orphans>>

UpdateCampaign(w, c) ==
  /\ Change(w)
  /\ c \in DOMAIN campaigns
  /\ \E supply \in SUBSET DOMAIN units :
       campaigns' = Put(campaigns, c, [ver |-> changes', supply |-> supply])
  /\ OnChange(w)
  /\ UNCHANGED <<units, cfgs, used, serving, overtaken, direct, orphans>>

DeleteCampaign(w, c) ==
  /\ Change(w)
  /\ c \in DOMAIN campaigns
  /\ campaigns' = Without(campaigns, c)
  /\ OnChange(w)
  /\ UNCHANGED <<units, cfgs, used, serving, overtaken, direct, orphans>>

-----------------------------------------------------------------------------

\* SyncAllToPipeline: the ad units of this moment, one after the other.
List(w) ==
  /\ worker[w].pc = "list"
  /\ worker' = [worker EXCEPT ![w] =
       IF units = << >> THEN Idle
       ELSE [Idle EXCEPT !.pc = "resolve", !.todo = {units[u] : u \in DOMAIN units}]]
  /\ UNCHANGED <<units, campaigns, cfgs, used, serving, changes, overtaken, direct, orphans>>

\* The ad unit being pushed: the newest of the list.
Current(w) == CHOOSE e \in worker[w].todo : \A f \in worker[w].todo : f.id <= e.id

Resolve(w) ==
  /\ worker[w].pc = "resolve"
  /\ worker' = [worker EXCEPT ![w].pc = "demand", ![w].camp = Resolved(Current(w))]
  /\ UNCHANGED <<units, campaigns, cfgs, used, serving, changes, overtaken, direct, orphans>>

Demand(w) ==
  /\ worker[w].pc = "demand"
  /\ worker' = [worker EXCEPT ![w].pc = "extra", ![w].demand = DemandOf(worker[w].camp)]
  /\ UNCHANGED <<units, campaigns, cfgs, used, serving, changes, overtaken, direct, orphans>>

Extra(w) ==
  /\ worker[w].pc = "extra"
  /\ worker' = [worker EXCEPT ![w].pc = "register", ![w].extra = ExtraOf(Current(w))]
  /\ UNCHANGED <<units, campaigns, cfgs, used, serving, changes, overtaken, direct, orphans>>

\* The others that hold the ad unit u in their list have been overtaken.
Overtake(w, u) ==
  [v \in Workers |->
     IF v # w /\ \E e \in worker[v].todo : e.id = u
     THEN [worker[v] EXCEPT !.late = @ \cup {u}] ELSE worker[v]]

\* Mutant of After: the list does not advance.
AfterAgain(w, e) ==
  IF worker[w].todo = {e} THEN Idle ELSE [worker[w] EXCEPT !.pc = "resolve"]

\* What the worker w goes on with after the ad unit e.
After(w, e) ==
  IF worker[w].todo = {e} THEN Idle
  ELSE [worker[w] EXCEPT !.pc = "resolve", !.todo = @ \ {e}]

\* registerCfg, and on to the next ad unit.
Register(w) ==
  LET e == Current(w) IN
  /\ worker[w].pc = "register"
  /\ cfgs' = Put(cfgs, e.id, Config(e, worker[w].camp, worker[w].demand, worker[w].extra))
  /\ overtaken' = IF e.id \in worker[w].late THEN overtaken \cup {e.id}
                  ELSE overtaken \ {e.id}
  /\ direct' = direct \ {e.id}
  /\ worker' = [Overtake(w, e.id) EXCEPT ![w] = After(w, e)]
  /\ UNCHANGED <<units, campaigns, used, serving, changes, orphans>>

Unregister(w) ==
  LET e == Current(w) IN
  /\ worker[w].pc = "unregister"
  /\ cfgs' = Without(cfgs, e.id)
  /\ overtaken' = overtaken \ {e.id}
  /\ direct' = direct \ {e.id}
  /\ worker' = [Overtake(w, e.id) EXCEPT ![w] = Idle]
  /\ UNCHANGED <<units, campaigns, used, serving, changes, orphans>>

\* AdServerConfigEndpoint, POST: the configuration is stored under the
\* placement it names, in one step and without a look at the ad units.
PostConfig(u) ==
  /\ serving
  /\ changes < MaxChanges
  /\ changes' = changes + 1
  /\ cfgs' = Put(cfgs, u, Config(Unit(u, changes', NoCampaign, << >>), NoCampaign, 0, << >>))
  /\ direct' = direct \cup {u}
  /\ UNCHANGED <<units, campaigns, used, worker, serving, overtaken, orphans>>

\* AdServerConfigEndpoint, DELETE: the ad unit, if there is one, stays.
DeleteConfig(u) ==
  /\ serving
  /\ changes < MaxChanges
  /\ changes' = changes + 1
  /\ u \in DOMAIN cfgs
  /\ cfgs' = Without(cfgs, u)
  /\ direct' = direct \cup {u}
  /\ UNCHANGED <<units, campaigns, used, worker, serving, overtaken, orphans>>

Step(w) == List(w) \/ Resolve(w) \/ Demand(w) \/ Extra(w) \/ Register(w) \/ Unregister(w)

Next ==
  \/ Serve
  \/ \E u \in UnitIds : PostConfig(u) \/ DeleteConfig(u)
  \/ \E w \in Workers :
       \/ Step(w)
       \/ \E u \in UnitIds : CreateUnit(w, u) \/ UpdateUnit(w, u) \/ DeleteUnit(w, u)
       \/ \E c \in CampaignIds :
            CreateCampaign(w, c) \/ UpdateCampaign(w, c) \/ DeleteCampaign(w, c)

Spec == Init /\ [][Next]_vars

\* Handlers and goroutines run to their end; nobody has to make a change.
FairSpec == Spec /\ WF_vars(Serve) /\ \A w \in Workers : WF_vars(Step(w))

-----------------------------------------------------------------------------

\* Nobody holds the ad unit u or is about to.
AtRest(u) ==
  \A w \in Workers : worker[w].pc # "list" /\ \A e \in worker[w].todo : e.id # u

\* The configuration of u is the one its entry and the campaigns of this
\* moment give; without an entry there is none, unless it was loaded so.
Agrees(u) ==
  IF u \in DOMAIN units THEN u \in DOMAIN cfgs /\ cfgs[u] = ConfigOf(units[u])
  ELSE u \in DOMAIN cfgs => u \in orphans

\* Once the server listens, an ad unit has a configuration or the handler that
\* created it is about to register one, whatever pushes and deletions overlap.
\* When nobody works on an ad unit, its configuration agrees with the stores
\* unless the push that came last had been overtaken by another push or by
\* the deletion.  Reading a campaign while it changes is harmless by itself:
\* the change starts a push of its own (syncPipelineCfg, SyncAllToPipeline).
\* What /video/adserver has set or removed since the last push is excepted
\* from both; the next push of the ad unit ends that.
ConfigsAgree ==
  serving =>
    /\ \A u \in DOMAIN units \ direct :
         u \in DOMAIN cfgs \/ \E w \in Workers : units[u] \in worker[w].todo
    /\ \A u \in UnitIds \ (overtaken \cup direct) : AtRest(u) => Agrees(u)

\* Once the dashboard is left alone, the configuration of every ad unit comes
\* to agree with the stores and stays so, unless its last push had been
\* overtaken or /video/adserver has set it since: every push ends and reaches
\* every ad unit (SyncAllToPipeline).
EventuallyAgree ==
  \A u \in UnitIds : <>[](u \in overtaken \/ u \in direct \/ Agrees(u))

=============================================================================
