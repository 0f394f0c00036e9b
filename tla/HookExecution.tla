---------------------------- MODULE HookExecution ---------------------------
(***************************************************************************)
(* One stage of module hooks (executeStage in                              *)
(* hooks/hookexecution/execution.go, called by every Execute...Stage of    *)
(* executor.go).  The groups of the plan run one after the other.  Within  *)
(* a group every hook has two goroutines: one calls the hook, the other    *)
(* (executeHook) waits for its answer, for its time-out or for the         *)
(* rejection of the request, and hands one response to the collector over  *)
(* a buffered channel that a third goroutine closes once all of them have  *)
(* returned.  The collector then handles the responses in the order in     *)
(* which they arrived.                                                     *)
(*                                                                         *)
(* A payload is the sequence of the changes made to it, each named after   *)
(* the hook that asked for it.  A hook may answer, fail, panic or never    *)
(* return; what it answered, one of Kinds, shows when executeHook receives *)
(* the answer.  Every hook whose answer is received passes one             *)
(* value to later stages, in its module's context, named after the hook.   *)
(***************************************************************************)
EXTENDS Integers, Sequences, FiniteSets

CONSTANTS Hooks,       \* hooks the repository of modules knows
          Configs,     \* configured plans: [host, account], sequences of groups
          DefaultPlan, \* DefaultAccountExecutionPlan
          NoPlan,      \* an account without a plan of its own
          Modules,     \* modules the hooks belong to
          ModuleOf,    \* module of a hook
          Stages,      \* names of stages
          Denied,      \* hooks that may not see user data or precise location
          Scrub,       \* the change that removes those from a payload
          Earlier      \* what a module kept from an earlier stage

VARIABLES
  plan,        \* groups of the stage, in order, each a set of hooks
  stage,       \* name of the stage
  g,           \* group being executed
  phase,       \* what the goroutine of the stage does
  hook,        \* state of the goroutine that calls the hook
  exec,        \* state of executeHook
  msg,         \* response executeHook has chosen to send
  given,       \* payload the hook was called with
  resp,        \* responses in the channel of a group
  closed,      \* groups whose response channel is closed
  rejected,    \* groups whose rejection channel is closed
  collected,   \* responses collected and not handled yet
  outcomes,    \* what the stage reports, in order
  base,        \* payload before the group
  payload,
  groupCtx,    \* module contexts of the current group
  stageCtx,    \* module contexts of the groups that are over
  saved        \* module contexts kept for later stages

vars == <<plan, stage, g, phase, hook, exec, msg, given, resp, closed, rejected,
          collected, outcomes, base, payload, groupCtx, stageCtx, saved>>

Kinds == {"noop", "update", "badupdate", "error", "reject", "errorreject"}
Statuses == {"none", "updated", "failed", "timeout", "rejected"}

\* Result.Reject of a response: a hook may set it together with an error.
Rejects(kind) == kind \in {"reject", "errorreject"}

\* Whether the stage supports rejection.
IsRejectable ==
  stage \notin {"all_processed_bid_responses", "auction_response", "exitpoint"}

\* The stages whose payload is a request that can be scrubbed (RequestUpdater).
UpdatesRequest == stage \in {"processed_auction_request", "bidder_request"}

\* The stages that use the payload executeStage returns: a body or a response.  At
\* the others the payload points to what the auction uses, and a change is made
\* there at once.
UsesReturned == stage \in {"entrypoint", "raw_auction_request", "exitpoint"}

Response(h, kind) == [hook |-> h, kind |-> kind]

GroupIds == 1 .. Cardinality(Hooks)
Groups == DOMAIN plan
GroupOf(h) == CHOOSE k \in Groups : h \in plan[k]

\* The elements of s that are in the set S, in their order: SelectSeq for a
\* test given by a set, which the proofs can reason about.
Only(s, S) ==
  LET upTo[n \in 0 .. Len(s)] ==
        IF n = 0 THEN << >>
        ELSE IF s[n] \in S THEN Append(upTo[n - 1], s[n]) ELSE upTo[n - 1]
  IN upTo[Len(s)]

\* Mutant of GetPlan: hooks nobody provides stay in their groups.
GetPlanUnchecked(cfg) == Only(cfg, {cfg[i] : i \in DOMAIN cfg} \ {{}})

\* getPlan: hooks nobody provides are left out, and so are empty groups.
GetPlan(cfg) == Only([i \in DOMAIN cfg |-> cfg[i] \cap Hooks], (SUBSET Hooks) \ {{}})

AccountPlan(c) == IF c.account = NoPlan THEN DefaultPlan ELSE c.account

\* getMergedPlan: the groups of the host, then those of the account.
MergedPlan(c) == GetPlan(c.host) \o GetPlan(AccountPlan(c))

\* A configured plan is a sequence of groups.
ASSUME ConfigAssumption ==
  \A c \in Configs : \A cfg \in {c.host, AccountPlan(c)} :
    Len(cfg) \in Nat /\ DOMAIN cfg = 1 .. Len(cfg)
\* The state of a hook is kept per hook: it is in one group of the plan.
ASSUME PlanAssumption ==
  \A c \in Configs : \A j, k \in DOMAIN MergedPlan(c) :
    j # k => MergedPlan(c)[j] \cap MergedPlan(c)[k] = {}
ASSUME FiniteAssumption == IsFiniteSet(Hooks)
ASSUME ModuleAssumption == ModuleOf \in [Hooks -> Modules]
ASSUME NameAssumption == Scrub \notin Hooks /\ Earlier \notin Hooks

NoContext == [m \in Modules |-> {}]

Init ==
  /\ plan \in {MergedPlan(c) : c \in Configs}
  /\ stage \in Stages
  /\ g = 1
  /\ phase = IF plan = << >> THEN "done" ELSE "start"
  /\ hook = [h \in Hooks |-> "idle"]
  /\ exec = [h \in Hooks |-> "idle"]
  /\ msg = [h \in Hooks |-> "none"]
  /\ given = [h \in Hooks |-> << >>]
  /\ resp = [k \in GroupIds |-> << >>]
  /\ closed = {}
  /\ rejected = {}
  /\ collected = << >>
  /\ outcomes = << >>
  /\ base = << >>
  /\ payload = << >>
  /\ groupCtx = NoContext
  /\ stageCtx = NoContext
  /\ saved = [m \in Modules |-> {Earlier}]

\* handleModuleActivities: a hook without permission gets a scrubbed copy of a
\* request.  At the stages that have another payload it gets that one.
ModulePayload(h) == IF UpdatesRequest /\ h \in Denied THEN Append(payload, Scrub) ELSE payload

StartGroup ==
  /\ phase = "start"
  /\ phase' = "collect"
  /\ hook' = [h \in Hooks |-> IF h \in plan[g] THEN "running" ELSE hook[h]]
  /\ exec' = [h \in Hooks |-> IF h \in plan[g] THEN "waiting" ELSE exec[h]]
  /\ given' = [h \in Hooks |-> IF h \in plan[g] THEN ModulePayload(h) ELSE given[h]]
  /\ base' = payload
  /\ collected' = << >>
  /\ groupCtx' = NoContext
  /\ UNCHANGED <<plan, stage, g, msg, resp, closed, rejected, outcomes, payload,
                 stageCtx, saved>>

\* The hook returns; the answer waits in a channel of its own.
HookAnswers(h) ==
  /\ hook[h] = "running"
  /\ hook' = [hook EXCEPT ![h] = "answered"]
  /\ UNCHANGED <<plan, stage, g, phase, exec, msg, given, resp, closed, rejected,
                 collected, outcomes, base, payload, groupCtx, stageCtx, saved>>

\* The panic is recovered and there is no answer.
HookPanics(h) ==
  /\ hook[h] = "running"
  /\ hook' = [hook EXCEPT ![h] = "panicked"]
  /\ UNCHANGED <<plan, stage, g, phase, exec, msg, given, resp, closed, rejected,
                 collected, outcomes, base, payload, groupCtx, stageCtx, saved>>

\* The select of executeHook: any branch that is ready.
ChooseAnswer(h) ==
  /\ hook[h] = "answered"
  /\ exec' = [exec EXCEPT ![h] = "sending"]
  /\ \E kind \in Kinds : msg' = [msg EXCEPT ![h] = kind]

ChooseTimeout(h) ==
  /\ exec' = [exec EXCEPT ![h] = "sending"]
  /\ msg' = [msg EXCEPT ![h] = "timeout"]

ChooseRejected(h) ==
  /\ GroupOf(h) \in rejected
  /\ exec' = [exec EXCEPT ![h] = "left"]
  /\ UNCHANGED msg

\* Mutant of Select: the time-out is not one of the branches.
SelectWithoutTimeout(h) ==
  /\ exec[h] = "waiting"
  /\ ChooseAnswer(h) \/ ChooseRejected(h)
  /\ UNCHANGED <<plan, stage, g, phase, hook, given, resp, closed, rejected,
                 collected, outcomes, base, payload, groupCtx, stageCtx, saved>>

Select(h) ==
  /\ exec[h] = "waiting"
  /\ ChooseAnswer(h) \/ ChooseTimeout(h) \/ ChooseRejected(h)
  /\ UNCHANGED <<plan, stage, g, phase, hook, given, resp, closed, rejected,
                 collected, outcomes, base, payload, groupCtx, stageCtx, saved>>

\* Capacity of the channel of responses of a group.
RespCapacity(k) == Cardinality(plan[k])

\* Mutant of SendResponse: executeHook waits on after it has reported a time-out.
SendAndWaitOn(h) ==
  LET k == GroupOf(h) IN
  /\ exec[h] = "sending"
  /\ Len(resp[k]) < RespCapacity(k)
  /\ resp' = [resp EXCEPT ![k] = Append(@, Response(h, msg[h]))]
  /\ exec' = [exec EXCEPT ![h] = IF msg[h] = "timeout" THEN "waiting" ELSE "sent"]
  /\ UNCHANGED <<plan, stage, g, phase, hook, msg, given, closed, rejected,
                 collected, outcomes, base, payload, groupCtx, stageCtx, saved>>

\* resp <- ..., which blocks when the channel is full.
SendResponse(h) ==
  LET k == GroupOf(h) IN
  /\ exec[h] = "sending"
  /\ Len(resp[k]) < RespCapacity(k)
  /\ resp' = [resp EXCEPT ![k] = Append(@, Response(h, msg[h]))]
  /\ exec' = [exec EXCEPT ![h] = "sent"]
  /\ UNCHANGED <<plan, stage, g, phase, hook, msg, given, closed, rejected,
                 collected, outcomes, base, payload, groupCtx, stageCtx, saved>>

\* wg.Wait(): every executeHook of the group has returned.
AllReturned(k) == \A h \in plan[k] : exec[h] \in {"sent", "left"}

CloseResponses(k) ==
  /\ k \in Groups \ closed
  /\ AllReturned(k)
  /\ closed' = closed \cup {k}
  /\ UNCHANGED <<plan, stage, g, phase, hook, exec, msg, given, resp, rejected,
                 collected, outcomes, base, payload, groupCtx, stageCtx, saved>>

\* collectHookResponses: one response, and no other once a hook has rejected.
Collect ==
  /\ phase = "collect"
  /\ resp[g] # << >>
  /\ LET r == Head(resp[g]) IN
     /\ resp' = [resp EXCEPT ![g] = Tail(@)]
     /\ collected' = Append(collected, r)
     /\ rejected' = IF Rejects(r.kind) THEN rejected \cup {g} ELSE rejected
     /\ phase' = IF Rejects(r.kind) THEN "handle" ELSE "collect"
  /\ UNCHANGED <<plan, stage, g, hook, exec, msg, given, closed, outcomes, base,
                 payload, groupCtx, stageCtx, saved>>

\* The channel is empty and closed.
CollectEnds ==
  /\ phase = "collect"
  /\ resp[g] = << >>
  /\ g \in closed
  /\ phase' = "handle"
  /\ UNCHANGED <<plan, stage, g, hook, exec, msg, given, resp, closed, rejected,
                 collected, outcomes, base, payload, groupCtx, stageCtx, saved>>

\* Mutant of StatusOf: every stage supports rejection.
StatusOnAnyStage(r) ==
  CASE r.kind = "timeout"                -> "timeout"
    [] r.kind = "noop"                   -> "none"
    [] r.kind = "update"                 -> "updated"
    [] r.kind \in {"badupdate", "error"} -> "failed"
    [] Rejects(r.kind)                   -> "rejected"

\* What is reported of a response: handleHookError, handleHookReject and
\* handleHookMutations.
StatusOf(r) ==
  CASE r.kind = "timeout"                -> "timeout"
    [] r.kind = "noop"                   -> "none"
    [] r.kind = "update"                 -> "updated"
    [] r.kind \in {"badupdate", "error"} -> "failed"
    [] Rejects(r.kind)                   -> IF IsRejectable THEN "rejected" ELSE "failed"

\* The payload after the changes a response asks for.
Mutated(r) == IF r.kind = "update" THEN Append(payload, r.hook) ELSE payload

\* Mutant of ContextOf: the context of a hook that failed is dropped.
ContextOfSuccess(r) == IF r.kind \in {"timeout", "error"} THEN {} ELSE {r.hook}

\* The module context of a response: a time-out has none.
ContextOf(r) == IF r.kind = "timeout" THEN {} ELSE {r.hook}

\* moduleContexts.put: the values of the new context are added to the old one.
Merged(old, new) == [m \in Modules |-> old[m] \cup new[m]]

\* saveModuleContexts, when the stage is over.
SaveContexts(ctx) == saved' = Merged(saved, Merged(stageCtx, ctx))

\* Mutant of PayloadOfRejected: the changes of the rejecting group always stay.
PayloadSoFar == payload

\* The payload when a group rejects: executeStage returns the one before the group,
\* but changes made in place stay.
PayloadOfRejected == IF UsesReturned THEN base ELSE payload

HandleResponse ==
  /\ phase = "handle"
  /\ collected # << >>
  /\ LET r == Head(collected)
         ctx == [groupCtx EXCEPT ![ModuleOf[r.hook]] = ContextOf(r)]
         stops == StatusOf(r) = "rejected"
     IN
     /\ outcomes' = Append(outcomes, [hook |-> r.hook, status |-> StatusOf(r)])
     /\ groupCtx' = ctx
     /\ phase' = IF stops THEN "done" ELSE "handle"
     /\ payload' = IF stops THEN PayloadOfRejected ELSE Mutated(r)
     /\ IF stops THEN SaveContexts(ctx) ELSE UNCHANGED saved
     /\ collected' = Tail(collected)
  /\ UNCHANGED <<plan, stage, g, hook, exec, msg, given, resp, closed, rejected,
                 base, stageCtx>>

\* The group is over: the next one, or the end of the stage.
EndGroup ==
  /\ phase = "handle"
  /\ collected = << >>
  /\ stageCtx' = Merged(stageCtx, groupCtx)
  /\ \/ /\ g < Len(plan)
        /\ g' = g + 1
        /\ phase' = "start"
        /\ UNCHANGED saved
     \/ /\ g = Len(plan)
        /\ phase' = "done"
        /\ SaveContexts(groupCtx)
        /\ UNCHANGED g
  /\ UNCHANGED <<plan, stage, hook, exec, msg, given, resp, closed, rejected,
                 collected, outcomes, base, payload, groupCtx>>

Next ==
  \/ StartGroup \/ Collect \/ CollectEnds \/ HandleResponse \/ EndGroup
  \/ \E h \in Hooks : HookAnswers(h) \/ HookPanics(h) \/ Select(h) \/ SendResponse(h)
  \/ \E k \in GroupIds : CloseResponses(k)

Spec == Init /\ [][Next]_vars

\* The goroutines of the server are scheduled and timers expire.  Nothing is
\* assumed of the hooks: a hook may never return.
Fairness ==
  /\ WF_vars(StartGroup) /\ WF_vars(Collect) /\ WF_vars(CollectEnds)
  /\ WF_vars(HandleResponse) /\ WF_vars(EndGroup)
  /\ \A h \in Hooks : WF_vars(Select(h)) /\ WF_vars(SendResponse(h))
  /\ \A k \in GroupIds : WF_vars(CloseResponses(k))

FairSpec == Spec /\ Fairness

-----------------------------------------------------------------------------

TypeOK ==
  /\ stage \in Stages
  /\ plan \in Seq(SUBSET Hooks)
  /\ g \in Groups \cup {1}
  /\ phase \in {"start", "collect", "handle", "done"}
  /\ hook \in [Hooks -> {"idle", "running", "panicked", "answered"}]
  /\ exec \in [Hooks -> {"idle", "waiting", "sending", "sent", "left"}]
  /\ msg \in [Hooks -> Kinds \cup {"none", "timeout"}]
  /\ given \in [Hooks -> Seq(Hooks \cup {Scrub})]
  /\ resp \in [GroupIds -> Seq([hook : Hooks, kind : Kinds \cup {"timeout"}])]
  /\ \A k \in Groups : Len(resp[k]) <= Cardinality(plan[k])
  /\ closed \subseteq Groups /\ rejected \subseteq Groups
  /\ collected \in Seq([hook : Hooks, kind : Kinds \cup {"timeout"}])
  /\ outcomes \in Seq([hook : Hooks, status : Statuses])
  /\ base \in Seq(Hooks) /\ payload \in Seq(Hooks)
  /\ groupCtx \in [Modules -> SUBSET Hooks]
  /\ stageCtx \in [Modules -> SUBSET Hooks]
  /\ saved \in [Modules -> SUBSET (Hooks \cup {Earlier})]

\* Groups that have been executed to their end.
Over(k) == k < g \/ (k = g /\ phase = "done")

OutcomesOf(h) == {i \in DOMAIN outcomes : outcomes[i].hook = h}

\* No hook is reported twice, and once a group in which nobody rejected is
\* over each of its hooks has been reported, although a hook may answer, time
\* out and panic in any order: executeHook, collectHookResponses.
EveryHookReported ==
  /\ \A i, j \in DOMAIN outcomes : outcomes[i].hook = outcomes[j].hook => i = j
  /\ \A k \in Groups \ rejected : Over(k) =>
       \A h \in plan[k] : OutcomesOf(h) # {}

\* The hooks of hs that were reported to have changed the payload, in order.
UpdatesOf(hs) ==
  LET updates == Only(outcomes, [hook : hs, status : {"updated"}])
  IN [i \in DOMAIN updates |-> updates[i].hook]

StageRejected == \E i \in DOMAIN outcomes : outcomes[i].status = "rejected"

\* The payload of the stage holds the changes reported as made, in the order of
\* the report, and nothing else: not a late change of a hook that timed out, and
\* not what was scrubbed for one hook.  After a rejection it holds nothing of the
\* group that rejected, if the stage uses the payload returned to it; a request or
\* response that is changed in place keeps what the group did before.  A hook is
\* called with the changes of the earlier groups and no other, scrubbed where the
\* payload is a request and the hook has no permission (executeStage,
\* executeGroup, handleModuleActivities, handleHookMutations).
PayloadExplained ==
  /\ payload = UpdatesOf(IF StageRejected /\ UsesReturned THEN Hooks \ plan[g] ELSE Hooks)
  /\ \A h \in Hooks : exec[h] # "idle" =>
       LET before == UpdatesOf(UNION {plan[k] : k \in 1 .. GroupOf(h) - 1})
       IN given[h] = IF UpdatesRequest /\ h \in Denied THEN Append(before, Scrub) ELSE before

\* A rejection ends the stage: it is the last outcome, and no hook of a later
\* group has been or will be called (executeStage, handleHookResponses).
RejectionEndsStage ==
  StageRejected =>
    /\ phase = "done"
    /\ IsRejectable
    /\ outcomes[Len(outcomes)].status = "rejected"
    /\ \A k \in g + 1 .. Len(plan) : \A h \in plan[k] : exec[h] = "idle"

AloneInGroup(h) ==
  \A f \in plan[GroupOf(h)] : ModuleOf[f] = ModuleOf[h] => f = h

\* A stage never takes from a module what it kept from an earlier stage, even
\* when its hooks time out; and when the stage is over, what a hook passes to
\* later stages has been kept, unless another hook of its module ran in the
\* same group: that one's context replaces it (handleHookResponses,
\* saveModuleContexts, moduleContexts.put).
ContextKept ==
  /\ \A m \in Modules : Earlier \in saved[m]
  /\ phase = "done" =>
       \A i \in DOMAIN outcomes :
         LET h == outcomes[i].hook IN
         outcomes[i].status # "timeout" /\ AloneInGroup(h) => h \in saved[ModuleOf[h]]

\* The stage ends whatever its hooks do, and every executeHook returns, also
\* after a rejection has ended the collection and nobody receives from the
\* channel any more.
EventuallyQuiet ==
  <>[](phase = "done" /\ \A h \in Hooks : exec[h] \in {"idle", "sent", "left"})

=============================================================================
