--------------------------- MODULE MCHookExecution --------------------------
(***************************************************************************)
(* HookExecution with four configurations: two groups, one of two hooks,   *)
(* of the host and of the account or of the default; one group of three    *)
(* hooks, two of them of one module; an unknown hook; and no hook at all.  *)
(***************************************************************************)
EXTENDS HookExecution

CONSTANTS h1, h2, h3, unknown, m1, m2

MCHooks == {h1, h2, h3}
MCModules == {m1, m2}
MCModuleOf == [h \in MCHooks |-> IF h = h2 THEN m2 ELSE m1]
MCDenied == {h2, h3}
MCDefaultPlan == <<{unknown}, {h3}>>
MCConfigs == {[host |-> <<{h1, h2}>>, account |-> NoPlan],
              [host |-> <<{unknown}, {h3}>>, account |-> <<{h1, h2}>>],
              [host |-> << >>, account |-> <<{h1, h2, h3}>>],
              [host |-> <<{unknown}>>, account |-> << >>]}
=============================================================================
