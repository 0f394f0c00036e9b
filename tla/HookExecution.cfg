SPECIFICATION FairSpec
CONSTANTS
  h1 = h1
  h2 = h2
  h3 = h3
  unknown = unknown
  m1 = m1
  m2 = m2
  Scrub = scrub
  Earlier = earlier
  NoPlan = noPlan
  Hooks <- MCHooks
  Configs <- MCConfigs
  DefaultPlan <- MCDefaultPlan
  Modules <- MCModules
  ModuleOf <- MCModuleOf
  Stages = {"raw_auction_request", "bidder_request", "auction_response"}
  Denied <- MCDenied
INVARIANTS TypeOK EveryHookReported PayloadExplained RejectionEndsStage ContextKept
PROPERTIES EventuallyQuiet
CHECK_DEADLOCK FALSE
