SPECIFICATION FairSpec
CONSTANTS
  visitor = visitor
  IPs = {visitor}
  Admin = Admin
  PerIp = 1
  GlobalCap = 1
  AdminCap = 1
  LastDay = 0
  Requests = {r1, r2}
  Kinds <- VisitorKinds
  MaxInflight = 1
  LlmConcurrency = 1
  ConvWorkers = 1
  LintWorkers = 1
  MaxCalls = 1
  MaxAsks = 2
PROPERTIES EveryRequestAnswered LlmSlotReturns
