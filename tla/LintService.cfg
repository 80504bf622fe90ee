SPECIFICATION Spec
CONSTANTS
  visitor = visitor
  IPs = {visitor}
  Admin = Admin
  PerIp = 1
  GlobalCap = 2
  AdminCap = 1
  LastDay = 1
  Requests = {r1, r2}
  Kinds <- MixedKinds
  MaxInflight = 2
  LlmConcurrency = 1
  ConvWorkers = 1
  LintWorkers = 2
  MaxCalls = 2
  MaxAsks = 2
SYMMETRY AnyRequest
INVARIANTS TypeOK PermitsConserved WorkOnlyForWaiting KeptChargeExplained PaidCallsCharged HonestReport
PROPERTY ImplementsLedger
