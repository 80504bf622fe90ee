SPECIFICATION Spec
CONSTANTS
  visitor = visitor
  IPs = {visitor}
  Admin = Admin
  PerIp = 1
  GlobalCap = 2
  AdminCap = 1
  LastDay = 0
  Requests = {r1}
  Kinds <- PastedKinds
  MaxInflight = 1
  LlmConcurrency = 1
  ConvWorkers = 1
  LintWorkers = 2
  MaxCalls = 1
  MaxAsks = 2
INVARIANT RefundMeansNoPaidCall
