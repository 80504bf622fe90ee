SPECIFICATION Spec
CONSTANTS
  IPs = {a, b}
  Admin = Admin
  Free = Free
  PerIp = 2
  GlobalCap = 3
  AdminCap = 1
  LastDay = 1
SYMMETRY Visitors
INVARIANTS TypeOK DailyCaps CrashKeepsCharges CapUpToStaleRefunds RefusedOnlyWhenSpent RemainingHonest
PROPERTIES ImplementsLedger DisplayFollowsCharges
