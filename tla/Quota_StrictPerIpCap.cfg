SPECIFICATION Spec
CONSTANTS
  IPs = {a, b}
  Admin = Admin
  Free = Free
  PerIp = 1
  GlobalCap = 3
  AdminCap = 1
  LastDay = 1
INVARIANT StrictPerIpCap
