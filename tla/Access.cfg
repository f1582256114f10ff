SPECIFICATION MCSpec
CONSTANTS
  o1 = o1
  o2 = o2
  Account = {u}
  Password = {p, q}
  Role = {"ADMIN"}
  Sid = {1}
  Client = {c}
  Operator = {o1, o2}
  Ttl = 2
  Name = {u, x}
  Source = {s}
  Attempt = {l1, l2}
  AccountLimit = 2
  SourceLimit = 3
  Window = 2
  MaxKeys = 2
  MaxFailed = 2
  Lockout = 1
  MaxVerifications = 1
INVARIANTS
  RolesCurrent
  ThrottleExact
PROPERTIES
  AloneConverges
  AccessRecovers
