SPECIFICATION Spec
CONSTANTS
  n1 = n1
  n2 = n2
  n3 = n3
  Node = {n1, n2, n3}
  MaxTerm = 3
  MaxLog = 2
  MaxFlight = 2
  MaxEntries = 1
  LateReplies = FALSE
SYMMETRY Members
INVARIANTS
  ElectionSafety
  LogsAgree
PROPERTIES
  CommitsStay
CHECK_DEADLOCK FALSE
