SPECIFICATION Spec
CONSTANTS
  n1 = n1
  n2 = n2
  n3 = n3
  Node = {n1, n2, n3}
  MaxTerm = 3
  MaxLog = 2
  MaxFlight = 4
  MaxEntries = 3
  LateReplies = TRUE
SYMMETRY Members
INVARIANTS
  ElectionSafety
CHECK_DEADLOCK FALSE
