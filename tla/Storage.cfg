SPECIFICATION AllSpec
CONSTANTS
  TimeMax = 1
  Entity = {e1}
  Payload = {p1, p2}
  MaxRows = 2
  Missing = Missing
  Localhost = "localhost"
INVARIANTS
  ClusterReadsExact
  EncodingsExact
  PlacementExact
PROPERTY QueryEnds
CHECK_DEADLOCK FALSE
