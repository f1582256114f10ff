SPECIFICATION Spec
CONSTANTS
  One = 4
  Near = 1
  IntMax = 7
  SizeMax = 1000
  FloatInf = 100
INVARIANT OntologySound
PROPERTIES
  ConditionsAgree
  MatchExact
  WalksExact
  ReadsExact
  SchemaSteps
CHECK_DEADLOCK FALSE
