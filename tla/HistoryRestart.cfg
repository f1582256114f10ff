SPECIFICATION MCSpec
CONSTANTS
  s1 = s1
  s2 = s2
  a = a
  c = c
  p = p
  Person = Person
  c1 = c1
  c2 = c2
  Space = {s1, s2}
  Entity = {a, c}
  SpaceOf <- OneInEach
  Payload = {p1}
  MaxRows = 2
  MaxClock = 4
  MaxTx = 4
  TimeMax = 5
  MaxOrphans = 0
  QuickRestart = TRUE
PROPERTIES
  AppendOnly
