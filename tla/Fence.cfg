SPECIFICATION MCSpec
CONSTANTS
  p = p
  q = q
  Person = Person
  c1 = c1
  c2 = c2
  Vid = {1, 2, 3}
  EdgeType <- TwoTypes
  Class = {Person}
  Client = {c1, c2}
  Ops = {"Read", "Check", "Dml", "Ddl", "Repair"}
  Assertable <- ChainEdges
  Catalog <- ChainCatalog
  Cap = 4
  Relaxed = TRUE
  MaxOrphans = 0
INVARIANTS CleanMeansComplete RebuildExact
PROPERTY ReadersUndisturbed
