SPECIFICATION MCSpec
CONSTANTS
  v1 = v1
  v2 = v2
  Edge <- OneTriple
  Value = {v1, v2}
  MaxRows = 2
  ScanCap = 0
  r1 = r1
  r2 = r2
  Vertices = {0, 1, 2}
  Tag = {A, B}
  IndexTag = A
  Scalar = {x}
  Embedding = {e}
  Reader = {r1, r2}
  MaxTags = 2
  MaxLate = 2
  VectorIndexMin = 1
  s1 = s1
  Str = {s1, s2}
  MinVid <- Low
  Hash <- Colliding
  Caller = {c1, c2}
INVARIANT LookupComplete
