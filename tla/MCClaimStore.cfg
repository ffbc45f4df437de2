SPECIFICATION LiveSpec
CONSTANTS
  None = None
  r1 = r1
  r2 = r2
  r3 = r3
  x1 = x1
  x2 = x2
  Requests = {r1, r2}
  Objects = {x1, x2}
  Writes <- MCWrites
  Named = {r1, r2}
  Refs = {1, 2, 3}
  MaxFailures = 1
  MaxCrashes = 1
INVARIANTS TypeOK AckedIsDurable AckedIsProjected
PROPERTY CacheConverges
