SPECIFICATION Spec
CONSTANTS
  None = None
  r1 = r1
  r2 = r2
  r3 = r3
  x1 = x1
  x2 = x2
  Requests = {r1, r2, r3}
  Objects = {x1, x2}
  Writes <- ThreeWrites
  Named = {}
  Refs = {1, 2, 3, 4}
  MaxFailures = 0
  MaxCrashes = 0
CONSTRAINT NoReaders
INVARIANT AcceptedIsDurable
