CONSTANTS
  Workers = {w1, w2}
  Slugs = {s1}
  Blobs = {b1, b2}
  Verifiers = {v1}
  Null = Null
  Malformed = Malformed
  MaxAttempts = 2
  LockTime = 1
  Lifetimes = {2}
  EndOfTime = 1
  FailBound = 1
  MayCrash = TRUE
SPECIFICATION Spec
SYMMETRY Symmetry
INVARIANTS TypeOK
PROPERTIES FailureDurable GateHonoured
