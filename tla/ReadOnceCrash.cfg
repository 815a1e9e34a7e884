CONSTANTS
  Workers = {w1, w2}
  Slugs = {s1}
  Blobs = {b1, b2}
  Verifiers = {}
  Null = Null
  Malformed = Malformed
  MaxAttempts = 2
  LockTime = 1
  Lifetimes = {1}
  EndOfTime = 1
  FailBound = 3
  MayCrash = TRUE
SPECIFICATION Spec
SYMMETRY Symmetry
INVARIANTS ReadOnce NoResurrection AckedSurvives Custody
PROPERTIES RefinesOneTimeSecret
