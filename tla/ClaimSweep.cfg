CONSTANTS
  Workers = {w1}
  Slugs = {s1}
  Blobs = {b1}
  Verifiers = {}
  Null = Null
  Malformed = Malformed
  MaxAttempts = 2
  LockTime = 1
  Lifetimes = {1}
  EndOfTime = 1
  FailBound = 3
  MayCrash = FALSE
SPECIFICATION FairSpec
PROPERTIES SweptHourly
