CONSTANTS
  Null = Null
  p = p
  t1 = t1
  t2 = t2
  right = right
  wrong = wrong
  Senders = {p}
  Readers = {t1, t2}
  Pages = {p, t1, t2}
  Passphrases = {right, wrong}
  MaxDraws = 2
  MaxTries = 2
  MaxFailures = 2
  MaxBroken = 1
  Damaged = FALSE
SPECIFICATION FairSpec
CHECK_DEADLOCK FALSE
INVARIANTS NotWasted
PROPERTIES OneReader RefinesOneTimeSecret SubmitEnds RevealEnds
