CONSTANTS
  Null = Null
  p = p
  t1 = t1
  right = right
  wrong = wrong
  Senders = {p}
  Readers = {t1}
  Pages = {p, t1}
  Passphrases = {right, wrong}
  MaxDraws = 3
  MaxTries = 2
  MaxFailures = 2
  MaxBroken = 1
  Damaged = TRUE
SYMMETRY Symmetry
SPECIFICATION Spec
CHECK_DEADLOCK FALSE
INVARIANTS TypeOK LinkStored NoOrphans
PROPERTIES TypoIsSafe
