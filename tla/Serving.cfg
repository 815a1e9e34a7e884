CONSTANTS
  MaxBytes = 262144
  Lengths = {0, 1, 2, 3, 262142, 262143, 262144, 262145, 262146, 262147, 269983, 269984, 269985, 360000, 400000, 1048576}
  Envelopes = {150, 250}
  Languages = {en, ca, fr}
  Supported = {en, ca}
  Default = en
  Weights = {0, 1, 2}
  MaxParts = 3
SPECIFICATION ShellSpec
CHECK_DEADLOCK FALSE
INVARIANTS PageAgrees StoredFits Hardened PicksBest OwnLanguage
