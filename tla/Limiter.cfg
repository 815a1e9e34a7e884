CONSTANTS
  Threads = {t1, t2}
  Clients = {c1, c2}
  Local = Local
  Unknown = Unknown
  Sources = {c1, c2}
  Headers = {c2}
  Limits = {0, 2}
  TicksPerSecond = 2
  WindowSeconds = 1
  NoKey = NoKey
  EndOfTime = 3
SPECIFICATION Spec
SYMMETRY Symmetry
INVARIANTS TypeOK WindowLimit OwnBudget
PROPERTIES RetrySuffices
