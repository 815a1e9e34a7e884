CONSTANTS
  Day = 4
  DefaultTtl = 1
  MaxTtl = 3
  Shifts <- ClockChanges
  Horizon = 11
  Null = Null
SPECIFICATION Spec
INVARIANTS HardMaximum OfferKept
