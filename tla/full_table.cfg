CONSTANTS
  Gens = {g1, g2}
  Interval = 2
  MaxContent = 3
  MaxFaults = 2
  MaxStale = 1
SPECIFICATION FairSpec
INVARIANTS
  TypeOK
  TargetWhole
  SuccessSound
PROPERTIES
  RefreshesForward
  EventuallyRefreshed
