CONSTANTS
  Gens = {g1, g2, g3}
  NoGen = NoGen
  Options <- WindowOptions
  MaxVersion = 2
  MaxFaults = 1
  MaxStale = 1
SPECIFICATION WindowFairSpec
INVARIANTS
  DeltaUnreached
  SeedFollowsImport
PROPERTIES
  WindowImplementsReplica
  EventuallyMonitored
