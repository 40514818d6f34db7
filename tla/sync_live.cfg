CONSTANTS
  Gens = {g1, g2, g3}
  NoGen = NoGen
  Options <- OnTimeOptions
  MaxVersion = 2
  MaxFaults = 2
  MaxStale = 1
SPECIFICATION FairSpec
PROPERTIES
  ImplementsReplica
  EventuallySynced
