CONSTANTS
  Gens = {g1, g2, g3}
  NoGen = NoGen
  Options <- WindowOptions
  MaxVersion = 2
  MaxFaults = 0
  MaxStale = 0
SPECIFICATION WindowSpec
PROPERTIES
  AdvancedByDelta
