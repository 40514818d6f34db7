CONSTANTS
  Gens = {g1, g2, g3}
  NoGen = NoGen
  Options <- IncompatibleOptions
  MaxVersion = 1
  MaxFaults = 0
  MaxStale = 0
SPECIFICATION Spec
INVARIANTS
  StopsWhenUnmatched
