CONSTANTS
  Gens = {g1, g2, g3}
  NoGen = NoGen
  Options <- SafetyOptions
  MaxVersion = 3
  MaxFaults = 2
  MaxStale = 1
SPECIFICATION Spec
SYMMETRY Symmetry
INVARIANTS
  TypeOK
  BackupSound
  CheckpointSound
  MonitoredShown
  TargetWhole
PROPERTIES
  RefreshesForward
