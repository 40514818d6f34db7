CONSTANTS
  Tables = {1, 2}
  Names = {1, 2}
  Selections <- AllOrFirst
  Parts <- ThreeParts
  Starts <- FirstTwo
  Created <- LastMissing
  MaxVersion = 2
  MaxColumns = 2
  MaxChanges = 2
  MaxFaults = 1
SPECIFICATION FairSpec
INVARIANTS
  TypeOK
  CreatedFirst
  CleanCycle
  RecordedShown
PROPERTIES
  LoopAsRecorded
  OnlySelected
  EventuallySynced
  ProgressCompletes
