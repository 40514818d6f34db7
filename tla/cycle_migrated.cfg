CONSTANTS
  Tables = {1, 2}
  Names = {1, 2}
  Selections = {{}}
  Parts <- ThreeParts
  Starts <- FirstTwo
  Created <- LastMissing
  MaxVersion = 2
  MaxColumns = 2
  MaxChanges = 1
  MaxFaults = 0
SPECIFICATION FairSpec
PROPERTIES
  MigratedResumes
