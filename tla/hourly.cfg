CONSTANTS
  r0 = r0
  r1 = r1
  r2 = r2
  Rows = {r0, r1, r2}
  HourOf <- RowHours
  Zones <- CommonZones
  MaxHour = 5
  MaxFaults = 2
SPECIFICATION FairSpec
INVARIANTS
  TypeOK
  AtMostOnce
  NoRowLost
  CursorCovers
PROPERTIES
  ImplementsCopy
  CatchesUp
