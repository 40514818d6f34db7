CONSTANTS
  t1 = t1
  t2 = t2
  Tables = {t1, t2}
  Parts = {1, 2, 3}
  TableOf <- PartTables
  MaxVersion = 2
  MaxFaults = 1
SPECIFICATION Spec
INVARIANTS
  TypeOK
  CheckedFirst
  StoppedByError
  DoneComplete
