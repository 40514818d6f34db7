CONSTANTS
  Procs = {p1, p2}
  Args = {a1, a2}
  None = None
  Overlap = {TRUE, FALSE}
SPECIFICATION Spec
INVARIANTS
  TypeOK
  OneTaskModeApart
  KindsApart
  ServiceAgrees
PROPERTIES
  SettingsFixed
