CONSTANTS
  Runs = {r1, r2}
  Temps = {t1, t2}
  TempAttempts = 2
  None = None
SYMMETRY Symmetry
SPECIFICATION Spec
INVARIANTS
  TypeOK
  DestinationWhole
  NoTempLeft
  PairFromOneRun
PROPERTIES
  PermissionsKept
