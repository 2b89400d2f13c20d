SPECIFICATION Spec
CONSTANTS
  a = a  b = b  m1 = m1
  absent = absent  broken = broken  noFile = noFile  torn = torn

  Names <- MCNames
  Items <- MCItems
  MaxId = 2
  MaxBackups = 1
  MaxFaults = 1
  Ageing = {2}  Governed = {1}  Exportable = {2}
  Absent <- absent  Broken <- broken  NoFile <- noFile  Torn <- torn
INVARIANTS
  TypeOK Recoverable NothingLeftToRead
PROPERTIES
  KeepsItsPromises CleanupSparesActive PurgeBackedUp
CHECK_DEADLOCK FALSE
SYMMETRY MCSymmetry
