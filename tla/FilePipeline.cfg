SPECIFICATION Spec
CONSTANTS
  person = person  column = column
  PERSON = PERSON  COLA = COLA
  ann = ann  ANN = ANN  bob = bob
  annNorm = annNorm  bobNorm = bobNorm
  m1 = m1  m2 = m2
  p1 = p1  p2 = p2

  Namespaces = {person, column}
  Prefixes = {PERSON, COLA}
  PrefixOf <- MCPrefixOf
  Values = {ann, ANN, bob}
  Norms = {annNorm, bobNorm}
  Norm <- MCNorm
  NoValue = NoValue
  MaxNumber = 1
  Paths = {p1, p2}
  Sources = {p1, p2}
  FileName <- MCFileName
  Texts <- MCTexts
  Requests <- MCRequests
  Models = {m1, m2}
  NoModel = NoModel  NoFile = NoFile  NoOut = NoOut  NoJob = NoJob
  MaxRecs = 2
  MaxEra = 1
SYMMETRY Symmetry
INVARIANTS
  TypeOK TokensDistinct  NeverWrongValue
  MemoryMatchesDisk ReplayStable ModelSwitchesMarked
