SPECIFICATION Spec
CONSTANTS
  Keys = {k1, k2}
  Vals <- MCVals
  Suppress <- MCSuppress
  Absent = Absent
  NullValue = NullValue
  NoFile = NoFile
  EmptyFile = EmptyFile
  TornFile = TornFile
  Faults = {"crash", "read", "get", "entry", "encode", "open_tmp", "backup"}
INVARIANTS
  TypeOK
PROPERTIES
  Durability
