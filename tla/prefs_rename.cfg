SPECIFICATION Spec
CONSTANTS
  Keys = {k1, k2}
  Vals <- MCVals
  Suppress <- MCSuppress
  Absent = Absent
  NullValue = NullValue
  NoFile = NoFile
  EmptyFile = EmptyFile
  TornFile = TornFile
  Faults = {"crash", "rename"}
PROPERTIES
  NeverLosesLastVersion
