SPECIFICATION Spec
CONSTANTS
  Keys = {k1}
  Words <- MCWords
  Ints <- MCInts
  Hashes <- MCHashes
  Null = Null
  Absent = Absent
PROPERTY
  FlushSaves
