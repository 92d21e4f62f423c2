SPECIFICATION VmSpec
CONSTANTS
  Texts <- MCTexts
  MaxLen = 6
  StrayUnits <- MCStrayUnits
  StrayBytes <- MCStrayBytes
  Null = Null
  Unknown = Unknown
  Keys = {k1}
  Words <- VmWords
  Ints <- VmInts
  Hashes <- VmHashes
  Absent = Absent
  Addresses = {a1, a2}
  Held = {h1, h2}
  MaxLength = 2
  MaxObjects = 2
  Values = {0, 1}
  Unset = Unset
  NullRef = NullRef
  Careful = TRUE
INVARIANTS
  ReadsBack
  PreferencesLikeJava
  HeldObjectsAlive
  ReadsLikeJava
PROPERTY
  UnknownMethodsHarmless
