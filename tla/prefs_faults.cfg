SPECIFICATION FairSpec
CONSTANTS
  Keys = {k1, k2}
  Vals <- MCOneVal
  Suppress <- MCAsIs
  Absent = Absent
  NullValue = NullValue
  NoFile = NoFile
  EmptyFile = EmptyFile
  TornFile = TornFile
  Faults = {"crash", "read", "get", "entry", "encode", "open_tmp", "backup",
            "unlink", "rename", "fallback", "write"}
INVARIANTS
  CleanMeansDurable
  OneFailureSurvived
PROPERTIES
  GivenUpForNext
  RetryHeals
