SPECIFICATION Spec
CONSTANTS
  MaxDataSeg = 4
  Layouts <- MCLayouts
INVARIANT PatchedBeforeInit
CHECK_DEADLOCK FALSE
