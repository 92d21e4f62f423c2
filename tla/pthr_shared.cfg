SPECIFICATION ShimSpec
CONSTANTS
  Threads = {t1, t2, t3}
  Mutexes = {m1, m2}
  Static = {m1}
  Handles = {h1, h2}
  Slots = {1, 2}
  MaxDepth = 2
  FirstUseAlone = TRUE
  Nothing = Nothing
  MaxItems = 2
  StaticOutside = FALSE
  Permits = 2
  Frames = {f1, f2}
  FreedAttr = 7
SYMMETRY MCSymmetry
INVARIANTS MutualExclusion SameLock
INVARIANTS NoLostWakeup PermitsConserved ThreadAsAsked OnceRoutineOnce
