SPECIFICATION Spec
CONSTANTS
  Threads = {t1, t2}
  Mutexes = {m1}
  Static = {m1}
  Handles = {h1, h2}
  Slots = {1}
  MaxDepth = 1
  FirstUseAlone = FALSE
  Nothing = Nothing
INVARIANT MutualExclusion
CHECK_DEADLOCK FALSE
