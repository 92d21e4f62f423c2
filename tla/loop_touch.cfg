SPECIFICATION Spec
CONSTANTS
  Items <- MCCallItems
  Flags = {}
  Generations = 5
  Fingers = {1, 2}
  Pad = {"L1", "R1", "DOWN", "CIRCLE"}
INVARIANTS NoGhostTouch UnwantedTouchesHidden
PROPERTIES SingleTouchStream ReleaseRearms
