SPECIFICATION Spec
CONSTANTS
  Items <- MCItems
  Flags <- MCFlags
  Generations = 5
  Fingers = {}
  Pad = {"L1", "R1", "UP", "DOWN", "CROSS"}
INVARIANTS
  MenuFrameCurrent
  ShouldersPaired
PROPERTIES
  ActsOnlyAfterRelease
  MenuOwnsButtons
  OneEffectPerPress
  ChordTogglesOnce
