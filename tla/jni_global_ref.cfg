SPECIFICATION Spec
CONSTANTS
  Addresses = {a1, a2}
  Held = {h1, h2}
  MaxLength = 1
  MaxObjects = 2
  Values = {0}
  Unset = Unset
  NullRef = NullRef
  Careful = FALSE
INVARIANT HeldObjectsAlive
