SPECIFICATION Spec
CONSTANTS
  Calls = {c1}
  Upgrades = FALSE
  None = None
INVARIANTS NotChangedIsTrue
