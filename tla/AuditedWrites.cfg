SPECIFICATION Spec
CONSTANTS
  Calls = {c1, c2}
SYMMETRY Symmetric
CHECK_DEADLOCK FALSE
INVARIANTS AuthorizedBeforeDispatch AppliedAtMostOnce SucceededWasApplied
PROPERTIES OutcomeIsFinal
