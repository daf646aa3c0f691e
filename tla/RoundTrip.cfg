SPECIFICATION BodySpec
CONSTANTS Documents <- MCNested
INVARIANTS RoundTrips
CHECK_DEADLOCK FALSE
