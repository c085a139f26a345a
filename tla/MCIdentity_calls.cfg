\* Four calls that overlap as they like, one of them killed.
CONSTANTS
  c1 = c1
  c2 = c2
  c3 = c3
  c4 = c4
  Calls = {c1, c2, c3, c4}
  Legacy = Legacy
  NoKey = NoKey
  Unset = Unset
  Concurrent = TRUE
  MaxCrashes = 1
SPECIFICATION KeySpec
SYMMETRY Symmetry
INVARIANTS
  StableKey
PROPERTIES
  SettledForGood
\* Calls end.
CHECK_DEADLOCK FALSE
