\* The naive auction, three rounds of challenges and three of nonces.
CONSTANTS
  alice = alice
  carol = carol
  mallory = mallory
  reyna = reyna
  None = None
  Order <- MCOrder
  Chunks = {1, 2, 3}
  Holds <- MCHolds
  Cheats = {mallory}
  PriceRange <- MCPriceRange
  Source <- MCSource
  LocalLatency = {5, 25}
  RelayLatency = {120, 250}
  Bound = 60
  MaxRounds = 3
SPECIFICATION RoundsSpec
INVARIANTS
  WinnerHolds
  GateIsFair
  PassersHold
\* The rounds end.
CHECK_DEADLOCK FALSE
