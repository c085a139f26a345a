\* Three auctions one after the other, one chunk of two sampled, payment over Lightning.
CONSTANTS
  steady = steady
  shaky = shaky
  half = half
  None = None
  Hosts = {steady, shaky, half}
  Chunks = {1, 2}
  Holds <- MCHolds
  Unsteady = {shaky}
  Liars = {half}
  Price <- MCPrice
  Offers <- MCOffers
  Vouch <- MCVouch
  TopScore = 2
  K = 1
  Lightning = TRUE
  MaxRuns = 3
SPECIFICATION Spec
INVARIANTS
  WinnerIsBest
  GoodHostsAreHeard
  AuctionInv
\* The last auction ends.
CHECK_DEADLOCK FALSE
