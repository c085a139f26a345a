\* A job with every kind of vouch and one that only records, on one file.
CONSTANTS
  peer = peer
  alice = alice
  carol = carol
  mallory = mallory
  good = good
  stale = stale
  fake = fake
  forged = forged
  None = None
  Empty = Empty
  Garbled = Garbled
  Jobs = {1, 2}
  Peers = {peer}
  Signers = {alice, carol, mallory}
  Vouches = {good, stale, fake, forged}
  Arrives <- MCArrives
  Genuine = {good, stale, fake}
  SignerOf <- MCSignerOf
  PeerOf <- MCPeerOf
  Passes <- MCPasses
  Fails <- MCFails
  Age <- MCAge
  Oldest = 2
  Ahead = 1
  Revocations <- MCRevocations
  Trust <- MCTrust
  Outcomes <- MCOutcomes
  MaxVouches = 3
SPECIFICATION Spec
INVARIANTS
  ScoreIsAMean
  OnlyRacesLoseHistory
PROPERTIES
  ScoreMovesForAReason
