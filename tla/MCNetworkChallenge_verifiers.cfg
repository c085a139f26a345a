\* Two verifiers, the relay and two holders, one of which is stopped.
SPECIFICATION FairSpec
CONSTANTS
  v1 = v1
  v2 = v2
  h1 = h1
  h2 = h2
  r = r
  Verifiers <- Two
  Holders <- TwoHolders
  Relay = r
  Upstream = h1
  Baseline = h2
  NSamples = 1
  MaxKills = 1
INVARIANTS
  WaitingIsQueued
PROPERTIES
  EveryRunEnds
\* Verifiers end and servers wait: the system may stop.
CHECK_DEADLOCK FALSE
