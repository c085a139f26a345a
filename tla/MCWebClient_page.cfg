\* One job of two chunks and one host, two requests of a kind under way, one restart.
SPECIFICATION FairSpec
CONSTANTS
  j1 = j1
  h1 = h1
  s1 = s1
  Jobs <- MCJobs
  Hosts <- MCHosts
  Streams <- MCStreams
  JobOf <- MCJobOf
  Asks <- MCAsks
  N = 2
  Slots <- MCSlots
  CanFail = TRUE
INVARIANTS
  RowTellsTheTruth
  PlayedIsAsked
PROPERTIES
  RowSettles
  TableCatchesUp
