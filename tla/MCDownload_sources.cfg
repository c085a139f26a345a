\* An honest host of two files, a lying one, and a tunneled one that may break,
\* into a file that may not be written.
CONSTANTS
  j1 = j1
  j2 = j2
  j3 = j3
  both = both
  single = single
  liar = liar
  big = big
  small = small
  None = None
  Junk = Junk
  MaxChunks = 2
  Jobs = {j1, j2, j3}
  Hosts = {both, single, liar}
  Honest = {both, single}
  Flaky = {liar, single}
  Contents = {big, small}
  Archive <- MCArchive
  NChunks <- MCNChunks
  Target <- EachTarget
  Wanted <- EachWanted
  Tunneled = {j3}
  Path <- EachPath
  Troubled = {3}
SPECIFICATION FairSpec
INVARIANTS
  DoneIsComplete
  OnlyVerifiedBytes
PROPERTIES
  HonestCompletes
\* Every job ends.
CHECK_DEADLOCK FALSE
