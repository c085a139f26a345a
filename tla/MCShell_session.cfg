\* A session of a shell beside other hosts and a peer, in three scripts.
CONSTANTS
  web = web
  shell = shell
  single = single
  port1 = port1
  port2 = port2
  v1 = v1
  v2 = v2
  v3 = v3
  h1 = h1
  h2 = h2
  h3 = h3
  stale = stale
  n1 = n1
  n2 = n2
  a1 = a1
  a2 = a2
  b1 = b1
  c1 = c1
  None = None
  Nobody = Nobody
  Jobs = {web, shell, single}
  Web = {web}
  Hosted = {shell}
  FileArg <- MCFileArg
  PortOf <- MCPortOf
  Manifest <- TwoFiles
  Added <- MCAdded
  Chunked = {h1, h2, h3}
  Missing = {}
  Nodes = {n1, n2}
  Announces = {a1, a2, b1, c1}
  Mine = {a1, a2}
  HostOf <- MCHostOf
  Title <- MCTitle
  Scripts <- MCScripts
SPECIFICATION Spec
INVARIANTS
  AnnouncedIsServed
  ActiveIsReady
  OnlyRacesDrop
\* A session ends with quit or Ctrl-C.
CHECK_DEADLOCK FALSE
