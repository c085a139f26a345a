\* Two hosts of one content and a download of it, fair threads.
CONSTANTS
  h1 = h1
  h2 = h2
  d1 = d1
  d2 = d2
  t1 = t1
  t2 = t2
  None = None
  Hosts = {h1, h2}
  Downloads = {d1}
  Tokens = {t1}
  HostToken <- SameToken
  WantedToken <- WantSame
  MaxRequests = 1
SPECIFICATION FairSpec
PROPERTIES
  GoneHostForgotten
  ConnectReturns
  MetDataReturns
\* Every connection may be closed and every host gone: the system may stop.
CHECK_DEADLOCK FALSE
