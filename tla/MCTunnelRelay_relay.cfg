\* Two hosts of one content, a download of it and one that nobody hosts.
CONSTANTS
  h1 = h1
  h2 = h2
  d1 = d1
  d2 = d2
  t1 = t1
  t2 = t2
  None = None
  Hosts = {h1, h2}
  Downloads = {d1, d2}
  Tokens = {t1, t2}
  HostToken <- SameToken
  WantedToken <- WantEach
  MaxRequests = 2
SPECIFICATION Spec
INVARIANTS
  NoEarlyClose
  StreamsEndAtTheirEnds
  NothingSwallowed
  PendingOwned
  RegistrationIsLive
  RightHost
PROPERTIES
  OnlyOwnEntryRemoved
  ImplementsRendezvous
\* Every connection may be closed and every host gone: the system may stop.
CHECK_DEADLOCK FALSE
