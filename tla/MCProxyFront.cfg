CONSTANTS
  c1 = c1
  c2 = c2
  h1 = h1
  a4 = a4
  a6 = a6
  m1 = m1
  m2 = m2
  None = None
  NListeners = 2
  TTL = 2
  Conns <- MCConns
  Hosts <- MCHosts
  Hijacked <- MCHosts
  V4 <- MCV4
  V6 <- MCV6
  Models <- MCModels
  Mapped <- MCMapped
SPECIFICATION FairSpec
INVARIANT FrontTypeOK
PROPERTIES NeverStranded MovesAreNoticed DialingEnds StopEndsListening
