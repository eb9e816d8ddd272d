SPECIFICATION FairServerSpec
CONSTANTS
  t1 = t1
  t2 = t2
  c1 = c1
  c2 = c2
  None = None
  Hosts <- MCHosts
  Addresses <- MCAddresses
  LoopbackAddresses <- MCLoopback
  Reachable <- MCReachable
  Names <- MCNames
  Spaces <- MCSpaces
  Wildcards <- MCWildcards
  Refused <- MCRefused
  Tokens <- MCTokens
  Connections = {c1, c2}
  MaxRequests = 3
  Configs <- MCConfigs
INVARIANTS ServerTypeOK ServedAsListed ReachedByTokenOnly AuthorNamesOneKey SpacesKeptApart KeyOnlyInside WaitingClientServed
PROPERTIES StopsClosed
CHECK_DEADLOCK FALSE
