CONSTANTS
  s1 = s1
  s2 = s2
  n1 = n1
  n2 = n2
  c1 = c1
  c2 = c2
  agent_id = agent_id
  a1 = a1
  k1 = k1
  k2 = k2
  None = None
  Keep = Keep
  Null = Null
  Spaces <- MCSpaces
  Names <- MCNames
  Contents <- MCContents
  ScopeKeys <- MCScopeKeys
  Labels <- MCLabels
  MetaKeys <- MCMetaKeys
  MetaValues <- MCMetaValues
  Mem0Calls <- MCCalls
  MaxMemories = 3
  MaxTasks = 3
  ListCeiling = 1
  MaxFails = 2
SPECIFICATION Mem0Spec
INVARIANTS RefusedMadeNothing UnavailableMeansGone
PROPERTIES ImplementsContract WritesStayWithOwner UpdateIsPatch ListedAllOrMarked
CHECK_DEADLOCK FALSE
