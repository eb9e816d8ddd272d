CONSTANTS
  s1 = s1
  s2 = s2
  n1 = n1
  c1 = c1
  c2 = c2
  agent_id = agent_id
  a1 = a1
  k1 = k1
  k2 = k2
  None = None
  Keep = Keep
  Spaces <- MCSpaces
  Names <- MCNames
  Contents <- MCContents
  ScopeKeys <- MCScopeKeys
  Labels <- MCLabels
  MetaKeys <- MCMetaKeys
  MetaValues <- MCMetaValues
  MaxMemories = 2
  MaxEdits = 3
  Volatile = FALSE
  Tasks = {t1, t2, t3}
  SqlCalls <- MCTwoPartitions
  MaxCancels = 1
  MaxErrors = 1
  MaxCrashes = 0
SPECIFICATION FairSqlSpec
INVARIANTS SqlPartitionsApart
PROPERTIES EveryTaskEnds
CHECK_DEADLOCK FALSE
