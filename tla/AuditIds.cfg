CONSTANTS
  s1 = s1
  s2 = s2
  alice = alice
  bob = bob
  rita = rita
  olga = olga
  c1 = c1
  c2 = c2
  q1 = q1
  agent_id = agent_id
  a1 = a1
  k1 = k1
  k2 = k2
  None = None
  Keep = Keep
  Spaces <- MCSpaces
  Names <- MCNames
  Contents <- MCContents
  ScopeKeys <- MCScopeKeys
  Labels <- MCLabels
  MetaKeys <- MCMetaKeys
  MetaValues <- MCMetaValues
  MaxMetadata <- MCMaxMetadata
  Score <- MCScore
  MaxMemories = 2
  MaxEdits = 0
  Volatile = FALSE
  Requests = {r1}
  Calls <- MCRacing
  Preload <- MCPlainPreload
  Keys <- MCWriters
  ExtractsFacts = FALSE
  Isolates = TRUE
  Faults = {"cancelled"}
SPECIFICATION PolicySpec
INVARIANTS AuditNamesStored
CHECK_DEADLOCK FALSE
