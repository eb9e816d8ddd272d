CONSTANTS
  s1 = s1
  s2 = s2
  alice = alice
  bob = bob
  rita = rita
  olga = olga
  c1 = c1
  c2 = c2
  q1 = q1
  agent_id = agent_id
  a1 = a1
  k1 = k1
  k2 = k2
  None = None
  Keep = Keep
  Spaces <- MCSpaces
  Names <- MCNames
  Contents <- MCContents
  ScopeKeys <- MCScopeKeys
  Labels <- MCLabels
  MetaKeys <- MCMetaKeys
  MetaValues <- MCMetaValues
  MaxMetadata <- MCMaxMetadata
  Score <- MCScore
  MaxMemories = 3
  MaxEdits = 0
  Volatile = FALSE
  Requests = {r1, r2}
  Calls <- MCMixed
  Preload <- MCMixedPreload
  Keys <- MCRivals
  ExtractsFacts = TRUE
  Isolates = FALSE
  Faults = {"timeout"}
SPECIFICATION FairPolicySpec
INVARIANTS ResponseInSpace AuditNamesWrites
PROPERTIES WritesStayInSpace 
CHECK_DEADLOCK FALSE
