CONSTANTS
  s1 = s1
  s2 = s2
  alice = alice
  bob = bob
  rita = rita
  olga = olga
  c1 = c1
  c2 = c2
  q1 = q1
  agent_id = agent_id
  a1 = a1
  k1 = k1
  k2 = k2
  None = None
  Keep = Keep
  Spaces <- MCSpaces
  Names <- MCNames
  Contents <- MCContents
  ScopeKeys <- MCScopeKeys
  Labels <- MCLabels
  MetaKeys <- MCMetaKeys
  MetaValues <- MCMetaValues
  MaxMetadata <- MCMaxMetadata
  Score <- MCScore
  MaxMemories = 4
  MaxEdits = 0
  Volatile = FALSE
  Requests = {r1, r2}
  Calls <- MCEverything
  Preload <- MCPreload
  Keys <- MCKeys
  ExtractsFacts = TRUE
  Isolates = TRUE
  Faults = {"cancelled", "error"}
SPECIFICATION PolicySpec
SYMMETRY Symmetric
INVARIANTS PolicyTypeOK RefusalsWriteNothing AuditedOnce AlarmMeansGone ForeignLooksMissing
PROPERTIES CreatorKept CapPassedOnlyByRace
CHECK_DEADLOCK FALSE
