CONSTANTS
  s1 = s1
  s2 = s2
  alice = alice
  bob = bob
  olga = olga
  op = op
  c1 = c1
  c2 = c2
  q1 = q1
  agent_id = agent_id
  a1 = a1
  k1 = k1
  k2 = k2
  None = None
  Keep = Keep
  Spaces <- MCSpaces
  Names <- MCNames
  Contents <- MCContents
  ScopeKeys <- MCScopeKeys
  Labels <- MCLabels
  MetaKeys <- MCMetaKeys
  MetaValues <- MCMetaValues
  ReservedKeys <- MCReserved
  Score <- MCScore
  Keys <- MCKeys
  Calls <- MCCalls
  Preload <- MCPreload
  Sources <- MCSources
  JobCalls <- MCJobCalls
  Operator <- op
  MaxMetadata = 1
  MaxMemories = 8
  MaxEdits = 0
  MaxImport = 3
  ListLimit = 2
  MaxFaults = 1
  Volatile = FALSE
  Requests = {r1}
  MaxJobs = 2
  JobFaults = {"cancelled", "backend_error"}
  ExtractsFacts = FALSE
  Isolates = TRUE
  Faults = {}
SPECIFICATION TransferSpec
INVARIANTS EntriesAccounted NoSilentWrites ReportedIsStored
PROPERTIES DuplicateNeedsRace OverwriteKeeps JobsStayInSpace ExportComplete
CHECK_DEADLOCK FALSE
