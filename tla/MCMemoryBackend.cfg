CONSTANTS
  Spaces = {s1, s2}
  Names = {n1}
  Contents = {c1, c2}
  ScopeKeys = {agent_id}
  Labels = {a1}
  MetaKeys = {k1}
  MetaValues = {1}
  MaxMemories = 2
  MaxEdits = 1
  Volatile = TRUE
  None = None
  Keep = Keep
SPECIFICATION BoundedSpec
SYMMETRY Symmetric
INVARIANTS HistoryChain
PROPERTIES OnePartitionPerCall
CHECK_DEADLOCK FALSE
