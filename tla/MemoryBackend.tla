---------------------------- MODULE MemoryBackend ----------------------------
(***************************************************************************)
(* The storage contract every memcp backend implements                     *)
(* (memcp/backends/base.py), with the state changes the in_memory backend  *)
(* makes (memcp/backends/in_memory.py).  No in_memory method suspends, so  *)
(* one call is one step.                                                   *)
(*                                                                         *)
(* Abstractions.  Contents, scope values, space and key names are opaque   *)
(* values.  A metadata value is the number of bytes it takes as JSON, which *)
(* is all the size cap tells apart.  Identifiers are numbered in the order *)
(* the memories are created, which is also the order a listing shows them; *)
(* the code draws a uuid4, so an identifier is never drawn twice.          *)
(* Timestamps are left out.                                                *)
(***************************************************************************)
EXTENDS Integers, Sequences

CONSTANTS
  Spaces,       \* space names; a backend's partitions
  Names,        \* key names, recorded as author and creator
  Contents,     \* memory texts
  ScopeKeys,    \* the scope keys the backend supports
  Labels,       \* scope values, as stored text
  MetaKeys,     \* metadata keys a client may use
  MetaValues,   \* metadata values, as sizes in bytes
  MaxMemories,  \* bound: how many memories are ever created
  MaxEdits,     \* bound: how many updates BoundedSpec makes to one memory
  Volatile,     \* TRUE for in_memory, whose close() empties the store
  None,         \* absent (Python's None, or a missing key)
  Keep          \* in a patch: the key is left as it is

ASSUME BoundAssumption == MaxMemories \in Nat /\ MaxEdits \in Nat
ASSUME VolatileAssumption == Volatile \in BOOLEAN
ASSUME MetaAssumption == MetaValues \subseteq Nat

Ids == 1..MaxMemories

Scope == [ScopeKeys -> Labels \cup {None}]
Metadata == [MetaKeys -> MetaValues \cup {None}]
Patch == [MetaKeys -> MetaValues \cup {None, Keep}]

System == [space      : Spaces \cup {None},
           author     : Names \cup {None},
           created_by : Names \cup {None}]

Memory == [partition : Spaces,
           content   : Contents,
           scope     : Scope,
           metadata  : Metadata,
           system    : System]

HistoryEntry == [action         : {"created", "updated"},
                 content_before : Contents \cup {None},
                 content_after  : Contents,
                 author         : Names \cup {None}]

ASSUME NoneAssumption ==
  /\ None \notin Memory \cup System \cup Spaces \cup Names \cup Contents
  /\ None \notin Labels \cup MetaValues
  /\ Keep \notin MetaValues \cup {None}

VARIABLES
  store,    \* id -> memory, or None
  history,  \* id -> change log, <<>> when the memory is not stored
  created   \* the newest identifier stored so far

backendVars == <<store, history, created>>

(***************************************************************************)
(* What the methods compute.                                               *)
(***************************************************************************)

NoSystem == [space |-> None, author |-> None, created_by |-> None]
NoPatch == [k \in MetaKeys |-> Keep]

\* A stored scope answers a filter when it holds every key asked for; an empty
\* filter is answered by every memory.
ScopeMatches(stored, wanted) ==
  \A k \in ScopeKeys : wanted[k] # None => stored[k] = wanted[k]

\* The merge patch: keys set, keys removed (None), every other key kept.
Patched(stored, patch) ==
  [k \in MetaKeys |-> IF patch[k] = Keep THEN stored[k] ELSE patch[k]]

NewMemory(partition, content, scope, metadata, system) ==
  [partition |-> partition, content |-> content, scope |-> scope,
   metadata |-> metadata, system |-> system]

\* Mutant: an update without content stores None as the text.
Rewritten_DropsContent(m, content, patch, system) ==
  [partition |-> m.partition, content |-> content, scope |-> m.scope,
   metadata |-> Patched(m.metadata, patch),
   system |-> IF system = None THEN m.system ELSE system]

\* Mutant: an update rebuilds the memory without its scope.
Rewritten_LosesScope(m, content, patch, system) ==
  [partition |-> m.partition,
   content |-> IF content = None THEN m.content ELSE content,
   scope |-> [k \in ScopeKeys |-> None],
   metadata |-> Patched(m.metadata, patch),
   system |-> IF system = None THEN m.system ELSE system]

\* content = None keeps the text, system = None keeps the system fields.
Rewritten(m, content, patch, system) ==
  [partition |-> m.partition,
   content |-> IF content = None THEN m.content ELSE content,
   scope |-> m.scope,
   metadata |-> Patched(m.metadata, patch),
   system |-> IF system = None THEN m.system ELSE system]

CreatedEntry(m) ==
  [action |-> "created", content_before |-> None,
   content_after |-> m.content, author |-> m.system.author]

\* Mutant: the entry names the author of the version it replaces.
UpdatedEntry_StaleAuthor(old, new) ==
  [action |-> "updated", content_before |-> old.content,
   content_after |-> new.content, author |-> old.system.author]

UpdatedEntry(old, new) ==
  [action |-> "updated", content_before |-> old.content,
   content_after |-> new.content, author |-> new.system.author]

Stored == {i \in Ids : store[i] # None}

\* The memory with this id exists in the caller's partition.
Owned(partition, i) == store[i] # None /\ store[i].partition = partition

Matching(partition, scope) ==
  {i \in Stored : store[i].partition = partition /\ ScopeMatches(store[i].scope, scope)}

(***************************************************************************)
(* The methods that change the store, as effects other modules compose.    *)
(***************************************************************************)

\* i is drawn before the write; an identifier whose write failed is not drawn again.
AddEffect(i, partition, content, scope, metadata, system) ==
  LET m == NewMemory(partition, content, scope, metadata, system)
  IN /\ i \in Ids
     /\ i > created
     /\ created' = i
     /\ store' = [store EXCEPT ![i] = m]
     /\ history' = [history EXCEPT ![i] = <<CreatedEntry(m)>>]

UpdateEffect(i, content, patch, system) ==
  LET m == Rewritten(store[i], content, patch, system)
  IN /\ store' = [store EXCEPT ![i] = m]
     /\ history' = [history EXCEPT ![i] = Append(@, UpdatedEntry(store[i], m))]
     /\ UNCHANGED created

RemoveEffect(doomed) ==
  /\ store' = [i \in Ids |-> IF i \in doomed THEN None ELSE store[i]]
  /\ history' = [i \in Ids |-> IF i \in doomed THEN <<>> ELSE history[i]]
  /\ UNCHANGED created

\* The system fields a caller passes: none, or the partition as the space with the
\* author and the creator it knows (metadata.system_for, transfer.copy_system).
Stamps(partition) ==
  {NoSystem} \cup [space : {partition}, author : Names \cup {None},
                   created_by : Names \cup {None}]

(***************************************************************************)
(* The contract on its own: any caller, in any order.  A read, and a call  *)
(* answered 404 or 400, changes nothing and is a stuttering step.          *)
(***************************************************************************)

Init ==
  /\ store = [i \in Ids |-> None]
  /\ history = [i \in Ids |-> <<>>]
  /\ created = 0

Add(partition) ==
  \E i \in Ids, content \in Contents, scope \in Scope, metadata \in Metadata,
     system \in Stamps(partition) :
    AddEffect(i, partition, content, scope, metadata, system)

Update(partition, i) ==
  \E content \in Contents \cup {None}, patch \in Patch, system \in Stamps(partition) \cup {None} :
    /\ Owned(partition, i)
    /\ UpdateEffect(i, content, patch, system)

Delete(partition, i) ==
  /\ Owned(partition, i)
  /\ RemoveEffect({i})

DeleteAll(partition) ==
  \E scope \in Scope : RemoveEffect(Matching(partition, scope))

\* in_memory's close(); a durable store keeps its memories.
Close ==
  /\ Volatile
  /\ RemoveEffect(Ids)

Next ==
  \/ \E p \in Spaces : Add(p) \/ DeleteAll(p)
  \/ \E p \in Spaces, i \in Ids : Update(p, i) \/ Delete(p, i)
  \/ Close

Spec == Init /\ [][Next]_backendVars

\* The contract on its own, with logs short enough to enumerate.
BoundedNext == Next /\ \A i \in Ids : Len(history'[i]) <= MaxEdits + 1
BoundedSpec == Init /\ [][BoundedNext]_backendVars

(***************************************************************************)
(* Properties.                                                             *)
(***************************************************************************)

\* An update without content or system fields leaves the stored ones, so what is
\* stored is always a whole memory, its log whole entries (in_memory.py 188-208).
TypeOK ==
  /\ store \in [Ids -> Memory \cup {None}]
  /\ history \in [Ids -> Seq(HistoryEntry)]
  /\ created \in 0..MaxMemories

\* Identifiers above the newest name nothing: a new memory never replaces one.
FreshIdsFree == \A i \in Ids : i > created => store[i] = None

\* A memory's change log begins with its creation.
LogBegins(i) ==
  /\ Len(history[i]) > 0
  /\ history[i][1].action = "created"
  /\ history[i][1].content_before = None

\* Each entry starts from the text the previous one left.
LogChained(i) ==
  \A n \in 1..(Len(history[i]) - 1) :
    /\ history[i][n + 1].action = "updated"
    /\ history[i][n + 1].content_before = history[i][n].content_after

\* The last entry ends at the stored text, by the stored author.
LogEnds(i) ==
  LET last == history[i][Len(history[i])]
  IN /\ last.content_after = store[i].content
     /\ last.author = store[i].system.author

\* The change log explains the stored text: it starts with the creation, every
\* entry continues from the one before, and it ends at the current content and
\* author; a memory that is gone leaves no log behind (in_memory.py 87-95,
\* 199-208, 133, 148).
HistoryChain ==
  \A i \in Ids :
    IF store[i] = None THEN history[i] = <<>>
    ELSE LogBegins(i) /\ LogChained(i) /\ LogEnds(i)

\* The partition of a memory a step adds, changes or removes.
PartitionOf(i) == (IF store[i] # None THEN store[i] ELSE store'[i]).partition
Touched == {i \in Ids : store'[i] # store[i]}

\* No call but close() changes memories of two partitions, and none moves a
\* memory to another partition or scope (in_memory.py 122, 130, 141, 186).
OnePartitionPerCall ==
  [][ Close \/
      /\ \A i, j \in Touched : PartitionOf(i) = PartitionOf(j)
      /\ \A i \in Touched :
           store[i] # None /\ store'[i] # None =>
             /\ store'[i].partition = store[i].partition
             /\ store'[i].scope = store[i].scope ]_backendVars
=============================================================================
