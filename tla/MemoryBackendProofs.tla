------------------------- MODULE MemoryBackendProofs -------------------------
(***************************************************************************)
(* Proofs about the storage contract, for any number of memories, spaces,  *)
(* keys and contents.                                                      *)
(***************************************************************************)
EXTENDS MemoryBackend, TLAPS

(***************************************************************************)
(* What the operators return.                                              *)
(***************************************************************************)

\* A patch applied to metadata gives metadata.
LEMMA PatchedType ==
  ASSUME NEW m \in Metadata, NEW p \in Patch
  PROVE  Patched(m, p) \in Metadata
BY NoneAssumption DEF Patched, Metadata, Patch

\* The empty patch is a patch.
LEMMA NoPatchType == NoPatch \in Patch
BY DEF NoPatch, Patch

\* The system fields a caller passes are system fields.
LEMMA StampsType ==
  ASSUME NEW p \in Spaces
  PROVE  Stamps(p) \subseteq System
BY DEF Stamps, System, NoSystem

\* A rewritten memory is a memory of the same partition and scope.
LEMMA RewrittenType ==
  ASSUME NEW m \in Memory, NEW c \in Contents \cup {None}, NEW p \in Patch,
         NEW s \in System \cup {None}
  PROVE  /\ Rewritten(m, c, p, s) \in Memory
         /\ Rewritten(m, c, p, s).partition = m.partition
         /\ Rewritten(m, c, p, s).scope = m.scope
         /\ Rewritten(m, c, p, s).system = IF s = None THEN m.system ELSE s
<1>1. m.metadata \in Metadata BY DEF Memory
<1>2. Patched(m.metadata, p) \in Metadata BY <1>1, PatchedType
<1> QED BY <1>2 DEF Memory, Rewritten

\* The entries the change log gets are history entries.
LEMMA EntryTypes ==
  ASSUME NEW m \in Memory, NEW n \in Memory
  PROVE  CreatedEntry(m) \in HistoryEntry /\ UpdatedEntry(m, n) \in HistoryEntry
BY DEF CreatedEntry, UpdatedEntry, HistoryEntry, Memory, System

\* A memory built from well-formed parts is one.
LEMMA NewMemoryType ==
  ASSUME NEW p \in Spaces, NEW c \in Contents, NEW sc \in Scope, NEW md \in Metadata,
         NEW sys \in System
  PROVE  NewMemory(p, c, sc, md, sys) \in Memory
BY DEF NewMemory, Memory

(***************************************************************************)
(* Each effect keeps the types.                                            *)
(***************************************************************************)

\* Storing a new memory keeps the types.
LEMMA AddEffectType ==
  ASSUME TypeOK, NEW i \in Ids, NEW p \in Spaces, NEW c \in Contents, NEW sc \in Scope,
         NEW md \in Metadata, NEW sys \in System, AddEffect(i, p, c, sc, md, sys)
  PROVE  TypeOK'
<1> DEFINE m == NewMemory(p, c, sc, md, sys)
<1>1. m \in Memory BY NewMemoryType
<1>2. <<CreatedEntry(m)>> \in Seq(HistoryEntry) BY <1>1, EntryTypes
<1> HIDE DEF m
<1>3. created' \in 0..MaxMemories BY BoundAssumption DEF AddEffect, Ids
<1>4. store' \in [Ids -> Memory \cup {None}]
  BY <1>1 DEF AddEffect, TypeOK, m
<1>5. history' \in [Ids -> Seq(HistoryEntry)]
  BY <1>2 DEF AddEffect, TypeOK, m
<1> QED BY <1>3, <1>4, <1>5 DEF TypeOK

\* Rewriting a stored memory keeps the types.
LEMMA UpdateEffectType ==
  ASSUME TypeOK, NEW i \in Ids, store[i] # None, NEW c \in Contents \cup {None},
         NEW p \in Patch, NEW s \in System \cup {None}, UpdateEffect(i, c, p, s)
  PROVE  TypeOK'
<1> DEFINE m == Rewritten(store[i], c, p, s)
<1>1. store[i] \in Memory BY DEF TypeOK
<1>2. m \in Memory BY <1>1, RewrittenType
<1>3. UpdatedEntry(store[i], m) \in HistoryEntry BY <1>1, <1>2, EntryTypes
<1> HIDE DEF m
<1>4. store' \in [Ids -> Memory \cup {None}]
  BY <1>2 DEF UpdateEffect, TypeOK, m
<1>5. history' \in [Ids -> Seq(HistoryEntry)]
  BY <1>3 DEF UpdateEffect, TypeOK, m
<1> QED BY <1>4, <1>5 DEF TypeOK, UpdateEffect

\* Removing any set of memories keeps the types.
LEMMA RemoveEffectType ==
  ASSUME TypeOK, NEW D, RemoveEffect(D)
  PROVE  TypeOK'
BY DEF RemoveEffect, TypeOK

\* What a step of the contract is, as one of its three effects.
LEMMA StepIsEffect ==
  ASSUME TypeOK, Next
  PROVE  \/ \E i \in Ids, p \in Spaces, c \in Contents, sc \in Scope, md \in Metadata,
               s \in System : AddEffect(i, p, c, sc, md, s)
         \/ \E i \in Ids, c \in Contents \cup {None}, p \in Patch, s \in System \cup {None} :
               store[i] # None /\ UpdateEffect(i, c, p, s)
         \/ \E D \in SUBSET Ids : RemoveEffect(D)
<1>1. ASSUME NEW p \in Spaces, Add(p)
      PROVE  \E i \in Ids, c \in Contents, sc \in Scope, md \in Metadata,
               s \in System : AddEffect(i, p, c, sc, md, s)
  BY <1>1, StampsType DEF Add
<1>2. ASSUME NEW p \in Spaces, NEW i \in Ids, Update(p, i)
      PROVE  \E c \in Contents \cup {None}, q \in Patch, s \in System \cup {None} :
               store[i] # None /\ UpdateEffect(i, c, q, s)
  BY <1>2, StampsType DEF Update, Owned
<1>3. ASSUME NEW p \in Spaces, NEW i \in Ids, Delete(p, i)
      PROVE  RemoveEffect({i}) /\ {i} \in SUBSET Ids
  BY <1>3 DEF Delete
<1>4. ASSUME NEW p \in Spaces, DeleteAll(p)
      PROVE  \E D \in SUBSET Ids : RemoveEffect(D)
  <2>1. PICK sc \in Scope : RemoveEffect(Matching(p, sc)) BY <1>4 DEF DeleteAll
  <2>2. Matching(p, sc) \in SUBSET Ids BY DEF Matching, Stored
  <2> QED BY <2>1, <2>2
<1>5. CASE Close
  BY <1>5 DEF Close
<1> QED BY <1>1, <1>2, <1>3, <1>4, <1>5 DEF Next

\* Every step of the contract keeps the types.
LEMMA TypeStep ==
  ASSUME TypeOK, [Next]_backendVars
  PROVE  TypeOK'
<1>1. CASE Next
  BY <1>1, StepIsEffect, AddEffectType, UpdateEffectType, RemoveEffectType
<1>2. CASE UNCHANGED backendVars
  BY <1>2 DEF backendVars, TypeOK
<1> QED BY <1>1, <1>2

\* The store, the change logs and the newest id have their types in every state.
THEOREM TypeCorrect == Spec => []TypeOK
<1>1. Init => TypeOK
  BY BoundAssumption DEF Init, TypeOK
<1>2. TypeOK /\ [Next]_backendVars => TypeOK'
  BY TypeStep
<1> QED BY <1>1, <1>2, PTL DEF Spec

(***************************************************************************)
(* The change log.                                                         *)
(***************************************************************************)

\* HistoryChain for one id.
ChainAt(i) ==
  IF store[i] = None THEN history[i] = <<>>
  ELSE LogBegins(i) /\ LogChained(i) /\ LogEnds(i)

\* A new memory begins its own change log, and touches no other.
LEMMA AddKeepsChain ==
  ASSUME TypeOK, HistoryChain, NEW i \in Ids, NEW p \in Spaces, NEW c \in Contents,
         NEW sc \in Scope, NEW md \in Metadata, NEW sys \in System,
         AddEffect(i, p, c, sc, md, sys)
  PROVE  HistoryChain'
<1> DEFINE m == NewMemory(p, c, sc, md, sys)
<1>1. m \in Memory BY NewMemoryType
<1>2. m # None BY <1>1, NoneAssumption
<1>3. CreatedEntry(m) = [action |-> "created", content_before |-> None,
                         content_after |-> m.content, author |-> m.system.author]
  BY DEF CreatedEntry
<1> HIDE DEF m
<1>4. store'[i] = m /\ history'[i] = <<CreatedEntry(m)>>
  BY DEF AddEffect, TypeOK, m
<1>5. ChainAt(i)'
  BY <1>2, <1>3, <1>4 DEF ChainAt, LogBegins, LogChained, LogEnds
<1>6. ASSUME NEW j \in Ids \ {i} PROVE ChainAt(j)'
  <2>1. store'[j] = store[j] /\ history'[j] = history[j]
    BY <1>6 DEF AddEffect, TypeOK
  <2>2. ChainAt(j) BY <1>6 DEF HistoryChain, ChainAt
  <2> QED BY <2>1, <2>2 DEF ChainAt, LogBegins, LogChained, LogEnds
<1> QED BY <1>5, <1>6 DEF HistoryChain, ChainAt

\* An update extends the log of its memory from where it ended.
LEMMA UpdateKeepsChain ==
  ASSUME TypeOK, HistoryChain, NEW i \in Ids, store[i] # None,
         NEW c \in Contents \cup {None}, NEW p \in Patch, NEW s \in System \cup {None},
         UpdateEffect(i, c, p, s)
  PROVE  HistoryChain'
<1> DEFINE m == Rewritten(store[i], c, p, s)
           e == UpdatedEntry(store[i], m)
           h == history[i]
<1>1. store[i] \in Memory BY DEF TypeOK
<1>2. m \in Memory /\ m # None BY <1>1, RewrittenType, NoneAssumption
<1>3. e = [action |-> "updated", content_before |-> store[i].content,
           content_after |-> m.content, author |-> m.system.author]
  BY DEF UpdatedEntry
<1>4. h \in Seq(HistoryEntry) BY DEF TypeOK
<1>5. LogBegins(i) /\ LogChained(i) /\ LogEnds(i) BY DEF HistoryChain
<1> HIDE DEF m, e
<1>6. store'[i] = m /\ history'[i] = Append(h, e)
  BY DEF UpdateEffect, TypeOK, m, e
<1>7. /\ Len(history'[i]) = Len(h) + 1 /\ Len(h) \in Nat
      /\ \A n \in 1..Len(h) : history'[i][n] = h[n]
      /\ history'[i][Len(h) + 1] = e
  BY <1>4, <1>6
<1>8. LogBegins(i)'
  BY <1>5, <1>7 DEF LogBegins
<1>9. LogChained(i)'
  <2>1. ASSUME NEW n \in 1..Len(h)
        PROVE  /\ history'[i][n + 1].action = "updated"
               /\ history'[i][n + 1].content_before = history'[i][n].content_after
    <3>1. CASE n = Len(h)
      <4>1. h[Len(h)].content_after = store[i].content BY <1>5 DEF LogEnds
      <4>2. history'[i][n] = h[Len(h)] /\ history'[i][n + 1] = e BY <3>1, <1>7
      <4> QED BY <4>1, <4>2, <1>3
    <3>2. CASE n # Len(h)
      <4>1. n \in 1..(Len(h) - 1) /\ n + 1 \in 1..Len(h) BY <3>2, <1>7
      <4>2. history'[i][n] = h[n] /\ history'[i][n + 1] = h[n + 1] BY <4>1, <1>7
      <4> QED BY <4>1, <4>2, <1>5 DEF LogChained
    <3> QED BY <3>1, <3>2
  <2> QED BY <2>1, <1>7 DEF LogChained
<1>10. LogEnds(i)'
  BY <1>3, <1>6, <1>7 DEF LogEnds
<1>11. ChainAt(i)' BY <1>8, <1>9, <1>10, <1>2, <1>6 DEF ChainAt
<1>12. ASSUME NEW j \in Ids \ {i} PROVE ChainAt(j)'
  <2>1. store'[j] = store[j] /\ history'[j] = history[j]
    BY <1>12 DEF UpdateEffect, TypeOK
  <2>2. ChainAt(j) BY <1>12 DEF HistoryChain, ChainAt
  <2> QED BY <2>1, <2>2 DEF ChainAt, LogBegins, LogChained, LogEnds
<1> QED BY <1>11, <1>12 DEF HistoryChain, ChainAt

\* Removed memories take their logs with them.
LEMMA RemoveKeepsChain ==
  ASSUME TypeOK, HistoryChain, NEW D \in SUBSET Ids, RemoveEffect(D)
  PROVE  HistoryChain'
<1>1. ASSUME NEW j \in Ids PROVE ChainAt(j)'
  <2>1. CASE j \in D
    <3>1. store'[j] = None /\ history'[j] = <<>> BY <1>1, <2>1 DEF RemoveEffect
    <3> QED BY <3>1 DEF ChainAt
  <2>2. CASE j \notin D
    <3>1. store'[j] = store[j] /\ history'[j] = history[j] BY <1>1, <2>2 DEF RemoveEffect
    <3>2. ChainAt(j) BY <1>1 DEF HistoryChain, ChainAt
    <3> QED BY <3>1, <3>2 DEF ChainAt, LogBegins, LogChained, LogEnds
  <2> QED BY <2>1, <2>2
<1> QED BY <1>1 DEF HistoryChain, ChainAt

\* In every state the change log of every stored memory begins with its creation,
\* is unbroken and ends at the stored text and author.
THEOREM HistoryChainCorrect == Spec => []HistoryChain
<1>1. Init => HistoryChain
  BY DEF Init, HistoryChain
<1>2. TypeOK /\ HistoryChain /\ [Next]_backendVars => HistoryChain'
  <2> SUFFICES ASSUME TypeOK, HistoryChain, [Next]_backendVars
               PROVE  HistoryChain'
    OBVIOUS
  <2>1. CASE Next
    BY <2>1, StepIsEffect, AddKeepsChain, UpdateKeepsChain, RemoveKeepsChain
  <2>2. CASE UNCHANGED backendVars
    BY <2>2 DEF backendVars, HistoryChain, LogBegins, LogChained, LogEnds
  <2> QED BY <2>1, <2>2
<1> QED BY <1>1, <1>2, TypeCorrect, PTL DEF Spec


(***************************************************************************)
(* Each call touches memories of one partition.                            *)
(***************************************************************************)

\* An update touches its own memory alone, which stays in its partition and scope.
LEMMA UpdateTouches ==
  ASSUME TypeOK, NEW p \in Spaces, NEW i \in Ids, Update(p, i)
  PROVE  /\ Touched \subseteq {i}
         /\ store'[i].partition = store[i].partition /\ store'[i].scope = store[i].scope
<1>1. PICK c \in Contents \cup {None}, q \in Patch, s \in Stamps(p) \cup {None} :
        store[i] # None /\ UpdateEffect(i, c, q, s)
  BY DEF Update, Owned
<1>2. store[i] \in Memory /\ s \in System \cup {None} BY <1>1, StampsType DEF TypeOK
<1>3. store' = [store EXCEPT ![i] = Rewritten(store[i], c, q, s)] BY <1>1 DEF UpdateEffect
<1>4. store'[i] = Rewritten(store[i], c, q, s) /\ \A j \in Ids \ {i} : store'[j] = store[j]
  BY <1>3 DEF TypeOK
<1>5. Touched \subseteq {i} BY <1>4 DEF Touched
<1> QED BY <1>2, <1>4, <1>5, RewrittenType

\* An add touches the new memory alone, whose identifier named nothing.
LEMMA AddTouches ==
  ASSUME TypeOK, FreshIdsFree, NEW p \in Spaces, Add(p)
  PROVE  \E i \in Ids : Touched \subseteq {i} /\ store[i] = None
<1>1. PICK i \in Ids, c \in Contents, sc \in Scope, md \in Metadata, s \in Stamps(p) :
        AddEffect(i, p, c, sc, md, s)
  BY DEF Add
<1>2. store[i] = None BY <1>1 DEF AddEffect, FreshIdsFree
<1>3. \A j \in Ids \ {i} : store'[j] = store[j] BY <1>1 DEF AddEffect, TypeOK
<1> QED BY <1>2, <1>3 DEF Touched

\* A removal touches what it removes, and nothing of it stays.
LEMMA RemoveTouches ==
  ASSUME TypeOK, NEW D \in SUBSET Ids, RemoveEffect(D)
  PROVE  \A i \in Touched : i \in D /\ store[i] # None /\ store'[i] = None
BY DEF RemoveEffect, Touched, TypeOK

\* A new identifier is above every stored one.
LEMMA FreshStep ==
  ASSUME TypeOK, FreshIdsFree, [Next]_backendVars
  PROVE  FreshIdsFree'
<1>1. ASSUME NEW i \in Ids, NEW p \in Spaces, NEW c \in Contents, NEW sc \in Scope,
             NEW md \in Metadata, NEW s \in System, AddEffect(i, p, c, sc, md, s)
      PROVE  FreshIdsFree'
  BY <1>1, BoundAssumption DEF AddEffect, FreshIdsFree, TypeOK, Ids
<1>2. ASSUME NEW i \in Ids, NEW c \in Contents \cup {None}, NEW p \in Patch,
             NEW s \in System \cup {None}, store[i] # None, UpdateEffect(i, c, p, s)
      PROVE  FreshIdsFree'
  BY <1>2 DEF UpdateEffect, FreshIdsFree, TypeOK
<1>3. ASSUME NEW D \in SUBSET Ids, RemoveEffect(D)
      PROVE  FreshIdsFree'
  BY <1>3 DEF RemoveEffect, FreshIdsFree
<1>4. CASE UNCHANGED backendVars
  BY <1>4 DEF backendVars, FreshIdsFree
<1> QED BY <1>1, <1>2, <1>3, <1>4, StepIsEffect

\* No call but close() touches two partitions, and no memory changes partition or scope
\* (in_memory.py 122, 130, 141, 186).
THEOREM OnePartitionPerCallCorrect == Spec => OnePartitionPerCall
<1> DEFINE Apart ==
      /\ \A i, j \in Touched : PartitionOf(i) = PartitionOf(j)
      /\ \A i \in Touched :
           store[i] # None /\ store'[i] # None =>
             /\ store'[i].partition = store[i].partition
             /\ store'[i].scope = store[i].scope
<1>1. Init => FreshIdsFree
  BY DEF Init, FreshIdsFree
<1>2. ASSUME TypeOK, FreshIdsFree, Next PROVE Close \/ Apart
  <2>1. ASSUME NEW p \in Spaces, Add(p) PROVE Apart
    BY <1>2, <2>1, AddTouches
  <2>2. ASSUME NEW p \in Spaces, NEW i \in Ids, Update(p, i) PROVE Apart
    BY <1>2, <2>2, UpdateTouches
  <2>3. ASSUME NEW p \in Spaces, NEW i \in Ids, Delete(p, i) PROVE Apart
    <3>1. \A j \in Touched : j = i /\ store'[j] = None
      BY <1>2, <2>3, RemoveTouches DEF Delete
    <3> QED BY <3>1
  <2>4. ASSUME NEW p \in Spaces, DeleteAll(p) PROVE Apart
    <3>1. PICK sc \in Scope : RemoveEffect(Matching(p, sc)) BY <2>4 DEF DeleteAll
    <3>2. Matching(p, sc) \in SUBSET Ids BY DEF Matching, Stored
    <3>3. \A j \in Touched : j \in Matching(p, sc) /\ store[j] # None /\ store'[j] = None
      BY <1>2, <3>1, <3>2, RemoveTouches
    <3>4. \A j \in Touched : PartitionOf(j) = p /\ store'[j] = None
      BY <3>3 DEF Matching, PartitionOf
    <3> QED BY <3>4
  <2> QED BY <1>2, <2>1, <2>2, <2>3, <2>4 DEF Next
<1>3. TypeOK /\ FreshIdsFree /\ [Next]_backendVars => [Close \/ Apart]_backendVars
  BY <1>2
<1>4. TypeOK /\ FreshIdsFree /\ [Next]_backendVars => FreshIdsFree'
  BY FreshStep
<1> QED BY <1>1, <1>3, <1>4, TypeCorrect, PTL DEF Spec, OnePartitionPerCall
=============================================================================
