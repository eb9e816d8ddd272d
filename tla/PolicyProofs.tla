---------------------------- MODULE PolicyProofs ----------------------------
(***************************************************************************)
(* Proofs about the policy layer, for any number of requests, keys, spaces *)
(* and memories, any calls, and a backend that isolates or does not.       *)
(***************************************************************************)
EXTENDS Policy, MemoryBackendProofs, FiniteSetTheorems

(***************************************************************************)
(* What the operators return.                                              *)
(***************************************************************************)

\* A set of identifiers can be counted.
LEMMA IdsCount ==
  ASSUME NEW S \in SUBSET Ids
  PROVE  Cardinality(S) \in Nat
<1>1. IsFiniteSet(Ids)
  BY FS_Interval, BoundAssumption DEF Ids
<1>2. IsFiniteSet(S) BY <1>1, FS_Subset
<1> QED BY <1>2, FS_CardinalityType

\* So can a set of entity rows.
LEMMA RowsCount ==
  ASSUME NEW S \in SUBSET (ScopeKeys \X Labels)
  PROVE  Cardinality(S) \in Nat
<1>1. IsFiniteSet(ScopeKeys \X Labels) BY FS_Product, FiniteAssumption
<1>2. IsFiniteSet(S) BY <1>1, FS_Subset
<1> QED BY <1>2, FS_CardinalityType

\* The shape of a reply: any outcome, memories, log, rows and count make one.
LEMMA ReplyType ==
  ASSUME NEW o \in Outcomes, NEW s \in [Ids -> Memory \cup {None}],
         NEW l \in Seq(HistoryEntry), NEW w \in SUBSET (ScopeKeys \X Labels),
         NEW n \in Nat \cup {None}
  PROVE  [outcome |-> o, shown |-> s, log |-> l, rows |-> w, count |-> n] \in Reply
BY DEF Reply

\* A successful reply is one.
LEMMA ResultType ==
  ASSUME NEW s \in [Ids -> Memory \cup {None}], NEW l \in Seq(HistoryEntry),
         NEW w \in SUBSET (ScopeKeys \X Labels), NEW n \in Nat \cup {None}
  PROVE  Result(s, l, w, n) \in Reply
<1>1. "ok" \in Outcomes BY DEF Outcomes
<1> QED BY <1>1, ReplyType DEF Result

\* A reply that carries nothing but its outcome.
LEMMA BareType ==
  ASSUME NEW o \in Outcomes
  PROVE  /\ Bare(o) \in Reply
         /\ Bare(o).outcome = o
         /\ \A i \in Ids : Bare(o).shown[i] = None
<1>1. Nothing \in [Ids -> Memory \cup {None}] BY DEF Nothing
<1>2. <<>> \in Seq(HistoryEntry) OBVIOUS
<1>3. Bare(o) \in Reply BY <1>1, <1>2, ReplyType DEF Bare
<1> QED BY <1>3 DEF Bare, Nothing

\* The verdict on a call is an outcome, and "ok" only for a key that may make it.
LEMMA VerdictType ==
  ASSUME NEW key \in Keys \cup {None}, NEW c \in Calls
  PROVE  /\ Verdict(key, c) \in Outcomes
         /\ Verdict(key, c) = "ok" =>
              /\ key \in Keys
              /\ c.op \in WriterOps => key.relation = "writer"
              /\ c.op \in ByIdOps => c.id \in Ids
<1>1. c \in Call BY CallsAssumption
<1>2. c.checks \in Outcomes BY <1>1 DEF Call, ArgumentVerdicts, Outcomes
<1>3. c.id \in Ids \cup {None} BY <1>1 DEF Call
<1>4. "error" \in Outcomes BY DEF Outcomes, FaultKinds
<1> QED BY <1>2, <1>3, <1>4 DEF Verdict, Outcomes, Permitted

(***************************************************************************)
(* The inductive invariant.                                                *)
(***************************************************************************)

\* The patch that names no key changes nothing.
LEMMA KeepsAll ==
  ASSUME NEW m \in Metadata
  PROVE  Patched(m, NoPatch) = m
BY DEF Patched, NoPatch, Metadata

\* Request r has sent the write op, and waits for its reply or no longer does.
HasSent(r, op) == pc[r] = op \/ late[r] = op

\* Request r holds a memory it has read, for the by-id call that follows.
Holds(r) == HasSent(r, "update") \/ HasSent(r, "delete") \/ pc[r] = "history"

\* What the position of a request says of its key, its arguments and its writes: the
\* checks of Start stay in force until the request's last write has taken effect.
ControlAt(r) ==
  /\ pc[r] \in Awaiting \/ late[r] # "none" => caller[r] \in Keys /\ call[r] \in Calls
  /\ pc[r] # "done" => late[r] = "none"
  /\ pc[r] \notin {"readback", "done"} \/ late[r] # "none" => wrote[r] = {}
  /\ pc[r] = "read" => call[r].op \in ByIdOps /\ call[r].id \in Ids
  /\ pc[r] = "read" /\ call[r].op \in WriterOps => caller[r].relation = "writer"
  /\ \A op \in WriterOps : HasSent(r, op) => call[r].op = op /\ caller[r].relation = "writer"
  /\ Holds(r) => call[r].id \in Ids /\ seen[r] \in Memory

\* A memory a request holds is still in the caller's space, or is gone for good: its
\* identifier is not above the newest.
HeldAt(r) ==
  Holds(r) =>
    /\ call[r].id <= created
    /\ store[call[r].id] # None => store[call[r].id].partition = caller[r].space

\* ResponseInSpace for one request.
ShownAt(r) ==
  \A i \in Shown(r) :
    /\ caller[r] # None
    /\ reply[r].shown[i].partition = caller[r].space
    /\ reply[r].shown[i].system.space \in {None, caller[r].space}

PolicyInv ==
  /\ PolicyTypeOK
  /\ FreshIdsFree
  /\ \A r \in Requests : ControlAt(r) /\ HeldAt(r) /\ ShownAt(r)

\* Whatever one step does to the store: identifiers above the newest stay free, and a
\* memory that is there before and after keeps its partition.
StoreStep ==
  /\ created' >= created
  /\ FreshIdsFree'
  /\ \A i \in Ids : store'[i] # None =>
       \/ store[i] = None /\ i > created
       \/ store[i] # None /\ store'[i].partition = store[i].partition

\* What request r does to a memory that stays: nothing to its metadata and creator, or
\* its update's patch, with the creator it read.
RewriteOf(r) ==
  \A i \in Ids : store[i] # None /\ store'[i] # None =>
    \/ /\ store'[i].metadata = store[i].metadata
       /\ store'[i].system.created_by = store[i].system.created_by
    \/ /\ HasSent(r, "update")
       /\ call[r].id = i
       /\ store'[i].metadata = Patched(store[i].metadata, call[r].metadata)
       /\ store'[i].system.created_by = seen[r].system.created_by

\* A write of request r: what it touches is its caller's, and is recorded.
WriteStep(r) ==
  /\ StoreStep
  /\ RewriteOf(r)
  /\ TypeOK'
  /\ \A i \in Touched : i \in wrote'[r] /\ PartitionOf(i) = Space(r)
  /\ \E S \in SUBSET Ids : Wrote(r, S)

(***************************************************************************)
(* Each write of a request is a WriteStep.                                 *)
(***************************************************************************)

\* The key, its space and the call of a request that has sent a write.
LEMMA SentFacts ==
  ASSUME PolicyInv, NEW r \in Requests, NEW op \in WriterOps, HasSent(r, op)
  PROVE  /\ caller[r] \in Keys /\ call[r] \in Calls /\ call[r] \in Call
         /\ call[r].op = op /\ caller[r].relation = "writer"
         /\ Space(r) \in Spaces /\ caller[r].name \in Names
         /\ wrote[r] = {}
<1>1. ControlAt(r) BY DEF PolicyInv
<1>2. op \in Awaiting /\ op # "none" /\ op \notin {"readback", "done"}
  BY DEF WriterOps, Awaiting
<1>3. caller[r] \in Keys /\ call[r] \in Calls BY <1>1, <1>2 DEF ControlAt, HasSent
<1>4. wrote[r] = {} BY <1>1, <1>2 DEF ControlAt, HasSent
<1>5. call[r].op = op /\ caller[r].relation = "writer" BY <1>1 DEF ControlAt
<1>6. caller[r] \in Key /\ call[r] \in Call BY <1>3, KeysAssumption, CallsAssumption
<1> QED BY <1>3, <1>4, <1>5, <1>6 DEF Key, Space

\* delete and delete_all: the memories removed are the caller's.
LEMMA RemoveStep ==
  ASSUME PolicyInv, NEW r \in Requests, NEW op \in WriterOps, HasSent(r, op),
         NEW D \in SUBSET Ids, RemoveEffect(D), Wrote(r, D),
         \A i \in D : store[i] # None => store[i].partition = Space(r)
  PROVE  WriteStep(r)
<1>1. TypeOK /\ FreshIdsFree BY DEF PolicyInv, PolicyTypeOK
<1>2. TypeOK' BY <1>1, RemoveEffectType
<1>3. created' = created /\ created \in Nat
  BY <1>1, BoundAssumption DEF RemoveEffect, TypeOK
<1>4. \A i \in Ids : store'[i] = IF i \in D THEN None ELSE store[i]
  BY DEF RemoveEffect
<1>5. StoreStep /\ RewriteOf(r)
  BY <1>1, <1>3, <1>4 DEF StoreStep, FreshIdsFree, RewriteOf
<1>6. wrote'[r] = wrote[r] \cup D BY DEF Wrote, PolicyInv, PolicyTypeOK
<1>7. \A i \in Touched : i \in D /\ store[i] # None
  BY <1>4 DEF Touched
<1> QED BY <1>2, <1>5, <1>6, <1>7 DEF WriteStep, PartitionOf, Touched

\* A memory the backend finds is stored.
LEMMA VisibleStored ==
  ASSUME NEW p, NEW i, Visible(p, i)
  PROVE  store[i] # None
BY DEF Visible, Owned

\* update writes the memory it read, which is still its caller's, with its creator.
LEMMA UpdateWriteStep ==
  ASSUME PolicyInv, NEW r \in Requests, HasSent(r, "update"), UpdateWrite(r)
  PROVE  WriteStep(r)
<1> DEFINE i == call[r].id
           sys == SystemFor(Space(r), caller[r].name, seen[r].system.created_by)
           m == Rewritten(store[i], call[r].content, call[r].metadata, sys)
<1>1. TypeOK /\ FreshIdsFree /\ ControlAt(r) /\ HeldAt(r) BY DEF PolicyInv, PolicyTypeOK
<1>2. /\ call[r] \in Call /\ Space(r) \in Spaces /\ caller[r].name \in Names
  BY SentFacts DEF WriterOps
<1>3. i \in Ids /\ seen[r] \in Memory BY <1>1 DEF ControlAt, Holds
<1>4. store[i] # None BY VisibleStored DEF UpdateWrite
<1>5. store[i].partition = Space(r) /\ i <= created
  BY <1>1, <1>4 DEF HeldAt, Holds, Space
<1>6. sys \in System /\ sys # None /\ sys.created_by = seen[r].system.created_by
  <2>1. seen[r].system.created_by \in Names \cup {None} BY <1>3 DEF Memory, System
  <2>2. sys \in System BY <2>1, <1>2 DEF SystemFor, System
  <2> QED BY <2>2, NoneAssumption DEF SystemFor
<1>7. call[r].content \in Contents \cup {None} /\ call[r].metadata \in Patch
  BY <1>2 DEF Call
<1>8. store[i] \in Memory BY <1>1, <1>3, <1>4 DEF TypeOK
<1> HIDE DEF i, sys
<1>9. m \in Memory /\ m.partition = store[i].partition /\ m.system = sys
  BY <1>6, <1>7, <1>8, RewrittenType
<1>10. UpdateEffect(i, call[r].content, call[r].metadata, sys) /\ Wrote(r, {i})
  BY DEF UpdateWrite, i, sys
<1>11. TypeOK' BY <1>1, <1>3, <1>4, <1>6, <1>7, <1>10, UpdateEffectType
<1>12. m.metadata = Patched(store[i].metadata, call[r].metadata) BY DEF Rewritten
<1> HIDE DEF m
<1>18. store' = [store EXCEPT ![i] = m] /\ created' = created
  BY <1>10 DEF UpdateEffect, m
<1>13. store'[i] = m /\ \A j \in Ids \ {i} : store'[j] = store[j]
  BY <1>1, <1>3, <1>18 DEF TypeOK
<1>14. created \in Nat BY <1>1, BoundAssumption DEF TypeOK
<1>15. StoreStep
  BY <1>1, <1>3, <1>4, <1>5, <1>6, <1>9, <1>13, <1>14, <1>18 DEF StoreStep, FreshIdsFree, Ids
<1>19. RewriteOf(r)
  BY <1>6, <1>9, <1>12, <1>13 DEF RewriteOf, i
<1>16. wrote'[r] = wrote[r] \cup {i} BY <1>10 DEF Wrote, PolicyInv, PolicyTypeOK
<1>17. \A j \in Touched : j = i BY <1>13 DEF Touched
<1> QED
  BY <1>3, <1>4, <1>5, <1>10, <1>11, <1>15, <1>16, <1>17, <1>19 DEF WriteStep, PartitionOf

\* delete removes the memory it read, which is still its caller's.
LEMMA DeleteWriteStep ==
  ASSUME PolicyInv, NEW r \in Requests, HasSent(r, "delete"), DeleteWrite(r)
  PROVE  WriteStep(r)
<1>1. ControlAt(r) /\ HeldAt(r) BY DEF PolicyInv
<1>2. call[r].id \in Ids BY <1>1 DEF ControlAt, Holds
<1>3. store[call[r].id] # None => store[call[r].id].partition = Space(r)
  BY <1>1 DEF HeldAt, Holds, Space
<1> QED BY <1>2, <1>3, RemoveStep DEF DeleteWrite, WriterOps

\* delete_all removes memories of its caller's partition only.
LEMMA DeleteAllWriteStep ==
  ASSUME PolicyInv, NEW r \in Requests, HasSent(r, "delete_all"), DeleteAllWrite(r)
  PROVE  WriteStep(r)
<1> DEFINE D == Matching(Space(r), call[r].scope)
<1>1. D \in SUBSET Ids /\ \A i \in D : store[i].partition = Space(r)
  BY DEF Matching, Stored
<1>2. RemoveEffect(D) /\ Wrote(r, D) BY DEF DeleteAllWrite
<1> HIDE DEF D
<1> QED BY <1>1, <1>2, RemoveStep DEF WriterOps

\* What an add may do: it changes and removes stored memories of its own space only.
LEMMA ExtractionType ==
  ASSUME NEW r \in Requests, NEW x \in Extractions(r)
  PROVE  /\ x.fresh \in BOOLEAN
         /\ x.changed \in SUBSET Ids /\ x.removed \in SUBSET Ids
         /\ \A i \in x.changed \cup x.removed :
              store[i] # None /\ store[i].partition = Space(r)
<1> DEFINE own == {i \in Stored : store[i].partition = Space(r)}
<1>1. own \in SUBSET Ids /\ \A i \in own : store[i] # None /\ store[i].partition = Space(r)
  BY DEF Stored
<1>2. /\ x.fresh \in BOOLEAN /\ x.changed \in SUBSET own /\ x.removed \in SUBSET own
  <2>1. CASE ExtractsFacts /\ call[r].infer
    <3>1. x \in [fresh : BOOLEAN, changed : SUBSET own, removed : SUBSET own]
      BY <2>1 DEF Extractions
    <3> HIDE DEF own
    <3> QED BY <3>1
  <2>2. CASE ~(ExtractsFacts /\ call[r].infer)
    <3>1. x = [fresh |-> TRUE, changed |-> {}, removed |-> {}] BY <2>2 DEF Extractions
    <3> HIDE DEF own
    <3> QED BY <3>1
  <2> QED BY <2>1, <2>2
<1> HIDE DEF own
<1> QED BY <1>1, <1>2

\* add stores a new memory in its caller's partition, and rewrites or removes only
\* memories of that partition.
LEMMA AddWriteStep ==
  ASSUME PolicyInv, NEW r \in Requests, HasSent(r, "add"), NEW x \in Extractions(r),
         AddWrite(r, x)
  PROVE  WriteStep(r)
<1> DEFINE sys == SystemFor(Space(r), caller[r].name, caller[r].name)
           new == NewMemory(Space(r), call[r].content, call[r].scope, call[r].metadata, sys)
           keep(m) == [space |-> m.system.space, author |-> caller[r].name,
                       created_by |-> m.system.created_by]
           Changed(m) == Rewritten(m, call[r].content, NoPatch, keep(m))
           added == IF x.fresh THEN {created + 1} ELSE {}
<1>1. TypeOK /\ FreshIdsFree BY DEF PolicyInv, PolicyTypeOK
<1>2. /\ call[r] \in Call /\ call[r] \in Calls /\ call[r].op = "add"
      /\ Space(r) \in Spaces /\ caller[r].name \in Names
  BY SentFacts DEF WriterOps
<1>3. /\ call[r].content \in Contents /\ call[r].metadata \in Metadata
      /\ call[r].scope \in Scope
  BY <1>2, CallsAssumption DEF Call
<1>4. sys \in System BY <1>2 DEF SystemFor, System
<1>5. new \in Memory /\ new.partition = Space(r)
  BY <1>2, <1>3, <1>4, NewMemoryType DEF NewMemory
<1>6. ASSUME NEW m \in Memory
      PROVE  /\ Changed(m) \in Memory /\ Changed(m).partition = m.partition
             /\ Changed(m).system.created_by = m.system.created_by
             /\ Changed(m).metadata = m.metadata
  <2>1. m.system \in System /\ m.metadata \in Metadata BY DEF Memory
  <2>2. keep(m) \in System BY <2>1, <1>2 DEF System
  <2>3. keep(m) # None BY <2>2, NoneAssumption
  <2>4. Changed(m).metadata = m.metadata BY <2>1, KeepsAll DEF Rewritten
  <2> QED BY <2>2, <2>3, <2>4, <1>3, NoPatchType, RewrittenType
<1>7. created \in Nat /\ created \in 0..MaxMemories /\ MaxMemories \in Nat
  BY <1>1, BoundAssumption DEF TypeOK
<1>8. added \in SUBSET Ids /\ \A i \in added : i = created + 1
  BY <1>7 DEF AddWrite, Ids
<1>9. \A i \in added : store[i] = None BY <1>1, <1>7, <1>8 DEF FreshIdsFree
<1>10. /\ x.changed \in SUBSET Ids /\ x.removed \in SUBSET Ids
       /\ \A i \in x.changed \cup x.removed :
            store[i] \in Memory /\ store[i] # None /\ store[i].partition = Space(r)
  BY <1>1, ExtractionType DEF TypeOK
<1>11. created' = IF x.fresh THEN created + 1 ELSE created
  BY DEF AddWrite
<1>12. store' = [i \in Ids |->
          IF i \in added THEN new
          ELSE IF i \in x.changed THEN Changed(store[i])
          ELSE IF i \in x.removed THEN None ELSE store[i]]
  BY DEF AddWrite
<1>13. history' = [i \in Ids |->
          IF i \in added THEN <<CreatedEntry(new)>>
          ELSE IF i \in x.changed
               THEN Append(history[i], UpdatedEntry(store[i], Changed(store[i])))
          ELSE IF i \in x.removed THEN <<>> ELSE history[i]]
  BY DEF AddWrite
<1>14. Wrote(r, added \cup x.changed \cup x.removed) BY DEF AddWrite
<1>15. created' \in 0..MaxMemories
  BY <1>7, <1>11 DEF AddWrite
<1>16. <<CreatedEntry(new)>> \in Seq(HistoryEntry) BY <1>5, EntryTypes
<1>17. ASSUME NEW i \in x.changed
       PROVE  Append(history[i], UpdatedEntry(store[i], Changed(store[i]))) \in Seq(HistoryEntry)
  <2>1. UpdatedEntry(store[i], Changed(store[i])) \in HistoryEntry
    BY <1>6, <1>10, <1>17, EntryTypes
  <2>2. history[i] \in Seq(HistoryEntry) BY <1>1, <1>10, <1>17 DEF TypeOK
  <2> QED BY <2>1, <2>2
<1> HIDE DEF new, Changed, added
<1>18. TypeOK'
  <2>1. store' \in [Ids -> Memory \cup {None}]
    BY <1>1, <1>5, <1>6, <1>10, <1>12 DEF TypeOK
  <2>2. history' \in [Ids -> Seq(HistoryEntry)]
    BY <1>1, <1>13, <1>16, <1>17 DEF TypeOK
  <2> QED BY <2>1, <2>2, <1>15 DEF TypeOK
<1>19. StoreStep
  <2>1. created' >= created BY <1>7, <1>11
  <2>2. FreshIdsFree'
    BY <1>1, <1>7, <1>8, <1>10, <1>11, <1>12 DEF FreshIdsFree, added, Ids
  <2>3. ASSUME NEW i \in Ids, store'[i] # None
        PROVE  \/ store[i] = None /\ i > created
               \/ store[i] # None /\ store'[i].partition = store[i].partition
    BY <2>3, <1>6, <1>7, <1>8, <1>9, <1>10, <1>12
  <2> QED BY <2>1, <2>2, <2>3 DEF StoreStep
<1>22. RewriteOf(r) BY <1>6, <1>9, <1>10, <1>12 DEF RewriteOf
<1>20. wrote'[r] = wrote[r] \cup (added \cup x.changed \cup x.removed)
  BY <1>14 DEF Wrote, PolicyInv, PolicyTypeOK
<1>21. ASSUME NEW i \in Touched
       PROVE  i \in wrote'[r] /\ PartitionOf(i) = Space(r)
  <2>1. i \in Ids /\ store'[i] # store[i] BY <1>21 DEF Touched
  <2>2. i \in added \cup x.changed \cup x.removed BY <2>1, <1>12
  <2>3. i \in added => store[i] = None /\ store'[i] = new BY <1>9, <1>12, <2>1
  <2> QED BY <2>2, <2>3, <1>5, <1>10, <1>20 DEF PartitionOf
<1> QED
  BY <1>8, <1>10, <1>14, <1>18, <1>19, <1>21, <1>22 DEF WriteStep

(***************************************************************************)
(* A step of a request, and how it keeps the invariant of the others.      *)
(***************************************************************************)

\* The types of everything but the backend's variables.
RequestTypes ==
  /\ pc \in [Requests -> Awaiting \cup {"idle", "done"}]
  /\ caller \in [Requests -> Keys \cup {None}]
  /\ call \in [Requests -> Calls \cup {None}]
  /\ seen \in [Requests -> Memory \cup {None}]
  /\ todo \in [Requests -> SUBSET Ids]
  /\ ids \in [Requests -> SUBSET Ids]
  /\ late \in [Requests -> WriterOps \cup {"none"}]
  /\ reply \in [Requests -> Reply \cup {None}]
  /\ audit \in [Requests -> Seq(AuditEntry)]
  /\ alarm \in [Requests -> SUBSET Ids]
  /\ wrote \in [Requests -> SUBSET Ids]

\* Whatever a step of r does to the store, it does to its caller's memories, as a
\* writer, and records it.
EffectOf(r) ==
  /\ StoreStep
  /\ RewriteOf(r)
  /\ TypeOK'
  /\ \A i \in Touched :
       /\ i \in wrote'[r] \ wrote[r]
       /\ caller[r] \in Keys
       /\ caller[r].relation = "writer"
       /\ PartitionOf(i) = Space(r)

\* After a step of r, what r holds is what it held, or what it has just read.
HoldStep(r) ==
  Holds(r)' => \/ Holds(r) /\ call'[r] = call[r] /\ seen'[r] = seen[r]
               \/ UNCHANGED store /\ seen'[r] = store[call'[r].id]

\* A step leaves request q where it is.
Unmoved(q) ==
  /\ pc'[q] = pc[q] /\ caller'[q] = caller[q] /\ call'[q] = call[q]
  /\ seen'[q] = seen[q] /\ late'[q] = late[q] /\ reply'[q] = reply[q]
  /\ wrote'[q] = wrote[q]

\* A step of r leaves every other request where it is.
Elsewhere(r) == \A q \in Requests \ {r} : Unmoved(q)

\* What every action of a request establishes.
RequestStep(r) ==
  /\ EffectOf(r)
  /\ HoldStep(r)
  /\ Elsewhere(r)
  /\ RequestTypes'
  /\ ControlAt(r)' /\ HeldAt(r)' /\ ShownAt(r)'

\* A request that does not move keeps what it holds through any change of the store.
LEMMA OtherKept ==
  ASSUME PolicyInv, StoreStep, TypeOK', NEW q \in Requests, Unmoved(q)
  PROVE  ControlAt(q)' /\ HeldAt(q)' /\ ShownAt(q)'
<1>1. ControlAt(q) /\ HeldAt(q) /\ ShownAt(q) BY DEF PolicyInv
<1>2. /\ pc'[q] = pc[q] /\ caller'[q] = caller[q] /\ call'[q] = call[q]
      /\ seen'[q] = seen[q] /\ late'[q] = late[q] /\ reply'[q] = reply[q]
      /\ wrote'[q] = wrote[q]
  BY DEF Unmoved
<1>3. ControlAt(q)' BY <1>1, <1>2 DEF ControlAt, HasSent, Holds
<1>4. ShownAt(q)' BY <1>1, <1>2 DEF ShownAt, Shown, Answered
<1>5. HeldAt(q)'
  <2> SUFFICES ASSUME Holds(q)' PROVE
        /\ call[q].id <= created'
        /\ store'[call[q].id] # None => store'[call[q].id].partition = caller[q].space
    BY <1>2 DEF HeldAt
  <2>1. Holds(q) BY <1>2 DEF Holds, HasSent
  <2>2. call[q].id \in Ids BY <1>1, <2>1 DEF ControlAt
  <2>3. created \in Nat /\ created' \in Int /\ call[q].id \in Nat
    BY <2>2, BoundAssumption DEF PolicyInv, PolicyTypeOK, TypeOK, Ids
  <2> QED BY <1>1, <2>1, <2>2, <2>3 DEF HeldAt, StoreStep
<1> QED BY <1>3, <1>4, <1>5

\* A step of one request keeps the invariant of all.
LEMMA RequestKeepsInv ==
  ASSUME PolicyInv, NEW r \in Requests, RequestStep(r)
  PROVE  PolicyInv'
<1>1. StoreStep /\ TypeOK' /\ FreshIdsFree' /\ Elsewhere(r)
  BY DEF RequestStep, EffectOf, StoreStep
<1>2. PolicyTypeOK' BY <1>1 DEF RequestStep, RequestTypes, PolicyTypeOK
<1>3. ASSUME NEW q \in Requests PROVE ControlAt(q)' /\ HeldAt(q)' /\ ShownAt(q)'
  <2>1. CASE q = r BY <2>1 DEF RequestStep
  <2>2. CASE q # r BY <1>1, <2>2, OtherKept DEF Elsewhere
  <2> QED BY <2>1, <2>2
<1> QED BY <1>1, <1>2, <1>3 DEF PolicyInv

\* A step that leaves the store and the record of writes alone.
LEMMA NoEffect ==
  ASSUME PolicyInv, NEW r \in Requests, UNCHANGED <<backendVars, wrote>>
  PROVE  /\ EffectOf(r)
         /\ wrote' \in [Requests -> SUBSET Ids]
         /\ \A q \in Requests \ {r} : wrote'[q] = wrote[q]
<1>1. store' = store /\ history' = history /\ created' = created /\ wrote' = wrote
  BY DEF backendVars
<1>2. TypeOK /\ FreshIdsFree /\ wrote \in [Requests -> SUBSET Ids]
  BY DEF PolicyInv, PolicyTypeOK
<1>3. TypeOK' /\ FreshIdsFree' BY <1>1, <1>2 DEF TypeOK, FreshIdsFree
<1>4. created \in Nat BY <1>2, BoundAssumption DEF TypeOK
<1>5. StoreStep /\ RewriteOf(r) BY <1>1, <1>3, <1>4 DEF StoreStep, RewriteOf
<1>6. Touched = {} BY <1>1 DEF Touched
<1> QED BY <1>1, <1>2, <1>3, <1>5, <1>6 DEF EffectOf

\* A write the request has sent takes effect.
LEMMA WriteEffect ==
  ASSUME PolicyInv, NEW r \in Requests, NEW op \in WriterOps, HasSent(r, op), WriteStep(r)
  PROVE  /\ EffectOf(r)
         /\ wrote' \in [Requests -> SUBSET Ids]
         /\ \A q \in Requests \ {r} : wrote'[q] = wrote[q]
<1>1. caller[r] \in Keys /\ caller[r].relation = "writer" /\ wrote[r] = {}
  BY SentFacts
<1>2. EffectOf(r) BY <1>1 DEF WriteStep, EffectOf
<1>3. PICK S \in SUBSET Ids : Wrote(r, S) BY DEF WriteStep
<1>4. wrote \in [Requests -> SUBSET Ids] BY DEF PolicyInv, PolicyTypeOK
<1> QED BY <1>2, <1>3, <1>4 DEF Wrote

\* A request that is answered, with nothing of it left to take effect.
LEMMA DoneAt ==
  ASSUME NEW r \in Requests, pc'[r] = "done", late'[r] = "none"
  PROVE  ControlAt(r)' /\ HeldAt(r)' /\ HoldStep(r)
<1>1. "done" \notin Awaiting /\ "done" \notin WriterOps /\ "none" \notin WriterOps
  BY DEF Awaiting, WriterOps
<1>2. ~Holds(r)' /\ \A op \in WriterOps : ~HasSent(r, op)' BY <1>1 DEF Holds, HasSent, WriterOps
<1> QED BY <1>1, <1>2 DEF ControlAt, HeldAt, HoldStep

\* Every memory a reply shows is in partition p and records no other space.
ShownIn(rep, p) ==
  \A i \in Ids : rep.shown[i] # None =>
    rep.shown[i].partition = p /\ rep.shown[i].system.space \in {None, p}

\* audited() writes one record, and the reply goes out.
LEMMA AnswerType ==
  ASSUME PolicyInv, NEW r \in Requests, NEW rep \in Reply, NEW named \in SUBSET Ids,
         Answer(r, rep, named)
  PROVE  /\ pc' \in [Requests -> Awaiting \cup {"idle", "done"}]
         /\ reply' \in [Requests -> Reply \cup {None}]
         /\ audit' \in [Requests -> Seq(AuditEntry)]
         /\ pc'[r] = "done" /\ reply'[r] = rep
         /\ \A q \in Requests \ {r} : pc'[q] = pc[q] /\ reply'[q] = reply[q]
<1>1. PolicyTypeOK BY DEF PolicyInv
<1>2. [outcome |-> rep.outcome, ids |-> named, count |-> rep.count] \in AuditEntry
  BY DEF AuditEntry, Reply
<1>3. audit' \in [Requests -> Seq(AuditEntry)]
  BY <1>1, <1>2 DEF Answer, PolicyTypeOK
<1> QED BY <1>1, <1>3 DEF Answer, PolicyTypeOK

\* A request awaiting a backend call is answered.
LEMMA AnswerStep ==
  ASSUME PolicyInv, NEW r \in Requests, pc[r] \in Awaiting,
         EffectOf(r), wrote' \in [Requests -> SUBSET Ids],
         \A q \in Requests \ {r} : wrote'[q] = wrote[q],
         NEW rep \in Reply, ShownIn(rep, Space(r)),
         NEW named \in SUBSET Ids, Answer(r, rep, named),
         UNCHANGED <<caller, call, seen, late>>,
         todo' \in [Requests -> SUBSET Ids], ids' \in [Requests -> SUBSET Ids],
         alarm' \in [Requests -> SUBSET Ids]
  PROVE  RequestStep(r)
<1>1. PolicyTypeOK /\ ControlAt(r) BY DEF PolicyInv
<1>2. late[r] = "none" /\ caller[r] \in Keys BY <1>1 DEF ControlAt, Awaiting
<1>3. /\ pc' \in [Requests -> Awaiting \cup {"idle", "done"}]
      /\ reply' \in [Requests -> Reply \cup {None}]
      /\ audit' \in [Requests -> Seq(AuditEntry)]
      /\ pc'[r] = "done" /\ reply'[r] = rep
      /\ \A q \in Requests \ {r} : pc'[q] = pc[q] /\ reply'[q] = reply[q]
  BY AnswerType
<1>4. RequestTypes' BY <1>1, <1>3 DEF RequestTypes, PolicyTypeOK
<1>5. Elsewhere(r) BY <1>3 DEF Elsewhere, Unmoved
<1>6. ControlAt(r)' /\ HeldAt(r)' /\ HoldStep(r) BY <1>2, <1>3, DoneAt
<1>7. caller[r] # None BY <1>2, PolicyConstants
<1>8. ShownAt(r)' BY <1>3, <1>7 DEF ShownAt, Shown, ShownIn, Space
<1> QED BY <1>4, <1>5, <1>6, <1>8 DEF RequestStep

(***************************************************************************)
(* The actions that only read.                                             *)
(***************************************************************************)

\* A request is answered without having changed anything.
LEMMA QuietAnswer ==
  ASSUME PolicyInv, NEW r \in Requests, pc[r] \in Awaiting,
         NEW rep \in Reply, ShownIn(rep, Space(r)), Answer(r, rep, ids[r]),
         UNCHANGED <<backendVars, caller, call, seen, ids, late, wrote>>,
         todo' \in [Requests -> SUBSET Ids], alarm' \in [Requests -> SUBSET Ids]
  PROVE  RequestStep(r)
<1>1. ids \in [Requests -> SUBSET Ids] BY DEF PolicyInv, PolicyTypeOK
<1>2. ids' \in [Requests -> SUBSET Ids] /\ ids[r] \in SUBSET Ids BY <1>1
<1>3. /\ EffectOf(r) /\ wrote' \in [Requests -> SUBSET Ids]
      /\ \A q \in Requests \ {r} : wrote'[q] = wrote[q]
  BY NoEffect
<1> QED BY <1>2, <1>3, AnswerStep

\* The reply carries only its outcome.
LEMMA BareAnswer ==
  ASSUME PolicyInv, NEW r \in Requests, pc[r] \in Awaiting, NEW o \in Outcomes,
         Answer(r, Bare(o), ids[r]),
         UNCHANGED <<backendVars, caller, call, seen, ids, late, wrote>>,
         todo' \in [Requests -> SUBSET Ids], alarm' \in [Requests -> SUBSET Ids]
  PROVE  RequestStep(r)
<1>1. Bare(o) \in Reply /\ ShownIn(Bare(o), Space(r)) BY BareType DEF ShownIn
<1> QED BY <1>1, QuietAnswer

\* check_space refuses a memory.
LEMMA AlarmAnswer ==
  ASSUME PolicyInv, NEW r \in Requests, pc[r] \in Awaiting, NEW i \in Ids, Alarm(r, i),
         UNCHANGED <<backendVars, caller, call, seen, todo, ids, late, wrote>>
  PROVE  RequestStep(r)
<1>1. PolicyTypeOK BY DEF PolicyInv
<1>2. alarm' \in [Requests -> SUBSET Ids] BY <1>1 DEF Alarm, PolicyTypeOK
<1>3. todo' \in [Requests -> SUBSET Ids] BY <1>1 DEF PolicyTypeOK
<1>4. "internal_error" \in Outcomes BY DEF Outcomes
<1>5. Answer(r, Bare("internal_error"), ids[r]) BY DEF Alarm
<1> QED BY <1>2, <1>3, <1>4, <1>5, BareAnswer

\* The by-id read that ends a request.
LEMMA ReadStep ==
  ASSUME PolicyInv, NEW r \in Requests,
         ReadMissing(r) \/ ReadForeign(r) \/ ReadShown(r) \/ ReadOverCap(r)
  PROVE  RequestStep(r)
<1>1. PolicyTypeOK /\ ControlAt(r) /\ TypeOK BY DEF PolicyInv, PolicyTypeOK
<1>2. pc[r] = "read" /\ pc[r] \in Awaiting
  BY DEF ReadMissing, ReadForeign, ReadShown, ReadOverCap, Readable, Awaiting
<1>3. call[r].id \in Ids BY <1>1, <1>2 DEF ControlAt
<1>4. todo \in [Requests -> SUBSET Ids] /\ alarm \in [Requests -> SUBSET Ids]
  BY <1>1 DEF PolicyTypeOK
<1>5. CASE ReadMissing(r)
  <2>1. "not_found" \in Outcomes BY DEF Outcomes
  <2> QED BY <1>2, <1>4, <1>5, <2>1, BareAnswer DEF ReadMissing
<1>6. CASE ReadForeign(r)
  BY <1>2, <1>3, <1>6, AlarmAnswer DEF ReadForeign
<1>7. CASE ReadShown(r)
  <2> DEFINE i == call[r].id
             rep == Result(Show({i}), <<>>, {}, None)
  <2>1. Answer(r, rep, ids[r]) BY <1>7 DEF ReadShown
  <2>2. InSpace(store[i], Space(r)) BY <1>7 DEF ReadShown, Readable
  <2>3. Show({i}) \in [Ids -> Memory \cup {None}] BY <1>1 DEF Show, TypeOK
  <2>4. <<>> \in Seq(HistoryEntry) /\ "ok" \in Outcomes BY DEF Outcomes
  <2>5. rep \in Reply BY <2>3, <2>4, ResultType
  <2>6. ShownIn(rep, Space(r)) BY <2>2 DEF ShownIn, Show, InSpace, Result
  <2> HIDE DEF rep
  <2> QED BY <1>2, <1>4, <1>7, <2>1, <2>5, <2>6, QuietAnswer DEF ReadShown
<1>8. CASE ReadOverCap(r)
  <2>1. "validation_error" \in Outcomes BY DEF Outcomes
  <2> QED BY <1>2, <1>4, <1>8, <2>1, BareAnswer DEF ReadOverCap
<1> QED BY <1>5, <1>6, <1>7, <1>8

\* The memories a scan returns are stored ones.
LEMMA ScannedType ==
  ASSUME NEW r \in Requests
  PROVE  Scanned(r) \in SUBSET Ids
<1>1. Found(Space(r), call[r].scope) \in SUBSET Ids BY DEF Found, Matching, Stored
<1> QED BY <1>1 DEF Scanned, Ranked, Page

\* A page or a ranking whose memories all passed the space check.
LEMMA ScanReplyStep ==
  ASSUME PolicyInv, NEW r \in Requests, ScanReply(r)
  PROVE  RequestStep(r)
<1> DEFINE S == InScope(Scanned(r), call[r].scope)
           rep == Result(Show(S), <<>>, {}, Cardinality(S))
<1>1. PolicyTypeOK /\ TypeOK BY DEF PolicyInv, PolicyTypeOK
<1>2. pc[r] \in Awaiting BY DEF ScanReply, Scanning, Awaiting
<1>3. S \in SUBSET Ids /\ S \subseteq Scanned(r) BY ScannedType DEF InScope
<1>4. Answer(r, rep, ids[r]) BY DEF ScanReply, Listing
<1>5. \A i \in Scanned(r) : InSpace(store[i], Space(r)) BY DEF ScanReply
<1> HIDE DEF S
<1>6. Show(S) \in [Ids -> Memory \cup {None}] BY <1>1 DEF Show, TypeOK
<1>7. rep \in Reply
  <2>1. Cardinality(S) \in Nat BY <1>3, IdsCount
  <2>2. <<>> \in Seq(HistoryEntry) OBVIOUS
  <2> QED BY <1>6, <2>1, <2>2, ResultType
<1>8. ShownIn(rep, Space(r)) BY <1>3, <1>5 DEF ShownIn, Result, Show, InSpace
<1>9. todo \in [Requests -> SUBSET Ids] /\ alarm \in [Requests -> SUBSET Ids]
  BY <1>1 DEF PolicyTypeOK
<1> HIDE DEF rep
<1> QED BY <1>2, <1>4, <1>7, <1>8, <1>9, QuietAnswer DEF ScanReply

\* A reply that shows no memory: a log, entity rows or a count.
LEMMA NoShow ==
  ASSUME NEW l, NEW w, NEW n, NEW p
  PROVE  ShownIn(Result(Nothing, l, w, n), p)
BY DEF ShownIn, Result, Nothing

\* The remaining actions that only read: history, entities, a cursor the backend
\* refuses, a memory that is gone, and a scan that found another space's memory.
LEMMA ListStep ==
  ASSUME PolicyInv, NEW r \in Requests,
         HistoryReply(r) \/ EntitiesReply(r) \/ BadCursor(r) \/ GoneReply(r) \/ ScanForeign(r)
  PROVE  RequestStep(r)
<1>1. PolicyTypeOK /\ ControlAt(r) /\ TypeOK BY DEF PolicyInv, PolicyTypeOK
<1>2. todo \in [Requests -> SUBSET Ids] /\ alarm \in [Requests -> SUBSET Ids]
  BY <1>1 DEF PolicyTypeOK
<1>3. Nothing \in [Ids -> Memory \cup {None}] BY DEF Nothing
<1>4. CASE HistoryReply(r)
  <2>1. pc[r] = "history" /\ pc[r] \in Awaiting BY <1>4 DEF HistoryReply, Awaiting
  <2>2. call[r].id \in Ids BY <1>1, <2>1 DEF ControlAt, Holds
  <2>3. history[call[r].id] \in Seq(HistoryEntry) BY <1>1, <2>2 DEF TypeOK
  <2>4. Result(Nothing, history[call[r].id], {}, None) \in Reply BY <1>3, <2>3, ResultType
  <2> QED BY <1>2, <1>4, <2>1, <2>4, NoShow, QuietAnswer DEF HistoryReply
<1>5. CASE EntitiesReply(r)
  <2>1. pc[r] \in Awaiting BY <1>5 DEF EntitiesReply, Awaiting
  <2>2. PICK rows \in SUBSET EntityRows(Found(Space(r), call[r].scope)) :
          Answer(r, Result(Nothing, <<>>, rows, Cardinality(rows)), ids[r])
    BY <1>5 DEF EntitiesReply
  <2>3. rows \in SUBSET (ScopeKeys \X Labels) BY DEF EntityRows
  <2>4. <<>> \in Seq(HistoryEntry) /\ Cardinality(rows) \in Nat BY <2>3, RowsCount
  <2>5. Result(Nothing, <<>>, rows, Cardinality(rows)) \in Reply
    BY <1>3, <2>3, <2>4, ResultType
  <2> QED BY <1>2, <1>5, <2>1, <2>2, <2>5, NoShow, QuietAnswer DEF EntitiesReply
<1>6. CASE BadCursor(r)
  <2>1. "validation_error" \in Outcomes /\ pc[r] \in Awaiting
    BY <1>6 DEF Outcomes, BadCursor, Awaiting
  <2> QED BY <1>2, <1>6, <2>1, BareAnswer DEF BadCursor
<1>7. CASE GoneReply(r)
  <2>1. "not_found" \in Outcomes /\ pc[r] \in Awaiting
    BY <1>7 DEF Outcomes, GoneReply, Awaiting
  <2> QED BY <1>2, <1>7, <2>1, BareAnswer DEF GoneReply
<1>8. CASE ScanForeign(r)
  <2>1. pc[r] \in Awaiting BY <1>8 DEF ScanForeign, Scanning, Awaiting
  <2> QED BY <1>8, <2>1, AlarmAnswer DEF ScanForeign
<1> QED BY <1>4, <1>5, <1>6, <1>7, <1>8

(***************************************************************************)
(* The actions that move a request on, and the writes.                     *)
(***************************************************************************)

\* A request that stays where it is, or moves to another wait, without an answer.
LEMMA MoveStep ==
  ASSUME PolicyInv, NEW r \in Requests, NEW p \in Awaiting,
         pc' = [pc EXCEPT ![r] = p],
         EffectOf(r), wrote' \in [Requests -> SUBSET Ids],
         \A q \in Requests \ {r} : wrote'[q] = wrote[q],
         UNCHANGED <<caller, call, late, reply, audit, alarm>>,
         seen' \in [Requests -> Memory \cup {None}],
         \A q \in Requests \ {r} : seen'[q] = seen[q],
         todo' \in [Requests -> SUBSET Ids], ids' \in [Requests -> SUBSET Ids],
         ControlAt(r)', HeldAt(r)', HoldStep(r)
  PROVE  RequestStep(r)
<1>1. PolicyTypeOK BY DEF PolicyInv
<1>2. pc' \in [Requests -> Awaiting \cup {"idle", "done"}] /\ pc'[r] = p
  BY <1>1 DEF PolicyTypeOK
<1>3. \A q \in Requests \ {r} : pc'[q] = pc[q] BY <1>1 DEF PolicyTypeOK
<1>4. RequestTypes' BY <1>1, <1>2 DEF RequestTypes, PolicyTypeOK
<1>5. Elsewhere(r) BY <1>3 DEF Elsewhere, Unmoved
<1>6. ShownAt(r)' BY <1>2 DEF ShownAt, Shown, Answered, Awaiting
<1> QED BY <1>4, <1>5, <1>6 DEF RequestStep

\* A request that reads its own writes back holds nothing for a later write.
LEMMA ReadBackAt ==
  ASSUME PolicyInv, NEW r \in Requests, pc'[r] = "readback", late'[r] = "none",
         caller'[r] \in Keys, call'[r] \in Calls
  PROVE  ControlAt(r)' /\ HeldAt(r)' /\ HoldStep(r)
<1>1. "readback" \notin WriterOps /\ "none" \notin WriterOps BY DEF WriterOps
<1>2. ~Holds(r)' /\ \A op \in WriterOps : ~HasSent(r, op)' BY <1>1 DEF Holds, HasSent, WriterOps
<1> QED BY <1>1, <1>2 DEF ControlAt, HeldAt, HoldStep

\* add's read of what it wrote: one memory passes the space check, or fails it.
LEMMA ReadBackStep ==
  ASSUME PolicyInv, NEW r \in Requests, ReadBack(r) \/ ReadBackFails(r)
  PROVE  RequestStep(r)
<1>1. PolicyTypeOK /\ ControlAt(r) BY DEF PolicyInv
<1>2. pc[r] = "readback" /\ pc[r] \in Awaiting /\ "readback" \in Awaiting
  BY DEF ReadBack, ReadBackFails, Awaiting
<1>3. todo[r] \in SUBSET Ids BY <1>1 DEF PolicyTypeOK
<1>4. CASE ReadBackFails(r)
  BY <1>2, <1>3, <1>4, AlarmAnswer DEF ReadBackFails
<1>5. CASE ReadBack(r)
  <2>1. PICK i \in todo[r] :
          /\ todo' = [todo EXCEPT ![r] = @ \ {i}]
          /\ \/ Answer(r, Bare("ok"), ids[r])
             \/ UNCHANGED <<pc, reply, audit>>
          /\ UNCHANGED <<backendVars, caller, call, seen, ids, late, alarm, wrote>>
    BY <1>5 DEF ReadBack
  <2>2. todo' \in [Requests -> SUBSET Ids] BY <1>1, <2>1 DEF PolicyTypeOK
  <2>3. alarm' \in [Requests -> SUBSET Ids] BY <1>1, <2>1 DEF PolicyTypeOK
  <2>4. CASE Answer(r, Bare("ok"), ids[r])
    <3>1. "ok" \in Outcomes BY DEF Outcomes
    <3> QED BY <1>2, <2>1, <2>2, <2>3, <2>4, <3>1, BareAnswer
  <2>5. CASE UNCHANGED <<pc, reply, audit>>
    <3>1. pc' = [pc EXCEPT ![r] = "readback"] BY <1>1, <1>2, <2>5 DEF PolicyTypeOK
    <3>2. /\ EffectOf(r) /\ wrote' \in [Requests -> SUBSET Ids]
          /\ \A q \in Requests \ {r} : wrote'[q] = wrote[q]
      BY <2>1, NoEffect
    <3>3. caller[r] \in Keys /\ call[r] \in Calls /\ late[r] = "none"
      BY <1>1, <1>2 DEF ControlAt
    <3>4. ControlAt(r)' /\ HeldAt(r)' /\ HoldStep(r) BY <1>2, <2>1, <2>5, <3>3, ReadBackAt
    <3>5. seen' \in [Requests -> Memory \cup {None}] /\ ids' \in [Requests -> SUBSET Ids]
      BY <1>1, <2>1 DEF PolicyTypeOK
    <3> QED BY <1>2, <2>1, <2>2, <2>5, <3>1, <3>2, <3>4, <3>5, MoveStep
  <2> QED BY <2>1, <2>4, <2>5
<1> QED BY <1>4, <1>5

\* The read before an update, a delete or a history passes: the request now holds a
\* memory of its caller's space.
LEMMA ReadOnStep ==
  ASSUME PolicyInv, NEW r \in Requests, ReadOn(r)
  PROVE  RequestStep(r)
<1> DEFINE i == call[r].id
           m == store[i]
<1>1. PolicyTypeOK /\ TypeOK /\ ControlAt(r) /\ FreshIdsFree BY DEF PolicyInv, PolicyTypeOK
<1>2. /\ pc[r] = "read" /\ "read" \in Awaiting
      /\ Visible(Space(r), i) /\ InSpace(m, Space(r)) /\ call[r].op # "get"
      /\ seen' = [seen EXCEPT ![r] = m] /\ pc' = [pc EXCEPT ![r] = call[r].op]
      /\ UNCHANGED <<backendVars, caller, call, todo, ids, late, reply, audit, alarm, wrote>>
  BY DEF ReadOn, Readable, Awaiting
<1>3. /\ caller[r] \in Keys /\ call[r] \in Calls /\ late[r] = "none" /\ wrote[r] = {}
      /\ call[r].op \in ByIdOps /\ i \in Ids
      /\ call[r].op \in WriterOps => caller[r].relation = "writer"
  BY <1>1, <1>2 DEF ControlAt
<1>4. call[r].op \in {"update", "delete", "history"} /\ call[r].op \in Awaiting
  BY <1>2, <1>3 DEF ByIdOps, Awaiting
<1>5. m \in Memory /\ m # None BY <1>1, <1>2, <1>3 DEF TypeOK, InSpace
<1>6. i <= created
  BY <1>1, <1>3, <1>5, BoundAssumption DEF FreshIdsFree, Ids, TypeOK
<1>7. m.partition = caller[r].space BY <1>2 DEF InSpace, Space
<1>8. /\ pc'[r] = call[r].op /\ seen'[r] = m /\ late'[r] = "none" /\ wrote'[r] = {}
      /\ caller'[r] = caller[r] /\ call'[r] = call[r] /\ store' = store /\ created' = created
  BY <1>1, <1>2, <1>3 DEF PolicyTypeOK, backendVars
<1> HIDE DEF i, m
<1>9. ControlAt(r)'
  BY <1>3, <1>4, <1>5, <1>8 DEF ControlAt, HasSent, Holds, WriterOps, i
<1>10. HeldAt(r)' /\ HoldStep(r) BY <1>6, <1>7, <1>8 DEF HeldAt, HoldStep, i, m
<1>11. /\ EffectOf(r) /\ wrote' \in [Requests -> SUBSET Ids]
       /\ \A q \in Requests \ {r} : wrote'[q] = wrote[q]
  BY <1>2, NoEffect
<1>12. /\ seen' \in [Requests -> Memory \cup {None}]
       /\ \A q \in Requests \ {r} : seen'[q] = seen[q]
       /\ todo' \in [Requests -> SUBSET Ids] /\ ids' \in [Requests -> SUBSET Ids]
  BY <1>1, <1>2, <1>5 DEF PolicyTypeOK
<1> QED BY <1>2, <1>4, <1>9, <1>10, <1>11, <1>12, MoveStep

\* A write is answered.
LEMMA WriteAnswer ==
  ASSUME PolicyInv, NEW r \in Requests, NEW op \in WriterOps, pc[r] = op, WriteStep(r),
         NEW rep \in Reply, ShownIn(rep, Space(r)), NEW named \in SUBSET Ids,
         Answer(r, rep, named), UNCHANGED <<caller, call, seen, late>>,
         todo' \in [Requests -> SUBSET Ids], ids' \in [Requests -> SUBSET Ids],
         alarm' \in [Requests -> SUBSET Ids]
  PROVE  RequestStep(r)
<1>1. HasSent(r, op) /\ pc[r] \in Awaiting BY DEF HasSent, WriterOps, Awaiting
<1>2. /\ EffectOf(r) /\ wrote' \in [Requests -> SUBSET Ids]
      /\ \A q \in Requests \ {r} : wrote'[q] = wrote[q]
  BY <1>1, WriteEffect
<1> QED BY <1>1, <1>2, AnswerStep

\* delete and delete_all.
LEMMA DeleteSteps ==
  ASSUME PolicyInv, NEW r \in Requests, DeleteReply(r) \/ DeleteAllReply(r)
  PROVE  RequestStep(r)
<1>1. PolicyTypeOK BY DEF PolicyInv
<1>2. /\ todo \in [Requests -> SUBSET Ids] /\ ids \in [Requests -> SUBSET Ids]
      /\ alarm \in [Requests -> SUBSET Ids] /\ ids[r] \in SUBSET Ids
  BY <1>1 DEF PolicyTypeOK
<1>3. "ok" \in Outcomes BY DEF Outcomes
<1>4. CASE DeleteReply(r)
  <2>1. pc[r] = "delete" /\ "delete" \in WriterOps BY <1>4 DEF DeleteReply, WriterOps
  <2>2. WriteStep(r) BY <1>4, <2>1, DeleteWriteStep DEF DeleteReply, HasSent
  <2>3. Bare("ok") \in Reply /\ ShownIn(Bare("ok"), Space(r)) BY <1>3, BareType DEF ShownIn
  <2> QED BY <1>2, <1>4, <2>1, <2>2, <2>3, WriteAnswer DEF DeleteReply
<1>5. CASE DeleteAllReply(r)
  <2> DEFINE D == Matching(Space(r), call[r].scope)
             rep == Result(Nothing, <<>>, {}, DeletedCount(D))
  <2>1. pc[r] = "delete_all" /\ "delete_all" \in WriterOps
    BY <1>5 DEF DeleteAllReply, WriterOps
  <2>2. WriteStep(r) BY <1>5, <2>1, DeleteAllWriteStep DEF DeleteAllReply, HasSent
  <2>3. D \in SUBSET Ids BY DEF Matching, Stored
  <2>4. Answer(r, rep, ids[r]) BY <1>5 DEF DeleteAllReply
  <2> HIDE DEF D
  <2>5. DeletedCount(D) \in Nat \cup {None} BY <2>3, IdsCount DEF DeletedCount
  <2>6. Nothing \in [Ids -> Memory \cup {None}] /\ <<>> \in Seq(HistoryEntry) BY DEF Nothing
  <2>7. rep \in Reply /\ ShownIn(rep, Space(r)) BY <2>5, <2>6, ResultType, NoShow
  <2> HIDE DEF rep
  <2> QED BY <1>2, <1>5, <2>1, <2>2, <2>4, <2>7, WriteAnswer DEF DeleteAllReply
<1> QED BY <1>4, <1>5

\* update: what it stored passes the space check, or fails it.
LEMMA UpdateReplyStep ==
  ASSUME PolicyInv, NEW r \in Requests, UpdateReply(r)
  PROVE  RequestStep(r)
<1> DEFINE i == call[r].id
           shown == [Nothing EXCEPT ![i] = store'[i]]
           rep == Result(shown, <<>>, {}, None)
<1>1. PolicyTypeOK /\ ControlAt(r) BY DEF PolicyInv
<1>2. /\ todo \in [Requests -> SUBSET Ids] /\ ids \in [Requests -> SUBSET Ids]
      /\ alarm \in [Requests -> SUBSET Ids] /\ ids[r] \in SUBSET Ids
  BY <1>1 DEF PolicyTypeOK
<1>3. pc[r] = "update" /\ "update" \in WriterOps BY DEF UpdateReply, WriterOps
<1>4. WriteStep(r) BY <1>3, UpdateWriteStep DEF UpdateReply, HasSent
<1>5. TypeOK' BY <1>4 DEF WriteStep
<1>6. i \in Ids BY <1>1, <1>3 DEF ControlAt, Holds, HasSent
<1>7. UNCHANGED <<caller, call, seen, todo, ids, late>> BY DEF UpdateReply
<1>8. CASE /\ InSpace(store'[i], Space(r)) /\ Answer(r, rep, ids[r]) /\ UNCHANGED alarm
  <2>1. shown \in [Ids -> Memory \cup {None}] BY <1>5, <1>6 DEF TypeOK, Nothing
  <2>2. <<>> \in Seq(HistoryEntry) OBVIOUS
  <2>3. \A j \in Ids : shown[j] = IF j = i THEN store'[i] ELSE None BY <1>6 DEF Nothing
  <2> HIDE DEF shown
  <2>4. rep \in Reply BY <2>1, <2>2, ResultType
  <2>5. ShownIn(rep, Space(r)) BY <1>8, <2>3 DEF ShownIn, Result, InSpace
  <2>6. Answer(r, rep, ids[r]) BY <1>8
  <2> HIDE DEF rep
  <2> QED BY <1>2, <1>3, <1>4, <1>7, <1>8, <2>4, <2>5, <2>6, WriteAnswer
<1>9. CASE Alarm(r, i)
  <2>1. alarm' \in [Requests -> SUBSET Ids] BY <1>2, <1>6, <1>9 DEF Alarm
  <2>2. "internal_error" \in Outcomes BY DEF Outcomes
  <2>3. /\ Bare("internal_error") \in Reply /\ ShownIn(Bare("internal_error"), Space(r))
    BY <2>2, BareType DEF ShownIn
  <2> QED BY <1>2, <1>3, <1>4, <1>7, <1>9, <2>1, <2>3, WriteAnswer DEF Alarm
<1> QED BY <1>8, <1>9 DEF UpdateReply

\* add: the memories it stored or changed are read back next, when there are any.
LEMMA AddReplyStep ==
  ASSUME PolicyInv, NEW r \in Requests, AddReply(r)
  PROVE  RequestStep(r)
<1>1. PolicyTypeOK /\ TypeOK /\ ControlAt(r) BY DEF PolicyInv, PolicyTypeOK
<1>2. pc[r] = "add" /\ "add" \in WriterOps BY DEF AddReply, WriterOps
<1>3. PICK x \in Extractions(r) :
        /\ AddWrite(r, x)
        /\ ids' = [ids EXCEPT ![r] = ItemIds(x)]
        /\ todo' = [todo EXCEPT ![r] = ReadBackIds(x)]
        /\ \/ Answer(r, Bare("ok"), ItemIds(x))
           \/ /\ pc' = [pc EXCEPT ![r] = "readback"]
              /\ UNCHANGED <<reply, audit>>
  BY DEF AddReply
<1>4. UNCHANGED <<caller, call, seen, late, alarm>> BY DEF AddReply
<1>5. HasSent(r, "add") BY <1>2 DEF HasSent
<1>6. WriteStep(r) BY <1>3, <1>5, AddWriteStep
<1>7. x.fresh => created + 1 \in Ids
  <2>1. x.fresh => created < MaxMemories BY <1>3 DEF AddWrite
  <2> QED BY <1>1, <2>1, BoundAssumption DEF TypeOK, Ids
<1>8. ReadBackIds(x) \in SUBSET Ids /\ ItemIds(x) \in SUBSET Ids
  BY <1>7, ExtractionType DEF ReadBackIds, ItemIds
<1>9. /\ todo' \in [Requests -> SUBSET Ids] /\ ids' \in [Requests -> SUBSET Ids]
      /\ alarm' \in [Requests -> SUBSET Ids]
  BY <1>1, <1>3, <1>4, <1>8 DEF PolicyTypeOK
<1>10. CASE Answer(r, Bare("ok"), ItemIds(x))
  <2>1. "ok" \in Outcomes BY DEF Outcomes
  <2>2. Bare("ok") \in Reply /\ ShownIn(Bare("ok"), Space(r)) BY <2>1, BareType DEF ShownIn
  <2> QED BY <1>2, <1>4, <1>6, <1>8, <1>9, <1>10, <2>2, WriteAnswer
<1>11. CASE pc' = [pc EXCEPT ![r] = "readback"] /\ UNCHANGED <<reply, audit>>
  <2>1. /\ EffectOf(r) /\ wrote' \in [Requests -> SUBSET Ids]
        /\ \A q \in Requests \ {r} : wrote'[q] = wrote[q]
    BY <1>2, <1>5, <1>6, WriteEffect
  <2>2. caller[r] \in Keys /\ call[r] \in Calls /\ late[r] = "none"
    BY <1>1, <1>2 DEF ControlAt, Awaiting
  <2>3. pc'[r] = "readback" BY <1>1, <1>11 DEF PolicyTypeOK
  <2>4. ControlAt(r)' /\ HeldAt(r)' /\ HoldStep(r) BY <1>4, <2>2, <2>3, ReadBackAt
  <2>5. "readback" \in Awaiting /\ seen' \in [Requests -> Memory \cup {None}]
    BY <1>1, <1>4 DEF Awaiting, PolicyTypeOK
  <2> QED BY <1>4, <1>9, <1>11, <2>1, <2>4, <2>5, MoveStep
<1> QED BY <1>3, <1>10, <1>11

\* A request arrives, and is refused or sends its first call.
LEMMA StartStep ==
  ASSUME PolicyInv, NEW r \in Requests, Start(r)
  PROVE  RequestStep(r)
<1>1. PolicyTypeOK /\ ControlAt(r) BY DEF PolicyInv
<1>2. PICK key \in Keys \cup {None}, c \in Calls :
        LET named == IF c.op \in ByIdOps /\ c.id # None THEN {c.id} ELSE {}
        IN /\ pc[r] = "idle"
           /\ caller' = [caller EXCEPT ![r] = key]
           /\ call' = [call EXCEPT ![r] = c]
           /\ ids' = [ids EXCEPT ![r] = named]
           /\ \/ Answer(r, Bare(Verdict(key, c)), named)
              \/ /\ Verdict(key, c) = "ok"
                 /\ pc' = [pc EXCEPT ![r] = IF c.op \in ByIdOps THEN "read" ELSE c.op]
                 /\ UNCHANGED <<reply, audit>>
           /\ UNCHANGED <<backendVars, seen, todo, late, alarm, wrote>>
  BY DEF Start
<1> DEFINE named == IF c.op \in ByIdOps /\ c.id # None THEN {c.id} ELSE {}
<1>3. named \in SUBSET Ids BY CallsAssumption DEF Call
<1>4. late[r] = "none" /\ wrote[r] = {} BY <1>1, <1>2 DEF ControlAt
<1>5. /\ caller' \in [Requests -> Keys \cup {None}] /\ caller'[r] = key
      /\ call' \in [Requests -> Calls \cup {None}] /\ call'[r] = c
      /\ ids' \in [Requests -> SUBSET Ids] /\ seen' = seen /\ todo' = todo
      /\ late' = late /\ alarm' = alarm /\ wrote' = wrote
      /\ \A q \in Requests \ {r} : caller'[q] = caller[q] /\ call'[q] = call[q]
  BY <1>1, <1>2, <1>3 DEF PolicyTypeOK
<1>6. EffectOf(r) BY <1>2, NoEffect
<1>7. CASE Answer(r, Bare(Verdict(key, c)), named)
  <2>1. Verdict(key, c) \in Outcomes BY VerdictType
  <2>2. Bare(Verdict(key, c)) \in Reply
        /\ \A i \in Ids : Bare(Verdict(key, c)).shown[i] = None
    BY <2>1, BareType
  <2>3. /\ pc' \in [Requests -> Awaiting \cup {"idle", "done"}]
        /\ reply' \in [Requests -> Reply \cup {None}]
        /\ audit' \in [Requests -> Seq(AuditEntry)]
        /\ pc'[r] = "done" /\ reply'[r] = Bare(Verdict(key, c))
        /\ \A q \in Requests \ {r} : pc'[q] = pc[q] /\ reply'[q] = reply[q]
    BY <1>3, <1>7, <2>2, AnswerType
  <2>4. RequestTypes' BY <1>1, <1>5, <2>3 DEF RequestTypes, PolicyTypeOK
  <2>5. Elsewhere(r) BY <1>5, <2>3 DEF Elsewhere, Unmoved
  <2>6. ControlAt(r)' /\ HeldAt(r)' /\ HoldStep(r) BY <1>4, <1>5, <2>3, DoneAt
  <2>7. ShownAt(r)' BY <2>2, <2>3 DEF ShownAt, Shown
  <2> QED BY <1>6, <2>4, <2>5, <2>6, <2>7 DEF RequestStep
<1>8. CASE /\ Verdict(key, c) = "ok"
           /\ pc' = [pc EXCEPT ![r] = IF c.op \in ByIdOps THEN "read" ELSE c.op]
           /\ UNCHANGED <<reply, audit>>
  <2> DEFINE p == IF c.op \in ByIdOps THEN "read" ELSE c.op
  <2>1. /\ key \in Keys /\ (c.op \in WriterOps => key.relation = "writer")
        /\ c.op \in ByIdOps => c.id \in Ids
    BY <1>8, VerdictType
  <2>2. c.op \in Ops BY CallsAssumption DEF Call
  <2>3. p \in Awaiting /\ p \notin {"update", "delete", "history", "readback", "done"}
        /\ (p = "read" => c.op \in ByIdOps) /\ (p # "read" => p = c.op)
    BY <2>2 DEF Ops, ByIdOps, WriterOps, Awaiting
  <2>4. pc' = [pc EXCEPT ![r] = p] BY <1>8
  <2> HIDE DEF p
  <2>5. /\ pc' \in [Requests -> Awaiting \cup {"idle", "done"}] /\ pc'[r] = p
        /\ \A q \in Requests \ {r} : pc'[q] = pc[q]
    BY <1>1, <2>3, <2>4 DEF PolicyTypeOK
  <2>6. ~Holds(r)' BY <1>4, <1>5, <2>3, <2>5 DEF Holds, HasSent
  <2>7. HeldAt(r)' /\ HoldStep(r) BY <2>6 DEF HeldAt, HoldStep
  <2>8. \A op \in WriterOps : HasSent(r, op)' => c.op = op
    BY <1>4, <1>5, <2>3, <2>5 DEF HasSent, WriterOps
  <2>9. ControlAt(r)'
    BY <1>4, <1>5, <2>1, <2>3, <2>5, <2>6, <2>8 DEF ControlAt
  <2>10. ShownAt(r)' BY <2>3, <2>5 DEF ShownAt, Shown, Answered
  <2>11. RequestTypes' BY <1>1, <1>5, <1>8, <2>5 DEF RequestTypes, PolicyTypeOK
  <2>12. Elsewhere(r) BY <1>5, <1>8, <2>5 DEF Elsewhere, Unmoved
  <2> QED BY <1>6, <2>7, <2>9, <2>10, <2>11, <2>12 DEF RequestStep
<1> QED BY <1>2, <1>7, <1>8

\* A call fails, times out or is cancelled: its write may still be on its way, and
\* what let it through still holds.
LEMMA FaultStep ==
  ASSUME PolicyInv, NEW r \in Requests, Fault(r)
  PROVE  RequestStep(r)
<1>1. PolicyTypeOK /\ ControlAt(r) /\ HeldAt(r) BY DEF PolicyInv
<1>2. PICK f \in Faults :
        /\ pc[r] \in Awaiting
        /\ Answer(r, Bare(f), ids[r])
        /\ late' = [late EXCEPT
             ![r] = IF f # "error" /\ pc[r] \in WriterOps THEN pc[r] ELSE "none"]
        /\ UNCHANGED <<backendVars, caller, call, seen, todo, ids, alarm, wrote>>
  BY DEF Fault
<1>3. f \in Outcomes BY PolicyConstants DEF Outcomes
<1>4. Bare(f) \in Reply /\ \A i \in Ids : Bare(f).shown[i] = None BY <1>3, BareType
<1>5. /\ pc' \in [Requests -> Awaiting \cup {"idle", "done"}]
      /\ reply' \in [Requests -> Reply \cup {None}]
      /\ audit' \in [Requests -> Seq(AuditEntry)]
      /\ pc'[r] = "done" /\ reply'[r] = Bare(f)
      /\ \A q \in Requests \ {r} : pc'[q] = pc[q] /\ reply'[q] = reply[q]
  <2>1. ids[r] \in SUBSET Ids BY <1>1 DEF PolicyTypeOK
  <2> QED BY <1>2, <1>4, <2>1, AnswerType
<1>6. /\ late' \in [Requests -> WriterOps \cup {"none"}]
      /\ \A q \in Requests \ {r} : late'[q] = late[q]
  BY <1>1, <1>2 DEF PolicyTypeOK
<1>7. EffectOf(r) BY <1>2, NoEffect
<1>8. RequestTypes' BY <1>1, <1>2, <1>5, <1>6 DEF RequestTypes, PolicyTypeOK
<1>9. Elsewhere(r) BY <1>2, <1>5, <1>6 DEF Elsewhere, Unmoved
<1>10. ShownAt(r)' BY <1>4, <1>5 DEF ShownAt, Shown
<1>11. ControlAt(r)' /\ HeldAt(r)' /\ HoldStep(r)
  <2>1. CASE late'[r] = "none" BY <1>5, <2>1, DoneAt
  <2>2. CASE late'[r] # "none"
    <3>1. late'[r] = pc[r] /\ pc[r] \in WriterOps
      BY <1>1, <1>2, <2>2 DEF PolicyTypeOK
    <3>2. "done" \notin Awaiting /\ "done" \notin WriterOps BY DEF Awaiting, WriterOps
    <3>3. \A op \in WriterOps : HasSent(r, op)' => HasSent(r, op) /\ op = pc[r]
      BY <1>5, <3>1, <3>2 DEF HasSent
    <3>4. Holds(r)' => Holds(r)
      BY <1>5, <3>3 DEF Holds, WriterOps
    <3>5. /\ caller'[r] = caller[r] /\ call'[r] = call[r] /\ seen'[r] = seen[r]
          /\ wrote'[r] = wrote[r] /\ store' = store /\ created' = created
      BY <1>2 DEF backendVars
    <3>6. /\ caller[r] \in Keys /\ call[r] \in Calls /\ wrote[r] = {}
      BY <1>1, <1>2, <3>1 DEF ControlAt, WriterOps
    <3>7. ControlAt(r)'
      BY <1>1, <1>5, <3>2, <3>3, <3>4, <3>5, <3>6 DEF ControlAt
    <3>8. HeldAt(r)' /\ HoldStep(r) BY <1>1, <3>4, <3>5 DEF HeldAt, HoldStep
    <3> QED BY <3>7, <3>8
  <2> QED BY <2>1, <2>2
<1> QED BY <1>7, <1>8, <1>9, <1>10, <1>11 DEF RequestStep

\* A write nobody waits for any more reaches the store.
LEMMA LateWriteStep ==
  ASSUME PolicyInv, NEW r \in Requests, LateWrite(r)
  PROVE  RequestStep(r)
<1>1. PolicyTypeOK /\ ControlAt(r) /\ ShownAt(r) BY DEF PolicyInv
<1>2. PICK op \in WriterOps : late[r] = op /\ WriteStep(r)
  <2>1. {"add", "update", "delete", "delete_all"} = WriterOps BY DEF WriterOps
  <2>2. CASE late[r] = "add" /\ \E x \in Extractions(r) : AddWrite(r, x)
    BY <2>1, <2>2, AddWriteStep DEF HasSent
  <2>3. CASE late[r] = "update" /\ UpdateWrite(r)
    BY <2>1, <2>3, UpdateWriteStep DEF HasSent
  <2>4. CASE late[r] = "delete" /\ DeleteWrite(r)
    BY <2>1, <2>4, DeleteWriteStep DEF HasSent
  <2>5. CASE late[r] = "delete_all" /\ DeleteAllWrite(r)
    BY <2>1, <2>5, DeleteAllWriteStep DEF HasSent
  <2> QED BY <2>2, <2>3, <2>4, <2>5 DEF LateWrite
<1>3. /\ late' = [late EXCEPT ![r] = "none"]
      /\ UNCHANGED <<pc, caller, call, seen, todo, ids, reply, audit, alarm>>
  BY DEF LateWrite
<1>4. /\ EffectOf(r) /\ wrote' \in [Requests -> SUBSET Ids]
      /\ \A q \in Requests \ {r} : wrote'[q] = wrote[q]
  BY <1>2, WriteEffect DEF HasSent
<1>5. /\ late' \in [Requests -> WriterOps \cup {"none"}] /\ late'[r] = "none"
      /\ \A q \in Requests \ {r} : late'[q] = late[q]
  BY <1>1, <1>3 DEF PolicyTypeOK
<1>6. pc'[r] = "done" BY <1>1, <1>2, <1>3 DEF ControlAt, WriterOps
<1>7. ControlAt(r)' /\ HeldAt(r)' /\ HoldStep(r) BY <1>5, <1>6, DoneAt
<1>8. ShownAt(r)' BY <1>1, <1>3 DEF ShownAt, Shown, Answered
<1>9. RequestTypes' BY <1>1, <1>3, <1>4, <1>5 DEF RequestTypes, PolicyTypeOK
<1>10. Elsewhere(r) BY <1>3, <1>4, <1>5 DEF Elsewhere, Unmoved
<1> QED BY <1>4, <1>7, <1>8, <1>9, <1>10 DEF RequestStep

(***************************************************************************)
(* The specification keeps the invariant.                                  *)
(***************************************************************************)

\* Each step of a request keeps the invariant of all.
LEMMA RequestStepOf ==
  ASSUME PolicyInv, NEW r \in Requests, Start(r) \/ Proceed(r) \/ Fault(r) \/ LateWrite(r)
  PROVE  RequestStep(r)
<1>1. CASE Start(r) BY <1>1, StartStep
<1>2. CASE Proceed(r)
  BY <1>2, ReadStep, ReadOnStep, AddReplyStep, ReadBackStep, UpdateReplyStep, DeleteSteps,
     ScanReplyStep, ListStep
     DEF Proceed
<1>3. CASE Fault(r) BY <1>3, FaultStep
<1>4. CASE LateWrite(r) BY <1>4, LateWriteStep
<1> QED BY <1>1, <1>2, <1>3, <1>4

\* Every step of the policy layer is a step of one request.
LEMMA NextStep ==
  ASSUME PolicyInv, PolicyNext
  PROVE  \E r \in Requests : RequestStep(r)
BY RequestStepOf DEF PolicyNext

\* A step that changes nothing keeps the invariant.
LEMMA StutterKeepsInv ==
  ASSUME PolicyInv, UNCHANGED vars
  PROVE  PolicyInv'
<1>1. /\ store' = store /\ history' = history /\ created' = created
      /\ pc' = pc /\ caller' = caller /\ call' = call /\ seen' = seen /\ todo' = todo
      /\ ids' = ids /\ late' = late /\ reply' = reply /\ audit' = audit
      /\ alarm' = alarm /\ wrote' = wrote
  BY DEF vars, backendVars, requestVars
<1>2. PolicyTypeOK' /\ FreshIdsFree'
  BY <1>1 DEF PolicyInv, PolicyTypeOK, TypeOK, FreshIdsFree
<1>3. ASSUME NEW r \in Requests PROVE ControlAt(r)' /\ HeldAt(r)' /\ ShownAt(r)'
  BY <1>1 DEF PolicyInv, ControlAt, HeldAt, ShownAt, HasSent, Holds, Shown, Answered
<1> QED BY <1>2, <1>3 DEF PolicyInv

\* The server starts on a store another process may have filled, with no request.
LEMMA InitInv ==
  ASSUME PolicyInit
  PROVE  PolicyInv
<1>1. PICK q \in Preload :
        /\ store = [i \in Ids |-> IF i <= Len(q) THEN q[i] ELSE None]
        /\ history = [i \in Ids |-> IF i <= Len(q) THEN <<CreatedEntry(q[i])>> ELSE <<>>]
        /\ created = Len(q)
  BY DEF PolicyInit
<1>2. q \in Seq(Memory) /\ Len(q) <= MaxMemories /\ Len(q) \in Nat
  BY PreloadAssumption
<1>3. ASSUME NEW i \in Ids, i <= Len(q)
      PROVE  q[i] \in Memory /\ <<CreatedEntry(q[i])>> \in Seq(HistoryEntry)
  <2>1. i \in 1..Len(q) BY <1>2, <1>3 DEF Ids
  <2>2. q[i] \in Memory BY <1>2, <2>1
  <2>3. CreatedEntry(q[i]) \in HistoryEntry BY <2>2, EntryTypes
  <2> QED BY <2>2, <2>3
<1>4. store \in [Ids -> Memory \cup {None}] BY <1>1, <1>3
<1>5. history \in [Ids -> Seq(HistoryEntry)]
  <2>1. <<>> \in Seq(HistoryEntry) OBVIOUS
  <2> QED BY <1>1, <1>3, <2>1
<1>6. created \in 0..MaxMemories BY <1>1, <1>2, BoundAssumption
<1>7. TypeOK BY <1>4, <1>5, <1>6 DEF TypeOK
<1>8. FreshIdsFree BY <1>1, <1>2 DEF FreshIdsFree, Ids
<1>9. PolicyTypeOK
  <2>1. <<>> \in Seq(AuditEntry) OBVIOUS
  <2> QED BY <1>7, <2>1 DEF PolicyTypeOK, PolicyInit
<1>10. ASSUME NEW r \in Requests PROVE ControlAt(r) /\ HeldAt(r) /\ ShownAt(r)
  <2>1. pc[r] = "idle" /\ late[r] = "none" /\ wrote[r] = {} BY DEF PolicyInit
  <2>2. "idle" \notin Awaiting /\ "idle" \notin WriterOps /\ "none" \notin WriterOps
    BY DEF Awaiting, WriterOps
  <2>3. ~Holds(r) /\ \A op \in WriterOps : ~HasSent(r, op)
    BY <2>1, <2>2 DEF Holds, HasSent, WriterOps
  <2> QED BY <2>1, <2>2, <2>3 DEF ControlAt, HeldAt, ShownAt, Shown, Answered
<1> QED BY <1>8, <1>9, <1>10 DEF PolicyInv

\* The invariant holds in every behaviour of the policy layer.
THEOREM PolicyInvCorrect == PolicySpec => []PolicyInv
<1>1. PolicyInit => PolicyInv BY InitInv
<1>2. PolicyInv /\ [PolicyNext]_vars => PolicyInv'
  <2> SUFFICES ASSUME PolicyInv, [PolicyNext]_vars PROVE PolicyInv' OBVIOUS
  <2>1. CASE PolicyNext
    <3>1. PICK r \in Requests : RequestStep(r) BY <2>1, NextStep
    <3> QED BY <3>1, RequestKeepsInv
  <2>2. CASE UNCHANGED vars BY <2>2, StutterKeepsInv
  <2> QED BY <2>1, <2>2
<1> QED BY <1>1, <1>2, PTL DEF PolicySpec

\* Every request stays where the code can be, and every reply, record and stored
\* memory is complete (policy/__init__.py 144-320).
THEOREM PolicyTypeCorrect == PolicySpec => []PolicyTypeOK
<1>1. PolicyInv => PolicyTypeOK BY DEF PolicyInv
<1> QED BY <1>1, PolicyInvCorrect, PTL

\* No memory of another space reaches a client, even from a backend that returns it
\* (space.py 16-37).
THEOREM ResponseInSpaceCorrect == PolicySpec => []ResponseInSpace
<1>1. PolicyInv => ResponseInSpace BY DEF PolicyInv, ShownAt, ResponseInSpace
<1> QED BY <1>1, PolicyInvCorrect, PTL

\* A memory changes only by a request of a writer in its own space, even when the
\* backend writes by id alone and the write comes after its request was cancelled
\* (policy/__init__.py 239, 260).
THEOREM WritesStayInSpaceCorrect == PolicySpec => WritesStayInSpace
<1> DEFINE Authorised == \A i \in Touched : \E r \in Requests :
             /\ i \in wrote'[r] \ wrote[r]
             /\ caller[r] # None
             /\ caller[r].relation = "writer"
             /\ PartitionOf(i) = caller[r].space
<1>1. PolicyInv /\ [PolicyNext]_vars => [Authorised]_vars
  <2> SUFFICES ASSUME PolicyInv, PolicyNext PROVE Authorised OBVIOUS
  <2>1. PICK r \in Requests : RequestStep(r) BY NextStep
  <2>2. EffectOf(r) BY <2>1 DEF RequestStep
  <2>3. None \notin Keys BY PolicyConstants
  <2> QED BY <2>2, <2>3 DEF EffectOf, Space
<1>2. PolicySpec => [][Authorised]_vars
  BY <1>1, PolicyInvCorrect, PTL DEF PolicySpec
<1> QED BY <1>2 DEF WritesStayInSpace

\* A memory a request holds has the creator the request read.
CreatorAt(r) ==
  Holds(r) /\ store[call[r].id] # None =>
    store[call[r].id].system.created_by = seen[r].system.created_by

\* So a request's step keeps the creator of every memory that stays.
LEMMA CreatorStep ==
  ASSUME NEW r \in Requests, CreatorAt(r), RewriteOf(r),
         NEW i \in Ids, store[i] # None, store'[i] # None
  PROVE  store'[i].system.created_by = store[i].system.created_by
BY DEF CreatorAt, RewriteOf, Holds

\* And every request goes on holding the creator it read.
LEMMA CreatorKeeps ==
  ASSUME PolicyInv, \A q \in Requests : CreatorAt(q), NEW r \in Requests, RequestStep(r),
         NEW q \in Requests
  PROVE  CreatorAt(q)'
<1>1. RewriteOf(r) /\ StoreStep /\ PolicyInv'
  BY RequestKeepsInv DEF RequestStep, EffectOf
<1>2. SUFFICES ASSUME Holds(q)', store'[call'[q].id] # None
               PROVE  store'[call'[q].id].system.created_by = seen'[q].system.created_by
  BY DEF CreatorAt
<1>3. call'[q].id \in Ids BY <1>1, <1>2 DEF PolicyInv, ControlAt
<1>4. CASE UNCHANGED store /\ seen'[q] = store[call'[q].id]
  BY <1>4
<1>5. CASE Holds(q) /\ call'[q] = call[q] /\ seen'[q] = seen[q]
  <2>1. call[q].id \in Ids /\ call[q].id <= created
    BY <1>5 DEF PolicyInv, ControlAt, HeldAt
  <2>2. store[call[q].id] # None
    <3>1. created \in Nat BY BoundAssumption DEF PolicyInv, PolicyTypeOK, TypeOK
    <3> QED BY <1>1, <1>2, <1>5, <2>1, <3>1 DEF StoreStep, Ids
  <2> QED BY <1>1, <1>2, <1>5, <2>1, <2>2, CreatorStep DEF CreatorAt
<1>6. CASE q # r
  <2>1. Holds(q) /\ call'[q] = call[q] /\ seen'[q] = seen[q]
    BY <1>2, <1>6 DEF RequestStep, Elsewhere, Unmoved, Holds, HasSent
  <2> QED BY <1>5, <2>1
<1>7. CASE q = r
  BY <1>2, <1>4, <1>5, <1>7 DEF RequestStep, HoldStep
<1> QED BY <1>6, <1>7

\* No rewrite changes the recorded creator, although an update writes back the one it
\* read a call earlier (policy/__init__.py 239, 248).
THEOREM CreatorKeptCorrect == PolicySpec => CreatorKept
<1> DEFINE Kept == \A i \in Ids : store[i] # None /\ store'[i] # None =>
             store'[i].system.created_by = store[i].system.created_by
           Inv == PolicyInv /\ \A r \in Requests : CreatorAt(r)
<1>1. PolicyInit => Inv
  <2> SUFFICES ASSUME PolicyInit PROVE Inv OBVIOUS
  <2>1. \A r \in Requests : ~Holds(r) BY DEF PolicyInit, Holds, HasSent
  <2> QED BY <2>1, InitInv DEF CreatorAt
<1>2. Inv /\ [PolicyNext]_vars => Inv' /\ [Kept]_vars
  <2> SUFFICES ASSUME Inv, [PolicyNext]_vars PROVE Inv' /\ [Kept]_vars OBVIOUS
  <2>1. CASE PolicyNext
    <3>1. PICK r \in Requests : RequestStep(r) BY <2>1, NextStep
    <3>2. PolicyInv' BY <3>1, RequestKeepsInv
    <3>3. \A q \in Requests : CreatorAt(q)' BY <3>1, CreatorKeeps
    <3>4. Kept BY <3>1, CreatorStep DEF RequestStep, EffectOf
    <3> QED BY <3>2, <3>3, <3>4
  <2>2. CASE UNCHANGED vars
    <3>1. PolicyInv' BY <2>2, StutterKeepsInv
    <3>2. \A q \in Requests : CreatorAt(q)'
      BY <2>2 DEF CreatorAt, Holds, HasSent, vars, backendVars, requestVars
    <3> QED BY <2>2, <3>1, <3>2
  <2> QED BY <2>1, <2>2
<1>3. PolicySpec => []Inv /\ [][Kept]_vars
  BY <1>1, <1>2, PTL DEF PolicySpec
<1> QED BY <1>3 DEF CreatorKept
=============================================================================
