--------------------------- MODULE TransferProofs ---------------------------
(***************************************************************************)
(* Proofs about export, import and migration, beside any requests, for any *)
(* number of jobs, entries, memories and faults.                           *)
(***************************************************************************)
EXTENDS Transfer, PolicyProofs, WellFoundedInduction

(***************************************************************************)
(* What the operators return.                                              *)
(***************************************************************************)

\* A set of identifiers has a least and a greatest member.
LEMMA Extremes ==
  ASSUME NEW S \in SUBSET Ids, S # {}
  PROVE  /\ \E i \in S : \A k \in S : i <= k
         /\ \E i \in S : \A k \in S : i >= k
<1> DEFINE R == StrictSubsetOrdering(S)
           F == FiniteSubsetsOf(S)
<1>1. IsFiniteSet(S) /\ \A k \in S : k \in Int
  <2>1. IsFiniteSet(Ids) BY FS_Interval, BoundAssumption DEF Ids
  <2>2. IsFiniteSet(S) BY <2>1, FS_Subset
  <2> QED BY <2>2 DEF Ids
<1>2. IsWellFoundedOn(R, F) BY FS_StrictSubsetOrderingWellFounded
<1>3. F = SUBSET S BY <1>1, FS_FiniteSubsetsOfFinite
<1>4. \A A, B \in SUBSET S : A \subseteq B /\ A # B => <<A, B>> \in R
  BY DEF StrictSubsetOrdering
<1> HIDE DEF R, F
<1>5. \E i \in S : \A k \in S : i <= k
  <2> DEFINE Below(i) == {k \in S : k <= i}
             T == {Below(i) : i \in S}
  <2>1. T \subseteq F /\ T # {} BY <1>3
  <2>2. PICK A \in T : \A B \in T : <<B, A>> \notin R BY <1>2, <2>1, WFMin
  <2>3. PICK i \in S : A = Below(i) OBVIOUS
  <2>4. ASSUME NEW k \in S, k < i PROVE FALSE
    <3>1. Below(k) \subseteq Below(i) /\ i \in Below(i) /\ i \notin Below(k)
      BY <1>1, <2>4
    <3>2. Below(k) \in T /\ Below(k) \in SUBSET S /\ Below(i) \in SUBSET S OBVIOUS
    <3> QED BY <1>4, <2>2, <2>3, <3>1, <3>2
  <2> QED BY <1>1, <2>4
<1>6. \E i \in S : \A k \in S : i >= k
  <2> DEFINE Above(i) == {k \in S : k >= i}
             T == {Above(i) : i \in S}
  <2>1. T \subseteq F /\ T # {} BY <1>3
  <2>2. PICK A \in T : \A B \in T : <<B, A>> \notin R BY <1>2, <2>1, WFMin
  <2>3. PICK i \in S : A = Above(i) OBVIOUS
  <2>4. ASSUME NEW k \in S, k > i PROVE FALSE
    <3>1. Above(k) \subseteq Above(i) /\ i \in Above(i) /\ i \notin Above(k)
      BY <1>1, <2>4
    <3>2. Above(k) \in T /\ Above(k) \in SUBSET S /\ Above(i) \in SUBSET S OBVIOUS
    <3> QED BY <1>4, <2>2, <2>3, <3>1, <3>2
  <2> QED BY <1>1, <2>4
<1> QED BY <1>5, <1>6

\* Max is a member of the set.
LEMMA MaxMember ==
  ASSUME NEW S \in SUBSET Ids, S # {}
  PROVE  Max(S) \in S
BY Extremes DEF Max

\* A listing of one memory more than is kept, when it finds no more, is the whole set:
\* what _list_all and its truncation mark rely on.
LEMMA FirstOfAll ==
  ASSUME NEW S \in SUBSET Ids, NEW n \in Nat, Cardinality(FirstOf(S, n + 1)) <= n
  PROVE  FirstOf(FirstOf(S, n + 1), n) = S
<1> DEFINE F == FirstOf(S, n + 1)
           Below(T, i) == {k \in T : k < i}
<1>1. F \in SUBSET S /\ \A i \in S : i \in F <=> Cardinality(Below(S, i)) < n + 1
  BY DEF FirstOf
<1>2. \A T \in SUBSET S : Cardinality(T) \in Nat /\ IsFiniteSet(T)
  <2>1. IsFiniteSet(Ids) BY FS_Interval, BoundAssumption DEF Ids
  <2> QED BY <2>1, IdsCount, FS_Subset
<1>3. \A T \in SUBSET S : FirstOf(T, n) = {i \in T : Cardinality(Below(T, i)) < n}
  BY DEF FirstOf
<1>4. Cardinality(F) <= n OBVIOUS
<1> HIDE DEF F
<1>5. F = S
  <2> SUFFICES ASSUME F # S PROVE FALSE OBVIOUS
  <2>1. S \ F \in SUBSET Ids /\ S \ F # {} BY <1>1
  <2>2. PICK i \in S \ F : \A k \in S \ F : i <= k BY <2>1, Extremes
  <2>3. Below(S, i) \in SUBSET F
    <3>1. \A k \in S : k \in Int BY DEF Ids
    <3>2. ASSUME NEW k \in S, k < i PROVE k \in F BY <2>2, <3>1, <3>2
    <3> QED BY <3>2
  <2>4. Cardinality(Below(S, i)) <= Cardinality(F) BY <1>1, <1>2, <2>3, FS_Subset
  <2> QED BY <1>1, <1>2, <1>4, <2>2, <2>3, <2>4
<1>6. ASSUME NEW i \in S PROVE Cardinality(Below(S, i)) < n
  <2>1. Below(S, i) \in SUBSET S /\ i \notin Below(S, i) BY DEF Ids
  <2>2. Cardinality(Below(S, i)) < Cardinality(S)
    <3> HIDE DEF Below
    <3>1. IsFiniteSet(S) /\ Cardinality(S) \in Nat /\ Cardinality(Below(S, i)) \in Nat
      BY <1>2, <2>1
    <3>2. Cardinality(Below(S, i)) <= Cardinality(S)
      BY <2>1, <3>1, FS_Subset
    <3>3. Cardinality(Below(S, i)) # Cardinality(S) BY <2>1, <3>1, FS_Subset
    <3> QED BY <3>1, <3>2, <3>3
  <2> QED BY <1>2, <1>4, <1>5, <2>1, <2>2
<1>7. FirstOf(F, n) = S BY <1>3, <1>5, <1>6
<1> QED BY <1>7 DEF F

(***************************************************************************)
(* The inductive invariant.                                                *)
(***************************************************************************)

\* Job j may write memory i: it is in the partition j lands in, or gone for good.
Lands(j, i) ==
  /\ i \in Ids
  /\ i <= created
  /\ store[i] # None => store[i].partition = Landing(j)

BeforeLoop == {"idle", "export", "source", "index"}

\* What the position of a job says: before its loop it has done nothing, and while it
\* reads back a memory it has recorded storing it.
PlaceAt(j) ==
  /\ job[j].step = "idle" <=> job[j].call = None
  /\ job[j].step = "source" => job[j].call.kind = "migrate"
  /\ job[j].step = "export" => job[j].call.kind = "export"
  /\ job[j].step # "done" => job[j].outcome = None
  /\ job[j].at \in 1..(Len(job[j].entries) + 1)
  /\ job[j].step \in BeforeLoop =>
       /\ job[j].at = 1 /\ job[j].index = NoIndex /\ job[j].fetching = None
       /\ job[j].imported = {} /\ job[j].skipped = {} /\ job[j].errors = {}
       /\ job[j].pending = {} /\ job[j].wrote = {}
  /\ job[j].step = "readback" =>
       /\ job[j].at <= Len(job[j].entries)
       /\ job[j].fetching # None
       /\ <<job[j].at, job[j].fetching>> \in job[j].wrote

\* A migrated entry carries its system fields, and an entry that passes the rules sets
\* no reserved key.
EntriesAt(j) ==
  \A n \in DOMAIN job[j].entries :
    /\ job[j].call.kind = "migrate" => job[j].entries[n].system \in System
    /\ job[j].entries[n].valid /\ job[j].entries[n].metadata # None =>
         \A k \in ReservedKeys : job[j].entries[n].metadata[k] = None

\* Every memory a job knows is one it may write, and a write it has sent records the
\* space it lands in and leaves the reserved keys.
LandedAt(j) ==
  /\ \A k \in Identities : job[j].index[k] # None => Lands(j, job[j].index[k].id)
  /\ job[j].fetching # None => Lands(j, job[j].fetching)
  /\ \A p \in job[j].wrote \cup job[j].imported \cup job[j].skipped :
       p[1] \in DOMAIN job[j].entries /\ Lands(j, p[2])
  /\ \A w \in job[j].pending :
       /\ w.entry \in DOMAIN job[j].entries
       /\ w.system.space = Landing(j)
       /\ w.id # None => Lands(j, w.id) /\ \A k \in ReservedKeys : w.patch[k] = Keep

TransferInv ==
  /\ PolicyInv
  /\ TransferTypeOK
  /\ \A j \in Jobs : PlaceAt(j) /\ EntriesAt(j) /\ LandedAt(j)

\* The loop's bookkeeping: each entry it has passed is in one part of the report, and
\* no entry is imported twice.
TalliedAt(j) ==
  /\ Numbers(job[j].imported) \cup Numbers(job[j].skipped) \cup job[j].errors
       = 1..(job[j].at - 1)
  /\ Numbers(job[j].imported) \cap Numbers(job[j].skipped) = {}
  /\ Numbers(job[j].imported) \cap job[j].errors = {}
  /\ Numbers(job[j].skipped) \cap job[j].errors = {}
  /\ \A p, q \in job[j].imported : p[1] = q[1] => p = q
  /\ Finished(j) => /\ job[j].at = Len(job[j].entries) + 1
                    /\ job[j].count = Cardinality(job[j].imported)

Failed(j) == job[j].step = "done" /\ job[j].outcome # "ok"

\* Each write of a job is reported, or being read back; each write that may still take
\* effect is of an entry reported as failed.
ReportedAt(j) ==
  /\ \A w \in job[j].wrote :
       \/ w \in job[j].imported \/ w[1] \in job[j].errors \/ Failed(j)
       \/ job[j].step = "readback" /\ w = <<job[j].at, job[j].fetching>>
  /\ \A w \in job[j].pending : w.entry \in job[j].errors \/ Failed(j)

\* Memory i is what adding entry n of job j stores.
AddedAs(j, n, i) ==
  LET entry == job[j].entries[n]
  IN store[i] = NewMemory(Landing(j), entry.content, entry.scope, EntryMetadata(entry),
                          Stamp(j, entry, None))

\* Memory i has the author and the metadata of entry n.
ImportedAs(j, n, i) ==
  LET entry == job[j].entries[n]
  IN /\ store[i].system.author = Stamp(j, entry, None).author
     /\ entry.metadata # None => \A k \in MetaKeys \ ReservedKeys :
          store[i].metadata[k] = entry.metadata[k]

\* What a job's index says of memory i is so.
KnownAs(j, k, known) ==
  /\ Owned(Landing(j), known.id)
  /\ Identity(store[known.id]) = k
  /\ store[known.id].metadata = known.metadata

\* What a job knows of a memory nobody else has changed is still so: what it reports,
\* what its index holds and what it is reading back.
KnownAt(j) ==
  /\ \A p \in job[j].skipped \cup job[j].imported :
       p[2] \notin disturbed[j] => HeldAs(j, p[1], p[2])
  /\ \A k \in Identities :
       LET known == job[j].index[k]
       IN known # None /\ known.id \notin disturbed[j] => KnownAs(j, k, known)
  /\ job[j].step = "readback" /\ job[j].fetching \notin disturbed[j] =>
       AddedAs(j, job[j].at, job[j].fetching)

\* An imported memory has its entry's author and metadata until a later entry or someone
\* else rewrites it.
ImportedAt(j) ==
  \A p \in job[j].imported :
    p[2] \notin disturbed[j] /\ LastFor(j, p[1], p[2]) => ImportedAs(j, p[1], p[2])

\* The index of a job that dedups holds every memory of the partition, those excepted
\* that DuplicateNeedsRace names and the one being read back.
IndexedAt(j) ==
  job[j].step \in {"entries", "readback"} /\ Mode(j) # "duplicate" /\ ~job[j].partial =>
    \A i \in Own(Landing(j)) :
      \/ i \in disturbed[j]
      \/ job[j].index[Identity(store[i])] # None
      \/ \E n \in job[j].errors : <<n, i>> \in job[j].wrote
      \/ job[j].step = "readback" /\ job[j].fetching = i

Migrates(j) == job[j].call # None /\ job[j].call.kind = "migrate"

\* A migration has written memory i.
Migrated(i) == \E j \in Jobs : Migrates(j) /\ i \in {p[2] : p \in job[j].wrote}

\* The creator is the one given, but for a migration.
CreatedBy(i, name) == store[i] # None => store[i].system.created_by = name \/ Migrated(i)

\* The creator that a request, a job's index or a sent write carries is the stored one.
CreatorsInv ==
  /\ \A r \in Requests : Holds(r) => CreatedBy(call[r].id, seen[r].system.created_by)
  /\ \A j \in Jobs :
       /\ \A k \in Identities :
            job[j].index[k] # None => CreatedBy(job[j].index[k].id, job[j].index[k].created_by)
       /\ \A w \in job[j].pending :
            w.id # None /\ ~Migrates(j) => CreatedBy(w.id, w.system.created_by)

Tallied == \A j \in Jobs : TalliedAt(j)
Reported == \A j \in Jobs : ReportedAt(j)
KnownInv == \A j \in Jobs : KnownAt(j) /\ ImportedAt(j)
Indexed == \A j \in Jobs : IndexedAt(j)

(***************************************************************************)
(* What the transfer code computes.                                        *)
(***************************************************************************)

\* The dedup index holds one stored memory for every content and scope there is.
LEMMA IndexFacts ==
  ASSUME TypeOK, NEW S \in SUBSET Stored
  PROVE  /\ IndexOf(S) \in [Identities -> Known \cup {None}]
         /\ \A k \in Identities :
              LET known == IndexOf(S)[k]
              IN known # None =>
                   known.id \in S /\ Identity(store[known.id]) = k
                   /\ known = AsKnown(known.id, store[known.id])
         /\ \A i \in S : IndexOf(S)[Identity(store[i])] # None
<1> DEFINE same(k) == {i \in S : Identity(store[i]) = k}
<1>1. \A i \in S : i \in Ids /\ store[i] \in Memory BY DEF Stored, TypeOK
<1>2. \A i \in S : /\ AsKnown(i, store[i]) \in Known /\ AsKnown(i, store[i]) # None
                   /\ AsKnown(i, store[i]).id = i /\ Identity(store[i]) \in Identities
  BY <1>1, KnownAssumption DEF AsKnown, Known, Memory, System, Identity, Identities
<1>3. \A k \in Identities : same(k) # {} => Max(same(k)) \in same(k)
  <2>1. \A k \in Identities : same(k) \in SUBSET Ids BY <1>1
  <2> HIDE DEF same
  <2> QED BY <2>1, MaxMember
<1>4. \A k \in Identities : IndexOf(S)[k] =
        IF same(k) = {} THEN None ELSE AsKnown(Max(same(k)), store[Max(same(k))])
  BY DEF IndexOf
<1>5. \A k \in Identities : same(k) # {} =>
        /\ Max(same(k)) \in S /\ Identity(store[Max(same(k))]) = k
  BY <1>3
<1>6. IndexOf(S) \in [Identities -> Known \cup {None}]
  <2>1. \A k \in Identities : IndexOf(S)[k] \in Known \cup {None}
    <3> HIDE DEF same
    <3> QED BY <1>2, <1>4, <1>5
  <2> QED BY <2>1 DEF IndexOf
<1>7. \A i \in S : same(Identity(store[i])) # {} OBVIOUS
<1> HIDE DEF same
<1> QED BY <1>2, <1>4, <1>5, <1>6, <1>7

\* What a job's call says of it.
LEMMA CallFacts ==
  ASSUME job \in [Jobs -> JobState], NEW j \in Jobs, job[j].call # None
  PROVE  /\ job[j].call \in JobCalls
         /\ job[j].call.key.name \in Names
         /\ Landing(j) \in Spaces
<1>1. job[j].call \in JobCalls BY DEF JobState
<1>2. job[j].call \in JobCall BY <1>1, JobAssumption
<1>3. job[j].call.key \in Key BY <1>2 DEF JobCall
<1> QED BY <1>1, <1>3 DEF Landing, Key

\* What an overwrite or an add writes is a patch, or metadata, and a patch leaves the
\* reserved keys and makes every other key what the entry says.
LEMMA PatchFacts ==
  ASSUME NEW entry \in Entry, NEW known \in Known
  PROVE  /\ OverwritePatch(entry, known) \in Patch
         /\ EntryMetadata(entry) \in Metadata
         /\ (entry.metadata # None => \A k \in ReservedKeys : entry.metadata[k] = None)
              => \A k \in ReservedKeys : OverwritePatch(entry, known)[k] = Keep
         /\ entry.metadata # None => \A k \in MetaKeys \ ReservedKeys :
              Patched(known.metadata, OverwritePatch(entry, known))[k] = entry.metadata[k]
<1>1. entry.metadata \in Metadata \cup {None} /\ known.metadata \in Metadata
  BY DEF Entry, Known
<1>2. ReservedKeys \subseteq MetaKeys BY JobAssumption
<1>3. CASE entry.metadata = None
  BY <1>2, <1>3, NoPatchType, NoneAssumption DEF OverwritePatch, EntryMetadata, Metadata, NoPatch
<1>4. CASE entry.metadata # None
  <2>1. entry.metadata \in Metadata BY <1>1, <1>4
  <2> DEFINE p == OverwritePatch(entry, known)
  <2>2. \A k \in MetaKeys : p[k] =
          IF entry.metadata[k] # None THEN entry.metadata[k]
          ELSE IF known.metadata[k] # None /\ k \notin ReservedKeys THEN None ELSE Keep
    BY <1>4 DEF OverwritePatch
  <2>3. p \in Patch
    BY <1>4, <2>1 DEF OverwritePatch, Patch, Metadata
  <2>4. \A k \in MetaKeys : Patched(known.metadata, p)[k] =
          IF p[k] = Keep THEN known.metadata[k] ELSE p[k]
    BY DEF Patched
  <2>5. \A k \in MetaKeys : entry.metadata[k] # Keep /\ None # Keep
    BY <2>1, NoneAssumption DEF Metadata
  <2> HIDE DEF p
  <2> QED BY <1>2, <1>4, <2>1, <2>2, <2>3, <2>4, <2>5 DEF p, EntryMetadata
<1> QED BY <1>3, <1>4

\* The system fields a job writes record the space it lands in.
LEMMA StampFacts ==
  ASSUME job \in [Jobs -> JobState], NEW j \in Jobs, job[j].call # None,
         NEW entry \in Entry, job[j].call.kind = "migrate" => entry.system \in System,
         NEW known \in Known \cup {None}
  PROVE  /\ Stamp(j, entry, known) \in System
         /\ Stamp(j, entry, known) # None
         /\ Stamp(j, entry, known).space = Landing(j)
         /\ Stamp(j, entry, known).author = Stamp(j, entry, None).author
         /\ ~Migrates(j) /\ known # None => Stamp(j, entry, known).created_by = known.created_by
<1>1. job[j].call.key.name \in Names /\ Landing(j) \in Spaces BY CallFacts
<1>2. known # None => known.created_by \in Names \cup {None} BY DEF Known
<1>3. entry.system \in System =>
        entry.system.author \in Names \cup {None} /\ entry.system.created_by \in Names \cup {None}
  BY DEF System
<1>4. /\ Stamp(j, entry, known) \in System
      /\ Stamp(j, entry, known).space = Landing(j)
      /\ Stamp(j, entry, known).author = Stamp(j, entry, None).author
      /\ ~Migrates(j) /\ known # None => Stamp(j, entry, known).created_by = known.created_by
  BY <1>1, <1>2, <1>3 DEF Stamp, System, SystemFor, Landing, Migrates
<1> QED BY <1>4, NoneAssumption

(***************************************************************************)
(* What a job's write does to the store, and to the requests beside it.    *)
(***************************************************************************)

\* A step that leaves the store alone.
LEMMA QuietStore ==
  ASSUME PolicyInv, UNCHANGED backendVars
  PROVE  StoreStep /\ TypeOK' /\ store' = store /\ created' = created
<1>1. TypeOK /\ FreshIdsFree BY DEF PolicyInv, PolicyTypeOK
<1>2. store' = store /\ history' = history /\ created' = created BY DEF backendVars
<1>3. created \in Int BY <1>1, BoundAssumption DEF TypeOK
<1> QED BY <1>1, <1>2, <1>3 DEF StoreStep, TypeOK, FreshIdsFree

\* A job's add stores its memory under a new identifier.
LEMMA AddStore ==
  ASSUME PolicyInv, NEW p \in Spaces, NEW c \in Contents, NEW sc \in Scope,
         NEW md \in Metadata, NEW sys \in System, NEW i, i = created + 1,
         AddEffect(i, p, c, sc, md, sys)
  PROVE  /\ StoreStep /\ TypeOK'
         /\ i \in Ids /\ created' = i /\ store[i] = None
         /\ store'[i] = NewMemory(p, c, sc, md, sys) /\ store'[i] # None
         /\ \A k \in Ids \ {i} : store'[k] = store[k]
<1>1. TypeOK /\ FreshIdsFree /\ created \in Nat /\ i \in Ids /\ i > created
  BY BoundAssumption DEF PolicyInv, PolicyTypeOK, TypeOK, AddEffect
<1>2. TypeOK' BY <1>1, AddEffectType
<1>3. created' = i /\ store' = [store EXCEPT ![i] = NewMemory(p, c, sc, md, sys)]
  BY DEF AddEffect
<1>4. /\ store'[i] = NewMemory(p, c, sc, md, sys)
      /\ \A k \in Ids \ {i} : store'[k] = store[k]
  BY <1>1, <1>3 DEF TypeOK
<1>5. store[i] = None BY <1>1 DEF FreshIdsFree
<1>6. store'[i] # None BY <1>4, NewMemoryType, NoneAssumption
<1>7. FreshIdsFree' BY <1>1, <1>3, <1>4 DEF FreshIdsFree, Ids
<1>8. StoreStep BY <1>1, <1>3, <1>4, <1>5, <1>7 DEF StoreStep
<1> QED BY <1>1, <1>2, <1>3, <1>4, <1>5, <1>6, <1>8

\* A job's update rewrites one stored memory, in its partition.
LEMMA UpdateStore ==
  ASSUME PolicyInv, NEW i \in Ids, store[i] # None, NEW c \in Contents, NEW p \in Patch,
         NEW sys \in System, UpdateEffect(i, c, p, sys)
  PROVE  /\ StoreStep /\ TypeOK' /\ created' = created
         /\ store'[i] = [partition |-> store[i].partition, content |-> c,
                         scope |-> store[i].scope,
                         metadata |-> Patched(store[i].metadata, p), system |-> sys]
         /\ store'[i] # None
         /\ \A k \in Ids \ {i} : store'[k] = store[k]
<1>1. TypeOK /\ FreshIdsFree /\ created \in Nat
  BY BoundAssumption DEF PolicyInv, PolicyTypeOK, TypeOK
<1>2. TypeOK' BY <1>1, UpdateEffectType
<1>3. store' = [store EXCEPT ![i] = Rewritten(store[i], c, p, sys)] /\ created' = created
  BY DEF UpdateEffect
<1>4. /\ store'[i] = Rewritten(store[i], c, p, sys)
      /\ \A k \in Ids \ {i} : store'[k] = store[k]
  BY <1>1, <1>3 DEF TypeOK
<1>5. store[i] \in Memory BY <1>1 DEF TypeOK
<1>6. store'[i] # None /\ store'[i].partition = store[i].partition
  BY <1>4, <1>5, RewrittenType, NoneAssumption
<1>7. i <= created BY <1>1 DEF FreshIdsFree, Ids
<1>8. FreshIdsFree' BY <1>1, <1>3, <1>4, <1>7 DEF FreshIdsFree, Ids
<1>9. StoreStep BY <1>1, <1>3, <1>4, <1>6, <1>8 DEF StoreStep
<1>10. c # None /\ sys # None BY NoneAssumption
<1> QED BY <1>2, <1>3, <1>4, <1>6, <1>9, <1>10 DEF Rewritten

\* Whatever a job does to the store, the requests beside it keep their invariant.
LEMMA JobKeepsPolicy ==
  ASSUME PolicyInv, StoreStep, TypeOK', UNCHANGED requestVars
  PROVE  PolicyInv'
<1>1. /\ pc' = pc /\ caller' = caller /\ call' = call /\ seen' = seen /\ todo' = todo
      /\ ids' = ids /\ late' = late /\ reply' = reply /\ audit' = audit
      /\ alarm' = alarm /\ wrote' = wrote
  BY DEF requestVars
<1>2. PolicyTypeOK' BY <1>1 DEF PolicyInv, PolicyTypeOK
<1>3. \A q \in Requests : ControlAt(q)' /\ HeldAt(q)' /\ ShownAt(q)'
  BY <1>1, OtherKept DEF Unmoved
<1> QED BY <1>2, <1>3 DEF PolicyInv, StoreStep

(***************************************************************************)
(* A step of a job, and how it keeps the invariant of the others.          *)
(***************************************************************************)

\* What every action of a job establishes.
JobStep(j) ==
  /\ StoreStep
  /\ TypeOK'
  /\ job' \in [Jobs -> JobState]
  /\ \A k \in Jobs \ {j} : job'[k] = job[k]
  /\ faults' \in 0..MaxFaults
  /\ PlaceAt(j)' /\ EntriesAt(j)' /\ LandedAt(j)'

\* The parts of a job's state that most of its actions leave alone.
SameCall(j) ==
  job'[j].call = job[j].call /\ job'[j].entries = job[j].entries
SameIndex(j) ==
  job'[j].index = job[j].index /\ job'[j].partial = job[j].partial
SameReport(j) ==
  /\ job'[j].at = job[j].at /\ job'[j].imported = job[j].imported
  /\ job'[j].skipped = job[j].skipped /\ job'[j].errors = job[j].errors
SameWrites(j) ==
  /\ job'[j].fetching = job[j].fetching /\ job'[j].wrote = job[j].wrote
  /\ job'[j].pending = job[j].pending
SameEnd(j) ==
  job'[j].outcome = job[j].outcome /\ job'[j].count = job[j].count

\* What each action makes of the job, field by field.
StartMove(j) ==
  /\ job[j].step = "idle" /\ job'[j].step # "idle" /\ job'[j].step # "readback"
  /\ job'[j].step = "done" => job'[j].outcome # "ok"
  /\ job'[j].step = "entries" => job'[j].call.mode = "duplicate"
  /\ job'[j].index = job[j].index /\ SameReport(j) /\ SameWrites(j)
ReadMove(j) ==
  /\ job[j].step \in {"export", "source", "index"}
  /\ job[j].step = "export" => job'[j].step = "done" /\ job'[j].index = job[j].index
  /\ job[j].step = "source" => SameIndex(j) /\ job'[j].step =
       IF Mode(j) = "duplicate" THEN "entries" ELSE "index"
  /\ job[j].step = "index" =>
       LET kept == FirstOf(Listed(Landing(j)), ListLimit)
       IN /\ job'[j].step = "entries"
          /\ job'[j].index = IndexOf(kept)
          /\ job'[j].partial = Missed(Landing(j))
  /\ job'[j].call = job[j].call /\ SameReport(j) /\ SameWrites(j)
EndMove(j, sent) ==
  /\ job[j].step # "idle"
  /\ job'[j].step = "done"
  /\ job'[j].outcome = "ok" => /\ job[j].step = "entries"
                              /\ job[j].at > Len(job[j].entries)
                              /\ job'[j].count = Cardinality(job[j].imported)
  /\ SameCall(j) /\ SameIndex(j) /\ SameReport(j)
  /\ job'[j].fetching = job[j].fetching /\ job'[j].wrote = job[j].wrote
  /\ job'[j].pending = job[j].pending \cup sent
ErrorMove(j, sent) ==
  /\ InLoop(j) \/ job[j].step = "readback"
  /\ job'[j].step = "entries" /\ job'[j].at = job[j].at + 1
  /\ job'[j].errors = job[j].errors \cup {job[j].at}
  /\ job'[j].fetching = None /\ job'[j].pending = job[j].pending \cup sent
  /\ SameCall(j) /\ SameIndex(j) /\ SameEnd(j)
  /\ job'[j].imported = job[j].imported /\ job'[j].skipped = job[j].skipped
  /\ job'[j].wrote = job[j].wrote
SkipMove(j, i) ==
  /\ InLoop(j)
  /\ job'[j].step = "entries" /\ job'[j].at = job[j].at + 1
  /\ job'[j].skipped = job[j].skipped \cup {<<job[j].at, i>>}
  /\ SameCall(j) /\ SameIndex(j) /\ SameEnd(j) /\ SameWrites(j)
  /\ job'[j].imported = job[j].imported /\ job'[j].errors = job[j].errors
RecordMove(j, i, m) ==
  /\ InLoop(j) \/ job[j].step = "readback"
  /\ job'[j].step = "entries" /\ job'[j].at = job[j].at + 1
  /\ job'[j].imported = job[j].imported \cup {<<job[j].at, i>>}
  /\ job'[j].index = [job[j].index EXCEPT ![Identity(This(j))] = AsKnown(i, m)]
  /\ job'[j].wrote = job[j].wrote \cup {<<job[j].at, i>>}
  /\ job'[j].fetching = None /\ job'[j].pending = job[j].pending
  /\ job'[j].partial = job[j].partial /\ SameCall(j) /\ SameEnd(j)
  /\ job'[j].skipped = job[j].skipped /\ job'[j].errors = job[j].errors
AddMove(j) ==
  /\ InLoop(j)
  /\ job'[j].step = "readback" /\ job'[j].fetching = created + 1
  /\ job'[j].wrote = job[j].wrote \cup {<<job[j].at, created + 1>>}
  /\ job'[j].pending = job[j].pending
  /\ SameCall(j) /\ SameIndex(j) /\ SameReport(j) /\ SameEnd(j)
LateMove(j, w, i) ==
  /\ w \in job[j].pending
  /\ job'[j].step = job[j].step /\ job'[j].fetching = job[j].fetching
  /\ job'[j].wrote = job[j].wrote \cup {<<w.entry, i>>}
  /\ job'[j].pending = job[j].pending \ {w}
  /\ SameCall(j) /\ SameIndex(j) /\ SameReport(j) /\ SameEnd(j)

\* An overwrite, an add, its read-back and a late write, with what they do to the store.
RewriteMove(j) ==
  LET known == Duplicate(j, This(j))
      i == known.id
  IN /\ InLoop(j) /\ Acceptable(This(j)) /\ RecordMove(j, i, store'[i])
     /\ known \in Known /\ known = job[j].index[Identity(This(j))]
     /\ store[i] # None /\ store[i].partition = Landing(j)
     /\ store'[i] = [partition |-> Landing(j), content |-> This(j).content,
                     scope |-> store[i].scope,
                     metadata |-> Patched(store[i].metadata, OverwritePatch(This(j), known)),
                     system |-> Stamp(j, This(j), known)]
     /\ store'[i] \in Memory
     /\ \A q \in Ids \ {i} : store'[q] = store[q]
     /\ created' = created
InsertMove(j) ==
  LET i == created + 1
  IN /\ Creates(j) /\ AddMove(j)
     /\ i \in Ids /\ store[i] = None /\ created' = i
     /\ store'[i] = NewMemory(Landing(j), This(j).content, This(j).scope,
                              EntryMetadata(This(j)), Stamp(j, This(j), None))
     /\ store'[i] # None
     /\ \A q \in Ids \ {i} : store'[q] = store[q]
BackMove(j) ==
  LET i == job[j].fetching
  IN /\ job[j].step = "readback"
     /\ RecordMove(j, i, store[i])
     /\ Owned(Landing(j), i)
WroteLate(j) ==
  \E w \in job[j].pending, i \in Ids :
    /\ LateMove(j, w, i)
    /\ store'[i] # None
    /\ store'[i].partition = Landing(j) /\ store'[i].system = w.system
    /\ store[i] # None =>
         /\ w.id # None /\ w.id = i /\ store[i].partition = Landing(j)
         /\ store'[i].metadata = Patched(store[i].metadata, w.patch)
    /\ \A q \in Ids \ {i} : store'[q] = store[q]

\* Whatever a job does at its own turn.
JobMove(j) ==
  \/ /\ UNCHANGED backendVars
     /\ \/ StartMove(j) \/ ReadMove(j) \/ BackMove(j)
        \/ \E sent \in SUBSET SentWrite(j) : EndMove(j, sent) \/ ErrorMove(j, sent)
        \/ SkipMove(j, Duplicate(j, This(j)).id) /\ Duplicate(j, This(j)) # None
  \/ RewriteMove(j)
  \/ InsertMove(j)

\* A job may write the memories it might write before, whatever happened to the store.
LEMMA LandsKept ==
  ASSUME PolicyInv, StoreStep, TypeOK', NEW j \in Jobs, NEW i,
         Lands(j, i), job'[j].call = job[j].call
  PROVE  Lands(j, i)'
<1>1. created \in Nat /\ created' \in Nat
  BY BoundAssumption DEF PolicyInv, PolicyTypeOK, TypeOK
<1>2. i \in Ids /\ i \in Int BY DEF Lands, Ids
<1> QED BY <1>1, <1>2 DEF Lands, StoreStep, Landing

\* A job that does not move keeps its invariant through any change of the store.
LEMMA OtherJobKept ==
  ASSUME TransferInv, StoreStep, TypeOK', NEW j \in Jobs, job'[j] = job[j]
  PROVE  PlaceAt(j)' /\ EntriesAt(j)' /\ LandedAt(j)'
<1>1. PolicyInv /\ PlaceAt(j) /\ EntriesAt(j) /\ LandedAt(j) BY DEF TransferInv
<1>2. PlaceAt(j)' /\ EntriesAt(j)' BY <1>1 DEF PlaceAt, EntriesAt
<1>3. \A i : Lands(j, i) => Lands(j, i)' BY <1>1, LandsKept
<1>4. LandedAt(j)' BY <1>1, <1>3 DEF LandedAt, Landing
<1> QED BY <1>2, <1>4

\* A step of one job keeps the invariant of all jobs and requests.
LEMMA JobKeepsInv ==
  ASSUME TransferInv, NEW j \in Jobs, JobStep(j), UNCHANGED requestVars,
         NEW own \in SUBSET Jobs, Disturb(own)
  PROVE  TransferInv'
<1>1. PolicyInv' BY JobKeepsPolicy DEF TransferInv, JobStep
<1>2. disturbed' \in [Jobs -> SUBSET Ids] BY DEF Disturb, Touched, TransferInv, TransferTypeOK
<1>3. ASSUME NEW k \in Jobs PROVE PlaceAt(k)' /\ EntriesAt(k)' /\ LandedAt(k)'
  BY OtherJobKept DEF JobStep
<1> QED BY <1>1, <1>2, <1>3 DEF TransferInv, TransferTypeOK, JobStep

\* The entry a job is at, when it is at one.
LEMMA EntryFacts ==
  ASSUME TransferInv, NEW j \in Jobs, InLoop(j) \/ job[j].step = "readback"
  PROVE  /\ job[j] \in JobState /\ job[j].call # None
         /\ job[j].at \in 1..Len(job[j].entries) /\ job[j].at \in DOMAIN job[j].entries
         /\ job[j].at \in Nat
         /\ This(j) \in Entry
         /\ job[j].call.kind = "migrate" => This(j).system \in System
         /\ Acceptable(This(j)) /\ This(j).metadata # None =>
              \A k \in ReservedKeys : This(j).metadata[k] = None
         /\ Identity(This(j)) \in Identities
<1>1. job[j] \in JobState /\ PlaceAt(j) /\ EntriesAt(j)
  BY DEF TransferInv, TransferTypeOK
<1>2. job[j].entries \in Seq(Entry) /\ Len(job[j].entries) \in Nat BY <1>1 DEF JobState
<1>3. job[j].at \in 1..Len(job[j].entries)
  BY <1>1, <1>2 DEF PlaceAt, InLoop
<1>4. DOMAIN job[j].entries = 1..Len(job[j].entries) BY <1>2
<1>5. This(j) \in Entry BY <1>2, <1>3 DEF This
<1>6. job[j].call # None BY <1>1 DEF PlaceAt, InLoop
<1>7. Identity(This(j)) \in Identities BY <1>5 DEF Identity, Identities, Entry
<1> QED BY <1>1, <1>3, <1>4, <1>5, <1>6, <1>7 DEF EntriesAt, This, Acceptable

\* The indexed memory the entry duplicates.
LEMMA DuplicateFacts ==
  ASSUME TransferInv, NEW j \in Jobs, InLoop(j), Duplicate(j, This(j)) # None
  PROVE  /\ Duplicate(j, This(j)) = job[j].index[Identity(This(j))]
         /\ Duplicate(j, This(j)) \in Known
         /\ Duplicate(j, This(j)).id \in Ids
         /\ Lands(j, Duplicate(j, This(j)).id)
<1>1. job[j] \in JobState /\ Identity(This(j)) \in Identities /\ LandedAt(j)
  BY EntryFacts DEF TransferInv
<1>2. Duplicate(j, This(j)) = job[j].index[Identity(This(j))] BY DEF Duplicate
<1>3. job[j].index[Identity(This(j))] \in Known \cup {None} BY <1>1 DEF JobState
<1> QED BY <1>1, <1>2, <1>3 DEF LandedAt, Known

\* A job that goes on, fails or ends without learning of or sending a write keeps the
\* memories it knows.
LEMMA LandedKept ==
  ASSUME TransferInv, StoreStep, TypeOK', NEW j \in Jobs,
         job'[j].call = job[j].call, job'[j].entries = job[j].entries,
         job'[j].index = job[j].index, job'[j].fetching \in {None, job[j].fetching},
         job'[j].wrote = job[j].wrote, job'[j].imported = job[j].imported,
         job'[j].skipped = job[j].skipped, job'[j].pending = job[j].pending
  PROVE  LandedAt(j)'
<1>1. PolicyInv /\ LandedAt(j) BY DEF TransferInv
<1>2. \A i : Lands(j, i) => Lands(j, i)' BY <1>1, LandsKept
<1> QED BY <1>1, <1>2 DEF LandedAt, Landing

\* A job with a call, its entries, a step and an outcome is one.
LEMMA StartedType ==
  ASSUME NEW s \in JobState, NEW c \in JobCalls \cup {None}, NEW entries \in Seq(Entry),
         NEW step \in {"idle", "export", "source", "index", "entries", "readback", "done"},
         NEW outcome \in Outcomes \cup {None}
  PROVE  [s EXCEPT !.call = c, !.entries = entries, !.step = step, !.outcome = outcome]
           \in JobState
BY DEF JobState

\* A call starts, or is refused.
LEMMA StartJobStep ==
  ASSUME TransferInv, NEW j \in Jobs, StartJob(j)
  PROVE  JobStep(j) /\ StartMove(j)
<1>1. PICK c \in JobCalls :
        /\ job[j].step = "idle"
        /\ job' = [job EXCEPT
             ![j].call = c,
             ![j].entries = c.entries,
             ![j].step = IF JobVerdict(c) = "ok" THEN FirstStep(c) ELSE "done",
             ![j].outcome = IF JobVerdict(c) = "ok" THEN None ELSE JobVerdict(c)]
        /\ UNCHANGED <<backendVars, faults>>
  BY DEF StartJob
<1>2. job \in [Jobs -> JobState] /\ PlaceAt(j) /\ faults \in 0..MaxFaults /\ PolicyInv
  BY DEF TransferInv, TransferTypeOK
<1>3. StoreStep /\ TypeOK' BY <1>1, <1>2, QuietStore
<1>4. c \in JobCall /\ c # None BY JobAssumption
<1>5. c.entries \in Seq(Entry) /\ c.kind \in {"export", "import", "migrate"} BY <1>4 DEF JobCall
<1>6. /\ FirstStep(c) \in {"export", "source", "entries", "index"}
      /\ FirstStep(c) = "source" => c.kind = "migrate"
      /\ FirstStep(c) = "export" => c.kind = "export"
      /\ FirstStep(c) = "entries" => c.mode = "duplicate"
  BY DEF FirstStep
<1>7. JobVerdict(c) \in Outcomes BY DEF JobVerdict, Outcomes
<1>8. job' \in [Jobs -> JobState] /\ \A k \in Jobs \ {j} : job'[k] = job[k]
  <2> DEFINE st == IF JobVerdict(c) = "ok" THEN FirstStep(c) ELSE "done"
             out == IF JobVerdict(c) = "ok" THEN None ELSE JobVerdict(c)
  <2>2. /\ st \in {"idle", "export", "source", "index", "entries", "readback", "done"}
        /\ out \in Outcomes \cup {None}
    BY <1>6, <1>7
  <2>3. job' = [job EXCEPT ![j].call = c, ![j].entries = c.entries, ![j].step = st,
                           ![j].outcome = out]
    BY <1>1
  <2> HIDE DEF st, out
  <2>4. job \in [Jobs -> JobState] BY <1>2
  <2>5. c \in JobCalls \cup {None} OBVIOUS
  <2>6. [job[j] EXCEPT !.call = c, !.entries = c.entries, !.step = st, !.outcome = out]
          \in JobState
    BY <1>5, <2>2, <2>4, <2>5, StartedType
  <2> QED BY <2>3, <2>4, <2>6
<1>9. /\ job[j].at = 1 /\ job[j].index = NoIndex /\ job[j].fetching = None
      /\ job[j].imported = {} /\ job[j].skipped = {} /\ job[j].errors = {}
      /\ job[j].pending = {} /\ job[j].wrote = {}
  BY <1>1, <1>2 DEF PlaceAt, BeforeLoop
<1>10. /\ job'[j].call = c /\ job'[j].entries = c.entries
       /\ job'[j].step \in {"export", "source", "entries", "index", "done"}
       /\ job'[j].step = "source" => c.kind = "migrate"
       /\ job'[j].step = "export" => c.kind = "export"
       /\ job'[j].step = "entries" => c.mode = "duplicate"
       /\ job'[j].step # "done" => job'[j].outcome = None
       /\ job'[j].step = "done" => job'[j].outcome # "ok"
       /\ job'[j].at = 1 /\ job'[j].index = NoIndex /\ job'[j].fetching = None
       /\ job'[j].imported = {} /\ job'[j].skipped = {} /\ job'[j].errors = {}
       /\ job'[j].pending = {} /\ job'[j].wrote = {}
  BY <1>1, <1>2, <1>6, <1>9 DEF JobState
<1>11. PlaceAt(j)' BY <1>4, <1>5, <1>10 DEF PlaceAt
<1>12. EntriesAt(j)'
  <2>1. c.kind = "migrate" => c.entries = <<>> BY JobAssumption
  <2>2. \A n \in DOMAIN c.entries : c.entries[n].valid /\ c.entries[n].metadata # None =>
          \A k \in ReservedKeys : c.entries[n].metadata[k] = None
    BY JobAssumption
  <2> QED BY <1>10, <2>1, <2>2 DEF EntriesAt
<1>13. LandedAt(j)' BY <1>10 DEF LandedAt, NoIndex
<1>14. StartMove(j) BY <1>1, <1>9, <1>10 DEF StartMove, SameReport, SameWrites
<1> QED BY <1>1, <1>2, <1>3, <1>8, <1>11, <1>12, <1>13, <1>14 DEF JobStep

\* The first memories of a partition are stored memories of it.
LEMMA ListedFacts ==
  ASSUME NEW p, NEW n, NEW S \in SUBSET Ids
  PROVE  /\ Own(p) \in SUBSET Ids
         /\ Own(p) \in SUBSET Stored
         /\ FirstOf(S, n) \in SUBSET S
         /\ Listed(p) \in SUBSET Own(p)
BY DEF Own, Stored, Listed, FirstOf

\* A job that ends with an outcome and a count is one.
LEMMA EndedType ==
  ASSUME NEW s \in JobState, NEW o \in Outcomes \cup {None}, NEW n \in Nat \cup {None}
  PROVE  [s EXCEPT !.step = "done", !.outcome = o, !.count = n] \in JobState
BY DEF JobState

\* So is one that holds what it exports.
LEMMA ExportedType ==
  ASSUME NEW s \in JobState, NEW shown \in [Ids -> Memory \cup {None}], NEW b \in BOOLEAN
  PROVE  [s EXCEPT !.exported = shown, !.partial = b] \in JobState
BY DEF JobState

\* An export reads its memories.
LEMMA ExportReadStep ==
  ASSUME TransferInv, NEW j \in Jobs, ExportRead(j)
  PROVE  JobStep(j) /\ ReadMove(j)
<1> DEFINE kept == FirstOf(Listed(Landing(j)), ListLimit)
<1>1. /\ job[j].step = "export"
      /\ job' = [job EXCEPT ![j].step = "done", ![j].outcome = "ok",
                            ![j].exported = Show(kept), ![j].partial = Missed(Landing(j)),
                            ![j].count = Cardinality(kept)]
      /\ UNCHANGED <<backendVars, faults>>
  BY DEF ExportRead
<1>2. job \in [Jobs -> JobState] /\ PlaceAt(j) /\ EntriesAt(j) /\ faults \in 0..MaxFaults
      /\ PolicyInv /\ TypeOK
  BY DEF TransferInv, TransferTypeOK
<1>3. StoreStep /\ TypeOK' BY <1>1, <1>2, QuietStore
<1>4. kept \in SUBSET Ids
  <2>1. Own(Landing(j)) \in SUBSET Ids /\ Listed(Landing(j)) \in SUBSET Own(Landing(j))
    BY ListedFacts
  <2> QED BY <2>1, ListedFacts
<1>5. Cardinality(kept) \in Nat /\ Show(kept) \in [Ids -> Memory \cup {None}]
  BY <1>2, <1>4, IdsCount DEF Show, TypeOK
<1> HIDE DEF kept
<1>6. Missed(Landing(j)) \in BOOLEAN /\ "ok" \in Outcomes BY DEF Missed, Outcomes
<1>7. job' \in [Jobs -> JobState] /\ \A k \in Jobs \ {j} : job'[k] = job[k]
  <2> DEFINE s == [job[j] EXCEPT !.exported = Show(kept), !.partial = Missed(Landing(j))]
  <2>1. s \in JobState BY <1>2, <1>5, <1>6, ExportedType
  <2>2. job' = [job EXCEPT ![j] =
                  [s EXCEPT !.step = "done", !.outcome = "ok", !.count = Cardinality(kept)]]
    BY <1>1, <1>2 DEF JobState
  <2> HIDE DEF s
  <2>3. [s EXCEPT !.step = "done", !.outcome = "ok", !.count = Cardinality(kept)] \in JobState
    BY <1>5, <1>6, <2>1, EndedType
  <2> QED BY <1>2, <2>2, <2>3
<1>8. /\ job'[j].step = "done" /\ job'[j].call = job[j].call /\ job'[j].at = job[j].at
      /\ job'[j].entries = job[j].entries /\ job'[j].index = job[j].index
      /\ job'[j].fetching = job[j].fetching /\ job'[j].wrote = job[j].wrote
      /\ job'[j].imported = job[j].imported /\ job'[j].skipped = job[j].skipped
      /\ job'[j].pending = job[j].pending /\ job'[j].errors = job[j].errors
  BY <1>1, <1>2 DEF JobState
<1>9. LandedAt(j)' BY <1>3, <1>8, LandedKept
<1>10. PlaceAt(j)' /\ EntriesAt(j)' BY <1>1, <1>2, <1>8 DEF PlaceAt, BeforeLoop, EntriesAt
<1>11. ReadMove(j) BY <1>1, <1>8 DEF ReadMove, SameReport, SameWrites
<1> QED BY <1>1, <1>2, <1>3, <1>7, <1>9, <1>10, <1>11 DEF JobStep

\* A job ends, with or without having reported all its entries.
LEMMA EndStep ==
  ASSUME TransferInv, NEW j \in Jobs, job[j].step # "idle", NEW o \in Outcomes,
         NEW n \in Nat \cup {None}, EndJob(j, o, n), UNCHANGED <<backendVars, faults>>,
         o = "ok" => /\ job[j].step = "entries" /\ job[j].at > Len(job[j].entries)
                     /\ n = Cardinality(job[j].imported)
  PROVE  JobStep(j) /\ EndMove(j, {})
<1>1. job' = [job EXCEPT ![j].step = "done", ![j].outcome = o, ![j].count = n]
  BY DEF EndJob
<1>2. job \in [Jobs -> JobState] /\ PlaceAt(j) /\ EntriesAt(j) /\ faults \in 0..MaxFaults
      /\ PolicyInv
  BY DEF TransferInv, TransferTypeOK
<1>3. StoreStep /\ TypeOK' BY <1>2, QuietStore
<1>4. job' \in [Jobs -> JobState] /\ \A k \in Jobs \ {j} : job'[k] = job[k]
  <2>1. [job[j] EXCEPT !.step = "done", !.outcome = o, !.count = n] \in JobState
    BY <1>2, EndedType
  <2> QED BY <1>1, <1>2, <2>1
<1>5. /\ job'[j].step = "done" /\ job'[j].call = job[j].call /\ job'[j].at = job[j].at
      /\ job'[j].entries = job[j].entries /\ job'[j].index = job[j].index
      /\ job'[j].fetching = job[j].fetching /\ job'[j].wrote = job[j].wrote
      /\ job'[j].imported = job[j].imported /\ job'[j].skipped = job[j].skipped
      /\ job'[j].pending = job[j].pending /\ job'[j].errors = job[j].errors
      /\ job'[j].partial = job[j].partial
      /\ job'[j].outcome = o /\ job'[j].count = n
  BY <1>1, <1>2 DEF JobState
<1>6. LandedAt(j)' BY <1>3, <1>5, LandedKept
<1>7. PlaceAt(j)' /\ EntriesAt(j)' BY <1>2, <1>5 DEF PlaceAt, BeforeLoop, EntriesAt
<1>8. EndMove(j, {}) BY <1>5 DEF EndMove, SameCall, SameIndex, SameReport
<1> QED BY <1>2, <1>3, <1>4, <1>6, <1>7, <1>8 DEF JobStep

\* The imported entries can be counted.
LEMMA ImportedFinite ==
  ASSUME TransferInv, NEW j \in Jobs
  PROVE  IsFiniteSet(job[j].imported) /\ Cardinality(job[j].imported) \in Nat
<1>1. job[j] \in JobState /\ LandedAt(j) BY DEF TransferInv, TransferTypeOK
<1>2. /\ job[j].entries \in Seq(Entry) /\ Len(job[j].entries) \in Nat
      /\ job[j].imported \in SUBSET (Nat \X Ids)
  BY <1>1 DEF JobState
<1> DEFINE N == 1..Len(job[j].entries)
<1>3. IsFiniteSet(N) /\ IsFiniteSet(Ids)
  <2>1. IsFiniteSet(Ids) BY FS_Interval, BoundAssumption DEF Ids
  <2>2. IsFiniteSet(N) BY <1>2, FS_Interval
  <2> QED BY <2>1, <2>2
<1>4. IsFiniteSet(N \X Ids) BY <1>3, FS_Product
<1>5. job[j].imported \in SUBSET (N \X Ids)
  <2>1. \A p \in job[j].imported : p[1] \in N BY <1>1, <1>2 DEF LandedAt
  <2> HIDE DEF N
  <2> QED BY <1>2, <2>1
<1>6. IsFiniteSet(job[j].imported) BY <1>4, <1>5, FS_Subset
<1> QED BY <1>6, FS_CardinalityType

\* check_space refuses what a job reads, or the loop is through.
LEMMA EndJobStep ==
  ASSUME TransferInv, NEW j \in Jobs, ReadRefused(j) \/ FinishJob(j)
  PROVE  JobStep(j) /\ EndMove(j, {})
<1>1. "ok" \in Outcomes /\ "internal_error" \in Outcomes BY DEF Outcomes
<1>2. CASE ReadRefused(j)
  BY <1>1, <1>2, EndStep DEF ReadRefused
<1>3. CASE FinishJob(j)
  BY <1>1, <1>3, ImportedFinite, EndStep DEF FinishJob
<1> QED BY <1>2, <1>3

\* A source memory as an entry keeps its parts; it passes the rules only without a
\* reserved key.
LEMMA AsEntryFacts ==
  ASSUME NEW m \in Memory
  PROVE  /\ AsEntry(m) \in Entry /\ AsEntry(m).system \in System
         /\ AsEntry(m).valid => \A k \in ReservedKeys : AsEntry(m).metadata[k] = None
BY DEF AsEntry, Entry, Memory

\* A job with entries and a step, or with an index, is one.
LEMMA ReadType ==
  ASSUME NEW s \in JobState, NEW entries \in Seq(Entry), NEW step \in {"entries", "index"},
         NEW index \in [Identities -> Known \cup {None}], NEW b \in BOOLEAN
  PROVE  /\ [s EXCEPT !.entries = entries, !.step = step] \in JobState
         /\ [s EXCEPT !.step = "entries", !.index = index, !.partial = b] \in JobState
<1>1. [s EXCEPT !.entries = entries, !.step = step] \in JobState BY DEF JobState
<1>2. [s EXCEPT !.step = "entries", !.index = index, !.partial = b] \in JobState
  BY DEF JobState
<1> QED BY <1>1, <1>2

\* A migration lists its source.
LEMMA SourceReadStep ==
  ASSUME TransferInv, NEW j \in Jobs, SourceRead(j)
  PROVE  JobStep(j) /\ ReadMove(j)
<1>1. PICK listed \in Sources :
        LET size == IF Len(listed) < ListLimit THEN Len(listed) ELSE ListLimit
        IN /\ job[j].step = "source"
           /\ job' = [job EXCEPT
                ![j].entries = [n \in 1..size |-> AsEntry(listed[n])],
                ![j].step = IF Mode(j) = "duplicate" THEN "entries" ELSE "index"]
           /\ UNCHANGED <<backendVars, faults>>
  BY DEF SourceRead
<1> DEFINE size == IF Len(listed) < ListLimit THEN Len(listed) ELSE ListLimit
           entries == [n \in 1..size |-> AsEntry(listed[n])]
           step == IF Mode(j) = "duplicate" THEN "entries" ELSE "index"
<1>2. job \in [Jobs -> JobState] /\ PlaceAt(j) /\ faults \in 0..MaxFaults /\ PolicyInv
  BY DEF TransferInv, TransferTypeOK
<1>3. StoreStep /\ TypeOK' BY <1>1, <1>2, QuietStore
<1>4. listed \in Seq(Memory) /\ ListLimit \in Nat BY JobAssumption
<1>5. size \in Nat /\ size <= Len(listed) BY <1>4
<1> HIDE DEF size
<1>6. \A n \in 1..size : listed[n] \in Memory BY <1>4, <1>5
<1>7. entries \in Seq(Entry) /\ DOMAIN entries = 1..size /\ Len(entries) = size
  BY <1>5, <1>6, AsEntryFacts
<1>8. job' = [job EXCEPT ![j].entries = entries, ![j].step = step]
      /\ step \in {"entries", "index"}
  BY <1>1 DEF size
<1>9. \A n \in 1..size : entries[n] = AsEntry(listed[n]) OBVIOUS
<1> HIDE DEF entries, step
<1>10. job' \in [Jobs -> JobState] /\ \A k \in Jobs \ {j} : job'[k] = job[k]
  <2>1. [job[j] EXCEPT !.entries = entries, !.step = step] \in JobState
    <3>1. NoIndex \in [Identities -> Known \cup {None}] BY DEF NoIndex
    <3> QED BY <1>2, <1>7, <1>8, <3>1, ReadType
  <2> QED BY <1>2, <1>8, <2>1
<1>11. /\ job'[j].call = job[j].call /\ job'[j].entries = entries /\ job'[j].step = step
       /\ job'[j].at = job[j].at /\ job'[j].index = job[j].index
       /\ job'[j].fetching = job[j].fetching /\ job'[j].imported = job[j].imported
       /\ job'[j].skipped = job[j].skipped /\ job'[j].errors = job[j].errors
       /\ job'[j].pending = job[j].pending /\ job'[j].wrote = job[j].wrote
       /\ job'[j].outcome = job[j].outcome /\ job'[j].partial = job[j].partial
  BY <1>2, <1>8 DEF JobState
<1>12. /\ job[j].at = 1 /\ job[j].index = NoIndex /\ job[j].fetching = None
       /\ job[j].imported = {} /\ job[j].skipped = {} /\ job[j].errors = {}
       /\ job[j].pending = {} /\ job[j].wrote = {} /\ job[j].outcome = None
       /\ job[j].call # None /\ job[j].call.kind = "migrate"
  BY <1>1, <1>2 DEF PlaceAt, BeforeLoop
<1>13. PlaceAt(j)'
  <2>1. job'[j].at \in 1..(Len(job'[j].entries) + 1) BY <1>5, <1>7, <1>11, <1>12
  <2> QED BY <1>8, <1>11, <1>12, <2>1 DEF PlaceAt
<1>14. EntriesAt(j)' BY <1>6, <1>7, <1>9, <1>11, AsEntryFacts DEF EntriesAt
<1>15. LandedAt(j)' BY <1>11, <1>12 DEF LandedAt, NoIndex
<1>16. ReadMove(j)
  BY <1>1, <1>11 DEF ReadMove, SameIndex, SameReport, SameWrites, step
<1> QED BY <1>1, <1>2, <1>3, <1>10, <1>13, <1>14, <1>15, <1>16 DEF JobStep

\* A job reads the memories its index is built from.
LEMMA IndexReadStep ==
  ASSUME TransferInv, NEW j \in Jobs, IndexRead(j)
  PROVE  JobStep(j) /\ ReadMove(j)
<1> DEFINE kept == FirstOf(Listed(Landing(j)), ListLimit)
           index == IndexOf(kept)
<1>1. /\ job[j].step = "index"
      /\ job' = [job EXCEPT ![j].step = "entries", ![j].index = index,
                            ![j].partial = Missed(Landing(j))]
      /\ UNCHANGED <<backendVars, faults>>
  BY DEF IndexRead
<1>2. job \in [Jobs -> JobState] /\ PlaceAt(j) /\ EntriesAt(j) /\ faults \in 0..MaxFaults
      /\ PolicyInv /\ TypeOK /\ FreshIdsFree
  BY DEF TransferInv, TransferTypeOK, PolicyInv
<1>3. StoreStep /\ TypeOK' /\ store' = store /\ created' = created
  BY <1>1, <1>2, QuietStore
<1>4. kept \in SUBSET Own(Landing(j)) /\ kept \in SUBSET Stored
  <2>1. Own(Landing(j)) \in SUBSET Ids /\ Listed(Landing(j)) \in SUBSET Own(Landing(j))
        /\ Own(Landing(j)) \in SUBSET Stored
    BY ListedFacts
  <2>2. kept \in SUBSET Listed(Landing(j)) BY <2>1, ListedFacts
  <2> QED BY <2>1, <2>2
<1> HIDE DEF kept
<1>5. /\ index \in [Identities -> Known \cup {None}]
      /\ \A k \in Identities : index[k] # None => index[k].id \in kept
  BY <1>2, <1>4, IndexFacts
<1>6. \A i \in kept : Lands(j, i)
  BY <1>2, <1>4, BoundAssumption DEF Lands, Own, Stored, FreshIdsFree, TypeOK, Ids
<1> HIDE DEF index
<1>7. Missed(Landing(j)) \in BOOLEAN BY DEF Missed
<1>8. job' \in [Jobs -> JobState] /\ \A k \in Jobs \ {j} : job'[k] = job[k]
  <2>1. [job[j] EXCEPT !.step = "entries", !.index = index, !.partial = Missed(Landing(j))]
          \in JobState
    <3>1. <<>> \in Seq(Entry) OBVIOUS
    <3> QED BY <1>2, <1>5, <1>7, <3>1, ReadType
  <2> QED BY <1>1, <1>2, <2>1
<1>9. /\ job'[j].call = job[j].call /\ job'[j].entries = job[j].entries
      /\ job'[j].step = "entries" /\ job'[j].at = job[j].at /\ job'[j].index = index
      /\ job'[j].fetching = job[j].fetching /\ job'[j].imported = job[j].imported
      /\ job'[j].skipped = job[j].skipped /\ job'[j].errors = job[j].errors
      /\ job'[j].pending = job[j].pending /\ job'[j].wrote = job[j].wrote
      /\ job'[j].outcome = job[j].outcome /\ job'[j].partial = Missed(Landing(j))
  BY <1>1, <1>2 DEF JobState
<1>10. PlaceAt(j)' /\ EntriesAt(j)' BY <1>1, <1>2, <1>9 DEF PlaceAt, BeforeLoop, EntriesAt
<1>11. \A i \in kept : Lands(j, i)' BY <1>3, <1>6, <1>9 DEF Lands, Landing
<1>12. LandedAt(j)'
  BY <1>1, <1>2, <1>5, <1>9, <1>11 DEF LandedAt, PlaceAt, BeforeLoop
<1>13. ReadMove(j)
  BY <1>1, <1>9 DEF ReadMove, SameReport, SameWrites, kept, index
<1> QED BY <1>1, <1>2, <1>3, <1>8, <1>10, <1>12, <1>13 DEF JobStep

(***************************************************************************)
(* The loop over the entries.                                              *)
(***************************************************************************)

\* A write a job sends is of the entry it is at, to a memory its index holds or to a new
\* one, records the space the job lands in and leaves the reserved keys.
LEMMA SentWriteFacts ==
  ASSUME TransferInv, NEW j \in Jobs, NEW w \in SentWrite(j)
  PROVE  /\ w \in Sent /\ InLoop(j)
         /\ w.entry = job[j].at /\ w.entry \in DOMAIN job[j].entries
         /\ w.system.space = Landing(j)
         /\ w.id # None =>
              /\ Lands(j, w.id)
              /\ \A k \in ReservedKeys : w.patch[k] = Keep
              /\ ~Migrates(j) => \E k \in Identities :
                   /\ job[j].index[k] # None /\ job[j].index[k].id = w.id
                   /\ job[j].index[k].created_by = w.system.created_by
<1> DEFINE known == IF Overwrites(j) THEN Duplicate(j, This(j)) ELSE None
<1>1. /\ Overwrites(j) \/ Creates(j)
      /\ w = [entry |-> job[j].at, id |-> IF known = None THEN None ELSE known.id,
              patch |-> IF known = None THEN NoPatch ELSE OverwritePatch(This(j), known),
              system |-> Stamp(j, This(j), known)]
  BY DEF SentWrite
<1>2. InLoop(j) /\ Acceptable(This(j)) BY <1>1 DEF Overwrites, Creates
<1>3. /\ job \in [Jobs -> JobState] /\ job[j].call # None
      /\ job[j].at \in Nat /\ job[j].at \in DOMAIN job[j].entries
      /\ This(j) \in Entry
      /\ job[j].call.kind = "migrate" => This(j).system \in System
      /\ This(j).metadata # None => \A k \in ReservedKeys : This(j).metadata[k] = None
  BY <1>2, EntryFacts DEF TransferInv, TransferTypeOK
<1>4. known # None =>
        /\ known \in Known /\ known.id \in Ids /\ Lands(j, known.id)
        /\ known = job[j].index[Identity(This(j))] /\ Identity(This(j)) \in Identities
  BY <1>2, EntryFacts, DuplicateFacts
<1> HIDE DEF known
<1>5. known \in Known \cup {None} BY <1>4
<1>6. /\ Stamp(j, This(j), known) \in System
      /\ Stamp(j, This(j), known).space = Landing(j)
      /\ ~Migrates(j) /\ known # None =>
           Stamp(j, This(j), known).created_by = known.created_by
  BY <1>3, <1>5, StampFacts
<1>7. known # None =>
        /\ OverwritePatch(This(j), known) \in Patch
        /\ \A k \in ReservedKeys : OverwritePatch(This(j), known)[k] = Keep
  BY <1>3, <1>4, PatchFacts
<1>8. w \in Sent BY <1>1, <1>3, <1>4, <1>6, <1>7, NoPatchType DEF Sent
<1>9. /\ w.entry = job[j].at /\ w.system = Stamp(j, This(j), known)
      /\ w.id # None => known # None /\ w.id = known.id
                        /\ w.patch = OverwritePatch(This(j), known)
  BY <1>1
<1> QED BY <1>2, <1>3, <1>4, <1>6, <1>7, <1>8, <1>9

\* A job whose entry fails, ends with sent writes, or passes an entry, is one.
LEMMA LoopType ==
  ASSUME NEW s \in JobState, NEW n \in Nat, NEW E \in SUBSET Nat, NEW P \in SUBSET Sent,
         NEW S \in SUBSET (Nat \X Ids), NEW o \in Outcomes
  PROVE  /\ [s EXCEPT !.step = "entries", !.at = n, !.errors = E, !.fetching = None] \in JobState
         /\ [s EXCEPT !.pending = P] \in JobState
         /\ [s EXCEPT !.step = "done", !.outcome = o, !.pending = P] \in JobState
         /\ [s EXCEPT !.at = n, !.skipped = S] \in JobState
<1>1. [s EXCEPT !.step = "entries", !.at = n, !.errors = E, !.fetching = None] \in JobState
  BY DEF JobState
<1>2. [s EXCEPT !.pending = P] \in JobState BY DEF JobState
<1>3. [s EXCEPT !.step = "done", !.outcome = o, !.pending = P] \in JobState BY DEF JobState
<1>4. [s EXCEPT !.at = n, !.skipped = S] \in JobState BY DEF JobState
<1> QED BY <1>1, <1>2, <1>3, <1>4

\* An entry that fails is reported, and its write, if one was sent, may still come.
LEMMA ErrorStep ==
  ASSUME TransferInv, NEW j \in Jobs, NEW sent \in SUBSET SentWrite(j),
         ErrorMove(j, sent), UNCHANGED backendVars,
         job' \in [Jobs -> JobState], \A k \in Jobs \ {j} : job'[k] = job[k],
         faults' \in 0..MaxFaults
  PROVE  JobStep(j)
<1>1. PolicyInv /\ PlaceAt(j) /\ EntriesAt(j) /\ LandedAt(j) BY DEF TransferInv
<1>2. StoreStep /\ TypeOK' BY <1>1, QuietStore
<1>3. /\ job'[j].step = "entries" /\ job'[j].at = job[j].at + 1
      /\ job'[j].fetching = None /\ job'[j].pending = job[j].pending \cup sent
      /\ job'[j].call = job[j].call /\ job'[j].entries = job[j].entries
      /\ job'[j].index = job[j].index /\ job'[j].imported = job[j].imported
      /\ job'[j].skipped = job[j].skipped /\ job'[j].wrote = job[j].wrote
      /\ job'[j].outcome = job[j].outcome
  BY DEF ErrorMove, SameCall, SameIndex, SameEnd
<1>4. /\ job[j].at \in 1..Len(job[j].entries) /\ Len(job[j].entries) \in Nat
      /\ job[j].call # None
  BY EntryFacts DEF ErrorMove, JobState
<1>5. job[j].step # "done" BY DEF ErrorMove, InLoop
<1>6. job'[j].at \in 1..(Len(job'[j].entries) + 1) BY <1>3, <1>4
<1>7. PlaceAt(j)' BY <1>1, <1>3, <1>4, <1>5, <1>6 DEF PlaceAt, BeforeLoop
<1>8. EntriesAt(j)' BY <1>1, <1>3 DEF EntriesAt
<1>9. \A i : Lands(j, i) => Lands(j, i)' BY <1>1, <1>2, <1>3, LandsKept
<1>10. Landing(j)' = Landing(j) BY <1>3 DEF Landing
<1>11. \A w \in job'[j].pending :
         /\ w.entry \in DOMAIN job'[j].entries
         /\ w.system.space = Landing(j)
         /\ w.id # None => Lands(j, w.id) /\ \A k \in ReservedKeys : w.patch[k] = Keep
  <2>1. \A w \in sent :
          /\ w.entry \in DOMAIN job[j].entries
          /\ w.system.space = Landing(j)
          /\ w.id # None => Lands(j, w.id) /\ \A k \in ReservedKeys : w.patch[k] = Keep
    BY SentWriteFacts
  <2> QED BY <1>1, <1>3, <2>1 DEF LandedAt
<1>12. LandedAt(j)' BY <1>1, <1>3, <1>9, <1>10, <1>11 DEF LandedAt
<1> QED BY <1>2, <1>7, <1>8, <1>12 DEF JobStep

\* An entry is refused or its memory is gone, or its backend call fails.
LEMMA FailedEntryStep ==
  ASSUME TransferInv, NEW j \in Jobs, RejectEntry(j) \/ OverwriteGone(j) \/ EntryFails(j)
  PROVE  JobStep(j) /\ \E sent \in SUBSET SentWrite(j) : ErrorMove(j, sent)
<1> DEFINE failed == [job[j] EXCEPT !.step = "entries", !.at = job[j].at + 1,
                                    !.errors = job[j].errors \cup {job[j].at},
                                    !.fetching = None]
<1>1. job \in [Jobs -> JobState] /\ faults \in 0..MaxFaults BY DEF TransferInv, TransferTypeOK
<1>2. PICK sent \in SUBSET SentWrite(j) :
        /\ InLoop(j) \/ job[j].step = "readback"
        /\ job' = [job EXCEPT ![j] = [failed EXCEPT !.pending = job[j].pending \cup sent]]
        /\ UNCHANGED backendVars
        /\ faults' \in 0..MaxFaults
  <2>1. CASE EntryFails(j)
    <3>1. PICK sent \in SUBSET SentWrite(j) :
            /\ faults < MaxFaults
            /\ job[j].step = "readback" \/ Overwrites(j) \/ Creates(j)
            /\ job' = [job EXCEPT
                 ![j].step = "entries", ![j].at = @ + 1, ![j].fetching = None,
                 ![j].errors = @ \cup {job[j].at}, ![j].pending = @ \cup sent]
            /\ faults' = faults + 1
            /\ UNCHANGED backendVars
      BY <2>1 DEF EntryFails
    <3>2. InLoop(j) \/ job[j].step = "readback" BY <3>1 DEF Overwrites, Creates
    <3>3. faults' \in 0..MaxFaults BY <1>1, <3>1, JobAssumption
    <3>4. job' = [job EXCEPT ![j] = [failed EXCEPT !.pending = job[j].pending \cup sent]]
      BY <1>1, <3>1 DEF JobState
    <3> QED BY <3>1, <3>2, <3>3, <3>4
  <2>2. CASE RejectEntry(j) \/ OverwriteGone(j)
    <3>1. InLoop(j) /\ ReportError(j) /\ UNCHANGED <<backendVars, faults>>
      BY <2>2 DEF RejectEntry, OverwriteGone, Overwrites
    <3>2. job' = [job EXCEPT ![j] = [failed EXCEPT !.pending = job[j].pending \cup {}]]
      <4>1. job' = [job EXCEPT ![j] = failed] BY <1>1, <3>1 DEF ReportError, JobState
      <4>2. failed = [failed EXCEPT !.pending = job[j].pending \cup {}]
        BY <1>1 DEF JobState
      <4> QED BY <4>1, <4>2
    <3> HIDE DEF failed
    <3> WITNESS {} \in SUBSET SentWrite(j)
    <3> QED BY <1>1, <3>1, <3>2
  <2> QED BY <2>1, <2>2
<1>3. job[j] \in JobState /\ job[j].at \in Nat BY <1>1 DEF JobState
<1>4. sent \in SUBSET Sent /\ job[j].pending \cup sent \in SUBSET Sent
  BY <1>3, SentWriteFacts DEF JobState
<1>5. failed \in JobState /\ "ok" \in Outcomes
  <2>1. job[j].at + 1 \in Nat /\ job[j].errors \cup {job[j].at} \in SUBSET Nat
        /\ {} \in SUBSET Sent /\ {} \in SUBSET (Nat \X Ids) /\ "ok" \in Outcomes
    BY <1>3 DEF JobState, Outcomes
  <2> QED BY <1>3, <2>1, LoopType
<1>6. [failed EXCEPT !.pending = job[j].pending \cup sent] \in JobState
  <2>1. {} \in SUBSET Nat /\ {} \in SUBSET (Nat \X Ids) /\ 0 \in Nat OBVIOUS
  <2> HIDE DEF failed
  <2> QED BY <1>4, <1>5, <2>1, LoopType
<1>7. ErrorMove(j, sent) BY <1>1, <1>2 DEF ErrorMove, SameCall, SameIndex, SameEnd, JobState
<1>8. job' \in [Jobs -> JobState] /\ \A k \in Jobs \ {j} : job'[k] = job[k]
  <2> HIDE DEF failed
  <2> QED BY <1>1, <1>2, <1>6
<1>9. JobStep(j) BY <1>2, <1>7, <1>8, ErrorStep
<1> QED BY <1>7, <1>9

\* A skipped entry is reported with the memory it duplicates.
LEMMA SkipEntryStep ==
  ASSUME TransferInv, NEW j \in Jobs, SkipEntry(j)
  PROVE  JobStep(j) /\ SkipMove(j, Duplicate(j, This(j)).id)
<1> DEFINE i == Duplicate(j, This(j)).id
           passed == [job[j] EXCEPT !.at = job[j].at + 1,
                                    !.skipped = job[j].skipped \cup {<<job[j].at, i>>}]
<1>1. /\ InLoop(j) /\ Duplicate(j, This(j)) # None
      /\ job' = [job EXCEPT ![j].at = @ + 1,
                            ![j].skipped = @ \cup {<<job[j].at, Duplicate(j, This(j)).id>>}]
      /\ UNCHANGED <<backendVars, faults>>
  BY DEF SkipEntry
<1>2. job \in [Jobs -> JobState] /\ faults \in 0..MaxFaults /\ PolicyInv
      /\ PlaceAt(j) /\ EntriesAt(j) /\ LandedAt(j)
  BY DEF TransferInv, TransferTypeOK
<1>3. StoreStep /\ TypeOK' BY <1>1, <1>2, QuietStore
<1>4. i \in Ids /\ Lands(j, i) BY <1>1, DuplicateFacts
<1> HIDE DEF i
<1>5. /\ job[j] \in JobState /\ job[j].at \in 1..Len(job[j].entries)
      /\ job[j].at \in DOMAIN job[j].entries /\ job[j].at \in Nat
      /\ Len(job[j].entries) \in Nat /\ job[j].step = "entries"
  BY <1>1, EntryFacts DEF JobState, InLoop
<1>6. passed \in JobState
  <2>1. /\ job[j].skipped \cup {<<job[j].at, i>>} \in SUBSET (Nat \X Ids)
        /\ job[j].at + 1 \in Nat /\ {} \in SUBSET Sent /\ {} \in SUBSET Nat /\ "ok" \in Outcomes
    BY <1>4, <1>5 DEF JobState, Outcomes
  <2> QED BY <1>5, <2>1, LoopType
<1>7. job' = [job EXCEPT ![j] = passed] BY <1>1, <1>2 DEF JobState, i
<1>8. /\ job'[j].step = "entries" /\ job'[j].at = job[j].at + 1
      /\ job'[j].skipped = job[j].skipped \cup {<<job[j].at, i>>}
      /\ SameCall(j) /\ SameIndex(j) /\ SameEnd(j) /\ SameWrites(j)
      /\ job'[j].imported = job[j].imported /\ job'[j].errors = job[j].errors
  BY <1>2, <1>5, <1>7 DEF JobState, SameCall, SameIndex, SameEnd, SameWrites
<1> HIDE DEF passed
<1>9. job' \in [Jobs -> JobState] /\ \A k \in Jobs \ {j} : job'[k] = job[k]
  BY <1>2, <1>6, <1>7
<1>10. /\ job'[j].call = job[j].call /\ job'[j].entries = job[j].entries
       /\ job'[j].index = job[j].index /\ job'[j].fetching = job[j].fetching
       /\ job'[j].wrote = job[j].wrote /\ job'[j].pending = job[j].pending
       /\ job'[j].outcome = job[j].outcome
  BY <1>8 DEF SameCall, SameIndex, SameEnd, SameWrites
<1>11. job'[j].at \in 1..(Len(job'[j].entries) + 1) BY <1>5, <1>8, <1>10
<1>12. PlaceAt(j)' BY <1>2, <1>5, <1>8, <1>10, <1>11 DEF PlaceAt, BeforeLoop
<1>13. EntriesAt(j)' BY <1>2, <1>10 DEF EntriesAt
<1>14. \A k : Lands(j, k) => Lands(j, k)' BY <1>2, <1>3, <1>10, LandsKept
<1>15. LandedAt(j)'
  <2>1. \A p \in job'[j].skipped : p[1] \in DOMAIN job'[j].entries /\ Lands(j, p[2])'
    BY <1>2, <1>4, <1>5, <1>8, <1>10, <1>14 DEF LandedAt
  <2> QED BY <1>2, <1>8, <1>10, <1>14, <2>1 DEF LandedAt, Landing
<1>16. SkipMove(j, i) BY <1>1, <1>8 DEF SkipMove
<1>17. JobStep(j) BY <1>1, <1>2, <1>3, <1>9, <1>12, <1>13, <1>15 DEF JobStep
<1> QED BY <1>16, <1>17 DEF i

\* A call that fails unexpectedly or is cancelled ends the job; a write it has sent may
\* still come.
LEMMA InterruptedStep ==
  ASSUME TransferInv, NEW j \in Jobs, Interrupted(j)
  PROVE  JobStep(j) /\ \E sent \in SUBSET SentWrite(j) : EndMove(j, sent)
<1>1. PICK outcome \in JobFaults, sent \in SUBSET SentWrite(j) :
        /\ faults < MaxFaults
        /\ AwaitsBackend(j)
        /\ job' = [job EXCEPT ![j].step = "done", ![j].outcome = outcome,
                              ![j].pending = @ \cup sent]
        /\ faults' = faults + 1
        /\ UNCHANGED backendVars
  BY DEF Interrupted
<1>2. job \in [Jobs -> JobState] /\ faults \in 0..MaxFaults /\ PolicyInv
      /\ PlaceAt(j) /\ EntriesAt(j) /\ LandedAt(j)
  BY DEF TransferInv, TransferTypeOK
<1>3. StoreStep /\ TypeOK' BY <1>1, <1>2, QuietStore
<1>4. faults' \in 0..MaxFaults BY <1>1, <1>2, JobAssumption
<1>5. outcome \in Outcomes /\ outcome # "ok" BY JobAssumption DEF Outcomes, FaultKinds
<1>6. job[j] \in JobState /\ job[j].pending \cup sent \in SUBSET Sent
  BY <1>2, SentWriteFacts DEF JobState
<1> DEFINE ended == [job[j] EXCEPT !.step = "done", !.outcome = outcome,
                                   !.pending = job[j].pending \cup sent]
<1>7. ended \in JobState
  <2>1. {} \in SUBSET (Nat \X Ids) /\ {} \in SUBSET Nat /\ 0 \in Nat OBVIOUS
  <2> QED BY <1>5, <1>6, <2>1, LoopType
<1>8. job' = [job EXCEPT ![j] = ended] BY <1>1, <1>2 DEF JobState
<1>9. /\ job'[j].step = "done" /\ job'[j].outcome = outcome
      /\ job'[j].pending = job[j].pending \cup sent
      /\ SameCall(j) /\ SameIndex(j) /\ SameReport(j)
      /\ job'[j].fetching = job[j].fetching /\ job'[j].wrote = job[j].wrote
  BY <1>2, <1>6, <1>8 DEF JobState, SameCall, SameIndex, SameReport
<1> HIDE DEF ended
<1>10. job' \in [Jobs -> JobState] /\ \A k \in Jobs \ {j} : job'[k] = job[k]
  BY <1>2, <1>7, <1>8
<1>11. job[j].step # "idle" BY <1>1 DEF AwaitsBackend, Overwrites, Creates, InLoop
<1>12. EndMove(j, sent) BY <1>5, <1>9, <1>11 DEF EndMove
<1>13. PlaceAt(j)' /\ EntriesAt(j)'
  BY <1>2, <1>9, <1>11 DEF PlaceAt, BeforeLoop, EntriesAt, SameCall, SameReport
<1>14. \A k : Lands(j, k) => Lands(j, k)' BY <1>2, <1>3, <1>9, LandsKept DEF SameCall
<1>15. Landing(j)' = Landing(j) BY <1>9 DEF Landing, SameCall
<1>16. \A w \in job'[j].pending :
         /\ w.entry \in DOMAIN job[j].entries
         /\ w.system.space = Landing(j)
         /\ w.id # None => Lands(j, w.id) /\ \A k \in ReservedKeys : w.patch[k] = Keep
  <2>1. \A w \in sent :
          /\ w.entry \in DOMAIN job[j].entries
          /\ w.system.space = Landing(j)
          /\ w.id # None => Lands(j, w.id) /\ \A k \in ReservedKeys : w.patch[k] = Keep
    BY SentWriteFacts
  <2> QED BY <1>2, <1>9, <2>1 DEF LandedAt
<1>17. LandedAt(j)'
  BY <1>2, <1>9, <1>14, <1>15, <1>16 DEF LandedAt, SameCall, SameIndex, SameReport
<1> QED BY <1>3, <1>4, <1>10, <1>12, <1>13, <1>17 DEF JobStep

\* A job that records an entry as done is one.
LEMMA RecordType ==
  ASSUME NEW s \in JobState, NEW n \in Nat, NEW I \in SUBSET (Nat \X Ids),
         NEW x \in [Identities -> Known \cup {None}], NEW W \in SUBSET (Nat \X Ids)
  PROVE  /\ [s EXCEPT !.step = "entries", !.at = n, !.fetching = None] \in JobState
         /\ [s EXCEPT !.imported = I, !.index = x, !.wrote = W] \in JobState
<1>1. [s EXCEPT !.step = "entries", !.at = n, !.fetching = None] \in JobState BY DEF JobState
<1>2. [s EXCEPT !.imported = I, !.index = x, !.wrote = W] \in JobState BY DEF JobState
<1> QED BY <1>1, <1>2

\* So is one that has written memory i, at once or late.
LEMMA WroteType ==
  ASSUME NEW s \in JobState, NEW W \in SUBSET (Nat \X Ids), NEW i \in Ids,
         NEW P \in SUBSET Sent
  PROVE  /\ [s EXCEPT !.step = "readback", !.fetching = i, !.wrote = W] \in JobState
         /\ [s EXCEPT !.pending = P, !.wrote = W] \in JobState
<1>1. [s EXCEPT !.step = "readback", !.fetching = i, !.wrote = W] \in JobState
  BY DEF JobState
<1>2. [s EXCEPT !.pending = P, !.wrote = W] \in JobState BY DEF JobState
<1> QED BY <1>1, <1>2

\* The entry is done as memory i, which the index then holds.
LEMMA RecordStep ==
  ASSUME TransferInv, StoreStep, TypeOK', NEW j \in Jobs,
         InLoop(j) \/ job[j].step = "readback",
         NEW i \in Ids, Lands(j, i), NEW m \in Memory, InSpace(m, Landing(j)),
         Record(j, i, m), UNCHANGED faults
  PROVE  JobStep(j) /\ RecordMove(j, i, m)
<1> DEFINE k == Identity(This(j))
           p == <<job[j].at, i>>
           index == [job[j].index EXCEPT ![k] = AsKnown(i, m)]
           moved == [job[j] EXCEPT !.step = "entries", !.at = job[j].at + 1, !.fetching = None]
           done == [moved EXCEPT !.imported = job[j].imported \cup {p}, !.index = index,
                                 !.wrote = job[j].wrote \cup {p}]
<1>1. job' = [job EXCEPT ![j].step = "entries", ![j].at = @ + 1, ![j].fetching = None,
                          ![j].imported = @ \cup {<<job[j].at, i>>},
                          ![j].index[Identity(This(j))] = AsKnown(i, m),
                          ![j].wrote = @ \cup {<<job[j].at, i>>}]
  BY DEF Record
<1>2. job \in [Jobs -> JobState] /\ faults \in 0..MaxFaults /\ PolicyInv
      /\ PlaceAt(j) /\ EntriesAt(j) /\ LandedAt(j)
  BY DEF TransferInv, TransferTypeOK
<1>3. /\ job[j] \in JobState /\ job[j].at \in 1..Len(job[j].entries)
      /\ job[j].at \in DOMAIN job[j].entries /\ job[j].at \in Nat
      /\ Len(job[j].entries) \in Nat /\ k \in Identities /\ job[j].step # "done"
      /\ job[j].call # None
  BY EntryFacts DEF JobState, InLoop
<1>4. AsKnown(i, m) \in Known /\ AsKnown(i, m).id = i
  BY DEF AsKnown, Known, Memory, System
<1>5. job' = [job EXCEPT ![j] = done]
  <2> HIDE DEF k
  <2> QED BY <1>1, <1>2 DEF JobState, k
<1> HIDE DEF k
<1>6. index \in [Identities -> Known \cup {None}]
      /\ \A q \in Identities : index[q] = IF q = k THEN AsKnown(i, m) ELSE job[j].index[q]
  BY <1>3, <1>4 DEF JobState
<1>7. p \in Nat \X Ids /\ p[1] = job[j].at /\ p[2] = i BY <1>3
<1> HIDE DEF index, p
<1>8. /\ job'[j].step = "entries" /\ job'[j].at = job[j].at + 1
      /\ job'[j].imported = job[j].imported \cup {p} /\ job'[j].index = index
      /\ job'[j].wrote = job[j].wrote \cup {p} /\ job'[j].fetching = None
      /\ job'[j].pending = job[j].pending /\ job'[j].partial = job[j].partial
      /\ job'[j].call = job[j].call /\ job'[j].entries = job[j].entries
      /\ job'[j].outcome = job[j].outcome /\ job'[j].count = job[j].count
      /\ job'[j].skipped = job[j].skipped /\ job'[j].errors = job[j].errors
  BY <1>2, <1>3, <1>5 DEF JobState
<1>9. done \in JobState
  <2>1. /\ job[j].imported \cup {p} \in SUBSET (Nat \X Ids)
        /\ job[j].wrote \cup {p} \in SUBSET (Nat \X Ids)
        /\ job[j].at + 1 \in Nat
    BY <1>3, <1>7 DEF JobState
  <2>2. moved \in JobState BY <1>3, <1>6, <2>1, RecordType
  <2> HIDE DEF moved
  <2> QED BY <1>3, <1>6, <2>1, <2>2, RecordType
<1> HIDE DEF done
<1>10. job' \in [Jobs -> JobState] /\ \A q \in Jobs \ {j} : job'[q] = job[q]
  BY <1>2, <1>5, <1>9
<1>11. RecordMove(j, i, m)
  BY <1>8 DEF RecordMove, SameCall, SameEnd, index, k, p
<1>12. job'[j].at \in 1..(Len(job'[j].entries) + 1) BY <1>3, <1>8
<1>13. PlaceAt(j)' BY <1>2, <1>3, <1>8, <1>12 DEF PlaceAt, BeforeLoop
<1>14. EntriesAt(j)' BY <1>2, <1>8 DEF EntriesAt
<1>15. \A q : Lands(j, q) => Lands(j, q)' BY <1>2, <1>8, LandsKept
<1>16. \A q \in Identities : \A n : job'[j].index[q] # None /\ n = job'[j].index[q].id =>
         Lands(j, n)'
  BY <1>2, <1>4, <1>6, <1>8, <1>15 DEF LandedAt
<1>17. \A q \in job'[j].wrote \cup job'[j].imported \cup job'[j].skipped : \A n :
         q[1] \in DOMAIN job'[j].entries /\ (n = q[2] => Lands(j, n)')
  BY <1>2, <1>3, <1>7, <1>8, <1>15 DEF LandedAt
<1>18. LandedAt(j)'
  BY <1>2, <1>8, <1>15, <1>16, <1>17 DEF LandedAt, Landing
<1>19. JobStep(j) BY <1>2, <1>10, <1>13, <1>14, <1>18 DEF JobStep
<1> QED BY <1>11, <1>19

\* An overwrite rewrites the indexed memory, in the space the job lands in.
LEMMA OverwriteEntryStep ==
  ASSUME TransferInv, NEW j \in Jobs, OverwriteEntry(j)
  PROVE  JobStep(j) /\ RewriteMove(j)
<1> DEFINE known == Duplicate(j, This(j))
           i == known.id
           patch == OverwritePatch(This(j), known)
           sys == Stamp(j, This(j), known)
<1>1. /\ Overwrites(j) /\ Owned(Landing(j), i)
      /\ UpdateEffect(i, This(j).content, patch, sys)
      /\ Record(j, i, store'[i]) /\ UNCHANGED faults
  BY DEF OverwriteEntry
<1>2. InLoop(j) /\ Acceptable(This(j)) /\ known # None BY <1>1 DEF Overwrites
<1>3. /\ known = job[j].index[Identity(This(j))] /\ known \in Known /\ i \in Ids
      /\ Lands(j, i)
  BY <1>2, DuplicateFacts
<1>4. /\ job \in [Jobs -> JobState] /\ job[j].call # None /\ This(j) \in Entry
      /\ job[j].call.kind = "migrate" => This(j).system \in System /\ PolicyInv
  BY <1>2, EntryFacts DEF TransferInv, TransferTypeOK
<1>5. This(j).content \in Contents /\ PolicyInv BY <1>4 DEF Entry, TransferInv
<1> HIDE DEF known
<1>6. patch \in Patch BY <1>3, <1>4, PatchFacts
<1>7. sys \in System /\ sys.space = Landing(j) BY <1>3, <1>4, StampFacts
<1>8. store[i] # None /\ store[i].partition = Landing(j) BY <1>1 DEF Owned
<1> HIDE DEF i, patch, sys
<1>9. /\ StoreStep /\ TypeOK' /\ created' = created
      /\ store'[i] = [partition |-> store[i].partition, content |-> This(j).content,
                      scope |-> store[i].scope,
                      metadata |-> Patched(store[i].metadata, patch), system |-> sys]
      /\ store'[i] # None
      /\ \A q \in Ids \ {i} : store'[q] = store[q]
  BY <1>1, <1>3, <1>5, <1>6, <1>7, <1>8, UpdateStore
<1>10. store'[i] \in Memory BY <1>3, <1>9 DEF TypeOK
<1>11. InSpace(store'[i], Landing(j)) BY <1>7, <1>8, <1>9 DEF InSpace
<1>12. JobStep(j) /\ RecordMove(j, i, store'[i])
  <2>1. \A m \in Memory : InSpace(m, Landing(j)) /\ Record(j, i, m) =>
          JobStep(j) /\ RecordMove(j, i, m)
    BY <1>1, <1>2, <1>3, <1>9, RecordStep
  <2> QED BY <1>1, <1>10, <1>11, <2>1
<1> QED BY <1>2, <1>3, <1>8, <1>9, <1>10, <1>12 DEF RewriteMove, known, i, patch, sys

\* An add stores the entry under a new identifier, in the space the job lands in.
LEMMA AddEntryStep ==
  ASSUME TransferInv, NEW j \in Jobs, AddEntry(j)
  PROVE  JobStep(j) /\ InsertMove(j)
<1> DEFINE i == created + 1
           p == <<job[j].at, i>>
           md == EntryMetadata(This(j))
           sys == Stamp(j, This(j), None)
           added == [job[j] EXCEPT !.step = "readback", !.fetching = i,
                                   !.wrote = job[j].wrote \cup {p}]
<1>1. /\ Creates(j)
      /\ AddEffect(i, Landing(j), This(j).content, This(j).scope, md, sys)
      /\ job' = [job EXCEPT ![j].step = "readback", ![j].fetching = created + 1,
                            ![j].wrote = @ \cup {<<job[j].at, created + 1>>}]
      /\ UNCHANGED faults
  BY DEF AddEntry
<1>2. InLoop(j) BY <1>1 DEF Creates
<1>3. job \in [Jobs -> JobState] /\ faults \in 0..MaxFaults /\ PolicyInv
      /\ PlaceAt(j) /\ EntriesAt(j) /\ LandedAt(j)
  BY DEF TransferInv, TransferTypeOK
<1>4. /\ job[j] \in JobState /\ job[j].call # None /\ This(j) \in Entry
      /\ job[j].call.kind = "migrate" => This(j).system \in System
      /\ job[j].at \in 1..Len(job[j].entries) /\ job[j].at \in DOMAIN job[j].entries
      /\ job[j].at \in Nat /\ job[j].step = "entries" /\ Len(job[j].entries) \in Nat
  BY <1>2, EntryFacts DEF InLoop, JobState
<1>5. This(j).content \in Contents /\ This(j).scope \in Scope /\ Landing(j) \in Spaces
  BY <1>3, <1>4, CallFacts DEF Entry
<1>6. md \in Metadata BY <1>4 DEF EntryMetadata, Metadata, Entry
<1>7. sys \in System BY <1>3, <1>4, StampFacts
<1> HIDE DEF md, sys, i
<1>8. /\ StoreStep /\ TypeOK'
      /\ i \in Ids /\ created' = i /\ store[i] = None
      /\ store'[i] = NewMemory(Landing(j), This(j).content, This(j).scope, md, sys)
      /\ store'[i] # None
      /\ \A q \in Ids \ {i} : store'[q] = store[q]
  BY <1>1, <1>3, <1>5, <1>6, <1>7, AddStore DEF i
<1>9. job' = [job EXCEPT ![j] = added] BY <1>1, <1>3 DEF JobState, i
<1>10. p \in Nat \X Ids /\ p[1] = job[j].at /\ p[2] = i BY <1>4, <1>8
<1> HIDE DEF p
<1>11. /\ job'[j].step = "readback" /\ job'[j].fetching = i
       /\ job'[j].wrote = job[j].wrote \cup {p} /\ job'[j].pending = job[j].pending
       /\ SameCall(j) /\ SameIndex(j) /\ SameReport(j) /\ SameEnd(j)
  BY <1>3, <1>4, <1>9 DEF JobState, SameCall, SameIndex, SameReport, SameEnd
<1>12. added \in JobState
  <2>1. job[j].wrote \cup {p} \in SUBSET (Nat \X Ids) BY <1>4, <1>10 DEF JobState
  <2>2. {} \in SUBSET Sent OBVIOUS
  <2> QED BY <1>4, <1>8, <2>1, <2>2, WroteType
<1> HIDE DEF added
<1>13. job' \in [Jobs -> JobState] /\ \A q \in Jobs \ {j} : job'[q] = job[q]
  BY <1>3, <1>9, <1>12
<1>14. AddMove(j) BY <1>2, <1>11 DEF AddMove, p, i
<1>15. i # None BY <1>8, PolicyConstants DEF Ids
<1>16. PlaceAt(j)'
  BY <1>3, <1>4, <1>10, <1>11, <1>15
  DEF PlaceAt, BeforeLoop, SameCall, SameIndex, SameReport, SameEnd, p
<1>17. EntriesAt(j)' BY <1>3, <1>11 DEF EntriesAt, SameCall
<1>18. \A q : Lands(j, q) => Lands(j, q)' BY <1>3, <1>8, <1>11, LandsKept DEF SameCall
<1>19. \A n : n = i => Lands(j, n)'
  <2>1. store'[i].partition = Landing(j) BY <1>8 DEF NewMemory
  <2>2. i <= created' BY <1>8 DEF Ids
  <2> QED BY <1>8, <1>11, <2>1, <2>2 DEF Lands, Landing, SameCall
<1>20. \A q \in job'[j].wrote \cup job'[j].imported \cup job'[j].skipped : \A n :
         q[1] \in DOMAIN job'[j].entries /\ (n = q[2] => Lands(j, n)')
  BY <1>3, <1>4, <1>10, <1>11, <1>18, <1>19 DEF LandedAt, SameCall, SameReport
<1>21. LandedAt(j)'
  <2>1. \A n : job'[j].fetching # None /\ n = job'[j].fetching => Lands(j, n)'
    BY <1>11, <1>19
  <2> QED
    BY <1>3, <1>11, <1>18, <1>20, <2>1 DEF LandedAt, Landing, SameCall, SameIndex, SameReport
<1>22. JobStep(j) BY <1>1, <1>3, <1>8, <1>13, <1>16, <1>17, <1>21 DEF JobStep
<1> QED BY <1>1, <1>8, <1>14, <1>22 DEF InsertMove, i, md, sys

\* An added memory is read back, or found gone or in another space, which ends the job.
LEMMA ReadBackEntryStep ==
  ASSUME TransferInv, NEW j \in Jobs, ReadBackEntry(j)
  PROVE  JobStep(j) /\ UNCHANGED backendVars /\ (BackMove(j) \/ EndMove(j, {}))
<1> DEFINE i == job[j].fetching
           m == IF Owned(Landing(j), i) THEN store[i] ELSE None
<1>1. job[j].step = "readback" /\ Record(j, i, m) /\ UNCHANGED <<backendVars, faults>>
  BY DEF ReadBackEntry
<1>2. job[j] \in JobState /\ PlaceAt(j) /\ LandedAt(j) /\ PolicyInv /\ TypeOK
  BY DEF TransferInv, TransferTypeOK
<1>3. StoreStep /\ TypeOK' BY <1>1, <1>2, QuietStore
<1>4. i \in Ids /\ Lands(j, i) BY <1>1, <1>2 DEF PlaceAt, LandedAt, JobState
<1>5. CASE InSpace(m, Landing(j))
  <2>1. m = store[i] /\ Owned(Landing(j), i) BY <1>5 DEF InSpace
  <2>2. m \in Memory BY <1>2, <1>4, <1>5, <2>1 DEF InSpace, TypeOK
  <2> HIDE DEF m
  <2>3. JobStep(j) /\ RecordMove(j, i, m) BY <1>1, <1>3, <1>4, <1>5, <2>2, RecordStep
  <2> QED BY <1>1, <2>1, <2>3 DEF BackMove
<1>6. CASE ~InSpace(m, Landing(j))
  <2>1. EndJob(j, "internal_error", None) BY <1>1, <1>6 DEF Record
  <2>2. "internal_error" \in Outcomes BY DEF Outcomes
  <2>3. JobStep(j) /\ EndMove(j, {}) BY <1>1, <2>1, <2>2, EndStep
  <2> QED BY <1>1, <2>3
<1> QED BY <1>5, <1>6

\* A sent write takes effect late: it adds a memory, or rewrites one of the space the
\* job lands in, as it was sent.
LEMMA LateEntryStep ==
  ASSUME TransferInv, NEW j \in Jobs, LateEntry(j)
  PROVE  JobStep(j) /\ WroteLate(j)
<1>1. PICK w \in job[j].pending :
        LET entry == job[j].entries[w.entry]
            i == IF w.id = None THEN created + 1 ELSE w.id
        IN /\ IF w.id = None
              THEN AddEffect(i, Landing(j), entry.content, entry.scope, EntryMetadata(entry), w.system)
              ELSE /\ Owned(Landing(j), i)
                   /\ UpdateEffect(i, entry.content, w.patch, w.system)
           /\ job' = [job EXCEPT ![j].pending = @ \ {w}, ![j].wrote = @ \cup {<<w.entry, i>>}]
           /\ UNCHANGED faults
  BY DEF LateEntry
<1> DEFINE entry == job[j].entries[w.entry]
           i == IF w.id = None THEN created + 1 ELSE w.id
           p == <<w.entry, i>>
           came == [job[j] EXCEPT !.pending = job[j].pending \ {w},
                                  !.wrote = job[j].wrote \cup {p}]
<1>2. job \in [Jobs -> JobState] /\ faults \in 0..MaxFaults /\ PolicyInv
      /\ PlaceAt(j) /\ EntriesAt(j) /\ LandedAt(j)
  BY DEF TransferInv, TransferTypeOK
<1>3. job[j] \in JobState /\ w \in Sent /\ job[j].entries \in Seq(Entry)
  BY <1>2 DEF JobState
<1>4. /\ w.entry \in Nat /\ w.id \in Ids \cup {None} /\ w.patch \in Patch /\ w.system \in System
      /\ w.entry \in DOMAIN job[j].entries
      /\ w.id # None => Lands(j, w.id)
  BY <1>2, <1>3 DEF Sent, LandedAt
<1>5. job[j].call # None BY <1>2, <1>4 DEF PlaceAt, BeforeLoop
<1>6. entry \in Entry BY <1>3, <1>4
<1>7. entry.content \in Contents /\ entry.scope \in Scope /\ Landing(j) \in Spaces
  BY <1>2, <1>5, <1>6, CallFacts DEF Entry
<1>8. EntryMetadata(entry) \in Metadata BY <1>6 DEF EntryMetadata, Metadata, Entry
<1>9. w.id = None =>
        AddEffect(i, Landing(j), entry.content, entry.scope, EntryMetadata(entry), w.system)
  BY <1>1
<1>10. w.id # None =>
         Owned(Landing(j), i) /\ UpdateEffect(i, entry.content, w.patch, w.system)
  BY <1>1
<1>11. job' = [job EXCEPT ![j] = came] /\ UNCHANGED faults BY <1>1, <1>2 DEF JobState
<1> HIDE DEF entry
<1>12. /\ StoreStep /\ TypeOK' /\ i \in Ids /\ i <= created'
       /\ store'[i] # None
       /\ store'[i].partition = Landing(j) /\ store'[i].system = w.system
       /\ store[i] # None =>
            /\ w.id # None /\ w.id = i /\ store[i].partition = Landing(j)
            /\ store'[i].metadata = Patched(store[i].metadata, w.patch)
       /\ \A q \in Ids \ {i} : store'[q] = store[q]
  <2>1. CASE w.id = None
    <3>1. i = created + 1 BY <2>1
    <3> HIDE DEF i
    <3>2. /\ StoreStep /\ TypeOK'
          /\ i \in Ids /\ created' = i /\ store[i] = None
          /\ store'[i] = NewMemory(Landing(j), entry.content, entry.scope,
                                   EntryMetadata(entry), w.system)
          /\ store'[i] # None
          /\ \A q \in Ids \ {i} : store'[q] = store[q]
      BY <1>2, <1>4, <1>7, <1>8, <1>9, <2>1, <3>1, AddStore
    <3>3. i <= created' BY <3>2 DEF Ids
    <3> QED BY <3>2, <3>3 DEF NewMemory
  <2>2. CASE w.id # None
    <3>1. i = w.id /\ i \in Ids BY <1>4, <2>2
    <3>2. store[i] # None /\ store[i].partition = Landing(j)
          /\ UpdateEffect(i, entry.content, w.patch, w.system)
      BY <1>10, <2>2 DEF Owned
    <3> HIDE DEF i
    <3>3. /\ StoreStep /\ TypeOK' /\ created' = created
          /\ store'[i] = [partition |-> store[i].partition, content |-> entry.content,
                          scope |-> store[i].scope,
                          metadata |-> Patched(store[i].metadata, w.patch),
                          system |-> w.system]
          /\ store'[i] # None
          /\ \A q \in Ids \ {i} : store'[q] = store[q]
      BY <1>2, <1>4, <1>7, <3>1, <3>2, UpdateStore
    <3>4. i <= created' BY <1>4, <2>2, <3>1, <3>3 DEF Lands
    <3> QED BY <2>2, <3>1, <3>2, <3>3, <3>4
  <2> QED BY <2>1, <2>2
<1> HIDE DEF i
<1>13. p \in Nat \X Ids /\ p[1] = w.entry /\ p[2] = i BY <1>4, <1>12
<1> HIDE DEF p
<1>14. /\ job'[j].step = job[j].step /\ job'[j].fetching = job[j].fetching
       /\ job'[j].wrote = job[j].wrote \cup {p} /\ job'[j].pending = job[j].pending \ {w}
       /\ SameCall(j) /\ SameIndex(j) /\ SameReport(j) /\ SameEnd(j)
  BY <1>2, <1>3, <1>11 DEF JobState, SameCall, SameIndex, SameReport, SameEnd
<1>15. came \in JobState
  <2>1. /\ job[j].wrote \cup {p} \in SUBSET (Nat \X Ids)
        /\ job[j].pending \ {w} \in SUBSET Sent
    BY <1>3, <1>13 DEF JobState
  <2> QED BY <1>3, <1>12, <2>1, WroteType
<1> HIDE DEF came
<1>16. job' \in [Jobs -> JobState] /\ \A q \in Jobs \ {j} : job'[q] = job[q]
  BY <1>2, <1>11, <1>15
<1>17. LateMove(j, w, i) BY <1>14 DEF LateMove, p
<1>18. PlaceAt(j)'
  BY <1>2, <1>14 DEF PlaceAt, BeforeLoop, SameCall, SameIndex, SameReport, SameEnd
<1>19. EntriesAt(j)' BY <1>2, <1>14 DEF EntriesAt, SameCall
<1>20. \A q : Lands(j, q) => Lands(j, q)' BY <1>2, <1>12, <1>14, LandsKept DEF SameCall
<1>21. \A n : n = i => Lands(j, n)' BY <1>12, <1>14 DEF Lands, Landing, SameCall
<1>22. \A q \in job'[j].wrote \cup job'[j].imported \cup job'[j].skipped : \A n :
         q[1] \in DOMAIN job'[j].entries /\ (n = q[2] => Lands(j, n)')
  BY <1>2, <1>4, <1>13, <1>14, <1>20, <1>21 DEF LandedAt, SameCall, SameReport
<1>23. LandedAt(j)'
  BY <1>2, <1>14, <1>20, <1>22 DEF LandedAt, Landing, SameCall, SameIndex, SameReport
<1>24. JobStep(j) BY <1>2, <1>11, <1>12, <1>16, <1>18, <1>19, <1>23 DEF JobStep
<1> QED BY <1>12, <1>17, <1>24 DEF WroteLate

\* What a job does at its own turn.
LEMMA JobMoves ==
  ASSUME TransferInv, NEW j \in Jobs,
         JobProceed(j) \/ StartJob(j) \/ EntryFails(j) \/ Interrupted(j)
  PROVE  JobStep(j) /\ JobMove(j)
<1>1. CASE StartJob(j)
  BY <1>1, StartJobStep DEF JobMove, StartJob
<1>2. CASE EntryFails(j) \/ RejectEntry(j) \/ OverwriteGone(j)
  BY <1>2, FailedEntryStep DEF JobMove, EntryFails, RejectEntry, OverwriteGone
<1>3. CASE Interrupted(j)
  BY <1>3, InterruptedStep DEF JobMove, Interrupted
<1>4. CASE ExportRead(j) \/ SourceRead(j) \/ IndexRead(j)
  BY <1>4, ExportReadStep, SourceReadStep, IndexReadStep
  DEF JobMove, ExportRead, SourceRead, IndexRead
<1>5. CASE ReadRefused(j) \/ FinishJob(j)
  BY <1>5, EndJobStep DEF JobMove, ReadRefused, FinishJob
<1>6. CASE SkipEntry(j)
  BY <1>6, SkipEntryStep DEF JobMove, SkipEntry
<1>7. CASE OverwriteEntry(j)
  BY <1>7, OverwriteEntryStep DEF JobMove
<1>8. CASE AddEntry(j)
  BY <1>8, AddEntryStep DEF JobMove
<1>9. CASE ReadBackEntry(j)
  BY <1>9, ReadBackEntryStep DEF JobMove
<1> QED BY <1>1, <1>2, <1>3, <1>4, <1>5, <1>6, <1>7, <1>8, <1>9 DEF JobProceed

\* Every step is one job's, at its turn or late, or one request's beside all jobs.
JobTurn(j) == JobStep(j) /\ JobMove(j) /\ UNCHANGED requestVars /\ Disturb({j})
LateTurn(j) == JobStep(j) /\ WroteLate(j) /\ UNCHANGED requestVars /\ Disturb({})
RequestTurn(r) == RequestStep(r) /\ UNCHANGED <<job, faults>> /\ Disturb({})

\* The steps of the specification are such steps.
LEMMA TransferStep ==
  ASSUME TransferInv, TransferNext
  PROVE  \/ \E j \in Jobs : JobTurn(j) \/ LateTurn(j)
         \/ \E r \in Requests : RequestTurn(r)
<1>1. PolicyInv BY DEF TransferInv
<1>2. ASSUME NEW j \in Jobs,
             \/ JobProgress(j)
             \/ /\ StartJob(j) \/ EntryFails(j) \/ Interrupted(j)
                /\ UNCHANGED requestVars
                /\ Disturb({j})
      PROVE  JobTurn(j)
  BY <1>2, JobMoves DEF JobTurn, JobProgress
<1>3. ASSUME NEW j \in Jobs, LateEntry(j) /\ UNCHANGED requestVars /\ Disturb({})
      PROVE  LateTurn(j)
  BY <1>3, LateEntryStep DEF LateTurn
<1>4. ASSUME PolicyNext /\ UNCHANGED <<job, faults>> /\ Disturb({})
      PROVE  \E r \in Requests : RequestTurn(r)
  BY <1>1, <1>4, NextStep DEF RequestTurn
<1> QED BY <1>2, <1>3, <1>4 DEF TransferNext

\* A step of a request keeps the invariant of all jobs.
LEMMA RequestTurnKeeps ==
  ASSUME TransferInv, NEW r \in Requests, RequestTurn(r)
  PROVE  TransferInv'
<1>1. PolicyInv' BY RequestKeepsInv DEF TransferInv, RequestTurn
<1>2. StoreStep /\ TypeOK' BY DEF RequestTurn, RequestStep, EffectOf
<1>3. \A j \in Jobs : PlaceAt(j)' /\ EntriesAt(j)' /\ LandedAt(j)'
  BY <1>2, OtherJobKept DEF RequestTurn
<1>4. job' = job /\ faults' = faults BY DEF RequestTurn
<1>5. disturbed' \in [Jobs -> SUBSET Ids]
  BY DEF RequestTurn, Disturb, Touched, TransferInv, TransferTypeOK
<1> QED BY <1>1, <1>2, <1>3, <1>4, <1>5 DEF TransferInv, TransferTypeOK

\* Every step keeps the invariant.
LEMMA TransferNextKeeps ==
  ASSUME TransferInv, [TransferNext]_allVars
  PROVE  TransferInv'
<1>1. CASE TransferNext
  <2>1. {} \in SUBSET Jobs /\ \A j \in Jobs : {j} \in SUBSET Jobs OBVIOUS
  <2>2. ASSUME NEW j \in Jobs, JobTurn(j) PROVE TransferInv'
    BY <2>1, <2>2, JobKeepsInv DEF JobTurn
  <2>3. ASSUME NEW j \in Jobs, LateTurn(j) PROVE TransferInv'
    BY <2>1, <2>3, JobKeepsInv DEF LateTurn
  <2> QED BY <1>1, <2>2, <2>3, TransferStep, RequestTurnKeeps
<1>2. CASE UNCHANGED allVars
  <2>1. UNCHANGED vars /\ UNCHANGED <<job, disturbed, faults>>
    BY <1>2 DEF allVars, transferVars
  <2>2. UNCHANGED backendVars BY <2>1 DEF vars
  <2>3. PolicyInv' BY <2>1, StutterKeepsInv DEF TransferInv
  <2>4. StoreStep /\ TypeOK' BY <2>2, QuietStore DEF TransferInv
  <2>5. \A j \in Jobs : PlaceAt(j)' /\ EntriesAt(j)' /\ LandedAt(j)'
    BY <2>1, <2>4, OtherJobKept
  <2> QED BY <2>1, <2>3, <2>4, <2>5 DEF TransferInv, TransferTypeOK
<1> QED BY <1>1, <1>2

\* It holds before the first job starts.
LEMMA TransferInitInv ==
  ASSUME TransferInit
  PROVE  TransferInv
<1>1. PolicyInv BY InitInv DEF TransferInit
<1>2. /\ job = [j \in Jobs |-> IdleJob] /\ disturbed = [j \in Jobs |-> {}] /\ faults = 0
  BY DEF TransferInit
<1>3. IdleJob \in JobState
  <2>1. /\ NoIndex \in [Identities -> Known \cup {None}]
        /\ Nothing \in [Ids -> Memory \cup {None}] /\ <<>> \in Seq(Entry)
    BY DEF NoIndex, Nothing
  <2> QED BY <2>1 DEF IdleJob, JobState
<1>4. TransferTypeOK
  BY <1>1, <1>2, <1>3, JobAssumption DEF TransferTypeOK, PolicyInv, PolicyTypeOK
<1>5. ASSUME NEW j \in Jobs PROVE PlaceAt(j) /\ EntriesAt(j) /\ LandedAt(j)
  <2>1. /\ job[j].step = "idle" /\ job[j].call = None /\ job[j].entries = <<>>
        /\ job[j].at = 1 /\ job[j].index = NoIndex /\ job[j].fetching = None
        /\ job[j].imported = {} /\ job[j].skipped = {} /\ job[j].errors = {}
        /\ job[j].pending = {} /\ job[j].wrote = {} /\ job[j].outcome = None
    BY <1>2 DEF IdleJob
  <2> QED BY <2>1 DEF PlaceAt, BeforeLoop, EntriesAt, LandedAt, NoIndex
<1> QED BY <1>1, <1>4, <1>5 DEF TransferInv

\* In every behaviour of jobs beside requests, a job stays in the space it lands in and
\* sends only what its entries say (transfer.py 62-75, 181-293).
THEOREM TransferInvCorrect == TransferSpec => []TransferInv
<1>1. TransferInit => TransferInv BY TransferInitInv
<1>2. TransferInv /\ [TransferNext]_allVars => TransferInv' BY TransferNextKeeps
<1> QED BY <1>1, <1>2, PTL DEF TransferSpec

\* Every job stays where the code can be, and what it reports is well formed
\* (transfer.py 62-75, 181-293).
THEOREM TransferTypeCorrect == TransferSpec => []TransferTypeOK
<1>1. TransferInv => TransferTypeOK BY DEF TransferInv
<1> QED BY <1>1, TransferInvCorrect, PTL

(***************************************************************************)
(* The report: each entry in exactly one part, each write accounted for.   *)
(***************************************************************************)

\* The entry numbers of a part of the report, with one entry more.
LEMMA NumbersOf ==
  ASSUME NEW P, NEW n, NEW i
  PROVE  Numbers(P \cup {<<n, i>>}) = Numbers(P) \cup {n}
<1>1. <<n, i>>[1] = n OBVIOUS
<1>2. Numbers(P \cup {<<n, i>>}) = {p[1] : p \in P} \cup {<<n, i>>[1]} BY DEF Numbers
<1> QED BY <1>1, <1>2 DEF Numbers

\* The fields of the report, after each move of a job.
LEMMA ReportMoves ==
  ASSUME TransferInv, NEW j \in Jobs, JobTurn(j) \/ LateTurn(j)
  PROVE  \/ SameReport(j)
         \/ /\ InLoop(j) \/ job[j].step = "readback"
            /\ job'[j].at = job[j].at + 1 /\ job'[j].step = "entries"
            /\ \E i : LET p == <<job[j].at, i>>
                      IN \/ /\ job'[j].imported = job[j].imported \cup {p}
                            /\ job'[j].skipped = job[j].skipped
                            /\ job'[j].errors = job[j].errors
                         \/ /\ job'[j].imported = job[j].imported
                            /\ job'[j].skipped = job[j].skipped \cup {p}
                            /\ job'[j].errors = job[j].errors
                         \/ /\ job'[j].imported = job[j].imported
                            /\ job'[j].skipped = job[j].skipped
                            /\ job'[j].errors = job[j].errors \cup {job[j].at}
BY DEF JobTurn, LateTurn, JobMove, WroteLate, StartMove, ReadMove, BackMove, EndMove,
       ErrorMove, SkipMove, RewriteMove, InsertMove, RecordMove, AddMove, LateMove

\* A job that has ended well is one whose loop has just ended, or had ended before.
LEMMA FinishMoves ==
  ASSUME TransferInv, NEW j \in Jobs, JobTurn(j) \/ LateTurn(j), Finished(j)'
  PROVE  /\ SameCall(j) /\ SameReport(j)
         /\ \/ job[j].at > Len(job[j].entries) /\ job'[j].count = Cardinality(job[j].imported)
            \/ Finished(j) /\ job'[j].count = job[j].count
<1>1. job'[j].step = "done" /\ job'[j].outcome = "ok" /\ job'[j].call.kind # "export"
  BY DEF Finished
<1>2. CASE LateTurn(j)
  BY <1>1, <1>2 DEF LateTurn, WroteLate, LateMove, SameEnd, SameCall, Finished
<1>3. CASE JobTurn(j)
  <2>1. ~StartMove(j) BY <1>1 DEF StartMove
  <2>2. ~ReadMove(j)
    <3>1. job[j].step = "export" => job[j].call.kind = "export"
      BY DEF TransferInv, PlaceAt
    <3> QED BY <1>1, <3>1 DEF ReadMove
  <2>3. PICK sent : EndMove(j, sent)
    BY <1>1, <1>3, <2>1, <2>2
    DEF JobTurn, JobMove, BackMove, ErrorMove, SkipMove, RewriteMove, InsertMove, RecordMove,
        AddMove
  <2> QED BY <1>1, <2>3 DEF EndMove
<1> QED BY <1>2, <1>3

\* A job's tally grows by the entry it passes.
LEMMA TalliedStep ==
  ASSUME TransferInv, NEW j \in Jobs, TalliedAt(j), JobTurn(j) \/ LateTurn(j)
  PROVE  TalliedAt(j)'
<1> DEFINE a == job[j].at
           I == Numbers(job[j].imported)
           S == Numbers(job[j].skipped)
           E == job[j].errors
<1>1. /\ a \in 1..(Len(job[j].entries) + 1) /\ a \in Nat /\ Len(job[j].entries) \in Nat
  <2>1. job[j] \in JobState /\ PlaceAt(j) BY DEF TransferInv, TransferTypeOK
  <2>2. job[j].entries \in Seq(Entry) BY <2>1 DEF JobState
  <2>3. Len(job[j].entries) \in Nat BY <2>2
  <2>4. a \in 1..(Len(job[j].entries) + 1) BY <2>1 DEF PlaceAt
  <2> QED BY <2>3, <2>4
<1>2. /\ I \cup S \cup E = 1..(a - 1)
      /\ I \cap S = {} /\ I \cap E = {} /\ S \cap E = {}
      /\ \A p, q \in job[j].imported : p[1] = q[1] => p = q
      /\ Finished(j) => a = Len(job[j].entries) + 1 /\ job[j].count = Cardinality(job[j].imported)
  BY DEF TalliedAt
<1>3. Finished(j)' => /\ job'[j].at = Len(job'[j].entries) + 1
                      /\ job'[j].count = Cardinality(job'[j].imported)
  <2> SUFFICES ASSUME Finished(j)' PROVE
        /\ job'[j].at = Len(job'[j].entries) + 1
        /\ job'[j].count = Cardinality(job'[j].imported)
    OBVIOUS
  <2>1. /\ job'[j].at = a /\ job'[j].entries = job[j].entries
        /\ job'[j].imported = job[j].imported
        /\ \/ a > Len(job[j].entries) /\ job'[j].count = Cardinality(job[j].imported)
           \/ Finished(j) /\ job'[j].count = job[j].count
    BY FinishMoves DEF SameCall, SameReport
  <2> HIDE DEF a
  <2> QED BY <1>1, <1>2, <2>1
<1>4. CASE SameReport(j)
  BY <1>2, <1>3, <1>4 DEF TalliedAt, SameReport
<1>5. CASE ~SameReport(j)
  <2>1. PICK i : LET p == <<a, i>>
                 IN \/ /\ job'[j].imported = job[j].imported \cup {p}
                       /\ job'[j].skipped = job[j].skipped
                       /\ job'[j].errors = E
                    \/ /\ job'[j].imported = job[j].imported
                       /\ job'[j].skipped = job[j].skipped \cup {p}
                       /\ job'[j].errors = E
                    \/ /\ job'[j].imported = job[j].imported
                       /\ job'[j].skipped = job[j].skipped
                       /\ job'[j].errors = E \cup {a}
    BY <1>5, ReportMoves
  <2>2. job'[j].at = a + 1 BY <1>5, ReportMoves
  <2> DEFINE p == <<a, i>>
             I1 == Numbers(job'[j].imported)
             S1 == Numbers(job'[j].skipped)
             E1 == job'[j].errors
  <2>3. \/ I1 = I \cup {a} /\ S1 = S /\ E1 = E
        \/ I1 = I /\ S1 = S \cup {a} /\ E1 = E
        \/ I1 = I /\ S1 = S /\ E1 = E \cup {a}
    <3>1. /\ Numbers(job[j].imported \cup {p}) = I \cup {a}
          /\ Numbers(job[j].skipped \cup {p}) = S \cup {a}
      BY NumbersOf
    <3> QED BY <2>1, <3>1
  <2>4. \A q \in job[j].imported : q[1] \in I BY DEF Numbers
  <2>5. p[1] = a OBVIOUS
  <2>6. job'[j].imported = job[j].imported \/ job'[j].imported = job[j].imported \cup {p}
    BY <2>1
  <2> HIDE DEF a, I, S, E, I1, S1, E1, p
  <2>7. 1..((a + 1) - 1) = 1..(a - 1) \cup {a} /\ a \notin 1..(a - 1) BY <1>1
  <2>8. a \notin I /\ a \notin S /\ a \notin E BY <1>2, <2>7
  <2>9. I1 \cup S1 \cup E1 = 1..((a + 1) - 1) BY <1>2, <2>3, <2>7
  <2>10. I1 \cap S1 = {} /\ I1 \cap E1 = {} /\ S1 \cap E1 = {} BY <1>2, <2>3, <2>8
  <2>11. \A q, r \in job'[j].imported : q[1] = r[1] => q = r
    BY <1>2, <2>4, <2>5, <2>6, <2>8
  <2> QED BY <1>3, <2>2, <2>9, <2>10, <2>11 DEF TalliedAt, I1, S1, E1
<1> QED BY <1>4, <1>5

\* No write goes unreported, neither a job's own nor one that comes late.
LEMMA ReportedStep ==
  ASSUME TransferInv, NEW j \in Jobs, ReportedAt(j), JobTurn(j) \/ LateTurn(j)
  PROVE  ReportedAt(j)'
<1>1. /\ \A w \in job[j].wrote :
           \/ w \in job[j].imported \/ w[1] \in job[j].errors \/ Failed(j)
           \/ job[j].step = "readback" /\ w = <<job[j].at, job[j].fetching>>
      /\ \A w \in job[j].pending : w.entry \in job[j].errors \/ Failed(j)
  BY DEF ReportedAt
<1>2. CASE LateTurn(j)
  <2>1. PICK w \in job[j].pending, i \in Ids : LateMove(j, w, i)
    BY <1>2 DEF LateTurn, WroteLate
  <2>2. /\ job'[j].wrote = job[j].wrote \cup {<<w.entry, i>>}
        /\ job'[j].pending \subseteq job[j].pending
        /\ job'[j].imported = job[j].imported /\ job'[j].errors = job[j].errors
        /\ job'[j].step = job[j].step /\ job'[j].outcome = job[j].outcome
        /\ job'[j].at = job[j].at /\ job'[j].fetching = job[j].fetching
    BY <2>1 DEF LateMove, SameReport, SameEnd
  <2>3. Failed(j)' <=> Failed(j) BY <2>2 DEF Failed
  <2> QED BY <1>1, <2>2, <2>3 DEF ReportedAt
<1>3. CASE JobTurn(j)
  <2>1. JobMove(j) BY <1>3 DEF JobTurn
  <2>2. PlaceAt(j) BY DEF TransferInv
  <2>3. CASE StartMove(j) \/ ReadMove(j)
    <3>1. job[j].wrote = {} /\ job[j].pending = {}
      BY <2>2, <2>3 DEF StartMove, ReadMove, PlaceAt, BeforeLoop
    <3>2. job'[j].wrote = {} /\ job'[j].pending = {}
      BY <2>3, <3>1 DEF StartMove, ReadMove, SameWrites
    <3> QED BY <3>2 DEF ReportedAt
  <2>4. ASSUME NEW sent \in SUBSET SentWrite(j), EndMove(j, sent) PROVE ReportedAt(j)'
    <3>1. CASE job'[j].outcome = "ok"
      <4>1. /\ job[j].step = "entries" /\ job[j].at > Len(job[j].entries)
            /\ job'[j].wrote = job[j].wrote /\ job'[j].imported = job[j].imported
            /\ job'[j].errors = job[j].errors /\ job'[j].pending = job[j].pending \cup sent
        BY <2>4, <3>1 DEF EndMove, SameReport
      <4>2. sent = {}
        <5>1. ~InLoop(j)
          BY <4>1 DEF InLoop, TransferInv, TransferTypeOK, JobState
        <5> QED BY <5>1, SentWriteFacts
      <4>3. ~Failed(j) BY <4>1 DEF Failed
      <4> QED BY <1>1, <4>1, <4>2, <4>3 DEF ReportedAt
    <3>2. CASE job'[j].outcome # "ok"
      <4>1. Failed(j)' BY <2>4, <3>2 DEF EndMove, Failed
      <4> QED BY <4>1 DEF ReportedAt
    <3> QED BY <3>1, <3>2
  <2>5. ASSUME NEW sent \in SUBSET SentWrite(j), ErrorMove(j, sent) PROVE ReportedAt(j)'
    <3>1. \A w \in sent : w.entry = job[j].at BY SentWriteFacts
    <3>2. /\ job'[j].wrote = job[j].wrote /\ job'[j].imported = job[j].imported
          /\ job'[j].errors = job[j].errors \cup {job[j].at}
          /\ job'[j].pending = job[j].pending \cup sent
          /\ job[j].step # "done"
      BY <2>5 DEF ErrorMove, InLoop
    <3>3. ~Failed(j) BY <3>2 DEF Failed
    <3>4. \A f : <<job[j].at, f>>[1] = job[j].at OBVIOUS
    <3> QED BY <1>1, <3>1, <3>2, <3>3, <3>4 DEF ReportedAt
  <2>6. CASE SkipMove(j, Duplicate(j, This(j)).id)
    <3>1. /\ job'[j].wrote = job[j].wrote /\ job'[j].imported = job[j].imported
          /\ job'[j].errors = job[j].errors /\ job'[j].pending = job[j].pending
          /\ job[j].step = "entries"
      BY <2>6 DEF SkipMove, InLoop, SameWrites
    <3>2. ~Failed(j) BY <3>1 DEF Failed
    <3> QED BY <1>1, <3>1, <3>2 DEF ReportedAt
  <2>7. ASSUME NEW i, NEW m, RecordMove(j, i, m), job[j].step = "readback" => i = job[j].fetching
        PROVE  ReportedAt(j)'
    <3>1. /\ job'[j].wrote = job[j].wrote \cup {<<job[j].at, i>>}
          /\ job'[j].imported = job[j].imported \cup {<<job[j].at, i>>}
          /\ job'[j].errors = job[j].errors /\ job'[j].pending = job[j].pending
          /\ job[j].step # "done"
      BY <2>7 DEF RecordMove, InLoop
    <3>2. ~Failed(j) BY <3>1 DEF Failed
    <3> QED BY <1>1, <2>7, <3>1, <3>2 DEF ReportedAt
  <2>8. CASE RewriteMove(j)
    <3>1. job[j].step # "readback" BY <2>8 DEF RewriteMove, InLoop
    <3> QED BY <2>7, <2>8, <3>1 DEF RewriteMove
  <2>9. CASE BackMove(j)
    BY <2>7, <2>9 DEF BackMove
  <2>10. CASE InsertMove(j)
    <3>1. /\ job'[j].wrote = job[j].wrote \cup {<<job[j].at, created + 1>>}
          /\ job'[j].imported = job[j].imported /\ job'[j].errors = job[j].errors
          /\ job'[j].pending = job[j].pending /\ job'[j].step = "readback"
          /\ job'[j].at = job[j].at /\ job'[j].fetching = created + 1
          /\ job[j].step = "entries"
      BY <2>10 DEF InsertMove, AddMove, InLoop, SameReport
    <3>2. ~Failed(j) BY <3>1 DEF Failed
    <3> QED BY <1>1, <3>1, <3>2 DEF ReportedAt
  <2> QED BY <2>1, <2>3, <2>4, <2>5, <2>6, <2>8, <2>9, <2>10 DEF JobMove
<1> QED BY <1>2, <1>3

\* A step leaves the jobs it is not a step of.
LEMMA StillJobs ==
  ASSUME NEW k \in Jobs, ~JobTurn(k), ~LateTurn(k),
         \/ \E j \in Jobs : JobTurn(j) \/ LateTurn(j)
         \/ \E r \in Requests : RequestTurn(r)
  PROVE  job'[k] = job[k]
BY DEF JobTurn, LateTurn, JobStep, RequestTurn

\* A job's report does not change but by its own steps.
LEMMA ReportKeeps ==
  ASSUME TransferInv, Tallied, Reported, [TransferNext]_allVars
  PROVE  Tallied' /\ Reported'
<1> SUFFICES ASSUME NEW k \in Jobs PROVE TalliedAt(k)' /\ ReportedAt(k)'
  BY DEF Tallied, Reported
<1>1. TalliedAt(k) /\ ReportedAt(k) BY DEF Tallied, Reported
<1>2. CASE JobTurn(k) \/ LateTurn(k) BY <1>1, <1>2, TalliedStep, ReportedStep
<1>3. CASE ~JobTurn(k) /\ ~LateTurn(k)
  <2>1. job'[k] = job[k]
    BY <1>3, TransferStep, StillJobs DEF allVars, transferVars
  <2> QED BY <1>1, <2>1 DEF TalliedAt, ReportedAt, Finished, Failed
<1> QED BY <1>2, <1>3

\* Entries that are each reported once are counted by their numbers.
LEMMA CountedOnce ==
  ASSUME NEW P, IsFiniteSet(P), \A p, q \in P : p[1] = q[1] => p = q
  PROVE  Cardinality(Numbers(P)) = Cardinality(P)
<1> DEFINE f == [p \in P |-> p[1]]
<1>1. f \in [P -> Numbers(P)] BY DEF Numbers
<1>2. f \in Injection(P, Numbers(P)) BY <1>1 DEF Injection, IsInjective
<1>3. f \in Surjection(P, Numbers(P)) BY <1>1 DEF Surjection, Numbers
<1>4. ExistsBijection(P, Numbers(P)) BY <1>2, <1>3 DEF ExistsBijection, Bijection
<1> QED BY <1>4, FS_Bijection

\* Before a job starts there is nothing to account for.
LEMMA ReportInit ==
  ASSUME TransferInit
  PROVE  Tallied /\ Reported
<1> SUFFICES ASSUME NEW j \in Jobs PROVE TalliedAt(j) /\ ReportedAt(j)
  BY DEF Tallied, Reported
<1>1. /\ job[j].step = "idle" /\ job[j].at = 1 /\ job[j].imported = {}
      /\ job[j].skipped = {} /\ job[j].errors = {} /\ job[j].pending = {}
      /\ job[j].wrote = {}
  BY DEF TransferInit, IdleJob
<1>2. 1..(1 - 1) = {} OBVIOUS
<1> QED BY <1>1, <1>2 DEF TalliedAt, ReportedAt, Numbers, Finished

\* The account holds in every behaviour.
LEMMA ReportCorrect == TransferSpec => [](TransferInv /\ Tallied /\ Reported)
<1>1. TransferInit => TransferInv /\ Tallied /\ Reported BY TransferInitInv, ReportInit
<1>2. TransferInv /\ Tallied /\ Reported /\ [TransferNext]_allVars =>
        (TransferInv /\ Tallied /\ Reported)'
  BY TransferNextKeeps, ReportKeeps
<1> QED BY <1>1, <1>2, PTL DEF TransferSpec

\* When an import or migration ends, each entry is in exactly one of imported, skipped
\* and errors, and the audit record counts the imported ones, whatever failed on the way
\* (transfer.py 198-286, policy/__init__.py 374).
THEOREM EntriesAccountedCorrect == TransferSpec => []EntriesAccounted
<1>1. TransferInv /\ Tallied => EntriesAccounted
  <2> SUFFICES ASSUME TransferInv, Tallied, NEW j \in Jobs, Finished(j)
               PROVE  LET parts == <<Numbers(job[j].imported), Numbers(job[j].skipped),
                                     job[j].errors>>
                      IN /\ UNION Range(parts) = 1..Len(job[j].entries)
                         /\ \A a, b \in 1..3 : a # b => parts[a] \cap parts[b] = {}
                         /\ job[j].count = Cardinality(parts[1])
    BY DEF EntriesAccounted
  <2> DEFINE I == Numbers(job[j].imported)
             S == Numbers(job[j].skipped)
             E == job[j].errors
             parts == <<I, S, E>>
  <2>1. /\ I \cup S \cup E = 1..(job[j].at - 1)
        /\ I \cap S = {} /\ I \cap E = {} /\ S \cap E = {}
        /\ \A p, q \in job[j].imported : p[1] = q[1] => p = q
        /\ job[j].at = Len(job[j].entries) + 1
        /\ job[j].count = Cardinality(job[j].imported)
    BY DEF Tallied, TalliedAt
  <2>2. Len(job[j].entries) \in Nat
    <3>1. job[j].entries \in Seq(Entry) BY DEF TransferInv, TransferTypeOK, JobState
    <3> QED BY <3>1
  <2>3. 1..(job[j].at - 1) = 1..Len(job[j].entries) BY <2>1, <2>2
  <2>4. Cardinality(job[j].imported) = Cardinality(I) BY <2>1, ImportedFinite, CountedOnce
  <2> HIDE DEF I, S, E
  <2>5. /\ DOMAIN parts = 1..3 /\ parts[1] = I /\ parts[2] = S /\ parts[3] = E
    OBVIOUS
  <2>6. Range(parts) = {I, S, E}
    <3>1. 1..3 = {1, 2, 3} OBVIOUS
    <3>2. Range(parts) = {parts[x] : x \in {1, 2, 3}} BY <2>5, <3>1 DEF Range
    <3> HIDE DEF parts
    <3> QED BY <2>5, <3>2
  <2>7. UNION Range(parts) = I \cup S \cup E BY <2>6
  <2>8. \A a, b \in 1..3 : a # b => parts[a] \cap parts[b] = {}
    <3> HIDE DEF parts
    <3>1. \A a \in 1..3 : a = 1 \/ a = 2 \/ a = 3 OBVIOUS
    <3> QED BY <2>1, <2>5, <3>1
  <2>9. /\ UNION Range(parts) = 1..Len(job[j].entries)
        /\ \A a, b \in 1..3 : a # b => parts[a] \cap parts[b] = {}
        /\ job[j].count = Cardinality(parts[1])
    <3> HIDE DEF parts
    <3> QED BY <2>1, <2>3, <2>4, <2>5, <2>7, <2>8
  <2> QED BY <2>9 DEF I, S, E
<1> QED BY <1>1, ReportCorrect, PTL

\* Nothing is stored silently: a memory an ended import wrote is reported imported, or
\* its entry is reported as an error (transfer.py 271-286).
THEOREM NoSilentWritesCorrect == TransferSpec => []NoSilentWrites
<1>1. Reported => NoSilentWrites
  BY DEF Reported, ReportedAt, NoSilentWrites, Finished, Failed
<1> QED BY <1>1, ReportCorrect, PTL

(***************************************************************************)
(* Where jobs write, and what an export holds.                             *)
(***************************************************************************)

\* A job writes in the partition it lands in alone, and what it writes records that
\* space: migrated memories too, which carry the source's (transfer.py 340-343).
THEOREM JobsStayInSpaceCorrect == TransferSpec => JobsStayInSpace
<1> DEFINE Stays == \A j \in Jobs : \A p \in job'[j].wrote \ job[j].wrote :
       /\ store'[p[2]].partition = Landing(j)
       /\ store'[p[2]].system.space = Landing(j)
       /\ store[p[2]] # None => store[p[2]].partition = Landing(j)
<1>1. ASSUME TransferInv, TransferNext PROVE Stays
  <2> SUFFICES ASSUME NEW j \in Jobs, NEW p \in job'[j].wrote \ job[j].wrote
               PROVE  /\ store'[p[2]].partition = Landing(j)
                      /\ store'[p[2]].system.space = Landing(j)
                      /\ store[p[2]] # None => store[p[2]].partition = Landing(j)
    OBVIOUS
  <2>1. PlaceAt(j) /\ LandedAt(j) /\ job \in [Jobs -> JobState]
    BY <1>1 DEF TransferInv, TransferTypeOK
  <2>2. JobTurn(j) \/ LateTurn(j) BY <1>1, TransferStep, StillJobs
  <2>3. CASE LateTurn(j)
    <3>1. PICK w \in job[j].pending, i \in Ids :
            /\ LateMove(j, w, i)
            /\ store'[i].partition = Landing(j) /\ store'[i].system = w.system
            /\ store[i] # None => store[i].partition = Landing(j)
      BY <2>3 DEF LateTurn, WroteLate
    <3>2. p = <<w.entry, i>> BY <3>1 DEF LateMove
    <3>3. p[2] = i BY <3>2
    <3> QED BY <2>1, <3>1, <3>3 DEF LandedAt
  <2>4. CASE JobTurn(j)
    <3>1. RewriteMove(j) \/ InsertMove(j)
      <4>1. ~BackMove(j)
        <5>1. BackMove(j) => job'[j].wrote = job[j].wrote \cup {<<job[j].at, job[j].fetching>>}
          BY DEF BackMove, RecordMove
        <5> QED BY <2>1, <5>1 DEF BackMove, PlaceAt
      <4> QED BY <2>4, <4>1 DEF JobTurn, JobMove, StartMove, ReadMove, EndMove, ErrorMove,
                             SkipMove, SameWrites
    <3>2. InLoop(j) BY <3>1 DEF RewriteMove, InsertMove, Creates
    <3>3. /\ job[j].call # None /\ This(j) \in Entry
          /\ job[j].call.kind = "migrate" => This(j).system \in System
      BY <1>1, <3>2, EntryFacts
    <3>4. \A known \in Known \cup {None} : Stamp(j, This(j), known).space = Landing(j)
      BY <2>1, <3>3, StampFacts
    <3>5. CASE RewriteMove(j)
      <4> DEFINE i == Duplicate(j, This(j)).id
      <4>1. /\ job'[j].wrote = job[j].wrote \cup {<<job[j].at, i>>}
            /\ Duplicate(j, This(j)) \in Known
            /\ store'[i].partition = Landing(j)
            /\ store'[i].system = Stamp(j, This(j), Duplicate(j, This(j)))
            /\ store[i].partition = Landing(j)
        BY <3>5 DEF RewriteMove, RecordMove
      <4> HIDE DEF i
      <4>2. p = <<job[j].at, i>> BY <4>1
      <4>3. p[2] = i BY <4>2
      <4> QED BY <3>4, <4>1, <4>3
    <3>6. CASE InsertMove(j)
      <4> DEFINE i == created + 1
      <4>1. /\ job'[j].wrote = job[j].wrote \cup {<<job[j].at, i>>}
            /\ store[i] = None
            /\ store'[i].partition = Landing(j)
            /\ store'[i].system = Stamp(j, This(j), None)
        BY <3>6 DEF InsertMove, AddMove, NewMemory
      <4> HIDE DEF i
      <4>2. p = <<job[j].at, i>> BY <4>1
      <4>3. p[2] = i BY <4>2
      <4> QED BY <3>4, <4>1, <4>3
    <3> QED BY <3>1, <3>5, <3>6
  <2> QED BY <2>2, <2>3, <2>4
<1>2. UNCHANGED allVars => Stays BY DEF allVars, transferVars
<1>3. TransferInv /\ [TransferNext]_allVars => [Stays]_allVars BY <1>1, <1>2
<1> QED BY <1>3, TransferInvCorrect, PTL DEF TransferSpec, JobsStayInSpace

\* An export holds memories of the caller's space alone, and every one of them unless
\* it says it was truncated (transfer.py 89-129).
THEOREM ExportCompleteCorrect == TransferSpec => ExportComplete
<1> DEFINE Whole == \A j \in Jobs : ExportRead(j) =>
       LET shown == {i \in Ids : job'[j].exported[i] # None}
       IN /\ shown \subseteq Own(Landing(j))
          /\ ~job'[j].partial => shown = Own(Landing(j))
          /\ \A i \in shown : store[i].system.space \in {None, Landing(j)}
<1>1. ASSUME TransferInv PROVE Whole
  <2> SUFFICES ASSUME NEW j \in Jobs, ExportRead(j)
               PROVE  LET shown == {i \in Ids : job'[j].exported[i] # None}
                      IN /\ shown \subseteq Own(Landing(j))
                         /\ ~job'[j].partial => shown = Own(Landing(j))
                         /\ \A i \in shown : store[i].system.space \in {None, Landing(j)}
    OBVIOUS
  <2> DEFINE own == Own(Landing(j))
             listed == Listed(Landing(j))
             kept == FirstOf(listed, ListLimit)
             shown == {i \in Ids : job'[j].exported[i] # None}
  <2>1. /\ AllInSpace(Landing(j))
        /\ job' = [job EXCEPT ![j].step = "done", ![j].outcome = "ok",
                              ![j].exported = Show(kept), ![j].partial = Missed(Landing(j)),
                              ![j].count = Cardinality(kept)]
    BY DEF ExportRead
  <2>2. job \in [Jobs -> JobState] BY <1>1 DEF TransferInv, TransferTypeOK
  <2>3. job'[j].exported = Show(kept) /\ job'[j].partial = Missed(Landing(j))
    BY <2>1, <2>2 DEF JobState
  <2>4. own \in SUBSET Ids /\ own \in SUBSET Stored /\ listed \in SUBSET own
    BY ListedFacts
  <2>5. kept \in SUBSET listed BY <2>4, ListedFacts
  <2>6. shown = kept
    <3>1. \A i \in Ids : job'[j].exported[i] = IF i \in kept THEN store[i] ELSE None
      BY <2>3 DEF Show
    <3>2. \A i \in kept : i \in Ids /\ store[i] # None BY <2>4, <2>5 DEF Stored
    <3> HIDE DEF kept
    <3> QED BY <3>1, <3>2
  <2>7. ASSUME ~Missed(Landing(j)) PROVE kept = own
    <3>1. Cardinality(listed) <= ListLimit
      <4>1. Cardinality(listed) \in Nat BY <2>4, IdsCount
      <4> QED BY <2>7, <4>1, JobAssumption DEF Missed
    <3>2. listed = FirstOf(own, ListLimit + 1) BY DEF Listed
    <3>3. ListLimit \in Nat BY JobAssumption
    <3> HIDE DEF own, listed
    <3> QED BY <2>4, <3>1, <3>2, <3>3, FirstOfAll
  <2>8. \A i \in kept : store[i].system.space \in {None, Landing(j)}
    BY <2>1, <2>5 DEF AllInSpace, InSpace
  <2> HIDE DEF own, listed, kept
  <2>9. /\ shown \subseteq own
        /\ ~job'[j].partial => shown = own
        /\ \A i \in shown : store[i].system.space \in {None, Landing(j)}
    BY <2>3, <2>4, <2>5, <2>6, <2>7, <2>8
  <2> QED BY <2>9 DEF own
<1>2. TransferInv => [Whole]_allVars BY <1>1
<1> QED BY <1>2, TransferInvCorrect, PTL DEF TransferSpec, ExportComplete

(***************************************************************************)
(* What a job knows of the store stays so, but for what others changed.    *)
(***************************************************************************)

\* A memory keeps its partition, content and scope through a step.
SameIdentity(i) ==
  /\ store'[i] # None
  /\ store'[i].partition = store[i].partition
  /\ Identity(store'[i]) = Identity(store[i])

\* What a job reports goes on holding while the memory keeps its identity.
LEMMA HeldStill ==
  ASSUME NEW j \in Jobs, KnownAt(j), SameCall(j),
         NEW p \in job[j].skipped \cup job[j].imported, p[2] \notin disturbed[j],
         store[p[2]] # None => SameIdentity(p[2])
  PROVE  HeldAs(j, p[1], p[2])'
<1>1. HeldAs(j, p[1], p[2]) BY DEF KnownAt
<1> QED BY <1>1 DEF HeldAs, SameIdentity, SameCall, Landing

\* So does what its index says, while the memory stays as it is.
LEMMA KnownStill ==
  ASSUME NEW j \in Jobs, KnownAt(j), SameCall(j), NEW k \in Identities,
         NEW known, known = job[j].index[k], known # None, known.id \notin disturbed[j],
         store[known.id] # None => store'[known.id] = store[known.id]
  PROVE  KnownAs(j, k, known)'
<1>1. KnownAs(j, k, known) BY DEF KnownAt
<1> QED BY <1>1 DEF KnownAs, Owned, SameCall, Landing

\* A job stamps an entry the same way to its end.
LEMMA StampStill ==
  ASSUME NEW j \in Jobs, SameCall(j)
  PROVE  \A entry, known : Stamp(j, entry, known)' = Stamp(j, entry, known)
BY DEF Stamp, SameCall

\* An imported memory goes on as it was stored.
LEMMA ImportedStill ==
  ASSUME NEW j \in Jobs, KnownAt(j), ImportedAt(j), SameCall(j),
         NEW p \in job[j].imported, p[2] \notin disturbed[j], LastFor(j, p[1], p[2]),
         store[p[2]] # None => store'[p[2]] = store[p[2]]
  PROVE  ImportedAs(j, p[1], p[2])'
<1>1. HeldAs(j, p[1], p[2]) /\ ImportedAs(j, p[1], p[2]) BY DEF KnownAt, ImportedAt
<1>2. store'[p[2]] = store[p[2]] BY <1>1 DEF HeldAs
<1> QED BY <1>1, <1>2, StampStill DEF ImportedAs, SameCall

\* A job whose report and index do not move goes on knowing what it knew.
LEMMA KnownSame ==
  ASSUME TransferInv, NEW j \in Jobs, KnownAt(j), ImportedAt(j), SameCall(j),
         job'[j].index = job[j].index, job'[j].imported = job[j].imported,
         job'[j].skipped = job[j].skipped,
         \A i \in Ids \ disturbed'[j] :
           i \notin disturbed[j] /\ (store[i] # None => store'[i] = store[i]),
         job'[j].step = "readback" /\ job'[j].fetching \notin disturbed'[j] =>
           AddedAs(j, job[j].at, job[j].fetching)'
  PROVE  KnownAt(j)' /\ ImportedAt(j)'
<1>1. job[j] \in JobState BY DEF TransferInv, TransferTypeOK
<1>2. \A p \in job[j].skipped \cup job[j].imported : p[2] \in Ids BY <1>1 DEF JobState
<1>3. \A k \in Identities : job[j].index[k] # None => job[j].index[k].id \in Ids
  BY <1>1 DEF JobState, Known
<1>4. ASSUME NEW p \in job'[j].skipped \cup job'[j].imported, p[2] \notin disturbed'[j]
      PROVE  HeldAs(j, p[1], p[2])'
  <2>1. p \in job[j].skipped \cup job[j].imported /\ p[2] \notin disturbed[j]
        /\ (store[p[2]] # None => store'[p[2]] = store[p[2]])
    BY <1>2, <1>4
  <2>2. store[p[2]] # None => SameIdentity(p[2]) BY <2>1 DEF SameIdentity
  <2> QED BY <2>1, <2>2, HeldStill
<1>5. ASSUME NEW k \in Identities, NEW known, known = job'[j].index[k], known # None,
             known.id \notin disturbed'[j]
      PROVE  KnownAs(j, k, known)'
  <2>1. known = job[j].index[k] /\ known.id \in Ids BY <1>3, <1>5
  <2> QED BY <1>5, <2>1, KnownStill
<1>6. ASSUME NEW p \in job'[j].imported, p[2] \notin disturbed'[j], LastFor(j, p[1], p[2])'
      PROVE  ImportedAs(j, p[1], p[2])'
  <2>1. p \in job[j].imported /\ p[2] \notin disturbed[j]
        /\ (store[p[2]] # None => store'[p[2]] = store[p[2]])
    BY <1>2, <1>6
  <2>2. LastFor(j, p[1], p[2]) BY <1>6 DEF LastFor
  <2> QED BY <2>1, <2>2, ImportedStill
<1>7. KnownAt(j)' BY <1>4, <1>5 DEF KnownAt
<1>8. ImportedAt(j)' BY <1>6 DEF ImportedAt
<1> QED BY <1>7, <1>8

\* Whatever others do, and whatever a job's own late writes do, disturbs it.
LEMMA DisturbedStep ==
  ASSUME TransferInv, NEW j \in Jobs, NEW own \in SUBSET Jobs, Disturb(own), j \notin own,
         job[j].step \notin {"idle", "source", "index"}
  PROVE  \A i \in Ids \ disturbed'[j] : i \notin disturbed[j] /\ store'[i] = store[i]
BY DEF Disturb, Touched

\* A job beside which something happens goes on knowing what it knew.
LEMMA KnownBeside ==
  ASSUME TransferInv, NEW j \in Jobs, KnownAt(j), ImportedAt(j),
         NEW own \in SUBSET Jobs, Disturb(own), j \notin own,
         SameCall(j), SameIndex(j), SameReport(j), job'[j].fetching = job[j].fetching,
         job'[j].step = job[j].step
  PROVE  KnownAt(j)' /\ ImportedAt(j)'
<1>1. job[j] \in JobState /\ PlaceAt(j) BY DEF TransferInv, TransferTypeOK
<1>2. /\ job'[j].index = job[j].index /\ job'[j].at = job[j].at
      /\ job'[j].imported = job[j].imported /\ job'[j].skipped = job[j].skipped
  BY DEF SameIndex, SameReport
<1>3. CASE job[j].step \in {"idle", "source", "index"}
  <2>1. job'[j].imported = {} /\ job'[j].skipped = {} /\ job'[j].index = NoIndex
        /\ job'[j].step # "readback"
    BY <1>1, <1>2, <1>3 DEF PlaceAt, BeforeLoop
  <2> QED BY <2>1 DEF KnownAt, ImportedAt, NoIndex
<1>4. CASE job[j].step \notin {"idle", "source", "index"}
  <2>1. \A i \in Ids \ disturbed'[j] : i \notin disturbed[j] /\ store'[i] = store[i]
    BY <1>4, DisturbedStep
  <2>2. ASSUME job'[j].step = "readback", job'[j].fetching \notin disturbed'[j]
        PROVE  AddedAs(j, job[j].at, job[j].fetching)'
    <3>1. job[j].step = "readback" /\ job[j].fetching \in Ids
      BY <1>1, <2>2 DEF PlaceAt, JobState
    <3>2. store'[job[j].fetching] = store[job[j].fetching]
          /\ job[j].fetching \notin disturbed[j]
      BY <2>1, <2>2, <3>1
    <3>3. AddedAs(j, job[j].at, job[j].fetching) BY <3>1, <3>2 DEF KnownAt
    <3> QED BY <1>2, <3>2, <3>3, StampStill DEF AddedAs, SameCall, Landing
  <2> QED BY <1>2, <2>1, <2>2, KnownSame
<1> QED BY <1>3, <1>4

\* A job's own turn disturbs only what it had not read yet.
LEMMA OwnTurn ==
  ASSUME NEW j \in Jobs, JobTurn(j)
  PROVE  /\ JobStep(j) /\ JobMove(j)
         /\ disturbed'[j] = IF job[j].step \in {"idle", "source", "index"} THEN {}
                            ELSE disturbed[j]
BY DEF JobTurn, Disturb

\* A job that starts, reads or ends before its loop knows what its index read.
LEMMA KnownEarly ==
  ASSUME TransferInv, NEW j \in Jobs, JobTurn(j), job[j].step \in BeforeLoop
  PROVE  KnownAt(j)' /\ ImportedAt(j)'
<1>1. JobStep(j) /\ JobMove(j) BY OwnTurn
<1>2. /\ PlaceAt(j) /\ job[j] \in JobState /\ TypeOK
      /\ PlaceAt(j)' /\ StoreStep
  BY <1>1 DEF TransferInv, TransferTypeOK, JobStep
<1>3. job[j].imported = {} /\ job[j].skipped = {} /\ job[j].index = NoIndex
  BY <1>2 DEF PlaceAt, BeforeLoop
<1>4. \/ StartMove(j)
      \/ ReadMove(j)
      \/ \E sent : EndMove(j, sent)
  BY <1>1 DEF JobMove, BackMove, ErrorMove, SkipMove, RewriteMove, InsertMove, Creates, InLoop,
              BeforeLoop
<1>5. UNCHANGED backendVars
  BY <1>1 DEF JobMove, RewriteMove, InsertMove, Creates, InLoop, BeforeLoop
<1>6. job'[j].imported = {} /\ job'[j].skipped = {} /\ job'[j].step # "readback"
  BY <1>3, <1>4 DEF StartMove, ReadMove, EndMove, SameReport
<1>7. ASSUME NEW k \in Identities, NEW known, known = job'[j].index[k], known # None
      PROVE  KnownAs(j, k, known)'
  <2>1. CASE job'[j].index = NoIndex BY <1>7, <2>1 DEF NoIndex
  <2>2. CASE job'[j].index # NoIndex
    <3> DEFINE kept == FirstOf(Listed(Landing(j)), ListLimit)
    <3>1. job'[j].index = IndexOf(kept) /\ job'[j].call = job[j].call
      BY <1>3, <1>4, <2>2 DEF StartMove, ReadMove, EndMove, SameIndex
    <3>2. kept \in SUBSET Own(Landing(j)) /\ kept \in SUBSET Stored
      <4>1. Own(Landing(j)) \in SUBSET Ids /\ Own(Landing(j)) \in SUBSET Stored
            /\ Listed(Landing(j)) \in SUBSET Own(Landing(j))
        BY ListedFacts
      <4>2. kept \in SUBSET Listed(Landing(j)) BY <4>1, ListedFacts
      <4> QED BY <4>1, <4>2
    <3> HIDE DEF kept
    <3>3. known.id \in kept /\ Identity(store[known.id]) = k
          /\ known = AsKnown(known.id, store[known.id])
      BY <1>2, <1>7, <3>1, <3>2, IndexFacts
    <3>4. Owned(Landing(j), known.id) /\ store[known.id].metadata = known.metadata
      BY <3>2, <3>3 DEF Owned, Own, Stored, AsKnown
    <3>5. store' = store BY <1>5 DEF backendVars
    <3> QED BY <3>1, <3>3, <3>4, <3>5 DEF KnownAs, Owned, Landing
  <2> QED BY <2>1, <2>2
<1>8. KnownAt(j)' BY <1>6, <1>7 DEF KnownAt
<1>9. ImportedAt(j)' BY <1>6 DEF ImportedAt
<1> QED BY <1>8, <1>9

\* A job that ends, or reports an error or a duplicate, goes on knowing what it knew.
LEMMA KnownQuiet ==
  ASSUME TransferInv, NEW j \in Jobs, KnownAt(j), ImportedAt(j), JobTurn(j),
         job[j].step \notin BeforeLoop, UNCHANGED backendVars,
         \/ \E sent : EndMove(j, sent) \/ ErrorMove(j, sent)
         \/ SkipMove(j, Duplicate(j, This(j)).id) /\ Duplicate(j, This(j)) # None
  PROVE  KnownAt(j)' /\ ImportedAt(j)'
<1>1. disturbed'[j] = disturbed[j] /\ store' = store
  BY OwnTurn DEF BeforeLoop, backendVars
<1>2. CASE \E sent : EndMove(j, sent) \/ ErrorMove(j, sent)
  <2>1. /\ SameCall(j) /\ job'[j].index = job[j].index /\ job'[j].imported = job[j].imported
        /\ job'[j].skipped = job[j].skipped /\ job'[j].step # "readback"
    BY <1>2 DEF EndMove, ErrorMove, SameIndex, SameReport
  <2> QED BY <1>1, <2>1, KnownSame
<1>3. CASE SkipMove(j, Duplicate(j, This(j)).id) /\ Duplicate(j, This(j)) # None
  <2> DEFINE known == Duplicate(j, This(j))
             p == <<job[j].at, known.id>>
  <2>1. /\ InLoop(j) /\ SameCall(j) /\ job'[j].index = job[j].index
        /\ job'[j].imported = job[j].imported /\ job'[j].skipped = job[j].skipped \cup {p}
        /\ job'[j].step # "readback"
    BY <1>3 DEF SkipMove, SameIndex
  <2>2. known = job[j].index[Identity(This(j))] /\ Identity(This(j)) \in Identities
        /\ known # None
    BY <1>3, <2>1, EntryFacts, DuplicateFacts
  <2> HIDE DEF known
  <2>3. p[1] = job[j].at /\ p[2] = known.id OBVIOUS
  <2> HIDE DEF p
  <2>4. ASSUME NEW q, q = p, q[2] \notin disturbed'[j] PROVE HeldAs(j, q[1], q[2])'
    <3>1. KnownAs(j, Identity(This(j)), known) BY <1>1, <2>2, <2>3, <2>4 DEF KnownAt
    <3>2. HeldAs(j, q[1], q[2]) BY <2>3, <2>4, <3>1 DEF KnownAs, HeldAs, Owned, This
    <3> QED BY <1>1, <2>1, <3>2 DEF HeldAs, SameCall, Landing
  <2>5. ASSUME NEW q \in job'[j].skipped \cup job'[j].imported, q[2] \notin disturbed'[j]
        PROVE  HeldAs(j, q[1], q[2])'
    <3>1. CASE q = p BY <2>4, <2>5, <3>1
    <3>2. CASE q # p
      <4>1. q \in job[j].skipped \cup job[j].imported BY <2>1, <2>5, <3>2
      <4>2. store[q[2]] # None => SameIdentity(q[2]) BY <1>1 DEF SameIdentity
      <4> QED BY <1>1, <2>1, <2>5, <4>1, <4>2, HeldStill
    <3> QED BY <3>1, <3>2
  <2>6. ASSUME NEW k \in Identities, NEW x, x = job'[j].index[k], x # None,
               x.id \notin disturbed'[j]
        PROVE  KnownAs(j, k, x)'
    BY <1>1, <2>1, <2>6, KnownStill
  <2>7. ASSUME NEW q \in job'[j].imported, q[2] \notin disturbed'[j], LastFor(j, q[1], q[2])'
        PROVE  ImportedAs(j, q[1], q[2])'
    <3>1. LastFor(j, q[1], q[2]) BY <2>1, <2>7 DEF LastFor
    <3> QED BY <1>1, <2>1, <2>7, <3>1, ImportedStill
  <2>8. KnownAt(j)' BY <2>1, <2>5, <2>6 DEF KnownAt
  <2>9. ImportedAt(j)' BY <2>7 DEF ImportedAt
  <2> QED BY <2>8, <2>9
<1> QED BY <1>2, <1>3

\* An add: the memory is what the entry says, until it is read back.
LEMMA KnownInsert ==
  ASSUME TransferInv, NEW j \in Jobs, KnownAt(j), ImportedAt(j), JobTurn(j), InsertMove(j)
  PROVE  KnownAt(j)' /\ ImportedAt(j)'
<1> DEFINE i == created + 1
<1>1. /\ Creates(j) /\ AddMove(j) /\ i \in Ids /\ store[i] = None
      /\ store'[i] = NewMemory(Landing(j), This(j).content, This(j).scope,
                               EntryMetadata(This(j)), Stamp(j, This(j), None))
      /\ \A q \in Ids \ {i} : store'[q] = store[q]
  BY DEF InsertMove
<1>2. job[j].step = "entries" BY <1>1 DEF Creates, InLoop
<1>3. disturbed'[j] = disturbed[j] BY <1>2, OwnTurn
<1>4. /\ SameCall(j) /\ job'[j].index = job[j].index /\ job'[j].imported = job[j].imported
      /\ job'[j].skipped = job[j].skipped /\ job'[j].fetching = i /\ job'[j].at = job[j].at
  BY <1>1 DEF AddMove, SameIndex, SameReport
<1> HIDE DEF i
<1>5. \A q \in Ids \ disturbed'[j] :
        q \notin disturbed[j] /\ (store[q] # None => store'[q] = store[q])
  BY <1>1, <1>3
<1>6. \A n, q : n = job[j].at /\ q = i => AddedAs(j, n, q)'
  BY <1>1, <1>4, StampStill DEF AddedAs, SameCall, Landing, This
<1>7. KnownAt(j)'
  <2>1. ASSUME NEW p \in job'[j].skipped \cup job'[j].imported, p[2] \notin disturbed'[j]
        PROVE  HeldAs(j, p[1], p[2])'
    <3>1. p \in job[j].skipped \cup job[j].imported /\ p[2] \notin disturbed[j] /\ p[2] \in Ids
      BY <1>3, <1>4, <2>1 DEF TransferInv, TransferTypeOK, JobState
    <3>2. store[p[2]] # None => SameIdentity(p[2])
      BY <1>5, <2>1, <3>1 DEF SameIdentity
    <3> QED BY <1>4, <3>1, <3>2, HeldStill
  <2>2. ASSUME NEW k \in Identities, NEW x, x = job'[j].index[k], x # None,
               x.id \notin disturbed'[j]
        PROVE  KnownAs(j, k, x)'
    <3>1. x \in Known BY <1>4, <2>2 DEF TransferInv, TransferTypeOK, JobState
    <3>2. x.id \in Ids BY <3>1 DEF Known
    <3> QED BY <1>4, <1>5, <2>2, <3>2, KnownStill
  <2>3. ASSUME NEW n, NEW q, n = job'[j].at, q = job'[j].fetching PROVE AddedAs(j, n, q)'
    BY <1>4, <1>6, <2>3
  <2> QED BY <2>1, <2>2, <2>3 DEF KnownAt
<1>8. ImportedAt(j)'
  <2> SUFFICES ASSUME NEW q \in job'[j].imported, q[2] \notin disturbed'[j],
                      LastFor(j, q[1], q[2])'
               PROVE  ImportedAs(j, q[1], q[2])'
    BY DEF ImportedAt
  <2>1. LastFor(j, q[1], q[2]) BY <1>4 DEF LastFor
  <2>2. q \in job[j].imported /\ q[2] \in Ids /\ q[2] \notin disturbed[j]
    BY <1>3, <1>4 DEF TransferInv, TransferTypeOK, JobState
  <2> QED BY <1>4, <1>5, <2>1, <2>2, ImportedStill
<1> QED BY <1>7, <1>8

\* A memory read back is what its entry says, and enters the report and the index.
LEMMA KnownBack ==
  ASSUME TransferInv, NEW j \in Jobs, KnownAt(j), ImportedAt(j), JobTurn(j), BackMove(j),
         UNCHANGED backendVars
  PROVE  KnownAt(j)' /\ ImportedAt(j)'
<1> DEFINE i == job[j].fetching
           a == job[j].at
           id == Identity(This(j))
<1>1. /\ job[j].step = "readback" /\ RecordMove(j, i, store[i]) BY DEF BackMove
<1>2. disturbed'[j] = disturbed[j] /\ store' = store
  BY <1>1, OwnTurn DEF backendVars
<1>3. /\ SameCall(j) /\ job'[j].step = "entries" /\ job'[j].skipped = job[j].skipped
      /\ job'[j].imported = job[j].imported \cup {<<a, i>>}
      /\ job'[j].index = [job[j].index EXCEPT ![id] = AsKnown(i, store[i])]
  BY <1>1 DEF RecordMove
<1>4. /\ job[j] \in JobState /\ a \in Nat /\ id \in Identities /\ This(j) \in Entry
  BY <1>1, EntryFacts
<1>5. i \notin disturbed[j] =>
        store[i] = NewMemory(Landing(j), This(j).content, This(j).scope,
                             EntryMetadata(This(j)), Stamp(j, This(j), None))
  BY <1>1 DEF KnownAt, AddedAs, This
<1>6. i \in Ids /\ store[i] # None BY <1>1, <1>4 DEF BackMove, Owned, PlaceAt, TransferInv, JobState
<1>7. \A n, q : n = a /\ q = i /\ q \notin disturbed[j] => HeldAs(j, n, q)
  BY <1>5, <1>6 DEF HeldAs, NewMemory, Identity, This
<1>8. \A n, q : n = a /\ q = i /\ q \notin disturbed[j] => ImportedAs(j, n, q)
  BY <1>5 DEF ImportedAs, NewMemory, This, EntryMetadata
<1>9. \A x : x = AsKnown(i, store[i]) /\ x.id \notin disturbed[j] => KnownAs(j, id, x)
  <2>1. AsKnown(i, store[i]).id = i /\ AsKnown(i, store[i]).metadata = store[i].metadata
    BY DEF AsKnown
  <2> QED BY <1>5, <1>6, <2>1 DEF KnownAs, Owned, NewMemory, Identity
<1> HIDE DEF i, a, id
<1>10. \A q : SameIdentity(q) <=> store[q] # None BY <1>2 DEF SameIdentity
<1>11. \A n, q : HeldAs(j, n, q) => HeldAs(j, n, q)'
  BY <1>2, <1>3 DEF HeldAs, SameCall, Landing
<1>12. \A n, q : ImportedAs(j, n, q) => ImportedAs(j, n, q)'
  BY <1>2, <1>3, StampStill DEF ImportedAs, SameCall
<1>13. \A k, x : KnownAs(j, k, x) => KnownAs(j, k, x)'
  BY <1>2, <1>3 DEF KnownAs, Owned, SameCall, Landing
<1>14. <<a, i>>[1] = a /\ <<a, i>>[2] = i OBVIOUS
<1>15. KnownAt(j)'
  <2>1. ASSUME NEW p \in job'[j].skipped \cup job'[j].imported, p[2] \notin disturbed'[j]
        PROVE  HeldAs(j, p[1], p[2])'
    <3>1. CASE p \in job[j].skipped \cup job[j].imported
      BY <1>2, <1>11, <2>1, <3>1 DEF KnownAt
    <3>2. CASE p = <<a, i>> BY <1>2, <1>7, <1>11, <1>14, <2>1, <3>2
    <3> QED BY <1>3, <2>1, <3>1, <3>2
  <2>2. ASSUME NEW k \in Identities, NEW x, x = job'[j].index[k], x # None,
               x.id \notin disturbed'[j]
        PROVE  KnownAs(j, k, x)'
    <3>1. CASE k = id
      <4>1. x = AsKnown(i, store[i]) BY <1>3, <1>4, <2>2, <3>1 DEF JobState
      <4> QED BY <1>2, <1>9, <1>13, <2>2, <3>1, <4>1
    <3>2. CASE k # id
      <4>1. x = job[j].index[k] BY <1>3, <1>4, <2>2, <3>2 DEF JobState
      <4> QED BY <1>2, <1>13, <2>2, <4>1 DEF KnownAt
    <3> QED BY <3>1, <3>2
  <2> QED BY <1>3, <2>1, <2>2 DEF KnownAt
<1>16. ImportedAt(j)'
  <2> SUFFICES ASSUME NEW p \in job'[j].imported, p[2] \notin disturbed'[j],
                      LastFor(j, p[1], p[2])'
               PROVE  ImportedAs(j, p[1], p[2])'
    BY DEF ImportedAt
  <2>1. CASE p = <<a, i>> BY <1>2, <1>8, <1>12, <1>14, <2>1
  <2>2. CASE p \in job[j].imported
    <3>1. LastFor(j, p[1], p[2]) BY <1>3 DEF LastFor
    <3> QED BY <1>2, <1>12, <2>2, <3>1 DEF ImportedAt
  <2> QED BY <1>3, <2>1, <2>2
<1> QED BY <1>15, <1>16

\* A memory that a job overwrites, unless someone else changed it, has the entry's content
\* and scope already, and the metadata its index says.
LEMMA RewriteKeepsIdentity ==
  ASSUME TransferInv, NEW j \in Jobs, KnownAt(j), RewriteMove(j), NEW i,
         i = Duplicate(j, This(j)).id, i \notin disturbed[j]
  PROVE  /\ SameIdentity(i) /\ Identity(store'[i]) = Identity(This(j))
         /\ store[i].metadata = Duplicate(j, This(j)).metadata
<1> DEFINE known == Duplicate(j, This(j))
           id == Identity(This(j))
<1>1. /\ InLoop(j) /\ known \in Known /\ known = job[j].index[id]
      /\ store'[i] = [partition |-> Landing(j), content |-> This(j).content,
                      scope |-> store[i].scope,
                      metadata |-> Patched(store[i].metadata, OverwritePatch(This(j), known)),
                      system |-> Stamp(j, This(j), known)]
      /\ store'[i] \in Memory
  BY DEF RewriteMove
<1>2. id \in Identities /\ known # None /\ store'[i] # None
  BY <1>1, EntryFacts, KnownAssumption, NoneAssumption
<1>3. /\ store[i].partition = Landing(j) /\ Identity(store[i]) = id
      /\ store[i].metadata = known.metadata
  BY <1>1, <1>2 DEF KnownAt, KnownAs, Owned
<1>4. /\ store'[i].partition = Landing(j) /\ store'[i].content = This(j).content
      /\ store'[i].scope = store[i].scope
  BY <1>1
<1>5. id = <<This(j).content, This(j).scope>> BY DEF Identity
<1> HIDE DEF known, id
<1>6. <<store[i].content, store[i].scope>> = <<This(j).content, This(j).scope>>
  BY <1>3, <1>5 DEF Identity
<1>7. store[i].content = This(j).content BY <1>6
<1>8. Identity(store'[i]) = Identity(store[i]) BY <1>4, <1>7 DEF Identity
<1> QED BY <1>2, <1>3, <1>4, <1>8 DEF SameIdentity, known, id

\* An overwritten memory is what its entry says; it keeps its content and scope, so what
\* the job reported or indexed of it before still holds.
LEMMA KnownRewrite ==
  ASSUME TransferInv, NEW j \in Jobs, TalliedAt(j), KnownAt(j), ImportedAt(j), JobTurn(j),
         RewriteMove(j)
  PROVE  KnownAt(j)' /\ ImportedAt(j)'
<1> DEFINE known == Duplicate(j, This(j))
           i == known.id
           a == job[j].at
           id == Identity(This(j))
           p == <<a, i>>
<1>1. /\ InLoop(j) /\ RecordMove(j, i, store'[i])
      /\ known \in Known /\ known = job[j].index[id]
      /\ store'[i] = [partition |-> Landing(j), content |-> This(j).content,
                      scope |-> store[i].scope,
                      metadata |-> Patched(store[i].metadata, OverwritePatch(This(j), known)),
                      system |-> Stamp(j, This(j), known)]
      /\ store'[i] \in Memory
      /\ \A q \in Ids \ {i} : store'[q] = store[q]
      /\ store[i] # None
  BY DEF RewriteMove
<1>2. /\ job[j] \in JobState /\ a \in Nat /\ id \in Identities /\ This(j) \in Entry
      /\ job[j].call # None /\ job[j].step = "entries"
      /\ job[j].call.kind = "migrate" => This(j).system \in System
  BY <1>1, EntryFacts DEF InLoop
<1>3. disturbed'[j] = disturbed[j] BY <1>2, OwnTurn
<1>4. /\ SameCall(j) /\ job'[j].step = "entries" /\ job'[j].skipped = job[j].skipped
      /\ job'[j].imported = job[j].imported \cup {p}
      /\ job'[j].index = [job[j].index EXCEPT ![id] = AsKnown(i, store'[i])]
  BY <1>1 DEF RecordMove
<1>5. known # None /\ i \in Ids /\ store'[i] # None
  BY <1>1, KnownAssumption, NoneAssumption DEF Known
<1>6. i \notin disturbed[j] => store[i].metadata = known.metadata BY RewriteKeepsIdentity
<1>7. i \notin disturbed[j] =>
        SameIdentity(i) /\ Identity(store'[i]) = id /\ Identity(store[i]) = id
  BY RewriteKeepsIdentity DEF SameIdentity
<1>8. /\ Stamp(j, This(j), known).author = Stamp(j, This(j), None).author
      /\ This(j).metadata # None => \A k \in MetaKeys \ ReservedKeys :
           Patched(known.metadata, OverwritePatch(This(j), known))[k] = This(j).metadata[k]
  <2>1. job \in [Jobs -> JobState] BY DEF TransferInv, TransferTypeOK
  <2> HIDE DEF known
  <2> QED BY <1>1, <1>2, <2>1, StampFacts, PatchFacts
<1>9. \A q \in job[j].imported : q[1] < a
  <2>1. Numbers(job[j].imported) \subseteq 1..(a - 1) BY DEF TalliedAt
  <2>2. \A q \in job[j].imported : q[1] \in Numbers(job[j].imported) BY DEF Numbers
  <2> HIDE DEF a
  <2> QED BY <1>2, <2>1, <2>2
<1>10. /\ job'[j].entries[a] = This(j) /\ p[1] = a /\ p[2] = i
       /\ AsKnown(i, store'[i]).id = i
       /\ AsKnown(i, store'[i]).metadata = store'[i].metadata
  BY <1>4 DEF This, AsKnown, SameCall
<1>11. \A n, q : n = a /\ q = i /\ q \notin disturbed[j] => HeldAs(j, n, q)'
  <2>1. store'[i].partition = Landing(j) BY <1>1
  <2>2. id = Identity(This(j)) OBVIOUS
  <2> HIDE DEF known, i, id, a
  <2> QED BY <1>4, <1>5, <1>7, <1>10, <2>1, <2>2 DEF HeldAs, SameCall, Landing
<1>12. \A n, q : n = a /\ q = i /\ q \notin disturbed[j] => ImportedAs(j, n, q)'
  <2>1. i \notin disturbed[j] =>
          /\ store'[i].system.author = Stamp(j, This(j), None).author
          /\ This(j).metadata # None => \A k \in MetaKeys \ ReservedKeys :
               store'[i].metadata[k] = This(j).metadata[k]
    <3>1. /\ store'[i].system = Stamp(j, This(j), known)
          /\ store'[i].metadata = Patched(store[i].metadata, OverwritePatch(This(j), known))
      BY <1>1
    <3> HIDE DEF known, i
    <3> QED BY <1>6, <1>8, <3>1
  <2> HIDE DEF known, i, a
  <2> QED BY <1>10, <2>1, StampStill, <1>4 DEF ImportedAs
<1>13. \A k, x : k = id /\ x = AsKnown(i, store'[i]) /\ i \notin disturbed[j] =>
         KnownAs(j, k, x)'
  <2>1. store'[i].partition = Landing(j) BY <1>1
  <2> HIDE DEF known, i, id
  <2> QED BY <1>4, <1>5, <1>7, <1>10, <2>1 DEF KnownAs, Owned, SameCall, Landing
<1>14. \A q \in job[j].skipped \cup job[j].imported : q[2] \in Ids BY <1>2 DEF JobState
<1>15. \A k \in Identities : job[j].index[k] # None => job[j].index[k].id \in Ids
  BY <1>2 DEF JobState, Known
<1>16. ~(job'[j].step = "readback") BY <1>4
<1> HIDE DEF known, i, a, id, p
<1>17. ASSUME NEW q \in job'[j].skipped \cup job'[j].imported, q[2] \notin disturbed'[j]
       PROVE  HeldAs(j, q[1], q[2])'
  <2>1. CASE q = p BY <1>3, <1>10, <1>11, <1>17, <2>1
  <2>2. CASE q # p
    <3>1. q \in job[j].skipped \cup job[j].imported BY <1>4, <1>17, <2>2
    <3>2. store[q[2]] # None => SameIdentity(q[2])
      <4>1. CASE q[2] = i BY <1>3, <1>7, <1>17, <4>1
      <4>2. CASE q[2] # i BY <1>1, <1>14, <3>1, <4>2 DEF SameIdentity
      <4> QED BY <4>1, <4>2
    <3> QED BY <1>3, <1>4, <1>17, <3>1, <3>2, HeldStill
  <2> QED BY <2>1, <2>2
<1>18. ASSUME NEW k \in Identities, NEW x, x = job'[j].index[k], x # None,
              x.id \notin disturbed'[j]
       PROVE  KnownAs(j, k, x)'
  <2>1. CASE k = id
    <3>1. x = AsKnown(i, store'[i]) BY <1>2, <1>4, <1>18, <2>1 DEF JobState
    <3> QED BY <1>3, <1>10, <1>13, <1>18, <2>1, <3>1
  <2>2. CASE k # id
    <3>1. x = job[j].index[k] BY <1>2, <1>4, <1>18, <2>2 DEF JobState
    <3>2. x.id # i
      <4>1. KnownAs(j, k, x) BY <1>3, <1>18, <3>1 DEF KnownAt
      <4> QED BY <1>3, <1>7, <1>18, <2>2, <4>1 DEF KnownAs
    <3>3. x.id \in Ids BY <1>15, <1>18, <3>1
    <3>4. store'[x.id] = store[x.id] BY <1>1, <3>2, <3>3
    <3> QED BY <1>3, <1>4, <1>18, <3>1, <3>4, KnownStill
  <2> QED BY <2>1, <2>2
<1>19. ASSUME NEW q \in job'[j].imported, q[2] \notin disturbed'[j], LastFor(j, q[1], q[2])'
       PROVE  ImportedAs(j, q[1], q[2])'
  <2>1. CASE q = p BY <1>3, <1>10, <1>12, <1>19, <2>1
  <2>2. CASE q # p
    <3>1. q \in job[j].imported /\ p \in job'[j].imported BY <1>4, <1>19, <2>2
    <3>2. q[2] # i
      <4>1. q[2] = i => a <= q[1] BY <1>10, <1>19, <3>1 DEF LastFor
      <4>2. q[1] \in Nat BY <1>2, <3>1 DEF JobState
      <4> QED BY <1>2, <1>9, <3>1, <4>1, <4>2
    <3>3. LastFor(j, q[1], q[2]) BY <1>4, <1>19 DEF LastFor
    <3>4. store'[q[2]] = store[q[2]] BY <1>1, <1>14, <3>1, <3>2
    <3> QED BY <1>3, <1>4, <1>19, <3>1, <3>3, <3>4, ImportedStill
  <2> QED BY <2>1, <2>2
<1>20. KnownAt(j)' BY <1>16, <1>17, <1>18 DEF KnownAt
<1>21. ImportedAt(j)' BY <1>19 DEF ImportedAt
<1> QED BY <1>20, <1>21

\* While it is not its turn a job stays as it is, but for what its late writes wrote, and
\* whatever changes disturbs it.
LEMMA BesideTurn ==
  ASSUME TransferInv, TransferNext, NEW j \in Jobs, ~JobTurn(j)
  PROVE  /\ \E own \in SUBSET Jobs : Disturb(own) /\ j \notin own
         /\ SameCall(j) /\ SameIndex(j) /\ SameReport(j)
         /\ job'[j].fetching = job[j].fetching /\ job'[j].step = job[j].step
         /\ job[j].wrote \subseteq job'[j].wrote
<1>1. CASE LateTurn(j)
  BY <1>1 DEF LateTurn, WroteLate, LateMove
<1>2. CASE ~LateTurn(j)
  <2>1. job'[j] = job[j] BY <1>2, TransferStep, StillJobs
  <2>2. \E own \in SUBSET Jobs : Disturb(own) /\ j \notin own
    <3>1. ASSUME NEW k \in Jobs, JobTurn(k) \/ LateTurn(k)
          PROVE  \E own \in SUBSET Jobs : Disturb(own) /\ j \notin own
      BY <3>1 DEF JobTurn, LateTurn
    <3>2. ASSUME NEW r \in Requests, RequestTurn(r)
          PROVE  \E own \in SUBSET Jobs : Disturb(own) /\ j \notin own
      BY <3>2 DEF RequestTurn
    <3> QED BY <3>1, <3>2, TransferStep
  <2> QED BY <2>1, <2>2 DEF SameCall, SameIndex, SameReport
<1> QED BY <1>1, <1>2

\* Whatever happens, what the jobs know of memories nobody else changed stays so.
LEMMA KnownKeeps ==
  ASSUME TransferInv, Tallied, KnownInv, [TransferNext]_allVars
  PROVE  KnownInv'
<1> SUFFICES ASSUME NEW j \in Jobs PROVE KnownAt(j)' /\ ImportedAt(j)'
  BY DEF KnownInv
<1>1. TalliedAt(j) /\ KnownAt(j) /\ ImportedAt(j) BY DEF Tallied, KnownInv
<1>2. CASE JobTurn(j)
  <2>1. JobMove(j) BY <1>2, OwnTurn
  <2>2. CASE job[j].step \in BeforeLoop BY <1>2, <2>2, KnownEarly
  <2>3. CASE job[j].step \notin BeforeLoop
    <3>1. ~StartMove(j) /\ ~ReadMove(j) BY <2>3 DEF StartMove, ReadMove, BeforeLoop
    <3>2. CASE RewriteMove(j) BY <1>1, <1>2, <3>2, KnownRewrite
    <3>3. CASE InsertMove(j) BY <1>1, <1>2, <3>3, KnownInsert
    <3>4. CASE BackMove(j) /\ UNCHANGED backendVars BY <1>1, <1>2, <3>4, KnownBack
    <3> QED BY <1>1, <1>2, <2>1, <2>3, <3>1, <3>2, <3>3, <3>4, KnownQuiet DEF JobMove
  <2> QED BY <2>2, <2>3
<1>3. CASE TransferNext /\ ~JobTurn(j)
  <2> QED BY <1>1, <1>3, BesideTurn, KnownBeside
<1>4. CASE UNCHANGED allVars
  <2>1. job' = job /\ store' = store /\ disturbed' = disturbed
    BY <1>4 DEF allVars, vars, transferVars, backendVars
  <2>2. /\ SameCall(j) /\ job'[j].index = job[j].index /\ job'[j].imported = job[j].imported
        /\ job'[j].skipped = job[j].skipped
    BY <2>1 DEF SameCall
  <2>3. ASSUME job'[j].step = "readback", job'[j].fetching \notin disturbed'[j]
        PROVE  AddedAs(j, job[j].at, job[j].fetching)'
    BY <1>1, <2>1, <2>2, <2>3, StampStill DEF KnownAt, AddedAs, Landing
  <2> QED BY <1>1, <2>1, <2>2, <2>3, KnownSame
<1> QED BY <1>2, <1>3, <1>4

\* What jobs know, in every behaviour.
LEMMA KnownCorrect == TransferSpec => [](TransferInv /\ Tallied /\ Reported /\ KnownInv)
<1>1. TransferInit => KnownInv
  <2> SUFFICES ASSUME TransferInit, NEW j \in Jobs PROVE KnownAt(j) /\ ImportedAt(j)
    BY DEF KnownInv
  <2>1. /\ job[j].step = "idle" /\ job[j].imported = {} /\ job[j].skipped = {}
        /\ job[j].index = NoIndex
    BY DEF TransferInit, IdleJob
  <2> QED BY <2>1 DEF KnownAt, ImportedAt, NoIndex
<1>2. TransferInit => TransferInv /\ Tallied /\ Reported BY TransferInitInv, ReportInit
<1>3. TransferInv /\ Tallied /\ Reported /\ KnownInv /\ [TransferNext]_allVars =>
        (TransferInv /\ Tallied /\ Reported /\ KnownInv)'
  BY TransferNextKeeps, ReportKeeps, KnownKeeps
<1> QED BY <1>1, <1>2, <1>3, PTL DEF TransferSpec

\* What an import reports is in the store: a skipped entry's memory has its content and
\* scope, an imported one's also its author and exactly its metadata, the reserved keys
\* apart, unless someone else changed that memory since the import read its index
\* (transfer.py 229-286).
THEOREM ReportedIsStoredCorrect == TransferSpec => []ReportedIsStored
<1>1. KnownInv => ReportedIsStored
  BY DEF KnownInv, KnownAt, ImportedAt, ImportedAs, ReportedIsStored
<1> QED BY <1>1, KnownCorrect, PTL

(***************************************************************************)
(* The index holds the partition, but for what DuplicateNeedsRace names.   *)
(***************************************************************************)

\* A job beside which something happens: what its index misses is disturbed.
LEMMA IndexedBeside ==
  ASSUME TransferInv, NEW j \in Jobs, IndexedAt(j),
         NEW own \in SUBSET Jobs, Disturb(own), j \notin own,
         SameCall(j), SameIndex(j), SameReport(j), job'[j].fetching = job[j].fetching,
         job'[j].step = job[j].step, job[j].wrote \subseteq job'[j].wrote
  PROVE  IndexedAt(j)'
<1> SUFFICES ASSUME job[j].step \in {"entries", "readback"}, Mode(j) # "duplicate",
                    ~job[j].partial, NEW i, i \in Own(Landing(j))'
             PROVE  \/ i \in disturbed'[j]
                    \/ job[j].index[Identity(store'[i])] # None
                    \/ \E n \in job[j].errors : <<n, i>> \in job'[j].wrote
                    \/ job[j].step = "readback" /\ job[j].fetching = i
  BY DEF IndexedAt, SameCall, SameIndex, SameReport, Mode
<1>1. i \in Ids /\ store'[i] # None /\ store'[i].partition = Landing(j)
  BY DEF Own, Stored, Landing, SameCall
<1>2. CASE i \notin disturbed'[j]
  <2>1. i \notin disturbed[j] /\ store'[i] = store[i] BY <1>1, <1>2, DisturbedStep
  <2>2. i \in Own(Landing(j)) BY <1>1, <2>1 DEF Own, Stored
  <2> QED BY <2>1, <2>2 DEF IndexedAt
<1> QED BY <1>2

\* An index that found no more than it keeps holds the whole partition.
LEMMA IndexedRead ==
  ASSUME TransferInv, NEW j \in Jobs, JobTurn(j), ReadMove(j), UNCHANGED backendVars
  PROVE  IndexedAt(j)'
<1> DEFINE kept == FirstOf(Listed(Landing(j)), ListLimit)
<1>1. /\ job'[j].call = job[j].call
      /\ job[j].step = "index" => job'[j].index = IndexOf(kept)
                                 /\ job'[j].partial = Missed(Landing(j))
      /\ job'[j].step = "entries" /\ Mode(j) # "duplicate" => job[j].step = "index"
      /\ job'[j].step # "readback"
  BY DEF ReadMove
<1>2. store' = store /\ TypeOK BY DEF backendVars, TransferInv, TransferTypeOK
<1>3. Own(Landing(j)) \in SUBSET Ids /\ Own(Landing(j)) \in SUBSET Stored BY ListedFacts
<1>4. ~Missed(Landing(j)) => kept = Own(Landing(j))
  <2>1. ListLimit \in Nat BY JobAssumption
  <2>2. Cardinality(Listed(Landing(j))) \in Nat
    BY <1>3, ListedFacts, IdsCount, FS_Subset, FS_Interval, BoundAssumption DEF Ids
  <2>3. ~Missed(Landing(j)) => Cardinality(FirstOf(Own(Landing(j)), ListLimit + 1)) <= ListLimit
    BY <2>1, <2>2 DEF Missed, Listed
  <2> QED BY <1>3, <2>1, <2>3, FirstOfAll DEF Listed
<1> HIDE DEF kept
<1>5. ASSUME NEW i \in Own(Landing(j)), ~Missed(Landing(j))
      PROVE  IndexOf(kept)[Identity(store[i])] # None
  BY <1>2, <1>3, <1>4, <1>5, IndexFacts
<1>6. Mode(j)' = Mode(j) /\ Landing(j)' = Landing(j) /\ Own(Landing(j))' = Own(Landing(j))
  BY <1>1, <1>2 DEF Mode, Landing, Own, Stored
<1> QED BY <1>1, <1>2, <1>5, <1>6 DEF IndexedAt

\* A job that skips an entry, or reports an error, has missed nothing more: the memory of
\* a failed read-back is one its entry wrote.
LEMMA IndexedQuiet ==
  ASSUME TransferInv, NEW j \in Jobs, IndexedAt(j), JobTurn(j), UNCHANGED backendVars,
         \/ \E sent : ErrorMove(j, sent)
         \/ SkipMove(j, Duplicate(j, This(j)).id)
  PROVE  IndexedAt(j)'
<1>1. /\ InLoop(j) \/ job[j].step = "readback"
      /\ SameCall(j) /\ SameIndex(j) /\ job'[j].wrote = job[j].wrote
      /\ \/ job'[j].errors = job[j].errors \cup {job[j].at}
         \/ job'[j].errors = job[j].errors /\ InLoop(j)
  BY DEF ErrorMove, SkipMove, SameWrites
<1>2. disturbed'[j] = disturbed[j] BY <1>1, OwnTurn DEF InLoop
<1>3. store' = store /\ PlaceAt(j) BY DEF backendVars, TransferInv
<1>4. job[j].step \in {"entries", "readback"} BY <1>1 DEF InLoop
<1>5. job[j].step = "readback" =>
        /\ job[j].at \in job'[j].errors /\ <<job[j].at, job[j].fetching>> \in job'[j].wrote
  BY <1>1, <1>3 DEF PlaceAt, InLoop
<1>6. Mode(j)' = Mode(j) /\ Own(Landing(j))' = Own(Landing(j))
  BY <1>1, <1>3 DEF SameCall, Mode, Landing, Own, Stored
<1>7. job[j].errors \subseteq job'[j].errors BY <1>1
<1> QED BY <1>1, <1>2, <1>3, <1>4, <1>5, <1>6, <1>7 DEF IndexedAt, SameIndex

\* An add: the new memory is the one being read back.
LEMMA IndexedInsert ==
  ASSUME TransferInv, NEW j \in Jobs, IndexedAt(j), JobTurn(j), InsertMove(j)
  PROVE  IndexedAt(j)'
<1> DEFINE i == created + 1
<1>1. /\ Creates(j) /\ AddMove(j) /\ i \in Ids
      /\ \A q \in Ids \ {i} : store'[q] = store[q]
  BY DEF InsertMove
<1>2. job[j].step = "entries" BY <1>1 DEF Creates, InLoop
<1>3. disturbed'[j] = disturbed[j] BY <1>2, OwnTurn
<1>4. /\ SameCall(j) /\ SameIndex(j) /\ SameReport(j) /\ job'[j].step = "readback"
      /\ job'[j].fetching = i /\ job[j].wrote \subseteq job'[j].wrote
  BY <1>1 DEF AddMove
<1> HIDE DEF i
<1> SUFFICES ASSUME Mode(j) # "duplicate", ~job[j].partial, NEW q, q \in Own(Landing(j))', q # i
             PROVE  \/ q \in disturbed[j]
                    \/ job[j].index[Identity(store'[q])] # None
                    \/ \E n \in job[j].errors : <<n, q>> \in job'[j].wrote
  BY <1>3, <1>4 DEF IndexedAt, SameCall, SameIndex, SameReport, Mode
<1>5. q \in Ids /\ store'[q] # None /\ store'[q].partition = Landing(j)
  BY <1>4 DEF Own, Stored, Landing, SameCall
<1>6. store'[q] = store[q] BY <1>1, <1>5
<1>7. q \in Own(Landing(j)) BY <1>5, <1>6 DEF Own, Stored
<1> QED BY <1>2, <1>4, <1>6, <1>7 DEF IndexedAt

\* An entry that is done: its memory is in the index under the entry's content and scope,
\* unless someone else changed it.
LEMMA IndexedRecord ==
  ASSUME TransferInv, NEW j \in Jobs, IndexedAt(j), JobTurn(j),
         NEW i \in Ids, NEW m \in Memory, RecordMove(j, i, m),
         job[j].step = "readback" => job[j].fetching = i,
         \A q \in Ids \ {i} : store'[q] = store[q],
         i \notin disturbed[j] /\ store'[i] # None => Identity(store'[i]) = Identity(This(j))
  PROVE  IndexedAt(j)'
<1> DEFINE id == Identity(This(j))
<1>1. /\ job[j].step \in {"entries", "readback"} /\ SameCall(j)
      /\ job'[j].step = "entries" /\ job'[j].partial = job[j].partial
      /\ job'[j].index = [job[j].index EXCEPT ![id] = AsKnown(i, m)]
      /\ job'[j].errors = job[j].errors /\ job[j].wrote \subseteq job'[j].wrote
  BY DEF RecordMove, InLoop
<1>2. disturbed'[j] = disturbed[j] BY <1>1, OwnTurn
<1>3. job[j] \in JobState /\ id \in Identities BY <1>1, EntryFacts DEF RecordMove
<1>4. AsKnown(i, m) # None
  <2>1. AsKnown(i, m) \in Known BY DEF AsKnown, Known, Memory, System
  <2> QED BY <2>1, KnownAssumption
<1> HIDE DEF id
<1>5. /\ job'[j].index[id] # None
      /\ \A k : job[j].index[k] # None /\ k \in Identities => job'[j].index[k] # None
  BY <1>1, <1>3, <1>4 DEF JobState
<1> SUFFICES ASSUME Mode(j) # "duplicate", ~job[j].partial, NEW q, q \in Own(Landing(j))',
                    q \notin disturbed[j]
             PROVE  \/ job'[j].index[Identity(store'[q])] # None
                    \/ \E n \in job[j].errors : <<n, q>> \in job'[j].wrote
  BY <1>1, <1>2 DEF IndexedAt, SameCall, Mode
<1>6. q \in Ids /\ store'[q] # None /\ store'[q].partition = Landing(j)
  BY <1>1 DEF Own, Stored, Landing, SameCall
<1>7. CASE q = i BY <1>5, <1>6, <1>7 DEF id
<1>8. CASE q # i
  <2>1. store'[q] = store[q] BY <1>6, <1>8
  <2>2. q \in Own(Landing(j)) BY <1>6, <2>1 DEF Own, Stored
  <2>3. \/ job[j].index[Identity(store[q])] # None
        \/ \E n \in job[j].errors : <<n, q>> \in job[j].wrote
    BY <1>1, <1>8, <2>2 DEF IndexedAt
  <2>4. Identity(store[q]) \in Identities
    <3>1. store[q] \in Memory BY <1>6, <2>1 DEF TransferInv, TransferTypeOK, TypeOK
    <3> QED BY <3>1 DEF Memory, Identity, Identities
  <2> QED BY <1>1, <1>5, <2>1, <2>3, <2>4
<1> QED BY <1>7, <1>8

\* A job's own turn keeps its index whole.
LEMMA IndexedOwn ==
  ASSUME TransferInv, NEW j \in Jobs, KnownAt(j), IndexedAt(j), JobTurn(j)
  PROVE  IndexedAt(j)'
<1>1. JobMove(j) BY OwnTurn
<1>2. CASE StartMove(j)
  BY <1>2 DEF StartMove, IndexedAt, Mode
<1>3. CASE ReadMove(j) /\ UNCHANGED backendVars BY <1>3, IndexedRead
<1>4. CASE BackMove(j) /\ UNCHANGED backendVars
  <2> DEFINE i == job[j].fetching
  <2>1. /\ job[j].step = "readback" /\ RecordMove(j, i, store[i]) /\ Owned(Landing(j), i)
        /\ store' = store
    BY <1>4 DEF BackMove, backendVars
  <2>2. i \in Ids /\ store[i] \in Memory
    <3>1. i \in Ids
      BY <2>1 DEF TransferInv, TransferTypeOK, JobState, PlaceAt
    <3> QED BY <2>1, <3>1 DEF TransferInv, TransferTypeOK, TypeOK, Owned
  <2>3. i \notin disturbed[j] => Identity(store[i]) = Identity(This(j))
    <3>1. i \notin disturbed[j] => AddedAs(j, job[j].at, i) BY <2>1 DEF KnownAt
    <3> QED BY <3>1 DEF AddedAs, NewMemory, Identity, This
  <2> HIDE DEF i
  <2>4. job[j].step = "readback" => job[j].fetching = i BY DEF i
  <2> QED BY <2>1, <2>2, <2>3, <2>4, IndexedRecord
<1>5. CASE \E sent : EndMove(j, sent)
  BY <1>5 DEF EndMove, IndexedAt
<1>6. CASE /\ UNCHANGED backendVars
           /\ \/ \E sent : ErrorMove(j, sent)
              \/ SkipMove(j, Duplicate(j, This(j)).id)
  BY <1>6, IndexedQuiet
<1>7. CASE RewriteMove(j)
  <2> DEFINE i == Duplicate(j, This(j)).id
  <2>1. /\ InLoop(j) /\ RecordMove(j, i, store'[i]) /\ store'[i] \in Memory
        /\ \A q \in Ids \ {i} : store'[q] = store[q]
        /\ Duplicate(j, This(j)) \in Known
    BY <1>7 DEF RewriteMove
  <2>2. i \in Ids BY <2>1 DEF Known
  <2>3. i \notin disturbed[j] => Identity(store'[i]) = Identity(This(j))
    BY <1>7, RewriteKeepsIdentity
  <2>4. job[j].step # "readback" BY <2>1 DEF InLoop
  <2> HIDE DEF i
  <2> QED BY <2>1, <2>2, <2>3, <2>4, IndexedRecord
<1>8. CASE InsertMove(j) BY <1>8, IndexedInsert
<1> QED BY <1>1, <1>2, <1>3, <1>4, <1>5, <1>6, <1>7, <1>8 DEF JobMove

\* Whatever happens, an index misses only what DuplicateNeedsRace names.
LEMMA IndexedKeeps ==
  ASSUME TransferInv, KnownInv, Indexed, [TransferNext]_allVars
  PROVE  Indexed'
<1> SUFFICES ASSUME NEW j \in Jobs PROVE IndexedAt(j)' BY DEF Indexed
<1>1. KnownAt(j) /\ IndexedAt(j) BY DEF KnownInv, Indexed
<1>2. CASE JobTurn(j) BY <1>1, <1>2, IndexedOwn
<1>3. CASE TransferNext /\ ~JobTurn(j) BY <1>1, <1>3, BesideTurn, IndexedBeside
<1>4. CASE UNCHANGED allVars
  BY <1>1, <1>4 DEF allVars, vars, transferVars, backendVars, IndexedAt, Mode, Landing, Own, Stored
<1> QED BY <1>2, <1>3, <1>4

\* An import that does not ask for duplicates stores a second memory of one content and
\* scope only when its index may have missed the first, someone else stored or changed
\* the first since the index was read, or an entry of its own that it reports as failed
\* was stored (transfer.py 193, 229-286).
THEOREM DuplicateNeedsRaceCorrect == TransferSpec => DuplicateNeedsRace
<1> DEFINE Raced ==
      \A j \in Jobs : AddEntry(j) /\ Mode(j) # "duplicate" =>
        \A i \in Own(Landing(j)) : Identity(store[i]) = Identity(This(j)) =>
          \/ job[j].partial
          \/ i \in disturbed[j]
          \/ \E n \in job[j].errors : <<n, i>> \in job[j].wrote
<1>1. TransferInv /\ Indexed => Raced
  <2> SUFFICES ASSUME TransferInv, Indexed, NEW j \in Jobs, AddEntry(j), Mode(j) # "duplicate",
                      NEW i \in Own(Landing(j)), Identity(store[i]) = Identity(This(j))
               PROVE  \/ job[j].partial
                      \/ i \in disturbed[j]
                      \/ \E n \in job[j].errors : <<n, i>> \in job[j].wrote
    OBVIOUS
  <2>1. job[j].step = "entries" /\ job[j].index[Identity(This(j))] = None
    BY DEF AddEntry, Creates, InLoop, Duplicate
  <2> QED BY <2>1 DEF Indexed, IndexedAt
<1>2. TransferInit => Indexed
  BY DEF TransferInit, IdleJob, Indexed, IndexedAt
<1>3. TransferInv /\ KnownInv /\ Indexed /\ [TransferNext]_allVars => Indexed'
  BY IndexedKeeps
<1>4. TransferInv /\ Indexed => [Raced]_allVars BY <1>1
<1> QED BY <1>2, <1>3, <1>4, KnownCorrect, PTL DEF TransferSpec, DuplicateNeedsRace

(***************************************************************************)
(* What is not a client's to change: reserved keys and creators.           *)
(***************************************************************************)

\* A migration has written memory i, this step included.
MigratedNow(i) == \E j \in Jobs : Migrates(j) /\ i \in {p[2] : p \in job'[j].wrote}

\* OverwriteKeeps for one memory.
Preserves(i) ==
  /\ \A k \in ReservedKeys : store'[i].metadata[k] = store[i].metadata[k]
  /\ store'[i].system.created_by # store[i].system.created_by => MigratedNow(i)

\* A patch leaves the keys it keeps.
LEMMA PatchedKeeps ==
  ASSUME NEW md, NEW p, \A k \in ReservedKeys : p[k] = Keep
  PROVE  \A k \in ReservedKeys : Patched(md, p)[k] = md[k]
BY JobAssumption DEF Patched

\* What a job's own step adds to its index is what is stored, and what it adds to its
\* pending writes is what it has sent; it forgets no write and stays a migration.
LEMMA CreatorMoves ==
  ASSUME TransferInv, NEW j \in Jobs, JobTurn(j) \/ LateTurn(j)
  PROVE  /\ \A k \in Identities : job'[j].index[k] # None =>
              \/ job'[j].index[k] = job[j].index[k]
              \/ \E i \in Ids : job'[j].index[k] = AsKnown(i, store'[i])
         /\ \A w \in job'[j].pending : w \in job[j].pending \/ w \in SentWrite(j)
         /\ job'[j].pending # {} => job'[j].call = job[j].call
         /\ job[j].wrote \subseteq job'[j].wrote
         /\ Migrates(j) => Migrates(j)'
<1>1. /\ job[j] \in JobState /\ PlaceAt(j) /\ TypeOK
      /\ job[j].step = "idle" => job[j].pending = {}
  BY DEF TransferInv, TransferTypeOK, PlaceAt, BeforeLoop
<1>2. CASE LateTurn(j)
  BY <1>2 DEF LateTurn, WroteLate, LateMove, SameIndex, SameCall, Migrates
<1>3. CASE JobTurn(j)
  <2>1. JobMove(j) BY <1>3, OwnTurn
  <2>2. CASE StartMove(j)
    BY <1>1, <2>2 DEF StartMove, SameWrites, PlaceAt, Migrates
  <2>3. CASE ReadMove(j) /\ UNCHANGED backendVars
    <3>1. /\ job'[j].pending = job[j].pending /\ job'[j].wrote = job[j].wrote
          /\ job'[j].call = job[j].call
      BY <2>3 DEF ReadMove, SameWrites
    <3>2. ASSUME NEW k \in Identities, job'[j].index[k] # None
          PROVE  \/ job'[j].index[k] = job[j].index[k]
                 \/ \E i \in Ids : job'[j].index[k] = AsKnown(i, store'[i])
      <4> DEFINE kept == FirstOf(Listed(Landing(j)), ListLimit)
      <4>1. job'[j].index = job[j].index \/ job'[j].index = IndexOf(kept)
        BY <2>3 DEF ReadMove, SameIndex
      <4>2. kept \in SUBSET Stored /\ kept \in SUBSET Ids
        <5>1. Own(Landing(j)) \in SUBSET Ids /\ Own(Landing(j)) \in SUBSET Stored
              /\ Listed(Landing(j)) \in SUBSET Own(Landing(j))
          BY ListedFacts
        <5>2. kept \in SUBSET Listed(Landing(j)) BY <5>1, ListedFacts
        <5> QED BY <5>1, <5>2
      <4>3. store' = store BY <2>3 DEF backendVars
      <4> HIDE DEF kept
      <4> QED BY <1>1, <3>2, <4>1, <4>2, <4>3, IndexFacts
    <3> QED BY <3>1, <3>2 DEF Migrates
  <2>4. ASSUME NEW i \in Ids, NEW m, RecordMove(j, i, m), m = store'[i]
        PROVE  /\ \A k \in Identities : job'[j].index[k] # None =>
                    \/ job'[j].index[k] = job[j].index[k]
                    \/ \E q \in Ids : job'[j].index[k] = AsKnown(q, store'[q])
               /\ job'[j].pending = job[j].pending /\ job'[j].call = job[j].call
               /\ job[j].wrote \subseteq job'[j].wrote
    <3>1. /\ job'[j].index = [job[j].index EXCEPT ![Identity(This(j))] = AsKnown(i, m)]
          /\ job'[j].pending = job[j].pending /\ job'[j].call = job[j].call
          /\ job[j].wrote \subseteq job'[j].wrote
      BY <2>4 DEF RecordMove, SameCall
    <3>2. \A k \in Identities : job'[j].index[k] = job[j].index[k]
                               \/ job'[j].index[k] = AsKnown(i, m)
      BY <1>1, <3>1 DEF JobState
    <3> QED BY <2>4, <3>1, <3>2
  <2>5. CASE BackMove(j) /\ UNCHANGED backendVars
    <3>1. job[j].fetching \in Ids /\ RecordMove(j, job[j].fetching, store[job[j].fetching])
          /\ store' = store
      BY <1>1, <2>5 DEF BackMove, PlaceAt, JobState, backendVars
    <3> QED BY <2>4, <3>1 DEF Migrates
  <2>6. CASE RewriteMove(j)
    <3> DEFINE i == Duplicate(j, This(j)).id
    <3>1. RecordMove(j, i, store'[i]) /\ i \in Ids BY <2>6 DEF RewriteMove, Known
    <3> HIDE DEF i
    <3> QED BY <2>4, <3>1 DEF Migrates
  <2>7. CASE \/ \E sent \in SUBSET SentWrite(j) : EndMove(j, sent) \/ ErrorMove(j, sent)
             \/ SkipMove(j, Duplicate(j, This(j)).id)
             \/ InsertMove(j)
    <3>1. /\ job'[j].index = job[j].index /\ job'[j].call = job[j].call
          /\ job[j].wrote \subseteq job'[j].wrote
          /\ \E sent \in SUBSET SentWrite(j) : job'[j].pending = job[j].pending \cup sent
      <4>1. CASE \E sent \in SUBSET SentWrite(j) : EndMove(j, sent) \/ ErrorMove(j, sent)
        BY <4>1 DEF EndMove, ErrorMove, SameIndex, SameCall
      <4>2. CASE SkipMove(j, Duplicate(j, This(j)).id) \/ InsertMove(j)
        <5>1. /\ job'[j].index = job[j].index /\ job'[j].call = job[j].call
              /\ job[j].wrote \subseteq job'[j].wrote /\ job'[j].pending = job[j].pending
          BY <4>2 DEF SkipMove, InsertMove, AddMove, SameIndex, SameCall, SameWrites
        <5>2. job[j].pending = job[j].pending \cup {} /\ {} \in SUBSET SentWrite(j) OBVIOUS
        <5> QED BY <5>1, <5>2
      <4> QED BY <2>7, <4>1, <4>2
    <3> QED BY <3>1 DEF Migrates
  <2> QED BY <2>1, <2>2, <2>3, <2>5, <2>6, <2>7 DEF JobMove
<1> QED BY <1>2, <1>3

\* No job forgets a write or that it is a migration, whoever moves.
LEMMA MigratedGrows ==
  ASSUME TransferInv, [TransferNext]_allVars
  PROVE  \A i : /\ Migrated(i) => MigratedNow(i)
                /\ MigratedNow(i) => Migrated(i)'
<1>1. ASSUME NEW j \in Jobs
      PROVE  job[j].wrote \subseteq job'[j].wrote /\ (Migrates(j) => Migrates(j)')
  <2>1. CASE TransferNext /\ (JobTurn(j) \/ LateTurn(j)) BY <2>1, CreatorMoves
  <2>2. CASE TransferNext /\ ~JobTurn(j) /\ ~LateTurn(j)
    BY <2>2, TransferStep, StillJobs DEF Migrates
  <2>3. CASE UNCHANGED allVars BY <2>3 DEF allVars, transferVars, Migrates
  <2> QED BY <2>1, <2>2, <2>3
<1> QED BY <1>1 DEF Migrated, MigratedNow

\* A request's step keeps the reserved keys, and the creator but for a migration's.
LEMMA RequestPreserves ==
  ASSUME TransferInv, CreatorsInv, NEW r \in Requests, RequestTurn(r),
         \A i : Migrated(i) => MigratedNow(i),
         NEW i \in Ids, store[i] # None, store'[i] # None
  PROVE  Preserves(i)
<1>1. RewriteOf(r) /\ ControlAt(r)
  BY DEF RequestTurn, RequestStep, EffectOf, TransferInv, PolicyInv
<1>2. CASE /\ store'[i].metadata = store[i].metadata
           /\ store'[i].system.created_by = store[i].system.created_by
  BY <1>2 DEF Preserves
<1>3. CASE /\ HasSent(r, "update")
           /\ call[r].id = i
           /\ store'[i].metadata = Patched(store[i].metadata, call[r].metadata)
           /\ store'[i].system.created_by = seen[r].system.created_by
  <2>1. call[r] \in Calls /\ call[r].op = "update"
    <3>1. "update" \in WriterOps BY DEF WriterOps
    <3>2. call[r].op = "update" BY <1>1, <1>3, <3>1 DEF ControlAt
    <3>3. pc[r] \in Awaiting \/ late[r] # "none" BY <1>3 DEF HasSent, Awaiting
    <3> QED BY <1>1, <3>2, <3>3 DEF ControlAt
  <2>2. \A k \in ReservedKeys : call[r].metadata[k] = Keep BY <2>1, JobAssumption
  <2>3. \A k \in ReservedKeys : store'[i].metadata[k] = store[i].metadata[k]
    BY <1>3, <2>2, PatchedKeeps
  <2>4. CreatedBy(i, seen[r].system.created_by) BY <1>3 DEF CreatorsInv, Holds
  <2>5. store'[i].system.created_by # store[i].system.created_by => MigratedNow(i)
    BY <1>3, <2>4 DEF CreatedBy
  <2> QED BY <2>3, <2>5 DEF Preserves
<1> QED BY <1>1, <1>2, <1>3 DEF RewriteOf

\* So does a job's step: an import writes the creator its index holds, and no patch of a
\* job sets or removes a reserved key.
LEMMA JobPreserves ==
  ASSUME TransferInv, CreatorsInv, NEW j \in Jobs, JobTurn(j) \/ LateTurn(j),
         \A i : Migrated(i) => MigratedNow(i),
         NEW i \in Ids, store[i] # None, store'[i] # None
  PROVE  Preserves(i)
<1>1. CASE store'[i] = store[i] BY <1>1 DEF Preserves
<1>2. CASE store'[i] # store[i] /\ JobTurn(j)
  <2> DEFINE known == Duplicate(j, This(j))
  <2>1. RewriteMove(j) /\ i = known.id
    <3>1. JobMove(j) BY <1>2, OwnTurn
    <3>2. ~InsertMove(j)
      <4>1. InsertMove(j) => i = created + 1 BY <1>2 DEF InsertMove
      <4> QED BY <4>1 DEF InsertMove
    <3>3. RewriteMove(j) BY <1>2, <3>1, <3>2 DEF JobMove, backendVars
    <3>4. i = known.id BY <1>2, <3>3 DEF RewriteMove
    <3> QED BY <3>3, <3>4
  <2>2. /\ InLoop(j) /\ Acceptable(This(j)) /\ known \in Known
        /\ known = job[j].index[Identity(This(j))]
        /\ store'[i] = [partition |-> Landing(j), content |-> This(j).content,
                        scope |-> store[i].scope,
                        metadata |-> Patched(store[i].metadata, OverwritePatch(This(j), known)),
                        system |-> Stamp(j, This(j), known)]
        /\ <<job[j].at, i>> \in job'[j].wrote
    BY <2>1 DEF RewriteMove, RecordMove
  <2>3. /\ job \in [Jobs -> JobState] /\ job[j].call # None /\ This(j) \in Entry
        /\ job[j].call.kind = "migrate" => This(j).system \in System
        /\ This(j).metadata # None => \A k \in ReservedKeys : This(j).metadata[k] = None
        /\ Identity(This(j)) \in Identities
    BY <2>2, EntryFacts DEF TransferInv, TransferTypeOK
  <2> HIDE DEF known
  <2>4. /\ store'[i].metadata = Patched(store[i].metadata, OverwritePatch(This(j), known))
        /\ store'[i].system = Stamp(j, This(j), known)
    BY <2>2
  <2>5. \A k \in ReservedKeys : store'[i].metadata[k] = store[i].metadata[k]
    BY <2>2, <2>3, <2>4, PatchFacts, PatchedKeeps
  <2>6. CASE Migrates(j)
    <3>1. MigratedNow(i)
      <4>1. <<job[j].at, i>>[2] = i OBVIOUS
      <4> QED BY <2>2, <2>6, <4>1 DEF MigratedNow
    <3> QED BY <2>5, <3>1 DEF Preserves
  <2>7. CASE ~Migrates(j)
    <3>1. known # None BY <2>2, KnownAssumption
    <3>2. store'[i].system.created_by = known.created_by
      BY <2>2, <2>3, <2>4, <2>7, <3>1, StampFacts
    <3>3. CreatedBy(i, known.created_by) BY <2>1, <2>2, <2>3, <3>1 DEF CreatorsInv
    <3> QED BY <2>5, <3>2, <3>3 DEF Preserves, CreatedBy
  <2> QED BY <2>6, <2>7
<1>3. CASE store'[i] # store[i] /\ LateTurn(j)
  <2>1. PICK w \in job[j].pending, q \in Ids :
          /\ LateMove(j, w, q)
          /\ store'[q].system = w.system
          /\ store[q] # None =>
               /\ w.id # None /\ w.id = q
               /\ store'[q].metadata = Patched(store[q].metadata, w.patch)
          /\ \A n \in Ids \ {q} : store'[n] = store[n]
    BY <1>3 DEF LateTurn, WroteLate
  <2>2. q = i BY <1>3, <2>1
  <2>3. /\ w.id # None /\ w.id = i
        /\ store'[i].metadata = Patched(store[i].metadata, w.patch)
        /\ store'[i].system = w.system
        /\ <<w.entry, i>> \in job'[j].wrote
    BY <2>1, <2>2 DEF LateMove
  <2>4. \A k \in ReservedKeys : w.patch[k] = Keep BY <2>3 DEF TransferInv, LandedAt
  <2>5. \A k \in ReservedKeys : store'[i].metadata[k] = store[i].metadata[k]
    BY <2>3, <2>4, PatchedKeeps
  <2>6. Migrates(j) => MigratedNow(i)
    <3>1. <<w.entry, i>>[2] = i OBVIOUS
    <3> QED BY <2>3, <3>1 DEF MigratedNow
  <2>7. ~Migrates(j) => CreatedBy(i, w.system.created_by) BY <2>3 DEF CreatorsInv
  <2> QED BY <2>3, <2>5, <2>6, <2>7 DEF Preserves, CreatedBy
<1> QED BY <1>1, <1>2, <1>3

\* Every step keeps them, whoever moves.
LEMMA StepPreserves ==
  ASSUME TransferInv, CreatorsInv, [TransferNext]_allVars,
         NEW i \in Ids, store[i] # None, store'[i] # None
  PROVE  Preserves(i)
<1>1. \A q : Migrated(q) => MigratedNow(q) BY MigratedGrows
<1>2. CASE TransferNext BY <1>1, <1>2, TransferStep, RequestPreserves, JobPreserves
<1>3. CASE UNCHANGED allVars
  BY <1>3 DEF allVars, vars, backendVars, Preserves
<1> QED BY <1>2, <1>3

\* A creator that someone carries stays the stored one through a step.
LEMMA CreatedByStill ==
  ASSUME TransferInv, CreatorsInv, [TransferNext]_allVars, NEW i \in Ids, i <= created,
         NEW name, CreatedBy(i, name)
  PROVE  CreatedBy(i, name)'
<1>1. \A q : (Migrated(q) => MigratedNow(q)) /\ (MigratedNow(q) => Migrated(q)')
  BY MigratedGrows
<1>2. store'[i] # None => store[i] # None
  <2>1. StoreStep
    <3>1. CASE TransferNext
      BY <3>1, TransferStep DEF JobTurn, LateTurn, RequestTurn, JobStep, RequestStep, EffectOf
    <3>2. CASE UNCHANGED allVars
      <4>1. UNCHANGED backendVars BY <3>2 DEF allVars, vars
      <4> QED BY <4>1, QuietStore DEF TransferInv
    <3> QED BY <3>1, <3>2
  <2>2. created \in Nat BY BoundAssumption DEF TransferInv, TransferTypeOK, TypeOK
  <2> QED BY <2>1, <2>2 DEF StoreStep, Ids
<1>3. store[i] # None /\ store'[i] # None => Preserves(i) BY StepPreserves
<1> QED BY <1>1, <1>2, <1>3 DEF CreatedBy, Preserves

\* So every creator that is carried stays the stored one, or a migration has rewritten it.
LEMMA CreatorsKeep ==
  ASSUME TransferInv, CreatorsInv, [TransferNext]_allVars
  PROVE  CreatorsInv'
<1>1. TransferInv' BY TransferNextKeeps
<1>2. ASSUME NEW r \in Requests, Holds(r)'
      PROVE  CreatedBy(call[r].id, seen[r].system.created_by)'
  <2>1. \/ Holds(r) /\ call'[r] = call[r] /\ seen'[r] = seen[r]
        \/ UNCHANGED store /\ seen'[r] = store[call'[r].id]
    <3>1. CASE TransferNext /\ \E q \in Requests : RequestTurn(q)
      <4>1. PICK q \in Requests : RequestStep(q) BY <3>1 DEF RequestTurn
      <4>2. CASE q = r BY <1>2, <4>1, <4>2 DEF RequestStep, HoldStep
      <4>3. CASE q # r
        BY <1>2, <4>1, <4>3 DEF RequestStep, Elsewhere, Unmoved, Holds, HasSent
      <4> QED BY <4>2, <4>3
    <3>2. CASE UNCHANGED requestVars BY <1>2, <3>2 DEF requestVars, Holds, HasSent
    <3> QED BY <3>1, <3>2, TransferStep DEF JobTurn, LateTurn, allVars, vars
  <2>2. CASE UNCHANGED store /\ seen'[r] = store[call'[r].id]
    BY <2>2 DEF CreatedBy
  <2>3. CASE Holds(r) /\ call'[r] = call[r] /\ seen'[r] = seen[r]
    <3>1. call[r].id \in Ids /\ call[r].id <= created
      BY <2>3 DEF TransferInv, PolicyInv, ControlAt, HeldAt
    <3>2. CreatedBy(call[r].id, seen[r].system.created_by) BY <2>3 DEF CreatorsInv
    <3>3. \A i, name : i = call[r].id /\ name = seen[r].system.created_by => CreatedBy(i, name)'
      BY <3>1, <3>2, CreatedByStill
    <3> QED BY <2>3, <3>3 DEF CreatedBy
  <2> QED BY <2>1, <2>2, <2>3
<1>3. ASSUME NEW j \in Jobs
      PROVE  /\ \A k \in Identities : job'[j].index[k] # None =>
                  \/ job'[j].index[k] = job[j].index[k]
                  \/ \E i \in Ids : job'[j].index[k] = AsKnown(i, store'[i])
             /\ \A w \in job'[j].pending : w \in job[j].pending \/ w \in SentWrite(j)
             /\ job'[j].pending # {} => job'[j].call = job[j].call
  <2>1. CASE JobTurn(j) \/ LateTurn(j) BY <2>1, CreatorMoves
  <2>2. CASE ~JobTurn(j) /\ ~LateTurn(j)
    <3>1. job'[j] = job[j] BY <2>2, TransferStep, StillJobs DEF allVars, transferVars
    <3> QED BY <3>1
  <2> QED BY <2>1, <2>2
<1>4. ASSUME NEW j \in Jobs, NEW k \in Identities, NEW x, x = job'[j].index[k], x # None
      PROVE  CreatedBy(x.id, x.created_by)'
  <2>1. CASE x = job[j].index[k]
    <3>1. x.id \in Ids /\ x.id <= created
      BY <1>4, <2>1 DEF TransferInv, LandedAt, Lands
    <3>2. CreatedBy(x.id, x.created_by) BY <1>4, <2>1 DEF CreatorsInv
    <3> QED BY <3>1, <3>2, CreatedByStill
  <2>2. ASSUME NEW i \in Ids, x = AsKnown(i, store'[i]) PROVE CreatedBy(x.id, x.created_by)'
    <3>1. x.id = i /\ x.created_by = store'[i].system.created_by BY <2>2 DEF AsKnown
    <3> QED BY <3>1 DEF CreatedBy
  <2> QED BY <1>3, <1>4, <2>1, <2>2
<1>5. ASSUME NEW j \in Jobs, NEW w \in job'[j].pending, w.id # None, ~Migrates(j)'
      PROVE  CreatedBy(w.id, w.system.created_by)'
  <2>1. ~Migrates(j) BY <1>3, <1>5 DEF Migrates
  <2>2. w.id \in Ids /\ w.id <= created /\ CreatedBy(w.id, w.system.created_by)
    <3>1. CASE w \in job[j].pending
      BY <1>5, <2>1, <3>1 DEF TransferInv, LandedAt, Lands, CreatorsInv
    <3>2. CASE w \in SentWrite(j)
      <4>1. Lands(j, w.id) BY <1>5, <3>2, SentWriteFacts
      <4>2. PICK k \in Identities :
              /\ job[j].index[k] # None /\ job[j].index[k].id = w.id
              /\ job[j].index[k].created_by = w.system.created_by
        BY <1>5, <2>1, <3>2, SentWriteFacts
      <4>3. CreatedBy(job[j].index[k].id, job[j].index[k].created_by)
        BY <4>2 DEF CreatorsInv
      <4> QED BY <4>1, <4>2, <4>3 DEF Lands
    <3> QED BY <1>3, <1>5, <3>1, <3>2
  <2> QED BY <2>2, CreatedByStill
<1> QED BY <1>2, <1>4, <1>5 DEF CreatorsInv

\* What is not a client's to change outlives every import, overwrite and update: the
\* reserved metadata keys, and the creator, which only a migration rewrites, with the
\* system fields it copies (transfer.py 238-250, policy/__init__.py 353-355).
THEOREM OverwriteKeepsCorrect == TransferSpec => OverwriteKeeps
<1> DEFINE Kept ==
      \A i \in Stored : store'[i] # None =>
        /\ \A k \in ReservedKeys : store'[i].metadata[k] = store[i].metadata[k]
        /\ store'[i].system.created_by # store[i].system.created_by =>
             \E j \in Jobs : /\ job[j].call # None /\ job[j].call.kind = "migrate"
                            /\ i \in {p[2] : p \in job'[j].wrote}
<1>1. TransferInit => CreatorsInv
  <2> SUFFICES ASSUME TransferInit PROVE CreatorsInv OBVIOUS
  <2>1. \A r \in Requests : ~Holds(r) BY DEF TransferInit, PolicyInit, Holds, HasSent
  <2>2. \A j \in Jobs : job[j].index = NoIndex /\ job[j].pending = {}
    BY DEF TransferInit, IdleJob
  <2> QED BY <2>1, <2>2 DEF CreatorsInv, NoIndex
<1>2. TransferInv /\ CreatorsInv /\ [TransferNext]_allVars => CreatorsInv'
  BY CreatorsKeep
<1>3. TransferInv /\ CreatorsInv /\ [TransferNext]_allVars => [Kept]_allVars
  <2> SUFFICES ASSUME TransferInv, CreatorsInv, [TransferNext]_allVars,
                      NEW i \in Stored, store'[i] # None
               PROVE  Preserves(i)
    BY DEF Preserves, MigratedNow, Migrates
  <2> QED BY StepPreserves DEF Stored
<1> QED BY <1>1, <1>2, <1>3, TransferInvCorrect, PTL DEF TransferSpec, OverwriteKeeps
=============================================================================
