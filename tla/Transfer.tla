------------------------------ MODULE Transfer ------------------------------
(***************************************************************************)
(* Export, import and migration (memcp/policy/transfer.py), beside the     *)
(* ordinary requests of Policy on the same store.  A job is one call of    *)
(* export_memories, import_memories or migrate.  As in Policy, an action   *)
(* is one backend call taking effect with the code that runs when it       *)
(* returns; the steps of the entry loop that await nothing touch only the  *)
(* job itself, so each is an action of its own without loss.               *)
(*                                                                         *)
(* Abstractions.  The rules on an entry's form are one verdict the entry   *)
(* carries; whether its metadata fits is computed.  Every backend in the   *)
(* repository fills a page up to the limit it is asked for, so _list_all's *)
(* loop ends after its first page and the listing is one read.  A source   *)
(* backend of a migration is only listed once, so it is what that listing  *)
(* returns.  Only one memory is stored by an add without extraction.  What *)
(* migrate refuses before its record opens (no operator, no log handler)   *)
(* is left out, and so is a backend without update: every one has it.      *)
(***************************************************************************)
EXTENDS Policy

CONSTANTS
  MaxJobs,      \* bound: the transfers a behaviour contains
  JobCalls,     \* the transfers clients and operators start
  Sources,      \* what a migration's source may list
  Operator,     \* who runs migrations
  ReservedKeys, \* metadata keys no client may set or remove
  MaxImport,    \* MAX_IMPORT
  ListLimit,    \* MAX_EXPORT, the most memories a listing keeps
  JobFaults,    \* how a call of a job may end early
  MaxFaults     \* bound: how many backend calls of jobs fail or are cancelled

\* Numbered in the order they start.
Jobs == 1..MaxJobs

Modes == {"skip", "overwrite", "duplicate"}

\* One element of an import; system is set only when the entry comes from a migration.
Entry == [content  : Contents,
          scope    : Scope,
          metadata : Metadata \cup {None},
          system   : System \cup {None},
          valid    : BOOLEAN]

\* A transfer.  from is a migration's source partition; key holds the partition it
\* lands in.
JobCall == [kind    : {"export", "import", "migrate"},
            key     : Key,
            from    : Spaces \cup {None},
            mode    : Modes \cup {None},
            entries : Seq(Entry)]

ASSUME JobAssumption ==
  /\ JobCalls \subseteq JobCall /\ None \notin JobCalls
  /\ \A c \in JobCalls : c.kind = "migrate" <=> c.from # None
  /\ \A c \in JobCalls : c.kind = "migrate" => c.key.name = Operator /\ c.entries = <<>>
  /\ Sources \subseteq Seq(Memory)
  /\ \A c \in Calls, k \in ReservedKeys :
       c.metadata[k] = IF c.op = "add" THEN None ELSE Keep
  /\ \A c \in JobCalls : \A n \in DOMAIN c.entries : \A k \in ReservedKeys :
       c.entries[n].valid /\ c.entries[n].metadata # None =>
         c.entries[n].metadata[k] = None
  /\ Operator \in Names
  /\ ReservedKeys \subseteq MetaKeys
  /\ MaxJobs \in Nat /\ MaxImport \in Nat /\ MaxFaults \in Nat
  /\ JobFaults \subseteq FaultKinds
  /\ ListLimit \in Nat \ {0}

VARIABLES
  job,       \* job -> its JobState
  disturbed, \* job -> memories someone else changed since it read its index (not
             \* program state: what the properties excuse)
  faults     \* how many faults struck jobs so far

transferVars == <<job, disturbed, faults>>
allVars == <<vars, transferVars>>

\* What makes an entry and a memory the same: content and scope (dedup_key).
Identity(m) == <<m.content, m.scope>>
Identities == Contents \X Scope

\* A memory as the dedup index holds it.
Known == [id : Ids, metadata : Metadata, created_by : Names \cup {None}]

ASSUME KnownAssumption == None \notin Known

\* A write that was sent and whose outcome the job did not learn; id = None for an add.
Sent == [entry : Nat, id : Ids \cup {None}, patch : Patch, system : System]

\* step is "idle", the read it awaits, "entries" (at entry `at` of the loop, or past
\* the last), "readback" of memory `fetching`, or "done".  wrote is not program state.
JobState == [step     : {"idle", "export", "source", "index", "entries", "readback", "done"},
             call     : JobCalls \cup {None},
             entries  : Seq(Entry),
             at       : Nat,
             index    : [Identities -> Known \cup {None}],
             partial  : BOOLEAN,
             fetching : Ids \cup {None},
             exported : [Ids -> Memory \cup {None}],
             imported : SUBSET (Nat \X Ids),
             skipped  : SUBSET (Nat \X Ids),
             errors   : SUBSET Nat,
             pending  : SUBSET Sent,
             wrote    : SUBSET (Nat \X Ids),
             outcome  : Outcomes \cup {None},
             count    : Nat \cup {None}]

NoIndex == [k \in Identities |-> None]

(***************************************************************************)
(* What the transfer code computes.                                        *)
(***************************************************************************)

Landing(j) == job[j].call.key.space
Mode(j) == job[j].call.mode

\* _list_all asks for one memory more than it keeps, oldest first.
FirstOf(S, n) == {i \in S : Cardinality({k \in S : k < i}) < n}
Own(partition) == {i \in Stored : store[i].partition = partition}
Listed(partition) == FirstOf(Own(partition), ListLimit + 1)

\* Mutant: the memory past the limit is not asked for.
Missed_LastKept(partition) == Cardinality(FirstOf(Listed(partition), ListLimit)) > ListLimit

\* More memories exist than are kept.  (A store's own incomplete mark, which would be
\* passed on, is Mem0Backend's.)
Missed(partition) == Cardinality(Listed(partition)) > ListLimit

\* _list_all checks every memory of the page it read, the one past the limit included.
AllInSpace(partition) ==
  \A i \in Listed(partition) : InSpace(store[i], partition)

AsKnown(i, m) == [id |-> i, metadata |-> m.metadata, created_by |-> m.system.created_by]

\* build_dedup_index: of two memories with one identity the later listed one stays.
IndexOf(S) ==
  [k \in Identities |->
     LET same == {i \in S : Identity(store[i]) = k}
     IN IF same = {} THEN None ELSE AsKnown(Max(same), store[Max(same)])]

\* Mutant: memories are told apart by content alone.
Duplicate_AnyScope(j, entry) ==
  LET same == {k \in Identities : k[1] = entry.content /\ job[j].index[k] # None}
  IN IF Mode(j) = "duplicate" \/ same = {} THEN None
     ELSE job[j].index[CHOOSE k \in same : TRUE]

\* The memory the index holds for an entry; the duplicate mode ignores it.
Duplicate(j, entry) ==
  IF Mode(j) = "duplicate" THEN None ELSE job[j].index[Identity(entry)]

\* An entry the loop reports without a backend call.
Acceptable(entry) ==
  /\ entry.valid
  /\ entry.metadata # None => Size(entry.metadata) <= MaxMetadata

\* Mutant: an overwrite removes the reserved keys too.
OverwritePatch_All(entry, known) ==
  IF entry.metadata = None THEN NoPatch ELSE entry.metadata

\* The entry's keys set, the stored ones it does not name removed, the reserved ones
\* kept; without metadata the stored metadata stays.
OverwritePatch(entry, known) ==
  IF entry.metadata = None THEN NoPatch
  ELSE [k \in MetaKeys |->
          IF entry.metadata[k] # None THEN entry.metadata[k]
          ELSE IF known.metadata[k] # None /\ k \notin ReservedKeys THEN None ELSE Keep]

\* Mutant: the copy keeps the space it had at the source.
Stamp_SourceSpace(j, entry, known) ==
  LET key == job[j].call.key
  IN IF job[j].call.kind = "migrate" THEN entry.system
     ELSE SystemFor(key.space, key.name, IF known = None THEN key.name ELSE known.created_by)

\* The system fields written: an import's key as author, and as creator of what is new;
\* a migration's copy of the source memory's, with the landing space.
Stamp(j, entry, known) ==
  LET key == job[j].call.key
  IN IF job[j].call.kind = "migrate"
     THEN [space |-> key.space, author |-> entry.system.author,
           created_by |-> entry.system.created_by]
     ELSE SystemFor(key.space, key.name, IF known = None THEN key.name ELSE known.created_by)

\* A source memory as migrate hands it to import_payload, which refuses a reserved key.
AsEntry(m) == [content |-> m.content, scope |-> m.scope, metadata |-> m.metadata,
               system |-> m.system, valid |-> \A k \in ReservedKeys : m.metadata[k] = None]

\* The refusals before anything is read.
JobVerdict(c) ==
  IF c.kind = "import" /\ c.key.relation # "writer" THEN "forbidden"
  ELSE IF c.kind = "import" /\ (c.entries = <<>> \/ Len(c.entries) > MaxImport \/ c.mode \notin Modes)
    THEN "validation_error"
  ELSE IF c.kind = "migrate" /\ c.mode \notin Modes THEN "validation_error"
  ELSE "ok"

\* The current entry.
This(j) == job[j].entries[job[j].at]
InLoop(j) == job[j].step = "entries" /\ job[j].at <= Len(job[j].entries)

\* The current entry needs a backend call: to overwrite a memory, or to add one.
Overwrites(j) ==
  /\ InLoop(j)
  /\ Acceptable(This(j))
  /\ Mode(j) = "overwrite"
  /\ Duplicate(j, This(j)) # None
Creates(j) ==
  /\ InLoop(j)
  /\ Acceptable(This(j))
  /\ Duplicate(j, This(j)) = None

\* An await: the only places a call can fail or be cancelled at.
AwaitsBackend(j) ==
  \/ job[j].step \in {"export", "source", "index", "readback"}
  \/ Overwrites(j) \/ Creates(j)

EndJob(j, outcome, count) ==
  job' = [job EXCEPT ![j].step = "done", ![j].outcome = outcome, ![j].count = count]

\* The current entry fails with a backend error: reported, and the loop goes on.
ReportError(j) ==
  job' = [job EXCEPT ![j].step = "entries", ![j].at = @ + 1,
                     ![j].errors = @ \cup {job[j].at}, ![j].fetching = None]

(***************************************************************************)
(* A job starts, and reads: an export its memories, a migration its        *)
(* source, an import or migration the memories its index is built from.    *)
(***************************************************************************)

\* Where a call that was not refused goes first.
FirstStep(c) ==
  IF c.kind = "export" THEN "export"
  ELSE IF c.kind = "migrate" THEN "source"
  ELSE IF c.mode = "duplicate" THEN "entries" ELSE "index"

StartJob(j) ==
  \E c \in JobCalls :
    /\ job[j].step = "idle"
    /\ \A k \in 1..(j - 1) : job[k].step # "idle"
    /\ job' = [job EXCEPT
         ![j].call = c,
         ![j].entries = c.entries,
         ![j].step = IF JobVerdict(c) = "ok" THEN FirstStep(c) ELSE "done",
         ![j].outcome = IF JobVerdict(c) = "ok" THEN None ELSE JobVerdict(c)]
    /\ UNCHANGED <<backendVars, faults>>

ExportRead(j) ==
  LET kept == FirstOf(Listed(Landing(j)), ListLimit)
  IN /\ job[j].step = "export"
     /\ AllInSpace(Landing(j))
     /\ job' = [job EXCEPT ![j].step = "done", ![j].outcome = "ok",
                           ![j].exported = Show(kept), ![j].partial = Missed(Landing(j)),
                           ![j].count = Cardinality(kept)]
     /\ UNCHANGED <<backendVars, faults>>

\* migrate lists its source, at most ListLimit of what it holds.
SourceRead(j) ==
  \E listed \in Sources :
    LET size == IF Len(listed) < ListLimit THEN Len(listed) ELSE ListLimit
    IN /\ job[j].step = "source"
       /\ \A n \in 1..Len(listed) : InSpace(listed[n], job[j].call.from)
       /\ job' = [job EXCEPT
            ![j].entries = [n \in 1..size |-> AsEntry(listed[n])],
            ![j].step = IF Mode(j) = "duplicate" THEN "entries" ELSE "index"]
       /\ UNCHANGED <<backendVars, faults>>

\* Mutant: an index at the limit is taken for the whole partition.
IndexRead_Whole(j) ==
  /\ job[j].step = "index"
  /\ AllInSpace(Landing(j))
  /\ job' = [job EXCEPT ![j].step = "entries",
                        ![j].index = IndexOf(FirstOf(Listed(Landing(j)), ListLimit))]
  /\ UNCHANGED <<backendVars, faults>>

IndexRead(j) ==
  /\ job[j].step = "index"
  /\ AllInSpace(Landing(j))
  /\ job' = [job EXCEPT ![j].step = "entries",
                        ![j].index = IndexOf(FirstOf(Listed(Landing(j)), ListLimit)),
                        ![j].partial = Missed(Landing(j))]
  /\ UNCHANGED <<backendVars, faults>>

\* check_space refuses a listed memory: the whole call fails, before it wrote.
ReadRefused(j) ==
  /\ \/ job[j].step \in {"export", "index"} /\ ~AllInSpace(Landing(j))
     \/ /\ job[j].step = "source"
        /\ \E listed \in Sources : \E n \in DOMAIN listed :
             ~InSpace(listed[n], job[j].call.from)
  /\ EndJob(j, "internal_error", None)
  /\ UNCHANGED <<backendVars, faults>>

(***************************************************************************)
(* The loop over the entries.                                              *)
(***************************************************************************)

RejectEntry(j) ==
  /\ InLoop(j)
  /\ ~Acceptable(This(j))
  /\ ReportError(j)
  /\ UNCHANGED <<backendVars, faults>>

SkipEntry(j) ==
  /\ InLoop(j)
  /\ Acceptable(This(j))
  /\ Mode(j) = "skip"
  /\ Duplicate(j, This(j)) # None
  /\ job' = [job EXCEPT ![j].at = @ + 1,
       ![j].skipped = @ \cup {<<job[j].at, Duplicate(j, This(j)).id>>}]
  /\ UNCHANGED <<backendVars, faults>>

\* The entry is done as memory i, which the index then holds; or check_space refuses
\* what the backend returned, and the whole call fails.
Record(j, i, m) ==
  IF InSpace(m, Landing(j))
  THEN job' = [job EXCEPT ![j].step = "entries", ![j].at = @ + 1, ![j].fetching = None,
                          ![j].imported = @ \cup {<<job[j].at, i>>},
                          ![j].index[Identity(This(j))] = AsKnown(i, m),
                          ![j].wrote = @ \cup {<<job[j].at, i>>}]
  ELSE EndJob(j, "internal_error", None)

OverwriteEntry(j) ==
  LET known == Duplicate(j, This(j))
  IN /\ Overwrites(j)
     /\ Owned(Landing(j), known.id)
     /\ UpdateEffect(known.id, This(j).content, OverwritePatch(This(j), known),
                     Stamp(j, This(j), known))
     /\ Record(j, known.id, store'[known.id])
     /\ UNCHANGED faults

\* Mutant: the loop goes on to report the entry as imported too.
OverwriteGone_FallsThrough(j) ==
  LET known == Duplicate(j, This(j))
  IN /\ Overwrites(j)
     /\ ~Owned(Landing(j), known.id)
     /\ job' = [job EXCEPT ![j].at = @ + 1, ![j].errors = @ \cup {job[j].at},
                           ![j].imported = @ \cup {<<job[j].at, known.id>>}]
     /\ UNCHANGED <<backendVars, faults>>

\* The indexed memory is gone: the backend's 404 is the entry's error.
OverwriteGone(j) ==
  /\ Overwrites(j)
  /\ ~Owned(Landing(j), Duplicate(j, This(j)).id)
  /\ ReportError(j)
  /\ UNCHANGED <<backendVars, faults>>

\* An entry without metadata is added with none set.
EntryMetadata(entry) == IF entry.metadata = None THEN [k \in MetaKeys |-> None] ELSE entry.metadata

AddEntry(j) ==
  /\ Creates(j)
  /\ AddEffect(created + 1, Landing(j), This(j).content, This(j).scope,
               EntryMetadata(This(j)), Stamp(j, This(j), None))
  /\ job' = [job EXCEPT ![j].step = "readback", ![j].fetching = created + 1,
                        ![j].wrote = @ \cup {<<job[j].at, created + 1>>}]
  /\ UNCHANGED faults

\* The added memory is read back; one that is gone fails the whole call.
ReadBackEntry(j) ==
  LET i == job[j].fetching
  IN /\ job[j].step = "readback"
     /\ Record(j, i, IF Owned(Landing(j), i) THEN store[i] ELSE None)
     /\ UNCHANGED <<backendVars, faults>>

FinishJob(j) ==
  /\ job[j].step = "entries"
  /\ job[j].at > Len(job[j].entries)
  /\ EndJob(j, "ok", Cardinality(job[j].imported))
  /\ UNCHANGED <<backendVars, faults>>

(***************************************************************************)
(* A backend call that fails, and a call cancelled or failing unexpectedly.*)
(* A write that was sent may still take effect later.                      *)
(***************************************************************************)

\* The write the current entry has sent, or none when it awaits no write.
SentWrite(j) ==
  LET known == IF Overwrites(j) THEN Duplicate(j, This(j)) ELSE None
  IN IF ~Overwrites(j) /\ ~Creates(j) THEN {}
     ELSE {[entry |-> job[j].at, id |-> IF known = None THEN None ELSE known.id,
            patch |-> IF known = None THEN NoPatch ELSE OverwritePatch(This(j), known),
            system |-> Stamp(j, This(j), known)]}

\* Mutant: a failed read-back is passed over.
EntryFails_Silent(j) ==
  \E sent \in SUBSET SentWrite(j) :
    /\ faults < MaxFaults
    /\ job[j].step = "readback" \/ Overwrites(j) \/ Creates(j)
    /\ job' = [job EXCEPT
         ![j].step = "entries", ![j].at = @ + 1, ![j].fetching = None,
         ![j].errors = IF job[j].step = "readback" THEN @ ELSE @ \cup {job[j].at},
         ![j].pending = @ \cup sent]
    /\ faults' = faults + 1
    /\ UNCHANGED backendVars

\* MemoryAPIError at an entry's own call is that entry's error.
EntryFails(j) ==
  \E sent \in SUBSET SentWrite(j) :
    /\ faults < MaxFaults
    /\ job[j].step = "readback" \/ Overwrites(j) \/ Creates(j)
    /\ job' = [job EXCEPT
         ![j].step = "entries", ![j].at = @ + 1, ![j].fetching = None,
         ![j].errors = @ \cup {job[j].at}, ![j].pending = @ \cup sent]
    /\ faults' = faults + 1
    /\ UNCHANGED backendVars

\* Anything else, or an error at a read before the loop, ends the call.  A backend
\* that raises something unexpected has rolled its write back.
Interrupted(j) ==
  \E outcome \in JobFaults, sent \in SUBSET SentWrite(j) :
    /\ faults < MaxFaults
    /\ AwaitsBackend(j)
    /\ outcome \in {"timeout", "backend_error"} => job[j].step \in {"export", "source", "index"}
    /\ outcome = "error" => sent = {}
    /\ job' = [job EXCEPT ![j].step = "done", ![j].outcome = outcome,
                          ![j].pending = @ \cup sent]
    /\ faults' = faults + 1
    /\ UNCHANGED backendVars

\* A sent write takes effect after all.
LateEntry(j) ==
  \E w \in job[j].pending :
    LET entry == job[j].entries[w.entry]
        i == IF w.id = None THEN created + 1 ELSE w.id
    IN /\ IF w.id = None
          THEN AddEffect(i, Landing(j), entry.content, entry.scope, EntryMetadata(entry), w.system)
          ELSE /\ Owned(Landing(j), i)
               /\ UpdateEffect(i, entry.content, w.patch, w.system)
       /\ job' = [job EXCEPT ![j].pending = @ \ {w}, ![j].wrote = @ \cup {<<w.entry, i>>}]
       /\ UNCHANGED faults

(***************************************************************************)
(* The specification.                                                      *)
(***************************************************************************)

IdleJob == [step |-> "idle", call |-> None, entries |-> <<>>, at |-> 1, index |-> NoIndex,
            partial |-> FALSE, fetching |-> None, exported |-> Nothing, imported |-> {},
            skipped |-> {}, errors |-> {}, pending |-> {}, wrote |-> {},
            outcome |-> None, count |-> None]

TransferInit ==
  /\ PolicyInit
  /\ job = [j \in Jobs |-> IdleJob]
  /\ disturbed = [j \in Jobs |-> {}]
  /\ faults = 0

\* What a step changes disturbs every job past its reads, except those it is a step of.
Disturb(own) ==
  disturbed' = [j \in Jobs |->
    IF job[j].step \in {"idle", "source", "index"} THEN {}
    ELSE IF j \in own THEN disturbed[j] ELSE disturbed[j] \cup Touched]

\* The backend answers the call a job awaits, or the job goes on without one.
JobProceed(j) ==
  \/ ExportRead(j) \/ SourceRead(j) \/ IndexRead(j) \/ ReadRefused(j)
  \/ RejectEntry(j) \/ SkipEntry(j) \/ OverwriteEntry(j) \/ OverwriteGone(j)
  \/ AddEntry(j) \/ ReadBackEntry(j) \/ FinishJob(j)

JobProgress(j) == JobProceed(j) /\ UNCHANGED requestVars /\ Disturb({j})

TransferNext ==
  \/ \E j \in Jobs :
       \/ JobProgress(j)
       \/ /\ StartJob(j) \/ EntryFails(j) \/ Interrupted(j)
          /\ UNCHANGED requestVars
          /\ Disturb({j})
       \/ /\ LateEntry(j)
          /\ UNCHANGED requestVars
          /\ Disturb({})
  \/ /\ PolicyNext
     /\ UNCHANGED <<job, faults>>
     /\ Disturb({})

TransferSpec == TransferInit /\ [][TransferNext]_allVars

(***************************************************************************)
(* Properties.                                                             *)
(***************************************************************************)

\* Every job stays where the code can be, and what it reports is well formed
\* (transfer.py 62-75, 181-293).
TransferTypeOK ==
  /\ TypeOK
  /\ job \in [Jobs -> JobState]
  /\ disturbed \in [Jobs -> SUBSET Ids]
  /\ faults \in 0..MaxFaults

Finished(j) == job[j].step = "done" /\ job[j].outcome = "ok" /\ job[j].call.kind # "export"
Numbers(pairs) == {p[1] : p \in pairs}

\* When an import or migration ends, each entry is in exactly one of imported,
\* skipped and errors, and the audit record counts the imported ones, whatever
\* failed on the way (transfer.py 198-286, policy/__init__.py 374).
EntriesAccounted ==
  \A j \in Jobs : Finished(j) =>
    LET parts == <<Numbers(job[j].imported), Numbers(job[j].skipped), job[j].errors>>
    IN /\ UNION Range(parts) = 1..Len(job[j].entries)
       /\ \A a, b \in 1..3 : a # b => parts[a] \cap parts[b] = {}
       /\ job[j].count = Cardinality(parts[1])

\* Nothing is stored silently: a memory an ended import wrote is reported imported, or
\* its entry is reported as an error (transfer.py 271-286).
NoSilentWrites ==
  \A j \in Jobs : Finished(j) =>
    \A w \in job[j].wrote : w \in job[j].imported \/ w[1] \in job[j].errors

\* The entry holds as memory i, but for what was done to i by someone else since.
HeldAs(j, n, i) ==
  LET entry == job[j].entries[n]
  IN /\ store[i] # None
     /\ store[i].partition = Landing(j)
     /\ Identity(store[i]) = Identity(entry)

\* No later entry of the same job was stored as memory i.
LastFor(j, n, i) == \A p \in job[j].imported : p[2] = i => p[1] <= n

\* What an import reports is in the store: a skipped entry's memory has its content
\* and scope, an imported one's also exactly its metadata, the reserved keys apart, and
\* its author, unless someone else changed that memory since the import read its index
\* (transfer.py 229-286; the index is stale from then on).
ReportedIsStored ==
  \A j \in Jobs :
    /\ \A p \in job[j].skipped \cup job[j].imported :
         p[2] \notin disturbed[j] => HeldAs(j, p[1], p[2])
    /\ \A p \in job[j].imported :
         LET entry == job[j].entries[p[1]]
         IN /\ p[2] \notin disturbed[j]
            /\ LastFor(j, p[1], p[2])
            => /\ store[p[2]].system.author = Stamp(j, entry, None).author
               /\ entry.metadata # None => \A k \in MetaKeys \ ReservedKeys :
                    store[p[2]].metadata[k] = entry.metadata[k]

\* An import that does not ask for duplicates stores a second memory of one content
\* and scope only when its index may have missed the first, someone else stored or
\* changed the first since the index was read, or an entry of its own that it reports
\* as failed was stored (transfer.py 193, 229-286).  So importing a batch again
\* stores nothing again.
DuplicateNeedsRace ==
  [][\A j \in Jobs : AddEntry(j) /\ Mode(j) # "duplicate" =>
       \A i \in Own(Landing(j)) : Identity(store[i]) = Identity(This(j)) =>
         \/ job[j].partial
         \/ i \in disturbed[j]
         \/ \E n \in job[j].errors : <<n, i>> \in job[j].wrote]_allVars

\* What is not a client's to change outlives every import, overwrite and update: the
\* reserved metadata keys, and the creator, which only a migration rewrites, with the
\* system fields it copies (transfer.py 238-250, policy/__init__.py 353-355).
OverwriteKeeps ==
  [][\A i \in Stored : store'[i] # None =>
       /\ \A k \in ReservedKeys : store'[i].metadata[k] = store[i].metadata[k]
       /\ store'[i].system.created_by # store[i].system.created_by =>
            \E j \in Jobs : /\ job[j].call # None /\ job[j].call.kind = "migrate"
                           /\ i \in {p[2] : p \in job'[j].wrote}]_allVars

\* A job writes in the partition it lands in alone, and what it writes records that
\* space: migrated memories too, which carry the source's (transfer.py 340-343).
JobsStayInSpace ==
  [][\A j \in Jobs : \A p \in job'[j].wrote \ job[j].wrote :
       /\ store'[p[2]].partition = Landing(j)
       /\ store'[p[2]].system.space = Landing(j)
       /\ store[p[2]] # None => store[p[2]].partition = Landing(j)]_allVars

\* An export holds memories of the caller's space alone, and every one of them unless
\* it says it was truncated (transfer.py 89-129).
ExportComplete ==
  [][\A j \in Jobs : ExportRead(j) =>
       LET shown == {i \in Ids : job'[j].exported[i] # None}
       IN /\ shown \subseteq Own(Landing(j))
          /\ ~job'[j].partial => shown = Own(Landing(j))
          /\ \A i \in shown : store[i].system.space \in {None, Landing(j)}]_allVars

=============================================================================
