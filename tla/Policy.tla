------------------------------- MODULE Policy -------------------------------
(***************************************************************************)
(* The policy layer (memcp/policy): the only caller of a backend.  Each    *)
(* client request is a process.  asyncio runs a request without            *)
(* interruption between two awaits, and every await here is a backend call, *)
(* so one action is one backend call taking effect together with the code  *)
(* that runs when it returns; requests interleave at every call.           *)
(*                                                                         *)
(* The backend is MemoryBackend: its store, its history and its effects.   *)
(* Isolates = FALSE describes a backend that has lost the partition filter *)
(* of its reads and by-id writes: the reason policy checks what it reads.  *)
(*                                                                         *)
(* Abstractions.  The checks on an argument's form are one verdict the     *)
(* call carries; whether the metadata fits, the scope is empty, or an      *)
(* update changes anything is computed.  A listing is a set, since nothing *)
(* here depends on its order beyond who is inside the limit.               *)
(***************************************************************************)
EXTENDS MemoryBackend, FiniteSetsExt

CONSTANTS
  Keys,          \* configured keys: a name and the grant it holds
  Requests,      \* bound: the requests a behaviour contains, each used once
  Calls,         \* the operations and arguments clients send
  Preload,       \* what the store may hold at startup, oldest memory first
  MaxMetadata,   \* MAX_METADATA_BYTES
  Score,         \* keyword score of a content for a query, None for no match
  ExtractsFacts, \* the backend runs a model on add(infer=True)
  Isolates,      \* the backend keeps partitions apart
  Faults         \* how a backend call may end other than by its reply

Key == [name : Names, space : Spaces, relation : {"reader", "writer"}]

ByIdOps == {"get", "update", "delete", "history"}
WriterOps == {"add", "update", "delete", "delete_all"}
Ops == ByIdOps \cup WriterOps \cup {"search", "list_memories", "entities"}

Queries == {q[1] : q \in DOMAIN Score}

\* What the rules on an argument's form answer: the first rule it breaks, or "ok".
ArgumentVerdicts == {"ok", "validation_error", "invalid_scope", "nested_filter"}

\* One tool call.  id = None is a malformed id, cursor = None one the backend can't
\* read; checks is the verdict of the argument rules that are not computed here.
Call == [op        : Ops,
         id        : Ids \cup {None},
         content   : Contents \cup {None},
         scope     : Scope,
         metadata  : Patch,
         infer     : BOOLEAN,
         query     : Queries,
         limit     : Nat \ {0},
         cursor    : Int \cup {None},
         threshold : Nat,
         checks    : ArgumentVerdicts]

FaultKinds == {"cancelled", "timeout", "backend_error", "error"}

Outcomes == {"ok", "validation_error", "invalid_scope", "nested_filter",
             "scope_required", "forbidden", "not_found", "internal_error"} \cup FaultKinds

Refusals == {"validation_error", "invalid_scope", "nested_filter", "scope_required",
             "forbidden", "not_found"}

ASSUME KeysAssumption == Keys \subseteq Key
ASSUME CallsAssumption ==
  /\ Calls \subseteq Call
  /\ \A c \in Calls : c.op = "add" => c.content # None /\ c.metadata \in Metadata
ASSUME FiniteAssumption == IsFiniteSet(ScopeKeys) /\ IsFiniteSet(Labels)
ASSUME PreloadAssumption ==
  \A q \in Preload : q \in Seq(Memory) /\ Len(q) <= MaxMemories
Nothing == [i \in Ids |-> None]

\* What the client gets: the outcome code, the memories shown to it, a change log,
\* entity rows, and the count the audit record also carries.
Reply == [outcome : Outcomes,
          shown   : [Ids -> Memory \cup {None}],
          log     : Seq(HistoryEntry),
          rows    : SUBSET (ScopeKeys \X Labels),
          count   : Nat \cup {None}]

\* One record of the audit log; its operation, key, space and relation are those
\* of the request.
AuditEntry == [outcome : Outcomes, ids : SUBSET Ids, count : Nat \cup {None}]

ASSUME PolicyConstants ==
  /\ MaxMetadata \in Nat
  /\ ExtractsFacts \in BOOLEAN /\ Isolates \in BOOLEAN
  /\ Faults \subseteq FaultKinds
  /\ None \notin Keys /\ None \notin Calls /\ None \notin Int
  /\ None \notin Reply

\* Where a request is: not sent, awaiting a backend call, or answered.
Awaiting == {"add", "readback", "search", "read", "update", "delete",
             "delete_all", "list_memories", "history", "entities"}

VARIABLES
  pc,      \* request -> "idle", the call it awaits, or "done"
  caller,  \* request -> the key BearerGate set for it, or None
  call,    \* request -> its Call
  seen,    \* request -> the memory _read returned
  todo,    \* request -> ids the add returned and that are not read back yet
  ids,     \* request -> the ids its audit entry names so far
  late,    \* request -> a write that was sent, whose reply nobody waits for
  reply,   \* request -> its Reply
  audit,   \* request -> the audit records it wrote
  alarm,   \* request -> the ids it logged isolation_violation for
  wrote    \* request -> the memories it changed (not program state: what the
           \* properties compare the audit log and the outcome with)

requestVars == <<pc, caller, call, seen, todo, ids, late, reply, audit, alarm, wrote>>
vars == <<backendVars, requestVars>>

(***************************************************************************)
(* What the request code computes.                                         *)
(***************************************************************************)

\* Bytes of the metadata as JSON.
Size(metadata) ==
  MapThenSumSet(LAMBDA k : IF metadata[k] = None THEN 0 ELSE metadata[k], MetaKeys)

\* Mutant: only the partition is compared, not the recorded space.
InSpace_PartitionOnly(m, partition) == m # None /\ m.partition = partition

\* Mutant: any memory that was found passes.
InSpace_Present(m, partition) == m # None

\* check_space: the memory is there and is in the partition policy asked for.
InSpace(m, partition) ==
  /\ m # None
  /\ m.partition = partition
  /\ m.system.space \in {None, partition}

\* Mutant: the acting key is stamped as the creator of whatever it writes.
SystemFor_NewCreator(partition, author, created_by) ==
  [space |-> partition, author |-> author, created_by |-> author]

\* The system fields of a write: space, acting key as author, and the creator.
SystemFor(partition, author, created_by) ==
  [space |-> partition, author |-> author, created_by |-> created_by]

\* Mutant: only the patch itself is measured against the cap.
OverCap_PatchOnly(stored, patch) ==
  patch # NoPatch /\ Size(Patched([k \in MetaKeys |-> None], patch)) > MaxMetadata

\* check_metadata_size with the stored metadata: over the cap and growing.
OverCap(stored, patch) ==
  LET size == Size(Patched(stored, patch))
  IN patch # NoPatch /\ ~(size <= MaxMetadata \/ size <= Size(stored))

\* require(): a writer also holds reader.
Permitted(key, op) == op \in WriterOps => key.relation = "writer"

\* The first check that refuses a call before the backend is reached: the key, its
\* relation (before any argument), then the arguments.
Verdict(key, c) ==
  IF key = None THEN "error"
  ELSE IF ~Permitted(key, c.op) THEN "forbidden"
  ELSE IF \/ c.op = "add" /\ Size(c.metadata) > MaxMetadata
          \/ c.op = "update" /\ c.content = None /\ c.metadata = NoPatch
    THEN "validation_error"
  ELSE IF c.checks # "ok" THEN c.checks
  ELSE IF c.op \in ByIdOps /\ c.id = None THEN "validation_error"
  ELSE IF c.op = "delete_all" /\ \A k \in ScopeKeys : c.scope[k] = None
    THEN "scope_required"
  ELSE "ok"

Space(r) == caller[r].space

\* Mutant: the lookup by id forgets the partition.
Visible_AnyPartition(partition, i) == store[i] # None

\* The backend's by-id lookup and its scan, and what they answer without a partition
\* filter (Isolates = FALSE).
Visible(partition, i) == IF Isolates THEN Owned(partition, i) ELSE store[i] # None
Found(partition, scope) == IF Isolates THEN Matching(partition, scope) ELSE Stored

\* The `limit` best scores, the older memory first among equals (a stable sort).
Ranked(candidates, query, limit) ==
  LET score(i) == Score[<<query, store[i].content>>]
      relevant == {i \in candidates : score(i) # None}
      before(j, i) == score(j) > score(i) \/ (score(j) = score(i) /\ j < i)
  IN {i \in relevant : Cardinality({j \in relevant : before(j, i)}) < limit}

\* paginate: the slice of the listing that starts at the cursor.  Any integer is a
\* cursor, and a negative slice bound counts from the end, as in Python.
Page(listed, cursor, limit) ==
  LET bound(n) == IF n < 0 THEN Cardinality(listed) + n ELSE n
      position(i) == Cardinality({j \in listed : j < i})
  IN {i \in listed : bound(cursor) <= position(i) /\ position(i) < bound(cursor + limit)}

Bare(outcome) ==
  [outcome |-> outcome, shown |-> Nothing, log |-> <<>>, rows |-> {}, count |-> None]

\* A successful reply: memories, change log, entity rows, count.
Result(shown, log, rows, count) ==
  [outcome |-> "ok", shown |-> shown, log |-> log, rows |-> rows, count |-> count]

Show(S) == [i \in Ids |-> IF i \in S THEN store[i] ELSE None]

Listing(S) == Result(Show(S), <<>>, {}, Cardinality(S))

\* The request ends: its reply goes out and audited() writes its record.
Answer(r, rep, named) ==
  /\ pc' = [pc EXCEPT ![r] = "done"]
  /\ reply' = [reply EXCEPT ![r] = rep]
  /\ audit' = [audit EXCEPT
       ![r] = Append(@, [outcome |-> rep.outcome, ids |-> named, count |-> rep.count])]

\* check_space refused memory i: isolation_violation is logged.
Alarm(r, i) ==
  /\ alarm' = [alarm EXCEPT ![r] = @ \cup {i}]
  /\ Answer(r, Bare("internal_error"), ids[r])

Wrote(r, S) == wrote' = [wrote EXCEPT ![r] = @ \cup S]

(***************************************************************************)
(* A request arrives: audited() opens its entry, require() and the         *)
(* argument checks run, and the first backend call goes out.               *)
(***************************************************************************)

Start(r) ==
  \E key \in Keys \cup {None}, c \in Calls :
    LET verdict == Verdict(key, c)
        named == IF c.op \in ByIdOps /\ c.id # None THEN {c.id} ELSE {}
    IN /\ pc[r] = "idle"
       /\ caller' = [caller EXCEPT ![r] = key]
       /\ call' = [call EXCEPT ![r] = c]
       /\ ids' = [ids EXCEPT ![r] = named]
       /\ \/ /\ verdict # "ok"
             /\ Answer(r, Bare(verdict), named)
          \/ /\ verdict = "ok"
             /\ pc' = [pc EXCEPT ![r] = IF c.op \in ByIdOps THEN "read" ELSE c.op]
             /\ UNCHANGED <<reply, audit>>
       /\ UNCHANGED <<backendVars, seen, todo, late, alarm, wrote>>

(***************************************************************************)
(* _read: the lookup and space check before every by-id operation.         *)
(***************************************************************************)

ReadMissing(r) ==
  /\ pc[r] = "read"
  /\ ~Visible(Space(r), call[r].id)
  /\ Answer(r, Bare("not_found"), ids[r])
  /\ UNCHANGED <<backendVars, caller, call, seen, todo, ids, late, alarm, wrote>>

ReadForeign(r) ==
  /\ pc[r] = "read"
  /\ Visible(Space(r), call[r].id)
  /\ ~InSpace(store[call[r].id], Space(r))
  /\ Alarm(r, call[r].id)
  /\ UNCHANGED <<backendVars, caller, call, seen, todo, ids, late, wrote>>

Readable(r) ==
  /\ pc[r] = "read"
  /\ Visible(Space(r), call[r].id)
  /\ InSpace(store[call[r].id], Space(r))

\* get returns the memory it read.
ReadShown(r) ==
  /\ Readable(r)
  /\ call[r].op = "get"
  /\ Answer(r, Result(Show({call[r].id}), <<>>, {}, None), ids[r])
  /\ UNCHANGED <<backendVars, caller, call, seen, todo, ids, late, alarm, wrote>>

\* Mutant: the cap is checked once the write is done.
ReadOverCap_AfterWrite(r) ==
  /\ Readable(r)
  /\ call[r].op = "update"
  /\ OverCap(store[call[r].id].metadata, call[r].metadata)
  /\ UpdateEffect(call[r].id, call[r].content, call[r].metadata, None)
  /\ Wrote(r, {call[r].id})
  /\ Answer(r, Bare("validation_error"), ids[r])
  /\ UNCHANGED <<caller, call, seen, todo, ids, late, alarm>>

\* update refuses a patch that would take what it read over the cap.
ReadOverCap(r) ==
  /\ Readable(r)
  /\ call[r].op = "update"
  /\ OverCap(store[call[r].id].metadata, call[r].metadata)
  /\ Answer(r, Bare("validation_error"), ids[r])
  /\ UNCHANGED <<backendVars, caller, call, seen, todo, ids, late, alarm, wrote>>

\* update, delete and history go on to their own call, with the memory they read.
ReadOn(r) ==
  /\ Readable(r)
  /\ call[r].op # "get"
  /\ call[r].op = "update" => ~OverCap(store[call[r].id].metadata, call[r].metadata)
  /\ seen' = [seen EXCEPT ![r] = store[call[r].id]]
  /\ pc' = [pc EXCEPT ![r] = call[r].op]
  /\ UNCHANGED <<backendVars, caller, call, todo, ids, late, reply, audit, alarm, wrote>>

(***************************************************************************)
(* add: the write, then each memory it stored or changed is read back.     *)
(***************************************************************************)

\* What a store may do with an add: a new memory; a store that extracts facts may
\* also, or instead, change and remove memories the partition holds, or do nothing.
Extractions(r) ==
  LET own == {i \in Stored : store[i].partition = Space(r)}
  IN IF ExtractsFacts /\ call[r].infer
     THEN {x \in [fresh : BOOLEAN, changed : SUBSET own, removed : SUBSET own] :
             x.changed \cap x.removed = {}}
     ELSE {[fresh |-> TRUE, changed |-> {}, removed |-> {}]}

\* Created and changed memories carry the caller as author; a changed one keeps its
\* stored creator and space.
AddWrite(r, x) ==
  LET new == NewMemory(Space(r), call[r].content, call[r].scope, call[r].metadata,
                       SystemFor(Space(r), caller[r].name, caller[r].name))
      Changed(m) == Rewritten(m, call[r].content, NoPatch,
                              [space |-> m.system.space, author |-> caller[r].name,
                               created_by |-> m.system.created_by])
      added == IF x.fresh THEN {created + 1} ELSE {}
  IN /\ x.fresh => created < MaxMemories
     /\ created' = IF x.fresh THEN created + 1 ELSE created
     /\ store' = [i \in Ids |->
          IF i \in added THEN new
          ELSE IF i \in x.changed THEN Changed(store[i])
          ELSE IF i \in x.removed THEN None ELSE store[i]]
     /\ history' = [i \in Ids |->
          IF i \in added THEN <<CreatedEntry(new)>>
          ELSE IF i \in x.changed
               THEN Append(history[i], UpdatedEntry(store[i], Changed(store[i])))
          ELSE IF i \in x.removed THEN <<>> ELSE history[i]]
     /\ Wrote(r, added \cup x.changed \cup x.removed)

\* Mutant: removed memories are read back too.
ReadBackIds_All(x) == (IF x.fresh THEN {created + 1} ELSE {}) \cup x.changed \cup x.removed

\* The memories an add stored or changed, which are read back, and all it reports.
ReadBackIds(x) == (IF x.fresh THEN {created + 1} ELSE {}) \cup x.changed

\* Mutant: the audit entry names only what is read back.
ItemIds_ReadBack(x) == ReadBackIds(x)

ItemIds(x) == ReadBackIds(x) \cup x.removed

AddReply(r) ==
  /\ pc[r] = "add"
  /\ \E x \in Extractions(r) :
       /\ AddWrite(r, x)
       /\ ids' = [ids EXCEPT ![r] = ItemIds(x)]
       /\ todo' = [todo EXCEPT ![r] = ReadBackIds(x)]
       /\ \/ /\ ReadBackIds(x) = {}
             /\ Answer(r, Bare("ok"), ItemIds(x))
          \/ /\ ReadBackIds(x) # {}
             /\ pc' = [pc EXCEPT ![r] = "readback"]
             /\ UNCHANGED <<reply, audit>>
  /\ UNCHANGED <<caller, call, seen, late, alarm>>

\* The fetched memory, None when the backend no longer finds it.
Fetched(r, i) == IF Visible(Space(r), i) THEN store[i] ELSE None

ReadBack(r) ==
  \E i \in todo[r] :
    /\ pc[r] = "readback"
    /\ InSpace(Fetched(r, i), Space(r))
    /\ todo' = [todo EXCEPT ![r] = @ \ {i}]
    /\ \/ /\ todo[r] = {i}
          /\ Answer(r, Bare("ok"), ids[r])
       \/ /\ todo[r] # {i}
          /\ UNCHANGED <<pc, reply, audit>>
    /\ UNCHANGED <<backendVars, caller, call, seen, ids, late, alarm, wrote>>

ReadBackFails(r) ==
  \E i \in todo[r] :
    /\ pc[r] = "readback"
    /\ ~InSpace(Fetched(r, i), Space(r))
    /\ Alarm(r, i)
    /\ UNCHANGED <<backendVars, caller, call, seen, todo, ids, late, wrote>>

(***************************************************************************)
(* update, delete and delete_all.  A by-id write that no longer finds its  *)
(* memory is answered not_found.                                           *)
(***************************************************************************)

UpdateWrite(r) ==
  /\ Visible(Space(r), call[r].id)
  /\ UpdateEffect(call[r].id, call[r].content, call[r].metadata,
                  SystemFor(Space(r), caller[r].name, seen[r].system.created_by))
  /\ Wrote(r, {call[r].id})

UpdateReply(r) ==
  LET i == call[r].id
  IN /\ pc[r] = "update"
     /\ UpdateWrite(r)
     /\ \/ /\ InSpace(store'[i], Space(r))
           /\ Answer(r, Result([Nothing EXCEPT ![i] = store'[i]], <<>>, {}, None), ids[r])
           /\ UNCHANGED alarm
        \/ /\ ~InSpace(store'[i], Space(r))
           /\ Alarm(r, i)
     /\ UNCHANGED <<caller, call, seen, todo, ids, late>>

DeleteWrite(r) ==
  /\ Visible(Space(r), call[r].id)
  /\ RemoveEffect({call[r].id})
  /\ Wrote(r, {call[r].id})

DeleteReply(r) ==
  /\ pc[r] = "delete"
  /\ DeleteWrite(r)
  /\ Answer(r, Bare("ok"), ids[r])
  /\ UNCHANGED <<caller, call, seen, todo, ids, late, alarm>>


\* The memory went between the read and the call that follows it.
GoneReply(r) ==
  /\ pc[r] \in {"update", "delete", "history"}
  /\ ~Visible(Space(r), call[r].id)
  /\ Answer(r, Bare("not_found"), ids[r])
  /\ UNCHANGED <<backendVars, caller, call, seen, todo, ids, late, alarm, wrote>>

DeleteAllWrite(r) ==
  /\ RemoveEffect(Matching(Space(r), call[r].scope))
  /\ Wrote(r, Matching(Space(r), call[r].scope))

\* How many memories delete_all says it deleted; mem0, the store that extracts
\* facts, gives no count.
DeletedCount(doomed) == IF ExtractsFacts THEN None ELSE Cardinality(doomed)

DeleteAllReply(r) ==
  /\ pc[r] = "delete_all"
  /\ DeleteAllWrite(r)
  /\ Answer(r, Result(Nothing, <<>>, {}, DeletedCount(Matching(Space(r), call[r].scope))),
            ids[r])
  /\ UNCHANGED <<caller, call, seen, todo, ids, late, alarm>>

(***************************************************************************)
(* search, list_memories, history and entities.  Every memory a scan       *)
(* returns is space-checked; one outside the requested scope is dropped.   *)
(***************************************************************************)

InScope(S, scope) == {i \in S : ScopeMatches(store[i].scope, scope)}

\* What the awaited scan returns.
Scanned(r) ==
  LET c == call[r]
      found == Found(Space(r), c.scope)
  IN IF c.op = "search" THEN Ranked(found, c.query, c.limit)
     ELSE Page(found, c.cursor, c.limit)

Scanning(r) ==
  /\ pc[r] \in {"search", "list_memories"}
  /\ pc[r] = "list_memories" => call[r].cursor # None

ScanReply(r) ==
  /\ Scanning(r)
  /\ \A i \in Scanned(r) : InSpace(store[i], Space(r))
  /\ Answer(r, Listing(InScope(Scanned(r), call[r].scope)), ids[r])
  /\ UNCHANGED <<backendVars, caller, call, seen, todo, ids, late, alarm, wrote>>

ScanForeign(r) ==
  \E i \in Ids :
    /\ Scanning(r)
    /\ i \in Scanned(r)
    /\ ~InSpace(store[i], Space(r))
    /\ Alarm(r, i)
    /\ UNCHANGED <<backendVars, caller, call, seen, todo, ids, late, wrote>>

\* The backend raises ValueError for a cursor it can't read.
BadCursor(r) ==
  /\ pc[r] = "list_memories"
  /\ call[r].cursor = None
  /\ Answer(r, Bare("validation_error"), ids[r])
  /\ UNCHANGED <<backendVars, caller, call, seen, todo, ids, late, alarm, wrote>>

HistoryReply(r) ==
  /\ pc[r] = "history"
  /\ Visible(Space(r), call[r].id)
  /\ Answer(r, Result(Nothing, history[call[r].id], {}, None), ids[r])
  /\ UNCHANGED <<backendVars, caller, call, seen, todo, ids, late, alarm, wrote>>

\* The scope values the caller's memories carry (the counts per value are left out).
EntityRows(S) ==
  {row \in ScopeKeys \X Labels : \E i \in S : store[i].scope[row[1]] = row[2]}

\* At most `limit` rows; which ones come first is left open.
EntitiesReply(r) ==
  /\ pc[r] = "entities"
  /\ LET all == EntityRows(Found(Space(r), call[r].scope))
     IN \E rows \in SUBSET all :
          /\ rows = all \/ Cardinality(rows) = call[r].limit
          /\ Cardinality(rows) <= call[r].limit
          /\ Answer(r, Result(Nothing, <<>>, rows, Cardinality(rows)), ids[r])
  /\ UNCHANGED <<backendVars, caller, call, seen, todo, ids, late, alarm, wrote>>

(***************************************************************************)
(* A backend call that fails, times out, or is cancelled with the request. *)
(* A write that was already sent may still reach the store afterwards; one *)
(* that raised an unexpected error in the backend was rolled back.         *)
(***************************************************************************)

\* Mutant: only Exception is caught, so a cancelled request leaves no record.
Fault_NoRecord(r) ==
  \E f \in Faults :
    /\ pc[r] \in Awaiting
    /\ IF f = "cancelled"
       THEN /\ pc' = [pc EXCEPT ![r] = "done"]
            /\ reply' = [reply EXCEPT ![r] = Bare(f)]
            /\ UNCHANGED audit
       ELSE Answer(r, Bare(f), ids[r])
    /\ late' = [late EXCEPT
         ![r] = IF f # "error" /\ pc[r] \in WriterOps THEN pc[r] ELSE "none"]
    /\ UNCHANGED <<backendVars, caller, call, seen, todo, ids, alarm, wrote>>

Fault(r) ==
  \E f \in Faults :
    /\ pc[r] \in Awaiting
    /\ Answer(r, Bare(f), ids[r])
    /\ late' = [late EXCEPT
         ![r] = IF f # "error" /\ pc[r] \in WriterOps THEN pc[r] ELSE "none"]
    /\ UNCHANGED <<backendVars, caller, call, seen, todo, ids, alarm, wrote>>

LateWrite(r) ==
  /\ \/ late[r] = "add" /\ \E x \in Extractions(r) : AddWrite(r, x)
     \/ late[r] = "update" /\ UpdateWrite(r)
     \/ late[r] = "delete" /\ DeleteWrite(r)
     \/ late[r] = "delete_all" /\ DeleteAllWrite(r)
  /\ late' = [late EXCEPT ![r] = "none"]
  /\ UNCHANGED <<pc, caller, call, seen, todo, ids, reply, audit, alarm>>

(***************************************************************************)
(* The specification.                                                      *)
(***************************************************************************)

PolicyInit ==
  /\ \E q \in Preload :
       /\ store = [i \in Ids |-> IF i <= Len(q) THEN q[i] ELSE None]
       /\ history = [i \in Ids |-> IF i <= Len(q) THEN <<CreatedEntry(q[i])>> ELSE <<>>]
       /\ created = Len(q)
  /\ pc = [r \in Requests |-> "idle"]
  /\ caller = [r \in Requests |-> None]
  /\ call = [r \in Requests |-> None]
  /\ seen = [r \in Requests |-> None]
  /\ todo = [r \in Requests |-> {}]
  /\ ids = [r \in Requests |-> {}]
  /\ late = [r \in Requests |-> "none"]
  /\ reply = [r \in Requests |-> None]
  /\ audit = [r \in Requests |-> <<>>]
  /\ alarm = [r \in Requests |-> {}]
  /\ wrote = [r \in Requests |-> {}]

\* The backend answers the call the request awaits, and the request goes on.
Proceed(r) ==
  \/ ReadMissing(r) \/ ReadForeign(r) \/ ReadShown(r) \/ ReadOverCap(r) \/ ReadOn(r)
  \/ AddReply(r) \/ ReadBack(r) \/ ReadBackFails(r)
  \/ UpdateReply(r) \/ DeleteReply(r) \/ GoneReply(r) \/ DeleteAllReply(r)
  \/ ScanReply(r) \/ ScanForeign(r) \/ BadCursor(r) \/ HistoryReply(r) \/ EntitiesReply(r)

PolicyNext == \E r \in Requests : Start(r) \/ Proceed(r) \/ Fault(r) \/ LateWrite(r)

PolicySpec == PolicyInit /\ [][PolicyNext]_vars

\* Every backend call returns: a thread runs its statements to the end, an HTTP
\* request ends by its timeout.
FairPolicySpec == PolicySpec /\ \A r \in Requests : WF_vars(Proceed(r))

(***************************************************************************)
(* Properties.                                                             *)
(***************************************************************************)

\* Every request stays where the code can be, and every reply, record and stored
\* memory is complete, whatever fails (policy/__init__.py 144-320).
PolicyTypeOK ==
  /\ TypeOK
  /\ pc \in [Requests -> Awaiting \cup {"idle", "done"}]
  /\ caller \in [Requests -> Keys \cup {None}]
  /\ call \in [Requests -> Calls \cup {None}]
  /\ seen \in [Requests -> Memory \cup {None}]
  /\ todo \in [Requests -> SUBSET Ids]
  /\ ids \in [Requests -> SUBSET Ids]
  /\ late \in [Requests -> WriterOps \cup {"none"}]
  /\ reply \in [Requests -> Reply \cup {None}]
  /\ audit \in [Requests -> Seq(AuditEntry)]
  /\ alarm \in [Requests -> SUBSET Ids]
  /\ wrote \in [Requests -> SUBSET Ids]

Answered(r) == pc[r] = "done"
Shown(r) == {i \in Ids : Answered(r) /\ reply[r].shown[i] # None}

\* A memory from another space never reaches a client, whatever the backend
\* returns: every memory shown is in the caller's partition and records no other
\* space (space.py 16-37, called on each read in policy/__init__.py).
ResponseInSpace ==
  \A r \in Requests : \A i \in Shown(r) :
    /\ caller[r] # None
    /\ reply[r].shown[i].partition = caller[r].space
    /\ reply[r].shown[i].system.space \in {None, caller[r].space}

\* A memory changes only by the request of a writer in its own space, even when
\* the backend writes by id alone: the read before each by-id write, which may be
\* stale by then, is what keeps another space's memory out of reach
\* (policy/__init__.py 239, 260).
WritesStayInSpace ==
  [][\A i \in Touched : \E r \in Requests :
       /\ i \in wrote'[r] \ wrote[r]
       /\ caller[r] # None
       /\ caller[r].relation = "writer"
       /\ PartitionOf(i) = caller[r].space]_vars

\* Whoever rewrites a memory, its recorded creator stays, although an update writes
\* back the creator it read before it (policy/__init__.py 239, 248).
CreatorKept ==
  [][\A i \in Ids : store[i] # None /\ store'[i] # None =>
       store'[i].system.created_by = store[i].system.created_by]_vars

\* A request refused with one of policy's own codes changed nothing, then or later
\* (a "not_found" by a write that lost a race included).
RefusalsWriteNothing ==
  \A r \in Requests :
    Answered(r) /\ reply[r].outcome \in Refusals => wrote[r] = {} /\ late[r] = "none"

\* Each operation leaves exactly one audit record, with the outcome and count the
\* client got, when it is cancelled or fails too, and none before it ends
\* (audit.py 88-110).
AuditedOnce ==
  \A r \in Requests :
    IF Answered(r)
    THEN /\ Len(audit[r]) = 1
         /\ audit[r][1].outcome = reply[r].outcome
         /\ audit[r][1].count = reply[r].count
    ELSE audit[r] = <<>>

\* The audit record of an add, update or delete that was not interrupted names
\* every memory the request changed (policy/__init__.py 171, 229, 258).
AuditNamesWrites ==
  \A r \in Requests :
    /\ Answered(r)
    /\ reply[r].outcome \notin FaultKinds
    /\ call[r].op \in {"add", "update", "delete"}
    => wrote[r] \subseteq audit[r][1].ids

\* docs/reference.md says of an audit record's ids: "The ids `add` stored".  An
\* add interrupted after it was sent (policy/__init__.py 162-171) is recorded too.
AuditNamesStored ==
  \A r \in Requests :
    Answered(r) /\ call[r].op = "add" =>
      wrote[r] \subseteq audit[r][1].ids

\* On a backend that keeps partitions apart, isolation_violation is raised only by
\* an add whose memory was deleted before it was read back: no other interleaving
\* trips the space check (policy/__init__.py 172-176, space.py 27).
AlarmMeansGone ==
  \A r \in Requests : \A i \in alarm[r] :
    /\ call[r].op = "add"
    /\ store[i] = None
    /\ \E other \in Requests \ {r} : i \in wrote[other]

\* By id, another space's memory looks like one that does not exist: the request
\* is answered as if it were missing (policy/__init__.py 209-216).
ForeignLooksMissing ==
  \A r \in Requests :
    /\ Answered(r)
    /\ Verdict(caller[r], call[r]) = "ok"
    /\ call[r].op \in ByIdOps
    /\ store[call[r].id] # None
    /\ store[call[r].id].partition # caller[r].space
    => reply[r].outcome \in FaultKinds \cup {"not_found"}

\* An update takes metadata over the cap only when another write came between its
\* read and its own write (policy/__init__.py 242-247).
CapPassedOnlyByRace ==
  [][\A r \in Requests : \A i \in (wrote'[r] \ wrote[r]) \cap Stored :
       /\ call[r].op = "update"
       /\ seen[r].metadata = store[i].metadata
       /\ store'[i] # None
       => LET size == Size(store'[i].metadata)
          IN \/ size <= MaxMetadata \/ size <= Size(store[i].metadata)
             \/ store'[i].metadata = store[i].metadata]_vars

\* docs/reference.md: "a memory's metadata is at most 16 KiB as JSON", for memories
\* that were under the cap at startup.
MetadataUnderCap == \A i \in Stored : Size(store[i].metadata) <= MaxMetadata

\* docs/reference.md, search_memory: "`threshold` filters by minimum score (0-1)".
ThresholdRespected ==
  \A r \in Requests : \A i \in Shown(r) :
    call[r].op = "search" =>
      Score[<<call[r].query, reply[r].shown[i].content>>] >= call[r].threshold

=============================================================================
