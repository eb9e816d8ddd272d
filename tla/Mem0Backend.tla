---------------------------- MODULE Mem0Backend -----------------------------
(***************************************************************************)
(* The mem0 adapter (memcp/backends/mem0): the storage contract carried    *)
(* out by calls to a mem0 server over HTTP.  The server is external: it    *)
(* keeps one store for every user, writes and deletes by id whoever asks,  *)
(* merges metadata and cannot delete a metadata key.  A method of the      *)
(* adapter is a task; one action is one HTTP request carried out by the    *)
(* server with the adapter code that runs on its response.                 *)
(*                                                                         *)
(* A request that fails for the adapter (timeout, network, a proxy's page) *)
(* may have reached the server, or reach it later.                         *)
(*                                                                         *)
(* The adapter implements MemoryBackend (property ImplementsContract): the *)
(* server's records, decoded, are the contract's store.  log and newest    *)
(* are not program state: the change log the contract describes, and the   *)
(* number of the newest memory.  Extraction (infer=True) is the server's,  *)
(* and Policy models what may come of it; here content is stored verbatim. *)
(* search is left out: the server ranks, and it changes nothing.           *)
(***************************************************************************)
EXTENDS Integers, Sequences, FiniteSetsExt

CONSTANTS
  Spaces, Names, Contents, ScopeKeys, Labels, MetaKeys, MetaValues,
  MaxMemories, None, Keep,  \* as in MemoryBackend
  Null,         \* a metadata key mem0 holds as null
  MaxTasks,     \* bound: the calls a behaviour contains
  Mem0Calls,    \* the calls that reach the adapter
  ListCeiling,  \* LIST_CEILING, the most memories GET /memories returns
  MaxFails      \* bound: how many HTTP requests fail for the adapter

VARIABLES
  remote,  \* id -> the server's record, or None
  log,     \* id -> the contract's change log
  newest,  \* the newest memory's number
  pc,      \* task -> "idle", the HTTP request it awaits, or "done"
  call,    \* task -> its Mem0Call
  existing,\* task -> the memory its ownership check fetched, or None
  answer,  \* task -> the memories it returns
  partial, \* task -> it marks its answer incomplete
  outcome, \* task -> "none", or how it ended
  late,    \* task -> the write it sent and does not wait for, or "none"
  made,    \* task -> the ids its writes changed (not program state)
  fails    \* how many requests failed so far

remoteVars == <<remote, log, newest>>
taskVars == <<pc, call, existing, answer, partial, outcome, late, made, fails>>
mem0Vars == <<remoteVars, taskVars>>

Identifiers == 1..MaxMemories

\* Numbered in the order they start.
Tasks == 1..MaxTasks

\* Mutant: a key held as null reads back.
Visible_Nulls(metadata) == metadata

\* _split_system: a key mem0 holds as null is a removed key.
Visible(metadata) ==
  [k \in MetaKeys |-> IF metadata[k] = Null THEN None ELSE metadata[k]]

\* _parse_memory: the canonical memory a record stands for.
Decoded(m) ==
  [partition |-> m.user_id, content |-> m.text, scope |-> m.scope,
   metadata |-> Visible(m.metadata),
   system |-> IF m.system # None THEN m.system
              ELSE [space |-> None, author |-> None, created_by |-> None]]

\* What the server's records stand for.
DecodedStore == [i \in Identifiers |-> IF remote[i] = None THEN None ELSE Decoded(remote[i])]

\* A mem0 server keeps its memories when the adapter closes.
Contract == INSTANCE MemoryBackend WITH
  store <- DecodedStore,
  history <- log,
  created <- newest,
  Volatile <- FALSE,
  MaxEdits <- 0

\* The server's record of a memory.
Record == [user_id  : Spaces,
           text     : Contents,
           scope    : Contract!Scope,
           metadata : [MetaKeys -> MetaValues \cup {None, Null}],
           system   : Contract!System \cup {None}]

Ops == {"add", "get", "update", "delete", "delete_all", "list", "history"}

\* One call of an adapter method.  list is list_memories and entities.  odd: the scope
\* holds a key mem0 does not filter on, or a list as a value.
Mem0Call == [op        : Ops,
             partition : Spaces,
             id        : Identifiers \cup {None},
             content   : Contents \cup {None},
             scope     : Contract!Scope,
             odd       : BOOLEAN,
             patch     : Contract!Patch,
             system    : Contract!System \cup {None}]

ByIdOps == {"get", "update", "delete", "history"}

ASSUME Mem0Assumption ==
  /\ Mem0Calls \subseteq Mem0Call
  /\ \A c \in Mem0Calls : c.op = "add" => c.content # None /\ c.patch \in Contract!Metadata
  /\ \A c \in Mem0Calls : c.op \in ByIdOps => c.id # None
  /\ \A c \in Mem0Calls : c.system \in Contract!Stamps(c.partition) \cup {None}
  /\ None \notin Mem0Call /\ Null \notin MetaValues \cup {None, Keep}
  /\ ListCeiling \in Nat \ {0} /\ MaxFails \in Nat /\ MaxTasks \in Nat

\* As MemoryBackend assumes of its constants.
ASSUME Mem0ConstantsAssumption ==
  /\ MaxMemories \in Nat /\ MetaValues \subseteq Nat
  /\ None \notin Record \cup Contract!Memory \cup Contract!System
  /\ None \notin Spaces \cup Names \cup Contents \cup Labels \cup MetaValues
  /\ Keep \notin MetaValues \cup {None}

(***************************************************************************)
(* What the server does with a request, and what the adapter sends.        *)
(***************************************************************************)

Held == {i \in Identifiers : remote[i] # None}

\* Mutant: the fetched metadata is sent back with the patch applied.
PutMetadata_Whole(patch, fetched) ==
  [k \in MetaKeys |->
     IF patch[k] = None THEN Null
     ELSE IF patch[k] # Keep THEN patch[k]
     ELSE IF fetched.metadata[k] # None THEN fetched.metadata[k] ELSE Keep]

\* The body of a PUT: nothing, or what to write over the record.  A removed key is
\* sent as null, and only when the fetched memory holds it.
PutMetadata(patch, fetched) ==
  [k \in MetaKeys |->
     IF patch[k] # None THEN patch[k]
     ELSE IF fetched.metadata[k] # None THEN Null ELSE Keep]

NothingToPut(c, fetched) ==
  /\ c.content = None
  /\ c.system = None
  /\ \A k \in MetaKeys : PutMetadata(c.patch, fetched)[k] = Keep

\* The server's merge.
Merged(m, c, sent) ==
  [user_id |-> m.user_id, scope |-> m.scope,
   text |-> IF c.content = None THEN m.text ELSE c.content,
   metadata |-> [k \in MetaKeys |-> IF sent[k] = Keep THEN m.metadata[k] ELSE sent[k]],
   system |-> IF c.system = None THEN m.system ELSE c.system]

\* POST /memories without extraction.
Post(t) ==
  LET c == call[t]
      i == newest + 1
      m == [user_id |-> c.partition, text |-> c.content, scope |-> c.scope,
            metadata |-> c.patch, system |-> c.system]
  IN /\ i \in Identifiers
     /\ newest' = i
     /\ remote' = [remote EXCEPT ![i] = m]
     /\ log' = [log EXCEPT ![i] = <<Contract!CreatedEntry(Decoded(m))>>]
     /\ made' = [made EXCEPT ![t] = @ \cup {i}]

\* PUT /memories/{id}, whoever owns it.
Put(t) ==
  LET i == call[t].id
      m == Merged(remote[i], call[t], PutMetadata(call[t].patch, existing[t]))
  IN /\ remote[i] # None
     /\ remote' = [remote EXCEPT ![i] = m]
     /\ log' = [log EXCEPT ![i] =
                  Append(@, Contract!UpdatedEntry(Decoded(remote[i]), Decoded(m)))]
     /\ made' = [made EXCEPT ![t] = @ \cup {i}]
     /\ UNCHANGED newest

Drop(t, doomed) ==
  /\ remote' = [i \in Identifiers |-> IF i \in doomed THEN None ELSE remote[i]]
  /\ log' = [i \in Identifiers |-> IF i \in doomed THEN <<>> ELSE log[i]]
  /\ made' = [made EXCEPT ![t] = @ \cup doomed]
  /\ UNCHANGED newest

\* What mem0 filters GET and DELETE /memories on: the user and the keys it knows.
Filtered(partition, scope) ==
  {i \in Held : /\ remote[i].user_id = partition
                /\ \A k \in ScopeKeys : scope[k] # None => remote[i].scope[k] = scope[k]}

\* Mutant: mem0's GET by id is believed whoever owns the memory.
Fetched_AnyUser(t) == remote[call[t].id] # None

\* get(): the record is there and is the partition's.
Fetched(t) ==
  /\ remote[call[t].id] # None
  /\ remote[call[t].id].user_id = call[t].partition

Nothing == [i \in Identifiers |-> None]
Only(i) == [Nothing EXCEPT ![i] = Decoded(remote[i])]

Done(t, how, shown) ==
  /\ pc' = [pc EXCEPT ![t] = "done"]
  /\ outcome' = [outcome EXCEPT ![t] = how]
  /\ answer' = [answer EXCEPT ![t] = shown]

(***************************************************************************)
(* The methods.                                                            *)
(***************************************************************************)

\* delete_all's refusal: mem0 would ignore the key and delete more than was asked.
Refused(c) == c.op = "delete_all" /\ c.odd

FirstRequest(op) ==
  IF op \in ByIdOps THEN "fetch"
  ELSE [add |-> "post", delete_all |-> "sweep", list |-> "list"][op]

Start(t) ==
  \E c \in Mem0Calls :
    /\ pc[t] = "idle"
    /\ \A u \in 1..(t - 1) : pc[u] # "idle"
    /\ call' = [call EXCEPT ![t] = c]
    /\ IF Refused(c) THEN Done(t, "bad_request", Nothing)
       ELSE /\ pc' = [pc EXCEPT ![t] = FirstRequest(c.op)]
            /\ UNCHANGED <<outcome, answer>>
    /\ UNCHANGED <<remoteVars, existing, partial, late, made, fails>>

PostReply(t) ==
  /\ pc[t] = "post"
  /\ Post(t)
  /\ Done(t, "ok", Nothing)
  /\ UNCHANGED <<call, existing, partial, late, fails>>

\* Mutant: a delete goes out before the ownership check's verdict.
FetchMissing_AfterDelete(t) ==
  /\ pc[t] = "fetch"
  /\ ~Fetched(t)
  /\ Done(t, IF call[t].op = "get" THEN "ok" ELSE "not_found", Nothing)
  /\ IF call[t].op = "delete" THEN Drop(t, {call[t].id} \cap Held)
     ELSE UNCHANGED <<remoteVars, made>>
  /\ UNCHANGED <<call, existing, partial, late, fails>>

\* The fetch finds no memory of the partition: get returns None, the others raise 404.
FetchMissing(t) ==
  /\ pc[t] = "fetch"
  /\ ~Fetched(t)
  /\ Done(t, IF call[t].op = "get" THEN "ok" ELSE "not_found", Nothing)
  /\ UNCHANGED <<remoteVars, call, existing, partial, late, made, fails>>

\* The fetch ends the call: get, and an update with nothing to send.
FetchAnswers(t) ==
  /\ pc[t] = "fetch"
  /\ Fetched(t)
  /\ \/ call[t].op = "get"
     \/ call[t].op = "update" /\ NothingToPut(call[t], Decoded(remote[call[t].id]))
  /\ Done(t, "ok", Only(call[t].id))
  /\ UNCHANGED <<remoteVars, call, existing, partial, late, made, fails>>

\* Ownership is verified, and the request that acts by id alone goes out.
FetchThenAct(t) ==
  /\ pc[t] = "fetch"
  /\ Fetched(t)
  /\ call[t].op # "get"
  /\ call[t].op = "update" => ~NothingToPut(call[t], Decoded(remote[call[t].id]))
  /\ existing' = [existing EXCEPT ![t] = Decoded(remote[call[t].id])]
  /\ pc' = [pc EXCEPT ![t] = [update |-> "put", delete |-> "remove", history |-> "log"][call[t].op]]
  /\ UNCHANGED <<remoteVars, call, answer, partial, outcome, late, made, fails>>

PutReply(t) ==
  /\ pc[t] = "put"
  /\ Put(t)
  /\ pc' = [pc EXCEPT ![t] = "readback"]
  /\ UNCHANGED <<call, existing, answer, partial, outcome, late, fails>>

RemoveReply(t) ==
  /\ pc[t] = "remove"
  /\ remote[call[t].id] # None
  /\ Drop(t, {call[t].id})
  /\ Done(t, "ok", Nothing)
  /\ UNCHANGED <<call, existing, partial, late, fails>>

\* Mutant: a status of 400 and above is not raised.
ActGone_Ignored(t) ==
  /\ pc[t] \in {"put", "remove", "log"}
  /\ remote[call[t].id] = None
  /\ IF pc[t] = "put"
     THEN pc' = [pc EXCEPT ![t] = "readback"] /\ UNCHANGED <<outcome, answer>>
     ELSE Done(t, "ok", Nothing)
  /\ UNCHANGED <<remoteVars, call, existing, partial, late, made, fails>>

\* The memory went after the fetch: mem0 answers 404, and request() raises it.
ActGone(t) ==
  /\ pc[t] \in {"put", "remove", "log"}
  /\ remote[call[t].id] = None
  /\ Done(t, "not_found", Nothing)
  /\ UNCHANGED <<remoteVars, call, existing, partial, late, made, fails>>

\* The server may keep the log of a memory that is gone, and answer all the same.
LogReply(t) ==
  /\ pc[t] = "log"
  /\ Done(t, "ok", Nothing)
  /\ UNCHANGED <<remoteVars, call, existing, partial, late, made, fails>>

\* mem0's PUT returns no memory: update fetches it again, and raises 503 when it is gone.
ReadBackReply(t) ==
  /\ pc[t] = "readback"
  /\ IF Fetched(t) THEN Done(t, "ok", Only(call[t].id)) ELSE Done(t, "unavailable", Nothing)
  /\ UNCHANGED <<remoteVars, call, existing, partial, late, made, fails>>

SweepReply(t) ==
  /\ pc[t] = "sweep"
  /\ Drop(t, Filtered(call[t].partition, call[t].scope))
  /\ Done(t, "ok", Nothing)
  /\ UNCHANGED <<call, existing, partial, late, fails>>

\* Mutant: only a response longer than the ceiling counts as incomplete.
AtCeiling_Beyond(listed) == Cardinality(listed) > ListCeiling

\* A full response can't tell the ceiling from more.
AtCeiling(listed) == Cardinality(listed) >= ListCeiling

\* list_memories and entities: the server returns at most ListCeiling memories, which
\* ones is its own choice; entities counts over the same answer and mark.
ListReply(t) ==
  /\ pc[t] = "list"
  /\ LET all == Filtered(call[t].partition, call[t].scope)
     IN \E listed \in SUBSET all :
       /\ IF Cardinality(all) <= ListCeiling THEN listed = all
          ELSE Cardinality(listed) = ListCeiling
       /\ Done(t, "ok", [i \in Identifiers |-> IF i \in listed THEN Decoded(remote[i]) ELSE None])
       /\ partial' = [partial EXCEPT ![t] = AtCeiling(listed)]
       /\ UNCHANGED <<remoteVars, call, existing, late, made, fails>>

(***************************************************************************)
(* A request that fails for the adapter, and one that takes effect late.   *)
(***************************************************************************)

\* MemoryAPIError(408, 502 or 503), or the call is cancelled.
Fail(t) ==
  /\ fails < MaxFails
  /\ pc[t] \notin {"idle", "done"}
  /\ fails' = fails + 1
  /\ Done(t, "backend_error", Nothing)
  /\ late' = [late EXCEPT ![t] = IF pc[t] \in {"post", "put", "remove", "sweep"} THEN pc[t] ELSE "none"]
  /\ UNCHANGED <<remoteVars, call, existing, partial, made>>

LateRequest(t) ==
  /\ \/ late[t] = "post" /\ Post(t)
     \/ late[t] = "put" /\ Put(t)
     \/ late[t] = "remove" /\ remote[call[t].id] # None /\ Drop(t, {call[t].id})
     \/ late[t] = "sweep" /\ Drop(t, Filtered(call[t].partition, call[t].scope))
  /\ late' = [late EXCEPT ![t] = "none"]
  /\ UNCHANGED <<pc, call, existing, answer, partial, outcome, fails>>

(***************************************************************************)
(* The specification.                                                      *)
(***************************************************************************)

Mem0Init ==
  /\ remote = [i \in Identifiers |-> None]
  /\ log = [i \in Identifiers |-> <<>>]
  /\ newest = 0
  /\ pc = [t \in Tasks |-> "idle"]
  /\ call = [t \in Tasks |-> None]
  /\ existing = [t \in Tasks |-> None]
  /\ answer = [t \in Tasks |-> Nothing]
  /\ partial = [t \in Tasks |-> FALSE]
  /\ outcome = [t \in Tasks |-> "none"]
  /\ late = [t \in Tasks |-> "none"]
  /\ made = [t \in Tasks |-> {}]
  /\ fails = 0

\* The server answers the request a task awaits.
Reply(t) ==
  \/ PostReply(t) \/ FetchMissing(t) \/ FetchAnswers(t) \/ FetchThenAct(t)
  \/ PutReply(t) \/ RemoveReply(t) \/ ActGone(t) \/ LogReply(t) \/ ReadBackReply(t)
  \/ SweepReply(t) \/ ListReply(t)

Mem0Next == \E t \in Tasks : Start(t) \/ Reply(t) \/ Fail(t) \/ LateRequest(t)

Mem0Spec == Mem0Init /\ [][Mem0Next]_mem0Vars

(***************************************************************************)
(* Properties.                                                             *)
(***************************************************************************)

\* Records, replies and requests stay well formed, a key held as null included
\* (adapter.py 89-124, 331-353).
Mem0TypeOK ==
  /\ remote \in [Identifiers -> Record \cup {None}]
  /\ newest \in 0..MaxMemories
  /\ pc \in [Tasks -> {"idle", "post", "fetch", "put", "remove", "log", "readback", "sweep",
                       "list", "done"}]
  /\ call \in [Tasks -> Mem0Calls \cup {None}]
  /\ existing \in [Tasks -> Contract!Memory \cup {None}]
  /\ answer \in [Tasks -> [Identifiers -> Contract!Memory \cup {None}]]
  /\ partial \in [Tasks -> BOOLEAN]
  /\ outcome \in [Tasks -> {"none", "ok", "bad_request", "not_found", "unavailable",
                            "backend_error"}]
  /\ late \in [Tasks -> {"post", "put", "remove", "sweep", "none"}]
  /\ made \in [Tasks -> SUBSET Identifiers]
  /\ fails \in 0..MaxFails

\* Through the adapter a mem0 server keeps the storage contract: each request that
\* changes it is one call of the contract, removed keys never read back, and the
\* change log fits, whatever fails or arrives late (adapter.py 189-353, base.py 85-200).
ImplementsContract == Contract!Spec

RemoteTouched == {i \in Identifiers : remote'[i] # remote[i]}
OwnerOf(i) == (IF remote[i] # None THEN remote[i] ELSE remote'[i]).user_id

\* mem0 writes and deletes by id alone: a request changes memories of its own
\* partition only, however long after the ownership check it takes effect, and a
\* delete_all only those in its scope (adapter.py 256-277, 309, 328).
WritesStayWithOwner ==
  [][\A i \in RemoteTouched : \E t \in Tasks :
       /\ i \in made'[t]
       /\ pc'[t] # pc[t] \/ late'[t] # late[t]
       /\ OwnerOf(i) = call[t].partition
       /\ call[t].op = "delete_all" =>
            /\ ~call[t].odd
            /\ \A k \in ScopeKeys :
                 call[t].scope[k] # None => remote[i].scope[k] = call[t].scope[k]]_mem0Vars

\* What a PUT changes of a memory's metadata is what its call asked for, on the memory
\* as it is now: keys another update set since the fetch survive, except that a key set
\* since the fetch is not removed (adapter.py 331-338, base.py 181-186).
UpdateIsPatch ==
  [][\A t \in Tasks : \A i \in RemoteTouched :
       /\ call[t] # None
       /\ call[t].op = "update"
       /\ (pc[t] = "put" /\ pc'[t] = "readback") \/ (late[t] = "put" /\ late'[t] = "none")
       => \A k \in MetaKeys :
            LET before == Decoded(remote[i]).metadata
                after == Decoded(remote'[i]).metadata
            IN \/ after[k] = Contract!Patched(before, call[t].patch)[k]
               \/ /\ call[t].patch[k] = None
                  /\ existing[t].metadata[k] = None
                  /\ after[k] = before[k]]_mem0Vars

\* A call answered 404 or 400 changed nothing, then or later, also when its memory went
\* between the ownership check and the write (adapter.py 258, 271, 330, client.py 42).
RefusedMadeNothing ==
  \A t \in Tasks :
    outcome[t] \in {"not_found", "bad_request"} => made[t] = {} /\ late[t] = "none"

\* "Update succeeded but read-back failed" is true: the update was made, and another
\* call has deleted the memory since (adapter.py 350-352).
UnavailableMeansGone ==
  \A t \in Tasks :
    outcome[t] = "unavailable" =>
      /\ made[t] = {call[t].id}
      /\ remote[call[t].id] = None
      /\ \E other \in Tasks \ {t} : call[t].id \in made[other]

\* A list not marked incomplete holds every memory of the partition in the scope, at
\* the ceiling too (adapter.py 371-381, 419-423).
ListedAllOrMarked ==
  [][\A t \in Tasks : pc[t] = "list" /\ outcome'[t] = "ok" /\ ~partial'[t] =>
       \A i \in Filtered(call[t].partition, call[t].scope) : answer'[t][i] # None]_mem0Vars

=============================================================================
