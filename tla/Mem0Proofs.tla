----------------------------- MODULE Mem0Proofs -----------------------------
(***************************************************************************)
(* Proofs about the mem0 adapter, for any number of memories, calls and    *)
(* failed requests, any keys and any ceiling of a listing.                 *)
(***************************************************************************)
EXTENDS Mem0Backend, TLAPS

(***************************************************************************)
(* What the operators return.                                              *)
(***************************************************************************)

\* A record decodes to a memory, of the user it belongs to.
LEMMA DecodedType ==
  ASSUME NEW m \in Record
  PROVE  Decoded(m) \in Contract!Memory /\ Decoded(m).partition = m.user_id
BY Mem0Assumption, Mem0ConstantsAssumption
   DEF Decoded, Visible, Record, Contract!Memory, Contract!Metadata, Contract!System

\* What a PUT sends is a value, null or nothing for each key.
LEMMA PutMetadataType ==
  ASSUME NEW patch \in Contract!Patch, NEW fetched
  PROVE  PutMetadata(patch, fetched) \in [MetaKeys -> MetaValues \cup {Null, Keep}]
BY DEF PutMetadata, Contract!Patch

\* The server's merge gives a record of the same user.
LEMMA MergedType ==
  ASSUME NEW m \in Record, NEW c \in Mem0Calls,
         NEW sent \in [MetaKeys -> MetaValues \cup {Null, Keep}]
  PROVE  Merged(m, c, sent) \in Record
<1>1. c \in Mem0Call BY Mem0Assumption
<1>2. c.content \in Contents \cup {None} /\ c.system \in Contract!System \cup {None}
  BY <1>1 DEF Mem0Call
<1>3. [k \in MetaKeys |-> IF sent[k] = Keep THEN m.metadata[k] ELSE sent[k]]
        \in [MetaKeys -> MetaValues \cup {None, Null}]
  BY DEF Record
<1> QED BY <1>2, <1>3 DEF Merged, Record

(***************************************************************************)
(* The inductive invariant.                                                *)
(***************************************************************************)

\* Task t awaits the request, or has sent it and no longer waits for it.
Sent(t, request) == pc[t] = request \/ late[t] = request

\* A request is one of the method that was called.
RequestOfCall(t) ==
  /\ pc[t] # "idle" => call[t] # None
  /\ pc[t] = "fetch" => call[t].op \in ByIdOps
  /\ Sent(t, "post") => call[t].op = "add"
  /\ Sent(t, "put") \/ pc[t] = "readback" \/ outcome[t] = "unavailable" => call[t].op = "update"
  /\ Sent(t, "remove") => call[t].op = "delete"
  /\ pc[t] = "log" => call[t].op = "history"
  /\ Sent(t, "sweep") => call[t].op = "delete_all" /\ ~call[t].odd
  /\ pc[t] = "list" => call[t].op = "list"

\* Task t has seen its memory to be its partition's.
HasFetched(t) ==
  \/ Sent(t, "put") \/ Sent(t, "remove")
  \/ pc[t] \in {"log", "readback"} \/ outcome[t] = "unavailable"

\* What a task has seen to be its partition's is its partition's for as long as it
\* exists: a number is not given twice, and no request changes a record's user.
OwnerStays(t) ==
  HasFetched(t) =>
    /\ call[t].id \in Identifiers /\ call[t].id <= newest
    /\ remote[call[t].id] # None => remote[call[t].id].user_id = call[t].partition

\* What a task has changed at each point of its method.
MadeSoFar(t) ==
  /\ outcome[t] # "none" <=> pc[t] = "done"
  /\ late[t] # "none" => outcome[t] = "backend_error" /\ made[t] = {}
  /\ pc[t] \notin {"readback", "done"} => made[t] = {}
  /\ outcome[t] \in {"not_found", "bad_request"} => made[t] = {}

\* A memory that is gone after t updated it was deleted by another task.
DeletedByOther(t) ==
  pc[t] = "readback" \/ outcome[t] = "unavailable" =>
    /\ made[t] = {call[t].id}
    /\ remote[call[t].id] = None => \E u \in Tasks \ {t} : call[t].id \in made[u]
    /\ outcome[t] = "unavailable" => remote[call[t].id] = None

TaskInv(t) ==
  RequestOfCall(t) /\ OwnerStays(t) /\ MadeSoFar(t) /\ DeletedByOther(t)

\* Numbers above the newest name nothing.
NumbersFresh == \A i \in Identifiers : i > newest => remote[i] = None

Mem0Inv ==
  /\ Mem0TypeOK
  /\ NumbersFresh
  /\ \A t \in Tasks : TaskInv(t)

(***************************************************************************)
(* What a request does to the server's records.                            *)
(***************************************************************************)

\* The part of Mem0TypeOK about the tasks.
TaskTypes ==
  /\ pc \in [Tasks -> {"idle", "post", "fetch", "put", "remove", "log", "readback", "sweep",
                       "list", "done"}]
  /\ call \in [Tasks -> Mem0Calls \cup {None}]
  /\ existing \in [Tasks -> Contract!Memory \cup {None}]
  /\ answer \in [Tasks -> [Identifiers -> Contract!Memory \cup {None}]]
  /\ partial \in [Tasks -> BOOLEAN]
  /\ outcome \in [Tasks -> {"none", "ok", "bad_request", "not_found", "unavailable",
                            "backend_error"}]
  /\ late \in [Tasks -> {"post", "put", "remove", "sweep", "none"}]
  /\ fails \in 0..MaxFails

\* A request of task t: it may add a record under the next number, rewrite records
\* without changing their user, and delete records it then counts as its own.
RecordsMove(t) ==
  /\ newest' \in 0..MaxMemories /\ newest <= newest'
  /\ remote' \in [Identifiers -> Record \cup {None}]
  /\ NumbersFresh'
  /\ \A i \in Identifiers :
       /\ i <= newest /\ remote'[i] # None =>
            remote[i] # None /\ remote'[i].user_id = remote[i].user_id
       /\ remote[i] # None /\ remote'[i] = None => i \in made'[t]
  /\ made' \in [Tasks -> SUBSET Identifiers]
  /\ \A u \in Tasks : made[u] \subseteq made'[u]
  /\ \A u \in Tasks \ {t} : made'[u] = made[u]

\* A step that reaches no record.
LEMMA NoMove ==
  ASSUME Mem0Inv, NEW t \in Tasks, UNCHANGED <<remoteVars, made>>
  PROVE  RecordsMove(t)
BY DEF Mem0Inv, Mem0TypeOK, NumbersFresh, RecordsMove, remoteVars

\* A POST stores one record under a new number.
LEMMA PostMoves ==
  ASSUME Mem0Inv, NEW t \in Tasks, call[t] # None, call[t].op = "add", Post(t)
  PROVE  /\ RecordsMove(t)
         /\ newest + 1 \in Identifiers
         /\ [user_id |-> call[t].partition, text |-> call[t].content,
             scope |-> call[t].scope, metadata |-> call[t].patch,
             system |-> call[t].system] \in Record
<1> DEFINE i == newest + 1
           m == [user_id |-> call[t].partition, text |-> call[t].content,
                 scope |-> call[t].scope, metadata |-> call[t].patch,
                 system |-> call[t].system]
<1>1. call[t] \in Mem0Calls /\ call[t] \in Mem0Call
  BY Mem0Assumption DEF Mem0Inv, Mem0TypeOK
<1>2. call[t].content \in Contents /\ call[t].patch \in [MetaKeys -> MetaValues \cup {None, Null}]
  BY <1>1, Mem0Assumption DEF Mem0Call, Contract!Metadata
<1>3. m \in Record
  BY <1>1, <1>2 DEF Mem0Call, Record
<1>4. i \in Identifiers /\ newest' = i /\ remote' = [remote EXCEPT ![i] = m]
      /\ made' = [made EXCEPT ![t] = @ \cup {i}]
  BY DEF Post
<1>5. m # None BY <1>3, Mem0ConstantsAssumption
<1> HIDE DEF m
<1>6. newest \in 0..MaxMemories /\ made \in [Tasks -> SUBSET Identifiers]
      /\ remote \in [Identifiers -> Record \cup {None}] /\ NumbersFresh
  BY DEF Mem0Inv, Mem0TypeOK
<1>7. remote' \in [Identifiers -> Record \cup {None}]
  BY <1>3, <1>4, <1>6
<1>8. newest' \in 0..MaxMemories /\ newest <= newest'
  BY <1>4, <1>6, Mem0ConstantsAssumption DEF Identifiers
<1>9. \A j \in Identifiers : j # i => remote'[j] = remote[j]
  BY <1>4, <1>6
<1>10. NumbersFresh'
  BY <1>4, <1>6, <1>8, <1>9, Mem0ConstantsAssumption DEF NumbersFresh, Identifiers
<1>11. \A j \in Identifiers : j <= newest => j # i
  BY <1>6, Mem0ConstantsAssumption DEF Identifiers
<1>12. \A j \in Identifiers :
         /\ j <= newest /\ remote'[j] # None =>
              remote[j] # None /\ remote'[j].user_id = remote[j].user_id
         /\ remote[j] # None /\ remote'[j] = None => j \in made'[t]
  BY <1>4, <1>5, <1>6, <1>9, <1>11
<1>13. /\ made' \in [Tasks -> SUBSET Identifiers]
       /\ \A u \in Tasks : made[u] \subseteq made'[u]
       /\ \A u \in Tasks \ {t} : made'[u] = made[u]
  BY <1>4, <1>6
<1> QED BY <1>3, <1>4, <1>7, <1>8, <1>10, <1>12, <1>13 DEF RecordsMove, m

\* A PUT rewrites one record, whose user stays.
LEMMA PutMoves ==
  ASSUME Mem0Inv, NEW t \in Tasks, call[t] # None, call[t].op = "update", Put(t)
  PROVE  RecordsMove(t)
<1> DEFINE i == call[t].id
           sent == PutMetadata(call[t].patch, existing[t])
           m == Merged(remote[i], call[t], sent)
<1>1. call[t] \in Mem0Calls /\ call[t] \in Mem0Call
  BY Mem0Assumption DEF Mem0Inv, Mem0TypeOK
<1>2. i \in Identifiers
  BY <1>1, Mem0Assumption DEF Mem0Call, ByIdOps
<1>3. remote[i] \in Record
  BY <1>2 DEF Put, Mem0Inv, Mem0TypeOK
<1>4. sent \in [MetaKeys -> MetaValues \cup {Null, Keep}]
  BY <1>1, PutMetadataType DEF Mem0Call
<1>5. m \in Record /\ m.user_id = remote[i].user_id /\ m # None
  BY <1>1, <1>3, <1>4, MergedType, Mem0ConstantsAssumption DEF Merged
<1>6. remote' = [remote EXCEPT ![i] = m] /\ newest' = newest
      /\ made' = [made EXCEPT ![t] = @ \cup {i}] /\ remote[i] # None
  BY DEF Put
<1> HIDE DEF m, sent
<1> QED BY <1>2, <1>3, <1>5, <1>6
        DEF Mem0Inv, Mem0TypeOK, NumbersFresh, RecordsMove

\* A DELETE deletes records its task counts as its own.
LEMMA DropMoves ==
  ASSUME Mem0Inv, NEW t \in Tasks, NEW D \in SUBSET Identifiers, Drop(t, D)
  PROVE  RecordsMove(t)
BY DEF Drop, Mem0Inv, Mem0TypeOK, NumbersFresh, RecordsMove

(***************************************************************************)
(* Each step keeps the invariant.                                          *)
(***************************************************************************)

\* The steps of task t leave what the other tasks keep.
OthersFrame(t) ==
  \A u \in Tasks \ {t} :
    /\ pc'[u] = pc[u] /\ call'[u] = call[u] /\ existing'[u] = existing[u]
    /\ outcome'[u] = outcome[u] /\ late'[u] = late[u]

\* Whatever a request of one task does, the others' part of the invariant stays: a
\* memory that another task is about to write keeps its owner or is gone.
LEMMA OthersKept ==
  ASSUME Mem0Inv, NEW t \in Tasks, RecordsMove(t), OthersFrame(t), NEW u \in Tasks \ {t}
  PROVE  TaskInv(u)'
<1>1. TaskInv(u) BY DEF Mem0Inv
<1>2. /\ pc'[u] = pc[u] /\ call'[u] = call[u] /\ existing'[u] = existing[u]
      /\ outcome'[u] = outcome[u] /\ late'[u] = late[u] /\ made'[u] = made[u]
  BY DEF OthersFrame, RecordsMove
<1>3. RequestOfCall(u)' /\ MadeSoFar(u)'
  BY <1>1, <1>2 DEF TaskInv, RequestOfCall, MadeSoFar, Sent
<1>4. HasFetched(u)' = HasFetched(u)
  BY <1>2 DEF HasFetched, Sent
<1>5. newest \in Nat /\ newest' \in Nat /\ newest <= newest' /\ Identifiers \subseteq Nat
  BY DEF Mem0Inv, Mem0TypeOK, RecordsMove, Identifiers
<1>6. OwnerStays(u)'
  <2> SUFFICES ASSUME HasFetched(u)
               PROVE  /\ call[u].id \in Identifiers /\ call[u].id <= newest'
                      /\ remote'[call[u].id] # None =>
                           remote'[call[u].id].user_id = call[u].partition
    BY <1>2, <1>4 DEF OwnerStays
  <2>1. /\ call[u].id \in Identifiers /\ call[u].id <= newest
        /\ remote[call[u].id] # None => remote[call[u].id].user_id = call[u].partition
    BY <1>1 DEF TaskInv, OwnerStays
  <2> DEFINE i == call[u].id
  <2>2. i \in Identifiers /\ i <= newest /\ i <= newest'
    BY <1>5, <2>1, Mem0ConstantsAssumption DEF Identifiers
  <2>3. remote'[i] # None => remote[i] # None /\ remote'[i].user_id = remote[i].user_id
    BY <2>2 DEF RecordsMove
  <2> QED BY <2>1, <2>2, <2>3
<1>7. DeletedByOther(u)'
  <2> SUFFICES ASSUME (pc[u] = "readback" \/ outcome[u] = "unavailable")'
               PROVE  (/\ made[u] = {call[u].id}
                       /\ remote[call[u].id] = None =>
                            \E v \in Tasks \ {u} : call[u].id \in made[v]
                       /\ outcome[u] = "unavailable" => remote[call[u].id] = None)'
    BY DEF DeletedByOther
  <2>0. pc[u] = "readback" \/ outcome[u] = "unavailable" BY <1>2
  <2>1. made[u] = {call[u].id} /\ call[u].id \in Identifiers /\ call[u].id <= newest
    BY <1>1, <2>0 DEF TaskInv, DeletedByOther, OwnerStays, HasFetched
  <2>2. CASE remote[call[u].id] = None
    <3>1. PICK v \in Tasks \ {u} : call[u].id \in made[v]
      BY <1>1, <2>0, <2>2 DEF TaskInv, DeletedByOther
    <3>2. remote'[call[u].id] = None
      BY <2>1, <2>2 DEF RecordsMove
    <3> QED BY <1>2, <2>1, <3>1, <3>2 DEF RecordsMove
  <2>3. CASE remote[call[u].id] # None
    <3>1. outcome[u] # "unavailable" BY <1>1, <2>3 DEF TaskInv, DeletedByOther
    <3>2. remote'[call[u].id] = None => call[u].id \in made'[t]
      BY <2>1, <2>3 DEF RecordsMove
    <3> QED BY <1>2, <2>1, <3>1, <3>2
  <2> QED BY <2>2, <2>3
<1> QED BY <1>3, <1>6, <1>7 DEF TaskInv

\* So a step of t is examined at t alone.
LEMMA StepKeepsInv ==
  ASSUME Mem0Inv, NEW t \in Tasks, RecordsMove(t), OthersFrame(t), TaskTypes', TaskInv(t)'
  PROVE  Mem0Inv'
<1>1. \A u \in Tasks : TaskInv(u)' BY OthersKept
<1>2. Mem0TypeOK' BY DEF RecordsMove, TaskTypes, Mem0TypeOK
<1> QED BY <1>1, <1>2 DEF Mem0Inv, RecordsMove

\* What the server returns of a memory is a memory.
LEMMA OnlyType ==
  ASSUME Mem0Inv, NEW i \in Identifiers, remote[i] # None
  PROVE  Only(i) \in [Identifiers -> Contract!Memory \cup {None}]
BY DecodedType DEF Only, Nothing, Mem0Inv, Mem0TypeOK

\* Nothing is the answer that shows no memory.
LEMMA NothingType == Nothing \in [Identifiers -> Contract!Memory \cup {None}]
BY DEF Nothing


\* A task starts with the request its method begins with, or is refused at once.
LEMMA StartKeepsInv ==
  ASSUME Mem0Inv, NEW t \in Tasks, Start(t)
  PROVE  Mem0Inv'
<1>1. PICK c \in Mem0Calls :
        /\ pc[t] = "idle"
        /\ call' = [call EXCEPT ![t] = c]
        /\ IF Refused(c) THEN Done(t, "bad_request", Nothing)
           ELSE /\ pc' = [pc EXCEPT ![t] = FirstRequest(c.op)]
                /\ UNCHANGED <<outcome, answer>>
        /\ UNCHANGED <<remoteVars, existing, partial, late, made, fails>>
  BY DEF Start
<1>2. c \in Mem0Call /\ c # None /\ c.op \in Ops
  BY Mem0Assumption DEF Mem0Call
<1>3. TaskInv(t) /\ TaskTypes
  BY DEF Mem0Inv, Mem0TypeOK, TaskTypes
<1>4. outcome[t] = "none" /\ late[t] = "none" /\ made[t] = {}
  BY <1>1, <1>3 DEF TaskInv, MadeSoFar, TaskTypes
<1>5. RecordsMove(t) BY <1>1, NoMove
<1>6. call'[t] = c /\ late'[t] = "none" /\ made'[t] = {}
  BY <1>1, <1>3, <1>4 DEF TaskTypes
<1>7. CASE Refused(c)
  <2>1. pc'[t] = "done" /\ outcome'[t] = "bad_request" /\ OthersFrame(t)
    BY <1>1, <1>3, <1>7 DEF Done, TaskTypes, OthersFrame
  <2>2. TaskTypes'
    BY <1>1, <1>3, <1>7, NothingType DEF Done, TaskTypes
  <2>3. TaskInv(t)'
    BY <1>2, <1>6, <2>1
       DEF TaskInv, RequestOfCall, OwnerStays, HasFetched, Sent, MadeSoFar, DeletedByOther
  <2> QED BY <1>5, <2>1, <2>2, <2>3, StepKeepsInv
<1>8. CASE ~Refused(c)
  <2>1. /\ FirstRequest(c.op) \in {"fetch", "post", "sweep", "list"}
        /\ FirstRequest(c.op) = "fetch" => c.op \in ByIdOps
        /\ FirstRequest(c.op) = "post" => c.op = "add"
        /\ FirstRequest(c.op) = "sweep" => c.op = "delete_all" /\ ~c.odd
        /\ FirstRequest(c.op) = "list" => c.op = "list"
    BY <1>2, <1>8 DEF FirstRequest, Ops, ByIdOps, Refused
  <2>2. pc'[t] = FirstRequest(c.op) /\ outcome'[t] = "none" /\ OthersFrame(t)
    BY <1>1, <1>3, <1>4, <1>8 DEF TaskTypes, OthersFrame
  <2>3. TaskTypes'
    BY <1>1, <1>3, <1>8, <2>1 DEF TaskTypes
  <2>4. TaskInv(t)'
    BY <1>2, <1>6, <2>1, <2>2
       DEF TaskInv, RequestOfCall, OwnerStays, HasFetched, Sent, MadeSoFar, DeletedByOther
  <2> QED BY <1>5, <2>2, <2>3, <2>4, StepKeepsInv
<1> QED BY <1>7, <1>8

\* A task ends with an answer: it waits for nothing more, and none of its writes is late.
LEMMA EndKeepsInv ==
  ASSUME Mem0Inv, NEW t \in Tasks, pc[t] \notin {"idle", "done"},
         NEW how \in {"ok", "not_found", "unavailable"},
         NEW shown \in [Identifiers -> Contract!Memory \cup {None}],
         Done(t, how, shown), RecordsMove(t),
         UNCHANGED <<call, existing, late, fails>>, partial' \in [Tasks -> BOOLEAN],
         how = "not_found" => made'[t] = {},
         how = "unavailable" =>
           pc[t] = "readback" /\ remote[call[t].id] = None /\ UNCHANGED <<remoteVars, made>>
  PROVE  Mem0Inv'
<1>1. TaskInv(t) /\ TaskTypes
  BY DEF Mem0Inv, Mem0TypeOK, TaskTypes
<1>2. pc'[t] = "done" /\ outcome'[t] = how /\ OthersFrame(t)
  BY <1>1 DEF Done, TaskTypes, OthersFrame
<1>3. late[t] = "none"
  BY <1>1 DEF TaskInv, MadeSoFar, TaskTypes
<1>4. TaskTypes'
  BY <1>1 DEF Done, TaskTypes
<1>5. RequestOfCall(t)'
  BY <1>1, <1>2, <1>3 DEF TaskInv, RequestOfCall, Sent
<1>6. OwnerStays(t)' /\ DeletedByOther(t)'
  <2>1. CASE how # "unavailable"
    BY <1>2, <1>3, <2>1 DEF OwnerStays, DeletedByOther, HasFetched, Sent
  <2>2. CASE how = "unavailable"
    <3>1. HasFetched(t) /\ UNCHANGED <<remote, newest, made, call>> /\ remote[call[t].id] = None
          /\ made[t] = {call[t].id}
          /\ \E u \in Tasks \ {t} : call[t].id \in made[u]
      BY <1>1, <2>2 DEF HasFetched, remoteVars, TaskInv, DeletedByOther
    <3> QED BY <1>1, <1>2, <3>1 DEF TaskInv, OwnerStays, DeletedByOther
  <2> QED BY <2>1, <2>2
<1>7. MadeSoFar(t)'
  BY <1>2, <1>3 DEF MadeSoFar
<1> QED BY <1>2, <1>4, <1>5, <1>6, <1>7, StepKeepsInv DEF TaskInv

\* What a task knows of its call while it waits for a reply.
LEMMA WaitingFacts ==
  ASSUME Mem0Inv, NEW t \in Tasks, pc[t] \notin {"idle", "done"}
  PROVE  /\ call[t] \in Mem0Calls /\ call[t] \in Mem0Call /\ call[t] # None
         /\ late[t] = "none" /\ outcome[t] = "none"
         /\ pc[t] # "readback" => made[t] = {}
         /\ partial \in [Tasks -> BOOLEAN]
         /\ TaskTypes
         /\ RequestOfCall(t) /\ OwnerStays(t) /\ MadeSoFar(t) /\ DeletedByOther(t)
BY Mem0Assumption DEF Mem0Inv, Mem0TypeOK, TaskTypes, TaskInv, RequestOfCall, MadeSoFar

\* An add is answered: its record is stored.
LEMMA PostReplyKeepsInv ==
  ASSUME Mem0Inv, NEW t \in Tasks, PostReply(t)
  PROVE  Mem0Inv'
<1>1. pc[t] = "post" /\ call[t].op = "add" /\ call[t] # None /\ partial \in [Tasks -> BOOLEAN]
  BY WaitingFacts DEF PostReply, RequestOfCall, Sent
<1>2. RecordsMove(t) BY <1>1, PostMoves DEF PostReply
<1> QED BY <1>1, <1>2, EndKeepsInv, NothingType DEF PostReply

\* A delete_all is answered, whatever its filter found.
LEMMA SweepReplyKeepsInv ==
  ASSUME Mem0Inv, NEW t \in Tasks, SweepReply(t)
  PROVE  Mem0Inv'
<1>1. pc[t] = "sweep" /\ partial \in [Tasks -> BOOLEAN]
  BY WaitingFacts DEF SweepReply
<1>2. Filtered(call[t].partition, call[t].scope) \in SUBSET Identifiers
  BY DEF Filtered, Held
<1>3. RecordsMove(t) BY <1>2, DropMoves DEF SweepReply
<1> QED BY <1>1, <1>3, EndKeepsInv, NothingType DEF SweepReply

\* A listing is answered with records that exist.
LEMMA ListReplyKeepsInv ==
  ASSUME Mem0Inv, NEW t \in Tasks, ListReply(t)
  PROVE  Mem0Inv'
<1>1. PICK listed \in SUBSET Filtered(call[t].partition, call[t].scope) :
        /\ Done(t, "ok", [i \in Identifiers |-> IF i \in listed THEN Decoded(remote[i]) ELSE None])
        /\ partial' = [partial EXCEPT ![t] = AtCeiling(listed)]
        /\ UNCHANGED <<remoteVars, call, existing, late, made, fails>>
  BY DEF ListReply
<1>2. pc[t] = "list" /\ partial \in [Tasks -> BOOLEAN]
  BY WaitingFacts DEF ListReply
<1>3. \A i \in Identifiers : i \in listed => remote[i] \in Record
  BY DEF Filtered, Held, Mem0Inv, Mem0TypeOK
<1>4. [i \in Identifiers |-> IF i \in listed THEN Decoded(remote[i]) ELSE None]
        \in [Identifiers -> Contract!Memory \cup {None}]
  BY <1>3, DecodedType
<1>5. partial' \in [Tasks -> BOOLEAN]
  BY <1>1, <1>2 DEF AtCeiling
<1>6. RecordsMove(t) BY <1>1, NoMove
<1> QED BY <1>1, <1>2, <1>4, <1>5, <1>6, EndKeepsInv

\* The ownership check finds nothing: nothing was written.
LEMMA FetchMissingKeepsInv ==
  ASSUME Mem0Inv, NEW t \in Tasks, FetchMissing(t)
  PROVE  Mem0Inv'
<1>1. pc[t] = "fetch" /\ made[t] = {} /\ partial \in [Tasks -> BOOLEAN]
      /\ RecordsMove(t) /\ made' = made /\ partial' = partial
  BY WaitingFacts, NoMove DEF FetchMissing
<1> QED BY <1>1, EndKeepsInv, NothingType DEF FetchMissing

\* The ownership check answers the call.
LEMMA FetchAnswersKeepsInv ==
  ASSUME Mem0Inv, NEW t \in Tasks, FetchAnswers(t)
  PROVE  Mem0Inv'
<1>1. pc[t] = "fetch" /\ partial \in [Tasks -> BOOLEAN] /\ RecordsMove(t) /\ partial' = partial
  BY WaitingFacts, NoMove DEF FetchAnswers
<1>2. call[t].id \in Identifiers /\ remote[call[t].id] # None
  BY <1>1, WaitingFacts, Mem0Assumption DEF FetchAnswers, Fetched, RequestOfCall, Mem0Call
<1>3. Only(call[t].id) \in [Identifiers -> Contract!Memory \cup {None}]
  BY <1>2, OnlyType
<1> QED BY <1>1, <1>3, EndKeepsInv DEF FetchAnswers

\* The memory went after the check: 404, and nothing was written.
LEMMA ActGoneKeepsInv ==
  ASSUME Mem0Inv, NEW t \in Tasks, ActGone(t)
  PROVE  Mem0Inv'
<1>1. pc[t] \in {"put", "remove", "log"} /\ made[t] = {} /\ partial \in [Tasks -> BOOLEAN]
      /\ RecordsMove(t) /\ made' = made /\ partial' = partial
  BY WaitingFacts, NoMove DEF ActGone
<1> QED BY <1>1, EndKeepsInv, NothingType DEF ActGone

\* A change log is answered.
LEMMA LogReplyKeepsInv ==
  ASSUME Mem0Inv, NEW t \in Tasks, LogReply(t)
  PROVE  Mem0Inv'
<1>1. pc[t] = "log" /\ partial \in [Tasks -> BOOLEAN] /\ RecordsMove(t) /\ partial' = partial
  BY WaitingFacts, NoMove DEF LogReply
<1> QED BY <1>1, EndKeepsInv, NothingType DEF LogReply

\* A delete is answered.
LEMMA RemoveReplyKeepsInv ==
  ASSUME Mem0Inv, NEW t \in Tasks, RemoveReply(t)
  PROVE  Mem0Inv'
<1>1. pc[t] = "remove" /\ partial \in [Tasks -> BOOLEAN] /\ partial' = partial
      /\ call[t].id \in Identifiers
  BY WaitingFacts DEF RemoveReply, OwnerStays, HasFetched, Sent
<1>2. RecordsMove(t) BY <1>1, DropMoves DEF RemoveReply
<1> QED BY <1>1, <1>2, EndKeepsInv, NothingType DEF RemoveReply

\* The read-back after a PUT finds the memory, or finds that another task deleted it:
\* its owner cannot have changed.
LEMMA ReadBackKeepsInv ==
  ASSUME Mem0Inv, NEW t \in Tasks, ReadBackReply(t)
  PROVE  Mem0Inv'
<1>1. pc[t] = "readback" /\ partial \in [Tasks -> BOOLEAN] /\ RecordsMove(t)
      /\ partial' = partial /\ UNCHANGED <<remoteVars, made, call, existing, late, fails>>
  BY WaitingFacts, NoMove DEF ReadBackReply
<1>2. call[t].id \in Identifiers
      /\ (remote[call[t].id] # None => remote[call[t].id].user_id = call[t].partition)
  BY <1>1, WaitingFacts DEF OwnerStays, HasFetched
<1>3. CASE Fetched(t)
  <2>1. Only(call[t].id) \in [Identifiers -> Contract!Memory \cup {None}]
    BY <1>2, <1>3, OnlyType DEF Fetched
  <2> QED BY <1>1, <1>3, <2>1, EndKeepsInv DEF ReadBackReply
<1>4. CASE ~Fetched(t)
  <2>1. remote[call[t].id] = None BY <1>2, <1>4 DEF Fetched
  <2> QED BY <1>1, <1>4, <2>1, EndKeepsInv, NothingType DEF ReadBackReply
<1> QED BY <1>3, <1>4

\* A task goes on to its next request: the request belongs to its method, and what it
\* has to know of its memory it has seen.
LEMMA GoOnKeepsInv ==
  ASSUME Mem0Inv, NEW t \in Tasks, pc[t] \notin {"idle", "done"},
         NEW next \in {"put", "remove", "log", "readback"},
         pc' = [pc EXCEPT ![t] = next], RecordsMove(t), TaskTypes',
         UNCHANGED <<call, outcome, late>>,
         \A u \in Tasks \ {t} : existing'[u] = existing[u],
         call[t].op = [put |-> "update", remove |-> "delete", log |-> "history",
                       readback |-> "update"][next],
         call[t].id \in Identifiers, call[t].id <= newest',
         remote'[call[t].id] # None,
         remote'[call[t].id].user_id = call[t].partition,
         made'[t] = IF next = "readback" THEN {call[t].id} ELSE {}
  PROVE  Mem0Inv'
<1>1. TaskTypes BY DEF Mem0Inv, Mem0TypeOK, TaskTypes
<1>2. pc'[t] = next /\ OthersFrame(t)
  BY <1>1 DEF TaskTypes, OthersFrame
<1>3. call[t] # None /\ late[t] = "none" /\ outcome[t] = "none"
  BY WaitingFacts
<1>4. RequestOfCall(t)'
  BY <1>2, <1>3 DEF RequestOfCall, Sent
<1>5. OwnerStays(t)' BY DEF OwnerStays
<1>6. MadeSoFar(t)' BY <1>2, <1>3 DEF MadeSoFar
<1>7. DeletedByOther(t)' BY <1>2, <1>3 DEF DeletedByOther
<1> QED BY <1>2, <1>4, <1>5, <1>6, <1>7, StepKeepsInv DEF TaskInv

\* The ownership check passes.
LEMMA FetchThenActKeepsInv ==
  ASSUME Mem0Inv, NEW t \in Tasks, FetchThenAct(t)
  PROVE  Mem0Inv'
<1> DEFINE i == call[t].id
           next == [update |-> "put", delete |-> "remove", history |-> "log"][call[t].op]
<1>1. pc[t] = "fetch" /\ call[t] \in Mem0Call /\ call[t].op \in ByIdOps /\ made[t] = {}
      /\ TaskTypes /\ call[t] \in Mem0Calls
  BY WaitingFacts DEF FetchThenAct, RequestOfCall
<1>2. call[t].op \in {"update", "delete", "history"}
  BY <1>1 DEF FetchThenAct, ByIdOps
<1>3. i \in Identifiers /\ remote[i] \in Record /\ remote[i].user_id = call[t].partition
      /\ remote[i] # None
  BY <1>1, Mem0Assumption DEF FetchThenAct, Fetched, Mem0Call, Mem0Inv, Mem0TypeOK
<1>4. i <= newest
  <2>1. newest \in Nat /\ i \in Nat BY <1>3 DEF Mem0Inv, Mem0TypeOK, Identifiers
  <2>2. ~(i > newest) BY <1>3 DEF Mem0Inv, NumbersFresh
  <2> QED BY <2>1, <2>2
<1>5. RecordsMove(t) /\ UNCHANGED <<remote, newest, made, call, outcome, late>>
  BY NoMove DEF FetchThenAct, remoteVars
<1>6. next \in {"put", "remove", "log"} /\ pc' = [pc EXCEPT ![t] = next]
      /\ existing' = [existing EXCEPT ![t] = Decoded(remote[i])]
  BY <1>2 DEF FetchThenAct
<1>7. TaskTypes'
  BY <1>1, <1>3, <1>6, DecodedType DEF FetchThenAct, TaskTypes
<1>8. call[t].op = [put |-> "update", remove |-> "delete", log |-> "history",
                    readback |-> "update"][next]
  BY <1>2
<1>9. \A u \in Tasks \ {t} : existing'[u] = existing[u]
  BY <1>1, <1>6 DEF TaskTypes
<1> HIDE DEF next
<1> QED BY <1>1, <1>3, <1>4, <1>5, <1>6, <1>7, <1>8, <1>9, GoOnKeepsInv

\* The PUT is answered.
LEMMA PutReplyKeepsInv ==
  ASSUME Mem0Inv, NEW t \in Tasks, PutReply(t)
  PROVE  Mem0Inv'
<1> DEFINE i == call[t].id
<1>1. pc[t] = "put" /\ made[t] = {} /\ TaskTypes /\ call[t] # None
      /\ call[t].op = "update" /\ i \in Identifiers /\ i <= newest
      /\ (remote[i] # None => remote[i].user_id = call[t].partition)
  BY WaitingFacts DEF PutReply, RequestOfCall, OwnerStays, HasFetched, Sent
<1>2. RecordsMove(t) BY <1>1, PutMoves DEF PutReply
<1>3. remote[i] # None /\ made' = [made EXCEPT ![t] = @ \cup {i}] /\ newest' = newest
      /\ remote' = [remote EXCEPT ![i] = Merged(remote[i], call[t],
                                       PutMetadata(call[t].patch, existing[t]))]
  BY DEF PutReply, Put
<1>4. made'[t] = {i}
  BY <1>1, <1>3 DEF Mem0Inv, Mem0TypeOK
<1>5. remote'[i] # None /\ remote'[i].user_id = call[t].partition
  <2>1. remote'[i] = Merged(remote[i], call[t], PutMetadata(call[t].patch, existing[t]))
    BY <1>1, <1>3 DEF Mem0Inv, Mem0TypeOK
  <2>2. remote[i] \in Record /\ call[t] \in Mem0Calls /\ call[t] \in Mem0Call
    BY <1>1, <1>3, WaitingFacts DEF Mem0Inv, Mem0TypeOK
  <2>3. remote'[i] \in Record
    BY <2>1, <2>2, MergedType, PutMetadataType DEF Mem0Call
  <2> QED BY <1>1, <1>3, <2>1, <2>3, Mem0ConstantsAssumption DEF Merged
<1>6. TaskTypes' BY <1>1 DEF PutReply, TaskTypes
<1>7. UNCHANGED <<call, existing, outcome, late>> /\ pc' = [pc EXCEPT ![t] = "readback"]
  BY DEF PutReply
<1> QED BY <1>1, <1>2, <1>3, <1>4, <1>5, <1>6, <1>7, GoOnKeepsInv

\* A request fails for the adapter: a write may still be on its way, and has changed
\* nothing yet.
LEMMA FailKeepsInv ==
  ASSUME Mem0Inv, NEW t \in Tasks, Fail(t)
  PROVE  Mem0Inv'
<1> DEFINE sent == IF pc[t] \in {"post", "put", "remove", "sweep"} THEN pc[t] ELSE "none"
<1>1. /\ pc[t] \notin {"idle", "done"} /\ fails < MaxFails /\ fails' = fails + 1
      /\ Done(t, "backend_error", Nothing)
      /\ late' = [late EXCEPT ![t] = sent]
      /\ UNCHANGED <<remoteVars, call, existing, partial, made>>
  BY DEF Fail
<1>2. TaskTypes /\ RequestOfCall(t) /\ OwnerStays(t) /\ MadeSoFar(t) /\ call[t] # None
  BY <1>1, WaitingFacts
<1>3. RecordsMove(t) BY <1>1, NoMove
<1>4. pc'[t] = "done" /\ outcome'[t] = "backend_error" /\ late'[t] = sent /\ OthersFrame(t)
  BY <1>1, <1>2 DEF Done, TaskTypes, OthersFrame
<1>5. TaskTypes'
  BY <1>1, <1>2, NothingType, Mem0Assumption DEF Done, TaskTypes
<1>6. sent # "none" => pc[t] = sent /\ made[t] = {}
  BY <1>2 DEF MadeSoFar
<1>7. RequestOfCall(t)'
  BY <1>1, <1>2, <1>4 DEF RequestOfCall, Sent
<1>8. OwnerStays(t)'
  <2>1. HasFetched(t)' => HasFetched(t) BY <1>4 DEF HasFetched, Sent
  <2> QED BY <1>1, <1>2, <2>1 DEF OwnerStays, remoteVars
<1>9. MadeSoFar(t)'
  BY <1>1, <1>4, <1>6 DEF MadeSoFar
<1>10. DeletedByOther(t)' BY <1>4 DEF DeletedByOther
<1> QED BY <1>3, <1>4, <1>5, <1>7, <1>8, <1>9, <1>10, StepKeepsInv DEF TaskInv

\* What is known of a call whose write is late.
LEMMA LateFacts ==
  ASSUME Mem0Inv, NEW t \in Tasks, late[t] # "none"
  PROVE  /\ pc[t] = "done" /\ outcome[t] = "backend_error" /\ made[t] = {}
         /\ call[t] # None /\ call[t] \in Mem0Calls /\ call[t] \in Mem0Call
         /\ late[t] = "post" => call[t].op = "add"
         /\ late[t] = "put" => call[t].op = "update"
         /\ late[t] = "remove" => call[t].op = "delete"
         /\ late[t] = "sweep" => call[t].op = "delete_all" /\ ~call[t].odd
         /\ late[t] \in {"put", "remove"} =>
              /\ call[t].id \in Identifiers /\ call[t].id <= newest
              /\ remote[call[t].id] # None => remote[call[t].id].user_id = call[t].partition
         /\ TaskTypes
BY Mem0Assumption
   DEF Mem0Inv, Mem0TypeOK, TaskTypes, TaskInv, RequestOfCall, MadeSoFar, OwnerStays,
       HasFetched, Sent

\* A write arrives after its call has failed.
LEMMA LateRequestKeepsInv ==
  ASSUME Mem0Inv, NEW t \in Tasks, LateRequest(t)
  PROVE  Mem0Inv'
<1>1. /\ late' = [late EXCEPT ![t] = "none"]
      /\ UNCHANGED <<pc, call, existing, answer, partial, outcome, fails>>
      /\ late[t] # "none"
  BY DEF LateRequest
<1>2. RecordsMove(t)
  <2>1. CASE late[t] = "post" /\ Post(t)
    BY <2>1, <1>1, LateFacts, PostMoves
  <2>2. CASE late[t] = "put" /\ Put(t)
    BY <2>2, <1>1, LateFacts, PutMoves
  <2>3. CASE late[t] = "remove" /\ Drop(t, {call[t].id})
    <3>1. {call[t].id} \in SUBSET Identifiers BY <2>3, <1>1, LateFacts
    <3> QED BY <2>3, <3>1, DropMoves
  <2>4. CASE late[t] = "sweep" /\ Drop(t, Filtered(call[t].partition, call[t].scope))
    <3>1. Filtered(call[t].partition, call[t].scope) \in SUBSET Identifiers
      BY DEF Filtered, Held
    <3> QED BY <2>4, <3>1, DropMoves
  <2> QED BY <2>1, <2>2, <2>3, <2>4 DEF LateRequest
<1>3. OthersFrame(t) /\ TaskTypes' /\ late'[t] = "none"
  BY <1>1, LateFacts DEF TaskTypes, OthersFrame
<1>4. pc'[t] = "done" /\ outcome'[t] = "backend_error" /\ call'[t] # None
  BY <1>1, LateFacts
<1>5. TaskInv(t)'
  BY <1>3, <1>4
     DEF TaskInv, RequestOfCall, OwnerStays, HasFetched, Sent, MadeSoFar, DeletedByOther
<1> QED BY <1>2, <1>3, <1>5, StepKeepsInv

\* Every step of the adapter keeps the invariant.
LEMMA NextKeepsInv ==
  ASSUME Mem0Inv, Mem0Next
  PROVE  Mem0Inv'
<1>1. PICK t \in Tasks : Start(t) \/ Reply(t) \/ Fail(t) \/ LateRequest(t)
  BY DEF Mem0Next
<1>2. CASE Reply(t)
  BY <1>2, PostReplyKeepsInv, FetchMissingKeepsInv, FetchAnswersKeepsInv, FetchThenActKeepsInv,
     PutReplyKeepsInv, RemoveReplyKeepsInv, ActGoneKeepsInv, LogReplyKeepsInv, ReadBackKeepsInv,
     SweepReplyKeepsInv, ListReplyKeepsInv DEF Reply
<1> QED BY <1>1, <1>2, StartKeepsInv, FailKeepsInv, LateRequestKeepsInv

\* It holds at the start.
LEMMA InitMem0Inv == Mem0Init => Mem0Inv
<1> SUFFICES ASSUME Mem0Init PROVE Mem0Inv
  OBVIOUS
<1>1. Mem0TypeOK
  BY NothingType, Mem0Assumption, Mem0ConstantsAssumption DEF Mem0Init, Mem0TypeOK
<1>2. NumbersFresh BY DEF Mem0Init, NumbersFresh
<1>3. ASSUME NEW t \in Tasks PROVE TaskInv(t)
  BY DEF Mem0Init, TaskInv, RequestOfCall, OwnerStays, HasFetched, Sent, MadeSoFar,
         DeletedByOther
<1> QED BY <1>1, <1>2, <1>3 DEF Mem0Inv

\* In every state: the types, fresh numbers, and for every task that its request is its
\* method's, that the memory it checked keeps its owner, and what it has changed so far.
THEOREM Mem0InvCorrect == Mem0Spec => []Mem0Inv
<1>1. Mem0Inv /\ [Mem0Next]_mem0Vars => Mem0Inv'
  <2> SUFFICES ASSUME Mem0Inv, [Mem0Next]_mem0Vars PROVE Mem0Inv'
    OBVIOUS
  <2>1. CASE Mem0Next BY <2>1, NextKeepsInv
  <2>2. CASE UNCHANGED mem0Vars
    BY <2>2 DEF mem0Vars, remoteVars, taskVars, Mem0Inv, Mem0TypeOK, NumbersFresh, TaskInv,
       RequestOfCall, OwnerStays, HasFetched, Sent, MadeSoFar, DeletedByOther
  <2> QED BY <2>1, <2>2
<1> QED BY <1>1, InitMem0Inv, PTL DEF Mem0Spec

\* Records, replies and requests stay well formed, whatever fails or arrives late
\* (adapter.py 89-124, 331-353).
THEOREM Mem0TypeCorrect == Mem0Spec => []Mem0TypeOK
<1>1. Mem0Inv => Mem0TypeOK BY DEF Mem0Inv
<1> QED BY <1>1, Mem0InvCorrect, PTL

\* A call answered 404 or 400 changed nothing, then or later (adapter.py 258, 271, 330,
\* client.py 42).
THEOREM RefusedMadeNothingCorrect == Mem0Spec => []RefusedMadeNothing
<1>1. Mem0Inv => RefusedMadeNothing
  BY DEF Mem0Inv, Mem0TypeOK, TaskInv, MadeSoFar, RefusedMadeNothing
<1> QED BY <1>1, Mem0InvCorrect, PTL

\* "Update succeeded but read-back failed" is true: the update was made, and another
\* call deleted the memory since (adapter.py 350-352).
THEOREM UnavailableMeansGoneCorrect == Mem0Spec => []UnavailableMeansGone
<1>1. Mem0Inv => UnavailableMeansGone
  BY DEF Mem0Inv, TaskInv, DeletedByOther, UnavailableMeansGone
<1> QED BY <1>1, Mem0InvCorrect, PTL

(***************************************************************************)
(* Every change of the records is one write, carried out at its reply or   *)
(* late.                                                                   *)
(***************************************************************************)

Writes == {"post", "put", "remove", "sweep"}

\* The server carries out the write task t has sent.
WriteOf(t, w) ==
  \/ w = "post" /\ Post(t)
  \/ w = "put" /\ Put(t)
  \/ w = "remove" /\ remote[call[t].id] # None /\ Drop(t, {call[t].id})
  \/ w = "sweep" /\ Drop(t, Filtered(call[t].partition, call[t].scope))

\* A step of one task leaves the others where they are.
LEMMA StepFrame ==
  ASSUME Mem0Inv, NEW t \in Tasks, Start(t) \/ Reply(t) \/ Fail(t) \/ LateRequest(t)
  PROVE  OthersFrame(t)
<1>1. TaskTypes BY DEF Mem0Inv, Mem0TypeOK, TaskTypes
<1>2. CASE Start(t) \/ Fail(t) \/ LateRequest(t)
  BY <1>1, <1>2 DEF Start, Fail, LateRequest, Done, TaskTypes, OthersFrame
<1>3. CASE PostReply(t) \/ FetchMissing(t) \/ FetchAnswers(t) \/ FetchThenAct(t)
           \/ PutReply(t) \/ RemoveReply(t)
  BY <1>1, <1>3 DEF PostReply, FetchMissing, FetchAnswers, FetchThenAct, PutReply,
                    RemoveReply, Done, TaskTypes, OthersFrame
<1>4. CASE ActGone(t) \/ LogReply(t) \/ ReadBackReply(t) \/ SweepReply(t) \/ ListReply(t)
  BY <1>1, <1>4 DEF ActGone, LogReply, ReadBackReply, SweepReply, ListReply, Done,
                    TaskTypes, OthersFrame
<1> QED BY <1>2, <1>3, <1>4 DEF Reply

\* A step carries out one write, or leaves every record as it is.
LEMMA StepIsWrite ==
  ASSUME Mem0Inv, Mem0Next
  PROVE  \/ UNCHANGED remoteVars
         \/ \E t \in Tasks, w \in Writes :
              /\ Sent(t, w) /\ WriteOf(t, w) /\ UNCHANGED call
              /\ pc'[t] # pc[t] \/ late'[t] # late[t]
              /\ OthersFrame(t)
<1>1. PICK t \in Tasks : Start(t) \/ Reply(t) \/ Fail(t) \/ LateRequest(t)
  BY DEF Mem0Next
<1>2. TaskTypes /\ OthersFrame(t) BY <1>1, StepFrame DEF Mem0Inv, Mem0TypeOK, TaskTypes
<1>3. CASE Start(t) \/ FetchMissing(t) \/ FetchAnswers(t) \/ FetchThenAct(t) \/ ActGone(t)
           \/ LogReply(t) \/ ReadBackReply(t) \/ Fail(t)
  BY <1>3 DEF Start, FetchMissing, FetchAnswers, FetchThenAct, ActGone, LogReply,
              ReadBackReply, Fail
<1>4. CASE ListReply(t)
  BY <1>4 DEF ListReply
<1>5. CASE PostReply(t)
  <2>1. pc[t] = "post" /\ pc'[t] = "done" /\ WriteOf(t, "post") /\ UNCHANGED call
    BY <1>2, <1>5 DEF PostReply, Done, TaskTypes, WriteOf
  <2> QED BY <1>2, <2>1 DEF Sent, Writes
<1>6. CASE PutReply(t)
  <2>1. pc[t] = "put" /\ pc'[t] = "readback" /\ WriteOf(t, "put") /\ UNCHANGED call
    BY <1>2, <1>6 DEF PutReply, TaskTypes, WriteOf
  <2> QED BY <1>2, <2>1 DEF Sent, Writes
<1>7. CASE RemoveReply(t)
  <2>1. pc[t] = "remove" /\ pc'[t] = "done" /\ WriteOf(t, "remove") /\ UNCHANGED call
    BY <1>2, <1>7 DEF RemoveReply, Done, TaskTypes, WriteOf
  <2> QED BY <1>2, <2>1 DEF Sent, Writes
<1>8. CASE SweepReply(t)
  <2>1. pc[t] = "sweep" /\ pc'[t] = "done" /\ WriteOf(t, "sweep") /\ UNCHANGED call
    BY <1>2, <1>8 DEF SweepReply, Done, TaskTypes, WriteOf
  <2> QED BY <1>2, <2>1 DEF Sent, Writes
<1>9. CASE LateRequest(t)
  <2>1. late[t] \in Writes /\ WriteOf(t, late[t]) /\ UNCHANGED call
    BY <1>9 DEF LateRequest, WriteOf, Writes
  <2>2. late'[t] = "none" BY <1>2, <1>9 DEF LateRequest, TaskTypes
  <2> QED BY <1>2, <2>1, <2>2 DEF Sent, Writes
<1> QED BY <1>1, <1>3, <1>4, <1>5, <1>6, <1>7, <1>8, <1>9 DEF Reply

\* What is known of the call whose write is carried out.
LEMMA SentFacts ==
  ASSUME Mem0Inv, NEW t \in Tasks, NEW w \in Writes, Sent(t, w)
  PROVE  /\ call[t] # None /\ call[t] \in Mem0Calls /\ call[t] \in Mem0Call
         /\ call[t].op = [post |-> "add", put |-> "update", remove |-> "delete",
                          sweep |-> "delete_all"][w]
         /\ w = "sweep" => ~call[t].odd
         /\ w \in {"put", "remove"} =>
              /\ call[t].id \in Identifiers /\ call[t].id <= newest
              /\ remote[call[t].id] # None => remote[call[t].id].user_id = call[t].partition
<1>1. CASE late[t] = w
  BY <1>1, LateFacts DEF Writes
<1>2. CASE pc[t] = w
  BY <1>2, WaitingFacts DEF Writes, RequestOfCall, OwnerStays, HasFetched, Sent
<1> QED BY <1>1, <1>2 DEF Sent

\* A write changes records of its partition alone, counts them as its task's, and a
\* delete_all those in its scope.
LEMMA WriteTouches ==
  ASSUME Mem0Inv, NEW t \in Tasks, NEW w \in Writes, Sent(t, w), WriteOf(t, w),
         NEW i \in RemoteTouched
  PROVE  /\ i \in made'[t]
         /\ OwnerOf(i) = call[t].partition
         /\ w \in {"put", "remove"} => i = call[t].id
         /\ w = "sweep" => i \in Filtered(call[t].partition, call[t].scope)
<1>1. i \in Identifiers /\ remote'[i] # remote[i] BY DEF RemoteTouched
<1>2. remote \in [Identifiers -> Record \cup {None}] /\ made \in [Tasks -> SUBSET Identifiers]
      /\ NumbersFresh /\ newest \in 0..MaxMemories
  BY DEF Mem0Inv, Mem0TypeOK
<1>3. CASE w = "post"
  <2> DEFINE m == [user_id |-> call[t].partition, text |-> call[t].content,
                   scope |-> call[t].scope, metadata |-> call[t].patch,
                   system |-> call[t].system]
  <2>1. Post(t) BY <1>3 DEF WriteOf
  <2>2. remote' = [remote EXCEPT ![newest + 1] = m]
        /\ made' = [made EXCEPT ![t] = @ \cup {newest + 1}]
    BY <2>1 DEF Post
  <2>3. i = newest + 1 /\ remote'[i] = m BY <1>1, <1>2, <2>2
  <2>4. remote[i] = None BY <1>1, <1>2, <2>3 DEF NumbersFresh
  <2> QED BY <1>2, <1>3, <2>2, <2>3, <2>4 DEF OwnerOf
<1>4. CASE w = "put"
  <2>1. i = call[t].id /\ i \in made'[t] /\ remote[i] # None
    BY <1>1, <1>2, <1>4 DEF WriteOf, Put
  <2> QED BY <1>4, <2>1, SentFacts DEF OwnerOf
<1>5. CASE w = "remove"
  <2>1. i = call[t].id /\ i \in made'[t] /\ remote[i] # None
    BY <1>1, <1>2, <1>5 DEF WriteOf, Drop
  <2> QED BY <1>5, <2>1, SentFacts DEF OwnerOf
<1>6. CASE w = "sweep"
  <2>1. i \in Filtered(call[t].partition, call[t].scope) /\ i \in made'[t]
    BY <1>1, <1>2, <1>6 DEF WriteOf, Drop
  <2> QED BY <1>6, <2>1 DEF OwnerOf, Filtered, Held
<1> QED BY <1>3, <1>4, <1>5, <1>6 DEF Writes

\* A request changes memories of its own partition only, however long after the ownership
\* check it takes effect, and a delete_all only those in its scope (adapter.py 256-277,
\* 309, 328).
THEOREM WritesStayWithOwnerCorrect == Mem0Spec => WritesStayWithOwner
<1> DEFINE Stay ==
      \A i \in RemoteTouched : \E t \in Tasks :
        /\ i \in made'[t]
        /\ pc'[t] # pc[t] \/ late'[t] # late[t]
        /\ OwnerOf(i) = call[t].partition
        /\ call[t].op = "delete_all" =>
             /\ ~call[t].odd
             /\ \A k \in ScopeKeys :
                  call[t].scope[k] # None => remote[i].scope[k] = call[t].scope[k]
<1>1. ASSUME Mem0Inv, Mem0Next PROVE Stay
  <2>1. CASE UNCHANGED remoteVars
    BY <2>1 DEF RemoteTouched, remoteVars
  <2>2. ASSUME NEW t \in Tasks, NEW w \in Writes, Sent(t, w), WriteOf(t, w),
               pc'[t] # pc[t] \/ late'[t] # late[t]
        PROVE  Stay
    <3>1. call[t].op = "delete_all" => w = "sweep" /\ ~call[t].odd
      BY <1>1, <2>2, SentFacts DEF Writes
    <3>2. ASSUME NEW i \in RemoteTouched
          PROVE  /\ i \in made'[t]
                 /\ OwnerOf(i) = call[t].partition
                 /\ w = "sweep" =>
                      \A k \in ScopeKeys :
                        call[t].scope[k] # None => remote[i].scope[k] = call[t].scope[k]
      BY <1>1, <2>2, WriteTouches DEF Filtered
    <3> QED BY <2>2, <3>1, <3>2
  <2> QED BY <1>1, <2>1, <2>2, StepIsWrite
<1>2. Mem0Inv /\ [Mem0Next]_mem0Vars => [Stay]_mem0Vars
  BY <1>1
<1> QED BY <1>2, Mem0InvCorrect, PTL DEF Mem0Spec, WritesStayWithOwner

\* What a PUT leaves of a record's visible metadata, key by key.
LEMMA PutChanges ==
  ASSUME Mem0Inv, NEW t \in Tasks, Sent(t, "put"), Put(t), NEW k \in MetaKeys
  PROVE  LET before == Decoded(remote[call[t].id]).metadata
             after == Decoded(remote'[call[t].id]).metadata
         IN \/ after[k] = Contract!Patched(before, call[t].patch)[k]
            \/ /\ call[t].patch[k] = None
               /\ existing[t].metadata[k] = None
               /\ after[k] = before[k]
<1> DEFINE i == call[t].id
           patch == call[t].patch
           sent == PutMetadata(patch, existing[t])
           stored == remote[i].metadata
           now == remote'[i].metadata
<1>1. i \in Identifiers /\ call[t] \in Mem0Call
  BY SentFacts DEF Writes
<1>2. remote' = [remote EXCEPT ![i] = Merged(remote[i], call[t], sent)]
  BY DEF Put
<1>3. remote'[i] = Merged(remote[i], call[t], sent)
  BY <1>1, <1>2 DEF Mem0Inv, Mem0TypeOK
<1>4. now[k] = IF sent[k] = Keep THEN stored[k] ELSE sent[k]
  BY <1>3 DEF Merged
<1>5. sent[k] = IF patch[k] # None THEN patch[k]
                ELSE IF existing[t].metadata[k] # None THEN Null ELSE Keep
  BY DEF PutMetadata
<1>6. patch[k] \in MetaValues \cup {None, Keep}
  BY <1>1 DEF Mem0Call, Contract!Patch
<1>7. /\ Decoded(remote[i]).metadata[k] = IF stored[k] = Null THEN None ELSE stored[k]
      /\ Decoded(remote'[i]).metadata[k] = IF now[k] = Null THEN None ELSE now[k]
  BY DEF Decoded, Visible
<1>8. Contract!Patched(Decoded(remote[i]).metadata, patch)[k]
        = IF patch[k] = Keep THEN Decoded(remote[i]).metadata[k] ELSE patch[k]
  BY DEF Contract!Patched
<1> HIDE DEF i, patch, sent, stored, now
<1>9. Null \notin MetaValues \cup {None, Keep} /\ Keep \notin MetaValues \cup {None}
  BY Mem0Assumption, Mem0ConstantsAssumption
<1>10. \/ Decoded(remote'[i]).metadata[k] = Contract!Patched(Decoded(remote[i]).metadata, patch)[k]
       \/ /\ patch[k] = None
          /\ existing[t].metadata[k] = None
          /\ Decoded(remote'[i]).metadata[k] = Decoded(remote[i]).metadata[k]
  BY <1>4, <1>5, <1>6, <1>7, <1>8, <1>9
<1> QED BY <1>10 DEF i, patch

\* What a PUT changes of a memory's metadata is what its call asked for, on the memory as
\* it is when the PUT arrives (adapter.py 331-338, base.py 181-186).
THEOREM UpdateIsPatchCorrect == Mem0Spec => UpdateIsPatch
<1> DEFINE ByPatch ==
      \A t \in Tasks : \A i \in RemoteTouched :
        /\ call[t] # None
        /\ call[t].op = "update"
        /\ (pc[t] = "put" /\ pc'[t] = "readback") \/ (late[t] = "put" /\ late'[t] = "none")
        => \A k \in MetaKeys :
             LET before == Decoded(remote[i]).metadata
                 after == Decoded(remote'[i]).metadata
             IN \/ after[k] = Contract!Patched(before, call[t].patch)[k]
                \/ /\ call[t].patch[k] = None
                   /\ existing[t].metadata[k] = None
                   /\ after[k] = before[k]
<1>1. ASSUME Mem0Inv, Mem0Next PROVE ByPatch
  <2> SUFFICES ASSUME NEW t \in Tasks, NEW i \in RemoteTouched, NEW k \in MetaKeys,
                      \/ pc[t] = "put" /\ pc'[t] = "readback"
                      \/ late[t] = "put" /\ late'[t] = "none"
               PROVE  LET before == Decoded(remote[i]).metadata
                          after == Decoded(remote'[i]).metadata
                      IN \/ after[k] = Contract!Patched(before, call[t].patch)[k]
                         \/ /\ call[t].patch[k] = None
                            /\ existing[t].metadata[k] = None
                            /\ after[k] = before[k]
    OBVIOUS
  <2>1. PICK u \in Tasks, w \in Writes : Sent(u, w) /\ WriteOf(u, w) /\ OthersFrame(u)
    BY <1>1, StepIsWrite DEF RemoteTouched, remoteVars
  <2>2. u = t BY <2>1 DEF OthersFrame
  <2>3. w = "put"
    <3>1. CASE pc[t] = "put"
      <4>1. late[t] = "none" BY <1>1, <3>1, WaitingFacts
      <4> QED BY <2>1, <2>2, <3>1, <4>1 DEF Sent, Writes
    <3>2. CASE late[t] = "put"
      <4>1. pc[t] = "done" BY <1>1, <3>2, LateFacts
      <4> QED BY <2>1, <2>2, <3>2, <4>1 DEF Sent, Writes
    <3> QED BY <3>1, <3>2
  <2>4. i = call[t].id BY <1>1, <2>1, <2>2, <2>3, WriteTouches
  <2>5. Sent(t, "put") /\ Put(t) BY <2>1, <2>2, <2>3 DEF WriteOf
  <2> QED BY <1>1, <2>4, <2>5, PutChanges
<1>2. Mem0Inv /\ [Mem0Next]_mem0Vars => [ByPatch]_mem0Vars
  BY <1>1
<1> QED BY <1>2, Mem0InvCorrect, PTL DEF Mem0Spec, UpdateIsPatch

\* A list not marked incomplete holds every memory of the partition in the scope, at the
\* ceiling too (adapter.py 371-381, 419-423).
THEOREM ListedAllOrMarkedCorrect == Mem0Spec => ListedAllOrMarked
<1> DEFINE AllOrMarked ==
      \A t \in Tasks : pc[t] = "list" /\ outcome'[t] = "ok" /\ ~partial'[t] =>
        \A i \in Filtered(call[t].partition, call[t].scope) : answer'[t][i] # None
<1>1. ASSUME Mem0Inv, Mem0Next PROVE AllOrMarked
  <2> SUFFICES ASSUME NEW t \in Tasks, pc[t] = "list", outcome'[t] = "ok", ~partial'[t],
                      NEW i \in Filtered(call[t].partition, call[t].scope)
               PROVE  answer'[t][i] # None
    OBVIOUS
  <2>1. TaskTypes /\ outcome[t] = "none" /\ late[t] = "none" BY <1>1, WaitingFacts
  <2>2. PICK u \in Tasks : Start(u) \/ Reply(u) \/ Fail(u) \/ LateRequest(u)
    BY <1>1 DEF Mem0Next
  <2>3. u = t BY <1>1, <2>1, <2>2, StepFrame DEF OthersFrame
  <2>4. ~Fail(t) /\ ~Start(t) /\ ~LateRequest(t)
    BY <2>1 DEF Fail, Start, LateRequest, Done, TaskTypes
  <2>5. ListReply(t)
    BY <2>2, <2>3, <2>4 DEF Reply, PostReply, FetchMissing, FetchAnswers, FetchThenAct, PutReply,
       RemoveReply, ActGone, LogReply, ReadBackReply, SweepReply
  <2> DEFINE all == Filtered(call[t].partition, call[t].scope)
  <2>6. PICK listed \in SUBSET all :
          /\ IF Cardinality(all) <= ListCeiling THEN listed = all
             ELSE Cardinality(listed) = ListCeiling
          /\ Done(t, "ok", [j \in Identifiers |-> IF j \in listed THEN Decoded(remote[j]) ELSE None])
          /\ partial' = [partial EXCEPT ![t] = AtCeiling(listed)]
    BY <2>5 DEF ListReply
  <2>7. ~AtCeiling(listed) BY <2>1, <2>6 DEF TaskTypes
  <2>8. Cardinality(listed) # ListCeiling
    BY <2>7, Mem0Assumption DEF AtCeiling
  <2>9. i \in listed BY <2>6, <2>8
  <2>10. i \in Identifiers /\ remote[i] \in Record
    BY <1>1 DEF Filtered, Held, Mem0Inv, Mem0TypeOK
  <2>11. answer'[t][i] = Decoded(remote[i])
    BY <2>1, <2>6, <2>9, <2>10 DEF Done, TaskTypes
  <2> QED BY <2>10, <2>11, DecodedType, Mem0ConstantsAssumption
<1>2. Mem0Inv /\ [Mem0Next]_mem0Vars => [AllOrMarked]_mem0Vars
  BY <1>1
<1> QED BY <1>2, Mem0InvCorrect, PTL DEF Mem0Spec, ListedAllOrMarked

(***************************************************************************)
(* The refinement: each write is one call of the storage contract, and     *)
(* every other step changes nothing the contract speaks of.                *)
(***************************************************************************)

\* What a stored record stands for.
LEMMA DecodedAt ==
  ASSUME Mem0Inv, NEW i \in Identifiers
  PROVE  /\ DecodedStore[i] = IF remote[i] = None THEN None ELSE Decoded(remote[i])
         /\ remote[i] # None =>
              /\ DecodedStore[i] # None /\ DecodedStore[i] \in Contract!Memory
              /\ DecodedStore[i].partition = remote[i].user_id
              /\ DecodedStore[i].scope = remote[i].scope
<1>1. remote[i] # None => remote[i] \in Record BY DEF Mem0Inv, Mem0TypeOK
<1>2. DecodedStore[i] = IF remote[i] = None THEN None ELSE Decoded(remote[i])
  BY DEF DecodedStore
<1>3. Decoded(remote[i]).scope = remote[i].scope BY DEF Decoded
<1> QED BY <1>1, <1>2, <1>3, DecodedType, Mem0ConstantsAssumption

\* Writing one record writes the memory it stands for.
LEMMA DecodedWrite ==
  ASSUME NEW i \in Identifiers, NEW m, m # None,
         remote \in [Identifiers -> Record \cup {None}], remote' = [remote EXCEPT ![i] = m]
  PROVE  DecodedStore' = [DecodedStore EXCEPT ![i] = Decoded(m)]
BY DEF DecodedStore

\* Deleting records deletes the memories they stand for.
LEMMA DropIsRemove ==
  ASSUME NEW t \in Tasks, NEW D \in SUBSET Identifiers, Drop(t, D)
  PROVE  Contract!RemoveEffect(D)
<1>1. Contract!Ids = Identifiers BY DEF Contract!Ids, Identifiers
<1>2. DecodedStore' = [i \in Identifiers |-> IF i \in D THEN None ELSE DecodedStore[i]]
  BY DEF Drop, DecodedStore
<1> QED BY <1>1, <1>2 DEF Drop, Contract!RemoveEffect

\* A POST is an add of the contract, which reads a record without system fields as one
\* whose fields are all absent.
LEMMA PostIsAdd ==
  ASSUME Mem0Inv, NEW t \in Tasks, Sent(t, "post"), Post(t)
  PROVE  Contract!Add(call[t].partition)
<1> DEFINE c == call[t]
           i == newest + 1
           m == [user_id |-> c.partition, text |-> c.content, scope |-> c.scope,
                 metadata |-> c.patch, system |-> c.system]
           s == IF c.system = None THEN Contract!NoSystem ELSE c.system
           n == Contract!NewMemory(c.partition, c.content, c.scope, c.patch, s)
<1>1. c \in Mem0Call /\ c \in Mem0Calls /\ c.op = "add" /\ c # None
  BY SentFacts DEF Writes
<1>2. i \in Identifiers /\ m \in Record
  BY <1>1, PostMoves
<1>3. c.content \in Contents /\ c.scope \in Contract!Scope /\ c.patch \in Contract!Metadata
      /\ c.system \in Contract!Stamps(c.partition) \cup {None}
  BY <1>1, Mem0Assumption DEF Mem0Call
<1>4. s \in Contract!Stamps(c.partition)
  BY <1>3 DEF Contract!Stamps
<1>5. Visible(c.patch) = c.patch
  <2>1. \A k \in MetaKeys : c.patch[k] # Null
    BY <1>3, Mem0Assumption DEF Contract!Metadata
  <2> QED BY <1>3, <2>1 DEF Visible, Contract!Metadata
<1>6. Decoded(m) = n
  BY <1>5 DEF Decoded, Contract!NewMemory, Contract!NoSystem
<1>7. newest' = i /\ remote' = [remote EXCEPT ![i] = m]
      /\ log' = [log EXCEPT ![i] = <<Contract!CreatedEntry(Decoded(m))>>]
  BY DEF Post
<1>8. m # None BY <1>2, Mem0ConstantsAssumption
<1> HIDE DEF m, n, s, c
<1>9. DecodedStore' = [DecodedStore EXCEPT ![i] = n]
  BY <1>2, <1>6, <1>7, <1>8, DecodedWrite DEF Mem0Inv, Mem0TypeOK
<1>10. log' = [log EXCEPT ![i] = <<Contract!CreatedEntry(n)>>]
  BY <1>6, <1>7
<1>11. i \in Contract!Ids /\ i > newest
  BY <1>2 DEF Identifiers, Contract!Ids, Mem0Inv, Mem0TypeOK
<1>12. Contract!AddEffect(i, c.partition, c.content, c.scope, c.patch, s)
  BY <1>7, <1>9, <1>10, <1>11 DEF Contract!AddEffect, n
<1>13. Contract!Add(c.partition)
  BY <1>3, <1>4, <1>11, <1>12 DEF Contract!Add
<1> QED BY <1>13 DEF c

\* A PUT is an update of the contract, whose patch names the keys the PUT named.
LEMMA PutIsUpdate ==
  ASSUME Mem0Inv, NEW t \in Tasks, Sent(t, "put"), Put(t)
  PROVE  Contract!Update(call[t].partition, call[t].id)
<1> DEFINE c == call[t]
           i == c.id
           sent == PutMetadata(c.patch, existing[t])
           m == Merged(remote[i], c, sent)
           q == [k \in MetaKeys |-> IF sent[k] = Null THEN None ELSE sent[k]]
           old == DecodedStore[i]
<1>1. c \in Mem0Call /\ c \in Mem0Calls /\ c # None /\ i \in Identifiers
      /\ remote[i].user_id = c.partition /\ remote[i] # None
  BY SentFacts DEF Writes, Put
<1>2. remote[i] \in Record BY <1>1 DEF Mem0Inv, Mem0TypeOK
<1>3. c.content \in Contents \cup {None} /\ c.patch \in Contract!Patch
      /\ c.system \in Contract!Stamps(c.partition) \cup {None}
  BY <1>1, Mem0Assumption DEF Mem0Call
<1>4. sent \in [MetaKeys -> MetaValues \cup {Null, Keep}]
  BY <1>3, PutMetadataType
<1>5. m \in Record /\ m # None BY <1>1, <1>2, <1>4, MergedType, Mem0ConstantsAssumption
<1>6. q \in Contract!Patch BY <1>4 DEF Contract!Patch
<1>7. old = Decoded(remote[i]) /\ old # None /\ old.partition = c.partition
  BY <1>1, DecodedAt
<1>8. Decoded(m) = Contract!Rewritten(old, c.content, q, c.system)
  <2>1. Visible(m.metadata) = Contract!Patched(old.metadata, q)
    <3>1. m.metadata = [k \in MetaKeys |-> IF sent[k] = Keep THEN remote[i].metadata[k]
                                           ELSE sent[k]]
      BY DEF Merged
    <3>2. old.metadata = Visible(remote[i].metadata) BY <1>7 DEF Decoded
    <3> HIDE DEF m, sent, old
    <3>3. ASSUME NEW k \in MetaKeys
          PROVE  Visible(m.metadata)[k] = Contract!Patched(old.metadata, q)[k]
      <4>1. Visible(m.metadata)[k] = IF m.metadata[k] = Null THEN None ELSE m.metadata[k]
        BY DEF Visible
      <4>2. old.metadata[k] = IF remote[i].metadata[k] = Null THEN None
                              ELSE remote[i].metadata[k]
        BY <3>2 DEF Visible
      <4>3. Contract!Patched(old.metadata, q)[k] = IF q[k] = Keep THEN old.metadata[k] ELSE q[k]
        BY DEF Contract!Patched
      <4>4. Null # Keep /\ None # Keep BY Mem0Assumption, Mem0ConstantsAssumption
      <4> QED BY <3>1, <4>1, <4>2, <4>3, <4>4
    <3> QED BY <3>3 DEF Visible, Contract!Patched
  <2>2. Decoded(m).system = IF c.system = None THEN old.system ELSE c.system
    BY <1>7 DEF Decoded, Merged
  <2>3. /\ Decoded(m).partition = old.partition /\ Decoded(m).scope = old.scope
        /\ Decoded(m).content = IF c.content = None THEN old.content ELSE c.content
    BY <1>7 DEF Decoded, Merged
  <2>4. Decoded(m) = [partition |-> Decoded(m).partition, content |-> Decoded(m).content,
                      scope |-> Decoded(m).scope, metadata |-> Visible(m.metadata),
                      system |-> Decoded(m).system]
    BY DEF Decoded
  <2> HIDE DEF m, q, old
  <2> QED BY <2>1, <2>2, <2>3, <2>4 DEF Contract!Rewritten
<1>9. remote' = [remote EXCEPT ![i] = m] /\ newest' = newest
      /\ log' = [log EXCEPT ![i] =
                   Append(@, Contract!UpdatedEntry(Decoded(remote[i]), Decoded(m)))]
  BY DEF Put
<1> DEFINE new == Contract!Rewritten(old, c.content, q, c.system)
<1> HIDE DEF m, q, sent, new, c
<1>10. DecodedStore' = [DecodedStore EXCEPT ![i] = new]
  BY <1>1, <1>5, <1>8, <1>9, DecodedWrite DEF Mem0Inv, Mem0TypeOK, new
<1>11. log' = [log EXCEPT ![i] = Append(@, Contract!UpdatedEntry(old, new))]
  BY <1>7, <1>8, <1>9 DEF new
<1>12. Contract!UpdateEffect(i, c.content, q, c.system)
  BY <1>9, <1>10, <1>11 DEF Contract!UpdateEffect, new
<1>13. Contract!Update(c.partition, i)
  BY <1>3, <1>6, <1>7, <1>12 DEF Contract!Update, Contract!Owned
<1> QED BY <1>13 DEF c

\* A DELETE by id is a delete of the contract.
LEMMA RemoveIsDelete ==
  ASSUME Mem0Inv, NEW t \in Tasks, Sent(t, "remove"), remote[call[t].id] # None,
         Drop(t, {call[t].id})
  PROVE  Contract!Delete(call[t].partition, call[t].id)
<1>1. call[t].id \in Identifiers /\ remote[call[t].id].user_id = call[t].partition
  BY SentFacts DEF Writes
<1>2. Contract!Owned(call[t].partition, call[t].id)
  BY <1>1, DecodedAt DEF Contract!Owned
<1>3. Contract!RemoveEffect({call[t].id}) BY <1>1, DropIsRemove
<1> QED BY <1>2, <1>3 DEF Contract!Delete

\* A DELETE with a filter is a delete_all of the contract.
LEMMA SweepIsDeleteAll ==
  ASSUME Mem0Inv, NEW t \in Tasks, Sent(t, "sweep"),
         Drop(t, Filtered(call[t].partition, call[t].scope))
  PROVE  Contract!DeleteAll(call[t].partition)
<1> DEFINE p == call[t].partition
           sc == call[t].scope
<1>1. call[t] \in Mem0Call BY SentFacts DEF Writes
<1>2. sc \in Contract!Scope BY <1>1 DEF Mem0Call
<1>3. Filtered(p, sc) \in SUBSET Identifiers BY DEF Filtered, Held
<1>4. \A i \in Identifiers :
        /\ remote[i] # None <=> DecodedStore[i] # None
        /\ remote[i] # None => DecodedStore[i].partition = remote[i].user_id
                               /\ DecodedStore[i].scope = remote[i].scope
  <2>1. ASSUME NEW i \in Identifiers
        PROVE  (remote[i] # None <=> DecodedStore[i] # None)
               /\ (remote[i] # None => /\ DecodedStore[i].partition = remote[i].user_id
                                      /\ DecodedStore[i].scope = remote[i].scope)
    BY DecodedAt
  <2> QED BY <2>1
<1>5. Filtered(p, sc) = Contract!Matching(p, sc)
  BY <1>4 DEF Filtered, Held, Contract!Matching, Contract!Stored, Contract!ScopeMatches,
              Contract!Ids, Identifiers
<1>6. Contract!RemoveEffect(Contract!Matching(p, sc)) BY <1>3, <1>5, DropIsRemove
<1> QED BY <1>2, <1>6 DEF Contract!DeleteAll

\* Through the adapter a mem0 server keeps the storage contract: each request that
\* changes it is one call of the contract, removed keys never read back, and the change
\* log fits, whatever fails or arrives late (adapter.py 189-353, base.py 85-200).
THEOREM Mem0ImplementsContract == Mem0Spec => ImplementsContract
<1>1. Mem0Init => Contract!Init
  BY DEF Mem0Init, Contract!Init, DecodedStore, Identifiers, Contract!Ids
<1>2. ASSUME Mem0Inv, Mem0Next
      PROVE  Contract!Next \/ UNCHANGED Contract!backendVars
  <2>1. CASE UNCHANGED remoteVars
    BY <2>1 DEF remoteVars, Contract!backendVars, DecodedStore
  <2>2. ASSUME NEW t \in Tasks, NEW w \in Writes, Sent(t, w), WriteOf(t, w)
        PROVE  Contract!Next
    <3>1. call[t].partition \in Spaces
      BY <1>2, <2>2, SentFacts DEF Mem0Call
    <3>2. w \in {"put", "remove"} => call[t].id \in Contract!Ids
      BY <1>2, <2>2, SentFacts DEF Identifiers, Contract!Ids
    <3>3. CASE w = "post"
      BY <1>2, <2>2, <3>1, <3>3, PostIsAdd DEF WriteOf, Contract!Next
    <3>4. CASE w = "put"
      BY <1>2, <2>2, <3>1, <3>2, <3>4, PutIsUpdate DEF WriteOf, Contract!Next
    <3>5. CASE w = "remove"
      BY <1>2, <2>2, <3>1, <3>2, <3>5, RemoveIsDelete DEF WriteOf, Contract!Next
    <3>6. CASE w = "sweep"
      BY <1>2, <2>2, <3>1, <3>6, SweepIsDeleteAll DEF WriteOf, Contract!Next
    <3> QED BY <3>3, <3>4, <3>5, <3>6 DEF Writes
  <2> QED BY <1>2, <2>1, <2>2, StepIsWrite
<1>3. Mem0Inv /\ [Mem0Next]_mem0Vars => [Contract!Next]_(Contract!backendVars)
  <2>1. UNCHANGED mem0Vars => UNCHANGED Contract!backendVars
    BY DEF mem0Vars, remoteVars, Contract!backendVars, DecodedStore
  <2> QED BY <1>2, <2>1
<1> QED BY <1>1, <1>3, Mem0InvCorrect, PTL DEF Mem0Spec, ImplementsContract, Contract!Spec

(***************************************************************************)
(* What is proved of the contract holds of the server's memories.          *)
(***************************************************************************)

OfContract == INSTANCE MemoryBackendProofs WITH
  store <- DecodedStore,
  history <- log,
  created <- newest,
  Volatile <- FALSE,
  MaxEdits <- 0

\* What the contract assumes of its constants.
LEMMA ContractConstants ==
  /\ MaxMemories \in Nat /\ 0 \in Nat /\ FALSE \in BOOLEAN /\ MetaValues \subseteq Nat
  /\ None \notin OfContract!Memory \cup OfContract!System \cup Spaces \cup Names \cup Contents
  /\ None \notin Labels \cup MetaValues
  /\ Keep \notin MetaValues \cup {None}
<1>1. OfContract!Memory = Contract!Memory /\ OfContract!System = Contract!System
  BY DEF OfContract!Memory, Contract!Memory, OfContract!System, Contract!System,
         OfContract!Scope, Contract!Scope, OfContract!Metadata, Contract!Metadata
<1> QED BY <1>1, Mem0ConstantsAssumption

\* The change log of every memory on the server begins with its creation, is unbroken and
\* ends at its text and author, whatever fails or arrives late (adapter.py 384-407).
THEOREM Mem0HistoryChain == Mem0Spec => []Contract!HistoryChain
<1>1. Contract!Init => OfContract!Init
  BY DEF Contract!Init, OfContract!Init, Contract!Ids, OfContract!Ids
<1>2. [Contract!Next]_(Contract!backendVars) => [OfContract!Next]_(OfContract!backendVars)
  BY DEF Contract!Next, OfContract!Next, Contract!Add, OfContract!Add, Contract!Update,
         OfContract!Update, Contract!Delete, OfContract!Delete, Contract!DeleteAll,
         OfContract!DeleteAll, Contract!Close, OfContract!Close, Contract!AddEffect,
         OfContract!AddEffect, Contract!UpdateEffect, OfContract!UpdateEffect,
         Contract!RemoveEffect, OfContract!RemoveEffect, Contract!NewMemory,
         OfContract!NewMemory, Contract!Rewritten, OfContract!Rewritten, Contract!Patched,
         OfContract!Patched, Contract!CreatedEntry, OfContract!CreatedEntry,
         Contract!UpdatedEntry, OfContract!UpdatedEntry, Contract!Owned, OfContract!Owned,
         Contract!Matching, OfContract!Matching, Contract!Stored, OfContract!Stored,
         Contract!ScopeMatches, OfContract!ScopeMatches, Contract!Stamps, OfContract!Stamps,
         Contract!NoSystem, OfContract!NoSystem, Contract!Ids, OfContract!Ids,
         Contract!Scope, OfContract!Scope, Contract!Metadata, OfContract!Metadata,
         Contract!Patch, OfContract!Patch, Contract!backendVars, OfContract!backendVars
<1>3. OfContract!HistoryChain => Contract!HistoryChain
  BY DEF Contract!HistoryChain, OfContract!HistoryChain,
         Contract!LogBegins, OfContract!LogBegins,
         Contract!LogChained, OfContract!LogChained, Contract!LogEnds, OfContract!LogEnds,
         Contract!Ids, OfContract!Ids
<1>4. Contract!Spec => OfContract!Spec
  BY <1>1, <1>2, PTL DEF Contract!Spec, OfContract!Spec
<1> QED BY <1>3, <1>4, Mem0ImplementsContract, OfContract!HistoryChainCorrect,
           ContractConstants, PTL DEF ImplementsContract
=============================================================================
