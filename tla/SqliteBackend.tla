---------------------------- MODULE SqliteBackend ----------------------------
(***************************************************************************)
(* The sqlite backend (memcp/backends/sqlite.py): one connection behind an *)
(* asyncio.Lock, every call run in a worker thread by asyncio.to_thread.   *)
(*                                                                         *)
(* store, history and created (MemoryBackend) are the committed database.  *)
(* view is what the connection sees: the same, plus the changes of an open *)
(* transaction.  A call is a task on the event loop and a thread that runs *)
(* its SQL one statement at a time, which is one action per statement; the *)
(* `with self._conn` block commits, or rolls back on an exception.         *)
(*                                                                         *)
(* Cancelling a task that awaits to_thread raises in the task and releases *)
(* the lock; the thread is not stopped.  It goes on as `abandoned`.        *)
(*                                                                         *)
(* The specification implements MemoryBackend's Spec (property Spec): the  *)
(* committed database changes only by whole calls of the contract.         *)
(***************************************************************************)
EXTENDS MemoryBackend, FiniteSets

CONSTANTS
  Tasks,       \* bound: the calls a behaviour contains, each used once
  SqlCalls,    \* the calls policy makes: method and arguments
  MaxCancels,  \* bound: how many calls are cancelled
  MaxErrors,   \* bound: how many statements raise sqlite3.Error
  MaxCrashes   \* bound: how many times the process dies and is restarted

SqlOps == {"add", "get", "scan", "history", "update", "delete", "delete_all", "close"}

\* One call of a backend method; scan is search and list_memories.
SqlCall == [op        : SqlOps,
            partition : Spaces,
            id        : Ids \cup {None},
            content   : Contents \cup {None},
            scope     : Scope,
            metadata  : Patch,
            system    : System \cup {None}]

ASSUME SqlAssumption ==
  /\ SqlCalls \subseteq SqlCall
  /\ \A c \in SqlCalls : c.op = "add" =>
       c.content # None /\ c.metadata \in Metadata /\ c.system # None
  /\ \A c \in SqlCalls : c.op \in {"get", "history", "update", "delete"} => c.id # None
  /\ \A c \in SqlCalls : c.system \in Stamps(c.partition) \cup {None}
  /\ MaxCancels \in Nat /\ MaxErrors \in Nat /\ MaxCrashes \in Nat
  /\ None \notin Tasks /\ None \notin SqlCall

VARIABLES
  view,      \* the connection's [store, history, created]
  inTx,      \* the connection has an open transaction
  open,      \* the connection is open
  holder,    \* the task holding the asyncio.Lock, or None
  queue,     \* the tasks waiting for it, first come first served
  pc,        \* task -> "idle", "waiting", the statement its thread runs next, "done"
  call,      \* task -> its SqlCall, with the id an add drew
  row,       \* task -> the row its SELECT returned, or None
  doomed,    \* task -> the ids its SELECT chose to delete
  answer,    \* task -> the memories its reply holds
  result,    \* task -> "none", or how the call ended for its caller
  abandoned, \* the tasks that were cancelled while their thread runs
  drawn,     \* the newest identifier drawn
  cancels,   \* how many calls were cancelled
  errors,    \* how many statements failed
  crashes    \* how many times the process died

taskVars == <<pc, call, row, doomed, answer, result, abandoned>>
sqlVars == <<backendVars, view, inTx, open, holder, queue, taskVars,
             drawn, cancels, errors, crashes>>

Committed == [store |-> store, history |-> history, created |-> created]
Unknown == [i \in Ids |-> None]

\* The statement a thread starts with, by method.
FirstStatement(op) ==
  IF op = "add" THEN "write" ELSE IF op = "close" THEN "close" ELSE "select"

Running == {"select", "write", "log", "commit", "reread", "close"}

\* Mutant: the row is looked up by id alone.
OwnedRow_ById(partition, i) == view.store[i]

\* The row with this id in the partition, as the connection sees it.
OwnedRow(partition, i) ==
  IF view.store[i] # None /\ view.store[i].partition = partition
  THEN view.store[i] ELSE None

(***************************************************************************)
(* The lock.  acquire() takes a free lock with no waiter at once, and else *)
(* queues; release() hands it to the first waiter.                         *)
(***************************************************************************)

\* Mutant: release() wakes nobody.
Release_WakesNobody(pcs) ==
  /\ holder' = None
  /\ pc' = pcs
  /\ UNCHANGED queue

\* Task t ended or was cancelled while it held the lock; pcs is pc with t's own
\* change, and the next waiter's thread starts.
Release(pcs) ==
  IF queue = <<>>
  THEN /\ holder' = None
       /\ pc' = pcs
       /\ UNCHANGED queue
  ELSE /\ holder' = Head(queue)
       /\ queue' = Tail(queue)
       /\ pc' = [pcs EXCEPT ![Head(queue)] = FirstStatement(call[Head(queue)].op)]

\* The thread of t returns or raises; nobody waits for an abandoned one.
Return(t, how) ==
  IF t \in abandoned
  THEN /\ pc' = [pc EXCEPT ![t] = "done"]
       /\ abandoned' = abandoned \ {t}
       /\ UNCHANGED <<holder, queue, result>>
  ELSE /\ Release([pc EXCEPT ![t] = "done"])
       /\ result' = [result EXCEPT ![t] = how]
       /\ UNCHANGED abandoned

Goto(t, statement) ==
  /\ pc' = [pc EXCEPT ![t] = statement]
  /\ UNCHANGED <<holder, queue, result, abandoned>>

\* Mutant: to_thread without the lock.
Call_Unlocked(t) ==
  \E c \in SqlCalls :
    /\ pc[t] = "idle"
    /\ c.op = "add" => drawn < MaxMemories
    /\ drawn' = IF c.op = "add" THEN drawn + 1 ELSE drawn
    /\ call' = [call EXCEPT ![t] = IF c.op = "add" THEN [c EXCEPT !.id = drawn + 1] ELSE c]
    /\ pc' = [pc EXCEPT ![t] = FirstStatement(c.op)]
    /\ UNCHANGED <<holder, queue>>
    /\ UNCHANGED <<backendVars, view, inTx, open, row, doomed, answer, result, abandoned,
                   cancels, errors, crashes>>

\* A method is called: an add draws its uuid, then the task asks for the lock.
Call(t) ==
  \E c \in SqlCalls :
    /\ pc[t] = "idle"
    /\ c.op = "add" => drawn < MaxMemories
    /\ drawn' = IF c.op = "add" THEN drawn + 1 ELSE drawn
    /\ call' = [call EXCEPT ![t] = IF c.op = "add" THEN [c EXCEPT !.id = drawn + 1] ELSE c]
    /\ \/ /\ holder = None /\ queue = <<>>
          /\ holder' = t
          /\ pc' = [pc EXCEPT ![t] = FirstStatement(c.op)]
          /\ UNCHANGED queue
       \/ /\ holder # None
          /\ queue' = Append(queue, t)
          /\ pc' = [pc EXCEPT ![t] = "waiting"]
          /\ UNCHANGED holder
    /\ UNCHANGED <<backendVars, view, inTx, open, row, doomed, answer, result, abandoned,
                   cancels, errors, crashes>>

(***************************************************************************)
(* The thread: one action per SQL statement.                               *)
(***************************************************************************)

Quiet == UNCHANGED <<call, drawn, cancels, errors, crashes>>

\* The rows of a partition that a scope filter keeps, as the connection sees them.
\* How a search ranks them and a listing cuts them into pages is policy's model.
SelectedIds(partition, scope) ==
  {i \in Ids : /\ OwnedRow(partition, i) # None
               /\ ScopeMatches(view.store[i].scope, scope)}

\* The SELECT of a method that only reads; its result is the reply.  (history's second
\* SELECT, of the log of the row just found, is part of the step.)
ReadRows(t) ==
  LET c == call[t]
      found == IF c.op = "scan" THEN SelectedIds(c.partition, c.scope)
               ELSE {i \in {c.id} : OwnedRow(c.partition, i) # None}
  IN /\ open
     /\ pc[t] = "select" /\ c.op \in {"get", "scan", "history"}
     /\ answer' = [answer EXCEPT ![t] = [i \in Ids |-> IF i \in found THEN view.store[i] ELSE None]]
     /\ Return(t, IF c.op = "history" /\ found = {} THEN "not_found" ELSE "ok")
     /\ UNCHANGED <<backendVars, view, inTx, open, row, doomed>> /\ Quiet

\* The SELECT of update and delete: no row is a 404.
SelectRow(t) ==
  LET found == OwnedRow(call[t].partition, call[t].id)
  IN /\ open
     /\ pc[t] = "select" /\ call[t].op \in {"update", "delete"}
     /\ row' = [row EXCEPT ![t] = found]
     /\ doomed' = [doomed EXCEPT
          ![t] = IF call[t].op = "delete" /\ found # None THEN {call[t].id} ELSE {}]
     /\ IF found = None THEN Return(t, "not_found") ELSE Goto(t, "write")
     /\ UNCHANGED <<backendVars, view, inTx, open, answer>> /\ Quiet

\* The SELECT of delete_all: nothing to delete ends the call.
SelectDoomed(t) ==
  LET c == call[t]
      chosen == SelectedIds(c.partition, c.scope)
  IN /\ open
     /\ pc[t] = "select" /\ c.op = "delete_all"
     /\ doomed' = [doomed EXCEPT ![t] = chosen]
     /\ IF chosen = {} THEN Return(t, "ok") ELSE Goto(t, "write")
     /\ UNCHANGED <<backendVars, view, inTx, open, row, answer>> /\ Quiet

\* The memory an add inserts, and what an update makes of the row it read.
Inserted(t) ==
  NewMemory(call[t].partition, call[t].content, call[t].scope, call[t].metadata,
            call[t].system)

\* Mutant: the merged metadata holds only the keys of the patch.
Merged_Replaces(t) ==
  Rewritten([row[t] EXCEPT !.metadata = [k \in MetaKeys |-> None]],
            call[t].content, call[t].metadata, call[t].system)

Merged(t) == Rewritten(row[t], call[t].content, call[t].metadata, call[t].system)

\* The first statement of the transaction, on memories.  UPDATE sets the columns
\* where the id matches, which may be nowhere.
WriteMemories(t) ==
  LET c == call[t]
  IN /\ open
     /\ pc[t] = "write"
     /\ inTx' = TRUE
     /\ view' = CASE c.op = "add" ->
                     [view EXCEPT !.store[c.id] = Inserted(t), !.created = c.id]
                  [] c.op = "update" ->
                     [view EXCEPT !.store =
                        IF @[c.id] = None THEN @
                        ELSE [@ EXCEPT ![c.id].content = Merged(t).content,
                                       ![c.id].metadata = Merged(t).metadata,
                                       ![c.id].system = Merged(t).system]]
                  [] OTHER ->
                     [view EXCEPT !.store =
                        [i \in Ids |-> IF i \in doomed[t] THEN None ELSE @[i]]]
     /\ Goto(t, "log")
     /\ UNCHANGED <<backendVars, open, row, doomed, answer>> /\ Quiet

\* The second statement, on history.
WriteHistory(t) ==
  LET c == call[t]
  IN /\ open
     /\ pc[t] = "log"
     /\ inTx' = TRUE
     /\ view' = CASE c.op = "add" ->
                     [view EXCEPT !.history[c.id] = Append(@, CreatedEntry(Inserted(t)))]
                  [] c.op = "update" ->
                     [view EXCEPT !.history[c.id] = Append(@, UpdatedEntry(row[t], Merged(t)))]
                  [] OTHER ->
                     [view EXCEPT !.history =
                        [i \in Ids |-> IF i \in doomed[t] THEN <<>> ELSE @[i]]]
     /\ Goto(t, "commit")
     /\ UNCHANGED <<backendVars, open, row, doomed, answer>> /\ Quiet

\* Leaving `with self._conn`: what the connection holds is committed.
Commit(t) ==
  /\ open
  /\ pc[t] = "commit"
  /\ store' = view.store /\ history' = view.history /\ created' = view.created
  /\ inTx' = FALSE
  /\ IF call[t].op = "update" THEN Goto(t, "reread") ELSE Return(t, "ok")
  /\ UNCHANGED <<view, open, row, doomed, answer>> /\ Quiet

\* update reads its row again for the reply.
Reread(t) ==
  LET i == call[t].id
  IN /\ open
     /\ pc[t] = "reread"
     /\ answer' = [answer EXCEPT ![t] = [Unknown EXCEPT ![i] = OwnedRow(call[t].partition, i)]]
     /\ Return(t, IF OwnedRow(call[t].partition, i) = None THEN "not_found" ELSE "ok")
     /\ UNCHANGED <<backendVars, view, inTx, open, row, doomed>> /\ Quiet

\* close(): an open transaction is rolled back.
CloseConnection(t) ==
  /\ pc[t] = "close"
  /\ open' = FALSE
  /\ view' = Committed /\ inTx' = FALSE
  /\ Return(t, "ok")
  /\ UNCHANGED <<backendVars, row, doomed, answer>> /\ Quiet

\* Mutant: an exception leaves the transaction open.
StatementFails_NoRollback(t) ==
  /\ pc[t] \in Running \ {"close"}
  /\ IF open THEN errors < MaxErrors /\ errors' = errors + 1 ELSE UNCHANGED errors
  /\ UNCHANGED <<view, inTx>>
  /\ Return(t, "error")
  /\ UNCHANGED <<backendVars, open, row, doomed, answer, call, drawn, cancels, crashes>>

\* A statement raises: sqlite3.Error, or any statement once the connection is
\* closed.  Inside the transaction the `with` block rolls the connection back.
StatementFails(t) ==
  /\ pc[t] \in Running \ {"close"}
  /\ IF open THEN errors < MaxErrors /\ errors' = errors + 1 ELSE UNCHANGED errors
  /\ IF pc[t] \in {"write", "log", "commit"}
     THEN view' = Committed /\ inTx' = FALSE
     ELSE UNCHANGED <<view, inTx>>
  /\ Return(t, "error")
  /\ UNCHANGED <<backendVars, open, row, doomed, answer, call, drawn, cancels, crashes>>

(***************************************************************************)
(* Cancellation and crashes.                                               *)
(***************************************************************************)

\* A task waiting for the lock leaves the queue.
CancelWaiting(t) ==
  /\ cancels < MaxCancels
  /\ pc[t] = "waiting"
  /\ \E n \in 1..Len(queue) :
       /\ queue[n] = t
       /\ queue' = SubSeq(queue, 1, n - 1) \o SubSeq(queue, n + 1, Len(queue))
  /\ pc' = [pc EXCEPT ![t] = "done"]
  /\ result' = [result EXCEPT ![t] = "cancelled"]
  /\ cancels' = cancels + 1
  /\ UNCHANGED <<backendVars, view, inTx, open, holder, call, row, doomed, answer,
                 abandoned, drawn, errors, crashes>>

\* A task whose thread runs gives the lock up; the thread runs on.
CancelRunning(t) ==
  /\ cancels < MaxCancels
  /\ pc[t] \in Running /\ t \notin abandoned
  /\ Release(pc)
  /\ abandoned' = abandoned \cup {t}
  /\ result' = [result EXCEPT ![t] = "cancelled"]
  /\ cancels' = cancels + 1
  /\ UNCHANGED <<backendVars, view, inTx, open, call, row, doomed, answer, drawn,
                 errors, crashes>>

\* The process dies and a new one opens the file: what was not committed is gone,
\* and so are the calls in flight.
CrashRestart ==
  /\ crashes < MaxCrashes
  /\ crashes' = crashes + 1
  /\ view' = Committed /\ inTx' = FALSE /\ open' = TRUE
  /\ holder' = None /\ queue' = <<>>
  /\ pc' = [t \in Tasks |-> IF pc[t] = "idle" THEN "idle" ELSE "done"]
  /\ result' = [t \in Tasks |-> IF pc[t] \in {"idle", "done"} \/ t \in abandoned
                                THEN result[t] ELSE "lost"]
  /\ abandoned' = {}
  /\ UNCHANGED <<backendVars, call, row, doomed, answer, drawn, cancels, errors>>

SqlInit ==
  /\ Init
  /\ view = Committed /\ inTx = FALSE /\ open = TRUE
  /\ holder = None /\ queue = <<>>
  /\ pc = [t \in Tasks |-> "idle"]
  /\ call = [t \in Tasks |-> None]
  /\ row = [t \in Tasks |-> None]
  /\ doomed = [t \in Tasks |-> {}]
  /\ answer = [t \in Tasks |-> Unknown]
  /\ result = [t \in Tasks |-> "none"]
  /\ abandoned = {}
  /\ drawn = 0 /\ cancels = 0 /\ errors = 0 /\ crashes = 0

\* The next statement of t's thread.
Statement(t) ==
  \/ ReadRows(t) \/ SelectRow(t) \/ SelectDoomed(t) \/ WriteMemories(t)
  \/ WriteHistory(t) \/ Commit(t) \/ Reread(t) \/ CloseConnection(t)

SqlNext ==
  \/ \E t \in Tasks : Call(t) \/ Statement(t) \/ StatementFails(t)
                      \/ CancelWaiting(t) \/ CancelRunning(t)
  \/ CrashRestart

SqlSpec == SqlInit /\ [][SqlNext]_sqlVars

\* The operating system runs a started thread to its end.
FairSqlSpec ==
  SqlSpec /\ \A t \in Tasks : WF_sqlVars(Statement(t) \/ (~open /\ StatementFails(t)))

(***************************************************************************)
(* Properties.                                                             *)
(***************************************************************************)

\* The database and what the connection sees hold whole memories at every statement,
\* and the lock's holder and queue are tasks (sqlite.py 78-99, 266-308).
SqlTypeOK ==
  /\ TypeOK
  /\ view \in [store : [Ids -> Memory \cup {None}],
               history : [Ids -> Seq(HistoryEntry)], created : 0..MaxMemories]
  /\ inTx \in BOOLEAN /\ open \in BOOLEAN
  /\ holder \in Tasks \cup {None}
  /\ queue \in Seq(Tasks)
  /\ pc \in [Tasks -> Running \cup {"idle", "waiting", "done"}]
  /\ call \in [Tasks -> SqlCall \cup {None}]
  /\ row \in [Tasks -> Memory \cup {None}]
  /\ doomed \in [Tasks -> SUBSET Ids]
  /\ answer \in [Tasks -> [Ids -> Memory \cup {None}]]
  /\ result \in [Tasks -> {"none", "ok", "not_found", "error", "cancelled", "lost"}]
  /\ abandoned \subseteq Tasks
  /\ drawn \in 0..MaxMemories
  /\ cancels \in 0..MaxCancels /\ errors \in 0..MaxErrors /\ crashes \in 0..MaxCrashes

\* The committed database behaves as the contract: every step of it is one whole
\* add, update, delete or delete_all of MemoryBackend, through errors, rollbacks and
\* crashes, or no change at all (sqlite.py 3-4 "interchangeable" with in_memory).
ImplementsContract == Spec

\* What a reply holds was committed when it was read: no call sees another's open
\* transaction, and an update's reply is the row as stored (sqlite.py 97-99, 303).
NoDirtyRead ==
  [][\A t \in Tasks : answer'[t] # answer[t] =>
       \A i \in Ids : answer'[t][i] # None => answer'[t][i] = store[i]]_sqlVars

\* t is an update of memory i whose patch names key k.
NamesKey(t, i, k) ==
  /\ call[t] # None /\ call[t].op = "update"
  /\ call[t].id = i /\ call[t].metadata[k] # Keep

\* A metadata key an answered update set or removed stays so until another update
\* names that key: no other call's write of the whole column brings back an older
\* value (base.py 183-184 "leaves every other stored key as it is"; sqlite.py 284,
\* "Read, merge and write under the backend's lock, so no other call interleaves").
AnsweredPatchStays ==
  \A t \in Tasks, i \in Ids, k \in MetaKeys :
    /\ result[t] = "ok" /\ NamesKey(t, i, k)
    /\ \A u \in Tasks \ {t} : ~NamesKey(u, i, k)
    /\ store[i] # None
    => store[i].metadata[k] = call[t].metadata[k]

\* A memory whose add was answered is in the file, through errors of other calls
\* and crashes, until a delete that chose it removes it.
AckedAddStays ==
  \A t \in Tasks :
    call[t] # None /\ call[t].op = "add" /\ result[t] = "ok" =>
      store[call[t].id] # None \/ \E u \in Tasks : call[t].id \in doomed[u]

\* Even with cancelled calls, no call changes or reads a memory of another
\* partition: rows keep their partition, so the ids a thread selected stay its own
\* whatever runs between its statements (sqlite.py 115-119, 204, 223, 295).
SqlPartitionsApart ==
  /\ \A t \in Tasks, i \in Ids :
       answer[t][i] # None => answer[t][i].partition = call[t].partition
  /\ \A t \in Tasks : pc[t] \in {"write", "log"} =>
       \A i \in Ids :
         /\ i \in doomed[t] \/ (call[t].op = "update" /\ call[t].id = i)
         /\ view.store[i] # None
         => view.store[i].partition = call[t].partition

\* Every call ends for its caller: the lock is always released, and waiters get it
\* in turn.
EveryTaskEnds == \A t \in Tasks : pc[t] # "idle" ~> result[t] # "none"
=============================================================================
