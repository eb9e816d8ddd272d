------------------------ MODULE SqliteContractProofs ------------------------
(***************************************************************************)
(* The sqlite backend implements the storage contract, and what it answers *)
(* is true of the file, as long as no call is cancelled while its thread   *)
(* runs: a thread that runs on without the lock breaks both.  Calls        *)
(* cancelled in the queue, failing statements and crashes are allowed.     *)
(***************************************************************************)
EXTENDS SqliteProofs

(***************************************************************************)
(* The invariant.                                                          *)
(***************************************************************************)

\* What t's transaction makes of the file.
AfterMemories(t) ==
  IF call[t].op = "add" THEN [store EXCEPT ![call[t].id] = Inserted(t)]
  ELSE IF call[t].op = "update" THEN [store EXCEPT ![call[t].id] = Merged(t)]
  ELSE [i \in Ids |-> IF i \in doomed[t] THEN None ELSE store[i]]

AfterLog(t) ==
  IF call[t].op = "add"
  THEN [history EXCEPT ![call[t].id] = <<CreatedEntry(Inserted(t))>>]
  ELSE IF call[t].op = "update"
  THEN [history EXCEPT ![call[t].id] = Append(@, UpdatedEntry(row[t], Merged(t)))]
  ELSE [i \in Ids |-> IF i \in doomed[t] THEN <<>> ELSE history[i]]

AfterNewest(t) == IF call[t].op = "add" THEN call[t].id ELSE created

\* What t selected is still so in the file when t writes.
Chosen(t) ==
  /\ call[t].op = "add" => call[t].id > created
  /\ call[t].op = "update" => row[t] = store[call[t].id]
  /\ call[t].op = "delete" =>
       doomed[t] = {call[t].id} /\ Owned(call[t].partition, call[t].id)
  /\ call[t].op = "delete_all" =>
       doomed[t] = Matching(call[t].partition, call[t].scope)

Writing == {"write", "log", "commit"}

\* The connection sees the file, or the file with the statements of the one open
\* transaction.
ViewInv ==
  /\ (\A t \in Tasks : pc[t] \notin {"log", "commit"}) => view = Committed
  /\ \A t \in Tasks : pc[t] = "log" =>
       view = [store |-> AfterMemories(t), history |-> history, created |-> AfterNewest(t)]
  /\ \A t \in Tasks : pc[t] = "commit" =>
       view = [store |-> AfterMemories(t), history |-> AfterLog(t), created |-> AfterNewest(t)]
  /\ \A t \in Tasks : pc[t] \in Writing => Chosen(t)

\* Adds reach the file in the order they drew their identifiers: the lock is first come,
\* first served.
OrderInv ==
  /\ \A t \in Tasks : pc[t] = "waiting" => \E n \in 1..Len(queue) : queue[n] = t
  /\ \A m, n \in 1..Len(queue) :
       m < n /\ IsAdd(queue[m]) /\ IsAdd(queue[n]) => call[queue[m]].id < call[queue[n]].id
  /\ \A t, u \in Tasks :
       pc[t] \in Writing /\ pc[u] = "waiting" /\ IsAdd(t) /\ IsAdd(u) => call[t].id < call[u].id
  /\ \A t \in Tasks : pc[t] = "waiting" /\ IsAdd(t) => call[t].id > created
  /\ created <= drawn
  /\ \A i \in Ids : i > created => store[i] = None /\ history[i] = <<>>

\* A call is answered when its thread is done, and chooses what it deletes once.
AnswerInv ==
  /\ \A t \in Tasks : result[t] = "ok" => pc[t] = "done"
  /\ \A t \in Tasks : pc[t] \in {"idle", "waiting", "select"} => doomed[t] = {}

\* t's patch of memory i and key k is committed, and no other call names the key.
PatchedAlone(t, i, k) ==
  /\ result[t] = "ok" \/ pc[t] = "reread"
  /\ NamesKey(t, i, k)
  /\ \A u \in Tasks \ {t} : ~NamesKey(u, i, k)

PatchInv ==
  \A t \in Tasks, i \in Ids, k \in MetaKeys :
    PatchedAlone(t, i, k) =>
      /\ i <= created
      /\ store[i] # None => store[i].metadata[k] = call[t].metadata[k]

ContractInv ==
  /\ SafeInv
  /\ abandoned = {}
  /\ ViewInv
  /\ OrderInv
  /\ AnswerInv
  /\ AckedAddStays
  /\ PatchInv

(***************************************************************************)
(* What the lock gives.                                                    *)
(***************************************************************************)

\* One thread runs at a time.
LEMMA Alone ==
  ASSUME ContractInv, NEW t \in Tasks, pc[t] \in Running
  PROVE  /\ holder = t
         /\ \A u \in Tasks \ {t} : pc[u] \in {"idle", "waiting", "done"}
<1>1. holder = t BY DEF ContractInv, SafeInv, ControlOK, LockInv
<1>2. \A u \in Tasks \ {t} : pc[u] \notin Running
  BY <1>1 DEF ContractInv, SafeInv, ControlOK, LockInv
<1> QED BY <1>1, <1>2 DEF ContractInv, SafeInv, ControlOK

\* The identifiers of adds are numbers.
LEMMA AddIds ==
  ASSUME SafeInv
  PROVE  /\ \A u \in Tasks : IsAdd(u) => call[u].id \in Ids /\ call[u].id \in Int
         /\ created \in Int /\ drawn \in Int
BY DEF SafeInv, TaskSafe, GoodCall, IsAdd, Ids, DataOK, TypeOK

\* When a thread ends, the next one starts from a queue that is first come, first served.
LEMMA AfterReturn ==
  ASSUME ContractInv, NEW t \in Tasks, pc[t] \in Running,
         NEW how \in {"ok", "not_found", "error"}, Return(t, how)
  PROVE  /\ abandoned' = {} /\ pc'[t] = "done" /\ PcStep(t)
         /\ \A u \in Tasks : result'[u] = IF u = t THEN how ELSE result[u]
         /\ \A u \in Tasks : pc'[u] \in {"idle", "waiting", "done", "select", "write", "close"}
         /\ \A u \in Tasks : pc'[u] = "write" => pc[u] = "waiting" /\ IsAdd(u)
         /\ \A u \in Tasks : pc'[u] = "waiting" => pc[u] = "waiting"
<1>1. pc'[t] = "done" /\ PcStep(t)
  BY ReturnControl DEF ContractInv, SafeInv
<1>2. abandoned' = {} /\ result' = [result EXCEPT ![t] = how]
  BY DEF Return, ContractInv
<1>3. \A u \in Tasks : result'[u] = IF u = t THEN how ELSE result[u]
  BY <1>2 DEF ContractInv, SafeInv, ControlOK
<1>4. ASSUME NEW u \in Tasks \ {t}
      PROVE  /\ pc'[u] \in {"idle", "waiting", "done", "select", "write", "close"}
             /\ pc'[u] = "write" => pc[u] = "waiting" /\ IsAdd(u)
             /\ pc'[u] = "waiting" => pc[u] = "waiting"
  <2>1. CASE pc'[u] = pc[u] BY <2>1, Alone
  <2>2. CASE pc[u] = "waiting" /\ pc'[u] = FirstStatement(call[u].op)
    <3>1. call[u] # None BY <2>2 DEF ContractInv, SafeInv, TaskSafe
    <3> QED BY <2>2, <3>1 DEF FirstStatement, IsAdd
  <2> QED BY <1>1, <2>1, <2>2 DEF PcStep
<1> QED BY <1>1, <1>2, <1>3, <1>4

\* The queue keeps its order when its head gets the lock, and a waiting add drew a later
\* identifier than the one that starts.
LEMMA ReturnOrder ==
  ASSUME ContractInv, NEW t \in Tasks, pc[t] \in Running,
         NEW how \in {"ok", "not_found", "error"}, Return(t, how), UNCHANGED call
  PROVE  /\ \A u \in Tasks : pc'[u] = "waiting" => \E n \in 1..Len(queue') : queue'[n] = u
         /\ \A m, n \in 1..Len(queue') :
              m < n /\ IsAdd(queue'[m]) /\ IsAdd(queue'[n])
                => call[queue'[m]].id < call[queue'[n]].id
         /\ \A u, w \in Tasks :
              pc'[u] = "write" /\ pc'[w] = "waiting" /\ IsAdd(u) /\ IsAdd(w)
                => call[u].id < call[w].id
<1> DEFINE pcs == [pc EXCEPT ![t] = "done"]
<1>1. Release(pcs) BY DEF Return, ContractInv
<1>2. /\ PcStep(t) /\ pc'[t] = "done"
      /\ \A u \in Tasks : pc'[u] = "write" => pc[u] = "waiting" /\ IsAdd(u)
      /\ \A u \in Tasks : pc'[u] = "waiting" => pc[u] = "waiting"
  BY AfterReturn
<1>3. queue \in Seq(Tasks) /\ pc \in [Tasks -> Running \cup {"idle", "waiting", "done"}]
  BY DEF ContractInv, SafeInv, ControlOK
<1>4. \A u \in Tasks : pc[u] = "waiting" => \E n \in 1..Len(queue) : queue[n] = u
  BY DEF ContractInv, OrderInv
<1>5. \A m, n \in 1..Len(queue) :
        m < n /\ IsAdd(queue[m]) /\ IsAdd(queue[n]) => call[queue[m]].id < call[queue[n]].id
  BY DEF ContractInv, OrderInv
<1>6. CASE queue = <<>>
  <2>1. queue' = queue BY <1>1, <1>6 DEF Release
  <2>2. \A n \in 1..Len(queue) : FALSE
    <3>1. Len(queue) = 0 BY <1>6, EmptySeq
    <3> QED BY <3>1
  <2>3. \A u \in Tasks : pc[u] # "waiting" BY <1>4, <2>2
  <2> QED BY <1>2, <2>1, <2>2, <2>3
<1>7. CASE queue # <<>>
  <2> DEFINE h == Head(queue)
  <2>1. queue' = Tail(queue) /\ pc' = [pcs EXCEPT ![h] = FirstStatement(call[h].op)]
    BY <1>1, <1>7 DEF Release
  <2>2. Len(queue) \in Nat \ {0} BY <1>3, <1>7, EmptySeq
  <2>3. /\ Len(queue') = Len(queue) - 1
        /\ \A n \in 1..Len(queue') : queue'[n] = queue[n + 1]
    BY <1>3, <1>7, <2>1, HeadTailProperties
  <2>4. h = queue[1] /\ h \in Tasks BY <1>3, <1>7, HeadTailProperties
  <2>5. pc'[h] # "waiting"
    BY <1>3, <2>1, <2>4 DEF FirstStatement
  <2>6. ASSUME NEW u \in Tasks, pc'[u] = "waiting"
        PROVE  \E n \in 1..Len(queue) : n > 1 /\ queue[n] = u
    <3>1. PICK n \in 1..Len(queue) : queue[n] = u BY <1>2, <1>4, <2>6
    <3>2. n # 1 BY <2>4, <2>5, <2>6, <3>1
    <3> QED BY <2>2, <3>1, <3>2
  <2>7. ASSUME NEW u \in Tasks, pc'[u] = "waiting"
        PROVE  \E n \in 1..Len(queue') : queue'[n] = u
    <3>1. PICK n \in 1..Len(queue) : n > 1 /\ queue[n] = u BY <2>6, <2>7
    <3>2. n - 1 \in 1..Len(queue') /\ (n - 1) + 1 = n BY <2>2, <2>3, <3>1
    <3>3. queue'[n - 1] = u BY <2>3, <3>1, <3>2
    <3> QED BY <3>2, <3>3
  <2>8. ASSUME NEW m \in 1..Len(queue'), NEW n \in 1..Len(queue'), m < n,
               IsAdd(queue'[m]), IsAdd(queue'[n])
        PROVE  call[queue'[m]].id < call[queue'[n]].id
    <3>1. /\ m + 1 \in 1..Len(queue) /\ n + 1 \in 1..Len(queue) /\ m + 1 < n + 1
          /\ queue'[m] = queue[m + 1] /\ queue'[n] = queue[n + 1]
      BY <2>2, <2>3, <2>8
    <3> QED BY <1>5, <2>8, <3>1
  <2>9. ASSUME NEW u \in Tasks, NEW w \in Tasks, pc'[u] = "write", pc'[w] = "waiting",
               IsAdd(u), IsAdd(w)
        PROVE  call[u].id < call[w].id
    <3>1. pc[u] = "waiting" BY <1>2, <2>9
    <3>2. u = h
      <4>1. u # t BY <1>2, <2>9
      <4>2. u # h => pc'[u] = pc[u] BY <1>3, <2>1, <2>4, <4>1
      <4> QED BY <2>9, <3>1, <4>2
    <3>3. PICK n \in 1..Len(queue) : n > 1 /\ queue[n] = w BY <2>6, <2>9
    <3>4. 1 \in 1..Len(queue) /\ 1 < n BY <2>2, <3>3
    <3> QED BY <1>5, <2>4, <2>9, <3>2, <3>3, <3>4
  <2> QED BY <2>7, <2>8, <2>9
<1> QED BY <1>6, <1>7

FreshFree == \A i \in Ids : i > created => store[i] = None /\ history[i] = <<>>

\* A step that ends a thread, and leaves the connection seeing the file, keeps the view,
\* the order of adds and the answers.
LEMMA EndOrder ==
  ASSUME ContractInv, NEW t \in Tasks, pc[t] \in Running,
         NEW how \in {"ok", "not_found", "error"}, Return(t, how), UNCHANGED <<call, drawn>>,
         view' = Committed', created' <= drawn', FreshFree',
         \A u \in Tasks : pc[u] = "waiting" /\ IsAdd(u) => call[u].id > created',
         \A u \in Tasks \ {t} : doomed'[u] = doomed[u]
  PROVE  ViewInv' /\ OrderInv' /\ AnswerInv' /\ abandoned' = {}
<1>1. /\ abandoned' = {} /\ pc'[t] = "done" /\ PcStep(t)
      /\ \A u \in Tasks : result'[u] = IF u = t THEN how ELSE result[u]
      /\ \A u \in Tasks : pc'[u] \in {"idle", "waiting", "done", "select", "write", "close"}
      /\ \A u \in Tasks : pc'[u] = "write" => pc[u] = "waiting" /\ IsAdd(u)
      /\ \A u \in Tasks : pc'[u] = "waiting" => pc[u] = "waiting"
  BY AfterReturn
<1>2. \A u \in Tasks : IsAdd(u)' <=> IsAdd(u) BY DEF IsAdd
<1>3. ViewInv'
  <2>1. \A u \in Tasks : pc'[u] \in Writing => pc'[u] = "write"
    BY <1>1 DEF Writing
  <2>2. \A u \in Tasks : pc'[u] \in Writing => Chosen(u)'
    BY <1>1, <2>1 DEF Chosen, IsAdd
  <2> QED BY <1>1, <2>2 DEF ViewInv
<1>4. OrderInv'
  <2>1. /\ \A u \in Tasks : pc'[u] = "waiting" => \E n \in 1..Len(queue') : queue'[n] = u
        /\ \A m, n \in 1..Len(queue') :
             m < n /\ IsAdd(queue'[m]) /\ IsAdd(queue'[n])
               => call[queue'[m]].id < call[queue'[n]].id
        /\ \A u, w \in Tasks :
             pc'[u] = "write" /\ pc'[w] = "waiting" /\ IsAdd(u) /\ IsAdd(w)
               => call[u].id < call[w].id
    BY ReturnOrder
  <2>2. \A m, n \in 1..Len(queue') :
          m < n /\ IsAdd(queue[m])' /\ IsAdd(queue[n])'
            => call'[queue'[m]].id < call'[queue'[n]].id
    BY <2>1 DEF IsAdd
  <2>3. \A u, w \in Tasks :
          pc'[u] \in Writing /\ pc'[w] = "waiting" /\ IsAdd(u)' /\ IsAdd(w)'
            => call'[u].id < call'[w].id
    BY <1>1, <1>2, <2>1 DEF Writing
  <2>4. \A u \in Tasks : pc'[u] = "waiting" /\ IsAdd(u)' => call'[u].id > created'
    BY <1>1, <1>2
  <2> QED BY <2>1, <2>2, <2>3, <2>4 DEF OrderInv, FreshFree
<1>5. AnswerInv'
  <2>1. ASSUME NEW u \in Tasks
        PROVE  /\ result'[u] = "ok" => pc'[u] = "done"
               /\ pc'[u] \in {"idle", "waiting", "select"} => doomed'[u] = {}
    <3>1. CASE u = t BY <1>1, <3>1
    <3>2. CASE u # t
      BY <1>1, <3>2 DEF PcStep, ContractInv, AnswerInv, FirstStatement
    <3> QED BY <3>1, <3>2
  <2> QED BY <2>1 DEF AnswerInv
<1> QED BY <1>1, <1>3, <1>4, <1>5

\* A step that leaves the file alone keeps what was answered, if what it answers
\* itself is no add, and an update only once it was committed.
LEMMA AnsweredStay ==
  ASSUME ContractInv, UNCHANGED <<backendVars, call>>,
         \A u \in Tasks : result'[u] = "ok" =>
           \/ result[u] = "ok"
           \/ call[u].op \notin {"add", "update"}
           \/ pc[u] = "reread",
         \A u \in Tasks : pc'[u] = "reread" => pc[u] = "reread",
         \A u \in Tasks : doomed[u] \subseteq doomed'[u]
  PROVE  AckedAddStays' /\ PatchInv'
<1>0. UNCHANGED <<store, created>> BY DEF backendVars
<1>1. AckedAddStays'
  <2> SUFFICES ASSUME NEW u \in Tasks, call[u] # None, call[u].op = "add", result'[u] = "ok"
               PROVE  store[call[u].id] # None \/ \E w \in Tasks : call[u].id \in doomed'[w]
    BY <1>0 DEF AckedAddStays
  <2>1. pc[u] = "reread" => call[u].op = "update"
    BY DEF ContractInv, SafeInv, TaskSafe, StatementFits
  <2>2. result[u] = "ok" BY <2>1
  <2>3. store[call[u].id] # None \/ \E w \in Tasks : call[u].id \in doomed[w]
    BY <2>2 DEF ContractInv, AckedAddStays
  <2> QED BY <2>3
<1>2. PatchInv'
  <2> SUFFICES ASSUME NEW u \in Tasks, NEW i \in Ids, NEW k \in MetaKeys, PatchedAlone(u, i, k)'
               PROVE  /\ i <= created
                      /\ store[i] # None => store[i].metadata[k] = call[u].metadata[k]
    BY <1>0 DEF PatchInv
  <2>1. \A w \in Tasks : NamesKey(w, i, k)' <=> NamesKey(w, i, k) BY DEF NamesKey
  <2>2. result[u] = "ok" \/ pc[u] = "reread"
    BY <2>1 DEF PatchedAlone, NamesKey
  <2>3. PatchedAlone(u, i, k) BY <2>1, <2>2 DEF PatchedAlone
  <2> QED BY <2>3 DEF ContractInv, PatchInv
<1> QED BY <1>1, <1>2

\* A thread that ends its call without a commit.
LEMMA EndStep ==
  ASSUME ContractInv, NEW t \in Tasks, pc[t] \in Running,
         NEW how \in {"ok", "not_found", "error"}, Return(t, how),
         UNCHANGED <<backendVars, call, drawn>>, view' = Committed,
         \A u \in Tasks \ {t} : doomed'[u] = doomed[u], doomed[t] \subseteq doomed'[t],
         how = "ok" => call[t].op \notin {"add", "update"} \/ pc[t] = "reread", SafeInv'
  PROVE  ContractInv'
<1>1. ViewInv' /\ OrderInv' /\ AnswerInv' /\ abandoned' = {}
  <2>1. view' = Committed' BY DEF Committed, backendVars
  <2>2. created' <= drawn' /\ FreshFree'
    BY DEF ContractInv, OrderInv, FreshFree, backendVars
  <2>3. \A u \in Tasks : pc[u] = "waiting" /\ IsAdd(u) => call[u].id > created'
    BY DEF ContractInv, OrderInv, backendVars
  <2> QED BY <2>1, <2>2, <2>3, EndOrder
<1>2. /\ \A u \in Tasks : result'[u] = IF u = t THEN how ELSE result[u]
      /\ \A u \in Tasks : pc'[u] \in {"idle", "waiting", "done", "select", "write", "close"}
  BY AfterReturn
<1>3. \A u \in Tasks : doomed[u] \subseteq doomed'[u] OBVIOUS
<1>4. AckedAddStays' /\ PatchInv'
  BY <1>2, <1>3, AnsweredStay
<1> QED BY <1>1, <1>4 DEF ContractInv

\* A thread that goes on to a statement of its transaction.
LEMMA GoStep ==
  ASSUME ContractInv, NEW t \in Tasks, pc[t] \in {"select", "write", "log"},
         NEW s \in Writing, Goto(t, s), UNCHANGED <<backendVars, call, drawn>>,
         pc[t] = "select" => ~IsAdd(t),
         \A u \in Tasks \ {t} : doomed'[u] = doomed[u], doomed[t] \subseteq doomed'[t],
         Chosen(t)',
         s = "write" => view' = Committed',
         s = "log" => view' = [store |-> AfterMemories(t), history |-> history,
                               created |-> AfterNewest(t)]',
         s = "commit" => view' = [store |-> AfterMemories(t), history |-> AfterLog(t),
                                  created |-> AfterNewest(t)]',
         SafeInv'
  PROVE  ContractInv'
<1>0. UNCHANGED <<store, history, created>> BY DEF backendVars
<1>1. pc[t] \in Running /\ s \in Running /\ s # "waiting"
  BY DEF Running, Writing
<1>2. /\ \A u \in Tasks : pc'[u] = IF u = t THEN s ELSE pc[u]
      /\ UNCHANGED <<holder, queue, result, abandoned>>
  BY DEF Goto, ContractInv, SafeInv, ControlOK
<1>3. \A u \in Tasks \ {t} : pc[u] \in {"idle", "waiting", "done"} BY <1>1, Alone
<1>4. \A u \in Tasks : IsAdd(u)' <=> IsAdd(u) BY DEF IsAdd
<1>5. ViewInv'
  <2>1. \A u \in Tasks \ {t} : pc'[u] \notin Writing BY <1>2, <1>3 DEF Writing
  <2>2. pc'[t] = s BY <1>2
  <2>3. (\A u \in Tasks : pc'[u] \notin {"log", "commit"}) => s = "write"
    BY <2>2 DEF Writing
  <2>4. \A u \in Tasks : pc'[u] \in Writing => Chosen(u)' BY <2>1
  <2>5. \A u \in Tasks : pc'[u] = "log" =>
          view' = [store |-> AfterMemories(u), history |-> history, created |-> AfterNewest(u)]'
    BY <2>1, <2>2 DEF Writing
  <2>6. \A u \in Tasks : pc'[u] = "commit" =>
          view' = [store |-> AfterMemories(u), history |-> AfterLog(u),
                   created |-> AfterNewest(u)]'
    BY <2>1, <2>2 DEF Writing
  <2> QED BY <2>3, <2>4, <2>5, <2>6 DEF ViewInv
<1>6. OrderInv'
  <2>1. \A u \in Tasks : pc'[u] = "waiting" => pc[u] = "waiting" BY <1>1, <1>2
  <2>2. ASSUME NEW u \in Tasks, NEW w \in Tasks, pc'[u] \in Writing, pc'[w] = "waiting",
               IsAdd(u), IsAdd(w)
        PROVE  call[u].id < call[w].id
    <3>1. u = t BY <1>2, <1>3, <2>2 DEF Writing
    <3>2. pc[t] \in Writing BY <2>2, <3>1 DEF Writing
    <3> QED BY <2>1, <2>2, <3>1, <3>2 DEF ContractInv, OrderInv
  <2>3. /\ \A u \in Tasks : pc'[u] = "waiting" => \E n \in 1..Len(queue) : queue[n] = u
        /\ \A m, n \in 1..Len(queue) :
             m < n /\ IsAdd(queue[m]) /\ IsAdd(queue[n]) => call[queue[m]].id < call[queue[n]].id
        /\ \A u \in Tasks : pc'[u] = "waiting" /\ IsAdd(u) => call[u].id > created
        /\ created <= drawn
        /\ \A i \in Ids : i > created => store[i] = None /\ history[i] = <<>>
    BY <2>1 DEF ContractInv, OrderInv
  <2> QED BY <1>0, <1>2, <1>4, <2>2, <2>3 DEF OrderInv, IsAdd
<1>7. AnswerInv'
  <2>1. pc[t] # "done" /\ s \notin {"idle", "waiting", "select"} BY DEF Writing
  <2> QED BY <1>2, <2>1 DEF ContractInv, AnswerInv
<1>8. AckedAddStays' /\ PatchInv'
  <2>1. s # "reread" BY DEF Writing
  <2>2. \A u \in Tasks : pc'[u] = "reread" => pc[u] = "reread" BY <1>2, <2>1
  <2>3. \A u \in Tasks : doomed[u] \subseteq doomed'[u] OBVIOUS
  <2> QED BY <1>2, <2>2, <2>3, AnsweredStay
<1> QED BY <1>2, <1>5, <1>6, <1>7, <1>8 DEF ContractInv

\* A thread that selects sees the file.
LEMMA SelectSeesFile ==
  ASSUME ContractInv, NEW t \in Tasks, pc[t] \in {"select", "reread", "close", "write"}
  PROVE  view = Committed
<1>1. pc[t] \in Running BY DEF Running
<1>2. \A u \in Tasks : pc[u] \notin {"log", "commit"}
  <2> TAKE u \in Tasks
  <2>1. CASE u = t BY <2>1
  <2>2. CASE u # t BY <1>1, <2>2, Alone
  <2> QED BY <2>1, <2>2
<1> QED BY <1>2 DEF ContractInv, ViewInv

\* The reads.
LEMMA ReadsContract ==
  ASSUME ContractInv, NEW t \in Tasks, ReadRows(t) \/ Reread(t), SafeInv'
  PROVE  ContractInv'
<1>1. /\ pc[t] \in {"select", "reread"}
      /\ UNCHANGED <<backendVars, view, row, doomed, call, drawn>>
      /\ \E how \in {"ok", "not_found"} :
           /\ Return(t, how)
           /\ call[t].op \notin {"add", "update"} \/ pc[t] = "reread"
  BY DEF ReadRows, Reread, Quiet
<1>2. PICK how \in {"ok", "not_found", "error"} :
        /\ Return(t, how)
        /\ call[t].op \notin {"add", "update"} \/ pc[t] = "reread"
  BY <1>1
<1>3. view' = Committed BY <1>1, SelectSeesFile
<1>4. pc[t] \in Running BY <1>1 DEF Running
<1> QED BY <1>1, <1>2, <1>3, <1>4, EndStep

\* The SELECT of update and delete.
LEMMA SelectRowContract ==
  ASSUME ContractInv, NEW t \in Tasks, SelectRow(t), SafeInv'
  PROVE  ContractInv'
<1> DEFINE found == OwnedRow(call[t].partition, call[t].id)
           chosen == IF call[t].op = "delete" /\ found # None THEN {call[t].id} ELSE {}
<1>1. /\ pc[t] = "select" /\ call[t].op \in {"update", "delete"}
      /\ row' = [row EXCEPT ![t] = found] /\ doomed' = [doomed EXCEPT ![t] = chosen]
      /\ IF found = None THEN Return(t, "not_found") ELSE Goto(t, "write")
      /\ UNCHANGED <<backendVars, view, call, drawn>>
  BY DEF SelectRow, Quiet
<1>2. pc[t] \in Running BY <1>1 DEF Running
<1>3. view' = Committed /\ view = Committed BY <1>1, SelectSeesFile
<1>4. doomed[t] = {} BY <1>1 DEF ContractInv, AnswerInv
<1>5. /\ \A u \in Tasks : doomed'[u] = IF u = t THEN chosen ELSE doomed[u]
      /\ row'[t] = found
  BY <1>1 DEF ContractInv, SafeInv, DataOK
<1>6. CASE found = None
  <2>1. Return(t, "not_found") BY <1>1, <1>6
  <2>2. "not_found" \in {"ok", "not_found", "error"} OBVIOUS
  <2> QED BY <1>1, <1>2, <1>3, <1>4, <1>5, <2>1, <2>2, EndStep
<1>7. CASE found # None
  <2>1. Goto(t, "write") /\ "write" \in Writing BY <1>1, <1>7 DEF Writing
  <2>2. call[t].id \in Ids BY <1>1 DEF ContractInv, SafeInv, TaskSafe, GoodCall
  <2>3. /\ found = store[call[t].id] /\ store[call[t].id] # None
        /\ store[call[t].id].partition = call[t].partition
    BY <1>3, <1>7, <2>2, OwnedRowFound DEF ContractInv, SafeInv, Committed
  <2>4. Chosen(t)'
    BY <1>1, <1>5, <1>7, <2>3 DEF Chosen, Owned, backendVars
  <2>5. view' = Committed' BY <1>1, <1>3 DEF Committed, backendVars
  <2>6. ~IsAdd(t) BY <1>1 DEF IsAdd
  <2> QED BY <1>1, <1>4, <1>5, <2>1, <2>4, <2>5, <2>6, GoStep
<1> QED BY <1>6, <1>7

\* What a SELECT over a partition returns is what the contract calls matching.
LEMMA SelectedIsMatching ==
  ASSUME SafeInv, view = Committed, NEW p \in Spaces, NEW sc
  PROVE  SelectedIds(p, sc) = Matching(p, sc)
<1>1. view.store = store BY DEF Committed
<1>2. \A i \in Ids : OwnedRow(p, i) # None <=> store[i] # None /\ store[i].partition = p
  BY <1>1 DEF OwnedRow
<1> QED BY <1>1, <1>2 DEF SelectedIds, Matching, Stored

\* The SELECT of delete_all.
LEMMA SelectDoomedContract ==
  ASSUME ContractInv, NEW t \in Tasks, SelectDoomed(t), SafeInv'
  PROVE  ContractInv'
<1> DEFINE chosen == SelectedIds(call[t].partition, call[t].scope)
<1>1. /\ pc[t] = "select" /\ call[t].op = "delete_all"
      /\ doomed' = [doomed EXCEPT ![t] = chosen]
      /\ IF chosen = {} THEN Return(t, "ok") ELSE Goto(t, "write")
      /\ UNCHANGED <<backendVars, view, row, call, drawn>>
  BY DEF SelectDoomed, Quiet
<1>2. pc[t] \in Running BY <1>1 DEF Running
<1>3. view' = Committed /\ view = Committed BY <1>1, SelectSeesFile
<1>4. doomed[t] = {} BY <1>1 DEF ContractInv, AnswerInv
<1>5. \A u \in Tasks : doomed'[u] = IF u = t THEN chosen ELSE doomed[u]
  BY <1>1 DEF ContractInv, SafeInv, DataOK
<1>6. CASE chosen = {}
  <2>1. Return(t, "ok") /\ call[t].op \notin {"add", "update"} BY <1>1, <1>6
  <2>2. "ok" \in {"ok", "not_found", "error"} OBVIOUS
  <2> QED BY <1>1, <1>2, <1>3, <1>4, <1>5, <2>1, <2>2, EndStep
<1>7. CASE chosen # {}
  <2>1. Goto(t, "write") /\ "write" \in Writing BY <1>1, <1>7 DEF Writing
  <2>2. call[t].partition \in Spaces
    BY <1>1 DEF ContractInv, SafeInv, TaskSafe, GoodCall, SqlCall
  <2>3. chosen = Matching(call[t].partition, call[t].scope)
    BY <1>3, <2>2, SelectedIsMatching DEF ContractInv
  <2>4. Chosen(t)'
    BY <1>1, <1>5, <2>3 DEF Chosen, Matching, Stored, backendVars
  <2>5. view' = Committed' BY <1>1, <1>3 DEF Committed, backendVars
  <2>6. ~IsAdd(t) BY <1>1 DEF IsAdd
  <2> QED BY <1>1, <1>4, <1>5, <2>1, <2>4, <2>5, <2>6, GoStep
<1> QED BY <1>6, <1>7

\* What a transaction makes of the file does not change while nothing it reads does.
LEMMA AfterStays ==
  ASSUME NEW t \in Tasks, UNCHANGED <<store, history, created, call, row, doomed>>
  PROVE  /\ AfterMemories(t)' = AfterMemories(t) /\ AfterLog(t)' = AfterLog(t)
         /\ AfterNewest(t)' = AfterNewest(t)
         /\ Chosen(t) => Chosen(t)'
BY DEF AfterMemories, AfterLog, AfterNewest, Inserted, Merged, Chosen, Owned, Matching, Stored

\* The statement on memories makes what the contract's call makes of the store.
LEMMA WriteMemoriesContract ==
  ASSUME ContractInv, NEW t \in Tasks, WriteMemories(t), SafeInv'
  PROVE  ContractInv'
<1> DEFINE c == call[t]
<1>1. /\ pc[t] = "write" /\ Goto(t, "log")
      /\ UNCHANGED <<backendVars, row, doomed, call, drawn>>
  BY DEF WriteMemories, Quiet
<1>2. view = Committed BY <1>1, SelectSeesFile
<1>3. Chosen(t) BY <1>1 DEF ContractInv, ViewInv, Writing
<1>4. view.store = store /\ view.history = history /\ view.created = created
      /\ store \in [Ids -> Memory \cup {None}]
  BY <1>2 DEF Committed, ContractInv, SafeInv, DataOK, TypeOK
<1>5. view' = [store |-> AfterMemories(t), history |-> history, created |-> AfterNewest(t)]
  <2>1. CASE c.op = "add"
    <3>1. view' = [view EXCEPT !.store[c.id] = Inserted(t), !.created = c.id]
      BY <2>1 DEF WriteMemories
    <3> QED BY <1>2, <2>1, <3>1 DEF Committed, AfterMemories, AfterNewest
  <2>2. CASE c.op = "update"
    <3> DEFINE n == [store[c.id] EXCEPT !.content = Merged(t).content,
                                        !.metadata = Merged(t).metadata,
                                        !.system = Merged(t).system]
    <3>1. /\ c.id \in Ids /\ row[t] \in Memory /\ Merged(t) \in Memory
          /\ row[t] = store[c.id]
      BY <1>1, <1>3, <2>2, WrittenTypes DEF ContractInv, Chosen
    <3>2. store[c.id] # None BY <3>1, NoneAssumption
    <3>3. n = Merged(t)
      <4>1. Merged(t).partition = row[t].partition /\ Merged(t).scope = row[t].scope
        BY DEF Merged, Rewritten
      <4> QED BY <3>1, <4>1 DEF Memory
    <3>4. view' = [view EXCEPT !.store =
                     IF @[c.id] = None THEN @
                     ELSE [@ EXCEPT ![c.id].content = Merged(t).content,
                                    ![c.id].metadata = Merged(t).metadata,
                                    ![c.id].system = Merged(t).system]]
      BY <2>2 DEF WriteMemories
    <3>5. view' = [view EXCEPT !.store = [store EXCEPT ![c.id] = n]]
      BY <1>4, <3>1, <3>2, <3>4 DEF Memory
    <3> HIDE DEF n
    <3> QED BY <1>2, <2>2, <3>3, <3>5 DEF Committed, AfterMemories, AfterNewest
  <2>3. CASE c.op \notin {"add", "update"}
    <3>1. view' = [view EXCEPT !.store =
                     [i \in Ids |-> IF i \in doomed[t] THEN None ELSE @[i]]]
      BY <2>3 DEF WriteMemories
    <3> QED BY <1>2, <2>3, <3>1 DEF Committed, AfterMemories, AfterNewest
  <2> QED BY <2>1, <2>2, <2>3
<1>6. UNCHANGED <<store, history, created, call, row, doomed>> BY <1>1 DEF backendVars
<1>7. view' = [store |-> AfterMemories(t), history |-> history, created |-> AfterNewest(t)]'
  BY <1>5, <1>6, AfterStays
<1>8. Chosen(t)' BY <1>3, <1>6, AfterStays
<1>9. "log" \in Writing BY DEF Writing
<1> QED BY <1>1, <1>7, <1>8, <1>9, GoStep

\* The statement on history makes what the contract's call makes of the log.
LEMMA WriteHistoryContract ==
  ASSUME ContractInv, NEW t \in Tasks, WriteHistory(t), SafeInv'
  PROVE  ContractInv'
<1> DEFINE c == call[t]
<1>1. /\ pc[t] = "log" /\ Goto(t, "commit")
      /\ UNCHANGED <<backendVars, row, doomed, call, drawn>>
  BY DEF WriteHistory, Quiet
<1>2. view = [store |-> AfterMemories(t), history |-> history, created |-> AfterNewest(t)]
  BY <1>1 DEF ContractInv, ViewInv
<1>3. Chosen(t) BY <1>1 DEF ContractInv, ViewInv, Writing
<1>4. view' = [store |-> AfterMemories(t), history |-> AfterLog(t), created |-> AfterNewest(t)]
  <2>1. CASE c.op = "add"
    <3>1. view' = [view EXCEPT !.history[c.id] = Append(@, CreatedEntry(Inserted(t)))]
      BY <2>1 DEF WriteHistory
    <3>2. c.id \in Ids BY <1>1, <2>1, WrittenTypes DEF ContractInv
    <3>3. history[c.id] = <<>>
      BY <1>3, <2>1, <3>2 DEF Chosen, ContractInv, OrderInv
    <3>4. Append(history[c.id], CreatedEntry(Inserted(t))) = <<CreatedEntry(Inserted(t))>>
      BY <3>3
    <3>5. AfterLog(t) = [history EXCEPT ![c.id] = <<CreatedEntry(Inserted(t))>>]
      BY <2>1 DEF AfterLog
    <3> QED BY <1>2, <3>1, <3>4, <3>5
  <2>2. CASE c.op = "update"
    <3>1. view' = [view EXCEPT !.history[c.id] = Append(@, UpdatedEntry(row[t], Merged(t)))]
      BY <2>2 DEF WriteHistory
    <3> QED BY <1>2, <2>2, <3>1 DEF AfterLog
  <2>3. CASE c.op \notin {"add", "update"}
    <3>1. view' = [view EXCEPT !.history =
                     [i \in Ids |-> IF i \in doomed[t] THEN <<>> ELSE @[i]]]
      BY <2>3 DEF WriteHistory
    <3> QED BY <1>2, <2>3, <3>1 DEF AfterLog
  <2> QED BY <2>1, <2>2, <2>3
<1>5. UNCHANGED <<store, history, created, call, row, doomed>> BY <1>1 DEF backendVars
<1>6. view' = [store |-> AfterMemories(t), history |-> AfterLog(t), created |-> AfterNewest(t)]'
  BY <1>4, <1>5, AfterStays
<1>7. Chosen(t)' BY <1>3, <1>5, AfterStays
<1>8. "commit" \in Writing BY DEF Writing
<1> QED BY <1>1, <1>6, <1>7, <1>8, GoStep

\* A commit makes of the file what the transaction was to make of it, and that is one call
\* of the contract.
LEMMA CommitIsCall ==
  ASSUME ContractInv, NEW t \in Tasks, Commit(t)
  PROVE  /\ store' = AfterMemories(t) /\ history' = AfterLog(t) /\ created' = AfterNewest(t)
         /\ view' = Committed' /\ Chosen(t)
         /\ Next
<1> DEFINE c == call[t]
<1>1. /\ pc[t] = "commit"
      /\ store' = view.store /\ history' = view.history /\ created' = view.created
      /\ view' = view
  BY DEF Commit
<1>2. view = [store |-> AfterMemories(t), history |-> AfterLog(t), created |-> AfterNewest(t)]
  BY <1>1 DEF ContractInv, ViewInv
<1>3. Chosen(t) BY <1>1 DEF ContractInv, ViewInv, Writing
<1>4. store' = AfterMemories(t) /\ history' = AfterLog(t) /\ created' = AfterNewest(t)
  BY <1>1, <1>2
<1>5. view' = Committed' BY <1>1, <1>2 DEF Committed
<1>6. /\ c # None /\ GoodCall(c) /\ c.op \in {"add", "update", "delete", "delete_all"}
      /\ c.op = "update" => row[t] # None /\ row[t].partition = c.partition
  BY <1>1 DEF ContractInv, SafeInv, TaskSafe, StatementFits
<1>7. /\ c.partition \in Spaces /\ c.content \in Contents \cup {None} /\ c.scope \in Scope
      /\ c.metadata \in Patch /\ c.system \in Stamps(c.partition) \cup {None}
  BY <1>6 DEF GoodCall, SqlCall
<1>8. Next
  <2>1. CASE c.op = "add"
    <3>1. /\ c.id \in Ids /\ c.content \in Contents /\ c.metadata \in Metadata
          /\ c.system \in Stamps(c.partition) /\ c.id > created
      BY <1>3, <1>6, <1>7, <2>1 DEF GoodCall, Chosen
    <3>2. AddEffect(c.id, c.partition, c.content, c.scope, c.metadata, c.system)
      BY <1>4, <2>1, <3>1 DEF AddEffect, AfterMemories, AfterLog, AfterNewest, Inserted
    <3>3. Add(c.partition) BY <1>7, <3>1, <3>2 DEF Add
    <3> QED BY <1>7, <3>3 DEF Next
  <2>2. CASE c.op = "update"
    <3>1. /\ c.id \in Ids /\ row[t] = store[c.id]
      BY <1>3, <1>6, <2>2 DEF GoodCall, Chosen
    <3>2. Owned(c.partition, c.id) BY <1>6, <2>2, <3>1 DEF Owned
    <3>3. UpdateEffect(c.id, c.content, c.metadata, c.system)
      BY <1>4, <2>2, <3>1 DEF UpdateEffect, AfterMemories, AfterLog, AfterNewest, Merged
    <3>4. Update(c.partition, c.id) BY <1>7, <3>2, <3>3 DEF Update
    <3> QED BY <1>7, <3>1, <3>4 DEF Next
  <2>3. CASE c.op \in {"delete", "delete_all"}
    <3>1. RemoveEffect(doomed[t])
      BY <1>4, <2>3 DEF RemoveEffect, AfterMemories, AfterLog, AfterNewest
    <3>2. CASE c.op = "delete"
      <4>1. c.id \in Ids /\ Owned(c.partition, c.id) /\ doomed[t] = {c.id}
        BY <1>3, <1>6, <3>2 DEF GoodCall, Chosen
      <4>2. Delete(c.partition, c.id) BY <3>1, <4>1 DEF Delete
      <4> QED BY <1>7, <4>1, <4>2 DEF Next
    <3>3. CASE c.op = "delete_all"
      <4>1. doomed[t] = Matching(c.partition, c.scope) BY <1>3, <3>3 DEF Chosen
      <4>2. DeleteAll(c.partition) BY <1>7, <3>1, <4>1 DEF DeleteAll
      <4> QED BY <1>7, <4>2 DEF Next
    <3> QED BY <2>3, <3>2, <3>3
  <2> QED BY <1>6, <2>1, <2>2, <2>3
<1> QED BY <1>3, <1>4, <1>5, <1>8

\* After a commit the newest identifier is still below the adds that wait, and names
\* beyond it are free.
LEMMA CommitOrder ==
  ASSUME ContractInv, NEW t \in Tasks, Commit(t)
  PROVE  /\ created' <= drawn' /\ FreshFree' /\ created <= created'
         /\ \A u \in Tasks : pc[u] = "waiting" /\ IsAdd(u) => call[u].id > created'
<1> DEFINE c == call[t]
<1>1. /\ store' = AfterMemories(t) /\ history' = AfterLog(t) /\ created' = AfterNewest(t)
      /\ Chosen(t)
  BY CommitIsCall
<1>2. pc[t] = "commit" /\ drawn' = drawn BY DEF Commit, Quiet
<1>3. c # None /\ GoodCall(c)
  BY <1>2 DEF ContractInv, SafeInv, TaskSafe
<1>4. /\ \A u \in Tasks : IsAdd(u) => call[u].id \in Ids /\ call[u].id \in Int /\ call[u].id <= drawn
      /\ created \in Int /\ drawn \in Int /\ created <= drawn
      /\ \A i \in Ids : i > created => store[i] = None /\ history[i] = <<>>
  BY AddIds DEF ContractInv, OrderInv, SafeInv, OriginInv
<1>5. /\ store \in [Ids -> Memory \cup {None}] /\ history \in [Ids -> Seq(HistoryEntry)]
      /\ Ids \subseteq Int
  BY DEF ContractInv, SafeInv, DataOK, TypeOK, Ids
<1>6. /\ \A u \in Tasks : pc[u] = "waiting" /\ IsAdd(u) => call[u].id > created
      /\ \A u \in Tasks : pc[u] = "waiting" /\ IsAdd(u) /\ IsAdd(t) => call[t].id < call[u].id
  BY <1>2 DEF ContractInv, OrderInv, Writing
<1>7. CASE c.op = "add"
  <2>1. created' = c.id /\ c.id > created /\ IsAdd(t)
    BY <1>1, <1>3, <1>7 DEF AfterNewest, Chosen, IsAdd
  <2>2. /\ \A i \in Ids : i # c.id => store'[i] = store[i]
        /\ \A i \in Ids : i # c.id => history'[i] = history[i]
    BY <1>1, <1>5, <1>7 DEF AfterMemories, AfterLog
  <2>3. FreshFree' BY <1>4, <1>5, <2>1, <2>2 DEF FreshFree
  <2> QED BY <1>2, <1>4, <1>6, <2>1, <2>3
<1>8. CASE c.op = "update"
  <2>1. created' = created /\ c.id \in Ids
    BY <1>1, <1>3, <1>8 DEF AfterNewest, GoodCall
  <2>2. store[c.id] # None
    BY <1>1, <1>2, <1>8 DEF Chosen, ContractInv, SafeInv, TaskSafe, StatementFits
  <2>3. /\ \A i \in Ids : i # c.id => store'[i] = store[i]
        /\ \A i \in Ids : i # c.id => history'[i] = history[i]
    BY <1>1, <1>5, <1>8 DEF AfterMemories, AfterLog
  <2>4. FreshFree' BY <1>4, <2>1, <2>2, <2>3 DEF FreshFree
  <2> QED BY <1>2, <1>4, <1>6, <2>1, <2>4
<1>9. CASE c.op \notin {"add", "update"}
  <2>1. created' = created BY <1>1, <1>9 DEF AfterNewest
  <2>2. \A i \in Ids : /\ store'[i] \in {None, store[i]}
                       /\ history'[i] \in {<<>>, history[i]}
    BY <1>1, <1>9 DEF AfterMemories, AfterLog
  <2>3. FreshFree' BY <1>4, <2>1, <2>2 DEF FreshFree
  <2> QED BY <1>2, <1>4, <1>6, <2>1, <2>3
<1> QED BY <1>7, <1>8, <1>9

\* After a commit the answered adds are in the file, or were chosen by a delete.
LEMMA CommitKeepsAdds ==
  ASSUME ContractInv, NEW t \in Tasks, Commit(t),
         \A u \in Tasks : result'[u] = "ok" => result[u] = "ok" \/ u = t
  PROVE  AckedAddStays'
<1>1. /\ store' = AfterMemories(t) /\ pc[t] = "commit"
      /\ UNCHANGED <<call, doomed>>
  BY CommitIsCall DEF Commit, Quiet
<1>2. call[t] # None /\ GoodCall(call[t])
  BY <1>1 DEF ContractInv, SafeInv, TaskSafe
<1>3. store \in [Ids -> Memory \cup {None}] BY DEF ContractInv, SafeInv, DataOK, TypeOK
<1>4. /\ call[t].op = "add" => Inserted(t) # None
      /\ call[t].op = "update" => Merged(t) # None
  <2>1. /\ call[t].op = "add" => Inserted(t) \in Memory
        /\ call[t].op = "update" => Merged(t) \in Memory
    BY <1>1, WrittenTypes DEF ContractInv
  <2> QED BY <2>1, NoneAssumption
<1> SUFFICES ASSUME NEW u \in Tasks, call[u] # None, call[u].op = "add", result'[u] = "ok"
             PROVE  store'[call[u].id] # None \/ \E w \in Tasks : call[u].id \in doomed[w]
  BY <1>1 DEF AckedAddStays
<1>5. call[u].id \in Ids BY DEF ContractInv, SafeInv, TaskSafe, GoodCall
<1>6. CASE u = t
  BY <1>1, <1>3, <1>4, <1>5, <1>6 DEF AfterMemories
<1>7. CASE u # t
  <2>1. store[call[u].id] # None \/ \E w \in Tasks : call[u].id \in doomed[w]
    BY <1>7 DEF ContractInv, AckedAddStays
  <2>2. ASSUME store[call[u].id] # None, call[u].id \notin doomed[t]
        PROVE  store'[call[u].id] # None
    BY <1>1, <1>3, <1>4, <1>5, <2>2 DEF AfterMemories
  <2> QED BY <2>1, <2>2
<1> QED BY <1>6, <1>7

\* After a commit every answered patch still stands: a later update that does not name
\* its key read the memory as it is.
LEMMA CommitKeepsPatches ==
  ASSUME ContractInv, NEW t \in Tasks, Commit(t),
         \A u \in Tasks \ {t} :
           (result'[u] = "ok" => result[u] = "ok") /\ (pc'[u] = "reread" => pc[u] = "reread")
  PROVE  PatchInv'
<1>1. /\ store' = AfterMemories(t) /\ Chosen(t) /\ pc[t] = "commit" /\ created <= created'
      /\ UNCHANGED call
  BY CommitIsCall, CommitOrder DEF Commit, Quiet
<1>2. store \in [Ids -> Memory \cup {None}] BY DEF ContractInv, SafeInv, DataOK, TypeOK
<1>3. /\ created \in Int /\ created' \in Int /\ Ids \subseteq Int
      /\ \A i \in Ids : store[i] # None => i <= created
  <2>1. created' \in Int
    BY CommitIsCall, <1>1, AddIds DEF AfterNewest, IsAdd, ContractInv, SafeInv, TaskSafe
  <2> QED BY <2>1, AddIds DEF ContractInv, OrderInv, Ids
<1>4. \A u \in Tasks : \A i, k : NamesKey(u, i, k)' <=> NamesKey(u, i, k)
  BY <1>1 DEF NamesKey
<1>5. ASSUME call[t].op = "update"
      PROVE  /\ call[t].id \in Ids /\ row[t] = store[call[t].id] /\ row[t] # None
             /\ store'[call[t].id] = Merged(t)
             /\ \A k \in MetaKeys : Merged(t).metadata[k] =
                  IF call[t].metadata[k] = Keep THEN row[t].metadata[k] ELSE call[t].metadata[k]
  <2>1. /\ call[t].id \in Ids /\ row[t] = store[call[t].id] /\ row[t] # None
    BY <1>1, <1>5 DEF Chosen, ContractInv, SafeInv, TaskSafe, StatementFits, GoodCall
  <2>2. store'[call[t].id] = Merged(t) BY <1>1, <1>2, <1>5, <2>1 DEF AfterMemories
  <2> QED BY <2>1, <2>2 DEF Merged, Rewritten, Patched
<1> SUFFICES ASSUME NEW u \in Tasks, NEW i \in Ids, NEW k \in MetaKeys, PatchedAlone(u, i, k)'
             PROVE  /\ i <= created'
                    /\ store'[i] # None => store'[i].metadata[k] = call[u].metadata[k]
  BY <1>1 DEF PatchInv
<1>6. /\ NamesKey(u, i, k) /\ \A w \in Tasks \ {u} : ~NamesKey(w, i, k)
      /\ result'[u] = "ok" \/ pc'[u] = "reread"
  BY <1>4 DEF PatchedAlone
<1>7. CASE u = t
  <2>1. call[t].op = "update" /\ call[t].id = i /\ call[t].metadata[k] # Keep
    BY <1>6, <1>7 DEF NamesKey
  <2> QED BY <1>1, <1>3, <1>5, <1>7, <2>1
<1>8. CASE u # t
  <2>1. PatchedAlone(u, i, k) BY <1>6, <1>8 DEF PatchedAlone
  <2>2. i <= created /\ (store[i] # None => store[i].metadata[k] = call[u].metadata[k])
    BY <2>1 DEF ContractInv, PatchInv
  <2>3. ~NamesKey(t, i, k) BY <1>6, <1>8
  <2>4. CASE call[t].op = "add"
    <3>1. call[t].id > created BY <1>1, <2>4 DEF Chosen
    <3>2. call[t].id # i
      <4>1. i \in Int /\ created \in Int BY <1>3
      <4> QED BY <2>2, <3>1, <4>1
    <3>3. store'[i] = store[i] BY <1>1, <1>2, <2>4, <3>2 DEF AfterMemories
    <3> QED BY <1>1, <1>3, <2>2, <3>3
  <2>5. CASE call[t].op = "update"
    <3>1. CASE call[t].id = i
      <4>1. call[t] # None BY <1>1 DEF ContractInv, SafeInv, TaskSafe
      <4>2. call[t].metadata[k] = Keep BY <2>3, <2>5, <3>1, <4>1 DEF NamesKey
      <4> QED BY <1>1, <1>3, <1>5, <2>2, <2>5, <3>1, <4>2
    <3>2. CASE call[t].id # i
      <4>1. store'[i] = store[i] BY <1>1, <1>2, <2>5, <3>2 DEF AfterMemories
      <4> QED BY <1>1, <1>3, <2>2, <4>1
    <3> QED BY <3>1, <3>2
  <2>6. CASE call[t].op \notin {"add", "update"}
    <3>1. store'[i] \in {None, store[i]} BY <1>1, <2>6 DEF AfterMemories
    <3> QED BY <1>1, <1>3, <2>2, <3>1
  <2> QED BY <2>4, <2>5, <2>6
<1> QED BY <1>7, <1>8

\* The commit.
LEMMA CommitContract ==
  ASSUME ContractInv, NEW t \in Tasks, Commit(t), SafeInv'
  PROVE  ContractInv'
<1>1. /\ pc[t] = "commit"
      /\ IF call[t].op = "update" THEN Goto(t, "reread") ELSE Return(t, "ok")
      /\ UNCHANGED <<row, doomed, call, drawn>>
  BY DEF Commit, Quiet
<1>2. pc[t] \in Running /\ "reread" \in Running BY <1>1 DEF Running
<1>3. /\ view' = Committed'
      /\ created' <= drawn' /\ FreshFree'
      /\ \A u \in Tasks : pc[u] = "waiting" /\ IsAdd(u) => call[u].id > created'
  BY CommitIsCall, CommitOrder
<1>4. \A u \in Tasks \ {t} : pc[u] \in {"idle", "waiting", "done"} BY <1>2, Alone
<1>5. CASE call[t].op # "update"
  <2>1. Return(t, "ok") BY <1>1, <1>5
  <2>2. ViewInv' /\ OrderInv' /\ AnswerInv' /\ abandoned' = {}
    BY <1>1, <1>2, <1>3, <2>1, EndOrder
  <2>3. /\ \A u \in Tasks : result'[u] = IF u = t THEN "ok" ELSE result[u]
        /\ \A u \in Tasks : pc'[u] \in {"idle", "waiting", "done", "select", "write", "close"}
    BY <1>2, <2>1, AfterReturn
  <2>4. AckedAddStays' BY <2>3, CommitKeepsAdds
  <2>5. PatchInv' BY <2>3, CommitKeepsPatches
  <2> QED BY <2>2, <2>4, <2>5 DEF ContractInv
<1>6. CASE call[t].op = "update"
  <2>1. /\ \A u \in Tasks : pc'[u] = IF u = t THEN "reread" ELSE pc[u]
        /\ UNCHANGED <<holder, queue, result, abandoned>>
    BY <1>1, <1>6 DEF Goto, ContractInv, SafeInv, ControlOK
  <2>2. \A u \in Tasks : pc'[u] \notin Writing BY <1>4, <2>1 DEF Writing
  <2>3. ViewInv' BY <1>3, <2>2 DEF ViewInv, Writing
  <2>4. OrderInv'
    <3>1. \A u \in Tasks : pc'[u] = "waiting" => pc[u] = "waiting" BY <2>1
    <3>2. /\ \A u \in Tasks : pc'[u] = "waiting" => \E n \in 1..Len(queue) : queue[n] = u
          /\ \A m, n \in 1..Len(queue) :
               m < n /\ IsAdd(queue[m]) /\ IsAdd(queue[n])
                 => call[queue[m]].id < call[queue[n]].id
          /\ \A u \in Tasks : pc'[u] = "waiting" /\ IsAdd(u) => call[u].id > created'
      BY <1>3, <3>1 DEF ContractInv, OrderInv
    <3> QED BY <1>1, <1>3, <2>1, <2>2, <3>2 DEF OrderInv, IsAdd, FreshFree
  <2>5. AnswerInv' BY <1>1, <2>1 DEF ContractInv, AnswerInv
  <2>6. AckedAddStays' BY <2>1, CommitKeepsAdds
  <2>7. PatchInv' BY <2>1, CommitKeepsPatches
  <2> QED BY <2>1, <2>3, <2>4, <2>5, <2>6, <2>7 DEF ContractInv
<1> QED BY <1>5, <1>6

\* close() and a statement that raises end their thread with the transaction undone.
LEMMA RollbackContract ==
  ASSUME ContractInv, NEW t \in Tasks, CloseConnection(t) \/ StatementFails(t), SafeInv'
  PROVE  ContractInv'
<1>1. pc[t] \in Running /\ UNCHANGED <<backendVars, row, doomed, call, drawn>>
  BY DEF CloseConnection, StatementFails, Running, Quiet
<1>2. view' = Committed
  <2>1. CASE CloseConnection(t) BY <2>1 DEF CloseConnection
  <2>2. CASE StatementFails(t)
    <3>1. CASE pc[t] \in {"write", "log", "commit"} BY <2>2, <3>1 DEF StatementFails
    <3>2. CASE pc[t] \notin {"write", "log", "commit"}
      <4>1. pc[t] \in {"select", "reread", "close", "write"} /\ view' = view
        BY <1>1, <2>2, <3>2 DEF StatementFails, Running
      <4> QED BY <4>1, SelectSeesFile
    <3> QED BY <3>1, <3>2
  <2> QED BY <2>1, <2>2
<1>3. PICK how \in {"ok", "not_found", "error"} :
        /\ Return(t, how)
        /\ how = "ok" => call[t].op \notin {"add", "update"} \/ pc[t] = "reread"
  <2>1. CASE CloseConnection(t)
    <3>1. Return(t, "ok") /\ call[t].op = "close"
      BY <2>1 DEF CloseConnection, ContractInv, SafeInv, TaskSafe, StatementFits
    <3> QED BY <3>1
  <2>2. CASE StatementFails(t) BY <2>2 DEF StatementFails
  <2> QED BY <2>1, <2>2
<1> QED BY <1>1, <1>2, <1>3, EndStep

\* A task's call is recorded: what was true of the other tasks stays so.
LEMMA CallKeepsAnswers ==
  ASSUME ContractInv, NEW t \in Tasks, pc[t] = "idle", NEW c, call' = [call EXCEPT ![t] = c],
         UNCHANGED <<store, created, result, doomed>>,
         \A u \in Tasks \ {t} : pc'[u] = pc[u], pc'[t] # "reread"
  PROVE  AckedAddStays' /\ PatchInv'
<1>1. /\ call[t] = None /\ result[t] # "ok"
      /\ \A u \in Tasks \ {t} : call'[u] = call[u]
  BY DEF ContractInv, SafeInv, TaskSafe, AnswerInv, DataOK
<1>2. AckedAddStays'
  <2> SUFFICES ASSUME NEW u \in Tasks, call'[u] # None, call'[u].op = "add", result[u] = "ok"
               PROVE  store[call'[u].id] # None \/ \E w \in Tasks : call'[u].id \in doomed[w]
    BY DEF AckedAddStays
  <2>1. u # t /\ call'[u] = call[u] BY <1>1
  <2> QED BY <2>1 DEF ContractInv, AckedAddStays
<1>3. PatchInv'
  <2> SUFFICES ASSUME NEW u \in Tasks, NEW i \in Ids, NEW k \in MetaKeys, PatchedAlone(u, i, k)'
               PROVE  /\ i <= created
                      /\ store[i] # None => store[i].metadata[k] = call'[u].metadata[k]
    BY DEF PatchInv
  <2>1. u # t /\ call'[u] = call[u] BY <1>1 DEF PatchedAlone
  <2>2. \A w \in Tasks \ {t} : NamesKey(w, i, k)' <=> NamesKey(w, i, k) BY <1>1 DEF NamesKey
  <2>3. ~NamesKey(t, i, k) BY <1>1 DEF NamesKey
  <2>4. PatchedAlone(u, i, k) BY <2>1, <2>2, <2>3 DEF PatchedAlone
  <2> QED BY <2>1, <2>4 DEF ContractInv, PatchInv
<1> QED BY <1>2, <1>3

\* A call draws a later identifier than any before it, and queues behind them.
LEMMA CallContract ==
  ASSUME ContractInv, NEW t \in Tasks, Call(t), SafeInv'
  PROVE  ContractInv'
<1>1. PICK c \in SqlCalls :
        /\ pc[t] = "idle"
        /\ c.op = "add" => drawn < MaxMemories
        /\ drawn' = IF c.op = "add" THEN drawn + 1 ELSE drawn
        /\ call' = [call EXCEPT ![t] = Drawn(c)]
        /\ \/ /\ holder = None /\ queue = <<>>
              /\ pc' = [pc EXCEPT ![t] = FirstStatement(c.op)]
              /\ UNCHANGED queue
           \/ /\ holder # None
              /\ queue' = Append(queue, t)
              /\ pc' = [pc EXCEPT ![t] = "waiting"]
        /\ UNCHANGED <<store, history, created, view, row, doomed, result, abandoned>>
  BY DEF Call, Drawn, backendVars
<1>2. /\ Drawn(c).op = c.op /\ Drawn(c) # None
      /\ c.op = "add" => Drawn(c).id = drawn + 1
  BY <1>1, DrawnIsGood DEF ContractInv, SafeInv, DataOK
<1>3. /\ call'[t] = Drawn(c) /\ \A u \in Tasks \ {t} : call'[u] = call[u]
      /\ \A u \in Tasks \ {t} : pc'[u] = pc[u]
      /\ pc'[t] \in {"waiting", FirstStatement(c.op)}
      /\ FirstStatement(c.op) \in {"write", "close", "select"}
      /\ FirstStatement(c.op) = "write" => c.op = "add"
  BY <1>1 DEF ContractInv, SafeInv, DataOK, ControlOK, FirstStatement
<1>4. /\ \A u \in Tasks : IsAdd(u) => call[u].id \in Int /\ call[u].id <= drawn
      /\ created \in Int /\ drawn \in Int /\ created <= drawn
  BY AddIds DEF ContractInv, OrderInv, SafeInv, OriginInv
<1>5. /\ \A u \in Tasks \ {t} : IsAdd(u)' <=> IsAdd(u)
      /\ IsAdd(t)' => call'[t].id = drawn + 1 /\ drawn' = drawn + 1
  BY <1>1, <1>2, <1>3 DEF IsAdd
<1>6. AckedAddStays' /\ PatchInv' /\ abandoned' = {}
  BY <1>1, <1>3, CallKeepsAnswers DEF ContractInv
<1>7. AnswerInv'
  BY <1>1, <1>3 DEF ContractInv, AnswerInv
<1>8. ViewInv'
  <2>1. \A u \in Tasks \ {t} :
          /\ AfterMemories(u)' = AfterMemories(u) /\ AfterLog(u)' = AfterLog(u)
          /\ AfterNewest(u)' = AfterNewest(u) /\ (Chosen(u) => Chosen(u)')
    BY <1>1, <1>3 DEF AfterMemories, AfterLog, AfterNewest, Inserted, Merged, Chosen, Owned,
       Matching, Stored
  <2>2. pc[t] \notin {"log", "commit"} /\ pc'[t] \notin {"log", "commit"} BY <1>1, <1>3
  <2>3. pc'[t] \in Writing => Chosen(t)'
    <3> SUFFICES ASSUME pc'[t] \in Writing PROVE Chosen(t)'
      OBVIOUS
    <3>1. c.op = "add" BY <1>3 DEF Writing
    <3>2. call'[t].op = "add" /\ call'[t].id > created'
      BY <1>1, <1>2, <1>3, <1>4, <3>1
    <3> QED BY <3>2 DEF Chosen
  <2>4. Committed' = Committed BY <1>1 DEF Committed
  <2>5. \A u \in Tasks : pc'[u] \in {"log", "commit"} => u # t /\ pc'[u] = pc[u] BY <1>3, <2>2
  <2>6. (\A u \in Tasks : pc'[u] \notin {"log", "commit"}) =>
          \A u \in Tasks : pc[u] \notin {"log", "commit"}
    BY <1>3, <2>2
  <2>7. \A u \in Tasks : pc'[u] \in Writing => Chosen(u)'
    BY <1>3, <2>1, <2>3 DEF ContractInv, ViewInv
  <2>8. (\A u \in Tasks : pc'[u] \notin {"log", "commit"}) => view' = Committed'
    BY <1>1, <2>4, <2>6 DEF ContractInv, ViewInv
  <2>9. /\ \A u \in Tasks : pc'[u] = "log" =>
             view' = [store |-> AfterMemories(u), history |-> history,
                      created |-> AfterNewest(u)]'
        /\ \A u \in Tasks : pc'[u] = "commit" =>
             view' = [store |-> AfterMemories(u), history |-> AfterLog(u),
                      created |-> AfterNewest(u)]'
    BY <1>1, <2>1, <2>5 DEF ContractInv, ViewInv
  <2> QED BY <2>7, <2>8, <2>9 DEF ViewInv
<1>9. OrderInv'
  <2>1. created' <= drawn' BY <1>1, <1>4
  <2>2. \A i \in Ids : i > created' => store'[i] = None /\ history'[i] = <<>>
    BY <1>1 DEF ContractInv, OrderInv
  <2>3. \A u \in Tasks : pc'[u] = "waiting" /\ IsAdd(u)' => call'[u].id > created'
    BY <1>1, <1>3, <1>4, <1>5 DEF ContractInv, OrderInv
  <2>4. CASE /\ holder = None /\ queue = <<>>
             /\ pc' = [pc EXCEPT ![t] = FirstStatement(c.op)]
             /\ UNCHANGED queue
    <3>1. \A n \in 1..Len(queue) : FALSE
      <4>1. Len(queue) = 0 BY <2>4, EmptySeq
      <4> QED BY <4>1
    <3>2. \A u \in Tasks : pc[u] # "waiting" BY <3>1 DEF ContractInv, OrderInv
    <3>3. pc'[t] = FirstStatement(c.op) BY <2>4 DEF ContractInv, SafeInv, ControlOK
    <3>4. \A u \in Tasks : pc'[u] # "waiting" BY <1>3, <3>2, <3>3
    <3> QED BY <2>1, <2>2, <2>4, <3>1, <3>4 DEF OrderInv
  <2>5. CASE /\ holder # None
             /\ queue' = Append(queue, t)
             /\ pc' = [pc EXCEPT ![t] = "waiting"]
    <3>1. /\ queue \in Seq(Tasks) /\ Len(queue) \in Nat
          /\ \A n \in 1..Len(queue) : queue[n] \in Tasks /\ queue[n] # t
      BY <1>1, LenProperties DEF ContractInv, SafeInv, ControlOK, LockInv
    <3>2. /\ Len(queue') = Len(queue) + 1
          /\ \A n \in 1..Len(queue) : queue'[n] = queue[n]
          /\ queue'[Len(queue) + 1] = t
      BY <2>5, <3>1, AppendProperties
    <3>3. pc'[t] = "waiting" BY <2>5 DEF ContractInv, SafeInv, ControlOK
    <3>4. \A u \in Tasks : pc'[u] = "waiting" => \E n \in 1..Len(queue') : queue'[n] = u
      <4> TAKE u \in Tasks
      <4>1. CASE u = t
        <5>1. Len(queue) + 1 \in 1..Len(queue') BY <3>1, <3>2
        <5> QED BY <3>2, <4>1, <5>1
      <4>2. CASE u # t
        <5>1. pc[u] = "waiting" => \E n \in 1..Len(queue) : queue[n] = u
          BY DEF ContractInv, OrderInv
        <5>2. \A n \in 1..Len(queue) : n \in 1..Len(queue') BY <3>1, <3>2
        <5> QED BY <1>3, <3>2, <4>2, <5>1, <5>2
      <4> QED BY <4>1, <4>2
    <3>5. ASSUME NEW m \in 1..Len(queue'), NEW n \in 1..Len(queue'), m < n,
                 IsAdd(queue[m])', IsAdd(queue[n])'
          PROVE  call'[queue'[m]].id < call'[queue'[n]].id
      <4>1. m \in 1..Len(queue) BY <3>1, <3>2, <3>5
      <4>2. /\ queue'[m] = queue[m] /\ queue[m] \in Tasks \ {t}
            /\ call'[queue[m]] = call[queue[m]] /\ IsAdd(queue[m])
        BY <1>3, <3>1, <3>2, <3>5, <4>1 DEF IsAdd
      <4>3. CASE n \in 1..Len(queue)
        <5>1. /\ queue'[n] = queue[n] /\ queue[n] \in Tasks \ {t}
              /\ call'[queue[n]] = call[queue[n]] /\ IsAdd(queue[n])
          BY <1>3, <3>1, <3>2, <3>5, <4>3 DEF IsAdd
        <5> QED BY <3>5, <4>1, <4>2, <4>3, <5>1 DEF ContractInv, OrderInv
      <4>4. CASE n = Len(queue) + 1
        <5>1. queue'[n] = t /\ call'[t].id = drawn + 1
          BY <1>5, <3>2, <3>5, <4>4 DEF IsAdd
        <5> QED BY <1>4, <4>2, <5>1
      <4> QED BY <3>1, <3>2, <4>3, <4>4
    <3>6. ASSUME NEW u \in Tasks, NEW w \in Tasks, pc'[u] \in Writing, pc'[w] = "waiting",
                 IsAdd(u)', IsAdd(w)'
          PROVE  call'[u].id < call'[w].id
      <4>1. u # t BY <3>3, <3>6 DEF Writing
      <4>2. pc[u] \in Writing /\ IsAdd(u) /\ call'[u] = call[u] BY <1>3, <1>5, <3>6, <4>1
      <4>3. CASE w = t BY <1>4, <1>5, <3>6, <4>2, <4>3
      <4>4. CASE w # t BY <1>3, <1>5, <3>6, <4>2, <4>4 DEF ContractInv, OrderInv
      <4> QED BY <4>3, <4>4
    <3> QED BY <2>1, <2>2, <2>3, <3>4, <3>5, <3>6 DEF OrderInv
  <2> QED BY <1>1, <2>4, <2>5
<1> QED BY <1>6, <1>7, <1>8, <1>9 DEF ContractInv

\* A waiting task that is cancelled leaves the others in their order.
LEMMA CancelWaitingContract ==
  ASSUME ContractInv, NEW t \in Tasks, CancelWaiting(t), SafeInv'
  PROVE  ContractInv'
<1>1. /\ pc[t] = "waiting"
      /\ UNCHANGED <<backendVars, view, holder, call, row, doomed, abandoned, drawn>>
      /\ \A u \in Tasks : pc'[u] = IF u = t THEN "done" ELSE pc[u]
      /\ \A u \in Tasks : result'[u] = IF u = t THEN "cancelled" ELSE result[u]
  BY DEF CancelWaiting, ContractInv, SafeInv, ControlOK
<1>2. UNCHANGED <<store, history, created>> BY <1>1 DEF backendVars
<1>3. PICK n \in 1..Len(queue) :
        /\ queue[n] = t /\ Len(queue') = Len(queue) - 1
        /\ \A m \in 1..Len(queue') : queue'[m] = queue[IF m < n THEN m ELSE m + 1]
  BY CancelWaitingControl DEF ContractInv, SafeInv
<1>4. /\ Len(queue) \in Nat /\ n \in Int /\ n >= 1 /\ n <= Len(queue)
  BY <1>3, LenProperties DEF ContractInv, SafeInv, ControlOK
<1>5. ViewInv'
  <2>1. \A u \in Tasks :
          /\ AfterMemories(u)' = AfterMemories(u) /\ AfterLog(u)' = AfterLog(u)
          /\ AfterNewest(u)' = AfterNewest(u) /\ (Chosen(u) => Chosen(u)')
    BY <1>1, <1>2, AfterStays
  <2>2. \A u \in Tasks : pc'[u] \in Writing => pc'[u] = pc[u] BY <1>1 DEF Writing
  <2>3. \A u \in Tasks : pc[u] \in Writing => pc'[u] = pc[u] BY <1>1 DEF Writing
  <2>4. Committed' = Committed BY <1>2 DEF Committed
  <2> QED BY <1>1, <1>2, <2>1, <2>2, <2>3, <2>4 DEF ContractInv, ViewInv, Writing
<1>6. OrderInv'
  <2>1. ASSUME NEW u \in Tasks, pc'[u] = "waiting"
        PROVE  \E m \in 1..Len(queue') : queue'[m] = u
    <3>1. u # t /\ pc[u] = "waiting" BY <1>1, <2>1
    <3>2. PICK p \in 1..Len(queue) : queue[p] = u
      BY <3>1 DEF ContractInv, OrderInv
    <3>3. p # n BY <1>3, <3>1, <3>2
    <3>4. CASE p < n
      <4>1. p \in 1..Len(queue') BY <1>3, <1>4, <3>2, <3>4
      <4> QED BY <1>3, <3>2, <3>4, <4>1
    <3>5. CASE ~(p < n)
      <4>1. p - 1 \in 1..Len(queue') /\ ~(p - 1 < n) /\ (p - 1) + 1 = p
        BY <1>3, <1>4, <3>2, <3>3, <3>5
      <4>2. queue'[p - 1] = queue[p] BY <1>3, <4>1
      <4> QED BY <3>2, <4>1, <4>2
    <3> QED BY <3>4, <3>5
  <2>2. ASSUME NEW m \in 1..Len(queue'), NEW k \in 1..Len(queue'), m < k,
               IsAdd(queue'[m]), IsAdd(queue'[k])
        PROVE  call[queue'[m]].id < call[queue'[k]].id
    <3> DEFINE om == IF m < n THEN m ELSE m + 1
               ok == IF k < n THEN k ELSE k + 1
    <3>1. om \in 1..Len(queue) /\ ok \in 1..Len(queue) /\ om < ok BY <1>3, <1>4, <2>2
    <3>2. queue'[m] = queue[om] /\ queue'[k] = queue[ok] BY <1>3
    <3> HIDE DEF om, ok
    <3> QED BY <2>2, <3>1, <3>2 DEF ContractInv, OrderInv
  <2>3. \A u \in Tasks : /\ pc'[u] = "waiting" => pc[u] = "waiting"
                         /\ pc'[u] \in Writing => pc[u] \in Writing
    BY <1>1 DEF Writing
  <2>4. \A m, k \in 1..Len(queue') :
          m < k /\ IsAdd(queue[m])' /\ IsAdd(queue[k])'
            => call'[queue'[m]].id < call'[queue'[k]].id
    BY <1>1, <2>2 DEF IsAdd
  <2>5. \A u \in Tasks : IsAdd(u)' <=> IsAdd(u) BY <1>1 DEF IsAdd
  <2>6. \A u, w \in Tasks :
          pc'[u] \in Writing /\ pc'[w] = "waiting" /\ IsAdd(u)' /\ IsAdd(w)'
            => call'[u].id < call'[w].id
    BY <1>1, <2>3, <2>5 DEF ContractInv, OrderInv
  <2>7. \A u \in Tasks : pc'[u] = "waiting" /\ IsAdd(u)' => call'[u].id > created'
    BY <1>1, <1>2, <2>3, <2>5 DEF ContractInv, OrderInv
  <2>8. /\ created' <= drawn'
        /\ \A i \in Ids : i > created' => store'[i] = None /\ history'[i] = <<>>
    BY <1>1, <1>2 DEF ContractInv, OrderInv
  <2> QED BY <2>1, <2>4, <2>6, <2>7, <2>8 DEF OrderInv
<1>7. AnswerInv' BY <1>1 DEF ContractInv, AnswerInv
<1>8. AckedAddStays' /\ PatchInv'
  <2>1. \A u \in Tasks : result'[u] = "ok" => result[u] = "ok" BY <1>1
  <2>2. \A u \in Tasks : pc'[u] = "reread" => pc[u] = "reread" BY <1>1
  <2> QED BY <1>1, <2>1, <2>2, AnsweredStay
<1> QED BY <1>1, <1>5, <1>6, <1>7, <1>8 DEF ContractInv

\* A crash loses what was not committed, and no answer.
LEMMA CrashContract ==
  ASSUME ContractInv, CrashRestart, SafeInv'
  PROVE  ContractInv'
<1>1. /\ UNCHANGED <<backendVars, call, row, doomed, drawn>>
      /\ view' = Committed /\ queue' = <<>> /\ abandoned' = {}
      /\ \A u \in Tasks : pc'[u] = IF pc[u] = "idle" THEN "idle" ELSE "done"
      /\ \A u \in Tasks : result'[u] = "ok" => result[u] = "ok"
  BY DEF CrashRestart
<1>2. UNCHANGED <<store, history, created>> BY <1>1 DEF backendVars
<1>3. \A u \in Tasks : pc'[u] \in {"idle", "done"} BY <1>1
<1>4. ViewInv' BY <1>1, <1>2, <1>3 DEF ViewInv, Committed, Writing
<1>5. OrderInv'
  <2>1. \A n \in 1..Len(queue') : FALSE
    <3>1. Len(queue') = 0 BY <1>1, EmptySeq
    <3> QED BY <3>1
  <2>2. /\ created' <= drawn'
        /\ \A i \in Ids : i > created' => store'[i] = None /\ history'[i] = <<>>
    BY <1>1, <1>2 DEF ContractInv, OrderInv
  <2> QED BY <1>3, <2>1, <2>2 DEF OrderInv
<1>6. AnswerInv' BY <1>1, <1>3 DEF ContractInv, AnswerInv
<1>7. AckedAddStays' /\ PatchInv'
  BY <1>1, <1>3, AnsweredStay
<1> QED BY <1>1, <1>4, <1>5, <1>6, <1>7 DEF ContractInv

(***************************************************************************)
(* The theorems.                                                           *)
(***************************************************************************)

\* Every step that leaves no thread running without the lock keeps the invariant.
LEMMA ContractInvStep ==
  ASSUME ContractInv, [SqlNext]_sqlVars, abandoned' = {}
  PROVE  ContractInv'
<1>1. SafeInv' BY SafeStep DEF ContractInv
<1>2. ASSUME NEW t \in Tasks, Call(t) \/ Statement(t) \/ StatementFails(t) \/ CancelWaiting(t)
      PROVE  ContractInv'
  BY <1>1, <1>2, CallContract, ReadsContract, SelectRowContract, SelectDoomedContract,
     WriteMemoriesContract, WriteHistoryContract, CommitContract, RollbackContract,
     CancelWaitingContract DEF Statement
<1>3. ASSUME NEW t \in Tasks, CancelRunning(t) PROVE FALSE
  BY <1>3 DEF CancelRunning
<1>4. CASE CrashRestart BY <1>1, <1>4, CrashContract
<1>5. CASE UNCHANGED sqlVars
  <2>1. UNCHANGED <<store, history, created, view, inTx, open, holder, queue, pc, call, row,
                    doomed, answer, result, abandoned, drawn, cancels, errors, crashes>>
    BY <1>5 DEF sqlVars, taskVars, backendVars
  <2>2. /\ \A u \in Tasks :
             /\ AfterMemories(u)' = AfterMemories(u) /\ AfterLog(u)' = AfterLog(u)
             /\ AfterNewest(u)' = AfterNewest(u) /\ (Chosen(u) => Chosen(u)')
             /\ IsAdd(u)' <=> IsAdd(u)
    BY <2>1, AfterStays DEF IsAdd
  <2>3. ViewInv' BY <2>1, <2>2 DEF ContractInv, ViewInv, Committed
  <2>4. OrderInv' BY <2>1 DEF ContractInv, OrderInv, IsAdd
  <2>5. AnswerInv' BY <2>1 DEF ContractInv, AnswerInv
  <2>6. AckedAddStays' /\ PatchInv'
    BY <2>1, AnsweredStay DEF backendVars
  <2> QED BY <1>1, <2>1, <2>3, <2>4, <2>5, <2>6 DEF ContractInv
<1> QED BY <1>2, <1>3, <1>4, <1>5 DEF SqlNext

\* The invariant holds as long as no thread runs on without the lock.
THEOREM ContractInvCorrect == SqlSpec /\ [](abandoned = {}) => []ContractInv
<1>1. SqlInit => ContractInv
  <2> SUFFICES ASSUME SqlInit PROVE ContractInv
    OBVIOUS
  <2> USE DEF SqlInit
  <2>1. SafeInv BY InitSafe
  <2>2. \A n \in 1..Len(queue) : FALSE
    <3>1. Len(queue) = 0 BY EmptySeq
    <3> QED BY <3>1
  <2>3. ViewInv BY DEF ViewInv, Writing
  <2>4. OrderInv BY <2>2 DEF OrderInv, Init, Writing
  <2>5. AnswerInv BY DEF AnswerInv
  <2>6. AckedAddStays /\ PatchInv BY DEF AckedAddStays, PatchInv, PatchedAlone
  <2> QED BY <2>1, <2>3, <2>4, <2>5, <2>6 DEF ContractInv
<1>2. ContractInv /\ [SqlNext]_sqlVars /\ (abandoned = {})' => ContractInv'
  BY ContractInvStep
<1> QED BY <1>1, <1>2, PTL DEF SqlSpec

\* The file changes only by whole calls of the storage contract, through failing
\* statements, rollbacks, cancelled waiters and crashes (sqlite.py 3-4, 97-99).
THEOREM SqliteImplementsContract == SqlSpec /\ [](abandoned = {}) => ImplementsContract
<1>1. SqlInit => Init BY DEF SqlInit
<1>2. ContractInv /\ [SqlNext]_sqlVars => [Next]_backendVars
  <2> SUFFICES ASSUME ContractInv, [SqlNext]_sqlVars PROVE [Next]_backendVars
    OBVIOUS
  <2>1. ASSUME NEW t \in Tasks, Commit(t) PROVE Next
    BY <2>1, CommitIsCall
  <2>2. ASSUME NEW t \in Tasks,
               Call(t) \/ (Statement(t) /\ ~Commit(t)) \/ StatementFails(t)
                 \/ CancelWaiting(t) \/ CancelRunning(t)
        PROVE  UNCHANGED backendVars
    BY <2>2 DEF Statement, Call, ReadRows, SelectRow, SelectDoomed, WriteMemories,
       WriteHistory, Reread, CloseConnection, StatementFails, CancelWaiting, CancelRunning
  <2>3. CASE CrashRestart BY <2>3 DEF CrashRestart
  <2>4. CASE UNCHANGED sqlVars BY <2>4 DEF sqlVars
  <2> QED BY <2>1, <2>2, <2>3, <2>4 DEF SqlNext
<1> QED BY <1>1, <1>2, ContractInvCorrect, PTL DEF SqlSpec, ImplementsContract, Spec

\* The contract's change-log theorem, of the file: every stored memory's log is whole.
THEOREM SqliteHistoryChain == SqlSpec /\ [](abandoned = {}) => []HistoryChain
BY SqliteImplementsContract, HistoryChainCorrect, PTL DEF ImplementsContract

\* A memory whose add was answered stays in the file until a delete that chose it
\* removes it, through other calls' errors and crashes (sqlite.py 144-160).
THEOREM AckedAddStaysCorrect == SqlSpec /\ [](abandoned = {}) => []AckedAddStays
<1>1. ContractInv => AckedAddStays BY DEF ContractInv
<1> QED BY <1>1, ContractInvCorrect, PTL

\* What an answered update set stays until another update names the key: read, merge
\* and write are one step under the lock (base.py 183-184; sqlite.py 284-303).
THEOREM AnsweredPatchStaysCorrect == SqlSpec /\ [](abandoned = {}) => []AnsweredPatchStays
<1>1. ContractInv => AnsweredPatchStays
  BY DEF ContractInv, PatchInv, PatchedAlone, AnsweredPatchStays
<1> QED BY <1>1, ContractInvCorrect, PTL

\* Every memory a reply holds was in the file when it was read: no call sees another's
\* open transaction (sqlite.py 97-99, 303).
THEOREM NoDirtyReadCorrect == SqlSpec /\ [](abandoned = {}) => NoDirtyRead
<1> DEFINE Clean ==
      \A t \in Tasks : answer'[t] # answer[t] =>
        \A i \in Ids : answer'[t][i] # None => answer'[t][i] = store[i]
<1>1. ASSUME ContractInv, SqlNext PROVE Clean \/ UNCHANGED sqlVars
  <2>1. ASSUME NEW t \in Tasks, ReadRows(t) PROVE Clean
    <3> DEFINE found == IF call[t].op = "scan"
                        THEN SelectedIds(call[t].partition, call[t].scope)
                        ELSE {i \in {call[t].id} : OwnedRow(call[t].partition, i) # None}
               shown == [i \in Ids |-> IF i \in found THEN view.store[i] ELSE None]
    <3>1. pc[t] = "select" /\ answer' = [answer EXCEPT ![t] = shown]
      BY <2>1 DEF ReadRows
    <3>2. view.store = store BY <1>1, <3>1, SelectSeesFile DEF Committed
    <3>3. \A i \in Ids : shown[i] # None => shown[i] = store[i] BY <3>2
    <3> HIDE DEF shown
    <3>4. \A u \in Tasks : answer'[u] = IF u = t THEN shown ELSE answer[u]
      BY <1>1, <3>1 DEF ContractInv, SafeInv, DataOK
    <3> QED BY <3>3, <3>4
  <2>2. ASSUME NEW t \in Tasks, Reread(t) PROVE Clean
    <3> DEFINE found == OwnedRow(call[t].partition, call[t].id)
               shown == [Unknown EXCEPT ![call[t].id] = found]
    <3>1. pc[t] = "reread" /\ answer' = [answer EXCEPT ![t] = shown]
      BY <2>2 DEF Reread
    <3>2. view.store = store BY <1>1, <3>1, SelectSeesFile DEF Committed
    <3>3. \A i \in Ids : shown[i] # None => shown[i] = store[i]
      BY <3>2 DEF Unknown, OwnedRow
    <3> HIDE DEF shown
    <3>4. \A u \in Tasks : answer'[u] = IF u = t THEN shown ELSE answer[u]
      BY <1>1, <3>1 DEF ContractInv, SafeInv, DataOK
    <3> QED BY <3>3, <3>4
  <2>3. ASSUME NEW t \in Tasks,
               Call(t) \/ SelectRow(t) \/ SelectDoomed(t) \/ WriteMemories(t)
                 \/ WriteHistory(t) \/ Commit(t) \/ CloseConnection(t) \/ StatementFails(t)
                 \/ CancelWaiting(t) \/ CancelRunning(t)
        PROVE  answer' = answer
    BY <2>3 DEF Call, SelectRow, SelectDoomed, WriteMemories, WriteHistory, Commit,
       CloseConnection, StatementFails, CancelWaiting, CancelRunning
  <2>4. CASE CrashRestart BY <2>4 DEF CrashRestart
  <2> QED BY <1>1, <2>1, <2>2, <2>3, <2>4 DEF SqlNext, Statement
<1>2. ContractInv /\ [SqlNext]_sqlVars => [Clean]_sqlVars BY <1>1
<1> QED BY <1>2, ContractInvCorrect, PTL DEF SqlSpec, NoDirtyRead
=============================================================================
