---------------------------- MODULE SqliteProofs ----------------------------
(***************************************************************************)
(* Proofs about the sqlite backend that hold whatever is cancelled: the    *)
(* lock, the types and the partitions, for any number of calls, errors,    *)
(* cancellations and crashes.                                              *)
(*                                                                         *)
(* SqliteContractProofs goes on from here to the storage contract.         *)
(***************************************************************************)
EXTENDS SqliteBackend, MemoryBackendProofs, SequenceTheorems

(***************************************************************************)
(* The invariant.                                                          *)
(***************************************************************************)

\* The lock is held by the one task whose thread runs and was not cancelled, and
\* nobody waits for a free lock.
LockInv ==
  /\ \A t \in Tasks : holder = t <=> pc[t] \in Running /\ t \notin abandoned
  /\ \A n \in 1..Len(queue) : pc[queue[n]] = "waiting"
  /\ \A m, n \in 1..Len(queue) : queue[m] = queue[n] => m = n
  /\ holder = None => queue = <<>>
  /\ \A t \in abandoned : pc[t] \in Running

ControlOK ==
  /\ holder \in Tasks \cup {None}
  /\ queue \in Seq(Tasks)
  /\ pc \in [Tasks -> Running \cup {"idle", "waiting", "done"}]
  /\ result \in [Tasks -> {"none", "ok", "not_found", "error", "cancelled", "lost"}]
  /\ abandoned \subseteq Tasks
  /\ LockInv

DataOK ==
  /\ TypeOK
  /\ view \in [store : [Ids -> Memory \cup {None}],
               history : [Ids -> Seq(HistoryEntry)], created : 0..MaxMemories]
  /\ inTx \in BOOLEAN /\ open \in BOOLEAN
  /\ call \in [Tasks -> SqlCall \cup {None}]
  /\ row \in [Tasks -> Memory \cup {None}]
  /\ doomed \in [Tasks -> SUBSET Ids]
  /\ answer \in [Tasks -> [Ids -> Memory \cup {None}]]
  /\ drawn \in 0..MaxMemories
  /\ cancels \in 0..MaxCancels /\ errors \in 0..MaxErrors /\ crashes \in 0..MaxCrashes

\* What policy passes with each method.
GoodCall(c) ==
  /\ c \in SqlCall
  /\ c.op = "add" =>
       c.content # None /\ c.metadata \in Metadata /\ c.system # None
  /\ c.op \in {"add", "get", "history", "update", "delete"} => c.id \in Ids
  /\ c.system \in Stamps(c.partition) \cup {None}

\* The statements a method runs, and the row an update writes back.
StatementFits(t) ==
  /\ pc[t] = "select" => call[t].op \notin {"add", "close"}
  /\ pc[t] \in {"write", "log", "commit"} =>
       /\ call[t].op \in {"add", "update", "delete", "delete_all"}
       /\ call[t].op = "update" => row[t] # None /\ row[t].partition = call[t].partition
  /\ pc[t] = "reread" => call[t].op = "update"
  /\ pc[t] = "close" => call[t].op = "close"

TaskSafe(t) ==
  /\ pc[t] = "idle" <=> call[t] = None
  /\ call[t] # None => GoodCall(call[t])
  /\ row[t] # None \/ doomed[t] # {} => call[t] # None
  /\ \A i \in Ids : answer[t][i] # None =>
       call[t] # None /\ answer[t][i].partition = call[t].partition
  /\ StatementFits(t)

IsAdd(t) == call[t] # None /\ call[t].op = "add"

\* Some add drew this identifier, for this partition.
HasOrigin(i, p) == \E t \in Tasks : IsAdd(t) /\ call[t].id = i /\ call[t].partition = p

\* An identifier is drawn by one add, so it names memories of one partition only, and
\* a row once selected is of the selector's partition whatever replaces it.
OriginInv ==
  /\ \A t, u \in Tasks : IsAdd(t) /\ IsAdd(u) /\ call[t].id = call[u].id => t = u
  /\ \A t \in Tasks : IsAdd(t) => call[t].id <= drawn
  /\ \A i \in Ids : store[i] # None => HasOrigin(i, store[i].partition)
  /\ \A i \in Ids : view.store[i] # None => HasOrigin(i, view.store[i].partition)
  /\ \A t \in Tasks : row[t] # None => HasOrigin(call[t].id, call[t].partition)
  /\ \A t \in Tasks : \A i \in doomed[t] : HasOrigin(i, call[t].partition)

SafeInv ==
  /\ ControlOK
  /\ DataOK
  /\ \A t \in Tasks : TaskSafe(t)
  /\ OriginInv

(***************************************************************************)
(* The lock and the threads.                                               *)
(***************************************************************************)

\* What a step of t does to the other tasks: at most one of them gets the lock.
PcStep(t) ==
  \A u \in Tasks \ {t} :
    pc'[u] = pc[u] \/ (pc[u] = "waiting" /\ pc'[u] = FirstStatement(call[u].op))

\* No task is the absent one.
LEMMA NoneNotTask == \A t \in Tasks : t # None
BY SqlAssumption

\* A thread that goes on to its next statement keeps what it has.
LEMMA GotoControl ==
  ASSUME ControlOK, NEW t \in Tasks, NEW s \in Running, pc[t] \in Running, Goto(t, s)
  PROVE  ControlOK' /\ PcStep(t) /\ pc'[t] = s
<1>1. \A u \in Tasks : pc'[u] = IF u = t THEN s ELSE pc[u]
  BY DEF Goto, ControlOK
<1>2. s \in Running /\ s # "waiting" BY DEF Running
<1>3. pc' \in [Tasks -> Running \cup {"idle", "waiting", "done"}] BY DEF Goto, ControlOK
<1>4. \A n \in 1..Len(queue) : queue[n] \in Tasks BY DEF ControlOK
<1>5. LockInv'
  <2>1. \A n \in 1..Len(queue) : pc'[queue[n]] = "waiting"
    <3>1. pc[t] # "waiting" BY DEF Running
    <3> QED BY <1>1, <1>4, <3>1 DEF ControlOK, LockInv
  <2> QED BY <1>1, <1>2, <2>1 DEF ControlOK, LockInv, Goto
<1> QED BY <1>1, <1>3, <1>5 DEF ControlOK, Goto, PcStep

\* The holder lets the lock go: the first waiter, if any, has it next.
LEMMA ReleaseControl ==
  ASSUME ControlOK, NEW t \in Tasks, holder = t,
         NEW pcs \in [Tasks -> Running \cup {"idle", "waiting", "done"}], Release(pcs),
         \A u \in Tasks \ {t} : pcs[u] = pc[u],
         pcs[t] \in Running \cup {"done"},
         abandoned' \subseteq Tasks,
         \A u \in Tasks \ {t} : u \in abandoned' <=> u \in abandoned,
         t \in abandoned' <=> pcs[t] \in Running,
         result' \in [Tasks -> {"none", "ok", "not_found", "error", "cancelled", "lost"}]
  PROVE  ControlOK' /\ PcStep(t) /\ pc'[t] = pcs[t]
<1> USE NoneNotTask DEF ControlOK
<1>1. CASE queue = <<>>
  <2>1. holder' = None /\ pc' = pcs /\ queue' = queue BY <1>1 DEF Release
  <2>2. \A u \in Tasks \ {t} : ~(pc[u] \in Running /\ u \notin abandoned) BY DEF LockInv
  <2>3. LockInv' BY <1>1, <2>1, <2>2 DEF LockInv
  <2> QED BY <2>1, <2>3 DEF PcStep
<1>2. CASE queue # <<>>
  <2> DEFINE h == Head(queue)
             first == FirstStatement(call[h].op)
  <2>1. /\ queue' \in Seq(Tasks) /\ Len(queue') = Len(queue) - 1 /\ Len(queue) \in Nat \ {0}
        /\ \A n \in 1..Len(queue') : queue'[n] = queue[n + 1]
    <3>1. queue' = Tail(queue) /\ queue \in Seq(Tasks) BY <1>2 DEF Release
    <3>2. Len(queue) \in Nat \ {0} BY <1>2, <3>1, EmptySeq
    <3> HIDE DEF ControlOK
    <3> QED BY <1>2, <3>1, <3>2, HeadTailProperties
  <2>2. h = queue[1] /\ h \in Tasks BY <1>2, HeadTailProperties
  <2>3. pc[h] = "waiting" /\ h # t
    BY <2>1, <2>2 DEF LockInv, Running
  <2>4. first \in Running BY DEF FirstStatement, Running
  <2>5. holder' = h /\ pc' = [pcs EXCEPT ![h] = first] BY <1>2 DEF Release
  <2>6. \A u \in Tasks : pc'[u] = IF u = h THEN first ELSE pcs[u] BY <2>2, <2>5
  <2>7. \A n \in 1..Len(queue') : queue'[n] \in Tasks /\ queue'[n] # h /\ queue'[n] # t
    <3> TAKE n \in 1..Len(queue')
    <3>1. n + 1 \in 1..Len(queue) /\ 1 \in 1..Len(queue) /\ n + 1 # 1 BY <2>1
    <3>2. queue[n + 1] # queue[1] BY <3>1 DEF LockInv
    <3>3. pc[queue[n + 1]] = "waiting" BY <3>1 DEF LockInv
    <3>4. pc[t] \in Running BY DEF LockInv
    <3>5. pc[t] # "waiting" BY <3>4 DEF Running
    <3> QED BY <2>1, <2>2, <3>1, <3>2, <3>3, <3>5
  <2>8. \A n \in 1..Len(queue') : pc'[queue'[n]] = "waiting"
    BY <2>1, <2>6, <2>7 DEF LockInv
  <2>9. \A m, n \in 1..Len(queue') : queue'[m] = queue'[n] => m = n
    <3> SUFFICES ASSUME NEW m \in 1..Len(queue'), NEW n \in 1..Len(queue'),
                        queue'[m] = queue'[n]
                 PROVE  m = n
      OBVIOUS
    <3>1. m + 1 \in 1..Len(queue) /\ n + 1 \in 1..Len(queue) BY <2>1
    <3>2. m + 1 = n + 1 BY <2>1, <3>1 DEF LockInv
    <3> QED BY <3>2
  <2>10. h \notin abandoned' BY <2>2, <2>3, <2>4 DEF LockInv, Running
  <2>11. \A u \in Tasks : holder' = u <=> pc'[u] \in Running /\ u \notin abandoned'
    <3>1. \A u \in Tasks \ {t} : ~(pc[u] \in Running /\ u \notin abandoned) BY DEF LockInv
    <3> QED BY <2>2, <2>3, <2>4, <2>5, <2>6, <2>10, <3>1
  <2>12. \A u \in abandoned' : pc'[u] \in Running
    BY <2>2, <2>6, <2>4, <2>10 DEF LockInv
  <2>13. pc' \in [Tasks -> Running \cup {"idle", "waiting", "done"}]
    BY <2>2, <2>4, <2>5
  <2>14. holder' # None BY <2>2, <2>5
  <2>15. LockInv' BY <2>8, <2>9, <2>11, <2>12, <2>14 DEF LockInv
  <2> QED BY <2>1, <2>2, <2>3, <2>5, <2>6, <2>13, <2>15 DEF PcStep
<1> QED BY <1>1, <1>2

\* A thread that returns or raises ends its call, and passes the lock on when it
\* still had it.
LEMMA ReturnControl ==
  ASSUME ControlOK, NEW t \in Tasks, pc[t] \in Running,
         NEW how \in {"ok", "not_found", "error"}, Return(t, how)
  PROVE  ControlOK' /\ PcStep(t) /\ pc'[t] = "done"
<1> DEFINE pcs == [pc EXCEPT ![t] = "done"]
<1>1. /\ pcs \in [Tasks -> Running \cup {"idle", "waiting", "done"}]
      /\ \A u \in Tasks : pcs[u] = IF u = t THEN "done" ELSE pc[u]
      /\ "done" \notin Running
  BY DEF ControlOK, Running
<1>2. CASE t \in abandoned
  <2>1. /\ pc' = pcs /\ abandoned' = abandoned \ {t}
        /\ UNCHANGED <<holder, queue, result>>
    BY <1>2 DEF Return
  <2>2. \A n \in 1..Len(queue) : queue[n] \in Tasks /\ pc[queue[n]] = "waiting"
    BY DEF ControlOK, LockInv
  <2>3. pc[t] # "waiting" BY DEF Running
  <2> HIDE DEF pcs
  <2>4. LockInv'
    BY <1>1, <1>2, <2>1, <2>2, <2>3 DEF ControlOK, LockInv
  <2> QED BY <1>1, <2>1, <2>4 DEF ControlOK, PcStep
<1>3. CASE t \notin abandoned
  <2>1. Release(pcs) /\ abandoned' = abandoned /\ result' = [result EXCEPT ![t] = how]
    BY <1>3 DEF Return
  <2>2. holder = t BY <1>3 DEF ControlOK, LockInv
  <2>3. result' \in [Tasks -> {"none", "ok", "not_found", "error", "cancelled", "lost"}]
    BY <2>1 DEF ControlOK
  <2>4. abandoned' \subseteq Tasks BY <2>1 DEF ControlOK
  <2> HIDE DEF pcs
  <2> QED BY <1>1, <1>3, <2>1, <2>2, <2>3, <2>4, ReleaseControl
<1> QED BY <1>2, <1>3

\* A cancelled task lets the lock go while its thread runs on.
LEMMA CancelRunningControl ==
  ASSUME ControlOK, NEW t \in Tasks, CancelRunning(t)
  PROVE  ControlOK' /\ PcStep(t) /\ pc'[t] = pc[t]
<1>1. /\ pc[t] \in Running /\ t \notin abandoned /\ Release(pc)
      /\ abandoned' = abandoned \cup {t}
      /\ result' = [result EXCEPT ![t] = "cancelled"]
  BY DEF CancelRunning
<1>2. holder = t BY <1>1 DEF ControlOK, LockInv
<1>3. result' \in [Tasks -> {"none", "ok", "not_found", "error", "cancelled", "lost"}]
  BY <1>1 DEF ControlOK
<1>4. abandoned' \subseteq Tasks BY <1>1 DEF ControlOK
<1>5. pc \in [Tasks -> Running \cup {"idle", "waiting", "done"}] BY DEF ControlOK
<1> QED BY <1>1, <1>2, <1>3, <1>4, <1>5, ReleaseControl

\* What is left of a queue when one place in it is given up.
LEMMA PlaceGivenUp ==
  ASSUME NEW q \in Seq(Tasks), NEW n \in 1..Len(q)
  PROVE  LET r == SubSeq(q, 1, n - 1) \o SubSeq(q, n + 1, Len(q))
         IN /\ r \in Seq(Tasks) /\ Len(r) = Len(q) - 1
            /\ \A m \in 1..Len(r) : r[m] = q[IF m < n THEN m ELSE m + 1]
<1> DEFINE front == SubSeq(q, 1, n - 1)
           back == SubSeq(q, n + 1, Len(q))
           r == front \o back
<1>1. /\ Len(q) \in Nat /\ n \in Int /\ n >= 1 /\ n <= Len(q)
      /\ \A m \in 1..Len(q) : q[m] \in Tasks
  BY LenProperties
<1>2. /\ front \in Seq(Tasks) /\ Len(front) = n - 1
      /\ \A m \in 1..(n - 1) : front[m] = q[m]
  <2>1. \A m \in 1..(n - 1) : q[m] \in Tasks BY <1>1
  <2>2. /\ front \in Seq(Tasks)
        /\ Len(front) = IF 1 <= n - 1 THEN n - 1 - 1 + 1 ELSE 0
        /\ \A m \in 1..(n - 1 - 1 + 1) : front[m] = q[1 + m - 1]
    BY <1>1, <2>1, SubSeqProperties
  <2> HIDE DEF front
  <2> QED BY <1>1, <2>2
<1>3. /\ back \in Seq(Tasks) /\ Len(back) = Len(q) - n
      /\ \A m \in 1..(Len(q) - n) : back[m] = q[n + m]
  <2>1. \A m \in (n + 1)..Len(q) : q[m] \in Tasks BY <1>1
  <2>2. /\ back \in Seq(Tasks)
        /\ Len(back) = IF n + 1 <= Len(q) THEN Len(q) - (n + 1) + 1 ELSE 0
        /\ \A m \in 1..(Len(q) - (n + 1) + 1) : back[m] = q[(n + 1) + m - 1]
    BY <1>1, <2>1, SubSeqProperties
  <2> HIDE DEF back
  <2> QED BY <1>1, <2>2
<1>4. /\ r \in Seq(Tasks) /\ Len(r) = Len(front) + Len(back)
      /\ \A m \in 1..(Len(front) + Len(back)) :
           r[m] = IF m <= Len(front) THEN front[m] ELSE back[m - Len(front)]
  <2> HIDE DEF front, back
  <2> QED BY <1>2, <1>3, ConcatProperties
<1> HIDE DEF front, back, r
<1>5. Len(front) + Len(back) = Len(q) - 1 BY <1>1, <1>2, <1>3
<1>6. \A m \in 1..(Len(q) - 1) :
        r[m] = IF m <= n - 1 THEN front[m] ELSE back[m - (n - 1)]
  BY <1>2, <1>4, <1>5
<1>7. ASSUME NEW m \in 1..(Len(q) - 1) PROVE r[m] = q[IF m < n THEN m ELSE m + 1]
  <2>1. CASE m < n
    <3>1. m <= n - 1 /\ m \in 1..(n - 1) BY <1>1, <2>1
    <3> QED BY <1>2, <1>6, <2>1, <3>1
  <2>2. CASE ~(m < n)
    <3>1. m - (n - 1) \in 1..(Len(q) - n) /\ ~(m <= n - 1) BY <1>1, <2>2
    <3>2. n + (m - (n - 1)) = m + 1 BY <1>1
    <3>3. r[m] = back[m - (n - 1)] BY <1>6, <3>1
    <3>4. back[m - (n - 1)] = q[n + (m - (n - 1))] BY <1>3, <3>1
    <3> QED BY <2>2, <3>2, <3>3, <3>4
  <2> QED BY <2>1, <2>2
<1> QED BY <1>4, <1>5, <1>7 DEF front, back, r

\* A task that waits for the lock gives its place up.
LEMMA CancelWaitingControl ==
  ASSUME ControlOK, NEW t \in Tasks, CancelWaiting(t)
  PROVE  /\ ControlOK' /\ PcStep(t) /\ pc'[t] = "done"
         /\ \E n \in 1..Len(queue) :
              /\ queue[n] = t /\ Len(queue') = Len(queue) - 1
              /\ \A m \in 1..Len(queue') : queue'[m] = queue[IF m < n THEN m ELSE m + 1]
<1>1. PICK n \in 1..Len(queue) :
        /\ queue[n] = t
        /\ queue' = SubSeq(queue, 1, n - 1) \o SubSeq(queue, n + 1, Len(queue))
  BY DEF CancelWaiting
<1>2. /\ pc[t] = "waiting" /\ pc' = [pc EXCEPT ![t] = "done"]
      /\ result' = [result EXCEPT ![t] = "cancelled"]
      /\ UNCHANGED <<holder, abandoned>>
  BY DEF CancelWaiting
<1> DEFINE old(m) == IF m < n THEN m ELSE m + 1
<1>3. queue \in Seq(Tasks) /\ Len(queue) \in Nat /\ n \in Int
      /\ \A m \in 1..Len(queue) : queue[m] \in Tasks
  BY <1>1, LenProperties DEF ControlOK
<1>4. queue[n] = t /\ n >= 1 /\ n <= Len(queue) BY <1>1
<1>6. /\ queue' \in Seq(Tasks) /\ Len(queue') = Len(queue) - 1
      /\ \A m \in 1..Len(queue') : queue'[m] = queue[old(m)]
  BY <1>1, <1>3, PlaceGivenUp
<1>7. \A m \in 1..Len(queue') : old(m) \in 1..Len(queue) /\ old(m) # n
  BY <1>4, <1>3, <1>6
<1>8. \A m, k \in 1..Len(queue') : queue'[m] = queue'[k] => m = k
  <2> SUFFICES ASSUME NEW m \in 1..Len(queue'), NEW k \in 1..Len(queue'),
                      queue'[m] = queue'[k]
               PROVE  m = k
    OBVIOUS
  <2>1. old(m) = old(k)
    <3> HIDE DEF old
    <3> QED BY <1>6, <1>7 DEF ControlOK, LockInv
  <2> QED BY <1>4, <1>3, <1>6, <2>1
<1>9. \A m \in 1..Len(queue') : pc'[queue'[m]] = "waiting"
  <2> TAKE m \in 1..Len(queue')
  <2> HIDE DEF old
  <2>1. queue'[m] = queue[old(m)] /\ old(m) \in 1..Len(queue) /\ old(m) # n
    BY <1>6, <1>7
  <2>2. queue[old(m)] # t BY <1>4, <2>1 DEF ControlOK, LockInv
  <2>3. pc[queue[old(m)]] = "waiting" /\ queue[old(m)] \in Tasks
    BY <1>3, <2>1 DEF ControlOK, LockInv
  <2> QED BY <1>2, <2>1, <2>2, <2>3 DEF ControlOK
<1>10. \A u \in Tasks : pc'[u] = IF u = t THEN "done" ELSE pc[u]
  BY <1>2 DEF ControlOK
<1>11. holder # None
  BY <1>1, <1>3, EmptySeq DEF ControlOK, LockInv
<1>12. LockInv'
  BY <1>2, <1>8, <1>9, <1>10, <1>11 DEF ControlOK, LockInv, Running
<1>13. /\ pc' \in [Tasks -> Running \cup {"idle", "waiting", "done"}]
       /\ result' \in [Tasks -> {"none", "ok", "not_found", "error", "cancelled", "lost"}]
  BY <1>2 DEF ControlOK
<1> QED BY <1>1, <1>2, <1>4, <1>6, <1>10, <1>12, <1>13 DEF ControlOK, PcStep

\* A call takes a free lock, or queues behind its holder.
LEMMA CallControl ==
  ASSUME ControlOK, NEW t \in Tasks, pc[t] = "idle", NEW first \in Running,
         \/ /\ holder = None /\ queue = <<>>
            /\ holder' = t
            /\ pc' = [pc EXCEPT ![t] = first]
            /\ UNCHANGED queue
         \/ /\ holder # None
            /\ queue' = Append(queue, t)
            /\ pc' = [pc EXCEPT ![t] = "waiting"]
            /\ UNCHANGED holder,
         UNCHANGED <<result, abandoned>>
  PROVE  ControlOK' /\ PcStep(t) /\ pc'[t] \in {"waiting", first}
<1>1. "idle" \notin Running /\ "waiting" \notin Running /\ t # None
  BY NoneNotTask DEF Running
<1>2. t \notin abandoned BY <1>1 DEF ControlOK, LockInv
<1>3. /\ Len(queue) \in Nat
      /\ \A n \in 1..Len(queue) : queue[n] \in Tasks /\ queue[n] # t
  BY LenProperties DEF ControlOK, LockInv
<1>4. CASE /\ holder = None /\ queue = <<>>
           /\ holder' = t
           /\ pc' = [pc EXCEPT ![t] = first]
           /\ UNCHANGED queue
  <2>1. \A u \in Tasks : pc'[u] = IF u = t THEN first ELSE pc[u]
    BY <1>4 DEF ControlOK
  <2>2. \A n \in 1..Len(queue') : FALSE
    <3>1. Len(queue') = 0 BY <1>4, EmptySeq
    <3> QED BY <3>1
  <2>3. holder' = t /\ queue' = <<>> BY <1>4
  <2>4. \A u \in Tasks \ {t} : ~(pc[u] \in Running /\ u \notin abandoned)
    BY <1>4, NoneNotTask DEF ControlOK, LockInv
  <2>5. \A u \in Tasks : holder' = u <=> pc'[u] \in Running /\ u \notin abandoned'
    BY <1>2, <2>1, <2>3, <2>4
  <2>6. \A u \in abandoned' : pc'[u] \in Running
    BY <1>2, <2>1 DEF ControlOK, LockInv
  <2>7. LockInv' BY <2>2, <2>3, <2>5, <2>6 DEF LockInv
  <2> QED BY <1>4, <2>1, <2>7 DEF ControlOK, PcStep
<1>5. CASE /\ holder # None
           /\ queue' = Append(queue, t)
           /\ pc' = [pc EXCEPT ![t] = "waiting"]
           /\ UNCHANGED holder
  <2>1. \A u \in Tasks : pc'[u] = IF u = t THEN "waiting" ELSE pc[u]
    BY <1>5 DEF ControlOK
  <2>2. /\ queue' \in Seq(Tasks) /\ Len(queue') = Len(queue) + 1
        /\ \A n \in 1..Len(queue) : queue'[n] = queue[n]
        /\ queue'[Len(queue) + 1] = t
    BY <1>5, AppendProperties DEF ControlOK
  <2>3. \A n \in 1..Len(queue') : n \in 1..Len(queue) \/ n = Len(queue) + 1
    BY <1>3, <2>2
  <2>4. \A n \in 1..Len(queue') : pc'[queue'[n]] = "waiting"
    BY <1>3, <2>1, <2>2, <2>3 DEF ControlOK, LockInv
  <2>5. \A m, n \in 1..Len(queue') : queue'[m] = queue'[n] => m = n
    <3> SUFFICES ASSUME NEW m \in 1..Len(queue'), NEW n \in 1..Len(queue'),
                        queue'[m] = queue'[n]
                 PROVE  m = n
      OBVIOUS
    <3>1. CASE m \in 1..Len(queue) /\ n \in 1..Len(queue)
      BY <2>2, <3>1 DEF ControlOK, LockInv
    <3>2. CASE m = Len(queue) + 1 BY <1>3, <2>2, <2>3, <3>2
    <3>3. CASE n = Len(queue) + 1 BY <1>3, <2>2, <2>3, <3>3
    <3> QED BY <2>3, <3>1, <3>2, <3>3
  <2>6. \A u \in Tasks : holder' = u <=> pc'[u] \in Running /\ u \notin abandoned'
    BY <1>1, <1>5, <2>1 DEF ControlOK, LockInv
  <2>7. \A u \in abandoned' : pc'[u] \in Running
    BY <1>2, <2>1 DEF ControlOK, LockInv
  <2>8. LockInv' BY <1>5, <2>4, <2>5, <2>6, <2>7 DEF LockInv
  <2> QED BY <1>5, <2>1, <2>2, <2>8 DEF ControlOK, PcStep
<1> QED BY <1>4, <1>5

(***************************************************************************)
(* What a step leaves to the other tasks, and to the origins.              *)
(***************************************************************************)

\* The tasks a step does not belong to keep what they rely on.
LEMMA OthersSafe ==
  ASSUME \A u \in Tasks : TaskSafe(u), NEW t \in Tasks, PcStep(t),
         \A u \in Tasks \ {t} :
           /\ call'[u] = call[u] /\ row'[u] = row[u]
           /\ doomed'[u] = doomed[u] /\ answer'[u] = answer[u]
  PROVE  \A u \in Tasks \ {t} : TaskSafe(u)'
<1> TAKE u \in Tasks \ {t}
<1>1. /\ call'[u] = call[u] /\ row'[u] = row[u]
      /\ doomed'[u] = doomed[u] /\ answer'[u] = answer[u]
  OBVIOUS
<1>2. TaskSafe(u) OBVIOUS
<1>3. CASE pc'[u] = pc[u]
  BY <1>1, <1>2, <1>3 DEF TaskSafe, StatementFits
<1>4. CASE pc[u] = "waiting" /\ pc'[u] = FirstStatement(call[u].op)
  <2>1. call[u] # None /\ GoodCall(call[u]) BY <1>2, <1>4 DEF TaskSafe
  <2>2. StatementFits(u)'
    BY <1>1, <1>4 DEF FirstStatement, StatementFits
  <2>3. pc'[u] # "idle" BY <1>4 DEF FirstStatement
  <2> QED BY <1>1, <1>2, <2>1, <2>2, <2>3 DEF TaskSafe
<1> QED BY <1>3, <1>4 DEF PcStep

\* A step that draws no identifier keeps the origins if whatever it stores, reads or
\* chooses has one.
LEMMA OriginFrame ==
  ASSUME OriginInv, UNCHANGED <<call, drawn>>,
         \A i \in Ids : store'[i] # None => HasOrigin(i, store'[i].partition),
         \A i \in Ids : view'.store[i] # None => HasOrigin(i, view'.store[i].partition),
         \A t \in Tasks : row'[t] # None => HasOrigin(call[t].id, call[t].partition),
         \A t \in Tasks : \A i \in doomed'[t] : HasOrigin(i, call[t].partition)
  PROVE  OriginInv'
<1>1. \A i, p : HasOrigin(i, p)' <=> HasOrigin(i, p) BY DEF HasOrigin, IsAdd
<1>2. \A t \in Tasks : IsAdd(t)' <=> IsAdd(t) BY DEF IsAdd
<1> QED BY <1>1, <1>2 DEF OriginInv

(***************************************************************************)
(* Each step keeps the invariant.                                          *)
(***************************************************************************)

\* The call a task makes: an add carries the identifier it drew.
Drawn(c) == IF c.op = "add" THEN [c EXCEPT !.id = drawn + 1] ELSE c

\* What policy passes is well formed, with the identifier drawn too.
LEMMA DrawnIsGood ==
  ASSUME drawn \in 0..MaxMemories, NEW c \in SqlCalls, c.op = "add" => drawn < MaxMemories
  PROVE  /\ GoodCall(Drawn(c)) /\ Drawn(c) # None
         /\ Drawn(c).op = c.op /\ Drawn(c).partition = c.partition
         /\ c.op = "add" => Drawn(c).id = drawn + 1 /\ Drawn(c).id \in Ids
<1>1. /\ c \in SqlCall
      /\ c.op = "add" => c.content # None /\ c.metadata \in Metadata /\ c.system # None
      /\ c.op \in {"get", "history", "update", "delete"} => c.id # None
      /\ c.system \in Stamps(c.partition) \cup {None}
  BY SqlAssumption
<1>2. CASE c.op = "add"
  <2>1. drawn + 1 \in Ids BY <1>2, BoundAssumption DEF Ids
  <2>2. Drawn(c) \in SqlCall BY <1>1, <1>2, <2>1 DEF Drawn, SqlCall
  <2>3. /\ Drawn(c).op = c.op /\ Drawn(c).partition = c.partition
        /\ Drawn(c).content = c.content /\ Drawn(c).metadata = c.metadata
        /\ Drawn(c).system = c.system /\ Drawn(c).id = drawn + 1
    BY <1>1, <1>2 DEF Drawn, SqlCall
  <2> QED BY <1>1, <1>2, <2>1, <2>2, <2>3, SqlAssumption DEF GoodCall
<1>3. CASE c.op # "add"
  <2>1. c.op \in {"get", "history", "update", "delete"} => c.id \in Ids
    BY <1>1, SqlAssumption DEF SqlCall
  <2> QED BY <1>1, <1>3, <2>1, SqlAssumption DEF Drawn, GoodCall
<1> QED BY <1>2, <1>3

\* A new call has drawn its own identifier and touches nothing else yet.
LEMMA CallSafe ==
  ASSUME SafeInv, NEW t \in Tasks, Call(t)
  PROVE  SafeInv'
<1>1. PICK c \in SqlCalls :
        /\ pc[t] = "idle"
        /\ c.op = "add" => drawn < MaxMemories
        /\ drawn' = IF c.op = "add" THEN drawn + 1 ELSE drawn
        /\ call' = [call EXCEPT ![t] = Drawn(c)]
        /\ \/ /\ holder = None /\ queue = <<>>
              /\ holder' = t
              /\ pc' = [pc EXCEPT ![t] = FirstStatement(c.op)]
              /\ UNCHANGED queue
           \/ /\ holder # None
              /\ queue' = Append(queue, t)
              /\ pc' = [pc EXCEPT ![t] = "waiting"]
              /\ UNCHANGED holder
        /\ UNCHANGED <<backendVars, view, inTx, open, row, doomed, answer, result,
                       abandoned, cancels, errors, crashes>>
  BY DEF Call, Drawn
<1>2. FirstStatement(c.op) \in Running BY DEF FirstStatement, Running
<1>3. ControlOK' /\ PcStep(t) /\ pc'[t] \in {"waiting", FirstStatement(c.op)}
  <2>1. ControlOK BY DEF SafeInv
  <2> QED BY <1>1, <1>2, <2>1, CallControl
<1>4. /\ GoodCall(Drawn(c)) /\ Drawn(c) # None
      /\ Drawn(c).op = c.op /\ Drawn(c).partition = c.partition
      /\ c.op = "add" => Drawn(c).id = drawn + 1 /\ Drawn(c).id \in Ids
  BY <1>1, DrawnIsGood DEF SafeInv, DataOK
<1>5. /\ call'[t] = Drawn(c) /\ call[t] = None
      /\ \A u \in Tasks \ {t} : call'[u] = call[u]
  BY <1>1 DEF SafeInv, DataOK, TaskSafe
<1>6. DataOK'
  <2>1. call' \in [Tasks -> SqlCall \cup {None}]
    BY <1>1, <1>4 DEF SafeInv, DataOK, GoodCall
  <2>2. drawn' \in 0..MaxMemories
    BY <1>1, BoundAssumption DEF SafeInv, DataOK
  <2>3. TypeOK' BY <1>1 DEF SafeInv, DataOK, TypeOK, backendVars
  <2> QED BY <1>1, <2>1, <2>2, <2>3 DEF SafeInv, DataOK
<1>7. \A u \in Tasks : TaskSafe(u)'
  <2>1. \A u \in Tasks \ {t} : TaskSafe(u)'
    BY <1>1, <1>3, <1>5, OthersSafe DEF SafeInv
  <2>2. /\ row'[t] = None /\ doomed'[t] = {}
        /\ \A i \in Ids : answer'[t][i] = None
    BY <1>1, <1>5 DEF SafeInv, TaskSafe
  <2>3. pc'[t] # "idle" BY <1>3 DEF FirstStatement
  <2>4. StatementFits(t)'
    BY <1>3, <1>4, <1>5 DEF StatementFits, FirstStatement
  <2>5. TaskSafe(t)' BY <1>4, <1>5, <2>2, <2>3, <2>4 DEF TaskSafe
  <2> QED BY <2>1, <2>5
<1>8. OriginInv'
  <2>2. \A u \in Tasks \ {t} : IsAdd(u)' <=> IsAdd(u) BY <1>5 DEF IsAdd
  <2>3. IsAdd(t)' => c.op = "add" /\ call'[t].id = drawn + 1 /\ drawn' = drawn + 1
    BY <1>1, <1>4, <1>5 DEF IsAdd
  <2>4. \A u \in Tasks : IsAdd(u) => call[u].id \in Ids /\ call[u].id <= drawn
    BY DEF SafeInv, OriginInv, IsAdd, TaskSafe, GoodCall
  <2>5. drawn \in Nat BY DEF SafeInv, DataOK
  <2>6. \A u, w \in Tasks : (IsAdd(u) /\ IsAdd(w))' /\ call'[u].id = call'[w].id => u = w
    BY <1>5, <2>2, <2>3, <2>4, <2>5 DEF SafeInv, OriginInv, Ids
  <2>7. \A u \in Tasks : IsAdd(u)' => call'[u].id <= drawn'
    BY <1>1, <1>5, <2>2, <2>3, <2>4, <2>5 DEF Ids
  <2>8. /\ row[t] = None /\ doomed[t] = {} /\ row' = row /\ doomed' = doomed
        /\ store' = store /\ view' = view
    BY <1>1, <1>5 DEF SafeInv, TaskSafe, backendVars
  <2>9. /\ \A u \in Tasks : row'[u] # None => HasOrigin(call[u].id, call[u].partition)
        /\ \A u \in Tasks : \A i \in doomed'[u] : HasOrigin(i, call[u].partition)
        /\ \A i \in Ids : store'[i] # None => HasOrigin(i, store'[i].partition)
        /\ \A i \in Ids : view'.store[i] # None => HasOrigin(i, view'.store[i].partition)
    BY <2>8 DEF SafeInv, OriginInv
  <2>10. \A u \in Tasks : row'[u] # None => HasOrigin(call[u].id, call[u].partition)'
    <3> TAKE u \in Tasks
    <3> HAVE row'[u] # None
    <3>1. call'[u] = call[u] BY <1>5, <2>8
    <3>2. HasOrigin(call[u].id, call[u].partition) BY <2>9
    <3> QED BY <1>5, <3>1, <3>2 DEF HasOrigin, IsAdd
  <2>11. \A u \in Tasks : \A i \in doomed'[u] : HasOrigin(i, call[u].partition)'
    <3> TAKE u \in Tasks
    <3> TAKE i \in doomed'[u]
    <3>1. call'[u] = call[u] BY <1>5, <2>8
    <3>2. HasOrigin(i, call[u].partition) BY <2>9
    <3> QED BY <1>5, <3>1, <3>2 DEF HasOrigin, IsAdd
  <2>12. \A i \in Ids : store'[i] # None => HasOrigin(i, store[i].partition)'
    <3> TAKE i \in Ids
    <3> HAVE store'[i] # None
    <3>1. HasOrigin(i, store'[i].partition) BY <2>9
    <3> QED BY <1>5, <3>1 DEF HasOrigin, IsAdd
  <2>13. \A i \in Ids : view'.store[i] # None => HasOrigin(i, view.store[i].partition)'
    <3> TAKE i \in Ids
    <3> HAVE view'.store[i] # None
    <3>1. HasOrigin(i, view'.store[i].partition) BY <2>9
    <3> QED BY <1>5, <3>1 DEF HasOrigin, IsAdd
  <2> QED BY <2>6, <2>7, <2>10, <2>11, <2>12, <2>13 DEF OriginInv
<1> QED BY <1>3, <1>6, <1>7, <1>8 DEF SafeInv

\* A row found in a partition is what the connection sees there.
LEMMA OwnedRowFound ==
  ASSUME DataOK, NEW p, NEW i \in Ids
  PROVE  /\ OwnedRow(p, i) \in Memory \cup {None}
         /\ OwnedRow(p, i) # None =>
              /\ view.store[i] # None /\ OwnedRow(p, i) = view.store[i]
              /\ view.store[i].partition = p
BY DEF OwnedRow, DataOK

\* A thread that only reads changes its own reply.
LEMMA ReadsSafe ==
  ASSUME SafeInv, NEW t \in Tasks, pc[t] \in Running,
         NEW shown \in [Ids -> Memory \cup {None}],
         \A i \in Ids : shown[i] # None => shown[i].partition = call[t].partition,
         answer' = [answer EXCEPT ![t] = shown],
         NEW how \in {"ok", "not_found", "error"}, Return(t, how),
         UNCHANGED <<backendVars, view, inTx, open, row, doomed>>, Quiet
  PROVE  SafeInv'
<1> USE DEF Quiet
<1>1. ControlOK' /\ PcStep(t) /\ pc'[t] = "done"
  BY ReturnControl DEF SafeInv
<1>2. DataOK'
  BY DEF SafeInv, DataOK, TypeOK, backendVars
<1>3. \A u \in Tasks : TaskSafe(u)'
  <2>1. \A u \in Tasks \ {t} : answer'[u] = answer[u]
    BY DEF SafeInv, DataOK
  <2>2. \A u \in Tasks \ {t} : TaskSafe(u)'
    BY <1>1, <2>1, OthersSafe DEF SafeInv
  <2>3. answer'[t] = shown BY DEF SafeInv, DataOK
  <2>4. call[t] # None
    BY DEF SafeInv, TaskSafe, Running
  <2>5. TaskSafe(t)'
    BY <1>1, <2>3, <2>4 DEF SafeInv, TaskSafe, StatementFits
  <2> QED BY <2>2, <2>5
<1>4. OriginInv'
  BY OriginFrame DEF SafeInv, OriginInv, backendVars
<1> QED BY <1>1, <1>2, <1>3, <1>4 DEF SafeInv

\* The SELECT of a reading method.
LEMMA ReadRowsSafe ==
  ASSUME SafeInv, NEW t \in Tasks, ReadRows(t)
  PROVE  SafeInv'
<1> DEFINE c == call[t]
           found == IF c.op = "scan" THEN SelectedIds(c.partition, c.scope)
                    ELSE {i \in {c.id} : OwnedRow(c.partition, i) # None}
           shown == [i \in Ids |-> IF i \in found THEN view.store[i] ELSE None]
           how == IF c.op = "history" /\ found = {} THEN "not_found" ELSE "ok"
<1>1. /\ pc[t] = "select" /\ c.op \in {"get", "scan", "history"}
      /\ answer' = [answer EXCEPT ![t] = shown]
      /\ Return(t, how)
      /\ UNCHANGED <<backendVars, view, inTx, open, row, doomed>> /\ Quiet
  BY DEF ReadRows
<1>2. \A i \in Ids : i \in found => view.store[i].partition = c.partition
  BY OwnedRowFound DEF SafeInv, SelectedIds
<1>3. shown \in [Ids -> Memory \cup {None}]
  BY DEF SafeInv, DataOK
<1>4. \A i \in Ids : shown[i] # None => shown[i].partition = call[t].partition
  BY <1>2
<1>5. how \in {"ok", "not_found", "error"} OBVIOUS
<1>6. pc[t] \in Running BY <1>1 DEF Running
<1> HIDE DEF shown, how
<1> QED BY <1>1, <1>3, <1>4, <1>5, <1>6, ReadsSafe

\* update's second SELECT.
LEMMA RereadSafe ==
  ASSUME SafeInv, NEW t \in Tasks, Reread(t)
  PROVE  SafeInv'
<1> DEFINE i == call[t].id
           shown == [Unknown EXCEPT ![i] = OwnedRow(call[t].partition, i)]
           how == IF OwnedRow(call[t].partition, i) = None THEN "not_found" ELSE "ok"
<1>1. /\ pc[t] = "reread"
      /\ answer' = [answer EXCEPT ![t] = shown]
      /\ Return(t, how)
      /\ UNCHANGED <<backendVars, view, inTx, open, row, doomed>> /\ Quiet
  BY DEF Reread
<1>2. i \in Ids
  BY <1>1 DEF SafeInv, TaskSafe, StatementFits, GoodCall
<1>3. shown \in [Ids -> Memory \cup {None}]
  BY <1>2, OwnedRowFound DEF SafeInv, Unknown
<1>4. \A j \in Ids : shown[j] # None => shown[j].partition = call[t].partition
  BY <1>2, OwnedRowFound DEF SafeInv, Unknown
<1>5. how \in {"ok", "not_found", "error"} OBVIOUS
<1>6. pc[t] \in Running BY <1>1 DEF Running
<1> HIDE DEF shown, how
<1> QED BY <1>1, <1>3, <1>4, <1>5, <1>6, ReadsSafe

\* A thread that selects rows to change either ends or goes on to the transaction;
\* what it selected is of its partition.
LEMMA SelectSafe ==
  ASSUME SafeInv, NEW t \in Tasks, pc[t] = "select",
         call[t].op \in {"update", "delete", "delete_all"},
         NEW found \in Memory \cup {None}, NEW chosen \in SUBSET Ids,
         row' = [row EXCEPT ![t] = found], doomed' = [doomed EXCEPT ![t] = chosen],
         found # None => HasOrigin(call[t].id, call[t].partition),
         \A i \in chosen : HasOrigin(i, call[t].partition),
         \/ \E how \in {"ok", "not_found"} : Return(t, how)
         \/ /\ Goto(t, "write")
            /\ call[t].op = "update" => found # None /\ found.partition = call[t].partition,
         UNCHANGED <<backendVars, view, inTx, open, answer>>, Quiet
  PROVE  SafeInv'
<1> USE DEF Quiet
<1>1. pc[t] \in Running /\ "write" \in Running BY DEF Running
<1>2. /\ ControlOK' /\ PcStep(t)
      /\ \/ pc'[t] = "done"
         \/ /\ pc'[t] = "write"
            /\ call[t].op = "update" => found # None /\ found.partition = call[t].partition
  <2>1. ControlOK BY DEF SafeInv
  <2>2. CASE \E how \in {"ok", "not_found"} : Return(t, how)
    <3>1. PICK how \in {"ok", "not_found", "error"} : Return(t, how) BY <2>2
    <3> QED BY <1>1, <2>1, <3>1, ReturnControl
  <2>3. CASE Goto(t, "write") /\ (call[t].op = "update" =>
                                    found # None /\ found.partition = call[t].partition)
    BY <1>1, <2>1, <2>3, GotoControl
  <2> QED BY <2>2, <2>3
<1>3. /\ \A u \in Tasks : row'[u] = IF u = t THEN found ELSE row[u]
      /\ \A u \in Tasks : doomed'[u] = IF u = t THEN chosen ELSE doomed[u]
  BY DEF SafeInv, DataOK
<1>4. DataOK'
  BY DEF SafeInv, DataOK, TypeOK, backendVars
<1>5. \A u \in Tasks : TaskSafe(u)'
  <2>1. \A u \in Tasks \ {t} : TaskSafe(u)'
    BY <1>2, <1>3, OthersSafe DEF SafeInv
  <2>2. call[t] # None
    BY DEF SafeInv, TaskSafe
  <2>3. TaskSafe(t)'
    BY <1>2, <1>3, <2>2 DEF SafeInv, TaskSafe, StatementFits
  <2> QED BY <2>1, <2>3
<1>6. OriginInv'
  BY <1>3, OriginFrame DEF SafeInv, OriginInv, backendVars
<1> QED BY <1>2, <1>4, <1>5, <1>6 DEF SafeInv

\* The SELECT of update and delete.
LEMMA SelectRowSafe ==
  ASSUME SafeInv, NEW t \in Tasks, SelectRow(t)
  PROVE  SafeInv'
<1> DEFINE i == call[t].id
           p == call[t].partition
           found == OwnedRow(p, i)
           chosen == IF call[t].op = "delete" /\ found # None THEN {i} ELSE {}
<1>1. /\ pc[t] = "select" /\ call[t].op \in {"update", "delete"}
      /\ row' = [row EXCEPT ![t] = found] /\ doomed' = [doomed EXCEPT ![t] = chosen]
      /\ IF found = None THEN Return(t, "not_found") ELSE Goto(t, "write")
      /\ UNCHANGED <<backendVars, view, inTx, open, answer>> /\ Quiet
  BY DEF SelectRow
<1>2. i \in Ids
  BY <1>1 DEF SafeInv, TaskSafe, GoodCall
<1>3. /\ found \in Memory \cup {None}
      /\ found # None => view.store[i] # None /\ found = view.store[i] /\ found.partition = p
  BY <1>2, OwnedRowFound DEF SafeInv
<1>4. found # None => HasOrigin(i, p)
  BY <1>2, <1>3 DEF SafeInv, OriginInv
<1>5. chosen \in SUBSET Ids /\ \A j \in chosen : HasOrigin(j, p)
  BY <1>2, <1>4
<1>6. \/ \E how \in {"ok", "not_found"} : Return(t, how)
      \/ /\ Goto(t, "write")
         /\ call[t].op = "update" => found # None /\ found.partition = p
  BY <1>1, <1>3
<1>7. call[t].op \in {"update", "delete", "delete_all"} BY <1>1
<1> HIDE DEF found, chosen
<1> QED BY <1>1, <1>3, <1>4, <1>5, <1>6, <1>7, SelectSafe

\* The SELECT of delete_all.
LEMMA SelectDoomedSafe ==
  ASSUME SafeInv, NEW t \in Tasks, SelectDoomed(t)
  PROVE  SafeInv'
<1> DEFINE chosen == SelectedIds(call[t].partition, call[t].scope)
<1>1. /\ pc[t] = "select" /\ call[t].op = "delete_all"
      /\ doomed' = [doomed EXCEPT ![t] = chosen]
      /\ IF chosen = {} THEN Return(t, "ok") ELSE Goto(t, "write")
      /\ UNCHANGED <<backendVars, view, inTx, open, row, answer>> /\ Quiet
  BY DEF SelectDoomed
<1>2. chosen \in SUBSET Ids /\ \A j \in chosen : HasOrigin(j, call[t].partition)
  BY OwnedRowFound DEF SelectedIds, SafeInv, OriginInv
<1>3. /\ row' = [row EXCEPT ![t] = row[t]] /\ row[t] \in Memory \cup {None}
      /\ row[t] # None => HasOrigin(call[t].id, call[t].partition)
  BY <1>1 DEF SafeInv, DataOK, OriginInv
<1>4. \/ \E how \in {"ok", "not_found"} : Return(t, how)
      \/ /\ Goto(t, "write")
         /\ call[t].op = "update" => row[t] # None /\ row[t].partition = call[t].partition
  BY <1>1
<1>5. call[t].op \in {"update", "delete", "delete_all"} BY <1>1
<1> HIDE DEF chosen
<1> QED BY <1>1, <1>2, <1>3, <1>4, <1>5, SelectSafe

ViewType == [store : [Ids -> Memory \cup {None}],
             history : [Ids -> Seq(HistoryEntry)], created : 0..MaxMemories]

\* A step that changes the connection's view or the file, and where t stands, but not
\* what any task holds.
LEMMA ThreadSafe ==
  ASSUME SafeInv, NEW t \in Tasks, ControlOK', PcStep(t),
         \/ pc'[t] \in {"done", pc[t]}
         \/ pc[t] \in {"write", "log"} /\ pc'[t] \in {"log", "commit"}
         \/ call[t].op = "update" /\ pc'[t] = "reread",
         pc[t] # "idle",
         TypeOK', view' \in ViewType, inTx' \in BOOLEAN, open' \in BOOLEAN,
         errors' \in 0..MaxErrors, cancels' \in 0..MaxCancels,
         UNCHANGED <<call, row, doomed, answer, drawn, crashes>>,
         \A i \in Ids : store'[i] # None => HasOrigin(i, store'[i].partition),
         \A i \in Ids : view'.store[i] # None => HasOrigin(i, view'.store[i].partition)
  PROVE  SafeInv'
<1>1. DataOK'
  BY DEF SafeInv, DataOK, ViewType
<1>2. \A u \in Tasks : TaskSafe(u)'
  <2>1. \A u \in Tasks \ {t} : TaskSafe(u)'
    BY OthersSafe DEF SafeInv
  <2>2. TaskSafe(t)'
    BY DEF SafeInv, TaskSafe, StatementFits
  <2> QED BY <2>1, <2>2
<1>3. OriginInv'
  BY OriginFrame DEF SafeInv, OriginInv
<1> QED BY <1>1, <1>2, <1>3 DEF SafeInv

\* The memory an add inserts and the one an update writes are memories.
LEMMA WrittenTypes ==
  ASSUME SafeInv, NEW t \in Tasks, pc[t] \in {"write", "log", "commit"}
  PROVE  /\ call[t] # None /\ GoodCall(call[t])
         /\ call[t].op \in {"add", "update", "delete", "delete_all"}
         /\ call[t].op = "add" =>
              /\ call[t].id \in Ids
              /\ Inserted(t) \in Memory /\ Inserted(t).partition = call[t].partition
              /\ CreatedEntry(Inserted(t)) \in HistoryEntry
         /\ call[t].op = "update" =>
              /\ call[t].id \in Ids /\ row[t] \in Memory
              /\ row[t].partition = call[t].partition
              /\ Merged(t) \in Memory /\ Merged(t).partition = call[t].partition
              /\ UpdatedEntry(row[t], Merged(t)) \in HistoryEntry
<1>1. /\ call[t] # None /\ GoodCall(call[t])
      /\ call[t].op \in {"add", "update", "delete", "delete_all"}
      /\ call[t].op = "update" => row[t] # None /\ row[t].partition = call[t].partition
  BY DEF SafeInv, TaskSafe, StatementFits
<1>2. /\ call[t].partition \in Spaces /\ call[t].content \in Contents \cup {None}
      /\ call[t].scope \in Scope /\ call[t].metadata \in Patch
      /\ call[t].system \in System \cup {None}
  BY <1>1 DEF GoodCall, SqlCall
<1>3. ASSUME call[t].op = "add"
      PROVE  /\ call[t].id \in Ids
             /\ Inserted(t) \in Memory /\ Inserted(t).partition = call[t].partition
             /\ CreatedEntry(Inserted(t)) \in HistoryEntry
  <2>1. /\ call[t].id \in Ids /\ call[t].content \in Contents
        /\ call[t].metadata \in Metadata /\ call[t].system \in System
    BY <1>1, <1>2, <1>3 DEF GoodCall
  <2>2. Inserted(t) \in Memory BY <1>2, <2>1, NewMemoryType DEF Inserted
  <2> QED BY <2>1, <2>2, EntryTypes DEF Inserted, NewMemory
<1>4. ASSUME call[t].op = "update"
      PROVE  /\ call[t].id \in Ids /\ row[t] \in Memory
             /\ row[t].partition = call[t].partition
             /\ Merged(t) \in Memory /\ Merged(t).partition = call[t].partition
             /\ UpdatedEntry(row[t], Merged(t)) \in HistoryEntry
  <2>1. call[t].id \in Ids /\ row[t] \in Memory
    BY <1>1, <1>4 DEF GoodCall, SafeInv, DataOK
  <2>2. Merged(t) \in Memory /\ Merged(t).partition = row[t].partition
    BY <1>2, <2>1, RewrittenType DEF Merged
  <2> QED BY <1>1, <1>4, <2>1, <2>2, EntryTypes
<1> QED BY <1>1, <1>3, <1>4

\* The statement on memories.
LEMMA WriteMemoriesSafe ==
  ASSUME SafeInv, NEW t \in Tasks, WriteMemories(t)
  PROVE  SafeInv'
<1> DEFINE c == call[t]
<1>1. /\ pc[t] = "write" /\ inTx' = TRUE /\ Goto(t, "log")
      /\ UNCHANGED <<backendVars, open, row, doomed, answer>> /\ Quiet
  BY DEF WriteMemories
<1>2. ControlOK' /\ PcStep(t) /\ pc'[t] = "log"
  BY <1>1, GotoControl DEF SafeInv, Running
<1>3. /\ c # None /\ c.op \in {"add", "update", "delete", "delete_all"}
      /\ c.op = "add" =>
           c.id \in Ids /\ Inserted(t) \in Memory /\ Inserted(t).partition = c.partition
      /\ c.op = "update" =>
           c.id \in Ids /\ Merged(t) \in Memory /\ Merged(t).partition = c.partition
  BY <1>1, WrittenTypes
<1>4. view \in ViewType BY DEF SafeInv, DataOK, ViewType
<1>5. /\ view' \in ViewType
      /\ \A i \in Ids : view'.store[i] # None =>
           \/ view.store[i] # None /\ view'.store[i].partition = view.store[i].partition
           \/ c.op = "add" /\ i = c.id /\ view'.store[i].partition = c.partition
  <2>1. CASE c.op = "add"
    <3>1. view' = [view EXCEPT !.store[c.id] = Inserted(t), !.created = c.id]
      BY <2>1 DEF WriteMemories
    <3>2. c.id \in 0..MaxMemories BY <1>3, <2>1, BoundAssumption DEF Ids
    <3> QED BY <1>3, <1>4, <2>1, <3>1, <3>2 DEF ViewType
  <2>2. CASE c.op = "update"
    <3>1. view' = [view EXCEPT !.store =
                     IF @[c.id] = None THEN @
                     ELSE [@ EXCEPT ![c.id].content = Merged(t).content,
                                    ![c.id].metadata = Merged(t).metadata,
                                    ![c.id].system = Merged(t).system]]
      BY <2>2 DEF WriteMemories
    <3>2. /\ Merged(t).content \in Contents /\ Merged(t).metadata \in Metadata
          /\ Merged(t).system \in System
      BY <1>3, <2>2 DEF Memory
    <3>3. CASE view.store[c.id] = None
      BY <1>4, <3>1, <3>3 DEF ViewType
    <3>4. CASE view.store[c.id] # None
      <4> DEFINE m == view.store[c.id]
                 n == [m EXCEPT !.content = Merged(t).content,
                                !.metadata = Merged(t).metadata,
                                !.system = Merged(t).system]
      <4>1. m \in Memory BY <1>3, <1>4, <2>2, <3>4 DEF ViewType
      <4>2. n \in Memory /\ n.partition = m.partition BY <3>2, <4>1 DEF Memory
      <4>3. view' = [view EXCEPT !.store = [@ EXCEPT ![c.id] = n]]
        BY <1>3, <1>4, <2>2, <3>1, <3>4, <4>1 DEF ViewType, Memory
      <4> HIDE DEF n
      <4> QED BY <1>3, <1>4, <2>2, <3>4, <4>2, <4>3 DEF ViewType
    <3> QED BY <3>3, <3>4
  <2>3. CASE c.op \notin {"add", "update"}
    <3>1. view' = [view EXCEPT !.store =
                     [i \in Ids |-> IF i \in doomed[t] THEN None ELSE @[i]]]
      BY <2>3 DEF WriteMemories
    <3> QED BY <1>4, <3>1 DEF ViewType
  <2> QED BY <2>1, <2>2, <2>3
<1>6. \A i \in Ids : view'.store[i] # None => HasOrigin(i, view'.store[i].partition)
  <2> TAKE i \in Ids
  <2> HAVE view'.store[i] # None
  <2>1. CASE view.store[i] # None /\ view'.store[i].partition = view.store[i].partition
    BY <2>1 DEF SafeInv, OriginInv
  <2>2. CASE c.op = "add" /\ i = c.id /\ view'.store[i].partition = c.partition
    BY <1>3, <2>2 DEF HasOrigin, IsAdd
  <2> QED BY <1>5, <2>1, <2>2
<1>7. TypeOK' /\ \A i \in Ids : store'[i] # None => HasOrigin(i, store'[i].partition)
  BY <1>1 DEF SafeInv, DataOK, OriginInv, backendVars, TypeOK
<1> QED BY <1>1, <1>2, <1>5, <1>6, <1>7, ThreadSafe DEF SafeInv, DataOK, Quiet

\* The statement on history.
LEMMA WriteHistorySafe ==
  ASSUME SafeInv, NEW t \in Tasks, WriteHistory(t)
  PROVE  SafeInv'
<1> DEFINE c == call[t]
<1>1. /\ pc[t] = "log" /\ inTx' = TRUE /\ Goto(t, "commit")
      /\ UNCHANGED <<backendVars, open, row, doomed, answer>> /\ Quiet
  BY DEF WriteHistory
<1>2. ControlOK' /\ PcStep(t) /\ pc'[t] = "commit"
  BY <1>1, GotoControl DEF SafeInv, Running
<1>3. /\ c # None /\ c.op \in {"add", "update", "delete", "delete_all"}
      /\ c.op = "add" => c.id \in Ids /\ CreatedEntry(Inserted(t)) \in HistoryEntry
      /\ c.op = "update" => c.id \in Ids /\ UpdatedEntry(row[t], Merged(t)) \in HistoryEntry
  BY <1>1, WrittenTypes
<1>4. view \in ViewType BY DEF SafeInv, DataOK, ViewType
<1>5. view' \in ViewType /\ view'.store = view.store
  <2>1. ASSUME c.op \in {"add", "update"}
        PROVE  \E e \in HistoryEntry :
                 view' = [view EXCEPT !.history[c.id] = Append(@, e)]
    <3>1. CASE c.op = "add"
      BY <1>3, <3>1 DEF WriteHistory
    <3>2. CASE c.op = "update"
      BY <1>3, <3>2 DEF WriteHistory
    <3> QED BY <2>1, <3>1, <3>2
  <2>2. CASE c.op \in {"add", "update"}
    <3>1. PICK e \in HistoryEntry :
            view' = [view EXCEPT !.history[c.id] = Append(@, e)]
      BY <2>1, <2>2
    <3>2. c.id \in Ids /\ view.history[c.id] \in Seq(HistoryEntry)
      BY <1>3, <1>4, <2>2 DEF ViewType
    <3>3. Append(view.history[c.id], e) \in Seq(HistoryEntry)
      BY <3>2, AppendProperties
    <3> DEFINE h == [view.history EXCEPT ![c.id] = Append(@, e)]
    <3>4. h \in [Ids -> Seq(HistoryEntry)] BY <1>4, <3>3 DEF ViewType
    <3>5. view' = [view EXCEPT !.history = h] BY <3>1
    <3> HIDE DEF h
    <3> QED BY <1>4, <3>4, <3>5 DEF ViewType
  <2>3. CASE c.op \notin {"add", "update"}
    <3>1. view' = [view EXCEPT !.history =
                     [i \in Ids |-> IF i \in doomed[t] THEN <<>> ELSE @[i]]]
      BY <2>3 DEF WriteHistory
    <3> DEFINE h == [i \in Ids |-> IF i \in doomed[t] THEN <<>> ELSE view.history[i]]
    <3>2. h \in [Ids -> Seq(HistoryEntry)]
      <4>1. <<>> \in Seq(HistoryEntry) BY EmptySeq
      <4>2. \A i \in Ids : view.history[i] \in Seq(HistoryEntry) BY <1>4 DEF ViewType
      <4> QED BY <4>1, <4>2
    <3>3. view' = [view EXCEPT !.history = h] BY <3>1
    <3> HIDE DEF h
    <3> QED BY <1>4, <3>2, <3>3 DEF ViewType
  <2> QED BY <2>2, <2>3
<1>6. /\ TypeOK' /\ \A i \in Ids : store'[i] # None => HasOrigin(i, store'[i].partition)
      /\ \A i \in Ids : view'.store[i] # None => HasOrigin(i, view'.store[i].partition)
  BY <1>1, <1>5 DEF SafeInv, DataOK, OriginInv, backendVars, TypeOK
<1> QED BY <1>1, <1>2, <1>5, <1>6, ThreadSafe DEF SafeInv, DataOK, Quiet

\* The commit.
LEMMA CommitSafe ==
  ASSUME SafeInv, NEW t \in Tasks, Commit(t)
  PROVE  SafeInv'
<1>1. /\ pc[t] = "commit" /\ inTx' = FALSE
      /\ store' = view.store /\ history' = view.history /\ created' = view.created
      /\ IF call[t].op = "update" THEN Goto(t, "reread") ELSE Return(t, "ok")
      /\ UNCHANGED <<view, open, row, doomed, answer>> /\ Quiet
  BY DEF Commit
<1>2. ControlOK /\ pc[t] \in Running /\ "reread" \in Running
  BY <1>1 DEF SafeInv, Running
<1>3. /\ ControlOK' /\ PcStep(t)
      /\ pc'[t] = "done" \/ (call[t].op = "update" /\ pc'[t] = "reread")
  <2>1. CASE call[t].op = "update" BY <1>1, <1>2, <2>1, GotoControl
  <2>2. CASE call[t].op # "update" BY <1>1, <1>2, <2>2, ReturnControl
  <2> QED BY <2>1, <2>2
<1>4. TypeOK' /\ view' \in ViewType
  BY <1>1 DEF SafeInv, DataOK, TypeOK, ViewType
<1>5. /\ \A i \in Ids : store'[i] # None => HasOrigin(i, store'[i].partition)
      /\ \A i \in Ids : view'.store[i] # None => HasOrigin(i, view'.store[i].partition)
  BY <1>1 DEF SafeInv, OriginInv
<1> QED BY <1>1, <1>3, <1>4, <1>5, ThreadSafe DEF SafeInv, DataOK, Quiet

\* A rolled-back view is the file.
LEMMA CommittedView ==
  ASSUME SafeInv
  PROVE  /\ Committed \in ViewType
         /\ \A i \in Ids : Committed.store[i] # None =>
              HasOrigin(i, Committed.store[i].partition)
BY DEF SafeInv, DataOK, TypeOK, Committed, ViewType, OriginInv

\* close().
LEMMA CloseConnectionSafe ==
  ASSUME SafeInv, NEW t \in Tasks, CloseConnection(t)
  PROVE  SafeInv'
<1>1. /\ pc[t] = "close" /\ open' = FALSE /\ view' = Committed /\ inTx' = FALSE
      /\ Return(t, "ok")
      /\ UNCHANGED <<backendVars, row, doomed, answer>> /\ Quiet
  BY DEF CloseConnection
<1>2. ControlOK' /\ PcStep(t) /\ pc'[t] = "done"
  BY <1>1, ReturnControl DEF SafeInv, Running
<1>3. TypeOK' /\ \A i \in Ids : store'[i] # None => HasOrigin(i, store'[i].partition)
  BY <1>1 DEF SafeInv, DataOK, TypeOK, backendVars, OriginInv
<1> QED BY <1>1, <1>2, <1>3, CommittedView, ThreadSafe DEF SafeInv, DataOK, Quiet

\* A statement that raises.
LEMMA StatementFailsSafe ==
  ASSUME SafeInv, NEW t \in Tasks, StatementFails(t)
  PROVE  SafeInv'
<1>1. /\ pc[t] \in Running
      /\ IF open THEN errors < MaxErrors /\ errors' = errors + 1 ELSE UNCHANGED errors
      /\ (view' = Committed /\ inTx' = FALSE) \/ UNCHANGED <<view, inTx>>
      /\ Return(t, "error")
      /\ UNCHANGED <<backendVars, open, row, doomed, answer, call, drawn, cancels, crashes>>
  BY DEF StatementFails
<1>2. ControlOK' /\ PcStep(t) /\ pc'[t] = "done"
  BY <1>1, ReturnControl DEF SafeInv
<1>3. TypeOK' /\ \A i \in Ids : store'[i] # None => HasOrigin(i, store'[i].partition)
  BY <1>1 DEF SafeInv, DataOK, TypeOK, backendVars, OriginInv
<1>4. /\ view' \in ViewType /\ inTx' \in BOOLEAN
      /\ \A i \in Ids : view'.store[i] # None => HasOrigin(i, view'.store[i].partition)
  BY <1>1, CommittedView DEF SafeInv, DataOK, OriginInv, ViewType
<1>5. errors' \in 0..MaxErrors
  BY <1>1, SqlAssumption DEF SafeInv, DataOK
<1>6. pc[t] # "idle" BY <1>1 DEF Running
<1> QED BY <1>1, <1>2, <1>3, <1>4, <1>5, <1>6, ThreadSafe DEF SafeInv, DataOK

\* A cancelled call.
LEMMA CancelSafe ==
  ASSUME SafeInv, NEW t \in Tasks, CancelWaiting(t) \/ CancelRunning(t)
  PROVE  SafeInv'
<1>1. /\ cancels < MaxCancels /\ cancels' = cancels + 1 /\ pc[t] # "idle"
      /\ UNCHANGED <<backendVars, view, inTx, open, call, row, doomed, answer, drawn,
                     errors, crashes>>
  BY DEF CancelWaiting, CancelRunning, Running
<1>2. ControlOK' /\ PcStep(t) /\ pc'[t] \in {"done", pc[t]}
  BY CancelWaitingControl, CancelRunningControl DEF SafeInv
<1>3. TypeOK' /\ \A i \in Ids : store'[i] # None => HasOrigin(i, store'[i].partition)
  BY <1>1 DEF SafeInv, DataOK, TypeOK, backendVars, OriginInv
<1>4. /\ view' \in ViewType /\ inTx' \in BOOLEAN /\ open' \in BOOLEAN
      /\ \A i \in Ids : view'.store[i] # None => HasOrigin(i, view'.store[i].partition)
  BY <1>1 DEF SafeInv, DataOK, OriginInv, ViewType
<1>5. cancels' \in 0..MaxCancels /\ errors' \in 0..MaxErrors
  BY <1>1, SqlAssumption DEF SafeInv, DataOK
<1> QED BY <1>1, <1>2, <1>3, <1>4, <1>5, ThreadSafe

\* A crash ends every call and loses what was not committed.
LEMMA CrashRestartSafe ==
  ASSUME SafeInv, CrashRestart
  PROVE  SafeInv'
<1>1. /\ crashes < MaxCrashes /\ crashes' = crashes + 1
      /\ view' = Committed /\ inTx' = FALSE /\ open' = TRUE
      /\ holder' = None /\ queue' = <<>> /\ abandoned' = {}
      /\ pc' = [t \in Tasks |-> IF pc[t] = "idle" THEN "idle" ELSE "done"]
      /\ result' = [t \in Tasks |-> IF pc[t] \in {"idle", "done"} \/ t \in abandoned
                                    THEN result[t] ELSE "lost"]
      /\ UNCHANGED <<backendVars, call, row, doomed, answer, drawn, cancels, errors>>
  BY DEF CrashRestart
<1>2. \A t \in Tasks : pc'[t] \in {"idle", "done"} /\ (pc'[t] = "idle" <=> pc[t] = "idle")
  BY <1>1
<1>3. ControlOK'
  <2>1. queue' \in Seq(Tasks) /\ Len(queue') = 0 BY <1>1, EmptySeq
  <2>2. \A n \in 1..Len(queue') : FALSE BY <2>1
  <2>3. LockInv' BY <1>1, <1>2, <2>2, NoneNotTask DEF LockInv, Running
  <2>4. /\ pc' \in [Tasks -> Running \cup {"idle", "waiting", "done"}]
        /\ result' \in [Tasks -> {"none", "ok", "not_found", "error", "cancelled", "lost"}]
    BY <1>1 DEF SafeInv, ControlOK
  <2> QED BY <1>1, <2>1, <2>3, <2>4 DEF ControlOK
<1>4. DataOK'
  <2>1. crashes' \in 0..MaxCrashes BY <1>1, SqlAssumption DEF SafeInv, DataOK
  <2>2. TypeOK' BY <1>1 DEF SafeInv, DataOK, TypeOK, backendVars
  <2> QED BY <1>1, <2>1, <2>2, CommittedView DEF SafeInv, DataOK, ViewType
<1>5. \A t \in Tasks : TaskSafe(t)'
  BY <1>1, <1>2 DEF SafeInv, TaskSafe, StatementFits
<1>6. OriginInv'
  BY <1>1, CommittedView, OriginFrame DEF SafeInv, OriginInv, backendVars
<1> QED BY <1>3, <1>4, <1>5, <1>6 DEF SafeInv

\* Every step keeps the invariant.
LEMMA SafeStep ==
  ASSUME SafeInv, [SqlNext]_sqlVars
  PROVE  SafeInv'
<1>1. ASSUME NEW t \in Tasks,
             Call(t) \/ Statement(t) \/ StatementFails(t) \/ CancelWaiting(t)
               \/ CancelRunning(t)
      PROVE  SafeInv'
  BY <1>1, CallSafe, ReadRowsSafe, SelectRowSafe, SelectDoomedSafe, WriteMemoriesSafe,
     WriteHistorySafe, CommitSafe, RereadSafe, CloseConnectionSafe, StatementFailsSafe,
     CancelSafe DEF Statement
<1>2. CASE UNCHANGED sqlVars
  <2>1. UNCHANGED <<store, history, created, view, inTx, open, holder, queue, pc, call, row,
                    doomed, answer, result, abandoned, drawn, cancels, errors, crashes>>
    BY <1>2 DEF sqlVars, taskVars, backendVars
  <2>2. ControlOK' BY <2>1 DEF SafeInv, ControlOK, LockInv
  <2>3. DataOK' BY <2>1 DEF SafeInv, DataOK, TypeOK
  <2>4. \A u \in Tasks : TaskSafe(u)' BY <2>1 DEF SafeInv, TaskSafe, StatementFits
  <2>5. OriginInv' BY <2>1, OriginFrame DEF SafeInv, OriginInv
  <2> QED BY <2>2, <2>3, <2>4, <2>5 DEF SafeInv
<1> QED BY <1>1, <1>2, CrashRestartSafe DEF SqlNext

\* The invariant holds at first.
LEMMA InitSafe == SqlInit => SafeInv
<1> SUFFICES ASSUME SqlInit PROVE SafeInv
  OBVIOUS
<1> USE DEF SqlInit
<1>1. <<>> \in Seq(Tasks) /\ Len(<<>>) = 0 /\ <<>> \in Seq(HistoryEntry) BY EmptySeq
<1>2. \A n \in 1..Len(queue) : FALSE BY <1>1
<1>3. ControlOK
  BY <1>1, <1>2, NoneNotTask DEF ControlOK, LockInv, Running
<1>4. TypeOK BY <1>1, BoundAssumption DEF Init, TypeOK
<1>5. DataOK
  <2>1. view \in ViewType BY <1>4 DEF Committed, TypeOK, ViewType
  <2>2. drawn \in 0..MaxMemories BY BoundAssumption
  <2>3. cancels \in 0..MaxCancels /\ errors \in 0..MaxErrors /\ crashes \in 0..MaxCrashes
    BY SqlAssumption
  <2>4. answer \in [Tasks -> [Ids -> Memory \cup {None}]] BY DEF Unknown
  <2> QED BY <1>4, <2>1, <2>2, <2>3, <2>4 DEF DataOK, ViewType
<1>6. \A t \in Tasks : TaskSafe(t)
  BY DEF TaskSafe, StatementFits, Unknown
<1>7. OriginInv
  BY DEF OriginInv, IsAdd, Committed, Init
<1> QED BY <1>3, <1>5, <1>6, <1>7 DEF SafeInv

\* The invariant holds in every state, whatever fails or is cancelled.
THEOREM SafeInvCorrect == SqlSpec => []SafeInv
<1>1. SqlInit => SafeInv BY InitSafe
<1>2. SafeInv /\ [SqlNext]_sqlVars => SafeInv'
  BY SafeStep
<1> QED BY <1>1, <1>2, PTL DEF SqlSpec

\* The file, the connection's view, the lock and every call stay well formed through
\* errors, cancelled calls whose threads run on, and crashes (sqlite.py 78-99, 266-308).
THEOREM SqlTypeCorrect == SqlSpec => []SqlTypeOK
<1>1. SafeInv => SqlTypeOK
  BY DEF SafeInv, ControlOK, DataOK, SqlTypeOK
<1> QED BY <1>1, SafeInvCorrect, PTL

\* No call changes or reads a memory of another partition, although a cancelled call's
\* thread runs between another's statements (sqlite.py 115-119, 204, 223, 295).
THEOREM SqlPartitionsApartCorrect == SqlSpec => []SqlPartitionsApart
<1>1. SafeInv => SqlPartitionsApart
  <2> SUFFICES ASSUME SafeInv PROVE SqlPartitionsApart
    OBVIOUS
  <2>1. \A t \in Tasks, i \in Ids :
          answer[t][i] # None => answer[t][i].partition = call[t].partition
    BY DEF SafeInv, TaskSafe
  <2>2. ASSUME NEW t \in Tasks, pc[t] \in {"write", "log"}, NEW i \in Ids,
               i \in doomed[t] \/ (call[t].op = "update" /\ call[t].id = i),
               view.store[i] # None
        PROVE  view.store[i].partition = call[t].partition
    <3>1. HasOrigin(i, call[t].partition)
      <4>1. CASE i \in doomed[t] BY <4>1 DEF SafeInv, OriginInv
      <4>2. CASE call[t].op = "update" /\ call[t].id = i
        BY <2>2, <4>2 DEF SafeInv, OriginInv, TaskSafe, StatementFits
      <4> QED BY <2>2, <4>1, <4>2
    <3>2. HasOrigin(i, view.store[i].partition) BY <2>2 DEF SafeInv, OriginInv
    <3> QED BY <3>1, <3>2 DEF HasOrigin, SafeInv, OriginInv
  <2> QED BY <2>1, <2>2 DEF SqlPartitionsApart
<1> QED BY <1>1, SafeInvCorrect, PTL

\* One task holds the lock at a time: the one whose thread runs uncancelled, and no task
\* waits for a free lock (sqlite.py 97-99).
THEOREM LockCorrect == SqlSpec => []LockInv
<1>1. SafeInv => LockInv BY DEF SafeInv, ControlOK
<1> QED BY <1>1, SafeInvCorrect, PTL
=============================================================================
