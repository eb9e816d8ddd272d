------------------------------ MODULE MCSqlite ------------------------------
(***************************************************************************)
(* Small instances of the sqlite backend: two partitions, a handful of     *)
(* calls in flight, at most one error, cancellation or crash each.         *)
(***************************************************************************)
EXTENDS SqliteBackend, TLC

CONSTANTS s1, s2, n1, c1, c2, agent_id, a1, k1, k2

MCSpaces == {s1, s2}
MCNames == {n1}
MCContents == {c1, c2}
MCScopeKeys == {agent_id}
MCLabels == {a1}
MCMetaKeys == {k1, k2}
MCMetaValues == {1}

Anywhere == [k \in MCScopeKeys |-> None]
Kept == [k \in MCMetaKeys |-> Keep]
NoMeta == [k \in MCMetaKeys |-> None]

Basic(op, space) ==
  [op |-> op, partition |-> space, id |-> None, content |-> None, scope |-> Anywhere,
   metadata |-> Kept, system |-> None]

Adds(space) ==
  {[Basic("add", space) EXCEPT !.content = c1, !.metadata = NoMeta,
      !.system = [space |-> space, author |-> n1, created_by |-> n1]]}
Patches(space, keys) ==
  {[Basic("update", space) EXCEPT !.id = 1, !.content = IF k = k1 THEN None ELSE c2,
      !.metadata = [Kept EXCEPT ![k] = 1]] : k \in keys}
MCCalls == Adds(s1) \cup Patches(s1, {k1, k2})
           \cup {[Basic(op, s1) EXCEPT !.id = 1] : op \in {"get", "delete"}}
           \cup {Basic("scan", s1), Basic("delete_all", s1), Basic("close", s1),
                 [Basic("get", s2) EXCEPT !.id = 1]}
\* Calls of both partitions, for the run with cancelled calls.
MCTwoPartitions == Adds(s1) \cup Patches(s1, {k1})
                   \cup {[Basic(op, s1) EXCEPT !.id = 1] : op \in {"delete", "history"}}
                   \cup Adds(s2) \cup {Basic("delete_all", s2), Basic("close", s2)}
MCPatching == Adds(s1) \cup Patches(s1, {k1, k2})

Symmetric == Permutations(Tasks)
=============================================================================
