------------------------------ MODULE MCPolicy ------------------------------
(***************************************************************************)
(* Small instances of the policy layer.  Two spaces; Alice and Bob write   *)
(* to the first, Rita reads it, Olga writes to the second.  A request may  *)
(* also carry no key.                                                      *)
(***************************************************************************)
EXTENDS Policy, TLC

CONSTANTS s1, s2, alice, bob, rita, olga, c1, c2, q1, agent_id, a1, k1, k2

MCSpaces == {s1, s2}
MCNames == {alice, bob, rita, olga}
MCContents == {c1, c2}
MCScopeKeys == {agent_id}
MCLabels == {a1}
MCMetaKeys == {k1, k2}
MCMetaValues == {1}
MCMaxMetadata == 1

MCKey(name, space, relation) == [name |-> name, space |-> space, relation |-> relation]
MCKeys == {MCKey(alice, s1, "writer"), MCKey(bob, s1, "writer"),
           MCKey(rita, s1, "reader"), MCKey(olga, s2, "writer")}
MCRivals == {MCKey(bob, s1, "writer"), MCKey(olga, s2, "writer")}
MCWriters == {MCKey(alice, s1, "writer"), MCKey(bob, s1, "writer"),
              MCKey(olga, s2, "writer")}

\* c1 matches the query well, c2 barely.
MCScore == [qc \in {q1} \X MCContents |-> IF qc[2] = c1 THEN 2 ELSE 1]

Anywhere == [k \in MCScopeKeys |-> None]
AtA1 == [k \in MCScopeKeys |-> a1]
NoMeta == [k \in MCMetaKeys |-> None]
Kept == [k \in MCMetaKeys |-> Keep]
Holding(k) == [NoMeta EXCEPT ![k] = 1]
Setting(k) == [Kept EXCEPT ![k] = 1]

Basic(op) ==
  [op |-> op, id |-> None, content |-> None, scope |-> Anywhere,
   metadata |-> IF op = "add" THEN NoMeta ELSE Kept, infer |-> TRUE, query |-> q1,
   limit |-> 2, cursor |-> 0, threshold |-> 0, checks |-> "ok"]

Adds == {[Basic("add") EXCEPT !.content = c1, !.metadata = m, !.scope = s] :
           m \in {NoMeta, Holding(k1)}, s \in {AtA1}}
ById(op) == {[Basic(op) EXCEPT !.id = i] : i \in Ids}
Edits == {[Basic("update") EXCEPT !.id = i, !.content = p[1], !.metadata = p[2]] :
            i \in Ids, p \in {<<c2, Kept>>, <<None, Setting(k1)>>, <<c2, Setting(k2)>>}}
Unscoped == {Basic("delete_all")}
Sweeps == {[Basic("delete_all") EXCEPT !.scope = AtA1]}
Searches == {[Basic("search") EXCEPT !.scope = s, !.limit = 1] : s \in {Anywhere, AtA1}}
Lists == {[Basic("list_memories") EXCEPT !.scope = s, !.limit = 1, !.cursor = p] :
            s \in {Anywhere, AtA1}, p \in {0, 1, -2, None}}
\* Calls an argument rule refuses, and an update that asks for nothing.
Malformed == {[Basic("search") EXCEPT !.checks = "invalid_scope"],
              [Basic("add") EXCEPT !.content = c1, !.metadata = [k \in MCMetaKeys |-> 1]],
              Basic("get"), [Basic("update") EXCEPT !.id = 1]}

MCWrites == Adds \cup Edits \cup ById("delete") \cup Sweeps
MCReads == ById("get") \cup ById("history") \cup Searches \cup Lists \cup {Basic("entities")}
MCEverything == MCWrites \cup MCReads \cup Malformed \cup Unscoped

\* What the races between writers need, for runs with three requests.
MCRacing == {[Basic("add") EXCEPT !.content = c1]}
            \cup {[Basic("update") EXCEPT !.id = 1, !.metadata = Setting(k1)]}
            \cup {[Basic("delete") EXCEPT !.id = i] : i \in 1..2} \cup Sweeps
\* One call of each kind, with scoped and unscoped scans, for a store that neither
\* keeps partitions apart nor stores what it is given.
MCMixed == {[Basic("add") EXCEPT !.content = c1, !.scope = AtA1],
            [Basic("update") EXCEPT !.id = 1, !.content = c2],
            [Basic("delete") EXCEPT !.id = 2], [Basic("history") EXCEPT !.id = 1],
            [Basic("get") EXCEPT !.id = 1], [Basic("search") EXCEPT !.scope = AtA1],
            [Basic("list_memories") EXCEPT !.scope = AtA1],
            [Basic("list_memories") EXCEPT !.cursor = None],
            Basic("entities")} \cup Sweeps \cup Unscoped
MCSearches == {[Basic("search") EXCEPT !.threshold = t] : t \in {0, 2}} \cup Adds
MCPatches == {[Basic("update") EXCEPT !.id = 1, !.metadata = Setting(k)] : k \in MCMetaKeys}

\* A memory as an earlier run of the server left it.
Left(space, content, scope, metadata, recorded, creator) ==
  [partition |-> space, content |-> content, scope |-> scope, metadata |-> metadata,
   system |-> [space |-> recorded, author |-> creator, created_by |-> creator]]

\* One memory in each space; Alice's may predate the system fields.
MCPreload ==
  {<<Left(s1, c1, AtA1, Holding(k1), s1, alice), Left(s2, c2, AtA1, NoMeta, s2, olga)>>,
   <<Left(s1, c1, Anywhere, NoMeta, None, None)>>}

\* A store whose partitions no longer say where a memory belongs.
MCMixedPreload ==
  {<<Left(s1, c1, AtA1, NoMeta, s1, alice), Left(s2, c2, AtA1, NoMeta, s2, olga)>>,
   <<Left(s1, c2, Anywhere, NoMeta, s2, olga), Left(s1, c1, Anywhere, NoMeta, None, bob)>>}

\* One memory, without metadata.
MCPlainPreload == {<<Left(s1, c2, AtA1, NoMeta, s1, alice)>>}

Symmetric == Permutations(Requests)
=============================================================================
