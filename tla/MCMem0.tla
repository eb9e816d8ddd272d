------------------------------- MODULE MCMem0 -------------------------------
(***************************************************************************)
(* A small instance of the mem0 adapter: two partitions, three calls in    *)
(* flight, one of whose requests may fail.                                 *)
(***************************************************************************)
EXTENDS Mem0Backend, TLC

CONSTANTS s1, s2, n1, n2, c1, c2, agent_id, a1, k1, k2

MCSpaces == {s1, s2}
MCNames == {n1, n2}
MCContents == {c1, c2}
MCScopeKeys == {agent_id}
MCLabels == {a1}
MCMetaKeys == {k1, k2}
MCMetaValues == {1}

Anywhere == [k \in MCScopeKeys |-> None]
AtA1 == [k \in MCScopeKeys |-> a1]
NoMeta == [k \in MCMetaKeys |-> None]
Kept == [k \in MCMetaKeys |-> Keep]
By(name) == [space |-> s1, author |-> name, created_by |-> n1]

Basic(op, space) ==
  [op |-> op, partition |-> space, id |-> None, content |-> None, scope |-> Anywhere,
   odd |-> FALSE, patch |-> Kept, system |-> None]

MCCalls ==
  {[Basic("add", s1) EXCEPT !.content = c1, !.patch = [NoMeta EXCEPT ![k1] = 1], !.system = By(n1)],
   [Basic("add", s2) EXCEPT !.content = c1, !.patch = NoMeta, !.scope = AtA1],
   [Basic("update", s1) EXCEPT !.id = 1, !.patch = [Kept EXCEPT ![k1] = None]],
   [Basic("update", s1) EXCEPT !.id = 1, !.content = c2, !.system = By(n2),
      !.patch = [Kept EXCEPT ![k2] = 1]],
   [Basic("delete", s1) EXCEPT !.id = 1], [Basic("get", s2) EXCEPT !.id = 1],
   [Basic("delete", s2) EXCEPT !.id = 1],
   [Basic("history", s1) EXCEPT !.id = 1], Basic("list", s1),
   [Basic("delete_all", s2) EXCEPT !.scope = AtA1], [Basic("delete_all", s1) EXCEPT !.odd = TRUE]}
=============================================================================
