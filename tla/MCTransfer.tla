----------------------------- MODULE MCTransfer -----------------------------
(***************************************************************************)
(* Small instances of transfers: two jobs and one ordinary request on a    *)
(* store of two partitions.  Alice and Bob write to s1, Olga to s2; the    *)
(* operator migrates.  k2 is a reserved key, left by an earlier version.   *)
(***************************************************************************)
EXTENDS Transfer, TLC

CONSTANTS s1, s2, alice, bob, olga, op, c1, c2, q1, agent_id, a1, k1, k2

MCSpaces == {s1, s2}
MCNames == {alice, bob, olga, op}
MCContents == {c1, c2}
MCScopeKeys == {agent_id}
MCLabels == {a1}
MCMetaKeys == {k1, k2}
MCMetaValues == {1, 2}
MCReserved == {k2}
MCScore == [qc \in {q1} \X MCContents |-> 1]

MCKey(name, space, relation) == [name |-> name, space |-> space, relation |-> relation]
MCKeys == {MCKey(bob, s1, "writer")}

Anywhere == [k \in MCScopeKeys |-> None]
AtA1 == [k \in MCScopeKeys |-> a1]
NoMeta == [k \in MCMetaKeys |-> None]
Kept == [k \in MCMetaKeys |-> Keep]
Holding(k) == [NoMeta EXCEPT ![k] = 1]

Basic(o) ==
  [op |-> o, id |-> None, content |-> None, scope |-> Anywhere,
   metadata |-> IF o = "add" THEN NoMeta ELSE Kept, infer |-> FALSE, query |-> q1,
   limit |-> 2, cursor |-> 0, threshold |-> 0, checks |-> "ok"]
\* The requests that can get in a job's way.
MCCalls == {[Basic("update") EXCEPT !.id = 1, !.content = c2, !.metadata = [Kept EXCEPT ![k1] = 1]],
            [Basic("delete") EXCEPT !.id = 2]}

E1(content, scope, metadata) ==
  [content |-> content, scope |-> scope, metadata |-> metadata, system |-> None, valid |-> TRUE]

\* The same memory twice, with and without metadata; one content in two
\* scopes, once twice; and
\* an entry whose metadata is over the cap before one that fits.
Twice == <<E1(c1, AtA1, NoMeta), E1(c1, AtA1, None)>>
TwoScopes == <<E1(c1, Anywhere, None), E1(c1, Anywhere, Holding(k1)), E1(c1, AtA1, None)>>
OneTooBig == <<E1(c2, AtA1, [NoMeta EXCEPT ![k1] = 2]), E1(c1, AtA1, None)>>

Job(kind, name, mode, entries) ==
  [kind |-> kind, key |-> MCKey(name, s1, "writer"), from |-> IF kind = "migrate" THEN s2 ELSE None,
   mode |-> mode, entries |-> entries]
MCJobCalls ==
  {Job("import", alice, "overwrite", Twice),
   Job("import", alice, "skip", TwoScopes), Job("import", alice, "duplicate", OneTooBig),
   [Job("import", alice, "skip", Twice) EXCEPT !.key.relation = "reader"],
   Job("import", alice, "skip", <<>>), Job("export", alice, None, <<>>),
   Job("migrate", op, "overwrite", <<>>)}

Left(space, content, scope, metadata, recorded, creator) ==
  [partition |-> space, content |-> content, scope |-> scope, metadata |-> metadata,
   system |-> [space |-> recorded, author |-> creator, created_by |-> creator]]

\* A memory the batches overwrite or skip, with a reserved key and one they
\* lack; and a partition holding a memory that says it belongs elsewhere.
MCPreload ==
  {<<Left(s1, c1, AtA1, [k \in MCMetaKeys |-> 1], None, bob)>>,
   <<Left(s1, c2, AtA1, NoMeta, s2, olga)>>}

MCSources ==
  {<<Left(s2, c1, AtA1, NoMeta, s2, olga), Left(s2, c2, Anywhere, Holding(k2), s2, olga)>>,
   <<Left(s1, c2, AtA1, NoMeta, s1, olga)>>}

=============================================================================
