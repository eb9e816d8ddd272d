------------------------------ MODULE MCServer ------------------------------
(* A small instance of Server for TLC. *)
EXTENDS Server

CONSTANTS t1, t2, c1, c2

MCHosts == {"127.0.0.1", "localhost", "0.0.0.0", "", "myhost"}
MCAddresses == {"127.0.0.1", "0.0.0.0"}
MCLoopback == {"127.0.0.1"}
MCReachable == {"0.0.0.0", "", "myhost"}
MCNames == {"laptop", "ci"}
MCSpaces == {"team", "*", "odd"}
MCWildcards == {"*"}
MCRefused == {"odd"}
MCTokens == {t1, t2}

\* A name may be listed twice, a token twice in one entry or in two.
\* A file of one entry may leave t2 unlisted.  Which name and which token come first makes no difference.
Grant(space, relation) == [space |-> space, relation |-> relation]
MCFirst == [name: {"laptop"}, secrets: {<<t1>>, <<t1, t2>>, <<t1, t1>>},
            grant: {Grant("team", "writer"), Grant("*", "writer"), Grant("odd", "reader")}]
MCSecond == [name: MCNames, secrets: {<<t1>>, <<t2>>, <<t2, t1>>},
             grant: {Grant("team", "reader"), Grant("odd", "writer")}]
MCFiles == {<<e>> : e \in MCFirst} \cup {<<e, f>> : e \in MCFirst, f \in MCSecond}

\* An environment without a keys file differs in what Config refuses.
MCEnvironment(backend, hosts, files) ==
  [host: hosts, replaced: BOOLEAN, backend: {backend}, mem0Ready: {FALSE},
   file: files, keys: {<<>>}]
MCConfigs ==
  [host: {"0.0.0.0"}, replaced: {FALSE}, backend: {"sqlite"}, mem0Ready: {FALSE},
   file: {"parsed"}, keys: MCFiles]
  \cup MCEnvironment("in_memory", MCHosts, {"unset", "malformed"})
  \cup MCEnvironment("mem0", {"127.0.0.1"}, {"unset"})
=============================================================================
