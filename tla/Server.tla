------------------------------- MODULE Server -------------------------------
(***************************************************************************)
(* The memcp process from start to stop: the refusals of config.py and of  *)
(* the keys file (http/auth.py), the check of the granted spaces, the      *)
(* bearer gate with its context variable (identity.py), and the lifespan   *)
(* of http/app.py, which closes the backend when uvicorn stops serving.    *)
(*                                                                         *)
(* uvicorn and the MCP SDK are modelled from how app.py uses them: a       *)
(* connection's requests run one after the other and share one context (a  *)
(* server that starts each in a fresh one has fewer behaviours), the SDK   *)
(* answers a request from a session task of its own, started with a copy   *)
(* of that context, and a session task outlives the HTTP request of a      *)
(* client that goes away.  A tool call is its check of the current key and *)
(* one backend call; Policy models the rest.                               *)
(***************************************************************************)
EXTENDS Integers, Sequences, FiniteSets, SequencesExt

CONSTANTS
  Hosts, Addresses, LoopbackAddresses, \* MEMCP_HOST values; those that are IP addresses
  Reachable,                           \* those another machine can reach (properties only)
  Names, Spaces,                       \* what a keys file may hold
  Tokens,                              \* bearer tokens, standing for their digests
  Connections, MaxRequests,            \* HTTP connections; the bound on requests
  Configs,                             \* the environments the process is started in
  Wildcards,                           \* spaces that strip to the empty string or *
  Refused,                             \* spaces the backend's validate_partition refuses
  None                                 \* no key, no token

ServerAssumption ==
  /\ MaxRequests \in Nat
  /\ LoopbackAddresses \subseteq Addresses /\ Addresses \subseteq Hosts
  /\ None \notin Tokens
  /\ Reachable \cap (LoopbackAddresses \cup {"localhost"}) = {}
ASSUME ServerAssumption

Relations == {"reader", "writer"}
Key == [name: Names, grant: [space: Spaces, relation: Relations]]
LOCAL_KEY == [name |-> "local", grant |-> [space |-> "default_user", relation |-> "writer"]]

\* One [[keys]] table of a file that passed the pydantic checks.
KeyEntry == [name: Names, secrets: Seq(Tokens) \ {<<>>},
             grant: [space: Spaces, relation: Relations]]

Config == [host: Hosts,
           replaced: BOOLEAN,          \* MEMCP_AUTH_TOKENS or MEMCP_AUTH_SEATS is set
           backend: {"in_memory", "sqlite", "mem0"},
           mem0Ready: BOOLEAN,         \* MEM0_API_BASE and MEM0_API_KEY are set
           file: {"unset", "malformed", "parsed"},
           keys: Seq(KeyEntry)]        \* of a parsed file

ConfigsAssumption ==
  /\ Configs \subseteq Config /\ \A c \in Configs : c.file # "parsed" => c.keys = <<>>
  /\ None \notin Key \cup {LOCAL_KEY}
ASSUME ConfigsAssumption

Request == [conn: Connections, token: Tokens \cup {None},
            http: {"inside", "unauthorized", "ended"},
            call: {"none", "waiting", "running", "answered", "failed", "cancelled"},
            context: Key \cup {LOCAL_KEY, None},  \* the session task's current key
            ran: Key \cup {LOCAL_KEY, None}]      \* the key the call found

VARIABLES
  config,     \* the environment; read once
  phase,      \* how far the process is
  loaded,     \* load_keys: the number of entries taken over
  by_digest,  \* load_keys: KeyTable._by_digest
  context,    \* each connection's task: the current key of identity.py
  requests,   \* every request so far, with the tool call it made
  open        \* the backend has been created and not closed

vars == <<config, phase, loaded, by_digest, context, requests, open>>
starting == <<loaded, by_digest>>
serving == <<context, requests>>

Phases == {"configuring", "loading", "building", "serving", "draining", "closed",
           "stopped", "refused"}

-----------------------------------------------------------------------------
(* Starting *)

\* Mutant: an empty host is taken for the default of a local server.
is_loopback_EmptyIsLocal(host) ==
  IF host \in Addresses THEN host \in LoopbackAddresses ELSE host \in {"", "localhost"}

\* config.is_loopback: an empty host or a name other than localhost proves nothing.
is_loopback(host) ==
  IF host \in Addresses THEN host \in LoopbackAddresses ELSE host = "localhost"

\* The three model validators of Config.
Refuses(c) ==
  \/ c.backend = "mem0" /\ ~c.mem0Ready
  \/ c.replaced
  \/ c.file = "unset" /\ ~is_loopback(c.host)

Configure ==
  /\ phase = "configuring"
  /\ phase' = IF Refuses(config) \/ config.file = "malformed" THEN "refused"
              ELSE IF config.file = "unset" THEN "building" ELSE "loading"
  /\ UNCHANGED <<config, starting, serving, open>>

\* Mutant: names may repeat.
Clashes_SecretsOnly(e) ==
  \/ \E d \in ToSet(e.secrets) : d \in DOMAIN by_digest
  \/ ~IsInjective(e.secrets)

\* load_keys refuses entry e: its name is taken, or one of its secrets is, by an entry
\* before it or by the same one.
Clashes(e) ==
  \/ \E n \in 1..loaded : config.keys[n].name = e.name
  \/ \E d \in ToSet(e.secrets) : d \in DOMAIN by_digest
  \/ ~IsInjective(e.secrets)

\* Mutant: the table keeps the entry, its secrets included.
Listed_WithSecrets(e) ==
  [d \in DOMAIN by_digest \cup ToSet(e.secrets) |->
     IF d \in ToSet(e.secrets) THEN e ELSE by_digest[d]]

Listed(e) ==
  [d \in DOMAIN by_digest \cup ToSet(e.secrets) |->
     IF d \in ToSet(e.secrets) THEN [name |-> e.name, grant |-> e.grant] ELSE by_digest[d]]

\* One turn of the loop of load_keys.
LoadEntry ==
  /\ phase = "loading" /\ loaded < Len(config.keys)
  /\ LET e == config.keys[loaded + 1] IN
       IF Clashes(e)
         THEN phase' = "refused" /\ UNCHANGED starting
         ELSE /\ loaded' = loaded + 1 /\ by_digest' = Listed(e)
              /\ UNCHANGED phase
  /\ UNCHANGED <<config, serving, open>>

Loaded ==
  /\ phase = "loading" /\ loaded = Len(config.keys)
  /\ phase' = "building"
  /\ UNCHANGED <<config, starting, serving, open>>

\* check_granted_spaces over keys.keys(): is_wildcard, then the backend's own refusal.
Granted == IF config.file = "unset" THEN {LOCAL_KEY} ELSE {by_digest[d] : d \in DOMAIN by_digest}

\* Mutant: the backend is not asked.
Unusable_WildcardOnly(space) == space \in Wildcards

Unusable(space) == space \in Wildcards \/ space \in Refused

\* create_app after load_keys, and uvicorn entering the lifespan.
Build ==
  /\ phase = "building"
  /\ open' = TRUE
  /\ phase' = IF \E k \in Granted : Unusable(k.grant.space) THEN "refused" ELSE "serving"
  /\ UNCHANGED <<config, starting, serving>>

-----------------------------------------------------------------------------
(* Serving *)

\* BearerGate.__call__: the key a request with this token is served as, None for a 401.
Resolve(token) ==
  IF config.file = "unset" THEN LOCAL_KEY
  ELSE IF token \in DOMAIN by_digest THEN by_digest[token] ELSE None

SetKey(c, key) == context' = [context EXCEPT ![c] = key]
ResetKey(c) == context' = [context EXCEPT ![c] = None]

Idle(c) == \A i \in DOMAIN requests : requests[i].conn = c => requests[i].http # "inside"

\* A request arrives on a connection and passes the gate, or gets its 401.
Arrive(c, token) ==
  /\ phase = "serving" /\ Len(requests) < MaxRequests /\ Idle(c)
  /\ LET key == Resolve(token) IN
       /\ requests' = Append(requests,
            [conn |-> c, token |-> token, call |-> "none", context |-> None, ran |-> None,
             http |-> IF key = None THEN "unauthorized" ELSE "inside"])
       /\ IF key = None THEN UNCHANGED context ELSE SetKey(c, key)
  /\ UNCHANGED <<config, phase, starting, open>>

\* Mutant: sessions are kept, and run in the context of the connection's first request.
SessionContext_Stateful(i) ==
  LET sessions == {j \in 1..(i - 1) : /\ requests[j].conn = requests[i].conn
                                      /\ requests[j].context # None}
  IN IF sessions = {} THEN context[requests[i].conn]
     ELSE requests[CHOOSE j \in sessions : \A k \in sessions : j <= k].context

\* stateless_http: the SDK starts a session task for this request alone, in a copy of
\* the request's context.
SessionContext(i) == context[requests[i].conn]

Dispatch(i) ==
  /\ requests[i].http = "inside" /\ requests[i].call = "none"
  /\ requests' = [requests EXCEPT ![i].call = "waiting", ![i].context = SessionContext(i)]
  /\ UNCHANGED <<config, phase, starting, context, open>>

\* The tool calls require(): current_key() raises LookupError when no key is set.
Run(i) ==
  /\ requests[i].call = "waiting" /\ phase # "stopped"
  /\ requests' = [requests EXCEPT
       ![i].call = IF requests[i].context = None THEN "failed" ELSE "running",
       ![i].ran = requests[i].context]
  /\ UNCHANGED <<config, phase, starting, context, open>>

\* The backend call returns; a closed backend raises.
Return(i) ==
  /\ requests[i].call = "running" /\ phase # "stopped"
  /\ requests' = [requests EXCEPT ![i].call = IF open THEN "answered" ELSE "failed"]
  /\ UNCHANGED <<config, phase, starting, context, open>>

\* The request ends: its response is complete, or its client has gone away.  Either way
\* the gate's finally resets the key.
End(i) ==
  /\ requests[i].http = "inside"
  /\ requests' = [requests EXCEPT ![i].http = "ended"]
  /\ ResetKey(requests[i].conn)
  /\ UNCHANGED <<config, phase, starting, open>>

\* Mutant: the key is reset after the response, not in a finally.
Disconnect_KeepsKey(i) ==
  /\ requests[i].http = "inside" /\ requests[i].call \notin {"answered", "failed"}
  /\ requests' = [requests EXCEPT ![i].http = "ended"]
  /\ UNCHANGED <<config, phase, starting, context, open>>

Respond(i) == requests[i].call \in {"answered", "failed"} /\ End(i)
Disconnect(i) == requests[i].call \notin {"answered", "failed"} /\ End(i)

-----------------------------------------------------------------------------
(* Stopping *)

\* uvicorn stops accepting requests on a signal ...
Terminate ==
  /\ phase = "serving"
  /\ phase' = "draining"
  /\ UNCHANGED <<config, starting, serving, open>>

\* Mutant: the backend is closed on the signal.
Drained_AtOnce == TRUE

\* ... and leaves the lifespan when the requests it has accepted have ended.
Drained == \A i \in DOMAIN requests : requests[i].http # "inside"

\* Mutant: the lifespan ends without the close.
CloseBackend_Forgotten ==
  /\ phase = "draining" /\ Drained
  /\ phase' = "closed"
  /\ UNCHANGED <<config, starting, serving, open>>

\* The lifespan's finally: policy.close(), before session_manager.run() is left.
CloseBackend ==
  /\ phase = "draining" /\ Drained
  /\ phase' = "closed"
  /\ open' = FALSE
  /\ UNCHANGED <<config, starting, serving>>

\* Leaving session_manager.run() cancels the session tasks that still run.
Cancelled(q) == IF q.call \in {"waiting", "running"} THEN [q EXCEPT !.call = "cancelled"] ELSE q

StopSessions ==
  /\ phase = "closed"
  /\ phase' = "stopped"
  /\ requests' = [i \in DOMAIN requests |-> Cancelled(requests[i])]
  /\ UNCHANGED <<config, starting, context, open>>

-----------------------------------------------------------------------------
Init ==
  /\ config \in Configs
  /\ phase = "configuring"
  /\ loaded = 0 /\ by_digest = [d \in {} |-> None]
  /\ context = [c \in Connections |-> None]
  /\ requests = <<>>
  /\ open = FALSE

Handle(i) == Dispatch(i) \/ Run(i) \/ Return(i) \/ Respond(i)

Next ==
  \/ Configure \/ LoadEntry \/ Loaded \/ Build
  \/ \E c \in Connections, token \in Tokens \cup {None} : Arrive(c, token)
  \/ \E i \in DOMAIN requests : Handle(i) \/ Disconnect(i)
  \/ Terminate \/ CloseBackend \/ StopSessions

ServerSpec == Init /\ [][Next]_vars

\* A session task runs on, a backend call returns (a thread ends, an HTTP call times
\* out), and a signalled uvicorn goes through its shutdown.
FairServerSpec ==
  /\ ServerSpec
  /\ \A i \in 1..MaxRequests : WF_vars(i \in DOMAIN requests /\ Handle(i))
  /\ WF_vars(CloseBackend) /\ WF_vars(StopSessions)

-----------------------------------------------------------------------------
(* Properties *)

ServerTypeOK ==
  /\ config \in Configs /\ phase \in Phases /\ open \in BOOLEAN
  /\ loaded \in 0..Len(config.keys)
  /\ DOMAIN by_digest \subseteq Tokens /\ \A d \in DOMAIN by_digest : by_digest[d] \in Key
  /\ context \in [Connections -> Key \cup {LOCAL_KEY, None}]
  /\ requests \in Seq(Request)

Ran == {i \in DOMAIN requests : requests[i].ran # None}
Entries(token) == {n \in DOMAIN config.keys : token \in ToSet(config.keys[n].secrets)}

\* With a keys file, a tool call runs as the key of the one entry that lists the token its
\* own request carried, whatever other requests the connection carried and whether or not
\* its request has ended meanwhile; without one, as the local key.
ServedAsListed ==
  \A i \in Ran :
    IF config.file = "unset" THEN requests[i].ran = LOCAL_KEY
    ELSE \E n \in DOMAIN config.keys :
           /\ Entries(requests[i].token) = {n}
           /\ requests[i].ran = [name |-> config.keys[n].name, grant |-> config.keys[n].grant]

\* A process that other machines can reach runs no tool call whose token no entry lists:
\* the refusals at startup leave no way to an open gate (config.py:118).
ReachedByTokenOnly ==
  config.host \in Reachable => \A i \in Ran : Entries(requests[i].token) # {}

\* The author recorded on a memory tells keys apart: two calls that ran under one name
\* carried tokens of one entry.
AuthorNamesOneKey ==
  \A i, j \in Ran : requests[i].ran.name = requests[j].ran.name =>
                      Entries(requests[i].token) = Entries(requests[j].token)

\* No call runs on a space the store can't keep apart (check_granted_spaces).
SpacesKeptApart == \A i \in Ran : requests[i].ran.grant.space \notin Wildcards \cup Refused

\* Outside a gated request a connection's task has no current key: a health check, a 401 and
\* the shutdown that follow a served request are not logged or audited as its key.
KeyOnlyInside == \A c \in Connections : context[c] # None => ~Idle(c)

\* A client that still waits is answered from the open backend, with its key at hand:
\* stopping the server fails only calls whose client has gone away.
WaitingClientServed ==
  \A i \in DOMAIN requests :
    requests[i].http = "inside" => requests[i].call \notin {"failed", "cancelled"}

\* A signalled server stops, with the backend closed and no tool call left running.
StopsClosed ==
  phase = "draining" ~>
    /\ phase = "stopped" /\ ~open
    /\ \A i \in DOMAIN requests : requests[i].call \notin {"waiting", "running"}
=============================================================================
