---------------------------- MODULE ServerProofs ----------------------------
(***************************************************************************)
(* The safety properties of Server, for any environments, keys files,      *)
(* spaces, connections and number of requests.                             *)
(***************************************************************************)
EXTENDS Server, TLAPS

KeyOf(n) == [name |-> config.keys[n].name, grant |-> config.keys[n].grant]
ListedBy(d, n) == d \in ToSet(config.keys[n].secrets)
Inside(i) == requests[i].http = "inside"
Up == {"serving", "draining", "closed", "stopped"}

\* The loop of load_keys has taken over its first entries: each token belongs to one entry,
\* each name too, and the table has the key of each token listed so far.
TableInv ==
  /\ \A n \in 1..loaded : \A d \in Tokens :
       ListedBy(d, n) => d \in DOMAIN by_digest /\ by_digest[d] = KeyOf(n)
  /\ \A d \in DOMAIN by_digest : \E n \in 1..loaded : ListedBy(d, n)
  /\ \A m, n \in 1..loaded : \A d \in Tokens : ListedBy(d, m) /\ ListedBy(d, n) => m = n
  /\ \A m, n \in 1..loaded : config.keys[m].name = config.keys[n].name => m = n

\* What startup has established by the time requests are served.
UpInv ==
  /\ requests # <<>> => phase \in Up
  /\ phase \in {"loading", "building"} \cup Up => ~Refuses(config)
  /\ phase \in {"building"} \cup Up /\ config.file # "unset" => loaded = Len(config.keys)
  /\ phase \in Up => \A k \in Granted : ~Unusable(k.grant.space)
  /\ phase \in {"serving", "draining"} => open
  /\ phase \in {"closed", "stopped"} => Drained

\* What a request's task, its session task and its tool call hold.
RequestInv ==
  \A i \in DOMAIN requests :
    /\ Inside(i) => /\ context[requests[i].conn] = Resolve(requests[i].token)
                    /\ Resolve(requests[i].token) # None
                    /\ \A j \in DOMAIN requests :
                         Inside(j) /\ requests[j].conn = requests[i].conn => i = j
                    /\ requests[i].call \notin {"failed", "cancelled"}
    /\ requests[i].call = "waiting" => requests[i].context # None
    /\ requests[i].context \in {None, Resolve(requests[i].token)}
    /\ requests[i].ran \in {None, Resolve(requests[i].token)}

ServerInv == ServerTypeOK /\ TableInv /\ UpInv /\ RequestInv /\ KeyOnlyInside

-----------------------------------------------------------------------------
\* The environment is one of Configs, and its entries list tokens.
LEMMA EntryType ==
  ASSUME ServerTypeOK, NEW n \in DOMAIN config.keys
  PROVE  /\ config.keys \in Seq(KeyEntry) /\ config.keys[n] \in KeyEntry
         /\ KeyOf(n) \in Key
         /\ ToSet(config.keys[n].secrets) \subseteq Tokens
<1>1. config.keys \in Seq(KeyEntry)
  BY ConfigsAssumption DEF ConfigsAssumption, ServerTypeOK, Config
<1>2. config.keys[n] \in KeyEntry
  BY <1>1
<1>3. config.keys[n].name \in Names /\ config.keys[n].grant \in [space: Spaces, relation: Relations]
      /\ config.keys[n].secrets \in Seq(Tokens)
  BY <1>2 DEF KeyEntry
<1> QED
  BY <1>1, <1>2, <1>3 DEF KeyOf, Key, ToSet

\* The key of a request is a key, or None.
LEMMA ResolveType ==
  ASSUME ServerTypeOK, NEW t
  PROVE  Resolve(t) \in Key \cup {LOCAL_KEY, None}
BY DEF ServerTypeOK, Resolve

LEMMA ServerInitially == Init => ServerInv
<1> SUFFICES ASSUME Init PROVE ServerInv
  OBVIOUS
<1>1. config.keys \in Seq(KeyEntry)
  BY ConfigsAssumption DEF ConfigsAssumption, Init, Config
<1>2. ServerTypeOK
  <2>1. Len(config.keys) \in Nat
    BY <1>1
  <2>2. loaded \in 0..Len(config.keys)
    BY <2>1 DEF Init
  <2>3. context \in [Connections -> Key \cup {LOCAL_KEY, None}]
    BY Zenon DEF Init
  <2>4. requests \in Seq(Request) /\ DOMAIN by_digest = {}
    BY DEF Init
  <2>5. config \in Configs /\ phase \in Phases /\ open \in BOOLEAN
    BY DEF Init, Phases
  <2> QED
    BY <2>2, <2>3, <2>4, <2>5, Zenon DEF ServerTypeOK
<1>3. TableInv
  BY DEF Init, TableInv
<1>4. UpInv
  BY DEF Init, UpInv, Up
<1>5. RequestInv /\ KeyOnlyInside
  BY DEF Init, RequestInv, KeyOnlyInside
<1> QED
  BY <1>2, <1>3, <1>4, <1>5 DEF ServerInv

-----------------------------------------------------------------------------
(* Starting *)

\* Before the server is up there is no request, and a startup step makes none.
LEMMA NothingServed ==
  ASSUME ServerInv, phase \notin Up, UNCHANGED <<config, serving>>
  PROVE  requests' = <<>> /\ RequestInv' /\ KeyOnlyInside'
<1>1. requests = <<>> /\ requests' = <<>> /\ context' = context
  BY DEF ServerInv, UpInv, serving
<1>2. KeyOnlyInside'
  BY <1>1 DEF ServerInv, KeyOnlyInside, Idle
<1>3. RequestInv'
  BY <1>1 DEF RequestInv
<1> QED
  BY <1>1, <1>2, <1>3

LEMMA ConfigureStep == ServerInv /\ Configure => ServerInv'
<1> SUFFICES ASSUME ServerInv, Configure PROVE ServerInv'
  OBVIOUS
<1>1. RequestInv' /\ KeyOnlyInside' /\ requests' = <<>>
  BY NothingServed DEF Configure, Up
<1>2. UNCHANGED <<config, loaded, by_digest, context, requests, open>>
  BY DEF Configure, starting, serving
<1>3. phase' \in {"refused", "building", "loading"}
  BY DEF Configure
<1>4. ServerTypeOK'
  BY <1>2, <1>3 DEF ServerInv, ServerTypeOK, Phases
<1>5. TableInv'
  BY <1>2 DEF ServerInv, TableInv, ListedBy, KeyOf
<1>6. phase' # "refused" => ~Refuses(config)
  BY DEF Configure
<1>7. phase' = "building" => config.file = "unset"
  BY DEF Configure
<1>8. UpInv'
  BY <1>1, <1>2, <1>3, <1>6, <1>7, Zenon DEF UpInv, Up, Refuses, Drained
<1> QED
  BY <1>1, <1>4, <1>5, <1>8 DEF ServerInv

LEMMA LoadedStep == ServerInv /\ Loaded => ServerInv'
<1> SUFFICES ASSUME ServerInv, Loaded PROVE ServerInv'
  OBVIOUS
<1>1. RequestInv' /\ KeyOnlyInside' /\ requests' = <<>>
  BY NothingServed DEF Loaded, Up
<1>2. UNCHANGED <<config, loaded, by_digest, context, requests, open>>
  BY DEF Loaded, starting, serving
<1>3. ServerTypeOK'
  BY <1>2 DEF Loaded, ServerInv, ServerTypeOK, Phases
<1>4. TableInv'
  BY <1>2 DEF ServerInv, TableInv, ListedBy, KeyOf
<1>5. ~Refuses(config)
  BY DEF Loaded, ServerInv, UpInv
<1>6. phase' = "building" /\ loaded = Len(config.keys)
  BY DEF Loaded
<1>7. UpInv'
  BY <1>1, <1>2, <1>5, <1>6, Zenon DEF UpInv, Up, Refuses
<1> QED
  BY <1>1, <1>3, <1>4, <1>7 DEF ServerInv

LEMMA BuildStep == ServerInv /\ Build => ServerInv'
<1> SUFFICES ASSUME ServerInv, Build PROVE ServerInv'
  OBVIOUS
<1>1. RequestInv' /\ KeyOnlyInside' /\ requests' = <<>>
  BY NothingServed DEF Build, Up
<1>2. UNCHANGED <<config, loaded, by_digest, context, requests>> /\ open'
  BY DEF Build, starting, serving
<1>3. phase' \in {"refused", "serving"}
  BY DEF Build
<1>4. ServerTypeOK'
  BY <1>2, <1>3 DEF Build, ServerInv, ServerTypeOK, Phases
<1>5. TableInv'
  BY <1>2 DEF ServerInv, TableInv, ListedBy, KeyOf
<1>6. ~Refuses(config) /\ (config.file # "unset" => loaded = Len(config.keys))
  BY DEF Build, ServerInv, UpInv
<1>7. phase' = "serving" => \A k \in Granted : ~Unusable(k.grant.space)
  BY DEF Build
<1>8. Granted' = Granted
  BY <1>2 DEF Granted
<1>9. UpInv'
  <2>1. phase' \in Up => \A k \in Granted' : ~Unusable(k.grant.space)
    BY <1>3, <1>7, <1>8 DEF Up
  <2>2. ~Refuses(config')
    BY <1>2, <1>6
  <2>3. config'.file # "unset" => loaded' = Len(config'.keys)
    BY <1>2, <1>6
  <2> QED
    BY <1>1, <1>2, <1>3, <2>1, <2>2, <2>3, Zenon DEF UpInv, Up, Refuses, Unusable
<1> QED
  BY <1>1, <1>4, <1>5, <1>9 DEF ServerInv

\* An entry that clashes with none before it extends the table by its own tokens.
LEMMA ListedExtends ==
  ASSUME ServerInv, phase = "loading", loaded < Len(config.keys),
         ~Clashes(config.keys[loaded + 1]),
         by_digest' = Listed(config.keys[loaded + 1]), loaded' = loaded + 1,
         UNCHANGED config
  PROVE  TableInv' /\ DOMAIN by_digest' \subseteq Tokens
         /\ \A d \in DOMAIN by_digest' : by_digest'[d] \in Key
<1> DEFINE n == loaded + 1
           e == config.keys[n]
<1>1. config.keys \in Seq(KeyEntry) /\ loaded \in 0..Len(config.keys) /\ n \in DOMAIN config.keys
  BY ConfigsAssumption DEF ServerInv, ConfigsAssumption, ServerTypeOK, Config
<1>2. ToSet(e.secrets) \subseteq Tokens /\ KeyOf(n) \in Key
  BY <1>1, EntryType DEF ServerInv
<1>3. /\ DOMAIN by_digest' = DOMAIN by_digest \cup ToSet(e.secrets)
      /\ \A d \in ToSet(e.secrets) : by_digest'[d] = KeyOf(n)
      /\ \A d \in DOMAIN by_digest \ ToSet(e.secrets) : by_digest'[d] = by_digest[d]
  BY DEF Listed, KeyOf
<1>4. \A m \in 1..loaded : config.keys[m].name # e.name
  BY DEF Clashes
<1>5. \A d \in ToSet(e.secrets) : d \notin DOMAIN by_digest
  BY DEF Clashes
<1>6. 1..n = 1..loaded \cup {n} /\ n \notin 1..loaded
  BY <1>1
<1>7. \A m \in 1..loaded : \A d \in Tokens : ListedBy(d, m) => d \notin ToSet(e.secrets)
  BY <1>5 DEF ServerInv, TableInv
<1>8. DOMAIN by_digest' \subseteq Tokens /\ \A d \in DOMAIN by_digest' : by_digest'[d] \in Key
  BY <1>2, <1>3 DEF ServerInv, ServerTypeOK
<1>9. TableInv'
  <2>1. \A m \in 1..n : \A d \in Tokens :
          ListedBy(d, m) => d \in DOMAIN by_digest' /\ by_digest'[d] = KeyOf(m)
    BY <1>3, <1>5, <1>6, <1>7 DEF ServerInv, TableInv, ListedBy
  <2>2. \A d \in DOMAIN by_digest' : \E m \in 1..n : ListedBy(d, m)
    BY <1>3, <1>6 DEF ServerInv, TableInv, ListedBy
  <2>3. \A k, m \in 1..n : \A d \in Tokens : ListedBy(d, k) /\ ListedBy(d, m) => k = m
    BY <1>6, <1>7 DEF ServerInv, TableInv, ListedBy
  <2>4. \A k, m \in 1..n : config.keys[k].name = config.keys[m].name => k = m
    BY <1>4, <1>6 DEF ServerInv, TableInv
  <2> QED
    BY <2>1, <2>2, <2>3, <2>4 DEF TableInv, ListedBy, KeyOf
<1> QED
  BY <1>8, <1>9

LEMMA LoadEntryStep == ServerInv /\ LoadEntry => ServerInv'
<1> SUFFICES ASSUME ServerInv, LoadEntry PROVE ServerInv'
  OBVIOUS
<1> DEFINE e == config.keys[loaded + 1]
<1>1. RequestInv' /\ KeyOnlyInside' /\ requests' = <<>>
  BY NothingServed DEF LoadEntry, Up
<1>2. UNCHANGED <<config, context, requests, open>>
  BY DEF LoadEntry, serving
<1>3. config.keys \in Seq(KeyEntry) /\ loaded \in 0..Len(config.keys)
  BY ConfigsAssumption DEF ServerInv, ConfigsAssumption, ServerTypeOK, Config
<1>4. CASE Clashes(e)
  <2>1. phase' = "refused" /\ UNCHANGED <<loaded, by_digest>>
    BY <1>4 DEF LoadEntry, starting
  <2>2. ServerTypeOK'
    BY <1>2, <2>1 DEF ServerInv, ServerTypeOK, Phases
  <2>3. TableInv'
    BY <1>2, <2>1 DEF ServerInv, TableInv, ListedBy, KeyOf
  <2>4. UpInv'
    BY <1>1, <2>1, Zenon DEF UpInv, Up
  <2> QED
    BY <1>1, <2>2, <2>3, <2>4 DEF ServerInv
<1>5. CASE ~Clashes(e)
  <2>1. /\ loaded < Len(config.keys) /\ phase = "loading" /\ phase' = "loading"
        /\ loaded' = loaded + 1 /\ by_digest' = Listed(e)
    BY <1>5 DEF LoadEntry
  <2>2. TableInv' /\ DOMAIN by_digest' \subseteq Tokens
        /\ \A d \in DOMAIN by_digest' : by_digest'[d] \in Key
    BY <1>2, <1>5, <2>1, ListedExtends
  <2>3. loaded' \in 0..Len(config'.keys)
    BY <1>2, <1>3, <2>1
  <2>4. ServerTypeOK'
    BY <1>2, <2>1, <2>2, <2>3 DEF ServerInv, ServerTypeOK
  <2>5. UpInv'
    BY <1>1, <1>2, <2>1, Zenon DEF ServerInv, UpInv, Up, Refuses
  <2> QED
    BY <1>1, <2>2, <2>4, <2>5 DEF ServerInv
<1> QED
  BY <1>4, <1>5

-----------------------------------------------------------------------------
(* Serving *)

\* Serving leaves the table alone, and is possible only when the server is up.
LEMMA Frame ==
  ASSUME ServerInv, UNCHANGED <<config, starting>>
  PROVE  TableInv' /\ (\A t : Resolve(t)' = Resolve(t)) /\ Granted' = Granted
BY DEF ServerInv, TableInv, ListedBy, KeyOf, Resolve, Granted, starting

LEMMA RequestUp ==
  ASSUME ServerInv, NEW i \in DOMAIN requests
  PROVE  phase \in Up /\ requests[i] \in Request /\ i \in 1..Len(requests)
BY DEF ServerInv, ServerTypeOK, UpInv

LEMMA ArriveStep ==
  ASSUME ServerInv, NEW c \in Connections, NEW token \in Tokens \cup {None}, Arrive(c, token)
  PROVE  ServerInv'
<1> DEFINE key == Resolve(token)
           http == IF key = None THEN "unauthorized" ELSE "inside"
           q == [conn |-> c, token |-> token, call |-> "none", context |-> None, ran |-> None,
                 http |-> http]
           n == Len(requests) + 1
<1>1. /\ phase = "serving" /\ Idle(c) /\ requests' = Append(requests, q)
      /\ UNCHANGED <<config, phase, loaded, by_digest, open>>
  BY DEF Arrive, starting
<1>2. context' = [context EXCEPT ![c] = IF key = None THEN context[c] ELSE key]
  <2>1. context \in [Connections -> Key \cup {LOCAL_KEY, None}]
    BY DEF ServerInv, ServerTypeOK
  <2> QED
    BY <2>1 DEF Arrive, SetKey
<1>3. key \in Key \cup {LOCAL_KEY, None}
  BY ResolveType DEF ServerInv
<1>4. requests \in Seq(Request)
  BY DEF ServerInv, ServerTypeOK
<1>5. q \in Request
  BY DEF Request
<1>6. /\ requests' \in Seq(Request)
      /\ DOMAIN requests' = DOMAIN requests \cup {n} /\ n \notin DOMAIN requests
      /\ requests'[n] = q
      /\ \A i \in DOMAIN requests : requests'[i] = requests[i]
  <2> HIDE DEF q
  <2> QED
    BY <1>1, <1>4, <1>5
<1>7. ServerTypeOK'
  BY <1>1, <1>2, <1>3, <1>6 DEF ServerInv, ServerTypeOK
<1>8. TableInv' /\ (\A t : Resolve(t)' = Resolve(t)) /\ Granted' = Granted
  BY <1>1, Frame DEF starting
<1>9. UpInv'
  BY <1>1, <1>8, Zenon DEF ServerInv, UpInv, Up, Refuses, Unusable
<1>10. \A i \in DOMAIN requests : Inside(i) => requests[i].conn # c
  BY <1>1 DEF Idle, Inside
<1>11. \A i \in DOMAIN requests : requests[i].conn # c => context'[requests[i].conn] = context[requests[i].conn]
  BY <1>2, <1>4 DEF ServerInv, ServerTypeOK, Request
<1>12. q.http = "inside" => context'[c] = key /\ key # None
  BY <1>2 DEF ServerInv, ServerTypeOK
<1>13. RequestInv'
  <2> SUFFICES ASSUME NEW i \in DOMAIN requests' PROVE RequestInv!(i)'
    BY DEF RequestInv
  <2>1. CASE i = n
    BY <2>1, <1>6, <1>8, <1>10, <1>12 DEF Inside
  <2>2. CASE i # n
    BY <2>2, <1>6, <1>8, <1>10, <1>11 DEF Inside, ServerInv, RequestInv
  <2> QED
    BY <2>1, <2>2
<1>14. KeyOnlyInside'
  <2> SUFFICES ASSUME NEW d \in Connections, context'[d] # None PROVE ~Idle(d)'
    BY DEF KeyOnlyInside
  <2>1. CASE d = c /\ key # None
    BY <2>1, <1>6 DEF Idle
  <2>2. CASE d # c \/ key = None
    <3>1. context[d] # None
      BY <2>2, <1>2 DEF ServerInv, ServerTypeOK
    <3> QED
      BY <3>1, <1>6 DEF ServerInv, KeyOnlyInside, Idle
  <2> QED
    BY <2>1, <2>2
<1> QED
  BY <1>7, <1>8, <1>9, <1>13, <1>14 DEF ServerInv

\* A step of one session task: the request stays on its connection, inside or not, and its
\* context and the key it ran with come from the gate.
SessionStep(i, q) ==
  /\ q \in Request
  /\ q.conn = requests[i].conn /\ q.token = requests[i].token /\ q.http = requests[i].http
  /\ q.http = "inside" => q.call \notin {"failed", "cancelled"}
  /\ q.call = "waiting" => q.context # None
  /\ q.context \in {None, Resolve(q.token)} /\ q.ran \in {None, Resolve(q.token)}

LEMMA SessionStepKeeps ==
  ASSUME ServerInv, NEW i \in DOMAIN requests, NEW q, SessionStep(i, q),
         requests' = [requests EXCEPT ![i] = q],
         UNCHANGED <<config, phase, starting, context, open>>
  PROVE  ServerInv'
<1>1. requests \in Seq(Request) /\ q \in Request
  BY DEF ServerInv, ServerTypeOK, SessionStep
<1>2. /\ requests' \in Seq(Request) /\ DOMAIN requests' = DOMAIN requests
      /\ requests'[i] = q /\ \A j \in DOMAIN requests : j # i => requests'[j] = requests[j]
  BY <1>1
<1>3. \A j \in DOMAIN requests : /\ requests'[j].conn = requests[j].conn
                                 /\ requests'[j].token = requests[j].token
                                 /\ requests'[j].http = requests[j].http
  BY <1>2 DEF SessionStep
<1>4. ServerTypeOK'
  BY <1>2 DEF ServerInv, ServerTypeOK, starting
<1>5. TableInv' /\ (\A t : Resolve(t)' = Resolve(t)) /\ Granted' = Granted
  BY Frame
<1>6. Drained' <=> Drained
  BY <1>2, <1>3 DEF Drained
<1>7. requests # <<>>
  BY <1>1
<1>8. UpInv'
  BY <1>5, <1>6, <1>7, Zenon DEF ServerInv, UpInv, Up, Refuses, Unusable, starting
<1>9. RequestInv'
  <2> SUFFICES ASSUME NEW j \in DOMAIN requests' PROVE RequestInv!(j)'
    BY DEF RequestInv
  <2>1. CASE j = i
    BY <2>1, <1>2, <1>3, <1>5 DEF Inside, ServerInv, RequestInv, SessionStep
  <2>2. CASE j # i
    BY <2>2, <1>2, <1>3, <1>5 DEF Inside, ServerInv, RequestInv
  <2> QED
    BY <2>1, <2>2
<1>10. KeyOnlyInside'
  BY <1>2, <1>3 DEF ServerInv, KeyOnlyInside, Idle
<1> QED
  BY <1>4, <1>5, <1>8, <1>9, <1>10 DEF ServerInv

LEMMA DispatchStep == ASSUME ServerInv, NEW i \in DOMAIN requests, Dispatch(i) PROVE ServerInv'
<1> DEFINE q == [requests[i] EXCEPT !.call = "waiting", !.context = context[requests[i].conn]]
<1>1. requests[i] \in Request /\ requests \in Seq(Request)
  BY RequestUp DEF ServerInv, ServerTypeOK
<1>2. requests' = [requests EXCEPT ![i] = q] /\ UNCHANGED <<config, phase, starting, context, open>>
  BY <1>1 DEF Dispatch, SessionContext
<1>3. Inside(i) /\ context[requests[i].conn] = Resolve(requests[i].token)
      /\ Resolve(requests[i].token) # None
  BY DEF Dispatch, Inside, ServerInv, RequestInv
<1>4. context[requests[i].conn] \in Key \cup {LOCAL_KEY, None}
  BY <1>1 DEF ServerInv, ServerTypeOK, Request
<1>5. q \in Request
  BY <1>1, <1>4 DEF Request
<1>6. /\ q.conn = requests[i].conn /\ q.token = requests[i].token /\ q.http = requests[i].http
      /\ q.call = "waiting" /\ q.context = context[requests[i].conn] /\ q.ran = requests[i].ran
  BY <1>1 DEF Request
<1>7. SessionStep(i, q)
  BY <1>3, <1>5, <1>6 DEF SessionStep, ServerInv, RequestInv
<1> QED
  BY <1>2, <1>7, SessionStepKeeps

LEMMA RunStep == ASSUME ServerInv, NEW i \in DOMAIN requests, Run(i) PROVE ServerInv'
<1> DEFINE call == IF requests[i].context = None THEN "failed" ELSE "running"
           q == [requests[i] EXCEPT !.call = call, !.ran = requests[i].context]
<1>1. requests[i] \in Request /\ requests \in Seq(Request)
  BY RequestUp DEF ServerInv, ServerTypeOK
<1>2. requests' = [requests EXCEPT ![i] = q] /\ UNCHANGED <<config, phase, starting, context, open>>
  BY <1>1 DEF Run
<1>3. requests[i].context # None /\ requests[i].context = Resolve(requests[i].token)
  BY DEF Run, ServerInv, RequestInv
<1>4. call = "running"
  BY <1>3
<1>5. q \in Request
  BY <1>1, <1>4 DEF Request
<1>6. /\ q.conn = requests[i].conn /\ q.token = requests[i].token /\ q.http = requests[i].http
      /\ q.call = "running" /\ q.context = requests[i].context /\ q.ran = requests[i].context
  BY <1>1, <1>4 DEF Request
<1>7. SessionStep(i, q)
  BY <1>3, <1>5, <1>6 DEF SessionStep
<1> QED
  BY <1>2, <1>7, SessionStepKeeps

LEMMA ReturnStep == ASSUME ServerInv, NEW i \in DOMAIN requests, Return(i) PROVE ServerInv'
<1> DEFINE call == IF open THEN "answered" ELSE "failed"
           q == [requests[i] EXCEPT !.call = call]
<1>1. requests[i] \in Request /\ requests \in Seq(Request)
  BY RequestUp DEF ServerInv, ServerTypeOK
<1>2. requests' = [requests EXCEPT ![i] = q] /\ UNCHANGED <<config, phase, starting, context, open>>
  BY <1>1 DEF Return
<1>3. Inside(i) => open
  BY RequestUp DEF ServerInv, UpInv, Up, Drained, Inside
<1>4. call \in {"answered", "failed"} /\ (Inside(i) => call = "answered")
  BY <1>3
<1>5. q \in Request
  BY <1>1, <1>4 DEF Request
<1>6. /\ q.conn = requests[i].conn /\ q.token = requests[i].token /\ q.http = requests[i].http
      /\ q.call = call /\ q.context = requests[i].context /\ q.ran = requests[i].ran
  BY <1>1, <1>4 DEF Request
<1>7. SessionStep(i, q)
  BY <1>4, <1>5, <1>6 DEF SessionStep, ServerInv, RequestInv, Inside
<1> QED
  BY <1>2, <1>7, SessionStepKeeps

LEMMA EndStep == ASSUME ServerInv, NEW i \in DOMAIN requests, End(i) PROVE ServerInv'
<1> DEFINE c == requests[i].conn
           q == [requests[i] EXCEPT !.http = "ended"]
<1>1. requests[i] \in Request /\ requests \in Seq(Request) /\ c \in Connections
  BY RequestUp DEF ServerInv, ServerTypeOK, Request
<1>2. /\ requests' = [requests EXCEPT ![i] = q] /\ context' = [context EXCEPT ![c] = None]
      /\ UNCHANGED <<config, phase, starting, open>>
  BY <1>1 DEF End, ResetKey
<1>3. q \in Request
  BY <1>1 DEF Request
<1>4. /\ q.conn = c /\ q.token = requests[i].token /\ q.http = "ended" /\ q.call = requests[i].call
      /\ q.context = requests[i].context /\ q.ran = requests[i].ran
  BY <1>1 DEF Request
<1>5. /\ requests' \in Seq(Request) /\ DOMAIN requests' = DOMAIN requests
      /\ requests'[i] = q /\ \A j \in DOMAIN requests : j # i => requests'[j] = requests[j]
  <2> HIDE DEF q
  <2> QED
    BY <1>1, <1>2, <1>3
<1>6. /\ context' \in [Connections -> Key \cup {LOCAL_KEY, None}]
      /\ context'[c] = None /\ \A d \in Connections : d # c => context'[d] = context[d]
  BY <1>1, <1>2 DEF ServerInv, ServerTypeOK
<1>7. ServerTypeOK'
  BY <1>2, <1>5, <1>6 DEF ServerInv, ServerTypeOK, starting
<1>8. TableInv' /\ (\A t : Resolve(t)' = Resolve(t)) /\ Granted' = Granted
  BY <1>2, Frame
<1>9. Drained => Drained'
  BY <1>4, <1>5 DEF Drained
<1>10. requests # <<>>
  BY <1>1
<1>11. UpInv'
  BY <1>2, <1>8, <1>9, <1>10, Zenon DEF ServerInv, UpInv, Up, Refuses, Unusable, starting
<1>12. RequestInv'
  <2> SUFFICES ASSUME NEW j \in DOMAIN requests' PROVE RequestInv!(j)'
    BY DEF RequestInv
  <2>1. CASE j = i
    BY <2>1, <1>4, <1>5, <1>8 DEF Inside, ServerInv, RequestInv
  <2>2. CASE j # i
    <3>1. requests[j].conn \in Connections /\ requests'[j] = requests[j]
      BY <2>2, <1>5, RequestUp DEF Request
    <3>2. Inside(j) => requests[j].conn # c
      BY <2>2, <1>5 DEF End, Inside, ServerInv, RequestInv
    <3>3. Inside(j) => context'[requests[j].conn] = context[requests[j].conn]
      BY <3>1, <3>2, <1>6
    <3>4. \A k \in DOMAIN requests : Inside(k)' => Inside(k) /\ requests'[k].conn = requests[k].conn
      BY <1>4, <1>5 DEF Inside
    <3> QED
      BY <3>1, <3>3, <3>4, <1>5, <1>8 DEF Inside, ServerInv, RequestInv
  <2> QED
    BY <2>1, <2>2
<1>13. KeyOnlyInside'
  <2> SUFFICES ASSUME NEW d \in Connections, context'[d] # None PROVE ~Idle(d)'
    BY DEF KeyOnlyInside
  <2>1. d # c /\ context[d] # None
    BY <1>6
  <2>2. PICK j \in DOMAIN requests : requests[j].conn = d /\ requests[j].http = "inside"
    BY <2>1 DEF ServerInv, KeyOnlyInside, Idle
  <2> QED
    BY <2>1, <2>2, <1>5 DEF Idle
<1> QED
  BY <1>7, <1>8, <1>11, <1>12, <1>13 DEF ServerInv

-----------------------------------------------------------------------------
(* Stopping *)

LEMMA TerminateStep == ServerInv /\ Terminate => ServerInv'
<1> SUFFICES ASSUME ServerInv, Terminate PROVE ServerInv'
  OBVIOUS
<1>1. phase = "serving" /\ phase' = "draining" /\ UNCHANGED <<config, starting, serving, open>>
  BY DEF Terminate
<1>2. TableInv' /\ (\A t : Resolve(t)' = Resolve(t)) /\ Granted' = Granted
  BY <1>1, Frame
<1>3. ServerTypeOK'
  BY <1>1 DEF ServerInv, ServerTypeOK, Phases, starting, serving
<1>4. UpInv'
  BY <1>1, <1>2, Zenon DEF ServerInv, UpInv, Up, Refuses, Unusable, starting, serving
<1>5. RequestInv' /\ KeyOnlyInside'
  BY <1>1, <1>2 DEF ServerInv, RequestInv, KeyOnlyInside, Idle, Inside, serving
<1> QED
  BY <1>2, <1>3, <1>4, <1>5 DEF ServerInv

LEMMA CloseBackendStep == ServerInv /\ CloseBackend => ServerInv'
<1> SUFFICES ASSUME ServerInv, CloseBackend PROVE ServerInv'
  OBVIOUS
<1>1. /\ phase = "draining" /\ phase' = "closed" /\ open' = FALSE /\ Drained
      /\ UNCHANGED <<config, starting, serving>>
  BY DEF CloseBackend
<1>2. TableInv' /\ (\A t : Resolve(t)' = Resolve(t)) /\ Granted' = Granted
  BY <1>1, Frame
<1>3. ServerTypeOK'
  BY <1>1 DEF ServerInv, ServerTypeOK, Phases, starting, serving
<1>4. Drained'
  BY <1>1 DEF Drained, serving
<1>5. UpInv'
  BY <1>1, <1>2, <1>4, Zenon DEF ServerInv, UpInv, Up, Refuses, Unusable, starting, serving
<1>6. RequestInv' /\ KeyOnlyInside'
  BY <1>1, <1>2 DEF ServerInv, RequestInv, KeyOnlyInside, Idle, Inside, serving
<1> QED
  BY <1>2, <1>3, <1>5, <1>6 DEF ServerInv

LEMMA StopSessionsStep == ServerInv /\ StopSessions => ServerInv'
<1> SUFFICES ASSUME ServerInv, StopSessions PROVE ServerInv'
  OBVIOUS
<1>1. /\ phase = "closed" /\ phase' = "stopped"
      /\ requests' = [i \in DOMAIN requests |-> Cancelled(requests[i])]
      /\ UNCHANGED <<config, starting, context, open>>
  BY DEF StopSessions
<1>2. TableInv' /\ (\A t : Resolve(t)' = Resolve(t)) /\ Granted' = Granted
  BY <1>1, Frame
<1>3. requests \in Seq(Request) /\ Drained
  BY <1>1 DEF ServerInv, ServerTypeOK, UpInv
<1>4. ASSUME NEW i \in DOMAIN requests
      PROVE  /\ Cancelled(requests[i]) \in Request
             /\ Cancelled(requests[i]).conn = requests[i].conn
             /\ Cancelled(requests[i]).token = requests[i].token
             /\ Cancelled(requests[i]).http = requests[i].http
             /\ Cancelled(requests[i]).context = requests[i].context
             /\ Cancelled(requests[i]).ran = requests[i].ran
             /\ Cancelled(requests[i]).call # "waiting"
  <2>1. requests[i] \in Request
    BY RequestUp
  <2> QED
    BY <2>1 DEF Cancelled, Request
<1>5. requests' \in Seq(Request) /\ DOMAIN requests' = DOMAIN requests
      /\ \A i \in DOMAIN requests : requests'[i] = Cancelled(requests[i])
  BY <1>1, <1>3, <1>4
<1>6. ServerTypeOK'
  BY <1>1, <1>5 DEF ServerInv, ServerTypeOK, Phases, starting
<1>7. Drained' /\ \A i \in DOMAIN requests : ~Inside(i)'
  BY <1>3, <1>4, <1>5 DEF Drained, Inside
<1>8. (requests' = <<>>) <=> (requests = <<>>)
  BY <1>3, <1>5
<1>9. UpInv'
  BY <1>1, <1>2, <1>7, Zenon DEF ServerInv, UpInv, Up, Refuses, Unusable, starting
<1>10. RequestInv'
  BY <1>2, <1>4, <1>5, <1>7 DEF ServerInv, RequestInv
<1>11. KeyOnlyInside'
  BY <1>1, <1>4, <1>5 DEF ServerInv, KeyOnlyInside, Idle
<1> QED
  BY <1>2, <1>6, <1>9, <1>10, <1>11 DEF ServerInv

-----------------------------------------------------------------------------
(* Theorems *)

LEMMA ServerInvStep == ServerInv /\ [Next]_vars => ServerInv'
<1> SUFFICES ASSUME ServerInv, [Next]_vars PROVE ServerInv'
  OBVIOUS
<1>1. CASE Configure \/ LoadEntry \/ Loaded \/ Build
  BY <1>1, ConfigureStep, LoadEntryStep, LoadedStep, BuildStep
<1>2. ASSUME NEW c \in Connections, NEW token \in Tokens \cup {None}, Arrive(c, token)
      PROVE  ServerInv'
  BY <1>2, ArriveStep
<1>3. ASSUME NEW i \in DOMAIN requests, Handle(i) \/ Disconnect(i)
      PROVE  ServerInv'
  BY <1>3, DispatchStep, RunStep, ReturnStep, EndStep DEF Handle, Respond, Disconnect
<1>4. CASE Terminate \/ CloseBackend \/ StopSessions
  BY <1>4, TerminateStep, CloseBackendStep, StopSessionsStep
<1>5. CASE UNCHANGED vars
  BY <1>5 DEF vars, ServerInv, ServerTypeOK, TableInv, UpInv, RequestInv, KeyOnlyInside,
              ListedBy, KeyOf, Inside, Resolve, Granted, Drained, Idle
<1> QED
  BY <1>1, <1>2, <1>3, <1>4, <1>5 DEF Next

\* The inductive invariant: startup's table, the state of the process, the gate's context
\* variable and the session tasks agree (load_keys, BearerGate, the lifespan of app.py).
THEOREM ServerInvCorrect == ServerSpec => []ServerInv
<1>1. Init => ServerInv
  BY ServerInitially
<1>2. ServerInv /\ [Next]_vars => ServerInv'
  BY ServerInvStep
<1> QED
  BY <1>1, <1>2, PTL DEF ServerSpec

\* Every configuration, key table, context and request stays well formed, and no key in the
\* table carries a secret.
THEOREM ServerTypeCorrect == ServerSpec => []ServerTypeOK
<1>1. ServerInv => ServerTypeOK
  BY DEF ServerInv
<1> QED
  BY <1>1, ServerInvCorrect, PTL

\* A tool call has run only for a token some entry lists, or in a process without a file.
LEMMA RanListed ==
  ASSUME ServerInv, NEW i \in Ran
  PROVE  /\ phase \in Up /\ requests[i].ran = Resolve(requests[i].token)
         /\ config.file # "unset" =>
              \E n \in DOMAIN config.keys :
                /\ ListedBy(requests[i].token, n) /\ requests[i].ran = KeyOf(n)
                /\ \A m \in DOMAIN config.keys : ListedBy(requests[i].token, m) => m = n
<1>1. i \in DOMAIN requests /\ requests[i].ran = Resolve(requests[i].token)
      /\ requests[i].ran # None
  BY DEF Ran, ServerInv, RequestInv
<1>2. phase \in Up
  BY <1>1, RequestUp
<1>3. ASSUME config.file # "unset"
      PROVE  \E n \in DOMAIN config.keys :
                /\ ListedBy(requests[i].token, n) /\ requests[i].ran = KeyOf(n)
                /\ \A m \in DOMAIN config.keys : ListedBy(requests[i].token, m) => m = n
  <2>1. requests[i].token \in DOMAIN by_digest /\ requests[i].ran = by_digest[requests[i].token]
    BY <1>1, <1>3 DEF Resolve
  <2>2. config.keys \in Seq(KeyEntry)
    BY ConfigsAssumption DEF ServerInv, ConfigsAssumption, ServerTypeOK, Config
  <2>3. 1..loaded = DOMAIN config.keys
    BY <1>2, <1>3, <2>2 DEF ServerInv, UpInv
  <2>4. requests[i].token \in Tokens
    BY <2>1 DEF ServerInv, ServerTypeOK
  <2>5. PICK n \in 1..loaded : ListedBy(requests[i].token, n)
    BY <2>1 DEF ServerInv, TableInv
  <2>6. requests[i].ran = KeyOf(n)
    BY <2>1, <2>4, <2>5, Zenon DEF ServerInv, TableInv
  <2>7. \A m \in 1..loaded : ListedBy(requests[i].token, m) => m = n
    BY <2>4, <2>5, Zenon DEF ServerInv, TableInv
  <2> QED
    BY <2>3, <2>5, <2>6, <2>7, Zenon
<1> QED
  BY <1>1, <1>2, <1>3

\* A tool call runs as the key of the one entry that lists its own request's token.
THEOREM ServedAsListedCorrect == ServerSpec => []ServedAsListed
<1>1. ServerInv => ServedAsListed
  <2> SUFFICES ASSUME ServerInv, NEW i \in Ran
               PROVE  ServedAsListed!(i)
    BY DEF ServedAsListed
  <2>1. CASE config.file = "unset"
    <3>1. requests[i].ran = Resolve(requests[i].token)
      BY RanListed
    <3>2. requests[i].ran = LOCAL_KEY
      BY <2>1, <3>1 DEF Resolve
    <3> QED
      BY <2>1, <3>2
  <2>2. CASE config.file # "unset"
    <3>1. PICK n \in DOMAIN config.keys :
            /\ ListedBy(requests[i].token, n) /\ requests[i].ran = KeyOf(n)
            /\ \A m \in DOMAIN config.keys : ListedBy(requests[i].token, m) => m = n
      BY <2>2, RanListed
    <3>2. Entries(requests[i].token) = {n}
      BY <3>1 DEF Entries, ListedBy
    <3> QED
      BY <2>2, <3>1, <3>2 DEF KeyOf
  <2> QED
    BY <2>1, <2>2
<1> QED
  BY <1>1, ServerInvCorrect, PTL

\* A process other machines can reach runs no tool call whose token no entry lists.
THEOREM ReachedByTokenOnlyCorrect == ServerSpec => []ReachedByTokenOnly
<1>1. ServerInv => ReachedByTokenOnly
  <2> SUFFICES ASSUME ServerInv, config.host \in Reachable, NEW i \in Ran
               PROVE  Entries(requests[i].token) # {}
    BY DEF ReachedByTokenOnly
  <2>1. ~Refuses(config)
    BY RanListed DEF ServerInv, UpInv
  <2>2. ~is_loopback(config.host)
    BY ServerAssumption DEF ServerAssumption, is_loopback
  <2>3. config.file # "unset"
    BY <2>1, <2>2 DEF Refuses
  <2> QED
    BY <2>3, RanListed DEF Entries, ListedBy
<1> QED
  BY <1>1, ServerInvCorrect, PTL

\* Two calls that ran under one name, which memories record as their author, carried tokens
\* of one entry.
THEOREM AuthorNamesOneKeyCorrect == ServerSpec => []AuthorNamesOneKey
<1>1. ServerInv => AuthorNamesOneKey
  <2> SUFFICES ASSUME ServerInv, NEW i \in Ran, NEW j \in Ran,
                      requests[i].ran.name = requests[j].ran.name
               PROVE  Entries(requests[i].token) = Entries(requests[j].token)
    BY DEF AuthorNamesOneKey
  <2>1. CASE config.file = "unset"
    <3>1. config.keys = <<>>
      BY <2>1, ConfigsAssumption DEF ConfigsAssumption, ServerInv, ServerTypeOK
    <3> QED
      BY <3>1 DEF Entries
  <2>2. CASE config.file # "unset"
    <3>1. PICK m \in DOMAIN config.keys :
            /\ ListedBy(requests[i].token, m) /\ requests[i].ran = KeyOf(m)
            /\ \A k \in DOMAIN config.keys : ListedBy(requests[i].token, k) => k = m
      BY <2>2, RanListed
    <3>2. PICK n \in DOMAIN config.keys :
            /\ ListedBy(requests[j].token, n) /\ requests[j].ran = KeyOf(n)
            /\ \A k \in DOMAIN config.keys : ListedBy(requests[j].token, k) => k = n
      BY <2>2, RanListed
    <3>3. config.keys \in Seq(KeyEntry) /\ loaded = Len(config.keys)
      BY <2>2, RanListed, ConfigsAssumption
         DEF ServerInv, UpInv, ConfigsAssumption, ServerTypeOK, Config
    <3>4. m = n
      BY <3>1, <3>2, <3>3 DEF ServerInv, TableInv, KeyOf
    <3> QED
      BY <3>1, <3>2, <3>4 DEF Entries, ListedBy
  <2> QED
    BY <2>1, <2>2
<1> QED
  BY <1>1, ServerInvCorrect, PTL

\* No tool call runs on a space the store can't keep apart.
THEOREM SpacesKeptApartCorrect == ServerSpec => []SpacesKeptApart
<1>1. ServerInv => SpacesKeptApart
  <2> SUFFICES ASSUME ServerInv, NEW i \in Ran
               PROVE  requests[i].ran.grant.space \notin Wildcards \cup Refused
    BY DEF SpacesKeptApart
  <2>1. phase \in Up /\ requests[i].ran = Resolve(requests[i].token) /\ requests[i].ran # None
    BY RanListed DEF Ran
  <2>2. requests[i].ran \in Granted
    BY <2>1 DEF Resolve, Granted
  <2> QED
    BY <2>1, <2>2 DEF ServerInv, UpInv, Unusable
<1> QED
  BY <1>1, ServerInvCorrect, PTL

\* Outside a gated request no connection's task has a current key.
THEOREM KeyOnlyInsideCorrect == ServerSpec => []KeyOnlyInside
<1>1. ServerInv => KeyOnlyInside
  BY DEF ServerInv
<1> QED
  BY <1>1, ServerInvCorrect, PTL

\* A client that still waits is never failed by the server's shutdown.
THEOREM WaitingClientServedCorrect == ServerSpec => []WaitingClientServed
<1>1. ServerInv => WaitingClientServed
  BY DEF ServerInv, RequestInv, WaitingClientServed, Inside
<1> QED
  BY <1>1, ServerInvCorrect, PTL
=============================================================================
