----------------------------- MODULE ProxyConns -----------------------------
(***************************************************************************)
(* What a proxied connection holds, and who gives it back.  A handler of    *)
(* the server takes a lease on the connection counters of the owning user,  *)
(* the client and the tunnel or host, finds a target, opens a link through  *)
(* the client, does the handshake of its protocol and copies bytes until    *)
(* one side ends.  Every one of those steps may fail, and every error path  *)
(* closes by hand what the handler holds by then, except for what a         *)
(* deferred call closes.  A handler's code is given as the sequence of its  *)
(* steps: what a step obtains, and what its failure path closes.            *)
(*                                                                          *)
(* Meanwhile an administrator saves changed records of users and clients:   *)
(* the store replaces the record by the editor's copy, with a counter that  *)
(* was copied while the connections of the old record were running.         *)
(***************************************************************************)
EXTENDS Integers, Sequences, FiniteSets, FiniteSetsExt, FiniteSetTheorems, SequenceTheorems, TLAPS

CONSTANTS Handlers,     \* connections
          Kinds,        \* the ways a connection is served
          Limits,       \* the limits tried: functions from Records to Nat, 0 for none
          MaxEdits,     \* edits of user and client records
          MaxFaults     \* failing steps

Records == {"user", "client", "tunnel", "host"}
Edited == {"user", "client"}
Versions == 0..MaxEdits
ASSUME ProxyAssumption ==
  /\ IsFiniteSet(Handlers) /\ MaxEdits \in Nat /\ Limits \subseteq [Records -> Nat]
  /\ Kinds \subseteq {"tcp", "connect", "socks5", "secret", "https", "host", "websocket"}

VARIABLES
  limit,      \* the limit of every record
  state,      \* record -> "ok", "off" (disabled), "expired" or "spent" (its traffic is used up)
  current,    \* user, client -> the version of the record in the store
  count,      \* record -> version -> its NowConn
  carried,    \* record -> version -> the connections its counter was copied with
  draft,      \* user, client -> the counter in a copy under edit, or NoDraft
  kind,       \* handler -> how its connection is served
  at,         \* handler -> "new", "before", "check", "user", "client", "resource", "serve" or "done"
  step,       \* handler -> the step it is at before and after the lease
  held,       \* handler -> what it holds: "in", "lease", "link", "node"
  lease,      \* handler -> the versions of the user and client records its lease is on
  taken,      \* handler -> the records whose counter it has raised
  local,      \* handler -> TRUE when the link ends in this process
  faults

vars == <<limit, state, current, count, carried, draft, kind, at, step, held, lease, taken, local, faults>>

NoDraft == -1
Resource(k) == IF k \in {"host", "websocket", "https"} THEN "host" ELSE "tunnel"

-----------------------------------------------------------------------------
(* The steps of the handlers: what a step gets, and what its failure closes. *)
S(name, gets, drops) == [name |-> name, gets |-> gets, drops |-> drops, fails |-> TRUE]
Sure(name, gets) == [name |-> name, gets |-> gets, drops |-> {}, fails |-> FALSE]

OpenClientLink == <<S("open", {"link"}, {"in"})>>

PipeClientConn == <<Sure("track", {"node"}), S("ingress", {}, {"link", "in"}), S("copy", {}, {"link", "in"})>>

ProcessTunnel == <<S("target", {}, {"in"})>> \o OpenClientLink \o PipeClientConn

handleTunnelHTTPConnect ==
  <<S("resolve", {}, {"in"}), Sure("established", {})>> \o OpenClientLink \o PipeClientConn
ProcessHttp == <<S("request", {}, {"in"}), S("authorize", {}, {"in"})>> \o handleTunnelHTTPConnect

negotiateSocks5Method == <<S("methods", {}, {"in"}), S("authenticate", {}, {"in"})>>
completeKeepsTarget == <<S("result", {}, {"in"}), S("reply", {}, {"link", "in"})>>
completeSocks5ConnectHandshake == <<S("result", {}, {"link", "in"}), S("reply", {}, {"link", "in"})>>
handleSocks5Connect ==
  <<S("resolve", {}, {"in"})>> \o OpenClientLink \o completeSocks5ConnectHandshake \o PipeClientConn
ProcessMix == <<S("protocol", {}, {"in"})>> \o negotiateSocks5Method \o <<S("request", {}, {"in"})>> \o handleSocks5Connect

openSecretBackend == <<S("route", {}, {"in"}), S("open", {"link", "node"}, {"in"})>>
copySecretTraffic == <<S("ingress", {}, {"link", "in"}), S("copy", {}, {"link", "in"})>>
HandleSecret == <<Sure("ingress info", {})>> \o openSecretBackend \o <<S("ack", {}, {"link", "in"})>> \o copySecretTraffic

resolveHTTPSProxyBackend == <<S("target", {}, {"in"})>>
acceptHTTPS ==
  <<S("hello", {}, {"in"}), S("name", {}, {"in"}), S("host", {}, {"in"}), S("source", {}, {"in"}), S("tls", {}, {"in"})>>
handleHttpsProxy == resolveHTTPSProxyBackend \o OpenClientLink \o PipeClientConn

(* The connection of an HTTP request belongs to the HTTP server, and its link to a transport, until a *)
(* websocket takes the one over and has a link of its own. *)
dialResolvedBackendContext == <<S("open", {"link", "node"}, {}), S("header", {}, {"link"})>>
handleResolvedWebsocket ==
  dialResolvedBackendContext
  \o <<S("header again", {}, {"link"}), S("tls", {}, {"link"}), S("hijack", {"in"}, {"link"}),
       S("send handshake", {}, {"link", "in"}), S("read handshake", {}, {"link", "in"}),
       S("answer", {}, {"link", "in"}), S("buffered", {}, {"link", "in"}), S("status", {}, {"link", "in"}),
       S("copy", {}, {"link", "in"})>>
lookupHTTPProxyHost == <<S("host", {}, {}), S("valid", {}, {}), S("source", {}, {}), S("redirect", {}, {})>>
resolveHTTPProxyServeRequest == <<S("backend", {}, {}), S("destination", {}, {})>>
handleProxy == <<S("authorize", {}, {}), S("redirect url", {}, {})>> \o resolveHTTPProxyServeRequest

(* What comes before the lease, and what follows it. *)
Before(k) ==
  CASE k \in {"tcp", "connect", "socks5", "secret"} -> <<S("valid", {}, {"in"})>>
    [] k = "https" -> acceptHTTPS
    [] k \in {"host", "websocket"} -> lookupHTTPProxyHost

Steps(k) ==
  CASE k = "tcp" -> ProcessTunnel
    [] k = "connect" -> ProcessHttp
    [] k = "socks5" -> ProcessMix
    [] k = "secret" -> HandleSecret
    [] k = "https" -> handleHttpsProxy
    [] k = "host" -> handleProxy \o <<S("round trip", {}, {})>>
    [] k = "websocket" -> handleProxy \o handleResolvedWebsocket

(* handleConn closes its connection when the handler returns; the others leave that to their paths. *)
Deferred(k) == IF k \in {"tcp", "connect", "socks5"} THEN {"in", "lease"} ELSE {"lease"}
Accepted(k) == IF k \in {"host", "websocket"} THEN {} ELSE {"in"}

-----------------------------------------------------------------------------
(* The counters. *)
Full(r, v) == limit[r] # 0 /\ count[r][v] >= limit[r]

acquireRuntimeConn(r, v) == count' = [count EXCEPT ![r][v] = @ + 1]

cutRuntimeConn(f, r, v) == [f EXCEPT ![r][v] = Max({@ - 1, 0})]

Version(h, r) == IF r \in Edited THEN lease[h][r] ELSE 0

CutForgetsUser(h) == {"client", Resource(kind[h])}
(* A lease names the client and the resource from the start, so that its release cuts the counters of *)
(* both, whether they were taken or not; the user's only when it was. *)
Cut(h) == {"client", Resource(kind[h])} \union (taken[h] \intersect {"user"})
Release(h) ==
  LET all == Cut(h) IN
  /\ count' = [r \in Records |-> IF r \in all THEN cutRuntimeConn(count, r, Version(h, r))[r] ELSE count[r]]
  /\ taken' = [taken EXCEPT ![h] = {}]

(* The end of a handler: its failure path closes drops, its deferred calls what they are for.  A link   *)
(* that is counted on the client's node gives that count back when it is closed. *)
Ends(h, drops) ==
  LET gone == drops \union Deferred(kind[h]) IN
  /\ held' = [held EXCEPT ![h] = (@ \ gone) \ (IF "link" \in gone THEN {"node"} ELSE {})]
  /\ at' = [at EXCEPT ![h] = "done"]

(* CheckFlowAndConnNum before it takes the lease. *)
Refused(h) ==
  LET r == Resource(kind[h]) IN
  \/ state["client"] = "off"
  \/ state["user"] # "ok" \/ Full("user", current["user"])
  \/ state["client"] \in {"expired", "spent"}
  \/ state[r] \in {"expired", "spent"}

-----------------------------------------------------------------------------
Init ==
  /\ limit \in Limits
  /\ state = [r \in Records |-> "ok"]
  /\ current = [r \in Edited |-> 0]
  /\ count = [r \in Records |-> [v \in Versions |-> 0]]
  /\ carried = count
  /\ draft = [r \in Edited |-> NoDraft]
  /\ kind \in [Handlers -> Kinds]
  /\ at = [h \in Handlers |-> "new"]
  /\ step = [h \in Handlers |-> 1]
  /\ held = [h \in Handlers |-> {}]
  /\ lease = [h \in Handlers |-> current]
  /\ taken = [h \in Handlers |-> {}]
  /\ local \in [Handlers -> BOOLEAN]
  /\ faults = 0

records == <<limit, state, current, carried, draft>>

Accept(h) ==
  /\ at[h] = "new"
  /\ at' = [at EXCEPT ![h] = "before"]
  /\ held' = [held EXCEPT ![h] = Accepted(kind[h])]
  /\ UNCHANGED <<records, count, kind, step, lease, taken, local, faults>>

CheckFlowAndConnNum(h) ==
  /\ at[h] = "check"
  /\ \/ Refused(h) /\ Ends(h, {"in"})
     \/ ~Refused(h) /\ at' = [at EXCEPT ![h] = "user"] /\ UNCHANGED held
  /\ lease' = [lease EXCEPT ![h] = current]
  /\ UNCHANGED <<records, count, kind, step, taken, local, faults>>

(* acquireConnectionLease: the user's counter, the client's, the tunnel's or host's. *)
acquireNext(h, r, next) ==
  /\ ~Full(r, Version(h, r))
  /\ acquireRuntimeConn(r, Version(h, r))
  /\ taken' = [taken EXCEPT ![h] = @ \union {r}]
  /\ at' = [at EXCEPT ![h] = next]
  /\ held' = [held EXCEPT ![h] = @ \union (IF next = "serve" THEN {"lease"} ELSE {})]

acquireConnectionLease(h) ==
  /\ \/ at[h] = "user" /\ acquireNext(h, "user", "client")
     \/ at[h] = "user" /\ Full("user", Version(h, "user")) /\ Ends(h, {"in"}) /\ UNCHANGED <<count, taken>>
     \/ at[h] = "client" /\ acquireNext(h, "client", "resource")
     \/ at[h] = "client" /\ Full("client", Version(h, "client")) /\ Release(h) /\ Ends(h, {"in"})
     \/ at[h] = "resource" /\ acquireNext(h, Resource(kind[h]), "serve")
     \/ at[h] = "resource" /\ Full(Resource(kind[h]), 0) /\ Release(h) /\ Ends(h, {"in"})
  /\ UNCHANGED <<records, kind, step, lease, local, faults>>

Serving(h) == at[h] = "serve"
Code(h) == IF Serving(h) THEN Steps(kind[h]) ELSE Before(kind[h])
Step(h) == Code(h)[step[h]]
Last(h) == step[h] = Len(Code(h))

(* A step succeeds. *)
Proceed(h) ==
  /\ at[h] \in {"before", "serve"}
  /\ ~(Serving(h) /\ Last(h))
  /\ step' = [step EXCEPT ![h] = IF Last(h) THEN 1 ELSE @ + 1]
  /\ at' = [at EXCEPT ![h] = IF Last(h) THEN "check" ELSE @]
  /\ held' = [held EXCEPT ![h] = @ \union (IF local[h] THEN Step(h).gets \ {"node"} ELSE Step(h).gets)]
  /\ UNCHANGED <<records, count, kind, lease, taken, local, faults>>

(* The last step, the copying, ends when either side does and closes both. *)
Finish(h) ==
  /\ Serving(h)
  /\ Last(h)
  /\ Release(h)
  /\ Ends(h, Step(h).drops)
  /\ UNCHANGED <<records, kind, step, lease, local, faults>>

(* A step fails: a peer is gone, an address is refused, a limit of traffic is reached. *)
Fail(h) ==
  /\ at[h] \in {"before", "serve"}
  /\ faults < MaxFaults
  /\ ~(Serving(h) /\ Last(h))
  /\ Step(h).fails
  /\ IF Serving(h) THEN Release(h) ELSE UNCHANGED <<count, taken>>
  /\ Ends(h, Step(h).drops)
  /\ faults' = faults + 1
  /\ UNCHANGED <<records, kind, step, lease, local>>

-----------------------------------------------------------------------------
(* An editor copies a record, its counter included, and saves the copy in the record's place. *)
Clone(r) ==
  /\ current[r] < MaxEdits
  /\ draft[r] = NoDraft
  /\ draft' = [draft EXCEPT ![r] = count[r][current[r]]]
  /\ UNCHANGED <<limit, state, current, count, carried, kind, at, step, held, lease, taken, local, faults>>

Save(r) ==
  /\ draft[r] # NoDraft
  /\ current' = [current EXCEPT ![r] = @ + 1]
  /\ count' = [count EXCEPT ![r][current[r] + 1] = draft[r]]
  /\ carried' = [carried EXCEPT ![r][current[r] + 1] = draft[r]]
  /\ draft' = [draft EXCEPT ![r] = NoDraft]
  /\ \E s \in {"ok", "off"} : state' = [state EXCEPT ![r] = s]
  /\ UNCHANGED <<limit, kind, at, step, held, lease, taken, local, faults>>

(* A record expires, or its traffic is used up. *)
RunOut(r) ==
  /\ state[r] = "ok"
  /\ \E s \in {"expired", "spent"} : state' = [state EXCEPT ![r] = s]
  /\ UNCHANGED <<limit, current, count, carried, draft, kind, at, step, held, lease, taken, local, faults>>

HandlerSteps(h) ==
  Accept(h) \/ CheckFlowAndConnNum(h) \/ acquireConnectionLease(h) \/ Proceed(h) \/ Finish(h) \/ Fail(h)

RecordSteps ==
  \/ \E r \in Edited : Clone(r) \/ Save(r)
  \/ \E r \in Records : RunOut(r)

Next == (\E h \in Handlers : HandlerSteps(h)) \/ RecordSteps

Spec == Init /\ [][Next]_vars

-----------------------------------------------------------------------------
Holders(r, v) == {h \in Handlers : r \in taken[h] /\ Version(h, r) = v}

(* No counter keeps the slot of a connection that is over: the count of a record is never above the    *)
(* connections that hold a lease on it and those its record was copied with, on whatever path they end *)
(* (base_limit_runtime.go, and the deferred Release of every handler). *)
SlotsReturn ==
  \A r \in Records, v \in Versions : count[r][v] <= Cardinality(Holders(r, v)) + carried[r][v]

(* A handler that is over has closed its connection and its link, has given back the link's count on   *)
(* the client's node, and holds no lease: the error paths of the handlers close what is open by then,  *)
(* each by hand. *)
NothingLeftOpen == \A h \in Handlers : at[h] = "done" => held[h] = {} /\ taken[h] = {}

(* docs/reference/features-access.md: the maximum of connections bounds the connections of one client. *)
LimitKept ==
  \A r \in Records : limit[r] > 0 => Cardinality({h \in Handlers : Serving(h) /\ r \in taken[h]}) <= limit[r]

-----------------------------------------------------------------------------
(* The proof of SlotsReturn, for any number of handlers and of edits.  Where *)
(* a handler is says which counters it has raised, so that it raises none    *)
(* twice; the lease is set before the first of them, so that it gives back   *)
(* to the version of the record it took from.  The user's counter is exact,  *)
(* since a release cuts it only when it was raised.                          *)
Places == {"new", "before", "check", "user", "client", "resource", "serve", "done"}
TypeOK ==
  /\ limit \in [Records -> Nat]
  /\ current \in [Edited -> Versions]
  /\ count \in [Records -> [Versions -> Nat]]
  /\ carried \in [Records -> [Versions -> Nat]]
  /\ draft \in [Edited -> Nat \union {NoDraft}]
  /\ at \in [Handlers -> Places]
  /\ lease \in [Handlers -> [Edited -> Versions]]
  /\ taken \in [Handlers -> SUBSET Records]

(* What a handler at this place has raised. *)
Raised(h) ==
  CASE at[h] = "client" -> {"user"}
    [] at[h] = "resource" -> {"user", "client"}
    [] at[h] = "serve" -> {"user", "client", Resource(kind[h])}
    [] OTHER -> {}
TakenInOrder == \A h \in Handlers : taken[h] = Raised(h)
DraftInTime == \A r \in Edited : draft[r] # NoDraft => current[r] < MaxEdits
LeasesKnown == \A h \in Handlers, r \in Edited : lease[h][r] <= current[r]
UserExact ==
  /\ \A v \in Versions : count["user"][v] = Cardinality(Holders("user", v)) + carried["user"][v]
  /\ limit["user"] # 0 => /\ \A v \in Versions : count["user"][v] <= limit["user"]
                          /\ draft["user"] <= limit["user"]

IInv == TypeOK /\ TakenInOrder /\ DraftInTime /\ LeasesKnown /\ SlotsReturn /\ UserExact

(* The connections that hold a slot are finitely many. *)
LEMMA HoldersFinite == ASSUME NEW r, NEW v PROVE IsFiniteSet(Holders(r, v)) /\ Cardinality(Holders(r, v)) \in Nat
<1>1. Holders(r, v) \subseteq Handlers
  BY DEF Holders
<1> QED
  BY <1>1, ProxyAssumption, FS_Subset, FS_CardinalityType

(* A counter is cut by one, and not below zero. *)
LEMMA CutByOne ==
  ASSUME NEW n \in Nat
  PROVE  Max({n - 1, 0}) \in Nat /\ Max({n - 1, 0}) <= n /\ (n > 0 => Max({n - 1, 0}) = n - 1)
<1>1. CASE n = 0
  <2>1. Max({n - 1, 0}) = 0
    BY <1>1 DEF Max
  <2> QED
    BY <1>1, <2>1
<1>2. CASE n > 0
  <2>1. Max({n - 1, 0}) = n - 1
    BY <1>2 DEF Max
  <2> QED
    BY <1>2, <2>1
<1> QED
  BY <1>1, <1>2

(* Nothing is taken at the start. *)
LEMMA InitIInv == Init => IInv
<1> SUFFICES ASSUME Init PROVE IInv
  OBVIOUS
<1>1. TypeOK
  BY ProxyAssumption DEF Init, TypeOK, Places, Versions, NoDraft
<1>2. TakenInOrder /\ DraftInTime /\ LeasesKnown
  BY DEF Init, TakenInOrder, Raised, DraftInTime, LeasesKnown
<1>3. \A r, v : Holders(r, v) = {}
  BY DEF Init, Holders
<1>4. \A r, v : Cardinality(Holders(r, v)) = 0
  BY <1>3, FS_EmptySet
<1>5. SlotsReturn /\ UserExact
  BY <1>1, <1>4 DEF SlotsReturn, UserExact, Init, TypeOK, Records, NoDraft, Edited
<1> QED
  BY <1>1, <1>2, <1>5 DEF IInv

(* The version a lease is on, and the record of a kind. *)
LEMMA VersionType ==
  ASSUME TypeOK, NEW h \in Handlers, NEW r \in Records
  PROVE  Version(h, r) \in Versions /\ Resource(kind[h]) \in {"tunnel", "host"}
BY ProxyAssumption DEF TypeOK, Version, Versions, Resource

(* A step that raises and cuts no counter, and changes no lease under which one was raised. *)
LEMMA QuietStep ==
  ASSUME IInv, TypeOK', TakenInOrder', LeasesKnown', UNCHANGED <<limit, current, count, carried, draft, taken>>,
         \A h \in Handlers : taken[h] # {} => lease'[h] = lease[h]
  PROVE  IInv'
<1>1. \A r, v : Holders(r, v)' = Holders(r, v)
  BY DEF Holders, Version
<1>2. \A r, v : Cardinality(Holders(r, v))' = Cardinality(Holders(r, v))
  BY <1>1
<1>3. SlotsReturn' /\ UserExact' /\ DraftInTime'
  BY <1>2 DEF IInv, SlotsReturn, UserExact, DraftInTime
<1> QED
  BY <1>3 DEF IInv

(* A counter is raised for a handler that had not raised it (acquireConnectionLease). *)
LEMMA RaiseKeeps ==
  ASSUME IInv, NEW h \in Handlers, NEW r \in Records, r \notin taken[h], ~Full(r, Version(h, r)),
         acquireRuntimeConn(r, Version(h, r)), taken' = [taken EXCEPT ![h] = @ \union {r}],
         at' \in [Handlers -> Places], TakenInOrder', UNCHANGED <<records, lease>>
  PROVE  IInv'
<1>1. PICK v \in Versions : v = Version(h, r)
  BY VersionType DEF IInv
<1>2. /\ count' = [count EXCEPT ![r] = [count[r] EXCEPT ![v] = count[r][v] + 1]]
      /\ count[r] \in [Versions -> Nat]
  BY <1>1 DEF acquireRuntimeConn, IInv, TypeOK
<1>3. Holders(r, v)' = Holders(r, v) \union {h} /\ h \notin Holders(r, v)
  BY <1>1 DEF IInv, TypeOK, Holders, Version
<1>4. ASSUME NEW q \in Records, NEW w \in Versions, <<q, w>> # <<r, v>>
      PROVE  Holders(q, w)' = Holders(q, w)
  BY <1>1, <1>4 DEF IInv, TypeOK, Holders, Version
<1>5. limit[r] = 0 \/ ~(count[r][v] >= limit[r])
  BY <1>1 DEF Full
<1>6. Cardinality(Holders(r, v))' = Cardinality(Holders(r, v)) + 1
  BY <1>3, HoldersFinite, FS_AddElement
<1>7. [count[r] EXCEPT ![v] = count[r][v] + 1] \in [Versions -> Nat]
  BY <1>1, <1>2
<1>8. TypeOK'
  <2>1. count' \in [Records -> [Versions -> Nat]]
    BY <1>2, <1>7 DEF IInv, TypeOK
  <2>2. taken' \in [Handlers -> SUBSET Records]
    BY DEF IInv, TypeOK
  <2> QED
    BY <2>1, <2>2 DEF IInv, TypeOK, records
<1>9. /\ count'[r][v] = count[r][v] + 1
      /\ \A q \in Records, w \in Versions : <<q, w>> # <<r, v>> => count'[q][w] = count[q][w]
  BY <1>1, <1>2 DEF IInv, TypeOK
<1>10. SlotsReturn'
  <2> SUFFICES ASSUME NEW q \in Records, NEW w \in Versions
               PROVE  count'[q][w] <= Cardinality(Holders(q, w))' + carried'[q][w]
    BY DEF SlotsReturn
  <2>1. /\ count[q][w] <= Cardinality(Holders(q, w)) + carried[q][w] /\ carried' = carried
        /\ count[q][w] \in Nat /\ carried[q][w] \in Nat /\ Cardinality(Holders(q, w)) \in Nat
    BY HoldersFinite DEF IInv, SlotsReturn, TypeOK, records
  <2>2. CASE <<q, w>> = <<r, v>>
    BY <1>6, <1>9, <2>1, <2>2
  <2>3. CASE <<q, w>> # <<r, v>>
    <3>1. Holders(q, w)' = Holders(q, w) /\ count'[q][w] = count[q][w]
      BY <1>4, <1>9, <2>3
    <3>2. Cardinality(Holders(q, w))' = Cardinality(Holders(q, w))
      BY <3>1
    <3> QED
      BY <2>1, <3>1, <3>2
  <2> QED
    BY <2>2, <2>3
<1>11. UserExact'
  <2>1. ASSUME NEW w \in Versions
        PROVE  /\ count'["user"][w] = Cardinality(Holders("user", w))' + carried'["user"][w]
               /\ limit["user"] # 0 => count'["user"][w] <= limit["user"]
    <3>1. /\ count["user"][w] = Cardinality(Holders("user", w)) + carried["user"][w] /\ carried' = carried
          /\ limit["user"] # 0 => count["user"][w] <= limit["user"]
          /\ count["user"][w] \in Nat /\ carried["user"][w] \in Nat /\ Cardinality(Holders("user", w)) \in Nat
          /\ limit["user"] \in Nat
      BY HoldersFinite DEF IInv, UserExact, TypeOK, records, Records
    <3>2. CASE <<"user", w>> = <<r, v>>
      BY <1>5, <1>6, <1>9, <3>1, <3>2
    <3>3. CASE <<"user", w>> # <<r, v>>
      <4>1. Holders("user", w)' = Holders("user", w) /\ count'["user"][w] = count["user"][w]
        BY <1>4, <1>9, <3>3 DEF Records
      <4>2. Cardinality(Holders("user", w))' = Cardinality(Holders("user", w))
        BY <4>1
      <4> QED
        BY <3>1, <4>1, <4>2
    <3> QED
      BY <3>2, <3>3
  <2> QED
    BY <2>1 DEF IInv, UserExact, records
<1>12. DraftInTime' /\ LeasesKnown'
  BY DEF IInv, DraftInTime, LeasesKnown, records
<1> QED
  BY <1>8, <1>10, <1>11, <1>12 DEF IInv

(* A release: of the counters it cuts, some may not be its own. *)
LEMMA ReleaseKeeps ==
  ASSUME IInv, NEW h \in Handlers, Release(h), at' \in [Handlers -> Places], TakenInOrder', UNCHANGED <<records, lease>>
  PROVE  IInv'
<1>1. taken' = [taken EXCEPT ![h] = {}] /\ taken[h] \subseteq Cut(h) /\ Cut(h) \subseteq Records
      /\ ("user" \in Cut(h) => "user" \in taken[h])
  BY DEF Release, Cut, IInv, TakenInOrder, Raised, Records, Resource
<1>2. ASSUME NEW r \in Records
      PROVE  count'[r] = IF r \in Cut(h) THEN [count[r] EXCEPT ![Version(h, r)] = Max({count[r][Version(h, r)] - 1, 0})]
                         ELSE count[r]
  BY VersionType DEF Release, cutRuntimeConn, IInv, TypeOK
<1>3. \A r \in Records : Version(h, r) \in Versions /\ count[r] \in [Versions -> Nat]
  BY VersionType DEF IInv, TypeOK
<1>4. TypeOK'
  <2>1. ASSUME NEW r \in Records PROVE count'[r] \in [Versions -> Nat]
    <3>1. count[r][Version(h, r)] \in Nat /\ Version(h, r) \in Versions /\ count[r] \in [Versions -> Nat]
      BY <1>3
    <3>2. Max({count[r][Version(h, r)] - 1, 0}) \in Nat
      BY <3>1, CutByOne
    <3>3. [count[r] EXCEPT ![Version(h, r)] = Max({count[r][Version(h, r)] - 1, 0})] \in [Versions -> Nat]
      BY <3>1, <3>2
    <3> QED
      BY <1>2, <3>1, <3>3
  <2>2. count' \in [Records -> [Versions -> Nat]]
    BY <2>1 DEF Release
  <2>3. taken' \in [Handlers -> SUBSET Records]
    BY <1>1 DEF IInv, TypeOK
  <2> QED
    BY <2>2, <2>3 DEF IInv, TypeOK, records
<1>5. ASSUME NEW r \in Records, NEW v \in Versions
      PROVE  IF r \in taken[h] /\ v = Version(h, r)
             THEN /\ Cardinality(Holders(r, v))' = Cardinality(Holders(r, v)) - 1
                  /\ Cardinality(Holders(r, v)) > 0
             ELSE Cardinality(Holders(r, v))' = Cardinality(Holders(r, v))
  <2>1. CASE r \in taken[h] /\ v = Version(h, r)
    <3>1. h \in Holders(r, v) /\ Holders(r, v)' = Holders(r, v) \ {h}
      BY <1>1, <2>1 DEF Holders, Version, IInv, TypeOK
    <3> QED
      BY <2>1, <3>1, HoldersFinite, FS_RemoveElement, FS_EmptySet
  <2>2. CASE ~(r \in taken[h] /\ v = Version(h, r))
    <3>1. Holders(r, v)' = Holders(r, v)
      BY <1>1, <2>2 DEF Holders, Version, IInv, TypeOK
    <3> QED
      BY <2>2, <3>1
  <2> QED
    BY <2>1, <2>2
<1>6. ASSUME NEW r \in Records, NEW v \in Versions
      PROVE  /\ count'[r][v] \in Nat /\ count'[r][v] <= count[r][v]
             /\ r \in Cut(h) /\ v = Version(h, r) /\ count[r][v] > 0 => count'[r][v] = count[r][v] - 1
             /\ ~(r \in Cut(h) /\ v = Version(h, r)) => count'[r][v] = count[r][v]
  <2>1. CASE r \in Cut(h) /\ v = Version(h, r)
    <3>1. count'[r][v] = Max({count[r][v] - 1, 0})
      BY <1>2, <1>3, <2>1
    <3> QED
      BY <1>3, <2>1, <3>1, CutByOne
  <2>2. CASE ~(r \in Cut(h) /\ v = Version(h, r))
    <3>1. count'[r][v] = count[r][v] /\ count[r][v] \in Nat
      <4>1. CASE r \in Cut(h)
        BY <1>2, <1>3, <2>2, <4>1
      <4>2. CASE r \notin Cut(h)
        BY <1>2, <1>3, <4>2
      <4> QED
        BY <4>1, <4>2
    <3> QED
      BY <2>2, <3>1
  <2> QED
    BY <2>1, <2>2
<1>7. ASSUME NEW r \in Records, NEW v \in Versions
      PROVE  /\ count[r][v] <= Cardinality(Holders(r, v)) + carried[r][v]
             /\ count[r][v] \in Nat /\ carried[r][v] \in Nat /\ Cardinality(Holders(r, v)) \in Nat
             /\ Cardinality(Holders(r, v))' \in Nat /\ carried' = carried
  <2>1. Cardinality(Holders(r, v)) \in Nat
    BY HoldersFinite
  <2>2. Cardinality(Holders(r, v))' \in Nat
    BY <1>5, <2>1
  <2> QED
    BY <2>1, <2>2 DEF IInv, SlotsReturn, TypeOK, records
<1>8. SlotsReturn'
  <2> SUFFICES ASSUME NEW r \in Records, NEW v \in Versions
               PROVE  count'[r][v] <= Cardinality(Holders(r, v))' + carried'[r][v]
    BY DEF SlotsReturn
  <2>1. CASE r \in taken[h] /\ v = Version(h, r)
    <3>1. r \in Cut(h)
      BY <1>1, <2>1
    <3>2. CASE count[r][v] > 0
      BY <1>5, <1>6, <1>7, <2>1, <3>1, <3>2
    <3>3. CASE count[r][v] = 0
      BY <1>6, <1>7, <3>3
    <3> QED
      BY <1>7, <3>2, <3>3
  <2>2. CASE ~(r \in taken[h] /\ v = Version(h, r))
    BY <1>5, <1>6, <1>7, <2>2
  <2> QED
    BY <2>1, <2>2
<1>9. UserExact'
  <2>1. ASSUME NEW v \in Versions
        PROVE  /\ count'["user"][v] = Cardinality(Holders("user", v))' + carried'["user"][v]
               /\ limit["user"] # 0 => count'["user"][v] <= limit["user"]
    <3>1. /\ count["user"][v] = Cardinality(Holders("user", v)) + carried["user"][v]
          /\ limit["user"] # 0 => count["user"][v] <= limit["user"]
          /\ limit["user"] \in Nat /\ "user" \in Records
      BY DEF IInv, UserExact, TypeOK, Records
    <3>2. CASE "user" \in taken[h] /\ v = Version(h, "user")
      <4>1. "user" \in Cut(h)
        BY <1>1, <3>2
      <4> QED
        BY <1>5, <1>6, <1>7, <3>1, <3>2, <4>1
    <3>3. CASE ~("user" \in taken[h] /\ v = Version(h, "user"))
      BY <1>1, <1>5, <1>6, <1>7, <3>1, <3>3
    <3> QED
      BY <3>2, <3>3
  <2> QED
    BY <2>1 DEF IInv, UserExact, records
<1>10. DraftInTime' /\ LeasesKnown'
  BY DEF IInv, DraftInTime, LeasesKnown, records
<1> QED
  BY <1>4, <1>8, <1>9, <1>10 DEF IInv

(* A handler raises a counter, or is refused one and releases. *)
LEMMA LeaseKeeps == ASSUME IInv, NEW h \in Handlers, acquireConnectionLease(h) PROVE IInv'
<1> USE DEF Places
<1>0. /\ taken[h] = Raised(h) /\ at[h] \in Places /\ Resource(kind[h]) \in {"tunnel", "host"}
      /\ UNCHANGED <<records, kind, lease>>
  BY VersionType, ProxyAssumption DEF IInv, TypeOK, TakenInOrder, acquireConnectionLease, Records, Resource
<1>1. ASSUME NEW p \in Places, at' = [at EXCEPT ![h] = p], NEW t, taken' = [taken EXCEPT ![h] = t],
             t = CASE p = "client" -> {"user"} [] p = "resource" -> {"user", "client"}
                   [] p = "serve" -> {"user", "client", Resource(kind[h])} [] OTHER -> {}
      PROVE  at' \in [Handlers -> Places] /\ TakenInOrder'
  <2>1. at' \in [Handlers -> Places]
    BY <1>1 DEF IInv, TypeOK
  <2>2. ASSUME NEW g \in Handlers PROVE taken'[g] = Raised(g)'
    <3>1. CASE g = h
      BY <1>0, <1>1, <3>1 DEF IInv, TypeOK, Raised
    <3>2. CASE g # h
      BY <1>0, <1>1, <3>2 DEF IInv, TypeOK, Raised, TakenInOrder
    <3> QED
      BY <3>1, <3>2
  <2> QED
    BY <2>1, <2>2 DEF TakenInOrder
<1>2. CASE at[h] = "user" /\ acquireNext(h, "user", "client")
  BY <1>0, <1>1, <1>2, RaiseKeeps DEF acquireNext, Raised, Records
<1>3. CASE at[h] = "user" /\ Full("user", Version(h, "user")) /\ Ends(h, {"in"}) /\ UNCHANGED <<count, taken>>
  <2>1. at' \in [Handlers -> Places] /\ TakenInOrder'
    BY <1>0, <1>3 DEF IInv, TypeOK, Raised, TakenInOrder, Ends
  <2>2. TypeOK'
    BY <1>0, <1>3, <2>1 DEF IInv, TypeOK, records
  <2> QED
    BY <1>0, <1>3, <2>1, <2>2, QuietStep DEF records, IInv, LeasesKnown
<1>4. CASE at[h] = "client" /\ acquireNext(h, "client", "resource")
  BY <1>0, <1>1, <1>4, RaiseKeeps DEF acquireNext, Raised, Records
<1>5. CASE at[h] = "client" /\ Full("client", Version(h, "client")) /\ Release(h) /\ Ends(h, {"in"})
  BY <1>0, <1>1, <1>5, ReleaseKeeps DEF Release, Ends
<1>6. CASE at[h] = "resource" /\ acquireNext(h, Resource(kind[h]), "serve")
  BY <1>0, <1>1, <1>6, RaiseKeeps DEF acquireNext, Raised, Records
<1>7. CASE at[h] = "resource" /\ Full(Resource(kind[h]), 0) /\ Release(h) /\ Ends(h, {"in"})
  BY <1>0, <1>1, <1>7, ReleaseKeeps DEF Release, Ends
<1> QED
  BY <1>2, <1>3, <1>4, <1>5, <1>6, <1>7 DEF acquireConnectionLease

(* The steps of a handler that leave the counters alone. *)
LEMMA WalkKeeps ==
  ASSUME IInv, NEW h \in Handlers,
         Accept(h) \/ CheckFlowAndConnNum(h) \/ Proceed(h) \/ (Fail(h) /\ ~Serving(h))
  PROVE  IInv'
<1>1. UNCHANGED <<records, count, kind, taken>> /\ taken[h] = Raised(h)
  BY DEF Accept, CheckFlowAndConnNum, Proceed, Fail, IInv, TakenInOrder
<1>2. PICK p \in Places : /\ at' = [at EXCEPT ![h] = p]
                          /\ \/ at[h] # "serve" /\ Raised(h) = {} /\ p \in {"before", "check", "user", "done"}
                             \/ at[h] = "serve" /\ p = "serve" /\ lease' = lease
                          /\ lease' = lease \/ (lease' = [lease EXCEPT ![h] = current] /\ at[h] = "check")
  <2>1. CASE Accept(h)
    BY <2>1 DEF Accept, Raised, Places
  <2>2. CASE CheckFlowAndConnNum(h)
    BY <2>2 DEF CheckFlowAndConnNum, Ends, Raised, Places
  <2>3. CASE Proceed(h)
    BY <2>3 DEF Proceed, Raised, Places, Serving, IInv, TypeOK
  <2>4. CASE Fail(h) /\ ~Serving(h)
    BY <2>4 DEF Fail, Ends, Raised, Places, Serving
  <2> QED
    BY <2>1, <2>2, <2>3, <2>4
<1>3. TypeOK'
  BY <1>1, <1>2 DEF IInv, TypeOK, records
<1>4. TakenInOrder'
  <2> SUFFICES ASSUME NEW g \in Handlers PROVE taken'[g] = Raised(g)'
    BY DEF TakenInOrder
  <2>1. CASE g = h
    BY <1>1, <1>2, <2>1 DEF IInv, TypeOK, Raised
  <2>2. CASE g # h
    BY <1>1, <1>2, <2>2 DEF IInv, TypeOK, Raised, TakenInOrder
  <2> QED
    BY <2>1, <2>2
<1>5. \A g \in Handlers : taken[g] # {} => lease'[g] = lease[g]
  BY <1>1, <1>2 DEF IInv, TypeOK, Raised
<1>6. LeasesKnown'
  <2> SUFFICES ASSUME NEW g \in Handlers, NEW r \in Edited PROVE lease'[g][r] <= current[r]
    BY <1>1 DEF LeasesKnown, records
  <2>1. lease'[g] = lease[g] \/ lease'[g] = current
    BY <1>2 DEF IInv, TypeOK
  <2>2. lease[g][r] <= current[r] /\ current[r] \in Nat
    BY ProxyAssumption DEF IInv, TypeOK, LeasesKnown, Versions
  <2> QED
    BY <2>1, <2>2
<1> QED
  BY <1>1, <1>3, <1>4, <1>5, <1>6, QuietStep DEF records

(* The end of a served connection, on its failure paths and at the end of the copying. *)
LEMMA EndKeeps == ASSUME IInv, NEW h \in Handlers, Finish(h) \/ (Fail(h) /\ Serving(h)) PROVE IInv'
<1>1. /\ Release(h) /\ UNCHANGED <<records, kind, lease>>
      /\ at' = [at EXCEPT ![h] = "done"] /\ taken' = [taken EXCEPT ![h] = {}]
  BY DEF Finish, Fail, Ends, Release
<1>2. at' \in [Handlers -> Places] /\ TakenInOrder'
  BY <1>1 DEF IInv, TypeOK, Raised, TakenInOrder, Places
<1> QED
  BY <1>1, <1>2, ReleaseKeeps

(* An edit takes the counter of the record along (Clone), and the copy starts with it (Save). *)
LEMMA EditKeeps == ASSUME IInv, NEW r \in Edited, Clone(r) \/ Save(r) PROVE IInv'
<1>1. /\ r \in Records /\ current[r] \in Versions /\ MaxEdits \in Nat
      /\ UNCHANGED <<limit, kind, at, lease, taken>>
  BY ProxyAssumption DEF Edited, Records, IInv, TypeOK, Clone, Save
<1>2. TakenInOrder'
  BY <1>1 DEF IInv, TakenInOrder, Raised
<1>3. \A q, v : Holders(q, v)' = Holders(q, v)
  BY <1>1 DEF Holders, Version
<1>4. \A q, v : Cardinality(Holders(q, v))' = Cardinality(Holders(q, v))
  BY <1>3
<1>5. CASE Clone(r)
  <2>1. /\ draft' = [draft EXCEPT ![r] = count[r][current[r]]] /\ current[r] < MaxEdits
        /\ UNCHANGED <<current, count, carried>> /\ count[r][current[r]] \in Nat
    BY <1>1, <1>5 DEF Clone, IInv, TypeOK
  <2>2. TypeOK'
    BY <1>1, <2>1 DEF IInv, TypeOK
  <2>3. SlotsReturn' /\ DraftInTime' /\ LeasesKnown'
    BY <1>1, <1>4, <2>1 DEF IInv, SlotsReturn, DraftInTime, LeasesKnown, TypeOK
  <2>4. UserExact'
    BY <1>1, <1>4, <2>1 DEF IInv, UserExact, TypeOK, Edited
  <2> QED
    BY <1>2, <2>2, <2>3, <2>4 DEF IInv
<1>6. CASE Save(r)
  <2> DEFINE w == current[r] + 1
             d == draft[r]
  <2>1. /\ w \in Versions /\ d \in Nat
        /\ current' = [current EXCEPT ![r] = w] /\ draft' = [draft EXCEPT ![r] = NoDraft]
        /\ count' = [count EXCEPT ![r] = [count[r] EXCEPT ![w] = d]]
        /\ carried' = [carried EXCEPT ![r] = [carried[r] EXCEPT ![w] = d]]
    BY <1>1, <1>6 DEF Save, IInv, TypeOK, DraftInTime, Versions
  <2>2. /\ w = current[r] + 1
        /\ limit["user"] # 0 /\ r = "user" => d <= limit["user"]
    BY <1>1 DEF IInv, UserExact, Versions
  <2> HIDE DEF w, d
  <2>3. [count[r] EXCEPT ![w] = d] \in [Versions -> Nat] /\ [carried[r] EXCEPT ![w] = d] \in [Versions -> Nat]
    BY <1>1, <2>1 DEF IInv, TypeOK
  <2>4. TypeOK'
    <3>1. count' \in [Records -> [Versions -> Nat]] /\ carried' \in [Records -> [Versions -> Nat]]
      BY <1>1, <2>1, <2>3 DEF IInv, TypeOK
    <3>2. current' \in [Edited -> Versions] /\ draft' \in [Edited -> Nat \union {NoDraft}]
      BY <2>1 DEF IInv, TypeOK
    <3> QED
      BY <1>1, <3>1, <3>2 DEF IInv, TypeOK
  <2>5. ASSUME NEW q \in Records, NEW v \in Versions
        PROVE  IF <<q, v>> = <<r, w>> THEN count'[q][v] = d /\ carried'[q][v] = d
               ELSE count'[q][v] = count[q][v] /\ carried'[q][v] = carried[q][v]
    BY <1>1, <2>1 DEF IInv, TypeOK
  <2>6. SlotsReturn'
    <3> SUFFICES ASSUME NEW q \in Records, NEW v \in Versions
                 PROVE  count'[q][v] <= Cardinality(Holders(q, v))' + carried'[q][v]
      BY DEF SlotsReturn
    <3>1. Cardinality(Holders(q, v)) \in Nat /\ count[q][v] <= Cardinality(Holders(q, v)) + carried[q][v]
      BY HoldersFinite DEF IInv, SlotsReturn
    <3> QED
      BY <1>4, <2>1, <2>5, <3>1
  <2>7. \A q \in Edited : draft'[q] # NoDraft => current'[q] < MaxEdits
    BY <2>1 DEF IInv, TypeOK, DraftInTime
  <2>8. LeasesKnown'
    <3> SUFFICES ASSUME NEW h \in Handlers, NEW q \in Edited PROVE lease[h][q] <= current'[q]
      BY <1>1 DEF LeasesKnown
    <3>1. lease[h][q] <= current[q] /\ lease[h][q] \in Nat /\ current[q] \in Nat
      BY <1>1 DEF IInv, TypeOK, LeasesKnown, Versions
    <3> QED
      BY <2>1, <2>2, <3>1 DEF IInv, TypeOK
  <2>9. Holders(r, w) = {}
    <3> SUFFICES ASSUME NEW h \in Handlers, Version(h, r) = w PROVE FALSE
      BY DEF Holders
    <3>1. lease[h][r] <= current[r] /\ lease[h][r] \in Nat /\ current[r] \in Nat
      BY <1>1 DEF IInv, TypeOK, LeasesKnown, Versions
    <3> QED
      BY <2>2, <3>1 DEF Version
  <2>10. UserExact'
    <3>1. ASSUME NEW v \in Versions
          PROVE  /\ count'["user"][v] = Cardinality(Holders("user", v))' + carried'["user"][v]
                 /\ limit["user"] # 0 => count'["user"][v] <= limit["user"]
      <4>1. "user" \in Records /\ count["user"][v] = Cardinality(Holders("user", v)) + carried["user"][v]
            /\ (limit["user"] # 0 => count["user"][v] <= limit["user"])
        BY DEF Records, IInv, UserExact
      <4>2. CASE <<"user", v>> = <<r, w>>
        <5>1. Cardinality(Holders("user", v)) = 0
          BY <2>9, <4>2, FS_EmptySet
        <5> QED
          BY <1>4, <2>1, <2>2, <2>5, <4>1, <4>2, <5>1
      <4>3. CASE <<"user", v>> # <<r, w>>
        BY <1>4, <2>5, <4>1, <4>3
      <4> QED
        BY <4>2, <4>3
    <3>2. limit["user"] # 0 => draft'["user"] <= limit["user"]
      BY <1>1, <2>1 DEF IInv, TypeOK, UserExact, NoDraft, Edited, Records
    <3> QED
      BY <1>1, <3>1, <3>2 DEF UserExact
  <2> QED
    BY <1>2, <2>4, <2>6, <2>7, <2>8, <2>10 DEF IInv, DraftInTime
<1> QED
  BY <1>5, <1>6

(* The invariant is inductive. *)
LEMMA NextKeeps == IInv /\ [Next]_vars => IInv'
<1> SUFFICES ASSUME IInv, [Next]_vars PROVE IInv'
  OBVIOUS
<1>1. CASE UNCHANGED vars \/ \E r \in Records : RunOut(r)
  <2>1. UNCHANGED <<limit, current, count, carried, draft, kind, at, lease, taken>>
    BY <1>1 DEF vars, RunOut
  <2>2. TypeOK' /\ TakenInOrder' /\ LeasesKnown'
    BY <2>1 DEF IInv, TypeOK, TakenInOrder, Raised, LeasesKnown
  <2> QED
    BY <2>1, <2>2, QuietStep
<1>2. CASE \E h \in Handlers : HandlerSteps(h)
  BY <1>2, WalkKeeps, LeaseKeeps, EndKeeps DEF HandlerSteps
<1>3. CASE \E r \in Edited : Clone(r) \/ Save(r)
  BY <1>3, EditKeeps
<1> QED
  BY <1>1, <1>2, <1>3 DEF Next, RecordSteps

(* No counter keeps the slot of a connection that is over, whatever the number of connections, whichever step of a *)
(* handler fails and however often the records are replaced meanwhile (acquireConnectionLease, Release). *)
THEOREM SlotsReturnAlways == Spec => []SlotsReturn
<1>1. IInv => SlotsReturn
  BY DEF IInv
<1> QED
  BY InitIInv, NextKeeps, <1>1, PTL DEF Spec

(* The limit of the owning user bounds the connections that hold a slot on one version of their record: the user's *)
(* counter is the one that a refusal further on gives back only when it was raised. *)
UserLimitKept ==
  \A v \in Versions : limit["user"] > 0 => Cardinality(Holders("user", v)) <= limit["user"]
(* It needs the exact counter, not only that slots come back. *)
THEOREM UserLimitAlways == Spec => []UserLimitKept
<1>1. IInv => UserLimitKept
  <2> SUFFICES ASSUME IInv, NEW v \in Versions, limit["user"] > 0
               PROVE  Cardinality(Holders("user", v)) <= limit["user"]
    BY DEF UserLimitKept
  <2>1. /\ Cardinality(Holders("user", v)) \in Nat /\ carried["user"][v] \in Nat /\ limit["user"] \in Nat
        /\ count["user"][v] = Cardinality(Holders("user", v)) + carried["user"][v]
        /\ count["user"][v] <= limit["user"]
    BY HoldersFinite DEF IInv, TypeOK, UserExact, Records
  <2> QED
    BY <2>1
<1> QED
  BY InitIInv, NextKeeps, <1>1, PTL DEF Spec

-----------------------------------------------------------------------------
(* The proof of NothingLeftOpen, for any number of handlers.  What a handler *)
(* holds at a step is what its connection was accepted with, its lease, and  *)
(* what the steps before have got.  That every step that may fail closes all *)
(* of it is a fact about the code of each kind, put together from the calls  *)
(* it is made of.  The lease is released by a deferred call on every path,   *)
(* and the connection is never left to the deferred call of handleConn.      *)
Things == {"in", "lease", "link", "node"}
StepNames ==
  {"open", "track", "ingress", "copy", "target", "resolve", "established", "request", "authorize",
   "methods", "authenticate", "result", "reply", "protocol", "route", "ingress info", "ack", "hello",
   "name", "host", "source", "tls", "header", "header again", "hijack", "send handshake", "read handshake",
   "answer", "buffered", "status", "valid", "redirect", "backend", "destination", "redirect url",
   "round trip"}
StepType == [name : StepNames, gets : SUBSET Things, drops : SUBSET Things, fails : BOOLEAN]
Left(drops, had) == (had \ (drops \union {"lease"})) \ (IF "link" \in drops THEN {"node"} ELSE {})
Fetched(code, i) == UNION {code[j].gets : j \in 1..(i - 1)}
Safe(s, had) == s.fails => Left(s.drops, had) = {}
(* Begun with had, the code leaves nothing open wherever it may fail, and has more when it is through. *)
Tidy(had, code, more) ==
  /\ code \in Seq(StepType) /\ Len(code) > 0
  /\ \A i \in 1..Len(code) : Safe(code[i], had \union Fetched(code, i))
  /\ more = had \union Fetched(code, Len(code) + 1)
(* The last step of a code is one that closes: the copying of bytes, or the round trip. *)
EndsTidy(code) == Len(code) > 0 /\ code[Len(code)].fails
AtFirst(k) == Accepted(k) \union {"lease"}

HeldKnown(h) ==
  CASE at[h] \in {"new", "done"} -> held[h] = {} /\ (at[h] = "new" => step[h] = 1)
    [] at[h] = "before" -> held[h] \subseteq Accepted(kind[h]) /\ step[h] \in 1..Len(Before(kind[h]))
    [] at[h] = "serve" -> /\ held[h] \subseteq AtFirst(kind[h]) \union Fetched(Steps(kind[h]), step[h])
                          /\ step[h] \in 1..Len(Steps(kind[h]))
    [] OTHER -> held[h] \subseteq Accepted(kind[h]) /\ step[h] = 1
HInv ==
  /\ kind \in [Handlers -> Kinds]
  /\ step \in [Handlers -> Nat]
  /\ held \in [Handlers -> SUBSET Things]
  /\ \A h \in Handlers : HeldKnown(h)

(* One step. *)
LEMMA TidyStep ==
  ASSUME NEW had, NEW s \in StepType, Safe(s, had)
  PROVE  Tidy(had, <<s>>, had \union s.gets) /\ (s.fails => EndsTidy(<<s>>))
<1> DEFINE c == <<s>>
<1>1. c \in Seq(StepType) /\ Len(c) = 1 /\ c[1] = s
  OBVIOUS
<1> HIDE DEF c
<1>2. Fetched(c, 1) = {} /\ Fetched(c, 2) = s.gets
  <2>1. 1..(1 - 1) = {} /\ 1..(2 - 1) = {1}
    OBVIOUS
  <2> QED
    BY <1>1, <2>1 DEF Fetched
<1>3. had \union {} = had
  OBVIOUS
<1>4. ASSUME NEW i \in 1..Len(c) PROVE Safe(c[i], had \union Fetched(c, i))
  <2>1. i = 1
    BY <1>1
  <2> QED
    BY <1>1, <1>2, <1>3, <2>1, Zenon
<1>5. Len(c) > 0 /\ Len(c) + 1 = 2
  BY <1>1
<1>6. Tidy(had, c, had \union s.gets)
  BY <1>1, <1>2, <1>4, <1>5, Zenon DEF Tidy
<1>7. s.fails => EndsTidy(c)
  BY <1>1, <1>5, Zenon DEF EndsTidy
<1> QED
  BY <1>6, <1>7 DEF c

(* One piece of code after another. *)
LEMMA TidyThen ==
  ASSUME NEW A, NEW a, NEW B, NEW b, NEW C, Tidy(A, a, B), Tidy(B, b, C)
  PROVE  Tidy(A, a \o b, C) /\ (EndsTidy(b) => EndsTidy(a \o b))
<1> DEFINE c == a \o b
<1>1. /\ a \in Seq(StepType) /\ b \in Seq(StepType) /\ Len(a) \in Nat /\ Len(b) \in Nat /\ Len(a) > 0 /\ Len(b) > 0
      /\ c \in Seq(StepType) /\ Len(c) = Len(a) + Len(b)
      /\ \A i \in 1..Len(a) : c[i] = a[i]
      /\ \A i \in 1..Len(b) : c[Len(a) + i] = b[i]
  BY DEF Tidy
<1> HIDE DEF c
<1>2. ASSUME NEW i \in 1..(Len(a) + 1) PROVE Fetched(c, i) = Fetched(a, i)
  <2>1. \A j \in 1..(i - 1) : c[j] = a[j]
    BY <1>1
  <2> QED
    BY <2>1 DEF Fetched
<1>3. ASSUME NEW i \in 1..(Len(b) + 1)
      PROVE  A \union Fetched(c, Len(a) + i) = B \union Fetched(b, i)
  <2>1. B = A \union Fetched(a, Len(a) + 1)
    BY DEF Tidy
  <2>2. Fetched(c, Len(a) + i) = Fetched(a, Len(a) + 1) \union Fetched(b, i)
    <3>1. ASSUME NEW x \in Fetched(c, Len(a) + i) PROVE x \in Fetched(a, Len(a) + 1) \/ x \in Fetched(b, i)
      <4>1. PICK j \in 1..(Len(a) + i - 1) : x \in c[j].gets
        BY <3>1 DEF Fetched
      <4>2. CASE j <= Len(a)
        <5>1. j \in 1..((Len(a) + 1) - 1) /\ c[j] = a[j]
          BY <1>1, <4>2
        <5> QED
          BY <4>1, <5>1 DEF Fetched
      <4>3. CASE j > Len(a)
        <5> DEFINE k == j - Len(a)
        <5>2. k \in 1..(i - 1) /\ k \in 1..Len(b) /\ j = Len(a) + k
          BY <1>1, <4>3
        <5> HIDE DEF k
        <5>3. c[j] = b[k]
          BY <1>1, <5>2
        <5> QED
          BY <4>1, <5>2, <5>3 DEF Fetched
      <4> QED
        BY <1>1, <4>2, <4>3
    <3>2. ASSUME NEW x \in Fetched(a, Len(a) + 1) PROVE x \in Fetched(c, Len(a) + i)
      <4>1. PICK j \in 1..((Len(a) + 1) - 1) : x \in a[j].gets
        BY <3>2 DEF Fetched
      <4>2. j \in 1..(Len(a) + i - 1) /\ c[j] = a[j]
        BY <1>1
      <4> QED
        BY <4>1, <4>2 DEF Fetched
    <3>3. ASSUME NEW x \in Fetched(b, i) PROVE x \in Fetched(c, Len(a) + i)
      <4>1. PICK j \in 1..(i - 1) : x \in b[j].gets
        BY <3>3 DEF Fetched
      <4>2. Len(a) + j \in 1..(Len(a) + i - 1) /\ c[Len(a) + j] = b[j]
        BY <1>1
      <4> QED
        BY <4>1, <4>2 DEF Fetched
    <3> QED
      BY <3>1, <3>2, <3>3
  <2> QED
    BY <2>1, <2>2
<1>4. ASSUME NEW i \in 1..Len(c) PROVE Safe(c[i], A \union Fetched(c, i))
  <2>1. CASE i <= Len(a)
    <3>1. i \in 1..Len(a) /\ i \in 1..(Len(a) + 1)
      BY <1>1, <2>1
    <3>2. c[i] = a[i] /\ Fetched(c, i) = Fetched(a, i)
      BY <1>1, <1>2, <3>1
    <3>3. Safe(a[i], A \union Fetched(a, i))
      BY <3>1, Zenon DEF Tidy
    <3> QED
      BY <3>2, <3>3, Zenon
  <2>2. CASE i > Len(a)
    <3> DEFINE k == i - Len(a)
    <3>2. k \in 1..Len(b) /\ k \in 1..(Len(b) + 1) /\ i = Len(a) + k
      BY <1>1, <2>2
    <3> HIDE DEF k
    <3>3. c[i] = b[k] /\ A \union Fetched(c, i) = B \union Fetched(b, k)
      BY <1>1, <1>3, <3>2
    <3>4. Safe(b[k], B \union Fetched(b, k))
      BY <3>2, Zenon DEF Tidy
    <3> QED
      BY <3>3, <3>4, Zenon
  <2> QED
    BY <1>1, <2>1, <2>2
<1>5. C = A \union Fetched(c, Len(c) + 1)
  <2>1. Len(b) + 1 \in 1..(Len(b) + 1) /\ Len(c) + 1 = Len(a) + (Len(b) + 1)
    BY <1>1
  <2>2. C = B \union Fetched(b, Len(b) + 1)
    BY DEF Tidy
  <2> QED
    BY <1>3, <2>1, <2>2
<1>6. Tidy(A, c, C)
  BY <1>1, <1>4, <1>5 DEF Tidy
<1>7. EndsTidy(b) => EndsTidy(c)
  BY <1>1 DEF EndsTidy
<1> QED
  BY <1>6, <1>7 DEF c

LEMMA Names ==
  /\ "open" \in StepNames /\ "track" \in StepNames /\ "ingress" \in StepNames /\ "copy" \in StepNames
  /\ "target" \in StepNames /\ "resolve" \in StepNames /\ "established" \in StepNames /\ "request" \in StepNames
  /\ "authorize" \in StepNames /\ "methods" \in StepNames /\ "authenticate" \in StepNames /\ "result" \in StepNames
  /\ "reply" \in StepNames /\ "protocol" \in StepNames /\ "route" \in StepNames /\ "ingress info" \in StepNames
  /\ "ack" \in StepNames /\ "hello" \in StepNames /\ "name" \in StepNames /\ "host" \in StepNames
  /\ "source" \in StepNames /\ "tls" \in StepNames /\ "header" \in StepNames /\ "header again" \in StepNames
  /\ "hijack" \in StepNames /\ "send handshake" \in StepNames /\ "read handshake" \in StepNames /\ "answer" \in StepNames
  /\ "buffered" \in StepNames /\ "status" \in StepNames /\ "valid" \in StepNames /\ "redirect" \in StepNames
  /\ "backend" \in StepNames /\ "destination" \in StepNames /\ "redirect url" \in StepNames /\ "round trip" \in StepNames
BY Zenon DEF StepNames

(* A step that may fail, and one that may not. *)
LEMMA TidyS ==
  ASSUME NEW had, NEW n \in StepNames, NEW g \in SUBSET Things, NEW d \in SUBSET Things, Left(d, had) = {}
  PROVE  Tidy(had, <<S(n, g, d)>>, had \union g) /\ EndsTidy(<<S(n, g, d)>>)
<1>1. S(n, g, d) \in StepType /\ S(n, g, d).gets = g /\ S(n, g, d).drops = d /\ S(n, g, d).fails
  BY DEF S, StepType
<1>2. Safe(S(n, g, d), had)
  BY <1>1, Zenon DEF Safe
<1> QED
  BY <1>1, <1>2, TidyStep
LEMMA TidySure ==
  ASSUME NEW had, NEW n \in StepNames, NEW g \in SUBSET Things
  PROVE  Tidy(had, <<Sure(n, g)>>, had \union g)
<1>1. Sure(n, g) \in StepType /\ Sure(n, g).gets = g /\ ~Sure(n, g).fails
  BY DEF Sure, StepType
<1>2. Safe(Sure(n, g), had)
  BY <1>1, Zenon DEF Safe
<1> QED
  BY <1>1, <1>2, TidyStep

(* Steps written one after the other are pieces of code of one step. *)
LEMMA Two ==
  ASSUME NEW a \in StepType, NEW b \in StepType
  PROVE  <<a, b>> = <<a>> \o <<b>>
<1> DEFINE l == <<a, b>>
           r == <<a>> \o <<b>>
<1>1. l \in Seq(StepType) /\ Len(l) = 2 /\ l[1] = a /\ l[2] = b
  OBVIOUS
<1>2. r \in Seq(StepType) /\ Len(r) = 2 /\ r[1] = a /\ r[2] = b
  OBVIOUS
<1> HIDE DEF l, r
<1>3. \A j \in 1..2 : l[j] = r[j]
  BY <1>1, <1>2
<1>4. l = r
  BY <1>1, <1>2, <1>3, SeqEqual
<1> QED
  BY <1>4 DEF l, r
LEMMA Three ==
  ASSUME NEW a \in StepType, NEW b \in StepType, NEW c \in StepType
  PROVE  <<a, b, c>> = <<a>> \o <<b, c>>
<1> DEFINE l == <<a, b, c>>
           r == <<a>> \o <<b, c>>
<1>1. l \in Seq(StepType) /\ Len(l) = 3 /\ l[1] = a /\ l[2] = b /\ l[3] = c
  OBVIOUS
<1>2. r \in Seq(StepType) /\ Len(r) = 3 /\ r[1] = a /\ r[2] = b /\ r[3] = c
  OBVIOUS
<1> HIDE DEF l, r
<1>3. \A j \in 1..3 : l[j] = r[j]
  BY <1>1, <1>2
<1>4. l = r
  BY <1>1, <1>2, <1>3, SeqEqual
<1> QED
  BY <1>4 DEF l, r

(* What the pieces of the handlers start from: the connection and the lease, then the link, then its count too. *)
LEMMA Sets ==
  /\ {"in", "lease"} \union {} = {"in", "lease"}
  /\ {"in", "lease"} \union {"link"} = {"in", "lease", "link"}
  /\ {"in", "lease", "link"} \union {} = {"in", "lease", "link"}
  /\ {"in", "lease", "link"} \union {"node"} = Things
  /\ {"in", "lease"} \union {"link", "node"} = Things
  /\ {"lease"} \union {} = {"lease"}
  /\ {"lease"} \union {"link", "node"} = {"lease", "link", "node"}
  /\ {"lease", "link", "node"} \union {} = {"lease", "link", "node"}
  /\ {"lease", "link", "node"} \union {"in"} = Things
  /\ Things \union {} = Things
BY DEF Things

LEMMA Clears ==
  /\ Left({"in"}, {"in", "lease"}) = {}
  /\ Left({"link", "in"}, {"in", "lease", "link"}) = {}
  /\ Left({"link", "in"}, Things) = {}
  /\ Left({}, {"lease"}) = {}
  /\ Left({"link"}, {"lease", "link", "node"}) = {}
BY DEF Left, Things

LEMMA Parts ==
  /\ {} \in SUBSET Things /\ {"in"} \in SUBSET Things /\ {"link"} \in SUBSET Things /\ {"node"} \in SUBSET Things
  /\ {"link", "in"} \in SUBSET Things /\ {"link", "node"} \in SUBSET Things
BY DEF Things

(* Before the link: a step that gets nothing and closes the connection. *)
LEMMA EarlyStep == ASSUME NEW n \in StepNames PROVE Tidy({"in", "lease"}, <<S(n, {}, {"in"})>>, {"in", "lease"})
BY TidyS, Sets, Clears, Parts
(* With the link and its count. *)
LEMMA LateStep ==
  ASSUME NEW n \in StepNames
  PROVE  Tidy(Things, <<S(n, {}, {"link", "in"})>>, Things) /\ EndsTidy(<<S(n, {}, {"link", "in"})>>)
BY TidyS, Sets, Clears, Parts
(* A request of the HTTP server, without the connection. *)
LEMMA WebStep ==
  ASSUME NEW n \in StepNames
  PROVE  /\ Tidy({"lease"}, <<S(n, {}, {})>>, {"lease"}) /\ EndsTidy(<<S(n, {}, {})>>)
         /\ Tidy({"lease", "link", "node"}, <<S(n, {}, {"link"})>>, {"lease", "link", "node"})
BY TidyS, Sets, Clears, Parts
(* The steps that get something, and those between the link and its count. *)
LEMMA GetStep ==
  ASSUME NEW n \in StepNames
  PROVE  /\ Tidy({"in", "lease"}, <<S(n, {"link"}, {"in"})>>, {"in", "lease", "link"})
         /\ Tidy({"in", "lease"}, <<S(n, {"link", "node"}, {"in"})>>, Things)
         /\ Tidy({"lease"}, <<S(n, {"link", "node"}, {})>>, {"lease", "link", "node"})
         /\ Tidy({"lease", "link", "node"}, <<S(n, {"in"}, {"link"})>>, Things)
         /\ Tidy({"in", "lease", "link"}, <<S(n, {}, {"link", "in"})>>, {"in", "lease", "link"})
BY TidyS, Sets, Clears, Parts
LEMMA SureStep ==
  ASSUME NEW n \in StepNames
  PROVE  /\ Tidy({"in", "lease"}, <<Sure(n, {})>>, {"in", "lease"})
         /\ Tidy({"in", "lease", "link"}, <<Sure(n, {"node"})>>, Things)
BY TidySure, Sets, Parts
LEMMA Fields == \A n, g, d : S(n, g, d).gets = g /\ S(n, g, d).drops = d
BY DEF S
LEMMA StepTypes ==
  ASSUME NEW n \in StepNames, NEW g \in SUBSET Things, NEW d \in SUBSET Things
  PROVE  S(n, g, d) \in StepType /\ Sure(n, g) \in StepType
BY Parts DEF S, Sure, StepType

LEMMA TidyTwo ==
  ASSUME NEW a \in StepType, NEW b \in StepType, NEW A, NEW B, NEW C, Tidy(A, <<a>>, B), Tidy(B, <<b>>, C)
  PROVE  Tidy(A, <<a, b>>, C) /\ (EndsTidy(<<b>>) => EndsTidy(<<a, b>>))
<1>1. Tidy(A, <<a>> \o <<b>>, C) /\ (EndsTidy(<<b>>) => EndsTidy(<<a>> \o <<b>>))
  BY TidyThen, Zenon
<1> QED
  BY <1>1, Two, Zenon
LEMMA TidyThree ==
  ASSUME NEW a \in StepType, NEW b \in StepType, NEW c \in StepType, NEW A, NEW B, NEW C, NEW D,
         Tidy(A, <<a>>, B), Tidy(B, <<b>>, C), Tidy(C, <<c>>, D)
  PROVE  Tidy(A, <<a, b, c>>, D) /\ (EndsTidy(<<c>>) => EndsTidy(<<a, b, c>>))
<1>1. Tidy(B, <<b, c>>, D) /\ (EndsTidy(<<c>>) => EndsTidy(<<b, c>>))
  BY TidyTwo, Zenon
<1>2. Tidy(A, <<a>> \o <<b, c>>, D) /\ (EndsTidy(<<b, c>>) => EndsTidy(<<a>> \o <<b, c>>))
  BY <1>1, TidyThen, Zenon
<1> QED
  BY <1>1, <1>2, Three, Zenon

(* The link is opened, and the bytes are copied: the ends of most handlers. *)
LEMMA OpenTidy == Tidy({"in", "lease"}, OpenClientLink, {"in", "lease", "link"})
BY GetStep, Names, Zenon DEF OpenClientLink
LEMMA PipeTidy == Tidy({"in", "lease", "link"}, PipeClientConn, Things) /\ EndsTidy(PipeClientConn)
<1>1. Tidy({"in", "lease", "link"}, <<Sure("track", {"node"})>>, Things)
  BY SureStep, Names, Zenon
<1>2. /\ Sure("track", {"node"}) \in StepType /\ S("ingress", {}, {"link", "in"}) \in StepType
      /\ S("copy", {}, {"link", "in"}) \in StepType
  BY StepTypes, Parts, Names, Zenon
<1>3. /\ Tidy(Things, <<S("ingress", {}, {"link", "in"})>>, Things)
      /\ Tidy(Things, <<S("copy", {}, {"link", "in"})>>, Things)
      /\ EndsTidy(<<S("copy", {}, {"link", "in"})>>)
  BY LateStep, Names, Zenon
<1> QED
  BY <1>1, <1>2, <1>3, TidyThree, Zenon DEF PipeClientConn
LEMMA LinkAndPipe ==
  Tidy({"in", "lease"}, OpenClientLink \o PipeClientConn, Things) /\ EndsTidy(OpenClientLink \o PipeClientConn)
BY OpenTidy, PipeTidy, TidyThen, Zenon

(* ProcessTunnel, and handleHttpsProxy of the same shape. *)
LEMMA TunnelTidy == Tidy({"in", "lease"}, ProcessTunnel, Things) /\ EndsTidy(ProcessTunnel)
<1>1. Tidy({"in", "lease"}, <<S("target", {}, {"in"})>>, {"in", "lease"})
  BY EarlyStep, Names, Zenon
<1>2. Tidy({"in", "lease"}, <<S("target", {}, {"in"})>> \o OpenClientLink, {"in", "lease", "link"})
  BY <1>1, OpenTidy, TidyThen, Zenon
<1> QED
  BY <1>2, PipeTidy, TidyThen, Zenon DEF ProcessTunnel
LEMMA HttpsTidy == Tidy({"in", "lease"}, handleHttpsProxy, Things) /\ EndsTidy(handleHttpsProxy)
<1>1. handleHttpsProxy = ProcessTunnel
  BY DEF handleHttpsProxy, ProcessTunnel, resolveHTTPSProxyBackend
<1> QED
  BY <1>1, TunnelTidy, Zenon

(* ProcessHttp and the CONNECT request it serves. *)
LEMMA ConnectTidy == Tidy({"in", "lease"}, ProcessHttp, Things) /\ EndsTidy(ProcessHttp)
<1>1. /\ Tidy({"in", "lease"}, <<S("resolve", {}, {"in"})>>, {"in", "lease"})
      /\ Tidy({"in", "lease"}, <<Sure("established", {})>>, {"in", "lease"})
      /\ Tidy({"in", "lease"}, <<S("request", {}, {"in"})>>, {"in", "lease"})
      /\ Tidy({"in", "lease"}, <<S("authorize", {}, {"in"})>>, {"in", "lease"})
  BY EarlyStep, SureStep, Names, Zenon
<1>2. /\ S("resolve", {}, {"in"}) \in StepType /\ Sure("established", {}) \in StepType
      /\ S("request", {}, {"in"}) \in StepType /\ S("authorize", {}, {"in"}) \in StepType
  BY StepTypes, Parts, Names, Zenon
<1>3. /\ Tidy({"in", "lease"}, <<S("resolve", {}, {"in"}), Sure("established", {})>>, {"in", "lease"})
      /\ Tidy({"in", "lease"}, <<S("request", {}, {"in"}), S("authorize", {}, {"in"})>>, {"in", "lease"})
  BY <1>1, <1>2, TidyTwo, Zenon
<1>4. Tidy({"in", "lease"}, <<S("resolve", {}, {"in"}), Sure("established", {})>> \o OpenClientLink,
           {"in", "lease", "link"})
  BY <1>3, OpenTidy, TidyThen, Zenon
<1>5. Tidy({"in", "lease"}, handleTunnelHTTPConnect, Things) /\ EndsTidy(handleTunnelHTTPConnect)
  BY <1>4, PipeTidy, TidyThen, Zenon DEF handleTunnelHTTPConnect
<1> QED
  BY <1>3, <1>5, TidyThen, Zenon DEF ProcessHttp

(* ProcessMix, for a SOCKS5 connection. *)
LEMMA MixTidy == Tidy({"in", "lease"}, ProcessMix, Things) /\ EndsTidy(ProcessMix)
<1>1. \A n \in StepNames : Tidy({"in", "lease"}, <<S(n, {}, {"in"})>>, {"in", "lease"}) /\ S(n, {}, {"in"}) \in StepType
  BY EarlyStep, StepTypes, Parts, Zenon
<1>2. Tidy({"in", "lease"}, negotiateSocks5Method, {"in", "lease"})
  BY <1>1, TidyTwo, Names, Zenon DEF negotiateSocks5Method
<1>3. Tidy({"in", "lease", "link"}, completeSocks5ConnectHandshake, {"in", "lease", "link"})
  <2>1. /\ Tidy({"in", "lease", "link"}, <<S("result", {}, {"link", "in"})>>, {"in", "lease", "link"})
        /\ Tidy({"in", "lease", "link"}, <<S("reply", {}, {"link", "in"})>>, {"in", "lease", "link"})
        /\ S("result", {}, {"link", "in"}) \in StepType /\ S("reply", {}, {"link", "in"}) \in StepType
    BY GetStep, StepTypes, Parts, Names, Zenon
  <2> QED
    BY <2>1, TidyTwo, Zenon DEF completeSocks5ConnectHandshake
<1>4. Tidy({"in", "lease"}, <<S("resolve", {}, {"in"})>> \o OpenClientLink, {"in", "lease", "link"})
  BY <1>1, Names, OpenTidy, TidyThen, Zenon
<1>5. Tidy({"in", "lease"}, (<<S("resolve", {}, {"in"})>> \o OpenClientLink) \o completeSocks5ConnectHandshake,
           {"in", "lease", "link"})
  BY <1>3, <1>4, TidyThen, Zenon
<1>6. Tidy({"in", "lease"}, handleSocks5Connect, Things) /\ EndsTidy(handleSocks5Connect)
  <2> DEFINE c == (<<S("resolve", {}, {"in"})>> \o OpenClientLink) \o completeSocks5ConnectHandshake
  <2>1. Tidy({"in", "lease"}, c, {"in", "lease", "link"}) /\ handleSocks5Connect = c \o PipeClientConn
    BY <1>5, Zenon DEF handleSocks5Connect
  <2> HIDE DEF c
  <2>2. Tidy({"in", "lease"}, c \o PipeClientConn, Things) /\ EndsTidy(c \o PipeClientConn)
    BY <2>1, PipeTidy, TidyThen, Zenon
  <2> QED
    BY <2>1, <2>2, Zenon
<1>7. Tidy({"in", "lease"}, <<S("protocol", {}, {"in"})>> \o negotiateSocks5Method, {"in", "lease"})
  BY <1>1, <1>2, Names, TidyThen, Zenon
<1>8. Tidy({"in", "lease"}, (<<S("protocol", {}, {"in"})>> \o negotiateSocks5Method) \o <<S("request", {}, {"in"})>>,
           {"in", "lease"})
  BY <1>1, <1>7, Names, TidyThen, Zenon
<1> QED
  BY <1>6, <1>8, TidyThen, Zenon DEF ProcessMix

(* HandleSecret. *)
LEMMA SecretTidy == Tidy({"in", "lease"}, HandleSecret, Things) /\ EndsTidy(HandleSecret)
<1>1. /\ Tidy({"in", "lease"}, <<Sure("ingress info", {})>>, {"in", "lease"})
      /\ Tidy({"in", "lease"}, <<S("route", {}, {"in"})>>, {"in", "lease"})
      /\ Tidy({"in", "lease"}, <<S("open", {"link", "node"}, {"in"})>>, Things)
  BY SureStep, EarlyStep, GetStep, Names, Zenon
<1>2. /\ S("route", {}, {"in"}) \in StepType /\ S("open", {"link", "node"}, {"in"}) \in StepType
      /\ S("ingress", {}, {"link", "in"}) \in StepType /\ S("copy", {}, {"link", "in"}) \in StepType
  BY StepTypes, Parts, Names, Zenon
<1>3. /\ Tidy(Things, <<S("ack", {}, {"link", "in"})>>, Things)
      /\ Tidy(Things, <<S("ingress", {}, {"link", "in"})>>, Things)
      /\ Tidy(Things, <<S("copy", {}, {"link", "in"})>>, Things) /\ EndsTidy(<<S("copy", {}, {"link", "in"})>>)
  BY LateStep, Names, Zenon
<1>4. Tidy({"in", "lease"}, openSecretBackend, Things)
  BY <1>1, <1>2, TidyTwo, Zenon DEF openSecretBackend
<1>5. Tidy(Things, copySecretTraffic, Things) /\ EndsTidy(copySecretTraffic)
  BY <1>2, <1>3, TidyTwo, Zenon DEF copySecretTraffic
<1>6. Tidy({"in", "lease"}, <<Sure("ingress info", {})>> \o openSecretBackend, Things)
  BY <1>1, <1>4, TidyThen, Zenon
<1>7. Tidy({"in", "lease"}, (<<Sure("ingress info", {})>> \o openSecretBackend) \o <<S("ack", {}, {"link", "in"})>>,
           Things)
  BY <1>3, <1>6, TidyThen, Zenon
<1> QED
  BY <1>5, <1>7, TidyThen, Zenon DEF HandleSecret

(* A request of the HTTP server, and the websocket it may become. *)
LEMMA HostTidy ==
  /\ Tidy({"lease"}, handleProxy, {"lease"})
  /\ Tidy({"lease"}, handleProxy \o <<S("round trip", {}, {})>>, {"lease"})
  /\ EndsTidy(handleProxy \o <<S("round trip", {}, {})>>)
<1>1. \A n \in StepNames : /\ Tidy({"lease"}, <<S(n, {}, {})>>, {"lease"}) /\ EndsTidy(<<S(n, {}, {})>>)
                          /\ S(n, {}, {}) \in StepType
  BY WebStep, StepTypes, Parts, Zenon
<1>2. Tidy({"lease"}, resolveHTTPProxyServeRequest, {"lease"})
  BY <1>1, TidyTwo, Names, Zenon DEF resolveHTTPProxyServeRequest
<1>3. Tidy({"lease"}, <<S("authorize", {}, {}), S("redirect url", {}, {})>>, {"lease"})
  BY <1>1, TidyTwo, Names, Zenon
<1>4. Tidy({"lease"}, handleProxy, {"lease"})
  BY <1>2, <1>3, TidyThen, Zenon DEF handleProxy
<1>5. Tidy({"lease"}, <<S("round trip", {}, {})>>, {"lease"}) /\ EndsTidy(<<S("round trip", {}, {})>>)
  BY <1>1, Names, Zenon
<1> QED
  BY <1>4, <1>5, TidyThen, Zenon
LEMMA WebsocketTidy ==
  Tidy({"lease"}, handleProxy \o handleResolvedWebsocket, Things) /\ EndsTidy(handleProxy \o handleResolvedWebsocket)
<1> DEFINE W == {"lease", "link", "node"}
<1>1. \A n \in StepNames : /\ Tidy(W, <<S(n, {}, {"link"})>>, W) /\ Tidy(W, <<S(n, {"in"}, {"link"})>>, Things)
                          /\ Tidy(Things, <<S(n, {}, {"link", "in"})>>, Things)
                          /\ EndsTidy(<<S(n, {}, {"link", "in"})>>)
                          /\ S(n, {}, {"link"}) \in StepType /\ S(n, {"in"}, {"link"}) \in StepType
                          /\ S(n, {}, {"link", "in"}) \in StepType /\ S(n, {"link", "node"}, {}) \in StepType
                          /\ Tidy({"lease"}, <<S(n, {"link", "node"}, {})>>, W)
  BY WebStep, LateStep, GetStep, StepTypes, Parts, Zenon
<1> HIDE DEF W
<1>2. Tidy({"lease"}, dialResolvedBackendContext, W)
  BY <1>1, TidyTwo, Names, Zenon DEF dialResolvedBackendContext
<1>3. Tidy(W, <<S("header again", {}, {"link"}), S("tls", {}, {"link"}), S("hijack", {"in"}, {"link"})>>, Things)
  BY <1>1, TidyThree, Names, Zenon
<1>4. Tidy(Things, <<S("send handshake", {}, {"link", "in"}), S("read handshake", {}, {"link", "in"}),
                     S("answer", {}, {"link", "in"})>>, Things)
  BY <1>1, TidyThree, Names, Zenon
<1>5. /\ Tidy(Things, <<S("buffered", {}, {"link", "in"}), S("status", {}, {"link", "in"}),
                        S("copy", {}, {"link", "in"})>>, Things)
      /\ EndsTidy(<<S("buffered", {}, {"link", "in"}), S("status", {}, {"link", "in"}), S("copy", {}, {"link", "in"})>>)
  BY <1>1, TidyThree, Names, Zenon
<1> DEFINE x == <<S("header again", {}, {"link"}), S("tls", {}, {"link"}), S("hijack", {"in"}, {"link"})>>
           y == <<S("send handshake", {}, {"link", "in"}), S("read handshake", {}, {"link", "in"}),
                  S("answer", {}, {"link", "in"})>>
           z == <<S("buffered", {}, {"link", "in"}), S("status", {}, {"link", "in"}), S("copy", {}, {"link", "in"})>>
<1>6. handleResolvedWebsocket = dialResolvedBackendContext \o (x \o (y \o z))
  <2> DEFINE a == S("header again", {}, {"link"})
             b == S("tls", {}, {"link"})
             c == S("hijack", {"in"}, {"link"})
             d == S("send handshake", {}, {"link", "in"})
             e == S("read handshake", {}, {"link", "in"})
             f == S("answer", {}, {"link", "in"})
             g == S("buffered", {}, {"link", "in"})
             h == S("status", {}, {"link", "in"})
             i == S("copy", {}, {"link", "in"})
  <2>1. /\ a \in StepType /\ b \in StepType /\ c \in StepType /\ d \in StepType /\ e \in StepType
        /\ f \in StepType /\ g \in StepType /\ h \in StepType /\ i \in StepType
    BY <1>1, Names, Zenon
  <2>2. /\ x = <<a, b, c>> /\ y = <<d, e, f>> /\ z = <<g, h, i>>
        /\ handleResolvedWebsocket = dialResolvedBackendContext \o <<a, b, c, d, e, f, g, h, i>>
    BY Zenon DEF handleResolvedWebsocket
  <2> HIDE DEF a, b, c, d, e, f, g, h, i, x, y, z
  <2>3. <<a, b, c, d, e, f, g, h, i>> = <<a, b, c>> \o (<<d, e, f>> \o <<g, h, i>>)
    <3> DEFINE l == <<a, b, c, d, e, f, g, h, i>>
               r == <<a, b, c>> \o (<<d, e, f>> \o <<g, h, i>>)
    <3>1. l \in Seq(StepType) /\ Len(l) = 9
          /\ l[1] = a /\ l[2] = b /\ l[3] = c /\ l[4] = d /\ l[5] = e
          /\ l[6] = f /\ l[7] = g /\ l[8] = h /\ l[9] = i
      BY <2>1
    <3>2. r \in Seq(StepType) /\ Len(r) = 9
          /\ r[1] = a /\ r[2] = b /\ r[3] = c /\ r[4] = d /\ r[5] = e
          /\ r[6] = f /\ r[7] = g /\ r[8] = h /\ r[9] = i
      BY <2>1
    <3> HIDE DEF l, r
    <3>3. \A j \in 1..9 : l[j] = r[j]
      BY <3>1, <3>2
    <3>4. l = r
      BY <3>1, <3>2, <3>3, SeqEqual
    <3> QED
      BY <3>4 DEF l, r
  <2> QED
    BY <2>2, <2>3, Zenon
<1> HIDE DEF x, y, z
<1>7. Tidy(Things, y \o z, Things) /\ EndsTidy(y \o z)
  BY <1>4, <1>5, TidyThen, Zenon DEF y, z
<1>8. Tidy(W, x \o (y \o z), Things) /\ EndsTidy(x \o (y \o z))
  BY <1>3, <1>7, TidyThen, Zenon DEF x
<1>9. Tidy({"lease"}, handleResolvedWebsocket, Things) /\ EndsTidy(handleResolvedWebsocket)
  BY <1>2, <1>6, <1>8, TidyThen, Zenon
<1> QED
  BY <1>9, HostTidy, TidyThen, Zenon

(* The steps before the lease get nothing, and close the connection where there is one. *)
LEMMA BeforeTidy ==
  ASSUME NEW k \in Kinds
  PROVE  /\ Before(k) \in Seq(StepType) /\ Len(Before(k)) > 0
         /\ \A i \in 1..Len(Before(k)) : Before(k)[i].gets = {} /\ Left(Before(k)[i].drops, Accepted(k)) = {}
<1>0. \A n \in StepNames, d \in {{}, {"in"}} :
        S(n, {}, d) \in StepType /\ S(n, {}, d).gets = {} /\ S(n, {}, d).drops = d
  BY StepTypes, Fields, Parts, Zenon
<1>1. CASE k \in {"tcp", "connect", "socks5", "secret"}
  <2> DEFINE a == S("valid", {}, {"in"})
  <2>1. a \in StepType /\ a.gets = {} /\ a.drops = {"in"}
    BY <1>0, Names, Zenon
  <2>2. Before(k) = <<a>> /\ Accepted(k) = {"in"}
    BY <1>1 DEF Before, Accepted
  <2> HIDE DEF a
  <2>3. Left({"in"}, {"in"}) = {}
    BY DEF Left
  <2> QED
    BY <2>1, <2>2, <2>3
<1>2. CASE k = "https"
  <2> DEFINE a == S("hello", {}, {"in"})
             b == S("name", {}, {"in"})
             c == S("host", {}, {"in"})
             d == S("source", {}, {"in"})
             e == S("tls", {}, {"in"})
  <2>1. /\ a \in StepType /\ b \in StepType /\ c \in StepType /\ d \in StepType /\ e \in StepType
        /\ a.gets = {} /\ b.gets = {} /\ c.gets = {} /\ d.gets = {} /\ e.gets = {}
        /\ a.drops = {"in"} /\ b.drops = {"in"} /\ c.drops = {"in"} /\ d.drops = {"in"} /\ e.drops = {"in"}
    BY <1>0, Names, Zenon
  <2>2. Before(k) = <<a, b, c, d, e>> /\ Accepted(k) = {"in"}
    BY <1>2 DEF Before, Accepted, acceptHTTPS
  <2> HIDE DEF a, b, c, d, e
  <2>3. Left({"in"}, {"in"}) = {}
    BY DEF Left
  <2> QED
    BY <2>1, <2>2, <2>3
<1>3. CASE k \in {"host", "websocket"}
  <2> DEFINE a == S("host", {}, {})
             b == S("valid", {}, {})
             c == S("source", {}, {})
             d == S("redirect", {}, {})
  <2>1. /\ a \in StepType /\ b \in StepType /\ c \in StepType /\ d \in StepType
        /\ a.gets = {} /\ b.gets = {} /\ c.gets = {} /\ d.gets = {}
        /\ a.drops = {} /\ b.drops = {} /\ c.drops = {} /\ d.drops = {}
    BY <1>0, Names, Zenon
  <2>2. Before(k) = <<a, b, c, d>> /\ Accepted(k) = {}
    BY <1>3 DEF Before, Accepted, lookupHTTPProxyHost
  <2> HIDE DEF a, b, c, d
  <2>3. Left({}, {}) = {}
    BY DEF Left
  <2> DEFINE l == <<a, b, c, d>>
  <2>4. l \in Seq(StepType) /\ Len(l) = 4 /\ l[1] = a /\ l[2] = b /\ l[3] = c /\ l[4] = d
    BY <2>1
  <2>5. Before(k) = l
    BY <2>2
  <2> HIDE DEF l
  <2>6. \A i \in 1..4 : l[i].gets = {} /\ l[i].drops = {}
    BY <2>1, <2>4
  <2>7. \A i \in 1..4 : Left(l[i].drops, Accepted(k)) = {}
    BY <2>2, <2>3, <2>6, Zenon
  <2>8. Len(l) > 0 /\ 1..Len(l) = 1..4
    BY <2>4
  <2> QED
    BY <2>4, <2>5, <2>6, <2>7, <2>8, Zenon
<1> QED
  BY <1>1, <1>2, <1>3, ProxyAssumption, Zenon
(* The steps after the lease, of every kind. *)
LEMMA StepsTidy ==
  ASSUME NEW k \in Kinds
  PROVE  EndsTidy(Steps(k)) /\ \E more : Tidy(AtFirst(k), Steps(k), more)
<1>1. k \in {"tcp", "connect", "socks5", "secret", "https", "host", "websocket"}
  BY ProxyAssumption, Zenon
<1>2. ASSUME k \in {"tcp", "connect", "socks5", "secret", "https"} PROVE AtFirst(k) = {"in", "lease"}
  BY <1>2 DEF AtFirst, Accepted
<1>3. ASSUME k \in {"host", "websocket"} PROVE AtFirst(k) = {"lease"}
  BY <1>3 DEF AtFirst, Accepted
<1>4. CASE k = "tcp"
  BY <1>2, <1>4, TunnelTidy, Zenon DEF Steps
<1>5. CASE k = "connect"
  BY <1>2, <1>5, ConnectTidy, Zenon DEF Steps
<1>6. CASE k = "socks5"
  BY <1>2, <1>6, MixTidy, Zenon DEF Steps
<1>7. CASE k = "secret"
  BY <1>2, <1>7, SecretTidy, Zenon DEF Steps
<1>8. CASE k = "https"
  BY <1>2, <1>8, HttpsTidy, Zenon DEF Steps
<1>9. CASE k = "host"
  BY <1>3, <1>9, HostTidy, Zenon DEF Steps
<1>10. CASE k = "websocket"
  BY <1>3, <1>10, WebsocketTidy, Zenon DEF Steps
<1> QED
  BY <1>1, <1>4, <1>5, <1>6, <1>7, <1>8, <1>9, <1>10

(* What a step may leave open is at most what it holds, less than that never. *)
LEMMA LeftLess == ASSUME NEW d, NEW A, NEW B, A \subseteq B, Left(d, B) = {} PROVE Left(d, A) = {}
BY DEF Left

(* A handler ends by a step that closes all that it may hold. *)
LEMMA EndsClosed ==
  ASSUME HInv, NEW h \in Handlers, NEW d, Ends(h, d), NEW B, held[h] \subseteq B, Left(d, B) = {}
  PROVE  held' = [held EXCEPT ![h] = {}] /\ at' = [at EXCEPT ![h] = "done"]
<1>1. Left(d, held[h]) = {}
  BY LeftLess
<1> DEFINE g == (held[h] \ (d \union Deferred(kind[h])))
                \ (IF "link" \in d \union Deferred(kind[h]) THEN {"node"} ELSE {})
<1>2. held' = [held EXCEPT ![h] = g] /\ at' = [at EXCEPT ![h] = "done"]
  BY DEF Ends
<1>3. "lease" \in Deferred(kind[h]) /\ "link" \notin Deferred(kind[h])
  BY DEF Deferred
<1>4. g = {}
  BY <1>1, <1>3 DEF Left
<1> HIDE DEF g
<1> QED
  BY <1>2, <1>4, Zenon

(* Nothing is held at the start. *)
LEMMA InitHInv == Init => HInv
BY DEF Init, HInv, HeldKnown, Things

(* A step of one handler: what the others hold, and where they are, is as it was. *)
LEMMA OthersKnown ==
  ASSUME HInv, TypeOK, NEW h \in Handlers, NEW p \in Places, at' = [at EXCEPT ![h] = p],
         NEW n \in Nat, step' = [step EXCEPT ![h] = n],
         NEW g \in SUBSET Things, held' = [held EXCEPT ![h] = g], kind' = kind, HeldKnown(h)'
  PROVE  HInv'
<1>1. kind' \in [Handlers -> Kinds] /\ step' \in [Handlers -> Nat] /\ held' \in [Handlers -> SUBSET Things]
  BY DEF HInv
<1>2. ASSUME NEW o \in Handlers, o # h PROVE HeldKnown(o)'
  <2>1. at'[o] = at[o] /\ step'[o] = step[o] /\ held'[o] = held[o] /\ kind'[o] = kind[o] /\ HeldKnown(o)
    BY <1>2 DEF HInv, TypeOK
  <2> QED
    BY <2>1 DEF HeldKnown
<1> QED
  BY <1>1, <1>2 DEF HInv

(* The steps before the lease is taken. *)
LEMMA WalkHeld ==
  ASSUME HInv, TypeOK, NEW h \in Handlers, Accept(h) \/ CheckFlowAndConnNum(h) PROVE HInv'
<1>0. "before" \in Places /\ "user" \in Places /\ "client" \in Places /\ "resource" \in Places /\ "serve" \in Places
      /\ "done" \in Places
  BY DEF Places
<1>1. kind[h] \in Kinds /\ HeldKnown(h) /\ held[h] \in SUBSET Things /\ step[h] \in Nat 
      /\ Accepted(kind[h]) \in SUBSET Things /\ step' = [step EXCEPT ![h] = step[h]] /\ kind' = kind
  BY DEF HInv, TypeOK, Accepted, Things, Accept, CheckFlowAndConnNum
<1>3. CASE Accept(h)
  <2>1. at' = [at EXCEPT ![h] = "before"] /\ held' = [held EXCEPT ![h] = Accepted(kind[h])] /\ step[h] = 1
    BY <1>1, <1>3 DEF Accept, HeldKnown
  <2>2. Len(Before(kind[h])) \in Nat /\ Len(Before(kind[h])) > 0
    BY <1>1, BeforeTidy
  <2>3. HeldKnown(h)'
    BY <1>1, <2>1, <2>2 DEF HeldKnown, HInv, TypeOK
  <2> QED
    BY <1>0, <1>1, <2>1, <2>3, OthersKnown, Zenon
<1>4. CASE CheckFlowAndConnNum(h)
  <2>1. at[h] = "check" /\ held[h] \subseteq Accepted(kind[h]) /\ step[h] = 1
    BY <1>1, <1>4 DEF CheckFlowAndConnNum, HeldKnown
  <2>2. CASE Ends(h, {"in"})
    <3>1. Accepted(kind[h]) \subseteq {"in"} /\ Left({"in"}, {"in"}) = {}
      BY DEF Accepted, Left
    <3>2. held' = [held EXCEPT ![h] = {}] /\ at' = [at EXCEPT ![h] = "done"]
      BY <2>1, <2>2, <3>1, EndsClosed
    <3>3. HeldKnown(h)' /\ {} \in SUBSET Things
      BY <1>1, <3>2 DEF HeldKnown, HInv, TypeOK
    <3> QED
      BY <1>0, <1>1, <3>2, <3>3, OthersKnown, Zenon
  <2>3. CASE at' = [at EXCEPT ![h] = "user"] /\ UNCHANGED held
    <3>1. held' = [held EXCEPT ![h] = held[h]]
      BY <2>3 DEF HInv
    <3>2. HeldKnown(h)'
      BY <1>1, <2>1, <2>3, <3>1 DEF HeldKnown, HInv, TypeOK
    <3> QED
      BY <1>0, <1>1, <2>3, <3>1, <3>2, OthersKnown, Zenon
  <2> QED
    BY <1>4, <2>2, <2>3 DEF CheckFlowAndConnNum
<1> QED
  BY <1>3, <1>4

(* The lease is taken, or one of its counters is full. *)
LEMMA LeaseHeld ==
  ASSUME HInv, TypeOK, NEW h \in Handlers, acquireConnectionLease(h) PROVE HInv'
<1>0. "before" \in Places /\ "user" \in Places /\ "client" \in Places /\ "resource" \in Places /\ "serve" \in Places
      /\ "done" \in Places
  BY DEF Places
<1>1. kind[h] \in Kinds /\ HeldKnown(h) /\ held[h] \in SUBSET Things /\ step[h] \in Nat 
      /\ Accepted(kind[h]) \in SUBSET Things /\ step' = [step EXCEPT ![h] = step[h]] /\ kind' = kind
  BY DEF HInv, TypeOK, Accepted, Things, acquireConnectionLease
<1>2. at[h] \in {"user", "client", "resource"} /\ held[h] \subseteq Accepted(kind[h]) /\ step[h] = 1
  BY <1>1 DEF acquireConnectionLease, HeldKnown
<1>3. CASE Ends(h, {"in"})
  <2>1. Accepted(kind[h]) \subseteq {"in"} /\ Left({"in"}, {"in"}) = {}
    BY DEF Accepted, Left
  <2>2. held' = [held EXCEPT ![h] = {}] /\ at' = [at EXCEPT ![h] = "done"]
    BY <1>2, <1>3, <2>1, EndsClosed
  <2>3. HeldKnown(h)' /\ {} \in SUBSET Things
    BY <1>1, <2>2 DEF HeldKnown, HInv, TypeOK
  <2> QED
    BY <1>0, <1>1, <2>2, <2>3, OthersKnown, Zenon
<1>4. ASSUME NEW r, NEW p \in {"client", "resource"}, acquireNext(h, r, p) PROVE HInv'
  <2>1. at' = [at EXCEPT ![h] = p] /\ held' = [held EXCEPT ![h] = held[h]] /\ p \in Places
    <3>1. p # "serve" /\ held[h] \union {} = held[h] /\ p \in Places
      BY <1>4 DEF Places
    <3> QED
      BY <1>4, <3>1, Zenon DEF acquireNext
  <2>2. HeldKnown(h)'
    BY <1>1, <1>2, <2>1 DEF HeldKnown, HInv, TypeOK
  <2> QED
    BY <1>0, <1>1, <2>1, <2>2, OthersKnown, Zenon
<1>5. ASSUME NEW r, acquireNext(h, r, "serve") PROVE HInv'
  <2>1. at' = [at EXCEPT ![h] = "serve"] /\ held' = [held EXCEPT ![h] = held[h] \union {"lease"}]
    BY <1>5 DEF acquireNext
  <2>2. held[h] \union {"lease"} \in SUBSET Things
    BY <1>1 DEF Things
  <2>3. held[h] \union {"lease"} \subseteq AtFirst(kind[h])
    BY <1>2 DEF AtFirst
  <2>4. Len(Steps(kind[h])) \in Nat /\ Len(Steps(kind[h])) > 0
    BY <1>1, StepsTidy DEF Tidy
  <2>5. HeldKnown(h)'
    BY <1>1, <1>2, <2>1, <2>3, <2>4 DEF HeldKnown, HInv, TypeOK
  <2> QED
    BY <1>0, <1>1, <2>1, <2>2, <2>5, OthersKnown, Zenon
<1> QED
  BY <1>3, <1>4, <1>5 DEF acquireConnectionLease

LEMMA FetchedNext ==
  ASSUME NEW code, NEW i \in Nat, i > 0 PROVE Fetched(code, i) \union code[i].gets \subseteq Fetched(code, i + 1)
<1>1. i \in 1..((i + 1) - 1) /\ \A j \in 1..(i - 1) : j \in 1..((i + 1) - 1)
  OBVIOUS
<1> QED
  BY <1>1 DEF Fetched

(* A step succeeds. *)
LEMMA ProceedHeld == ASSUME HInv, TypeOK, NEW h \in Handlers, Proceed(h) PROVE HInv'
<1>0. "before" \in Places /\ "check" \in Places /\ "serve" \in Places
  BY DEF Places
<1>1. kind[h] \in Kinds /\ HeldKnown(h) /\ held[h] \in SUBSET Things /\ step[h] \in Nat /\ kind' = kind
  BY DEF HInv, Proceed
<1> DEFINE got == IF local[h] THEN Step(h).gets \ {"node"} ELSE Step(h).gets
<1>2. held' = [held EXCEPT ![h] = held[h] \union got] /\ got \subseteq Step(h).gets
  BY DEF Proceed
<1> HIDE DEF got
<1>3. CASE at[h] = "before"
  <2> DEFINE code == Before(kind[h])
  <2>1. Step(h) = code[step[h]] /\ (Last(h) <=> step[h] = Len(code))
    BY <1>3, Zenon DEF Step, Code, Serving, Last
  <2>2. held[h] \subseteq Accepted(kind[h]) /\ step[h] \in 1..Len(code)
    BY <1>1, <1>3 DEF HeldKnown
  <2>3. Len(code) \in Nat /\ code[step[h]].gets = {}
    BY <1>1, <2>2, BeforeTidy
  <2> HIDE DEF code
  <2>4. held' = [held EXCEPT ![h] = held[h]]
    <3>1. held[h] \union got = held[h]
      BY <1>2, <2>1, <2>3
    <3> QED
      BY <1>2, <3>1, Zenon
  <2>5. CASE Last(h)
    <3>1. step' = [step EXCEPT ![h] = 1] /\ at' = [at EXCEPT ![h] = "check"]
      BY <2>5 DEF Proceed
    <3>2. HeldKnown(h)'
      BY <1>1, <2>2, <2>4, <3>1 DEF HeldKnown, HInv, TypeOK
    <3>3. 1 \in Nat
      OBVIOUS
    <3> QED
      BY <1>0, <1>1, <2>4, <3>1, <3>2, <3>3, OthersKnown, Zenon
  <2>6. CASE ~Last(h)
    <3>1. step' = [step EXCEPT ![h] = step[h] + 1] /\ at' = [at EXCEPT ![h] = "before"]
      BY <1>3, <2>6 DEF Proceed
    <3>2. step[h] + 1 \in Nat /\ step[h] + 1 \in 1..Len(code)
      BY <2>1, <2>2, <2>3, <2>6
    <3>3. HeldKnown(h)'
      BY <1>1, <2>2, <2>4, <3>1, <3>2 DEF HeldKnown, HInv, TypeOK, code
    <3> QED
      BY <1>0, <1>1, <2>4, <3>1, <3>2, <3>3, OthersKnown, Zenon
  <2> QED
    BY <2>5, <2>6
<1>4. CASE at[h] = "serve"
  <2> DEFINE code == Steps(kind[h])
  <2>1. Step(h) = code[step[h]] /\ (Last(h) <=> step[h] = Len(code)) /\ ~Last(h)
    BY <1>4, Zenon DEF Step, Code, Serving, Last, Proceed
  <2>2. held[h] \subseteq AtFirst(kind[h]) \union Fetched(code, step[h]) /\ step[h] \in 1..Len(code)
    BY <1>1, <1>4 DEF HeldKnown
  <2>3. Len(code) \in Nat /\ code \in Seq(StepType)
    BY <1>1, StepsTidy DEF Tidy
  <2>4. step' = [step EXCEPT ![h] = step[h] + 1] /\ at' = [at EXCEPT ![h] = "serve"]
    BY <1>4, <2>1 DEF Proceed
  <2>5. held[h] \union got \in SUBSET Things
    <3>1. code[step[h]] \in StepType
      BY <2>2, <2>3
    <3>2. code[step[h]].gets \in SUBSET Things
      BY <3>1 DEF StepType
    <3> QED
      BY <1>1, <1>2, <2>1, <3>2
  <2>6. step[h] + 1 \in Nat /\ step[h] + 1 \in 1..Len(code)
    BY <2>1, <2>2, <2>3
  <2>7. held[h] \union got \subseteq AtFirst(kind[h]) \union Fetched(code, step[h] + 1)
    <3>1. Fetched(code, step[h]) \union code[step[h]].gets \subseteq Fetched(code, step[h] + 1)
      BY <2>2, FetchedNext
    <3> QED
      BY <1>2, <2>1, <2>2, <3>1
  <2>8. HeldKnown(h)'
    BY <1>1, <1>2, <2>4, <2>6, <2>7 DEF HeldKnown, HInv, TypeOK
  <2> QED
    BY <1>0, <1>1, <1>2, <2>4, <2>5, <2>6, <2>8, OthersKnown, Zenon
<1> QED
  BY <1>3, <1>4 DEF Proceed

(* A step fails, or the last one ends: what the handler holds is closed. *)
LEMMA EndHeld == ASSUME HInv, TypeOK, NEW h \in Handlers, Finish(h) \/ Fail(h) PROVE HInv'
<1>0. "done" \in Places /\ {} \in SUBSET Things
  BY DEF Places
<1>1. kind[h] \in Kinds /\ HeldKnown(h) /\ step[h] \in Nat /\ kind' = kind /\ step' = [step EXCEPT ![h] = step[h]]
  BY DEF HInv, Finish, Fail
<1>2. Ends(h, Step(h).drops)
  BY DEF Finish, Fail
<1>3. PICK B : held[h] \subseteq B /\ Left(Step(h).drops, B) = {}
  <2>1. CASE at[h] = "before"
    <3>1. held[h] \subseteq Accepted(kind[h]) /\ step[h] \in 1..Len(Before(kind[h]))
      BY <1>1, <2>1 DEF HeldKnown
    <3>2. Step(h) = Before(kind[h])[step[h]]
      BY <2>1, Zenon DEF Step, Code, Serving
    <3> QED
      BY <1>1, <3>1, <3>2, BeforeTidy, Zenon
  <2>2. CASE at[h] = "serve"
    <3> DEFINE code == Steps(kind[h])
    <3>1. held[h] \subseteq AtFirst(kind[h]) \union Fetched(code, step[h]) /\ step[h] \in 1..Len(code)
      BY <1>1, <2>2 DEF HeldKnown
    <3>2. Step(h) = code[step[h]] /\ (Last(h) <=> step[h] = Len(code))
      BY <2>2, Zenon DEF Step, Code, Serving, Last
    <3>3. Step(h).fails
      <4>1. CASE Finish(h)
        BY <1>1, <3>2, <4>1, StepsTidy, Zenon DEF Finish, EndsTidy
      <4>2. CASE Fail(h)
        BY <4>2 DEF Fail
      <4> QED
        BY <4>1, <4>2
    <3>4. Safe(code[step[h]], AtFirst(kind[h]) \union Fetched(code, step[h]))
      BY <1>1, <3>1, StepsTidy, Zenon DEF Tidy
    <3>5. Left(Step(h).drops, AtFirst(kind[h]) \union Fetched(code, step[h])) = {}
      BY <3>2, <3>3, <3>4, Zenon DEF Safe
    <3> QED
      BY <3>1, <3>5, Zenon
  <2> QED
    BY <2>1, <2>2 DEF Finish, Fail, Serving
<1>4. held' = [held EXCEPT ![h] = {}] /\ at' = [at EXCEPT ![h] = "done"]
  BY <1>2, <1>3, EndsClosed, Zenon
<1>5. HeldKnown(h)'
  BY <1>1, <1>4 DEF HeldKnown, HInv, TypeOK
<1> QED
  BY <1>0, <1>1, <1>4, <1>5, OthersKnown, Zenon

(* What the handlers hold is known, whoever edits the records meanwhile. *)
LEMMA NextHeld == HInv /\ IInv /\ [Next]_vars => HInv'
<1> SUFFICES ASSUME HInv, IInv, [Next]_vars PROVE HInv'
  OBVIOUS
<1>1. TypeOK
  BY DEF IInv
<1>2. CASE \E h \in Handlers : HandlerSteps(h)
  BY <1>1, <1>2, WalkHeld, LeaseHeld, ProceedHeld, EndHeld, Zenon DEF HandlerSteps
<1>3. CASE UNCHANGED vars \/ RecordSteps
  <2>1. UNCHANGED <<kind, at, step, held>>
    BY <1>3 DEF vars, RecordSteps, Clone, Save, RunOut
  <2> QED
    BY <2>1 DEF HInv, HeldKnown
<1> QED
  BY <1>2, <1>3 DEF Next

(* Whichever step of whichever handler fails, and however many there are, a handler that is over has closed its *)
(* connection and its link, has given back the link's count on the client's node and holds no counter. *)
THEOREM NothingLeftOpenAlways == Spec => []NothingLeftOpen
<1>1. HInv /\ IInv => NothingLeftOpen
  <2> SUFFICES ASSUME HInv, IInv, NEW h \in Handlers, at[h] = "done" PROVE held[h] = {} /\ taken[h] = {}
    BY DEF NothingLeftOpen
  <2>1. HeldKnown(h) /\ taken[h] = Raised(h)
    BY DEF HInv, IInv, TakenInOrder
  <2> QED
    BY <2>1 DEF HeldKnown, Raised
<1> QED
  BY InitIInv, InitHInv, NextKeeps, NextHeld, <1>1, PTL DEF Spec
=============================================================================
