----------------------------- MODULE BackendPool -----------------------------
(***************************************************************************)
(* The kept connections to the backends of an HTTP host.  A host has a pool *)
(* in the server's cache, the pool a transport for every backend that is in *)
(* use, and a transport keeps the connections that became idle.  Requests   *)
(* look up the host, the pool and the transport one after the other, and    *)
(* send over a kept connection or dial one for the host they looked up; an  *)
(* edit saves the host and then drops its pool.  A transport and a pool are *)
(* named after the request that makes them.                                 *)
(***************************************************************************)
EXTENDS Naturals, FiniteSets, FiniteSetsExt

CONSTANTS Requests, Backends,
          MaxEntries,   \* transports a pool keeps
          TTL, Interval, MaxTime,   \* life of an unused transport, time between two sweeps, and the clock's end
          MaxEdits

None == 0

VARIABLES
  version,   \* of the host: edits that were saved
  edits,     \* edits that are over
  edit,      \* the edit at work: "idle", "saved", "closed" (pool told) or "removed" (from the cache)
  doomed,    \* pool that the edit has in hand, or None
  now,       \* the clock
  cache,     \* the host's pool, or None
  items,     \* pool -> backend -> transport, or None
  nextPrune, \* pool -> time of its next sweep
  used,      \* transport -> when it was last used
  told,      \* transport -> told to close its idle connections, and those that become idle
  idle,      \* transport -> its kept connections
  at,        \* request -> "look", "pool", "load", "create", "store", "tell", "send", "wait" or "over"
  host, since,          \* request -> version of the host it looked up, and edits over by then
  backend, pool, transport, stale,   \* request -> what it has in hand; the transports it has to tell
  conn,      \* request -> the connection it uses: version of the host it was dialled for, and late
  late       \* requests that were at work while an edit was

vars == <<version, edits, edit, doomed, now, cache, items, nextPrune, used, told, idle, at, host, since, backend,
          pool, transport, stale, conn, late>>
editing == <<version, edits, edit, doomed>>
pools == <<cache, items, nextPrune, used, told, idle>>
request == <<at, host, since, backend, pool, transport, stale, conn, late>>

Init ==
  /\ version = 0
  /\ edits = 0
  /\ edit = "idle"
  /\ doomed = None
  /\ now = 0
  /\ cache = None
  /\ items = [p \in Requests |-> [b \in Backends |-> None]]
  /\ nextPrune = [p \in Requests |-> 0]
  /\ used = [t \in Requests |-> 0]
  /\ told = [t \in Requests |-> FALSE]
  /\ idle = [t \in Requests |-> {}]
  /\ at = [r \in Requests |-> "look"]
  /\ host = [r \in Requests |-> 0]
  /\ since = [r \in Requests |-> 0]
  /\ backend \in [Requests -> Backends]
  /\ pool = [r \in Requests |-> None]
  /\ transport = [r \in Requests |-> None]
  /\ stale = [r \in Requests |-> {}]
  /\ conn = [r \in Requests |-> <<0, FALSE>>]
  /\ late = {}

Tick ==
  /\ now < MaxTime
  /\ now' = now + 1
  /\ UNCHANGED <<editing, pools, request>>

-----------------------------------------------------------------------------
(* The pool. *)
Held(p) == {items[p][b] : b \in Backends} \ {None}
CloseIdle(ts) ==
  /\ told' = [t \in Requests |-> told[t] \/ t \in ts]
  /\ idle' = [t \in Requests |-> IF t \in ts THEN {} ELSE idle[t]]

pruneDueLocked(p) == now >= nextPrune[p]
pruneExpiredLocked(p) == {t \in Held(p) : now - used[t] >= TTL}
enforceCapacityLocked(kept) ==   \* the transports it may take out
  IF Cardinality(kept) <= MaxEntries THEN {{}}
  ELSE {{t} : t \in {t \in kept : \A u \in kept : used'[t] <= used'[u]}}

backendTransportPool(r) ==
  /\ at[r] = "pool"
  /\ pool' = [pool EXCEPT ![r] = IF cache = None THEN r ELSE cache]
  /\ cache' = IF cache = None THEN r ELSE cache
  /\ at' = [at EXCEPT ![r] = "load"]
  /\ UNCHANGED <<editing, now, items, nextPrune, used, told, idle, host, since, backend, transport, stale,
                 conn, late>>

loadUsableTransport(r) ==
  LET t == items[pool[r]][backend[r]] IN
  /\ at[r] = "load"
  /\ IF pruneDueLocked(pool[r]) \/ t = None
     THEN at' = [at EXCEPT ![r] = "store"] /\ UNCHANGED <<transport, used>>
     ELSE /\ transport' = [transport EXCEPT ![r] = t]
          /\ used' = [used EXCEPT ![t] = now]
          /\ at' = [at EXCEPT ![r] = "send"]
  /\ UNCHANGED <<editing, now, cache, items, nextPrune, told, idle, host, since, backend, pool, stale, conn,
                 late>>

(* The transport it has made is only kept when there is none by now; the sweep comes first. *)
storeTransport(r) ==
  LET p == pool[r]
      expired == IF pruneDueLocked(p) THEN pruneExpiredLocked(p) ELSE {}
      swept == [b \in Backends |-> IF items[p][b] \in expired THEN None ELSE items[p][b]]
      t == swept[backend[r]]
      full == [swept EXCEPT ![backend[r]] = r]
  IN /\ at[r] = "store"
     /\ nextPrune' = [nextPrune EXCEPT ![p] = IF pruneDueLocked(p) THEN now + Interval ELSE @]
     /\ IF t # None
        THEN /\ items' = [items EXCEPT ![p] = swept]
             /\ transport' = [transport EXCEPT ![r] = t]
             /\ used' = [used EXCEPT ![t] = now]
             /\ stale' = [stale EXCEPT ![r] = expired \union {r}]
        ELSE /\ used' = [used EXCEPT ![r] = now]
             /\ \E out \in enforceCapacityLocked({full[b] : b \in Backends} \ {None}) :
                  /\ items' = [items EXCEPT ![p] = [b \in Backends |-> IF full[b] \in out THEN None ELSE full[b]]]
                  /\ stale' = [stale EXCEPT ![r] = expired \union out]
             /\ transport' = [transport EXCEPT ![r] = r]
     /\ at' = [at EXCEPT ![r] = "tell"]
     /\ UNCHANGED <<editing, now, cache, told, idle, host, since, backend, pool, conn, late>>

closeIdleBackendTransports(r) ==
  /\ at[r] = "tell"
  /\ CloseIdle(stale[r])
  /\ stale' = [stale EXCEPT ![r] = {}]
  /\ at' = [at EXCEPT ![r] = "send"]
  /\ UNCHANGED <<editing, now, cache, items, nextPrune, used, host, since, backend, pool, transport, conn,
                 late>>

-----------------------------------------------------------------------------
(* A request. *)
lookupHTTPProxyHost(r) ==
  /\ at[r] = "look"
  /\ host' = [host EXCEPT ![r] = version]
  /\ since' = [since EXCEPT ![r] = edits]
  /\ late' = IF edit = "idle" THEN late ELSE late \union {r}
  /\ at' = [at EXCEPT ![r] = "pool"]
  /\ UNCHANGED <<editing, now, pools, backend, pool, transport, stale, conn>>

(* The transport (net/http): a kept connection before a new one; to ask for one ends the closing of    *)
(* those that become idle. *)
RoundTrip(r) ==
  LET t == transport[r] IN
  /\ at[r] = "send"
  /\ told' = [told EXCEPT ![t] = FALSE]
  /\ IF idle[t] = {}
     THEN conn' = [conn EXCEPT ![r] = <<host[r], FALSE>>] /\ UNCHANGED idle
     ELSE \E c \in idle[t] : conn' = [conn EXCEPT ![r] = c] /\ idle' = [idle EXCEPT ![t] = @ \ {c}]
  /\ at' = [at EXCEPT ![r] = "wait"]
  /\ UNCHANGED <<editing, now, cache, items, nextPrune, used, host, since, backend, pool, transport, stale,
                 late>>

Answered(r) ==
  LET t == transport[r] IN
  /\ at[r] = "wait"
  /\ idle' = [idle EXCEPT ![t] = IF told[t] THEN @ ELSE @ \union {<<conn[r][1], conn[r][2] \/ r \in late>>}]
  /\ at' = [at EXCEPT ![r] = "over"]
  /\ UNCHANGED <<editing, now, cache, items, nextPrune, used, told, host, since, backend, pool, transport,
                 stale, conn, late>>

(* A failure drops the backend's transport from the pool that the cache has by then. *)
removeBackendTransport(r) ==
  /\ at[r] = "wait"
  /\ IF cache = None THEN UNCHANGED <<items, told, idle>>
     ELSE /\ CloseIdle({items[cache][backend[r]]} \ {None})
          /\ items' = [items EXCEPT ![cache][backend[r]] = None]
  /\ at' = [at EXCEPT ![r] = "over"]
  /\ UNCHANGED <<editing, now, cache, nextPrune, used, host, since, backend, pool, transport, stale, conn, late>>

-----------------------------------------------------------------------------
(* An edit of the host: save, tell the cached pool, remove and tell what is cached by then. *)
CloseIdleConnections(p) ==
  IF p = None THEN UNCHANGED <<items, nextPrune, told, idle>>
  ELSE /\ CloseIdle(Held(p))
       /\ items' = [items EXCEPT ![p] = [b \in Backends |-> None]]
       /\ nextPrune' = [nextPrune EXCEPT ![p] = 0]

EditHost ==
  /\ edit = "idle"
  /\ version < MaxEdits
  /\ version' = version + 1
  /\ edit' = "saved"
  /\ late' = late \union {r \in Requests : at[r] \notin {"look", "over"}}
  /\ UNCHANGED <<edits, doomed, now, pools, at, host, since, backend, pool, transport, stale, conn>>

RemoveHostCacheForgotten ==
  /\ edit = "saved"
  /\ edit' = "idle"
  /\ edits' = edits + 1
  /\ UNCHANGED <<version, doomed, now, pools, request>>
RemoveHostCache ==
  /\ \/ /\ edit = "saved"
        /\ CloseIdleConnections(cache)
        /\ edit' = "closed"
        /\ UNCHANGED <<edits, cache, doomed>>
     \/ /\ edit = "closed"
        /\ doomed' = cache
        /\ cache' = None
        /\ edit' = "removed"
        /\ UNCHANGED <<edits, items, nextPrune, told, idle>>
     \/ /\ edit = "removed"
        /\ CloseIdleConnections(doomed)
        /\ doomed' = None
        /\ edit' = "idle"
        /\ edits' = edits + 1
        /\ UNCHANGED cache
  /\ UNCHANGED <<version, now, used, request>>

Next ==
  \/ Tick
  \/ \E r \in Requests :
       \/ lookupHTTPProxyHost(r) \/ backendTransportPool(r) \/ loadUsableTransport(r) \/ storeTransport(r)
       \/ closeIdleBackendTransports(r) \/ RoundTrip(r) \/ Answered(r) \/ removeBackendTransport(r)
  \/ EditHost \/ RemoveHostCache

Spec == Init /\ [][Next]_vars

-----------------------------------------------------------------------------
(* A request that comes after an edit of its host has returned is not sent over a connection that was  *)
(* made for the host as it was before, unless a request that overlapped the edit made or used that     *)
(* connection: pool, transports and kept connections all outlive a request (http_backend.go). *)
FreshUsesCurrent ==
  \A r \in Requests : at[r] = "wait" /\ ~conn[r][2] => conn[r][1] >= since[r]
=============================================================================
