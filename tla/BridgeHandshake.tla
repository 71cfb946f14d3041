--------------------------- MODULE BridgeHandshake ---------------------------
EXTENDS Integers, Sequences, FiniteSets

(***************************************************************************)
(* What the bridge does with a new connection: versions, authentication    *)
(* against the clients' keys, the cache of authenticators already used,    *)
(* the answer, the work flag and its handler; the queue of secret          *)
(* connections and the loop of the server that empties it; registered      *)
(* addresses.  A connection is served by its own goroutine.                *)
(***************************************************************************)
CONSTANTS
  Conns, Clients, Special,  \* Special: hidden clients of public_vkey, visitor_vkey or both
  Flags, Ttl, MaxTime, Skews, QueueCap, MaxToggles

VARIABLES
  now, secure,
  on,        \* clients whose status is on
  pc, env,   \* connection -> step, and what its peer sends
  kind, flag,
  made,      \* envelopes made so far: the network may bring one again
  items,     \* rep.items: envelope -> time it was accepted
  uses,      \* <<connection, envelope>> accepted, the stamp not ahead of the clock (ghost)
  queue,     \* SecretChan
  owner,     \* connection -> who has it: none, closed or a service
  register,  \* registered address (of the one peer host) -> expiry, or 0
  toggles

vars == <<now, secure, on, pc, env, kind, flag, made, items, uses, queue, owner, register, toggles>>

NoEnv == [from |-> 0, ts |-> 0, n |-> 0, legacy |-> FALSE]
Kinds == {"control", "public", "visitor", "access"}

Init ==
  /\ now = Ttl /\ secure \in BOOLEAN
  /\ on = Clients
  /\ pc = [c \in Conns |-> "free"] /\ env = [c \in Conns |-> NoEnv]
  /\ kind = [c \in Conns |-> "control"] /\ flag = [c \in Conns |-> "main"]
  /\ made = {} /\ items = <<>> /\ uses = {}
  /\ queue = <<>> /\ owner = [c \in Conns |-> "none"]
  /\ register = 0 /\ toggles = 0

At(c, p) == pc[c] = p
Go(c, p) == pc' = [pc EXCEPT ![c] = p]
Closes(c) == owner' = [owner EXCEPT ![c] = "closed"] /\ Go(c, "end")
Gives(c, who) == owner' = [owner EXCEPT ![c] = who] /\ Go(c, "end")
auth == <<on, kind, made, items, uses, toggles, register>>
peer == <<now, secure, env>>

-----------------------------------------------------------------------------
(* A client dials with an authenticator of its own clock, or the network   *)
(* brings one a second time.                                               *)
Dials(c, k, d, old) ==
  LET e == [from |-> k, ts |-> now + d, n |-> Cardinality(made), legacy |-> old] IN
  /\ At(c, "free") /\ e.ts >= 0
  /\ env' = [env EXCEPT ![c] = e]
  /\ made' = made \union {e}
  /\ Go(c, "version")
  /\ UNCHANGED <<now, secure, on, kind, flag, items, uses, queue, owner, register, toggles>>
Repeats(c, e) ==
  /\ At(c, "free") /\ e \in made
  /\ env' = [env EXCEPT ![c] = e]
  /\ Go(c, "version")
  /\ UNCHANGED <<now, secure, on, kind, flag, made, items, uses, queue, owner, register, toggles>>

(* readBridgeHandshakeVersion: an old protocol is refused in secure mode. *)
ReadVersion(c) ==
  /\ At(c, "version")
  /\ IF secure /\ env[c].legacy THEN Closes(c) ELSE Go(c, "auth") /\ UNCHANGED owner
  /\ UNCHANGED <<auth, peer, flag, queue>>

(* lookupLegacyBridgeClient and verifySuccess. *)
AuthenticateLegacy(c) ==
  /\ At(c, "auth") /\ env[c].legacy
  /\ IF env[c].from \in on THEN Go(c, "work") /\ UNCHANGED owner ELSE Closes(c)
  /\ UNCHANGED <<auth, peer, flag, queue>>

TimestampOk(e) == ~secure \/ (e.ts <= now + Ttl /\ e.ts >= now - Ttl)

(* resolveRuntimeBridgeAuthContext: the time, then the client and its status. *)
Resolve(c) ==
  /\ At(c, "auth") /\ ~env[c].legacy
  /\ IF TimestampOk(env[c]) /\ env[c].from \in on THEN Go(c, "verify") /\ UNCHANGED owner ELSE Closes(c)
  /\ UNCHANGED <<auth, peer, flag, queue>>

(* The cache forgets one second early. *)
KeptEarly == [e \in {x \in DOMAIN items : items[x] > now - Ttl} |-> items[e]]
(* IsReplay first drops what is older than the window ... *)
Kept == [e \in {x \in DOMAIN items : items[x] >= now - Ttl} |-> items[e]]
(* ... then looks and records, all under one lock. *)
IsReplay(e) == e \in DOMAIN Kept
Recorded(e) == [x \in DOMAIN Kept \union {e} |-> IF x = e THEN now ELSE Kept[x]]

(* verifyBridgeRuntimeAuthEnvelope, of which nothing is left without secure mode. *)
Verify(c) ==
  LET e == env[c] IN
  /\ At(c, "verify")
  /\ \/ /\ ~secure
        /\ Go(c, "answer") /\ UNCHANGED <<owner, items, uses>>
     \/ /\ secure /\ IsReplay(e)
        /\ items' = Kept /\ Closes(c) /\ UNCHANGED uses
     \/ /\ secure /\ ~IsReplay(e)
        /\ items' = Recorded(e) /\ Go(c, "answer") /\ UNCHANGED owner
        /\ uses' = IF e.ts <= now THEN uses \union {<<c, e>>} ELSE uses
  /\ UNCHANGED <<peer, on, kind, made, toggles, register, flag, queue>>

(* writeBridgeRuntimeAuthResponse. *)
Answer(c) ==
  /\ At(c, "answer")
  /\ Go(c, "work")
  /\ UNCHANGED <<auth, peer, flag, queue, owner>>

(* bridgeAuthKindForRuntimeClient, from the keys of the configuration. *)
AuthKind(k) == IF k \in DOMAIN Special THEN Special[k] ELSE "control"

Visitors == {"register", "visitor", "secret", "p2p", "resolve"}
allowsFlag(k, f) ==
  CASE k = "access" -> f \in Visitors \union {"config"}
    [] k = "public" -> f \in {"config", "register"}
    [] k = "visitor" -> f \in Visitors
    [] k = "control" -> f \in Visitors \union {"main", "chan", "config", "file", "session"}

(* resolveBridgeRuntimeDispatch: the flag is read and must be allowed. *)
ReadWork(c, f) ==
  /\ At(c, "work")
  /\ kind' = [kind EXCEPT ![c] = AuthKind(env[c].from)]
  /\ flag' = [flag EXCEPT ![c] = f]
  /\ IF allowsFlag(kind'[c], f) THEN Go(c, f) /\ UNCHANGED owner ELSE Closes(c)
  /\ UNCHANGED <<peer, on, made, items, uses, toggles, register, queue>>

(* A read or a write fails: the peer is gone, or silent until the deadline *)
(* of the handshake.  Later reads have a deadline in register only.        *)
Fails(c) ==
  /\ pc[c] \in {"version", "auth", "answer", "work", "register", "secret", "resolve", "p2p", "session"}
  /\ Closes(c)
  /\ UNCHANGED <<auth, peer, flag, queue>>

-----------------------------------------------------------------------------
(* The handlers of typeDeal.                                               *)

Hidden(k) == k \in DOMAIN Special
Main(c) ==
  /\ At(c, "main")
  /\ IF Hidden(env[c].from) THEN Closes(c) ELSE Gives(c, "node")
  /\ UNCHANGED <<auth, peer, flag, queue>>
Tunnel(c) == At(c, "chan") /\ Gives(c, "node") /\ UNCHANGED <<auth, peer, flag, queue>>
Visitor(c) == At(c, "visitor") /\ Gives(c, "visitor") /\ UNCHANGED <<auth, peer, flag, queue>>
(* handleConfigWork: a client without leave for it is turned away. *)
Config(c) ==
  /\ At(c, "config")
  /\ Gives(c, "config") \/ (~Hidden(env[c].from) /\ Closes(c))
  /\ UNCHANGED <<auth, peer, flag, queue>>
File(c) == At(c, "file") /\ Closes(c) /\ UNCHANGED <<auth, peer, flag, queue>>
(* The P2P handlers: the session of BridgeP2P has the control connection. *)
P2P(c) ==
  /\ pc[c] \in {"resolve", "p2p", "session"}
  /\ Gives(c, "p2p") \/ Closes(c)
  /\ UNCHANGED <<auth, peer, flag, queue>>
Register(c) ==
  /\ At(c, "register")
  /\ register' = now + 1
  /\ Closes(c)
  /\ UNCHANGED <<on, kind, made, items, uses, toggles, peer, flag, queue>>
CleanupExpiredRegistrations ==
  /\ register # 0 /\ register <= now
  /\ register' = 0
  /\ UNCHANGED <<on, kind, made, items, uses, toggles, peer, flag, queue, pc, owner>>

Enqueued(c) == queue' = Append(queue, c) /\ owner' = [owner EXCEPT ![c] = "queue"] /\ Go(c, "end")
(* enqueueSecret with its timer: a full queue may have no place in time, and *)
(* the handler closes the connection.                                        *)
enqueueSecret(c) ==
  \/ Len(queue) < QueueCap /\ Enqueued(c)
  \/ Len(queue) = QueueCap /\ Closes(c) /\ UNCHANGED queue
Secret(c) == At(c, "secret") /\ enqueueSecret(c) /\ UNCHANGED <<auth, peer, flag>>

(* DealBridgeTask: HandleSecret finds the task of the password and its      *)
(* status on, or closes.                                                   *)
Deal ==
  /\ queue # <<>>
  /\ queue' = Tail(queue)
  /\ \E to \in {"closed", "secret"} : owner' = [owner EXCEPT ![Head(queue)] = to]
  /\ UNCHANGED <<auth, peer, flag, pc>>

-----------------------------------------------------------------------------
Toggle(k) ==
  /\ toggles < MaxToggles
  /\ toggles' = toggles + 1
  /\ on' = IF k \in on THEN on \ {k} ELSE on \union {k}
  /\ UNCHANGED <<now, secure, pc, env, kind, flag, made, items, uses, queue, owner, register>>
(* Between the test of the stamp and the cache nothing blocks: no second passes. *)
Time ==
  /\ now < MaxTime /\ \A c \in Conns : ~At(c, "verify")
  /\ now' = now + 1
  /\ UNCHANGED <<secure, on, pc, env, kind, flag, made, items, uses, queue, owner, register, toggles>>

Handle(c) ==
  \/ ReadVersion(c) \/ AuthenticateLegacy(c) \/ Resolve(c) \/ Verify(c) \/ Answer(c)
  \/ \E f \in Flags : ReadWork(c, f)
  \/ Fails(c)
  \/ Main(c) \/ Tunnel(c) \/ Visitor(c) \/ Config(c) \/ File(c) \/ P2P(c) \/ Register(c) \/ Secret(c)

Next ==
  \/ \E c \in Conns, k \in Clients, d \in Skews, old \in BOOLEAN : Dials(c, k, d, old)
  \/ \E c \in Conns, e \in made : Repeats(c, e)
  \/ \E c \in Conns : Handle(c)
  \/ Deal \/ CleanupExpiredRegistrations
  \/ \E k \in Clients : Toggle(k)
  \/ Time

(* Handlers run, or their deadline passes; the loop of the server runs. *)
Fairness == WF_vars(Deal) /\ \A c \in Conns : WF_vars(Handle(c))
Spec == Init /\ [][Next]_vars /\ Fairness

-----------------------------------------------------------------------------
(* In secure mode an authenticator whose stamp is not ahead of the server's *)
(* clock is accepted once: the cache remembers it for as long as its stamp  *)
(* passes.                                                                  *)
AcceptedOnce == \A x, y \in uses : x[2] = y[2] => x[1] = y[1]

=============================================================================
