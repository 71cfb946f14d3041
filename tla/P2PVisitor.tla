----------------------------- MODULE P2PVisitor -----------------------------
(***************************************************************************)
(* The visitor side of P2P in the client: local services whose connections *)
(* ask the manager for a stream.  A request resolves its route with the    *)
(* server, takes the peer's transport or punches a new one (one dialer per *)
(* association, the others wait for it), and falls back to the cached      *)
(* relay tunnel, all under one deadline.  The manager may close at any     *)
(* point.  Objects reached by pointer (associations, peers) carry a        *)
(* number, since a request may hold one that has left the maps.            *)
(***************************************************************************)
EXTENDS Integers, Sequences, FiniteSets, Functions, SequencesExt

CONSTANTS
  Requests,       \* connections accepted by the local services
  LocalOf,        \* request -> local service
  Shape,          \* local -> [p2p, secret]: direct path and relay allowed
  Answers,        \* local -> what the server may resolve it to: [assoc, provider]
  Modes,          \* transports that a punching may end with
  Preferred,      \* P2PMode
  Faults,         \* what may fail: "resolve", "punch", "relay", "transport", "tunnel", "close"
  MaxObjects, MaxTransports, MaxTunnels

VARIABLES
  objs,           \* association objects, by number
  associations,   \* id -> object
  bindings,       \* local -> association id
  peers,          \* peer key -> [obj, assoc, transport, ok]
  transports,     \* transports made so far: [state, provider]
  tunnels,        \* state of the relay tunnels made so far
  cache,          \* secretConn: the current tunnel, 0 for none
  req,            \* request -> [pc, obj, peer, provider, key, actual, transport, tunnel]
  expired,        \* requests whose deadline has passed
  services,       \* local -> "idle", "checked", "listed", "over"
  closing,        \* "no", "taken", "closed"
  late            \* transports and services handed to a manager that had already given up its own

vars == <<objs, associations, bindings, peers, transports, tunnels, cache, req, expired, services, closing, late>>
routes == <<objs, associations, bindings, peers, transports, late>>
relay == <<tunnels, cache>>
life == <<services, closing>>

None == "none"
Locals == Range(LocalOf)
Empty == <<>>
Open(t) == t # 0 /\ transports[t].state = "open"
Alive(n) == n # 0 /\ tunnels[n] = "open"

buildPeerKey(uuid, mode) == <<uuid, mode>>

Idle == [pc |-> "start", obj |-> 0, peer |-> 0, provider |-> None, key |-> <<>>, actual |-> <<>>, transport |-> 0, tunnel |-> 0]
Init ==
  /\ objs = <<>> /\ associations = Empty /\ bindings = Empty /\ peers = Empty
  /\ transports = <<>> /\ tunnels = <<>> /\ cache = 0
  /\ req = [q \in Requests |-> Idle] /\ expired = {}
  /\ services = [l \in Locals |-> "idle"] /\ closing = "no" /\ late = {}

Goes(q, pc) == req' = [req EXCEPT ![q].pc = pc]
\* SendLinkInfo: the relay after the direct path, if the local allows it; a relay-only local tries again until its deadline.
Relays(l) == IF Shape[l].secret THEN "secret" ELSE "failed"
AfterRelay(q) == IF Shape[LocalOf[q]].p2p \/ q \in expired THEN "failed" ELSE "secret"
Over(q) == q \in expired \/ closing # "no"

------------------------------------------------------------------------------
(* Control connections.  A cached tunnel serves every request; one that    *)
(* fails to give a stream is closed by whoever asked.                      *)

closeTunnel(n) == IF n = 0 THEN tunnels ELSE [tunnels EXCEPT ![n] = "closed"]
\* openReusableSecretConn: the tunnel asked is closed, and whatever is cached by now is forgotten.
openFails(q) == tunnels' = closeTunnel(req[q].tunnel) /\ cache' = 0
discardSecretConnIfCurrent(n) ==
  IF n # 0 /\ n = cache THEN tunnels' = closeTunnel(n) /\ cache' = 0 ELSE UNCHANGED relay

\* A request over the tunnel seen earlier did not get its answer: no stream, or a stream that broke, or a dial that failed.
ControlFails(q) ==
  LET n == req[q].tunnel IN
  IF n = 0 THEN UNCHANGED relay
  ELSE \/ (~Alive(n) \/ Over(q)) /\ openFails(q)
       \/ discardSecretConnIfCurrent(n)
MayFail(q, fault) == fault \in Faults \/ Over(q) \/ (req[q].tunnel # 0 /\ ~Alive(req[q].tunnel))

------------------------------------------------------------------------------
(* Routes.                                                                 *)

Without(f, k) == Restrict(f, DOMAIN f \ {k})
With(f, k, v) == [x \in DOMAIN f \union {k} |-> IF x = k THEN v ELSE f[x]]

NoDetach(asc, ps) == [objs |-> objs, associations |-> asc, peers |-> ps, stale |-> 0]
\* detachLocalBindingLocked: an association that loses its last route goes, and its peer with it.
detachLocalBinding(l, keep) ==
  IF l \notin DOMAIN bindings THEN NoDetach(associations, peers)
  ELSE LET a == bindings[l] IN
    IF a \notin DOMAIN associations THEN NoDetach(associations, peers)
    ELSE LET o == associations[a]
             freed == [objs EXCEPT ![o].refs = @ \ {l}]
             k == objs[o].key
             held == k \in DOMAIN peers /\ peers[k].assoc = a IN
      IF a = keep \/ freed[o].refs # {} THEN [NoDetach(associations, peers) EXCEPT !.objs = freed]
      ELSE [objs |-> freed, associations |-> Without(associations, a),
            peers |-> IF held THEN Without(peers, k) ELSE peers,
            stale |-> IF held THEN peers[k].transport ELSE 0]

Shut(ts, t) == IF t = 0 THEN ts ELSE [ts EXCEPT ![t].state = "closed"]

\* storeResolvedRouteBindingLocked, and the stale transport closed after the lock.
Stored(q, ans) ==
  LET l == LocalOf[q]
      d == detachLocalBinding(l, ans.assoc)
      known == ans.assoc \in DOMAIN d.associations
      o == IF known THEN d.associations[ans.assoc] ELSE Len(d.objs) + 1
      fresh == [name |-> ans.assoc, key |-> buildPeerKey(ans.provider, Preferred), refs |-> {}, dialing |-> FALSE, err |-> FALSE]
      os == IF known THEN d.objs ELSE Append(d.objs, fresh)
  IN /\ o <= MaxObjects
     /\ objs' = [os EXCEPT ![o].refs = @ \union {l}]
     /\ associations' = With(d.associations, ans.assoc, o)
     /\ bindings' = With(bindings, l, ans.assoc)
     /\ peers' = d.peers
     /\ transports' = Shut(transports, d.stale)
     /\ req' = [req EXCEPT ![q].pc = "loop", ![q].obj = o, ![q].provider = ans.provider]

Begin(q) ==
  /\ req[q].pc = "start" /\ services[LocalOf[q]] = "listed"
  /\ IF Shape[LocalOf[q]].p2p THEN req' = [req EXCEPT ![q].pc = "resolve", ![q].tunnel = cache] ELSE Goes(q, "secret")
  /\ UNCHANGED <<routes, relay, expired, life>>

\* resolveRouteBinding.
Resolves(q) ==
  /\ req[q].pc = "resolve"
  /\ \/ /\ ~Over(q) /\ (req[q].tunnel = 0 \/ Alive(req[q].tunnel))
        /\ \E ans \in Answers[LocalOf[q]] : Stored(q, ans)
        /\ UNCHANGED <<relay, late>>
     \/ /\ MayFail(q, "resolve") /\ ControlFails(q)
        /\ Goes(q, Relays(LocalOf[q])) /\ UNCHANGED routes
  /\ UNCHANGED <<expired, life>>

------------------------------------------------------------------------------
(* waitOrEstablishPeer.                                                    *)

healthy(k) == k \in DOMAIN peers /\ peers[k].ok /\ Open(peers[k].transport)

\* One turn of the loop: a peer that works, somebody else's dial, or a dial of one's own.
Loop(q) ==
  /\ req[q].pc = "loop"
  /\ LET o == req[q].obj
         k == objs[o].key
     IN IF healthy(k)
        THEN /\ req' = [req EXCEPT ![q].pc = "send", ![q].peer = peers[k].obj, ![q].transport = peers[k].transport]
             /\ UNCHANGED objs
        ELSE IF objs[o].dialing
        THEN Goes(q, "wait") /\ UNCHANGED objs
        ELSE /\ objs' = [objs EXCEPT ![o].dialing = TRUE, ![o].err = FALSE]
             /\ req' = [req EXCEPT ![q].pc = "punch", ![q].key = k, ![q].tunnel = cache]
  /\ UNCHANGED <<associations, bindings, peers, transports, late, relay, expired, life>>

\* A waiter that is woken looks at the dial's error first; its own deadline ends the wait.
Wakes(q) ==
  /\ \/ req[q].pc = "woken" /\ Goes(q, IF objs[req[q].obj].err THEN Relays(LocalOf[q]) ELSE "loop")
     \/ req[q].pc = "wait" /\ Over(q) /\ Goes(q, Relays(LocalOf[q]))
  /\ UNCHANGED <<routes, relay, expired, life>>

\* openVisitorPunchSession: a dialer meets the other side, fails at once, or at its deadline.
Punch(q) ==
  /\ req[q].pc = "punch"
  /\ \/ /\ ~Over(q) /\ (req[q].tunnel = 0 \/ Alive(req[q].tunnel))
        /\ \E m \in Modes : req' = [req EXCEPT ![q].pc = "punched", ![q].actual = buildPeerKey(req[q].provider, m)]
        /\ UNCHANGED relay
     \/ MayFail(q, "punch") /\ ControlFails(q) /\ Goes(q, "dialfailed")
  /\ UNCHANGED <<routes, expired, life>>

\* establishVisitorTransport over the punched socket: KCP needs no answer, so its context is not looked at.
PunchTransport(q) ==
  /\ req[q].pc = "punched"
  /\ \/ /\ (Over(q) => req[q].actual[2] = "kcp") /\ Len(transports) < MaxTransports
        /\ transports' = Append(transports, [state |-> "open", provider |-> req[q].provider])
        /\ req' = [req EXCEPT ![q].pc = "install", ![q].transport = Len(transports) + 1]
     \/ ("punch" \in Faults \/ Over(q)) /\ Goes(q, "dialfailed") /\ UNCHANGED transports
  /\ UNCHANGED <<objs, associations, bindings, peers, late, relay, expired, life>>

\* establishPeerTransport, from its lock on: the peer of the actual key, else that of the expected key, moved there.
Install(q) ==
  /\ req[q].pc = "install"
  /\ LET k == req[q].key
         actual == req[q].actual
         o == req[q].obj
         from == IF actual \in DOMAIN peers THEN {actual} ELSE {k} \intersect DOMAIN peers
         prev == {peers[x].transport : x \in from}
         id == IF from = {} THEN req[q].transport ELSE peers[CHOOSE x \in from : TRUE].obj
     IN /\ peers' = With(Restrict(peers, DOMAIN peers \ from), actual,
                         [obj |-> id, assoc |-> objs[o].name, transport |-> req[q].transport, ok |-> TRUE])
        /\ objs' = [objs EXCEPT ![o].key = actual]
        /\ transports' = [t \in DOMAIN transports |-> IF t \in prev THEN [transports[t] EXCEPT !.state = "closed"] ELSE transports[t]]
        /\ req' = [req EXCEPT ![q].pc = "dialed", ![q].peer = id]
  /\ late' = IF closing = "no" THEN late ELSE late \union {<<"transport", req[q].transport>>}
  /\ UNCHANGED <<associations, bindings, relay, expired, life>>

\* The dialer tells the others: err is set and readyCh closed in one critical section.
Woken(o, r) == IF r.pc = "wait" /\ r.obj = o THEN [r EXCEPT !.pc = "woken"] ELSE r
DialOver(q, failed) ==
  /\ objs' = [objs EXCEPT ![req[q].obj].dialing = FALSE, ![req[q].obj].err = failed]
  /\ req' = [r \in Requests |->
       IF r = q THEN [req[q] EXCEPT !.pc = IF failed THEN Relays(LocalOf[q]) ELSE "send"] ELSE Woken(req[q].obj, req[r])]
Dialed(q) ==
  /\ req[q].pc \in {"dialed", "dialfailed"}
  /\ DialOver(q, req[q].pc = "dialfailed")
  /\ UNCHANGED <<associations, bindings, peers, transports, late, relay, expired, life>>

------------------------------------------------------------------------------
(* Sending the link over what was found.                                   *)

KeyOf(p) == {k \in DOMAIN peers : peers[k].obj = p}
\* The transport is read from the peer object when it is used, not when the peer was chosen.
Using(q) == IF KeyOf(req[q].peer) = {} THEN req[q].transport ELSE peers[CHOOSE k \in KeyOf(req[q].peer) : TRUE].transport
Marks(q, ok) == peers' = [k \in DOMAIN peers |-> IF k \in KeyOf(req[q].peer) THEN [peers[k] EXCEPT !.ok = ok] ELSE peers[k]]

\* sendViaQUIC, sendViaKCP: the attempt, and in another critical section what it says of the peer.
Send(q) ==
  /\ \/ /\ req[q].pc = "send"
        /\ \/ Open(Using(q)) /\ ~Over(q) /\ req' = [req EXCEPT ![q].pc = "sent", ![q].transport = Using(q)]
           \/ ~Open(Using(q)) /\ req' = [req EXCEPT ![q].pc = "unsent", ![q].transport = Using(q)]
           \/ Over(q) /\ req' = [req EXCEPT ![q].pc = "unsent", ![q].transport = Using(q)]
        /\ UNCHANGED peers
     \/ /\ req[q].pc \in {"sent", "unsent"}
        /\ Marks(q, req[q].pc = "sent")
        /\ Goes(q, IF req[q].pc = "sent" THEN "direct" ELSE Relays(LocalOf[q]))
  /\ UNCHANGED <<objs, associations, bindings, transports, late, relay, expired, life>>

\* getSecretConnContext: a stream of the cached tunnel, or a new tunnel that becomes the cached one.
Secret(q) ==
  /\ \/ req[q].pc = "secret" /\ req' = [req EXCEPT ![q].pc = "tunnel", ![q].tunnel = cache] /\ UNCHANGED relay
     \/ /\ req[q].pc = "tunnel" /\ req[q].tunnel # 0
        /\ \/ Alive(req[q].tunnel) /\ closing = "no" /\ Goes(q, "link") /\ UNCHANGED relay
           \/ (~Alive(req[q].tunnel) \/ Over(q)) /\ openFails(q) /\ Goes(q, AfterRelay(q))
     \/ /\ req[q].pc = "tunnel" /\ req[q].tunnel = 0
        /\ \/ /\ ~Over(q) /\ Len(tunnels) < MaxTunnels
              /\ tunnels' = Append(tunnels, "open") /\ cache' = Len(tunnels) + 1
              /\ req' = [req EXCEPT ![q].pc = "link", ![q].tunnel = Len(tunnels) + 1]
           \/ ("relay" \in Faults \/ Over(q)) /\ Goes(q, AfterRelay(q)) /\ UNCHANGED relay
  /\ UNCHANGED <<routes, expired, life>>

\* sendViaSecret after that: what breaks is blamed on the tunnel cached by then.
Link(q) ==
  /\ req[q].pc = "link"
  /\ \/ Alive(req[q].tunnel) /\ Goes(q, "relayed") /\ UNCHANGED relay
     \/ ~Alive(req[q].tunnel) /\ discardSecretConnIfCurrent(cache) /\ Goes(q, AfterRelay(q))
  /\ UNCHANGED <<routes, expired, life>>

------------------------------------------------------------------------------
(* The manager's services, its end, and what happens around it.            *)

\* The context is looked at once, the list is appended to later.
StartLocalServer(l) ==
  /\ services[l] = "idle" /\ closing = "no" /\ services' = [services EXCEPT ![l] = "checked"]
  /\ UNCHANGED <<routes, relay, req, expired, closing>>
startManagedService(l) ==
  /\ services[l] = "checked" /\ services' = [services EXCEPT ![l] = "listed"]
  /\ late' = IF closing = "no" THEN late ELSE late \union {<<"service", l>>}
  /\ UNCHANGED <<objs, associations, bindings, peers, transports, relay, req, expired, closing>>

\* Close, first part: everything taken from the maps under the lock, and closed.
Held == {peers[k].transport : k \in DOMAIN peers}
CloseForgetsPeers ==
  /\ "close" \in Faults /\ closing = "no" /\ closing' = "taken"
  /\ services' = [l \in Locals |-> IF services[l] = "listed" THEN "over" ELSE services[l]]
  /\ peers' = Empty /\ associations' = Empty /\ bindings' = Empty
  /\ UNCHANGED <<objs, late, transports, relay, req, expired>>
CloseTakes ==
  /\ "close" \in Faults /\ closing = "no" /\ closing' = "taken"
  /\ services' = [l \in Locals |-> IF services[l] = "listed" THEN "over" ELSE services[l]]
  /\ transports' = [t \in DOMAIN transports |-> IF t \in Held THEN [transports[t] EXCEPT !.state = "closed"] ELSE transports[t]]
  /\ peers' = Empty /\ associations' = Empty /\ bindings' = Empty
  /\ UNCHANGED <<objs, late, relay, req, expired>>
\* Second part: the cached tunnel.
CloseSecret ==
  /\ closing = "taken" /\ closing' = "closed"
  /\ tunnels' = closeTunnel(cache) /\ cache' = 0
  /\ UNCHANGED <<routes, req, expired, services>>

Resting == {"start", "direct", "relayed", "failed"}
Expire(q) ==
  /\ req[q].pc \notin Resting /\ q \notin expired
  /\ expired' = expired \union {q} /\ UNCHANGED <<routes, relay, req, life>>
Breaks ==
  \/ /\ "transport" \in Faults
     /\ \E t \in DOMAIN transports : Open(t) /\ transports' = [transports EXCEPT ![t].state = "dead"]
     /\ UNCHANGED <<objs, associations, bindings, peers, late, relay, req, expired, life>>
  \/ /\ "tunnel" \in Faults
     /\ \E n \in DOMAIN tunnels : Alive(n) /\ tunnels' = [tunnels EXCEPT ![n] = "dead"]
     /\ UNCHANGED <<routes, cache, req, expired, life>>

Steps(q) == Resolves(q) \/ Loop(q) \/ Wakes(q) \/ Punch(q) \/ PunchTransport(q) \/ Install(q) \/ Dialed(q) \/ Send(q) \/ Secret(q) \/ Link(q)
Next ==
  \/ \E q \in Requests : Begin(q) \/ Steps(q) \/ Expire(q)
  \/ \E l \in Locals : StartLocalServer(l) \/ startManagedService(l)
  \/ CloseTakes \/ CloseSecret \/ Breaks
Spec == Init /\ [][Next]_vars

------------------------------------------------------------------------------
(* What must hold.                                                         *)

InHand == {req[q].transport : q \in {r \in Requests : req[r].pc = "install"}}
(* A transport that is open is in the peers' map or in the hand of the     *)
(* request that punched it, through rebinding of routes, replacement,      *)
(* change of mode and Close; only one installed after Close had emptied    *)
(* the maps may stay behind.                                               *)
NoTransportLost ==
  \A t \in DOMAIN transports : Open(t) => t \in Held \union InHand \/ <<"transport", t>> \in late

(* A link goes to the provider that the request's own route was resolved   *)
(* to, although the peers' map is shared and its transports are replaced   *)
(* and moved between keys meanwhile.                                       *)
ReachesItsProvider ==
  \A q \in Requests : req[q].pc \in {"sent", "direct"} => transports[req[q].transport].provider = req[q].provider

Dialing(q) == req[q].pc \in {"punch", "punched", "install", "dialed", "dialfailed"}
(* Whoever waits for another request's dial has exactly one dialer still   *)
(* at work to wait for, so that it does not depend on its own deadline     *)
(* and two requests do not punch for one association.                      *)
WaiterHasDialer ==
  \A q \in Requests : req[q].pc = "wait" => Cardinality({r \in Requests : Dialing(r) /\ req[r].obj = req[q].obj}) = 1

=============================================================================
