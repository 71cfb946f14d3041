--------------------------- MODULE UdpAssociations ---------------------------
(***************************************************************************)
(* The UDP associations of a SOCKS5 tunnel.  Every association has a        *)
(* control connection, whose handler opens a link and registers a session,  *)
(* and all share one UDP socket.  A datagram goes to the session that its   *)
(* address is bound to, or else binds the only session of its IP that is    *)
(* still unbound.  A session is closed by its handler, by its loops, by the *)
(* sweep of idle sessions or by the closing of the registry, once.          *)
(***************************************************************************)
EXTENDS Naturals, FiniteSets, Functions, TLC

CONSTANTS Sessions,     \* associations that are asked for
          Ips,          \* addresses of clients
          Ports,        \* ports they send from
          MaxDatagrams  \* datagrams received

Nobody == "nobody"
Unbound == <<>>
Addresses == Ips \X Ports

VARIABLES
  ip,        \* session -> the IP of its control connection
  handler,   \* session -> "new", "open", "register", "start", "wait", "close" or "over"
  closing,   \* session -> "no", "marked" (queue closed), "unregistered" or "yes" (link closed)
  link,      \* session -> "none", "open" or "closed"
  loops,     \* session -> its running loops, of "write" and "read"
  bound,     \* session -> the address it is bound to, or Unbound
  members, byAddr, byIP, pending,   \* the registry: its sessions, and its three indexes
  closed,    \* the registry takes no more sessions
  listening, \* its socket is open
  cancelled, \* its context is cancelled
  running,   \* its own running loops, of "read" and "sweep"
  reader,    \* the session that the datagram at hand goes to, or Nobody
  datagrams, \* datagrams received
  closer,    \* the call of Close: "idle", "cancel", "listener", "sessions", "wait" or "returned"
  snapshot   \* the sessions it closes and waits for

vars == <<ip, handler, closing, link, loops, bound, members, byAddr, byIP, pending, closed, listening, cancelled,
          running, reader, datagrams, closer, snapshot>>
registry == <<members, byAddr, byIP, pending>>
own == <<closed, listening, cancelled, running, reader, datagrams, closer, snapshot>>

Init ==
  /\ ip \in [Sessions -> Ips]
  /\ handler = [s \in Sessions |-> "new"]
  /\ closing = [s \in Sessions |-> "no"]
  /\ link = [s \in Sessions |-> "none"]
  /\ loops = [s \in Sessions |-> {}]
  /\ bound = [s \in Sessions |-> Unbound]
  /\ members = {}
  /\ byAddr = <<>>
  /\ byIP = [i \in Ips |-> {}]
  /\ pending = [i \in Ips |-> {}]
  /\ closed = FALSE
  /\ listening = TRUE
  /\ cancelled = FALSE
  /\ running = {"read", "sweep"}
  /\ reader = Nobody
  /\ datagrams = 0
  /\ closer = "idle"
  /\ snapshot = {}

-----------------------------------------------------------------------------
(* The closing of a session: its queue, its registration, its link. *)
Marked(s) == closing' = [closing EXCEPT ![s] = IF @ = "no" THEN "marked" ELSE @]

unregisterSession(s) ==
  /\ members' = members \ {s}
  /\ byAddr' = IF bound[s] \in DOMAIN byAddr /\ byAddr[bound[s]] = s
               THEN Restrict(byAddr, DOMAIN byAddr \ {bound[s]}) ELSE byAddr
  /\ pending' = [pending EXCEPT ![ip[s]] = @ \ {s}]
  /\ byIP' = [byIP EXCEPT ![ip[s]] = @ \ {s}]

SessionClose(s) ==
  \/ /\ closing[s] = "marked"
     /\ unregisterSession(s)
     /\ closing' = [closing EXCEPT ![s] = "unregistered"]
     /\ UNCHANGED <<ip, handler, link, loops, bound, own>>
  \/ /\ closing[s] = "unregistered"
     /\ link' = [link EXCEPT ![s] = "closed"]
     /\ closing' = [closing EXCEPT ![s] = "yes"]
     /\ UNCHANGED <<ip, handler, loops, bound, registry, own>>

-----------------------------------------------------------------------------
(* The handler of a control connection. *)
Goes(s, from, to) == handler[s] = from /\ handler' = [handler EXCEPT ![s] = to]

openTunnel(s) ==
  /\ \/ /\ ~closed
        /\ Goes(s, "new", "register")
        /\ link' = [link EXCEPT ![s] = "open"]
     \/ Goes(s, "new", "over") /\ UNCHANGED link
  /\ UNCHANGED <<ip, closing, loops, bound, registry, own>>

(* A registry that was closed meanwhile refuses the session, which is closed at once. *)
registerSession(s) ==
  /\ handler[s] = "register"
  /\ IF closed
     THEN Goes(s, "register", "close") /\ Marked(s) /\ UNCHANGED registry
     ELSE /\ Goes(s, "register", "start")
          /\ members' = members \union {s}
          /\ byIP' = [byIP EXCEPT ![ip[s]] = @ \union {s}]
          /\ pending' = [pending EXCEPT ![ip[s]] = @ \union {s}]
          /\ UNCHANGED <<closing, byAddr>>
  /\ UNCHANGED <<ip, link, loops, bound, own>>

(* The reply may fail to be written; then the session is closed without having been started. *)
start(s) ==
  /\ \/ Goes(s, "start", "wait") /\ loops' = [loops EXCEPT ![s] = {"write", "read"}] /\ UNCHANGED closing
     \/ Goes(s, "start", "close") /\ Marked(s) /\ UNCHANGED loops
  /\ UNCHANGED <<ip, link, bound, registry, own>>

(* The control connection ends, or the session is closed elsewhere. *)
waitForSocks5AssociateControl(s) ==
  /\ Goes(s, "wait", "close")
  /\ Marked(s)
  /\ UNCHANGED <<ip, link, loops, bound, registry, own>>

handleSocks5AssociateReturns(s) ==
  /\ closing[s] = "yes"
  /\ loops[s] = {}
  /\ Goes(s, "close", "over")
  /\ UNCHANGED <<ip, closing, link, loops, bound, registry, own>>

HandlerSteps(s) ==
  \/ openTunnel(s) \/ registerSession(s) \/ start(s) \/ waitForSocks5AssociateControl(s)
  \/ handleSocks5AssociateReturns(s)

(* The loops of a session.  The writer goes on to empty the queue until that is closed; a failure *)
(* of either closes the session. *)
Fails(s) ==
  /\ loops[s] # {}
  /\ closing[s] = "no"
  /\ Marked(s)
  /\ UNCHANGED <<ip, handler, link, loops, bound, registry, own>>

LoopEnds(s) ==
  /\ \/ "write" \in loops[s] /\ closing[s] # "no" /\ loops' = [loops EXCEPT ![s] = @ \ {"write"}]
     \/ "read" \in loops[s] /\ link[s] = "closed" /\ loops' = [loops EXCEPT ![s] = @ \ {"read"}]
  /\ UNCHANGED <<ip, handler, closing, link, bound, registry, own>>

-----------------------------------------------------------------------------
(* The registry's reader and its sweep. *)
bindKeepsPending(s, a) ==
  /\ bound' = [bound EXCEPT ![s] = a]
  /\ byAddr' = (a :> s) @@ byAddr
  /\ UNCHANGED pending
bindSessionLocked(s, a) ==
  /\ bound' = [bound EXCEPT ![s] = a]
  /\ byAddr' = (a :> s) @@ byAddr
  /\ pending' = [pending EXCEPT ![ip[s]] = @ \ {s}]

pickSession(a) ==
  /\ "read" \in running
  /\ listening
  /\ reader = Nobody
  /\ datagrams < MaxDatagrams
  /\ datagrams' = datagrams + 1
  /\ \/ /\ a \in DOMAIN byAddr
        /\ reader' = byAddr[a]
        /\ UNCHANGED <<bound, registry>>
     \/ /\ a \notin DOMAIN byAddr
        /\ Cardinality(pending[a[1]]) = 1
        /\ \E s \in pending[a[1]] : bindSessionLocked(s, a) /\ reader' = s
        /\ UNCHANGED <<members, byIP>>
     \/ /\ a \notin DOMAIN byAddr
        /\ Cardinality(pending[a[1]]) # 1
        /\ UNCHANGED <<reader, bound, registry>>
  /\ UNCHANGED <<ip, handler, closing, link, loops, closed, listening, cancelled, running, closer, snapshot>>

enqueue ==
  /\ reader # Nobody
  /\ reader' = Nobody
  /\ UNCHANGED <<ip, handler, closing, link, loops, bound, registry, closed, listening, cancelled, running,
                 datagrams, closer, snapshot>>

readLoopEnds ==
  /\ "read" \in running
  /\ reader = Nobody
  /\ ~listening
  /\ running' = running \ {"read"}
  /\ UNCHANGED <<ip, handler, closing, link, loops, bound, registry, closed, listening, cancelled, reader,
                 datagrams, closer, snapshot>>

cleanupLoop ==
  /\ "sweep" \in running
  /\ \/ \E s \in members : loops[s] # {} /\ Marked(s) /\ UNCHANGED running
     \/ cancelled /\ running' = running \ {"sweep"} /\ UNCHANGED closing
  /\ UNCHANGED <<ip, handler, link, loops, bound, registry, closed, listening, cancelled, reader, datagrams,
                 closer, snapshot>>

Close ==
  /\ \/ /\ closer = "idle"
        /\ cancelled' = TRUE
        /\ closer' = "cancel"
        /\ UNCHANGED <<closed, snapshot, listening, closing>>
     \/ /\ closer = "cancel"
        /\ closed' = TRUE
        /\ snapshot' = members
        /\ closer' = "listener"
        /\ UNCHANGED <<cancelled, listening, closing>>
     \/ /\ closer = "listener"
        /\ listening' = FALSE
        /\ closer' = "sessions"
        /\ UNCHANGED <<cancelled, closed, snapshot, closing>>
     \/ /\ closer = "sessions"
        /\ closing' = [s \in Sessions |-> IF s \in snapshot /\ closing[s] = "no" THEN "marked" ELSE closing[s]]
        /\ closer' = "wait"
        /\ UNCHANGED <<cancelled, closed, snapshot, listening>>
     \/ /\ closer = "wait"
        /\ \A s \in snapshot : closing[s] = "yes" /\ loops[s] = {}
        /\ running = {}
        /\ closer' = "returned"
        /\ UNCHANGED <<cancelled, closed, snapshot, listening, closing>>
  /\ UNCHANGED <<ip, handler, link, loops, bound, registry, running, reader, datagrams>>

Next ==
  \/ \E s \in Sessions : HandlerSteps(s) \/ SessionClose(s) \/ Fails(s) \/ LoopEnds(s)
  \/ \E a \in Addresses : pickSession(a)
  \/ enqueue \/ readLoopEnds \/ cleanupLoop \/ Close

(* The goroutines run.  A control connection may stay open for ever: its handler is only sure to go *)
(* on when the session is closed. *)
Fairness ==
  /\ \A s \in Sessions :
       /\ WF_vars((handler[s] # "wait" \/ closing[s] # "no") /\ HandlerSteps(s))
       /\ WF_vars(SessionClose(s)) /\ WF_vars(LoopEnds(s))
  /\ WF_vars(enqueue) /\ WF_vars(readLoopEnds) /\ WF_vars(cancelled /\ cleanupLoop)
  /\ WF_vars(closer # "idle" /\ Close)

Spec == Init /\ [][Next]_vars /\ Fairness

-----------------------------------------------------------------------------
(* The registry and its indexes agree: a session is found under its IP as long as it is registered,   *)
(* is pending exactly until its first datagram, and then owns the address it is bound to alone; a     *)
(* handler that has returned left its session in none of them and its link closed                     *)
(* (socks5_udp_registry.go). *)
RegistryExact ==
  /\ \A i \in Ips : byIP[i] = {s \in members : ip[s] = i} /\ pending[i] = {s \in byIP[i] : bound[s] = Unbound}
  /\ \A a \in DOMAIN byAddr : byAddr[a] \in members /\ bound[byAddr[a]] = a /\ ip[byAddr[a]] = a[1]
  /\ \A s \in members : bound[s] # Unbound => bound[s] \in DOMAIN byAddr /\ byAddr[bound[s]] = s
  /\ \A s \in Sessions : handler[s] = "over" => s \notin members /\ link[s] # "open"

=============================================================================
