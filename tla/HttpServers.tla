----------------------------- MODULE HttpServers -----------------------------
(***************************************************************************)
(* The shared HTTP proxy: an HTTP, an HTTPS and an HTTP/3 server that are   *)
(* started together and stop together, whichever of them ends first.  An    *)
(* HTTPS connection whose handshake is done is delivered to the HTTP server *)
(* through a bounded queue; a QUIC connection gets a worker, and Close      *)
(* waits for the workers.                                                   *)
(***************************************************************************)
EXTENDS Naturals, FiniteSets, Sequences

CONSTANTS Conns,     \* HTTPS connections whose handshake succeeds
          Quics,     \* QUIC connections
          QueueCap   \* connections that wait to be served

Servers == {"http", "https", "http3"}
Order == <<"http", "https", "http3">>
Closers == {"start", "outside"}

VARIABLES
  ports,     \* the servers that are configured
  socket,    \* server -> its socket: "none", "open" or "closed"
  serve,     \* server -> its Start: "none", "starting", "serving" or "ended"
  start,     \* Start of the proxy: "init", "run", "close", "wait" or "returned"
  inits,     \* servers it has still to initialise
  failed,    \* initialisation failed
  closer,    \* closer -> "idle", a stage of Close, or "returned"
  done,      \* the queue of HTTPS connections is closed
  queue,     \* connections in it
  drains,    \* closers that are emptying it
  tls,       \* connection -> "new", "deliver", "queued", "served" or "closed"
  before,    \* connections that were queued before the queue was closed
  runtimeClosed, workerClosing,   \* of the HTTP/3 server
  worker,    \* QUIC connection -> "none", "accepted", "dispatched", "tracked", "serving", "over" or "refused"
  quic       \* QUIC connection -> "none", "open" or "closed"

vars == <<ports, socket, serve, start, inits, failed, closer, done, queue, drains, tls, before, runtimeClosed,
          workerClosing, worker, quic>>
https == <<done, queue, drains, tls, before>>
http3 == <<runtimeClosed, workerClosing, worker, quic>>

Init ==
  /\ ports \in {p \in SUBSET Servers : "http3" \in p => "https" \in p}
  /\ socket = [s \in Servers |-> "none"]
  /\ serve = [s \in Servers |-> "none"]
  /\ start = "init"
  /\ inits = SelectSeq(Order, LAMBDA s : s \in ports)
  /\ failed = FALSE
  /\ closer = [c \in Closers |-> "idle"]
  /\ done = FALSE
  /\ queue = <<>>
  /\ drains = {}
  /\ tls = [c \in Conns |-> "new"]
  /\ before = {}
  /\ runtimeClosed = FALSE
  /\ workerClosing = FALSE
  /\ worker = [q \in Quics |-> "none"]
  /\ quic = [q \in Quics |-> "none"]

-----------------------------------------------------------------------------
(* Start: the sockets in turn; the first that cannot be had closes what there is. *)
initServer ==
  /\ start = "init"
  /\ inits # <<>>
  /\ \/ /\ socket' = [socket EXCEPT ![Head(inits)] = "open"]
        /\ inits' = Tail(inits)
        /\ UNCHANGED <<start, failed, closer>>
     \/ /\ failed' = TRUE
        /\ start' = "close"
        /\ closer' = [closer EXCEPT !["start"] = "http"]
        /\ UNCHANGED <<socket, inits>>
  /\ UNCHANGED <<ports, serve, https, http3>>

runRuntimeServers ==
  /\ start = "init"
  /\ inits = <<>>
  /\ IF ports = {} THEN start' = "returned" /\ UNCHANGED serve
     ELSE start' = "run" /\ serve' = [s \in Servers |-> IF s \in ports THEN "starting" ELSE "none"]
  /\ UNCHANGED <<ports, socket, inits, failed, closer, https, http3>>

(* The first server to end makes the proxy close them all. *)
closeRuntimeServers ==
  /\ start = "run"
  /\ \E s \in ports : serve[s] = "ended"
  /\ start' = "close"
  /\ closer' = [closer EXCEPT !["start"] = "http"]
  /\ UNCHANGED <<ports, socket, serve, inits, failed, https, http3>>

StartReturns ==
  /\ start = "close"
  /\ closer["start"] = "returned"
  /\ failed \/ \A s \in ports : serve[s] = "ended"
  /\ start' = "returned"
  /\ UNCHANGED <<ports, socket, serve, inits, failed, closer, https, http3>>

-----------------------------------------------------------------------------
(* The servers.  Each may also end by a failure of its own. *)
Serve(s) ==
  /\ \/ /\ serve[s] = "starting"
        /\ serve' = [serve EXCEPT ![s] = "serving"]
        /\ IF s = "http3" THEN runtimeClosed' = FALSE /\ workerClosing' = FALSE
           ELSE UNCHANGED <<runtimeClosed, workerClosing>>
     \/ /\ serve[s] = "serving"
        /\ serve' = [serve EXCEPT ![s] = "ended"]
        /\ UNCHANGED <<runtimeClosed, workerClosing>>
  /\ UNCHANGED <<ports, socket, start, inits, failed, closer, https, worker, quic>>

(* An HTTPS connection.  Deliver first looks whether the queue is closed, and then chooses between the *)
(* closing, room in the queue and its timer. *)
Handshake(c) ==
  /\ serve["https"] = "serving"
  /\ socket["https"] = "open"
  /\ tls[c] = "new"
  /\ tls' = [tls EXCEPT ![c] = IF done THEN "closed" ELSE "deliver"]
  /\ UNCHANGED <<ports, socket, serve, start, inits, failed, closer, done, queue, drains, before, http3>>

Deliver(c) ==
  /\ tls[c] = "deliver"
  /\ \/ /\ done \/ Len(queue) = QueueCap
        /\ tls' = [tls EXCEPT ![c] = "closed"]
        /\ UNCHANGED <<queue, before>>
     \/ /\ Len(queue) < QueueCap
        /\ tls' = [tls EXCEPT ![c] = "queued"]
        /\ queue' = Append(queue, c)
        /\ before' = IF done THEN before ELSE before \union {c}
  /\ UNCHANGED <<ports, socket, serve, start, inits, failed, closer, done, drains, http3>>

(* The goroutine of the HTTP server behind the queue. *)
AcceptQueued ==
  /\ queue # <<>>
  /\ ~done
  /\ tls' = [tls EXCEPT ![Head(queue)] = "served"]
  /\ queue' = Tail(queue)
  /\ UNCHANGED <<ports, socket, serve, start, inits, failed, closer, done, drains, before, http3>>

(* A QUIC connection. *)
AcceptQuic(q) ==
  /\ serve["http3"] = "serving"
  /\ socket["http3"] = "open"
  /\ worker[q] = "none"
  /\ worker' = [worker EXCEPT ![q] = "accepted"]
  /\ quic' = [quic EXCEPT ![q] = "open"]
  /\ UNCHANGED <<ports, socket, serve, start, inits, failed, closer, https, runtimeClosed, workerClosing>>

dispatchHandleQUIC(q) ==
  /\ worker[q] = "accepted"
  /\ IF workerClosing
     THEN worker' = [worker EXCEPT ![q] = "refused"] /\ quic' = [quic EXCEPT ![q] = "closed"]
     ELSE worker' = [worker EXCEPT ![q] = "dispatched"] /\ UNCHANGED quic
  /\ UNCHANGED <<ports, socket, serve, start, inits, failed, closer, https, runtimeClosed, workerClosing>>

(* It waits for a stream under the context of the running server and is served until it closes. *)
serveBridgeQUIC(q) ==
  /\ \/ /\ worker[q] = "dispatched"
        /\ worker' = [worker EXCEPT ![q] = "tracked"]
        /\ UNCHANGED quic
     \/ /\ worker[q] = "tracked"
        /\ runtimeClosed \/ quic[q] = "closed"
        /\ worker' = [worker EXCEPT ![q] = "over"]
        /\ quic' = [quic EXCEPT ![q] = "closed"]
     \/ /\ worker[q] = "tracked"
        /\ quic[q] = "open"
        /\ worker' = [worker EXCEPT ![q] = "serving"]
        /\ UNCHANGED quic
     \/ /\ worker[q] = "serving"
        /\ quic[q] = "closed"
        /\ worker' = [worker EXCEPT ![q] = "over"]
        /\ UNCHANGED quic
  /\ UNCHANGED <<ports, socket, serve, start, inits, failed, closer, https, runtimeClosed, workerClosing>>

(* The end of the socket is the end of its connections (quic-go). *)
SocketEnds(q) ==
  /\ quic[q] = "open"
  /\ socket["http3"] = "closed"
  /\ quic' = [quic EXCEPT ![q] = "closed"]
  /\ UNCHANGED <<ports, socket, serve, start, inits, failed, closer, https, runtimeClosed, workerClosing, worker>>

-----------------------------------------------------------------------------
(* Close of the proxy: the three servers in turn, those that have been initialised by then. *)
Stage(c, from, to) == closer[c] = from /\ closer' = [closer EXCEPT ![c] = to]
Shut(s) == socket' = [socket EXCEPT ![s] = IF @ = "open" THEN "closed" ELSE @]
kept == <<ports, serve, start, inits, failed>>

CloseHttp(c) ==
  /\ Stage(c, "http", "https")
  /\ Shut("http")
  /\ UNCHANGED <<kept, https, http3>>

(* Closing the queue: the mark, then what is in it. *)
CloseHttps(c) ==
  /\ \/ /\ socket["https"] = "none"
        /\ Stage(c, "https", "cancel")
        /\ UNCHANGED <<socket, https>>
     \/ /\ socket["https"] # "none"
        /\ Stage(c, "https", "drain")
        /\ done' = TRUE
        /\ drains' = IF done THEN drains ELSE {c}
        /\ UNCHANGED <<socket, queue, tls, before>>
     \/ /\ closer[c] = "drain"
        /\ c \in drains
        /\ queue # <<>>
        /\ tls' = [tls EXCEPT ![Head(queue)] = "closed"]
        /\ queue' = Tail(queue)
        /\ UNCHANGED <<closer, socket, done, drains, before>>
     \/ /\ IF c \in drains THEN queue = <<>> ELSE drains = {}
        /\ Stage(c, "drain", "cancel")
        /\ drains' = drains \ {c}
        /\ Shut("https")
        /\ UNCHANGED <<done, queue, tls, before>>
  /\ UNCHANGED <<kept, http3>>

CloseHttp3(c) ==
  /\ \/ /\ socket["http3"] = "none"
        /\ Stage(c, "cancel", "returned")
        /\ UNCHANGED <<socket, http3>>
     \/ /\ socket["http3"] # "none"
        /\ Stage(c, "cancel", "begin")
        /\ runtimeClosed' = TRUE
        /\ UNCHANGED <<socket, workerClosing, worker, quic>>
     \/ /\ Stage(c, "begin", "conns")
        /\ workerClosing' = TRUE
        /\ UNCHANGED <<socket, runtimeClosed, worker, quic>>
     \/ /\ Stage(c, "conns", "socket")
        /\ quic' = [q \in Quics |-> IF worker[q] \in {"tracked", "serving"} THEN "closed" ELSE quic[q]]
        /\ UNCHANGED <<socket, runtimeClosed, workerClosing, worker>>
     \/ /\ Stage(c, "socket", "workers")
        /\ Shut("http3")
        /\ UNCHANGED http3
     \/ /\ \A q \in Quics : worker[q] \notin {"dispatched", "tracked", "serving"}
        /\ Stage(c, "workers", "returned")
        /\ UNCHANGED <<socket, http3>>
  /\ UNCHANGED <<kept, https>>

Close ==
  /\ Stage("outside", "idle", "http")
  /\ UNCHANGED <<kept, socket, https, http3>>

CloseSteps(c) == CloseHttp(c) \/ CloseHttps(c) \/ CloseHttp3(c)

Next ==
  \/ initServer \/ runRuntimeServers \/ closeRuntimeServers \/ StartReturns
  \/ \E s \in Servers : Serve(s)
  \/ \E c \in Conns : Handshake(c) \/ Deliver(c)
  \/ AcceptQueued
  \/ \E q \in Quics : AcceptQuic(q) \/ dispatchHandleQUIC(q) \/ serveBridgeQUIC(q) \/ SocketEnds(q)
  \/ Close
  \/ \E c \in Closers : CloseSteps(c)

(* The goroutines run; a server whose socket is closed ends, one whose socket is open need not. *)
Fairness ==
  /\ WF_vars(initServer) /\ WF_vars(runRuntimeServers) /\ WF_vars(closeRuntimeServers) /\ WF_vars(StartReturns)
  /\ \A s \in Servers : WF_vars((serve[s] = "starting" \/ socket[s] = "closed") /\ Serve(s))
  /\ \A c \in Conns : WF_vars(Deliver(c))
  /\ WF_vars(AcceptQueued)
  /\ \A q \in Quics : WF_vars(dispatchHandleQUIC(q)) /\ WF_vars(serveBridgeQUIC(q)) /\ WF_vars(SocketEnds(q))
  /\ \A c \in Closers : WF_vars(CloseSteps(c))

Spec == Init /\ [][Next]_vars /\ Fairness

-----------------------------------------------------------------------------
Over == start = "returned" /\ (\A s \in Servers : socket[s] # "open")
        /\ \A q \in Quics : worker[q] \in {"none", "over", "refused"} /\ quic[q] # "open"

=============================================================================
