------------------------------ MODULE UdpServer ------------------------------
(***************************************************************************)
(* The server of a UDP tunnel.  One goroutine reads the datagrams of all    *)
(* senders and keeps a session per sender; a session has a worker, which    *)
(* takes a lease, opens a link and forwards the sender's datagrams, and a   *)
(* back channel, which writes what comes back.  A session is closed by any  *)
(* of them, or by the closing of the tunnel, once: it is cancelled first,   *)
(* and the link it has by then is closed after that.                        *)
(***************************************************************************)
EXTENDS Naturals, FiniteSets

CONSTANTS Senders,       \* addresses that send datagrams
          MaxSessions,   \* sessions ever created
          QueueCap,      \* datagrams a session keeps waiting
          MaxPackets     \* datagrams received

Sessions == 1..MaxSessions
None == 0
Nobody == "nobody"

VARIABLES
  listening,  \* the socket is open
  sessions,   \* sender -> its session, or None
  made,       \* sessions created so far
  owner,      \* session -> its sender
  done,       \* session -> its context is cancelled
  closing,    \* session -> "no", "cancelled" (the link is not looked at yet) or "yes"
  conn,       \* session -> its link: "none", "open", "closed"
  known,      \* session -> the link has been given to the session
  worker,     \* session -> "none", "start", "open", "set", "run", "close", "delete", "wait" or "over"
  back,       \* session -> its back channel: "none", "run" or "over"
  lease,      \* session -> its worker holds a lease
  queue,      \* session -> datagrams waiting
  reader,     \* the sender of the datagram the reader has, or Nobody
  target,     \* the session it goes to, once it is known
  packets,    \* datagrams received
  closer,     \* the call of Close: "idle", "listener", "sessions", "wait" or "returned"
  snapshot    \* the sessions it has to close

vars == <<listening, sessions, made, owner, done, closing, conn, known, worker, back, lease, queue, reader, target,
          packets, closer, snapshot>>

Init ==
  /\ listening = TRUE
  /\ sessions = [a \in Senders |-> None]
  /\ made = 0
  /\ owner \in [Sessions -> Senders]
  /\ done = [s \in Sessions |-> FALSE]
  /\ closing = [s \in Sessions |-> "no"]
  /\ conn = [s \in Sessions |-> "none"]
  /\ known = [s \in Sessions |-> FALSE]
  /\ worker = [s \in Sessions |-> "none"]
  /\ back = [s \in Sessions |-> "none"]
  /\ lease = [s \in Sessions |-> FALSE]
  /\ queue = [s \in Sessions |-> 0]
  /\ reader = Nobody
  /\ target = None
  /\ packets = 0
  /\ closer = "idle"
  /\ snapshot = {}

-----------------------------------------------------------------------------
(* The reader.  It alone stores sessions, so that LoadOrStore finds the place free. *)
serveUDPPackets(a) ==
  /\ listening
  /\ reader = Nobody
  /\ packets < MaxPackets
  /\ packets' = packets + 1
  /\ reader' = a
  /\ UNCHANGED <<listening, sessions, made, owner, done, closing, conn, known, worker, back, lease, queue, target,
                 closer, snapshot>>

Usable(s) == s # None /\ ~done[s]

sessionForPacket ==
  /\ reader # Nobody
  /\ target = None
  /\ IF Usable(sessions[reader])
     THEN /\ target' = sessions[reader]
          /\ UNCHANGED <<sessions, made, worker>>
     ELSE /\ made < MaxSessions
          /\ owner[made + 1] = reader
          /\ made' = made + 1
          /\ sessions' = [sessions EXCEPT ![reader] = made + 1]
          /\ worker' = [worker EXCEPT ![made + 1] = "start"]
          /\ target' = made + 1
  /\ UNCHANGED <<listening, owner, done, closing, conn, known, back, lease, queue, reader, packets, closer, snapshot>>

(* A full queue drops the datagram; of a cancelled session either case may be taken. *)
handleUDPPacket ==
  /\ target # None
  /\ \/ /\ done[target] \/ queue[target] = QueueCap
        /\ UNCHANGED queue
     \/ /\ queue[target] < QueueCap
        /\ queue' = [queue EXCEPT ![target] = @ + 1]
  /\ reader' = Nobody
  /\ target' = None
  /\ UNCHANGED <<listening, sessions, made, owner, done, closing, conn, known, worker, back, lease, packets,
                 closer, snapshot>>

-----------------------------------------------------------------------------
(* session.close, once: cancel, then close the link the session knows. *)
Cancelled(s) ==
  /\ done' = [done EXCEPT ![s] = TRUE]
  /\ closing' = [closing EXCEPT ![s] = IF @ = "no" THEN "cancelled" ELSE @]

closeConn(s) ==
  /\ closing[s] = "cancelled"
  /\ closing' = [closing EXCEPT ![s] = "yes"]
  /\ conn' = [conn EXCEPT ![s] = IF known[s] THEN "closed" ELSE @]
  /\ UNCHANGED <<listening, sessions, made, owner, done, known, worker, back, lease, queue, reader, target, packets,
                 closer, snapshot>>

-----------------------------------------------------------------------------
(* The worker. *)
Goes(s, from, to) == worker[s] = from /\ worker' = [worker EXCEPT ![s] = to]
kept == <<listening, made, owner, reader, target, packets, closer, snapshot>>

(* A malformed task or a refused lease ends it at once. *)
acquireUDPWorkerLease(s) ==
  /\ \/ Goes(s, "start", "open") /\ lease' = [lease EXCEPT ![s] = TRUE]
     \/ Goes(s, "start", "close") /\ UNCHANGED lease
  /\ UNCHANGED <<kept, sessions, done, closing, conn, known, back, queue>>

OpenLink(s) ==
  /\ \/ Goes(s, "open", "set") /\ conn' = [conn EXCEPT ![s] = "open"]
     \/ Goes(s, "open", "close") /\ UNCHANGED conn
  /\ UNCHANGED <<kept, sessions, done, closing, known, back, lease, queue>>

(* A session that was closed meanwhile does not take the link: it is closed here. *)
setConn(s) ==
  IF done[s] THEN conn' = [conn EXCEPT ![s] = "closed"] /\ UNCHANGED known
  ELSE known' = [known EXCEPT ![s] = TRUE] /\ UNCHANGED conn

prepareUDPWorkerRuntime(s) ==
  /\ Goes(s, "set", "run")
  /\ setConn(s)
  /\ back' = [back EXCEPT ![s] = "run"]
  /\ UNCHANGED <<kept, sessions, done, closing, lease, queue>>

forwardUDPClientPackets(s) ==
  /\ worker[s] = "run"
  /\ \/ /\ done[s]
        /\ Goes(s, "run", "close")
        /\ UNCHANGED <<queue, done, closing>>
     \/ /\ queue[s] > 0
        /\ queue' = [queue EXCEPT ![s] = @ - 1]
        /\ \/ conn[s] = "open" /\ UNCHANGED <<worker, done, closing>>
           \/ Goes(s, "run", "close") /\ Cancelled(s)
  /\ UNCHANGED <<kept, sessions, conn, known, back, lease>>

cleanupUDPClientSession(s) ==
  /\ \/ /\ Goes(s, "close", "delete")
        /\ Cancelled(s)
        /\ lease' = [lease EXCEPT ![s] = FALSE]
        /\ UNCHANGED <<sessions, queue>>
     \/ /\ closing[s] = "yes"
        /\ Goes(s, "delete", "wait")
        /\ sessions' = [sessions EXCEPT ![owner[s]] = IF @ = s THEN None ELSE @]
        /\ UNCHANGED <<queue, done, closing, lease>>
     \/ /\ back[s] # "run"
        /\ Goes(s, "wait", "over")
        /\ queue' = [queue EXCEPT ![s] = 0]
        /\ UNCHANGED <<sessions, done, closing, lease>>
  /\ UNCHANGED <<kept, conn, known, back>>

WorkerSteps(s) ==
  \/ acquireUDPWorkerLease(s) \/ OpenLink(s) \/ prepareUDPWorkerRuntime(s)
  \/ forwardUDPClientPackets(s) \/ cleanupUDPClientSession(s)

(* The back channel: it reads until the link is closed or broken, or nothing has come for the *)
(* deadline, or the answer cannot be written. *)
backchannelEndless(s) ==
  /\ back[s] = "run"
  /\ done[s] \/ conn[s] = "closed"
  /\ back' = [back EXCEPT ![s] = "over"]
  /\ IF done[s] THEN UNCHANGED <<done, closing>> ELSE Cancelled(s)
  /\ UNCHANGED <<kept, sessions, conn, known, worker, lease, queue>>
startUDPBackchannel(s) ==
  /\ back[s] = "run"
  /\ back' = [back EXCEPT ![s] = "over"]
  /\ IF done[s] THEN UNCHANGED <<done, closing>> ELSE Cancelled(s)
  /\ UNCHANGED <<kept, sessions, conn, known, worker, lease, queue>>

-----------------------------------------------------------------------------
(* The closing of the tunnel: the socket, the sessions of a snapshot, and the end of all workers. *)
Close ==
  /\ \/ /\ closer = "idle"
        /\ listening' = FALSE
        /\ closer' = "listener"
        /\ UNCHANGED <<snapshot, done, closing>>
     \/ /\ closer = "listener"
        /\ snapshot' = {sessions[a] : a \in Senders} \ {None}
        /\ closer' = "sessions"
        /\ UNCHANGED <<listening, done, closing>>
     \/ /\ closer = "sessions"
        /\ snapshot # {}
        /\ \E s \in snapshot : Cancelled(s) /\ snapshot' = snapshot \ {s}
        /\ UNCHANGED <<listening, closer>>
     \/ /\ closer = "sessions"
        /\ snapshot = {}
        /\ closer' = "wait"
        /\ UNCHANGED <<listening, snapshot, done, closing>>
     \/ /\ closer = "wait"
        /\ \A s \in Sessions : worker[s] \in {"none", "over"}
        /\ closer' = "returned"
        /\ UNCHANGED <<listening, snapshot, done, closing>>
  /\ UNCHANGED <<sessions, made, owner, conn, known, worker, back, lease, queue, reader, target, packets>>

Next ==
  \/ \E a \in Senders : serveUDPPackets(a)
  \/ sessionForPacket \/ handleUDPPacket
  \/ \E s \in Sessions : WorkerSteps(s) \/ startUDPBackchannel(s) \/ closeConn(s)
  \/ Close

(* The goroutines run; a link that is asked for is opened or refused, and a silent one times out. *)
Fairness ==
  /\ WF_vars(sessionForPacket \/ handleUDPPacket)
  /\ \A s \in Sessions : WF_vars(WorkerSteps(s)) /\ WF_vars(startUDPBackchannel(s)) /\ WF_vars(closeConn(s))
  /\ WF_vars(closer # "idle" /\ Close)

Spec == Init /\ [][Next]_vars /\ Fairness

-----------------------------------------------------------------------------
(* A worker that is over has left nothing behind: its link is closed, though the session may have been *)
(* closed before, while or after the link was opened, its lease is back, its back channel has ended    *)
(* and its sender's next datagram finds another session (udp_server_session.go). *)
WorkerLeavesNothing ==
  \A s \in Sessions : worker[s] = "over" =>
    conn[s] # "open" /\ ~lease[s] /\ back[s] # "run" /\ sessions[owner[s]] # s

=============================================================================
