------------------------------- MODULE MCMux -------------------------------
EXTENDS MuxFlow, TLC

(***************************************************************************)
(* The flow control of a stream, the receive queues of two streams, the    *)
(* write queue of a session and the life of its streams, each in behaviours *)
(* of its own: part says which.                                            *)
(***************************************************************************)
VARIABLES part,
  vWork, element, pool, queue, vLength, wait, stopOp, closeOp, current, off, vBuffered, vRpc, read, vCpc, vSpc,
  vPushed, panicked,
  work, control, active, bucket, burst, length, stop, qMuxClosed, connClosed, connFailed, mu, L, waiters,
  spc, sent, qWpc, held, buf, fwErr, cpc, cproc, qPushed, wire, skipped,
  sWork, built, remote, sMuxClosed, nextId, conn, backlog, accepting, sControl, lane, raced

Vvars == <<vWork, element, pool, queue, vLength, wait, stopOp, closeOp, current, off, vBuffered, vRpc, read,
  vCpc, vSpc, vPushed, panicked>>
Qvars == <<work, control, active, bucket, burst, length, stop, qMuxClosed, connClosed, connFailed, mu, L,
  waiters, spc, sent, qWpc, held, buf, fwErr, cpc, cproc, qPushed, wire, skipped>>
Svars == <<sWork, built, remote, sMuxClosed, nextId, conn, backlog, accepting, sControl, lane, raced>>
Off == "off"
VOff == vWork = Off /\ element = Off /\ pool = Off /\ queue = Off /\ vLength = Off /\ wait = Off /\
  stopOp = Off /\ closeOp = Off /\ current = Off /\ off = Off /\ vBuffered = Off /\ vRpc = Off /\
  read = Off /\ vCpc = Off /\ vSpc = Off /\ vPushed = Off /\ panicked = Off
QOff == work = Off /\ control = Off /\ active = Off /\ bucket = Off /\ burst = Off /\ length = Off /\
  stop = Off /\ qMuxClosed = Off /\ connClosed = Off /\ connFailed = Off /\ mu = Off /\ L = Off /\
  waiters = Off /\ spc = Off /\ sent = Off /\ qWpc = Off /\ held = Off /\ buf = Off /\ fwErr = Off /\
  cpc = Off /\ cproc = Off /\ qPushed = Off /\ wire = Off /\ skipped = Off
SOff == sWork = Off /\ built = Off /\ remote = Off /\ sMuxClosed = Off /\ nextId = Off /\ conn = Off /\
  backlog = Off /\ accepting = Off /\ sControl = Off /\ lane = Off /\ raced = Off

-----------------------------------------------------------------------------
(* Two streams that end by the peer's close or a read timeout, or one that *)
(* is closed locally beside one that is not.                               *)
Two == {"a", "b"}
Ended(n) == [frames |-> [s \in Two |-> IF s = "a" THEN 2 ELSE n], stops |-> Two, closers |-> {}, deadlines |-> {"b"}]
ClosedLocally == [frames |-> [s \in Two |-> IF s = "a" THEN 2 ELSE 1], stops |-> {"a"}, closers |-> {"a"}, deadlines |-> {}]
V == INSTANCE MuxReceive WITH work <- vWork, length <- vLength, cpc <- vCpc, spc <- vSpc, pushed <- vPushed,
       buffered <- vBuffered, rpc <- vRpc,
       Streams <- Two, Workloads <- {Ended(1), Ended(2), ClosedLocally}, None <- "none"

Data(i, c) == [id |-> i, kind |-> "data", class |-> c]
Plain(i, k) == [id |-> i, kind |-> k, class |-> "normal"]

(* A normal stream against a priority stream. *)
BulkAndPriority ==
  [frames |-> "a" :> <<Data("x", "normal")>>
              @@ "b" :> <<Data("y", "priority"), Data("y", "priority")>>,
   breaks |-> FALSE]
(* A stream that is closed, a control frame that overtakes it, and a       *)
(* connection that may break.                                              *)
BulkAndControl ==
  [frames |-> "a" :> <<Data("x", "normal"), Plain("x", "close")>>
              @@ "b" :> <<Plain("y", "control")>>,
   breaks |-> TRUE]
(* Two streams that meet the backpressure, and one sender that meets it    *)
(* alone, with a window update among its data.                             *)
TwoBulk ==
  [frames |-> "a" :> <<Data("x", "normal"), Data("x", "normal")>>
              @@ "b" :> <<Data("y", "normal")>>,
   breaks |-> FALSE]
OneBulk ==
  [frames |-> "a" :> <<Data("x", "normal"), Plain("x", "update"), Data("x", "normal")>>
              @@ "b" :> <<>>,
   breaks |-> FALSE]
AllWorkloads == {BulkAndPriority, BulkAndControl, TwoBulk, OneBulk}

(* One stream with data in both directions and everything that can go      *)
(* wrong, or two streams, one more than the backlog holds.                 *)
OneWithDataOrTwo ==
  { [opens |-> "L" :> 1 @@ "R" :> 0, data |-> 1, faults |-> TRUE],
    [opens |-> "L" :> 2 @@ "R" :> 0, data |-> 0, faults |-> FALSE] }
Q == INSTANCE MuxWriteQueue WITH muxClosed <- qMuxClosed, wpc <- qWpc, pushed <- qPushed,
       Writer <- "writer", Closer <- "closer", None <- "none", Senders <- Two, Streams <- {"x", "y"},
       Workloads <- AllWorkloads, HighWater <- 2, LowWater <- 1, MaxBurst <- 1, BufCap <- 1
S == INSTANCE MuxStreams WITH work <- sWork, muxClosed <- sMuxClosed, control <- sControl,
       Initiator <- "L", Responder <- "R", Workloads <- OneWithDataOrTwo, Backlog <- 1, Capable <- {"L", "R"}

-----------------------------------------------------------------------------
(* MuxFlow with its fairness, and all of MuxReceive. *)
FlowInit ==
  /\ Init /\ QOff /\ SOff
  /\ \/ part = "flow" /\ VOff
     \/ part = "receive" /\ V!Init /\ vWork # Ended(1)
FlowNext ==
  \/ part = "flow" /\ Next /\ UNCHANGED <<part, Vvars, Qvars, Svars>>
  \/ part = "receive" /\ V!Next /\ UNCHANGED <<part, vars, Qvars, Svars>>
FlowFairness ==
  /\ WF_vars(part = "flow" /\ Writer) /\ WF_vars(part = "flow" /\ AckReader)
  /\ WF_vars(part = "flow" /\ DataReader) /\ WF_vars(part = "flow" /\ Reader)
  /\ WF_vars(part = "flow" /\ muxClosed /\ CloseWindow)
FlowSpec == FlowInit /\ [][FlowNext]_<<part, vars, Vvars, Qvars, Svars>> /\ FlowFairness

(* MuxWriteQueue, MuxStreams and, without local closes, MuxReceive, with   *)
(* the fairness of the three.                                              *)
QueueInit ==
  /\ Init
  /\ \/ part = "queue" /\ Q!Init /\ SOff /\ VOff
     \/ part = "streams" /\ QOff /\ S!Init /\ VOff
     \/ part = "receive" /\ QOff /\ SOff /\ V!Init /\ vWork = Ended(1)
QueueNext ==
  \/ part = "queue" /\ Q!Next /\ UNCHANGED <<part, vars, Svars, Vvars>>
  \/ part = "streams" /\ S!Next /\ UNCHANGED <<part, vars, Qvars, Vvars>>
  \/ part = "receive" /\ V!Next /\ UNCHANGED <<part, vars, Qvars, Svars>>
QueueFairness ==
  /\ \A s \in Two : WF_Qvars(part = "queue" /\ Q!Sender(s))
  /\ WF_Qvars(part = "queue" /\ Q!WriterStep) /\ WF_Qvars(part = "queue" /\ Q!CloserStep)
  /\ WF_Qvars(part = "queue" /\ Q!ConnClose)
  /\ \A e \in {"L", "R"} :
       /\ WF_Svars(part = "streams" /\ S!SendPeerHello(e)) /\ WF_Svars(part = "streams" /\ S!Opener(e))
       /\ WF_Svars(part = "streams" /\ S!Accept(e)) /\ WF_Svars(part = "streams" /\ S!ReadSession(e))
       /\ \A i \in S!Ids : /\ WF_Svars(part = "streams" /\ S!Deliver(e, i))
                           /\ WF_Svars(part = "streams" /\ S!Reader(e, i))
  /\ WF_Vvars(part = "receive" /\ ~panicked /\ V!ReadSession)
  /\ \A s \in Two : WF_Vvars(part = "receive" /\ ~panicked /\ V!Reader(s))
QueueSpec == QueueInit /\ [][QueueNext]_<<part, vars, Vvars, Qvars, Svars>> /\ QueueFairness

-----------------------------------------------------------------------------
(* The safety of MuxReceive: until a stream is closed locally, readers get *)
(* the frames of their own stream in order, a list element has one owner   *)
(* and the bytes counted are those queued.                                 *)
ReceiveExact == part = "receive" => V!IsolatedUntilClose /\ V!SingleOwner /\ V!BufferedExact
(* The safety of MuxWriteQueue: until the mux closes no frame is lost,     *)
(* duplicated or overtaken within its lane, a normal stream waits for a    *)
(* bounded number of pops, the high-water mark bounds the data queued, and *)
(* nothing is queued behind the release of closeWithReason.                *)
QueueSound == part = "queue" => Q!OrderKept /\ Q!NormalServed /\ Q!QueueBounded /\ Q!Drained
(* The safety of MuxStreams: a reader that sees the end of its stream has  *)
(* read everything, connMap holds exactly the open streams, and no stream  *)
(* outlives its session.                                                   *)
StreamsSound == part = "streams" => S!DataComplete /\ S!MapExact /\ S!StreamsDieWithMux
(* A close completes: closing the mux closes its connection, save for the  *)
(* two lock cycles of afterPop, and the other end learns that a stream was *)
(* closed.  (A stream once learned to be closed stays so, so that one      *)
(* leads-to speaks for all.)                                               *)
Unlearned ==
  \E e \in {"L", "R"} : \E i \in S!Ids :
    /\ conn[e][i].app = "held" /\ conn[e][i].closed
    /\ ~conn[S!Other(e)][i].remoteWriteClosed /\ ~conn[S!Other(e)][i].closed
    /\ ~sMuxClosed[e] /\ ~sMuxClosed[S!Other(e)]
CloseCompletes ==
  ((part = "queue" /\ qMuxClosed) \/ (part = "streams" /\ Unlearned))
  ~> ((part = "queue" /\ (connClosed \/ Q!Stuck)) \/ (part = "streams" /\ ~Unlearned))
(* MuxReceive: everything pushed before a stream stops is read, so no      *)
(* wake-up is lost between Push, the wait bit and waitPush.                *)
Unread ==
  \E s \in Two : /\ vPushed[s] = vWork.frames[s] /\ stopOp[s]
                 /\ ~(vRpc[s] = "done" /\ (Len(read[s]) = vWork.frames[s] \/ s \in vWork.deadlines))
ReadToTheEnd == (part = "receive" /\ Unread) ~> (part = "receive" /\ ~Unread)
=============================================================================
