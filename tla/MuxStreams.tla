----------------------------- MODULE MuxStreams -----------------------------
(***************************************************************************)
(* The life of the streams of a mux session (src/lib/mux): two endpoints   *)
(* open, accept, refuse, half-close, close and abandon streams while       *)
(* either session may close.  Flow control is MuxFlow's and the order      *)
(* inside the write queue MuxWriteQueue's; what is kept of the latter is   *)
(* that control frames leave before stream frames and that the frames of   *)
(* one stream leave in order.  A frame is popped and delivered in one      *)
(* step: the connection between the two is first in, first out.            *)
(***************************************************************************)
EXTENDS Integers, Sequences, FiniteSets

CONSTANTS
    Initiator, Responder,   \* the two ends of the session
    Workloads,              \* bounds of a behaviour: how many streams each end
                            \* opens, data frames per stream and direction, and
                            \* whether timers expire and sessions close
    Backlog,                \* MuxConfig.AcceptBacklog
    Capable                 \* the ends new enough to send a peer hello

Ends == {Initiator, Responder}
Ids == UNION { {2 * k - 1 : k \in 1..w.opens[Initiator]}
               \cup {2 * k : k \in 1..w.opens[Responder]} : w \in Workloads }

Other(e) == CHOOSE o \in Ends : o # e

VARIABLES
    work,       \* the member of Workloads this behaviour keeps to
    built,      \* [end -> NewMuxWithConfig has returned]
    remote,     \* [end -> the peer's hello has arrived: remoteCapabilities]
    muxClosed,  \* [end -> closeChan is closed]
    nextId,     \* [end -> Mux.id]
    conn,       \* [end -> [id -> Conn]]
    backlog,    \* [end -> newConnCh]
    accepting,  \* [end -> the id readSession has queued but not registered, or 0]
    control,    \* [end -> control frames on their way out]
    lane,       \* [end -> [id -> stream frames on their way out]]
    raced       \* history: [end -> ids registered after their conn or mux closed]

sessVars == <<work, built, remote, muxClosed, nextId>>
vars == <<sessVars, conn, backlog, accepting, control, lane, raced>>

(* A Conn.  app is what the application has of it; inMap, whether connMap  *)
(* holds it; ok and fail, the tokens of connStatusOkCh and ...FailCh.      *)
NoConn == [app |-> "none", inMap |-> FALSE, ok |-> FALSE, fail |-> FALSE,
           closed |-> FALSE, closing |-> FALSE, writeClosed |-> FALSE,
           remoteWriteClosed |-> FALSE, stopped |-> FALSE, windowClosed |-> FALSE,
           sent |-> 0, queued |-> 0, read |-> 0, end |-> "none"]

Init ==
    /\ work \in Workloads
    /\ built = [e \in Ends |-> FALSE]
    /\ remote = [e \in Ends |-> FALSE]
    /\ muxClosed = [e \in Ends |-> FALSE]
    /\ nextId = [e \in Ends |-> IF e = Initiator THEN -1 ELSE 0]
    /\ conn = [e \in Ends |-> [i \in Ids |-> NoConn]]
    /\ backlog = [e \in Ends |-> <<>>]
    /\ accepting = [e \in Ends |-> 0]
    /\ control = [e \in Ends |-> <<>>]
    /\ lane = [e \in Ends |-> [i \in Ids |-> <<>>]]
    /\ raced = [e \in Ends |-> {}]

-----------------------------------------------------------------------------
(* sendInfo: nothing is sent once the mux is closed. *)
SendControl(e, flag, i) ==
    control' = IF muxClosed[e] THEN control
               ELSE [control EXCEPT ![e] = Append(@, [flag |-> flag, id |-> i])]

SendStream(e, flag, i) ==
    lane' = IF muxClosed[e] THEN lane ELSE [lane EXCEPT ![e][i] = Append(@, flag)]

Set(e, i, c) == conn' = [conn EXCEPT ![e][i] = c]

(* closeProcess: the flags, connMap.Delete and the two windows.  A closed  *)
(* Conn and a missing one are the same to readSession, so the steps in     *)
(* between are not told apart.                                             *)
Closed(c) ==
    [c EXCEPT !.closed = TRUE, !.closing = TRUE, !.writeClosed = TRUE,
              !.inMap = FALSE, !.windowClosed = TRUE, !.queued = 0]

Usable(e, i) == conn[e][i].app = "held" /\ ~conn[e][i].closed

-----------------------------------------------------------------------------
(* The last statement of NewMuxWithConfig; readSession is already running. *)
SendPeerHello(e) ==
    /\ ~built[e]
    /\ built' = [built EXCEPT ![e] = TRUE]
    /\ IF e \in Capable THEN SendControl(e, "hello", 0) ELSE UNCHANGED control
    /\ UNCHANGED <<work, remote, muxClosed, nextId, conn, backlog, accepting, lane, raced>>

(* getId adds 2, so the two ends use ids of different parity. *)
NewConn(e) ==
    /\ built[e] /\ ~muxClosed[e]
    /\ nextId[e] + 2 <= 2 * work.opens[e]
    /\ nextId' = [nextId EXCEPT ![e] = @ + 2]
    /\ Set(e, nextId'[e], [NoConn EXCEPT !.app = "opening", !.inMap = TRUE])
    /\ SendControl(e, "newConn", nextId'[e])
    /\ UNCHANGED <<work, built, remote, muxClosed, backlog, accepting, lane, raced>>

NewConnOk(e, i) ==
    /\ conn[e][i].app = "opening" /\ conn[e][i].ok
    /\ Set(e, i, [conn[e][i] EXCEPT !.app = "held"])
    /\ UNCHANGED <<sessVars, backlog, accepting, control, lane, raced>>

(* The three ways newConnWithTimeout gives up; closeLocal tells nobody. *)
GiveUpOpen(e, i) ==
    /\ conn[e][i].app = "opening"
    /\ Set(e, i, [Closed(conn[e][i]) EXCEPT !.app = "refused"])
    /\ UNCHANGED <<sessVars, backlog, accepting, control, lane, raced>>

NewConnFail(e, i) == conn[e][i].fail /\ GiveUpOpen(e, i)
NewConnMuxClosed(e, i) == muxClosed[e] /\ GiveUpOpen(e, i)
NewConnTimeout(e, i) == work.faults /\ GiveUpOpen(e, i)

Accept(e) ==
    /\ built[e] /\ ~muxClosed[e]
    /\ backlog[e] # <<>>
    /\ Set(e, Head(backlog[e]), [conn[e][Head(backlog[e])] EXCEPT !.app = "held"])
    /\ backlog' = [backlog EXCEPT ![e] = Tail(@)]
    /\ UNCHANGED <<sessVars, accepting, control, lane, raced>>

-----------------------------------------------------------------------------
(* The application's calls on a stream it holds. *)

Write(e, i) ==
    /\ Usable(e, i) /\ ~muxClosed[e]
    /\ ~conn[e][i].closing /\ ~conn[e][i].writeClosed
    /\ conn[e][i].sent < work.data
    /\ Set(e, i, [conn[e][i] EXCEPT !.sent = @ + 1])
    /\ SendStream(e, "data", i)
    /\ UNCHANGED <<sessVars, backlog, accepting, control, raced>>

(* Mutant: Close does not notify the peer. *)
CloseSilently(e, i) ==
    /\ Usable(e, i)
    /\ Set(e, i, Closed(conn[e][i]))
    /\ UNCHANGED <<sessVars, backlog, accepting, control, lane, raced>>

Close(e, i) ==
    /\ Usable(e, i)
    /\ Set(e, i, Closed(conn[e][i]))
    /\ SendStream(e, "close", i)
    /\ UNCHANGED <<sessVars, backlog, accepting, control, raced>>

CloseWrite(e, i) ==
    /\ Usable(e, i) /\ remote[e]
    /\ ~conn[e][i].writeClosed
    /\ Set(e, i, [conn[e][i] EXCEPT !.writeClosed = TRUE])
    /\ SendStream(e, "closeWrite", i)
    /\ UNCHANGED <<sessVars, backlog, accepting, control, raced>>

(* No capability has been announced: CloseWrite is a plain Close. *)
CloseWriteFallsBack(e, i) ==
    /\ Usable(e, i) /\ ~remote[e]
    /\ Set(e, i, Closed(conn[e][i]))
    /\ SendStream(e, "close", i)
    /\ UNCHANGED <<sessVars, backlog, accepting, control, raced>>

Read(e, i) ==
    /\ Usable(e, i) /\ conn[e][i].queued > 0
    /\ Set(e, i, [conn[e][i] EXCEPT !.queued = @ - 1, !.read = @ + 1])
    /\ UNCHANGED <<sessVars, backlog, accepting, control, lane, raced>>

(* Mutant: a stopped queue ends the stream though it still holds data. *)
ReadEOFEarly(e, i) ==
    /\ Usable(e, i)
    /\ conn[e][i].windowClosed \/ conn[e][i].stopped
    /\ LET c == [conn[e][i] EXCEPT !.windowClosed = TRUE,
                    !.end = IF @ = "none" THEN "eof" ELSE @]
       IN Set(e, i, IF c.writeClosed /\ c.remoteWriteClosed THEN Closed(c) ELSE c)
    /\ UNCHANGED <<sessVars, backlog, accepting, control, lane, raced>>

(* An empty stopped queue, or a window that an earlier error closed. *)
ReadEOF(e, i) ==
    /\ Usable(e, i)
    /\ conn[e][i].windowClosed \/ (conn[e][i].queued = 0 /\ conn[e][i].stopped)
    /\ LET c == [conn[e][i] EXCEPT !.windowClosed = TRUE,
                    !.end = IF @ = "none" THEN "eof" ELSE @]
       IN Set(e, i, IF c.writeClosed /\ c.remoteWriteClosed THEN Closed(c) ELSE c)
    /\ UNCHANGED <<sessVars, backlog, accepting, control, lane, raced>>

(* A deadline that expires in Pop closes the receive window. *)
ReadTimeout(e, i) ==
    /\ work.faults
    /\ Usable(e, i) /\ ~conn[e][i].windowClosed
    /\ conn[e][i].queued = 0 /\ ~conn[e][i].stopped
    /\ Set(e, i, [conn[e][i] EXCEPT !.windowClosed = TRUE, !.end = "timeout"])
    /\ UNCHANGED <<sessVars, backlog, accepting, control, lane, raced>>

-----------------------------------------------------------------------------
(* readSession *)

Reading(e) == ~muxClosed[e] /\ accepting[e] = 0
FromControl(e, flag) ==
    /\ Reading(e)
    /\ control[Other(e)] # <<>> /\ Head(control[Other(e)]).flag = flag

TakeControl(e) == [control EXCEPT ![Other(e)] = Tail(@)]
Known(e, i) == conn[e][i].inMap /\ ~conn[e][i].closed

SetRemoteCapabilities(e) ==
    /\ FromControl(e, "hello")
    /\ control' = TakeControl(e)
    /\ remote' = [remote EXCEPT ![e] = TRUE]
    /\ UNCHANGED <<work, built, muxClosed, nextId, conn, backlog, accepting, lane, raced>>

(* enqueueAcceptedConn offers the Conn to Accept ... *)
EnqueueAcceptedConn(e) ==
    /\ FromControl(e, "newConn")
    /\ Len(backlog[e]) < Backlog
    /\ LET i == Head(control[Other(e)]).id IN
       /\ backlog' = [backlog EXCEPT ![e] = Append(@, i)]
       /\ Set(e, i, [NoConn EXCEPT !.app = "backlog"])
       /\ accepting' = [accepting EXCEPT ![e] = i]
    /\ control' = TakeControl(e)
    /\ UNCHANGED <<sessVars, lane, raced>>

(* ... before it registers it, whatever has happened to it since. *)
RegisterAcceptedConn(e) ==
    /\ accepting[e] # 0
    /\ LET i == accepting[e] IN
       /\ Set(e, i, [conn[e][i] EXCEPT !.inMap = TRUE])
       /\ SendControl(e, "newConnOk", i)
       /\ raced' = [raced EXCEPT ![e] = IF conn[e][i].closed \/ muxClosed[e]
                                        THEN @ \cup {i} ELSE @]
    /\ accepting' = [accepting EXCEPT ![e] = 0]
    /\ UNCHANGED <<sessVars, backlog, lane>>

RefuseConn(e) ==
    /\ FromControl(e, "newConn")
    /\ Len(backlog[e]) >= Backlog
    /\ LET i == Head(control[Other(e)]).id IN
       /\ Set(e, i, [Closed(NoConn) EXCEPT !.app = "refused"])
       /\ control' = [TakeControl(e) EXCEPT ![e] = Append(@, [flag |-> "newConnFail", id |-> i])]
    /\ UNCHANGED <<sessVars, backlog, accepting, lane, raced>>

(* The opener's status tokens; frames of unknown or closed streams go. *)
ConnStatus(e, flag) ==
    /\ FromControl(e, flag)
    /\ LET i == Head(control[Other(e)]).id IN
       IF Known(e, i)
       THEN Set(e, i, IF flag = "newConnOk" THEN [conn[e][i] EXCEPT !.ok = TRUE]
                                            ELSE [conn[e][i] EXCEPT !.fail = TRUE])
       ELSE UNCHANGED conn
    /\ control' = TakeControl(e)
    /\ UNCHANGED <<sessVars, backlog, accepting, lane, raced>>

FromLane(e, i, flag) ==
    /\ Reading(e)
    /\ control[Other(e)] = <<>>
    /\ lane[Other(e)][i] # <<>> /\ Head(lane[Other(e)][i]) = flag

TakeLane(e, i) == [lane EXCEPT ![Other(e)][i] = Tail(@)]

(* newMsg fails on a closed receive window, and the stream is closed. *)
NewMsg(e, i) ==
    /\ FromLane(e, i, "data")
    /\ IF Known(e, i) /\ conn[e][i].windowClosed
       THEN /\ Set(e, i, Closed(conn[e][i]))
            /\ lane' = [TakeLane(e, i) EXCEPT ![e][i] = Append(@, "close")]
       ELSE /\ lane' = TakeLane(e, i)
            /\ IF Known(e, i) THEN Set(e, i, [conn[e][i] EXCEPT !.queued = @ + 1])
                              ELSE UNCHANGED conn
    /\ UNCHANGED <<sessVars, backlog, accepting, control, raced>>

RemoteCloseWrite(e, i) ==
    /\ FromLane(e, i, "closeWrite")
    /\ lane' = TakeLane(e, i)
    /\ IF Known(e, i)
       THEN Set(e, i, [conn[e][i] EXCEPT !.remoteWriteClosed = TRUE, !.stopped = TRUE])
       ELSE UNCHANGED conn
    /\ UNCHANGED <<sessVars, backlog, accepting, control, raced>>

RemoteClose(e, i) ==
    /\ FromLane(e, i, "close")
    /\ lane' = TakeLane(e, i)
    /\ IF Known(e, i)
       THEN Set(e, i, [conn[e][i] EXCEPT !.remoteWriteClosed = TRUE, !.stopped = TRUE,
                                         !.closing = TRUE])
       ELSE UNCHANGED conn
    /\ UNCHANGED <<sessVars, backlog, accepting, control, raced>>

-----------------------------------------------------------------------------

(* closeWithReason: connMap.Close closes what connMap holds.  What is      *)
(* queued or in flight may still reach the peer, or not.                   *)
CloseWithReason(e) ==
    /\ ~muxClosed[e]
    /\ muxClosed' = [muxClosed EXCEPT ![e] = TRUE]
    /\ conn' = [conn EXCEPT ![e] = [i \in Ids |->
                  IF conn[e][i].inMap THEN Closed(conn[e][i]) ELSE conn[e][i]]]
    /\ UNCHANGED <<work, built, remote, nextId, backlog, accepting, control, lane, raced>>

MuxClose(e) == work.faults /\ CloseWithReason(e)

(* UnPack fails when the peer has closed the connection. *)
PeerGone(e) == muxClosed[Other(e)] /\ CloseWithReason(e)

-----------------------------------------------------------------------------
Opener(e) == \E i \in Ids : NewConnOk(e, i) \/ NewConnFail(e, i) \/ NewConnMuxClosed(e, i)
ReadSession(e) ==
    \/ SetRemoteCapabilities(e) \/ EnqueueAcceptedConn(e) \/ RegisterAcceptedConn(e)
    \/ RefuseConn(e) \/ ConnStatus(e, "newConnOk") \/ ConnStatus(e, "newConnFail")
    \/ PeerGone(e)
Deliver(e, i) == NewMsg(e, i) \/ RemoteCloseWrite(e, i) \/ RemoteClose(e, i)
Reader(e, i) == Read(e, i) \/ ReadEOF(e, i)
Application(e) ==
    \/ NewConn(e) \/ MuxClose(e)
    \/ \E i \in Ids : \/ NewConnTimeout(e, i) \/ Write(e, i) \/ Close(e, i)
                      \/ CloseWrite(e, i) \/ CloseWriteFallsBack(e, i) \/ ReadTimeout(e, i)

Next ==
    \E e \in Ends :
        \/ SendPeerHello(e) \/ Opener(e) \/ Accept(e) \/ ReadSession(e) \/ Application(e)
        \/ \E i \in Ids : Deliver(e, i) \/ Reader(e, i)

Spec == Init /\ [][Next]_vars

-----------------------------------------------------------------------------

(* A reader that sees the end of the stream has read everything the other  *)
(* end wrote before it closed or half-closed: the close travels behind the *)
(* data, and neither the accept handshake nor a crossing half-close drops  *)
(* a frame.  (A reader whose deadline expired is told "timeout".)          *)
DataComplete ==
    \A e \in Ends : \A i \in Ids :
        conn[e][i].end = "eof" => conn[e][i].read = conn[Other(e)][i].sent

(* connMap holds exactly the open streams: a stream the peer's frames      *)
(* should reach is registered before they can arrive and a closed one is   *)
(* gone.  The exception is a Conn that Accept handed out, or whose mux     *)
(* closed, between enqueueAcceptedConn's two steps (raced).                *)
MapExact ==
    \A e \in Ends : \A i \in Ids \ raced[e] :
        conn[e][i].app \in {"opening", "backlog", "held"} /\ accepting[e] # i
            => conn[e][i].inMap = ~conn[e][i].closed

(* No stream outlives its session: once the mux is closed every stream it  *)
(* knew is closed, so no reader waits on a dead session, unless the        *)
(* registration raced with the close.                                      *)
StreamsDieWithMux ==
    \A e \in Ends : muxClosed[e] =>
        \A i \in Ids : conn[e][i].app \in {"opening", "backlog", "held"}
            => conn[e][i].closed \/ i \in raced[e] \/ accepting[e] = i

(* What one end writes the other reads, half-closed or not, unless the     *)
(* reading end closed the stream or the session ended.                     *)
Delivered ==
    \A e \in Ends : \A i \in Ids :
        (conn[e][i].sent > conn[Other(e)][i].read) ~>
            \/ conn[Other(e)][i].read = conn[e][i].sent \/ conn[Other(e)][i].closed
            \/ muxClosed[e] \/ muxClosed[Other(e)]
=============================================================================
