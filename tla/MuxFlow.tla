------------------------------ MODULE MuxFlow ------------------------------
(***************************************************************************)
(* Credit-based flow control of one direction of one mux stream            *)
(* (src/lib/mux/conn_send_window.go, conn_receive_window.go, budget.go).   *)
(*                                                                         *)
(* Four goroutines take part.  On the sending endpoint the application     *)
(* runs Conn.Write and the mux's readSession applies window updates with   *)
(* sendWindow.SetSize; on the receiving endpoint readSession runs          *)
(* receiveWindow.Write and the application runs Conn.Read.  Each window    *)
(* word (max, done, wait) is one atomic 64-bit integer, so a load-compute- *)
(* CAS loop that reads nothing else is one step; the receive side also     *)
(* reads the buffered counters, so there the load and the CAS are two      *)
(* steps and the CAS may fail.                                             *)
(*                                                                         *)
(* Sizes are counted in abstract units.  The 31-bit masks of pack and      *)
(* unpack are left out: WindowsBounded shows that no done field exceeds    *)
(* MaxConn, which normalizedMaxConnReceiveWindow keeps below 2^31.         *)
(***************************************************************************)
EXTENDS Integers, Sequences, TLAPS

CONSTANTS
    MSS,            \* maximumSegmentSize
    Initial,        \* defaultInitialConnWindow
    AckThreshold,   \* maximumSegmentSize*4, the eager update threshold
    MaxConn,        \* config.MaxConnReceiveWindow
    SessionLimit,   \* config.MaxSessionReceiveWindow
    OtherQueued,    \* what the other streams of the session may have queued
    MaxWrite,       \* bound: the longest buffer given to Conn.Write
    MaxBytes        \* bound: bytes the application writes in a behaviour

ASSUME FlowAssumption ==
    /\ MSS \in Nat \ {0}
    /\ Initial \in Nat \ {0}
    /\ AckThreshold \in Nat \ {0}
    /\ MaxConn \in Nat /\ MaxConn >= Initial
    /\ SessionLimit \in Nat /\ SessionLimit >= MaxConn
    /\ OtherQueued \subseteq Nat
    /\ MaxWrite \in Nat \ {0}
    /\ MaxBytes \in Nat

VARIABLES
    sMax, sSend, sWait,     \* the send window's word
    token,                  \* setSizeCh, a channel of capacity one
    sClosed,                \* the send window's closeOp
    muxClosed,              \* closeChan of the sending mux
    wpc, left, seg,         \* Conn.Write: place, bytes left, segment in hand
    apc,                    \* SetSize: about to call allow, or not
    data, acks,             \* frames in flight: data segments, window updates
    rMax, rRead, rWait,     \* the receive window's word
    buffered,               \* receiveWindow.buffered
    rq,                     \* receiveWindowQueue
    dpc, dSeg, dSnap, dUpd, \* receiveWindow.Write
    rpc, rSeg, rSnap, rUpd, \* receiveWindow.Read
    pushed, taken, popped, ackPushed, ackTaken  \* history: cumulative sizes

sendVars == <<sMax, sSend, sWait, token, sClosed, muxClosed, wpc, left, seg, apc>>
recvVars == <<rMax, rRead, rWait, buffered, rq>>
dVars == <<dpc, dSeg, dSnap, dUpd>>
rVars == <<rpc, rSeg, rSnap, rUpd>>
histVars == <<pushed, taken, popped, ackPushed, ackTaken>>
vars == <<sendVars, data, acks, recvVars, dVars, rVars, histVars>>

-----------------------------------------------------------------------------
Lesser(a, b) == IF a < b THEN a ELSE b
Greater(a, b) == IF a > b THEN a ELSE b

(* remainingSize: what is left of a window of maxSize with used consumed. *)
Remaining(maxSize, used) == Greater(maxSize - used, 0)

(* sessionReceiveWindowForConn, with b bytes of this stream and q bytes of *)
(* the whole session queued.                                               *)
SessionWindow(b, q) ==
    IF q >= SessionLimit
    THEN IF b = 0 THEN Initial ELSE b
    ELSE IF b = 0 THEN Greater(SessionLimit - q, Initial)
                  ELSE b + (SessionLimit - q)

EffectiveMaxSize(maxSize, b, q) ==
    Lesser(Lesser(Greater(maxSize, Initial), MaxConn), SessionWindow(b, q))

(* The values sessionRecvQueued may show: this stream's bytes and whatever *)
(* the other streams hold at that instant.                                 *)
Queued(b) == {b + o : o \in OtherQueued}

(* The window sizes calcSize may store.  The bandwidth and latency it      *)
(* measures are arbitrary, so is the size between the floor and the growth *)
(* limit (twice the window, six times the initial one).                    *)
GrowthLimit(size) == IF size = Initial THEN 6 * size ELSE 2 * size

CalcSizes ==
    {rMax} \cup UNION { { EffectiveMaxSize(n, buffered, q) :
                            n \in Initial..Lesser(GrowthLimit(EffectiveMaxSize(rMax, buffered, q)), MaxConn) }
                        : q \in Queued(buffered) }

NoUpdate == [send |-> FALSE, max |-> 0, read |-> 0, wait |-> FALSE]
NoWord == [max |-> 0, read |-> 0, wait |-> FALSE]
RecvWord == [max |-> rMax, read |-> rRead, wait |-> rWait]

-----------------------------------------------------------------------------
Init ==
    /\ sMax = Initial /\ sSend = 0 /\ sWait = FALSE
    /\ token = FALSE /\ sClosed = FALSE /\ muxClosed = FALSE
    /\ wpc = "idle" /\ left = 0 /\ seg = 0 /\ apc = "idle"
    /\ data = <<>> /\ acks = <<>>
    /\ rMax = Initial /\ rRead = 0 /\ rWait = FALSE
    /\ buffered = 0 /\ rq = <<>>
    /\ dpc = "idle" /\ dSeg = 0 /\ dSnap = NoWord /\ dUpd = NoUpdate
    /\ rpc = "idle" /\ rSeg = 0 /\ rSnap = NoWord /\ rUpd = NoUpdate
    /\ pushed = 0 /\ taken = 0 /\ popped = 0 /\ ackPushed = 0 /\ ackTaken = 0

-----------------------------------------------------------------------------
(* Conn.Write and sendWindow.WriteFull *)

ConnWrite(n) ==
    /\ wpc = "idle" /\ ~sClosed
    /\ pushed + n <= MaxBytes
    /\ wpc' = "enter" /\ left' = n
    /\ UNCHANGED <<sMax, sSend, sWait, token, sClosed, muxClosed, seg, apc>>
    /\ UNCHANGED <<data, acks, recvVars, dVars, rVars, histVars>>

(* WriteTo looks at closeOp once, before its loop. *)
WriteToEnter ==
    /\ wpc = "enter"
    /\ IF sClosed
       THEN wpc' = "idle" /\ left' = 0
       ELSE wpc' = "start" /\ UNCHANGED left
    /\ UNCHANGED <<sMax, sSend, sWait, token, sClosed, muxClosed, seg, apc>>
    /\ UNCHANGED <<data, acks, recvVars, dVars, rVars, histVars>>

(* An exhausted window: the CAS sets the wait bit, then the writer blocks. *)
WriteToBlock ==
    /\ wpc = "start"
    /\ Remaining(sMax, sSend) = 0
    /\ sWait' = TRUE
    /\ wpc' = "wait"
    /\ UNCHANGED <<sMax, sSend, token, sClosed, muxClosed, left, seg, apc>>
    /\ UNCHANGED <<data, acks, recvVars, dVars, rVars, histVars>>

(* The segment is cut from the window that was loaded; sent() runs later. *)
WriteToSegment ==
    /\ wpc = "start"
    /\ Remaining(sMax, sSend) > 0
    /\ seg' = Lesser(Lesser(MSS, left), Remaining(sMax, sSend))
    /\ wpc' = "sent"
    /\ UNCHANGED <<sMax, sSend, sWait, token, sClosed, muxClosed, left, apc>>
    /\ UNCHANGED <<data, acks, recvVars, dVars, rVars, histVars>>

Sent ==
    /\ wpc = "sent"
    /\ sSend' = sSend + seg
    /\ left' = left - seg
    /\ wpc' = "send"
    /\ UNCHANGED <<sMax, sWait, token, sClosed, muxClosed, seg, apc>>
    /\ UNCHANGED <<data, acks, recvVars, dVars, rVars, histVars>>

(* sendInfo accepts the frame. *)
SendData ==
    /\ wpc = "send" /\ ~muxClosed
    /\ data' = Append(data, [n |-> seg, upto |-> pushed + seg])
    /\ pushed' = pushed + seg
    /\ seg' = 0
    /\ wpc' = IF left = 0 THEN "idle" ELSE "enter"
    /\ UNCHANGED <<sMax, sSend, sWait, token, sClosed, muxClosed, left, apc>>
    /\ UNCHANGED <<acks, recvVars, dVars, rVars, taken, popped, ackPushed, ackTaken>>

(* sendInfo fails, which it only does on a closed mux: rollbackSent. *)
SendDataFails ==
    /\ wpc = "send" /\ muxClosed
    /\ sSend' = sSend - Lesser(seg, sSend)
    /\ seg' = 0 /\ left' = 0
    /\ wpc' = "idle"
    /\ UNCHANGED <<sMax, sWait, token, sClosed, muxClosed, apc>>
    /\ UNCHANGED <<data, acks, recvVars, dVars, rVars, histVars>>

(* waitReceiveWindow: woken through setSizeCh, by the close, or by the     *)
(* write deadline.  The last two leave the wait bit set.                   *)
WaitWoken ==
    /\ wpc = "wait" /\ token
    /\ token' = FALSE
    /\ wpc' = "start"
    /\ UNCHANGED <<sMax, sSend, sWait, sClosed, muxClosed, left, seg, apc>>
    /\ UNCHANGED <<data, acks, recvVars, dVars, rVars, histVars>>

WaitClosed ==
    /\ wpc = "wait" /\ sClosed
    /\ wpc' = "idle" /\ left' = 0
    /\ UNCHANGED <<sMax, sSend, sWait, token, sClosed, muxClosed, seg, apc>>
    /\ UNCHANGED <<data, acks, recvVars, dVars, rVars, histVars>>

WaitTimeout ==
    /\ wpc = "wait"
    /\ wpc' = "idle" /\ left' = 0
    /\ UNCHANGED <<sMax, sSend, sWait, token, sClosed, muxClosed, seg, apc>>
    /\ UNCHANGED <<data, acks, recvVars, dVars, rVars, histVars>>

(* Conn.Close and CloseWrite close the send window. *)
CloseWindow ==
    /\ ~sClosed
    /\ sClosed' = TRUE
    /\ UNCHANGED <<sMax, sSend, sWait, token, muxClosed, wpc, left, seg, apc>>
    /\ UNCHANGED <<data, acks, recvVars, dVars, rVars, histVars>>

(* closeWithReason closes closeChan first and the streams of connMap next. *)
CloseMux ==
    /\ ~muxClosed
    /\ muxClosed' = TRUE
    /\ UNCHANGED <<sMax, sSend, sWait, token, sClosed, wpc, left, seg, apc>>
    /\ UNCHANGED <<data, acks, recvVars, dVars, rVars, histVars>>

-----------------------------------------------------------------------------
(* readSession on the sending endpoint: sendWindow.SetSize *)

(* Mutant: the wait bit is computed before the acknowledged bytes go. *)
SetSizeStaleOutstanding ==
    /\ apc = "idle" /\ acks # <<>> /\ ~muxClosed
    /\ LET u == Head(acks)
           invalid == ~sClosed /\ u.n > sSend
           changes == ~sClosed /\ ~invalid /\ ~(u.n = 0 /\ u.max = sMax)
           nextWait == sWait /\ Remaining(u.max, sSend) = 0
       IN /\ muxClosed' = invalid
          /\ sMax' = IF changes THEN u.max ELSE sMax
          /\ sSend' = IF changes THEN sSend - u.n ELSE sSend
          /\ sWait' = IF changes THEN nextWait ELSE sWait
          /\ apc' = IF changes /\ sWait /\ ~nextWait THEN "allow" ELSE "idle"
          /\ ackTaken' = u.upto
    /\ acks' = Tail(acks)
    /\ UNCHANGED <<token, sClosed, wpc, left, seg>>
    /\ UNCHANGED <<data, recvVars, dVars, rVars, pushed, taken, popped, ackPushed>>

SetSize ==
    /\ apc = "idle" /\ acks # <<>> /\ ~muxClosed
    /\ LET u == Head(acks)
           invalid == ~sClosed /\ u.n > sSend
           changes == ~sClosed /\ ~invalid /\ ~(u.n = 0 /\ u.max = sMax)
           nextWait == sWait /\ Remaining(u.max, sSend - u.n) = 0
       IN /\ muxClosed' = invalid
          /\ sMax' = IF changes THEN u.max ELSE sMax
          /\ sSend' = IF changes THEN sSend - u.n ELSE sSend
          /\ sWait' = IF changes THEN nextWait ELSE sWait
          /\ apc' = IF changes /\ sWait /\ ~nextWait THEN "allow" ELSE "idle"
          /\ ackTaken' = u.upto
    /\ acks' = Tail(acks)
    /\ UNCHANGED <<token, sClosed, wpc, left, seg>>
    /\ UNCHANGED <<data, recvVars, dVars, rVars, pushed, taken, popped, ackPushed>>

Allow ==
    /\ apc = "allow"
    /\ token' = (token \/ ~sClosed)
    /\ apc' = "idle"
    /\ UNCHANGED <<sMax, sSend, sWait, sClosed, muxClosed, wpc, left, seg>>
    /\ UNCHANGED <<data, acks, recvVars, dVars, rVars, histVars>>

-----------------------------------------------------------------------------
(* readSession on the receiving endpoint: receiveWindow.Write *)

(* A data frame arrives and calcSize may store another window size. *)
WriteCalcSize ==
    /\ dpc = "idle" /\ data # <<>> /\ ~muxClosed
    /\ dSeg' = Head(data).n
    /\ data' = Tail(data)
    /\ taken' = Head(data).upto
    /\ \E m \in CalcSizes : rMax' = m
    /\ dpc' = "load"
    /\ UNCHANGED <<sendVars, acks, rRead, rWait, buffered, rq>>
    /\ UNCHANGED <<dSnap, dUpd, rVars, pushed, popped, ackPushed, ackTaken>>

(* The word and the counters are read, the next word is computed. *)
WriteLoad ==
    /\ dpc = "load"
    /\ dSnap' = RecvWord
    /\ \E q1, q2 \in Queued(buffered) :
        LET m == EffectiveMaxSize(rMax, buffered, q1)
            remain == Remaining(EffectiveMaxSize(m, buffered, q2), buffered + dSeg)
            wait == rWait \/ remain = 0
            upd == \/ m # rMax
                   \/ ~wait /\ rRead > 0 /\ (rRead >= m \div 2 \/ rRead >= AckThreshold)
        IN dUpd' = [send |-> upd, max |-> m, wait |-> wait,
                    read |-> IF upd THEN rRead ELSE 0]
    /\ dpc' = "cas"
    /\ UNCHANGED <<sendVars, data, acks, recvVars, dSeg, rVars, histVars>>

(* Mutant: the read bytes are cleared though no update carries them. *)
WriteCASDropsRead ==
    /\ dpc = "cas"
    /\ IF RecvWord = dSnap
       THEN /\ rMax' = dUpd.max
            /\ rRead' = 0
            /\ rWait' = dUpd.wait
            /\ dpc' = "reserve" /\ UNCHANGED dUpd
       ELSE /\ dpc' = "load" /\ dUpd' = NoUpdate
            /\ UNCHANGED <<rMax, rRead, rWait>>
    /\ dSnap' = NoWord
    /\ UNCHANGED <<sendVars, data, acks, buffered, rq, dSeg, rVars, histVars>>

WriteCAS ==
    /\ dpc = "cas"
    /\ IF RecvWord = dSnap
       THEN /\ rMax' = dUpd.max
            /\ rRead' = IF dUpd.send THEN 0 ELSE rRead
            /\ rWait' = dUpd.wait
            /\ dpc' = "reserve" /\ UNCHANGED dUpd
       ELSE /\ dpc' = "load" /\ dUpd' = NoUpdate
            /\ UNCHANGED <<rMax, rRead, rWait>>
    /\ dSnap' = NoWord
    /\ UNCHANGED <<sendVars, data, acks, buffered, rq, dSeg, rVars, histVars>>

ReserveBytes ==
    /\ dpc = "reserve"
    /\ buffered' = buffered + dSeg
    /\ dpc' = "push"
    /\ UNCHANGED <<sendVars, data, acks, rMax, rRead, rWait, rq>>
    /\ UNCHANGED <<dSeg, dSnap, dUpd, rVars, histVars>>

WritePush ==
    /\ dpc = "push"
    /\ rq' = Append(rq, [n |-> dSeg, upto |-> taken])
    /\ dSeg' = 0
    /\ dpc' = IF dUpd.send THEN "update" ELSE "idle"
    /\ dUpd' = IF dUpd.send THEN dUpd ELSE NoUpdate
    /\ UNCHANGED <<sendVars, data, acks, rMax, rRead, rWait, buffered>>
    /\ UNCHANGED <<dSnap, rVars, histVars>>

(* sendInfo(muxMsgSendOk): control frames keep their order.  On a closed   *)
(* mux the update is dropped.                                              *)
PushUpdate(u) ==
    IF muxClosed
    THEN UNCHANGED <<acks, ackPushed>>
    ELSE /\ acks' = Append(acks, [max |-> u.max, n |-> u.read, upto |-> ackPushed + u.read])
         /\ ackPushed' = ackPushed + u.read

WriteUpdate ==
    /\ dpc = "update"
    /\ PushUpdate(dUpd)
    /\ dpc' = "idle" /\ dUpd' = NoUpdate
    /\ UNCHANGED <<sendVars, data, recvVars, dSeg, dSnap, rVars, pushed, taken, popped, ackTaken>>

-----------------------------------------------------------------------------
(* Conn.Read: readFromQueue and sendStatus.  The copy into the caller's    *)
(* buffer is left out; an element is accounted for once it is consumed.    *)

ReadPop ==
    /\ rpc = "idle" /\ rq # <<>>
    /\ rSeg' = Head(rq).n
    /\ popped' = Head(rq).upto
    /\ rq' = Tail(rq)
    /\ rpc' = "release"
    /\ UNCHANGED <<sendVars, data, acks, rMax, rRead, rWait, buffered>>
    /\ UNCHANGED <<dVars, rSnap, rUpd, pushed, taken, ackPushed, ackTaken>>

ReleaseBytes ==
    /\ rpc = "release"
    /\ buffered' = buffered - rSeg
    /\ rpc' = "calc"
    /\ UNCHANGED <<sendVars, data, acks, rMax, rRead, rWait, rq>>
    /\ UNCHANGED <<dVars, rSeg, rSnap, rUpd, histVars>>

StatusCalcSize ==
    /\ rpc = "calc"
    /\ \E m \in CalcSizes : rMax' = m
    /\ rpc' = "load"
    /\ UNCHANGED <<sendVars, data, acks, rRead, rWait, buffered, rq>>
    /\ UNCHANGED <<dVars, rSeg, rSnap, rUpd, histVars>>

StatusLoad ==
    /\ rpc = "load"
    /\ rSnap' = RecvWord
    /\ \E q1, q2 \in Queued(buffered) :
        LET m == EffectiveMaxSize(rMax, buffered, q1)
            remain == Remaining(EffectiveMaxSize(m, buffered, q2), buffered)
            nextRead == rRead + rSeg
            upd == \/ m # rMax
                   \/ rWait /\ remain > 0
                   \/ nextRead >= m \div 2
                   \/ nextRead >= AckThreshold
                   \/ remain = m
        IN rUpd' = [send |-> upd, max |-> m, wait |-> rWait, read |-> nextRead]
    /\ rpc' = "cas"
    /\ UNCHANGED <<sendVars, data, acks, recvVars, dVars, rSeg, histVars>>

(* Mutant: acknowledged bytes stay in the window word. *)
StatusCASKeepsRead ==
    /\ rpc = "cas"
    /\ IF RecvWord = rSnap
       THEN /\ rMax' = rUpd.max
            /\ rRead' = rUpd.read
            /\ rWait' = (rUpd.wait /\ ~rUpd.send)
            /\ rSeg' = 0
            /\ rpc' = IF rUpd.send THEN "update" ELSE "idle"
            /\ rUpd' = IF rUpd.send THEN rUpd ELSE NoUpdate
       ELSE /\ rpc' = "load" /\ rUpd' = NoUpdate
            /\ UNCHANGED <<rMax, rRead, rWait, rSeg>>
    /\ rSnap' = NoWord
    /\ UNCHANGED <<sendVars, data, acks, buffered, rq, dVars, histVars>>

StatusCAS ==
    /\ rpc = "cas"
    /\ IF RecvWord = rSnap
       THEN /\ rMax' = rUpd.max
            /\ rRead' = IF rUpd.send THEN 0 ELSE rUpd.read
            /\ rWait' = (rUpd.wait /\ ~rUpd.send)
            /\ rSeg' = 0
            /\ rpc' = IF rUpd.send THEN "update" ELSE "idle"
            /\ rUpd' = IF rUpd.send THEN rUpd ELSE NoUpdate
       ELSE /\ rpc' = "load" /\ rUpd' = NoUpdate
            /\ UNCHANGED <<rMax, rRead, rWait, rSeg>>
    /\ rSnap' = NoWord
    /\ UNCHANGED <<sendVars, data, acks, buffered, rq, dVars, histVars>>

StatusUpdate ==
    /\ rpc = "update"
    /\ PushUpdate(rUpd)
    /\ rpc' = "idle" /\ rUpd' = NoUpdate
    /\ UNCHANGED <<sendVars, data, recvVars, dVars, rSeg, rSnap, pushed, taken, popped, ackTaken>>

-----------------------------------------------------------------------------
Writer == WriteToEnter \/ WriteToBlock \/ WriteToSegment \/ Sent
          \/ SendData \/ SendDataFails \/ WaitWoken \/ WaitClosed
AckReader == SetSize \/ Allow
DataReader == WriteCalcSize \/ WriteLoad \/ WriteCAS \/ ReserveBytes
              \/ WritePush \/ WriteUpdate
Reader == ReadPop \/ ReleaseBytes \/ StatusCalcSize \/ StatusLoad
          \/ StatusCAS \/ StatusUpdate
Environment == (\E n \in 1..MaxWrite : ConnWrite(n)) \/ WaitTimeout
               \/ CloseWindow \/ CloseMux

Next == Writer \/ AckReader \/ DataReader \/ Reader \/ Environment

Spec == Init /\ [][Next]_vars

-----------------------------------------------------------------------------
Segment == [n : Nat, upto : Nat]
WindowUpdate == [max : Nat, n : Nat, upto : Nat]
Word == [max : Nat, read : Nat, wait : BOOLEAN]
Update == [send : BOOLEAN, max : Nat, read : Nat, wait : BOOLEAN]

(* Every variable has its type. *)
TypeOK ==
    /\ sMax \in Nat /\ sSend \in Nat /\ sWait \in BOOLEAN
    /\ token \in BOOLEAN /\ sClosed \in BOOLEAN /\ muxClosed \in BOOLEAN
    /\ wpc \in {"idle", "enter", "start", "sent", "send", "wait"}
    /\ left \in Nat /\ seg \in Nat /\ apc \in {"idle", "allow"}
    /\ data \in Seq(Segment)
    /\ acks \in Seq(WindowUpdate)
    /\ rMax \in Nat /\ rRead \in Nat /\ rWait \in BOOLEAN
    /\ buffered \in Nat /\ rq \in Seq(Segment)
    /\ dpc \in {"idle", "load", "cas", "reserve", "push", "update"}
    /\ dSeg \in Nat /\ dSnap \in Word /\ dUpd \in Update
    /\ rpc \in {"idle", "release", "calc", "load", "cas", "update"}
    /\ rSeg \in Nat /\ rSnap \in Word /\ rUpd \in Update
    /\ pushed \in Nat /\ taken \in Nat /\ popped \in Nat
    /\ ackPushed \in Nat /\ ackTaken \in Nat

(* SetSize never meets an update that acknowledges more than is            *)
(* outstanding, the case in which it closes the whole mux with "invalid    *)
(* send window update".  The hazard: two goroutines of the receiver, Read  *)
(* and readSession, each take bytes out of the window word with a CAS and  *)
(* send them afterwards, in either order.                                  *)
NoInvalidUpdate == acks # <<>> => Head(acks).n <= sSend

(* Neither endpoint counts more than the largest window: not the sender's  *)
(* outstanding bytes, not the bytes the receiver holds for the             *)
(* application, not the read bytes it has not acknowledged.  The hazard: a *)
(* segment is cut from a window that SetSize shrinks before sent() runs.   *)
WindowsBounded == sSend <= MaxConn /\ buffered <= MaxConn /\ rRead <= MaxConn

DPending == IF dpc \in {"reserve", "push", "update"} THEN dUpd.read ELSE 0
RPending == IF rpc = "update" THEN rUpd.read ELSE 0
InHand == IF wpc = "send" THEN seg ELSE 0

(* While the mux is open no byte of credit is lost or minted: what the     *)
(* application has read is acknowledged, in the window word, or in an      *)
(* update one of the two receiving goroutines is about to send; and until  *)
(* the send window closes, what the sender counts as outstanding is what   *)
(* it sent less what the updates it applied acknowledged.                  *)
CreditConserved ==
    ~muxClosed =>
      /\ popped - rSeg = ackPushed + rRead + DPending + RPending
      /\ ~sClosed => sSend = pushed + InHand - ackTaken

(* The receiver has grown its window since its last update and keeps the   *)
(* acknowledgement of what was read, as the sender seems to have room.     *)
HeldBack == rRead > 0 /\ sMax < rMax

(* A writer blocked on an exhausted window is released as long as the      *)
(* application at the other end keeps reading: no window update and no     *)
(* wake-up token is lost between SetSize, allow and waitReceiveWindow.     *)
(* The exception is a window that was announced small under session        *)
(* pressure: sendStatus compares with the size calcSize has just stored,   *)
(* not with the one it last announced, and may hold the update back for    *)
(* good.                                                                   *)
WriterReleased == (wpc = "wait") ~> (wpc # "wait" \/ []HeldBack)

-----------------------------------------------------------------------------
(* The proofs, for every window size, segment size and session limit.  The *)
(* sums over the frames in flight that credit conservation speaks of are   *)
(* replaced by cumulative stamps: each frame carries the total up to and   *)
(* including itself, and Chained says that the stamps of a queue run from  *)
(* what has left it to what has entered it.                                *)

Chained(q, lo, hi) ==
    /\ q = <<>> => lo = hi
    /\ q # <<>> => q[1].upto - q[1].n = lo /\ q[Len(q)].upto = hi
    /\ \A i \in 1..Len(q) : q[i].upto <= hi
    /\ \A i \in 1..(Len(q) - 1) : q[i + 1].upto - q[i + 1].n = q[i].upto

(* The places of the four goroutines and what they hold there. *)
Places ==
    /\ wpc \in {"sent", "send"} \/ seg = 0
    /\ wpc = "sent" => seg <= left
    /\ dpc \in {"idle", "update"} => dSeg = 0
    /\ rpc \in {"idle", "update"} => rSeg = 0
    /\ dpc = "cas" => dUpd.read = IF dUpd.send THEN dSnap.read ELSE 0
    /\ ~dUpd.send => dUpd.read = 0
    /\ rpc = "cas" => rUpd.read = rSnap.read + rSeg

(* No window any goroutine knows of exceeds MaxConn, and a segment already *)
(* cut fits what is still outstanding.                                     *)
Windows ==
    /\ sMax <= MaxConn /\ rMax <= MaxConn
    /\ dUpd.max <= MaxConn /\ rUpd.max <= MaxConn
    /\ \A i \in 1..Len(acks) : acks[i].max <= MaxConn
    /\ sSend + (IF wpc = "sent" THEN seg ELSE 0) <= MaxConn

Queues ==
    /\ Chained(data, taken, pushed)
    /\ Chained(rq, popped, taken - dSeg)
    /\ Chained(acks, ackTaken, ackPushed)

Counters ==
    /\ buffered = taken - dSeg - popped
                  + (IF dpc = "push" THEN dSeg ELSE 0)
                  + (IF rpc = "release" THEN rSeg ELSE 0)
    /\ popped - rSeg >= ackPushed + rRead + DPending + RPending
    /\ ~muxClosed => popped - rSeg = ackPushed + rRead + DPending + RPending
    /\ sSend >= pushed + InHand - ackTaken
    /\ ~sClosed => sSend = pushed + InHand - ackTaken

IInv == TypeOK /\ Places /\ Windows /\ Queues /\ Counters

-----------------------------------------------------------------------------
(* A frame whose stamp continues the chain may be appended. *)
LEMMA ChainAppend ==
    ASSUME NEW S, NEW q \in Seq(S), NEW e \in S,
           NEW lo \in Int, NEW hi \in Int, Chained(q, lo, hi),
           \A x \in S : x.n \in Nat /\ x.upto \in Nat,
           e.upto = hi + e.n
    PROVE  Chained(Append(q, e), lo, hi + e.n)
<1> DEFINE r == Append(q, e)
<1>1. r \in Seq(S) /\ Len(r) = Len(q) + 1 /\ r # <<>>
  OBVIOUS
<1>2. Len(q) \in Nat /\ e.n \in Nat
  OBVIOUS
<1>3. \A i \in 1..Len(q) : r[i] = q[i] /\ q[i] \in S
  OBVIOUS
<1>4. r[Len(q) + 1] = e
  OBVIOUS
<1>5. \A i \in 1..Len(r) : r[i].upto <= hi + e.n
  BY <1>1, <1>2, <1>3, <1>4 DEF Chained
<1>6. \A i \in 1..(Len(r) - 1) : r[i + 1].upto - r[i + 1].n = r[i].upto
  <2> SUFFICES ASSUME NEW i \in 1..(Len(r) - 1)
               PROVE  r[i + 1].upto - r[i + 1].n = r[i].upto
    BY Zenon
  <2>1. CASE i < Len(q)
    BY <1>1, <1>2, <1>3, <2>1 DEF Chained
  <2>2. CASE i = Len(q)
    <3>1. q # <<>> /\ q[Len(q)].upto = hi
      BY <1>2, <2>2 DEF Chained
    <3> QED BY <1>2, <1>3, <1>4, <2>2, <3>1
  <2> QED BY <1>1, <1>2, <2>1, <2>2
<1>7. r[1].upto - r[1].n = lo
  <2>1. CASE q = <<>>
    BY <1>2, <1>4, <2>1 DEF Chained
  <2>2. CASE q # <<>>
    BY <1>2, <1>3, <2>2 DEF Chained
  <2> QED BY Zenon, <2>1, <2>2
<1>8. r[Len(r)].upto = hi + e.n
  BY Zenon, <1>1, <1>4
<1> QED BY <1>1, <1>5, <1>6, <1>7, <1>8, SMTT(30) DEF Chained

(* Taking the first frame moves the low end of the chain to its stamp. *)
LEMMA ChainTail ==
    ASSUME NEW S, NEW q \in Seq(S), q # <<>>,
           NEW lo \in Int, NEW hi \in Int, Chained(q, lo, hi),
           \A x \in S : x.n \in Nat /\ x.upto \in Nat
    PROVE  /\ Chained(Tail(q), Head(q).upto, hi)
           /\ Head(q) \in S
           /\ Head(q).upto = lo + Head(q).n
           /\ Head(q).upto <= hi
<1> DEFINE r == Tail(q)
<1>1. Head(q) = q[1] /\ q[1] \in S /\ Len(q) \in Nat \ {0}
  OBVIOUS
<1>2. r \in Seq(S) /\ Len(r) = Len(q) - 1
  OBVIOUS
<1>3. \A i \in 1..Len(r) : r[i] = q[i + 1] /\ q[i + 1] \in S
  OBVIOUS
<1> HIDE DEF r
<1>4. Head(q).upto = lo + Head(q).n /\ Head(q).upto <= hi
  BY <1>1 DEF Chained
<1>5. r = <<>> => Head(q).upto = hi
  <2> SUFFICES ASSUME r = <<>> PROVE Head(q).upto = hi
    BY Zenon
  <2>1. Len(q) = 1
    BY <1>1, <1>2
  <2> QED BY Zenon, <1>1, <2>1 DEF Chained
<1>6. ASSUME r # <<>>
      PROVE  r[1].upto - r[1].n = Head(q).upto /\ r[Len(r)].upto = hi
  <2>1. Len(r) \in Nat \ {0}
    BY <1>2, <1>6, SMTT(30)
  <2>2. r[1] = q[2] /\ 1 \in 1..(Len(q) - 1)
    BY <1>1, <1>2, <1>3, <2>1
  <2>3. r[Len(r)] = q[Len(q)]
    BY <1>1, <1>2, <1>3, <2>1
  <2>4. q[1 + 1].upto - q[1 + 1].n = q[1].upto
    BY Zenon, <2>2 DEF Chained
  <2> QED BY <1>1, <2>2, <2>3, <2>4 DEF Chained
<1>7. \A i \in 1..Len(r) : r[i].upto <= hi
  BY <1>1, <1>2, <1>3 DEF Chained
<1>8. \A i \in 1..(Len(r) - 1) : r[i + 1].upto - r[i + 1].n = r[i].upto
  <2> SUFFICES ASSUME NEW i \in 1..(Len(r) - 1)
               PROVE  r[i + 1].upto - r[i + 1].n = r[i].upto
    BY Zenon
  <2>1. i \in 1..Len(r) /\ i + 1 \in 1..Len(r) /\ i + 1 \in 1..(Len(q) - 1)
    BY <1>1, <1>2
  <2>2. q[(i + 1) + 1].upto - q[(i + 1) + 1].n = q[i + 1].upto
    BY Zenon, <2>1 DEF Chained
  <2> QED BY Zenon, <1>3, <2>1, <2>2
<1> QED BY Zenon, <1>1, <1>4, <1>5, <1>6, <1>7, <1>8 DEF Chained, r

(* What has left a queue is no more than what has entered it. *)
LEMMA ChainOrdered ==
    ASSUME NEW S, NEW q \in Seq(S),
           NEW lo \in Int, NEW hi \in Int, Chained(q, lo, hi),
           \A x \in S : x.n \in Nat /\ x.upto \in Nat
    PROVE  lo <= hi
<1>1. CASE q = <<>>
  BY <1>1 DEF Chained
<1>2. CASE q # <<>>
  <2>1. Head(q) \in S /\ Head(q).upto = lo + Head(q).n /\ Head(q).upto <= hi
    BY Zenon, <1>2, ChainTail
  <2> QED BY <2>1
<1> QED BY Zenon, <1>1, <1>2

-----------------------------------------------------------------------------
(* No effective window exceeds the configured maximum. *)
LEMMA EffectiveBounded ==
    ASSUME NEW m \in Nat, NEW b \in Nat, NEW q \in Queued(b)
    PROVE  EffectiveMaxSize(m, b, q) \in Nat /\ EffectiveMaxSize(m, b, q) <= MaxConn
BY FlowAssumption DEF EffectiveMaxSize, SessionWindow, Queued, Lesser, Greater

LEMMA StoredBounded ==
    ASSUME TypeOK, NEW q \in Queued(buffered)
    PROVE  EffectiveMaxSize(rMax, buffered, q) \in Nat /\ EffectiveMaxSize(rMax, buffered, q) <= MaxConn
<1>1. rMax \in Nat /\ buffered \in Nat
  BY Zenon DEF TypeOK
<1> QED BY Zenon, <1>1, EffectiveBounded

(* Nor does a size calcSize stores. *)
LEMMA CalcBounded ==
    ASSUME TypeOK, rMax <= MaxConn, NEW m \in CalcSizes
    PROVE  m \in Nat /\ m <= MaxConn
<1>1. CASE m = rMax
  BY Zenon, <1>1 DEF TypeOK
<1>2. ASSUME NEW q \in Queued(buffered), NEW n \in Nat,
             m = EffectiveMaxSize(n, buffered, q)
      PROVE  m \in Nat /\ m <= MaxConn
  BY Zenon, <1>2, EffectiveBounded DEF TypeOK
<1>3. m = rMax \/ \E q \in Queued(buffered), n \in Nat :
                       m = EffectiveMaxSize(n, buffered, q)
  <2>1. \A k : Initial..k \subseteq Nat
    BY FlowAssumption
  <2> QED BY Zenon, <2>1 DEF CalcSizes
<1> QED BY Zenon, <1>1, <1>2, <1>3

(* The frames of the three queues have the fields the chain lemmas need. *)
LEMMA FrameFields ==
    /\ \A x \in Segment : x.n \in Nat /\ x.upto \in Nat
    /\ \A x \in WindowUpdate : x.n \in Nat /\ x.upto \in Nat /\ x.max \in Nat
BY Zenon DEF Segment, WindowUpdate

(* The order of the cumulative counters, from the three chains. *)
LEMMA CountersOrdered ==
    ASSUME IInv
    PROVE  /\ taken <= pushed
           /\ popped <= taken - dSeg
           /\ ackTaken <= ackPushed
<1>1. /\ data \in Seq(Segment) /\ rq \in Seq(Segment) /\ acks \in Seq(WindowUpdate)
      /\ taken \in Int /\ pushed \in Int /\ popped \in Int /\ taken - dSeg \in Int
      /\ ackTaken \in Int /\ ackPushed \in Int
  BY DEF IInv, TypeOK
<1>2. /\ Chained(data, taken, pushed)
      /\ Chained(rq, popped, taken - dSeg)
      /\ Chained(acks, ackTaken, ackPushed)
  BY Zenon DEF IInv, Queues
<1>3. taken <= pushed
  BY Zenon, <1>1, <1>2, FrameFields, ChainOrdered
<1>4. popped <= taken - dSeg
  BY Zenon, <1>1, <1>2, FrameFields, ChainOrdered
<1>5. ackTaken <= ackPushed
  BY Zenon, <1>1, <1>2, FrameFields, ChainOrdered
<1> QED BY Zenon, <1>3, <1>4, <1>5

(* The first update in flight starts where the applied ones end. *)
LEMMA FirstUpdate ==
    ASSUME IInv, acks # <<>>
    PROVE  /\ Chained(Tail(acks), Head(acks).upto, ackPushed)
           /\ Head(acks) \in WindowUpdate
           /\ Head(acks).upto = ackTaken + Head(acks).n
           /\ Head(acks).upto <= ackPushed
<1>1. acks \in Seq(WindowUpdate) /\ ackTaken \in Int /\ ackPushed \in Int
  BY DEF IInv, TypeOK
<1>2. Chained(acks, ackTaken, ackPushed)
  BY Zenon DEF IInv, Queues
<1>3. \A x \in WindowUpdate : x.n \in Nat /\ x.upto \in Nat
  BY Zenon, FrameFields
<1> QED BY Zenon, <1>1, <1>2, <1>3, ChainTail

(* No update acknowledges more than is outstanding. *)
LEMMA UpdateFits ==
    ASSUME IInv, acks # <<>>
    PROVE  Head(acks).n <= sSend
<1>1. /\ taken <= pushed /\ popped <= taken - dSeg /\ ackTaken <= ackPushed
  BY Zenon, CountersOrdered
<1>2. /\ Head(acks).n \in Nat /\ Head(acks).upto \in Nat
      /\ Head(acks).upto = ackTaken + Head(acks).n /\ Head(acks).upto <= ackPushed
  BY Zenon, FirstUpdate, FrameFields
<1>3. DPending \in Nat /\ RPending \in Nat /\ InHand \in Nat
  BY Zenon DEF IInv, TypeOK, Update, DPending, RPending, InHand
<1> QED BY <1>1, <1>2, <1>3 DEF IInv, TypeOK, Counters

(* The three properties follow from the inductive invariant. *)
LEMMA IInvImplies ==
    ASSUME IInv
    PROVE  NoInvalidUpdate /\ WindowsBounded /\ CreditConserved
<1>1. /\ taken <= pushed /\ popped <= taken - dSeg /\ ackTaken <= ackPushed
  BY Zenon, CountersOrdered
<1>2. NoInvalidUpdate
  BY Zenon, UpdateFits DEF NoInvalidUpdate
<1>3. DPending \in Nat /\ RPending \in Nat /\ InHand \in Nat
  BY Zenon DEF IInv, TypeOK, Update, DPending, RPending, InHand
<1>4. sSend <= MaxConn
  BY FlowAssumption DEF IInv, TypeOK, Windows
<1>5. rRead <= MaxConn
  BY <1>1, <1>3, <1>4, FlowAssumption DEF IInv, TypeOK, Counters
<1>6. buffered <= taken - popped + rSeg
  BY <1>1 DEF IInv, TypeOK, Counters
<1>7. buffered <= MaxConn
  BY <1>1, <1>3, <1>4, <1>6, FlowAssumption DEF IInv, TypeOK, Counters
<1>8. CreditConserved
  BY Zenon DEF IInv, Counters, CreditConserved
<1> QED BY Zenon, <1>2, <1>4, <1>5, <1>7, <1>8 DEF WindowsBounded

LEMMA InitIInv == Init => IInv
<1> SUFFICES ASSUME Init PROVE IInv
  BY Zenon
<1> USE FlowAssumption DEF Init
<1>1. TypeOK
  <2>1. NoWord \in Word /\ NoUpdate \in Update
    BY Zenon DEF Word, Update, NoWord, NoUpdate
  <2>2. /\ sWait \in BOOLEAN /\ token \in BOOLEAN /\ sClosed \in BOOLEAN
        /\ muxClosed \in BOOLEAN /\ rWait \in BOOLEAN
    BY Zenon
  <2>3. /\ data \in Seq(Segment) /\ acks \in Seq(WindowUpdate) /\ rq \in Seq(Segment)
    OBVIOUS
  <2>4. /\ dSnap \in Word /\ rSnap \in Word /\ dUpd \in Update /\ rUpd \in Update
    BY Zenon, <2>1
  <2>5. /\ wpc \in {"idle", "enter", "start", "sent", "send", "wait"}
        /\ apc \in {"idle", "allow"}
        /\ dpc \in {"idle", "load", "cas", "reserve", "push", "update"}
        /\ rpc \in {"idle", "release", "calc", "load", "cas", "update"}
    BY Zenon
  <2>6. /\ sMax \in Nat /\ sSend \in Nat /\ left \in Nat /\ seg \in Nat
        /\ rMax \in Nat /\ rRead \in Nat /\ buffered \in Nat
        /\ dSeg \in Nat /\ rSeg \in Nat /\ pushed \in Nat /\ taken \in Nat
        /\ popped \in Nat /\ ackPushed \in Nat /\ ackTaken \in Nat
    BY Zenon
  <2> QED BY <2>2, <2>3, <2>4, <2>5, <2>6, Zenon DEF TypeOK
<1>2. Places
  BY Zenon DEF Places, NoUpdate
<1>3. Windows
  BY DEF Windows, NoUpdate
<1>4. Queues
  BY DEF Queues, Chained
<1>5. Counters
  BY DEF Counters, DPending, RPending, InHand
<1> QED BY Zenon, <1>1, <1>2, <1>3, <1>4, <1>5 DEF IInv
-----------------------------------------------------------------------------
(* The sender's steps and its environment's preserve the inductive         *)
(* invariant: one lemma per action, and under it one step per part.        *)
LEMMA WriteToEnterIInv == ASSUME IInv, WriteToEnter PROVE IInv'
<1> USE FlowAssumption DEF IInv, sendVars, recvVars, dVars, rVars, histVars
<1>1. TypeOK'
  BY DEF TypeOK, WriteToEnter
<1>2. Places'
  BY Zenon DEF TypeOK, Places, WriteToEnter
<1>3. Windows'
  BY Zenon DEF TypeOK, Windows, WriteToEnter
<1>4. Queues'
  BY Zenon DEF TypeOK, Queues, WriteToEnter
<1>5. Counters'
  BY Zenon DEF TypeOK, Places, Counters, DPending, RPending, InHand, WriteToEnter
<1> QED BY Zenon, <1>1, <1>2, <1>3, <1>4, <1>5

LEMMA WriteToBlockIInv == ASSUME IInv, WriteToBlock PROVE IInv'
<1> USE FlowAssumption DEF IInv, sendVars, recvVars, dVars, rVars, histVars
<1>1. TypeOK'
  BY DEF TypeOK, WriteToBlock
<1>2. Places'
  BY Zenon DEF TypeOK, Places, WriteToBlock
<1>3. Windows'
  BY Zenon DEF TypeOK, Windows, WriteToBlock
<1>4. Queues'
  BY Zenon DEF TypeOK, Queues, WriteToBlock
<1>5. Counters'
  BY Zenon DEF TypeOK, Places, Counters, DPending, RPending, InHand, WriteToBlock
<1> QED BY Zenon, <1>1, <1>2, <1>3, <1>4, <1>5

LEMMA WriteToSegmentIInv == ASSUME IInv, WriteToSegment PROVE IInv'
<1> USE FlowAssumption DEF IInv, sendVars, recvVars, dVars, rVars, histVars
<1>1. TypeOK'
  BY DEF TypeOK, WriteToSegment, Remaining, Lesser, Greater
<1>2. Places'
  BY DEF TypeOK, Places, WriteToSegment, Remaining, Lesser, Greater
<1>3. Windows'
  BY DEF TypeOK, Windows, WriteToSegment, Remaining, Lesser, Greater
<1>4. Queues'
  BY Zenon DEF TypeOK, Queues, WriteToSegment
<1>5. Counters'
  BY Zenon DEF TypeOK, Places, Counters, DPending, RPending, InHand, WriteToSegment
<1> QED BY Zenon, <1>1, <1>2, <1>3, <1>4, <1>5

LEMMA SentIInv == ASSUME IInv, Sent PROVE IInv'
<1> USE FlowAssumption DEF IInv, sendVars, recvVars, dVars, rVars, histVars
<1>1. TypeOK'
  BY DEF TypeOK, Places, Sent
<1>2. Places'
  BY Zenon DEF TypeOK, Places, Sent
<1>3. Windows'
  BY DEF TypeOK, Windows, Sent
<1>4. Queues'
  BY Zenon DEF TypeOK, Queues, Sent
<1>5. Counters'
  BY DEF TypeOK, Places, Counters, DPending, RPending, InHand, Sent
<1> QED BY Zenon, <1>1, <1>2, <1>3, <1>4, <1>5

LEMMA SendDataIInv == ASSUME IInv, SendData PROVE IInv'
<1> USE FlowAssumption DEF IInv, sendVars, recvVars, dVars, rVars, histVars
<1>1. TypeOK'
  <2>1. [n |-> seg, upto |-> pushed + seg] \in Segment
    BY DEF TypeOK, Segment
  <2> QED BY <2>1 DEF TypeOK, SendData
<1>2. Places'
  BY Zenon DEF TypeOK, Places, SendData
<1>3. Windows'
  BY Zenon DEF TypeOK, Windows, SendData
<1>4. Queues'
  <2> DEFINE e == [n |-> seg, upto |-> pushed + seg]
  <2>1. e \in Segment /\ e.n = seg /\ e.upto = pushed + e.n /\ data \in Seq(Segment)
        /\ taken \in Int /\ pushed \in Int
    BY DEF TypeOK, Segment
  <2>2. Chained(data, taken, pushed)
    BY Zenon DEF Queues
  <2>3. \A x \in Segment : x.n \in Nat /\ x.upto \in Nat
    BY Zenon, FrameFields
  <2> HIDE DEF e
  <2>4. Chained(Append(data, e), taken, pushed + e.n)
    BY Zenon, <2>1, <2>2, <2>3, ChainAppend
  <2>5. data' = Append(data, e) /\ pushed' = pushed + e.n
    BY Zenon, <2>1 DEF SendData, e
  <2> QED BY Zenon, <2>4, <2>5 DEF Queues, SendData
<1>5. Counters'
  BY DEF TypeOK, Places, Counters, DPending, RPending, InHand, SendData
<1> QED BY Zenon, <1>1, <1>2, <1>3, <1>4, <1>5

LEMMA SendDataFailsIInv == ASSUME IInv, SendDataFails PROVE IInv'
<1> USE FlowAssumption DEF IInv, sendVars, recvVars, dVars, rVars, histVars
<1>1. TypeOK'
  BY DEF TypeOK, SendDataFails, Lesser
<1>2. Places'
  BY Zenon DEF TypeOK, Places, SendDataFails
<1>3. Windows'
  BY DEF TypeOK, Windows, SendDataFails, Lesser
<1>4. Queues'
  BY Zenon DEF TypeOK, Queues, SendDataFails
<1>5. Counters'
  <2>1. popped <= taken - dSeg /\ taken <= pushed /\ ackTaken <= ackPushed
    BY Zenon, CountersOrdered
  <2>2. DPending \in Nat /\ RPending \in Nat
    BY Zenon DEF TypeOK, Update, DPending, RPending
  <2>3. seg <= sSend
    BY <2>1, <2>2 DEF TypeOK, Counters, InHand, SendDataFails
  <2> QED BY <2>3 DEF TypeOK, Places, Counters, DPending, RPending, InHand, SendDataFails, Lesser
<1> QED BY Zenon, <1>1, <1>2, <1>3, <1>4, <1>5

LEMMA WaitWokenIInv == ASSUME IInv, WaitWoken PROVE IInv'
<1> USE FlowAssumption DEF IInv, sendVars, recvVars, dVars, rVars, histVars
<1>1. TypeOK'
  BY ZenonT(60) DEF TypeOK, WaitWoken
<1>2. Places'
  BY Zenon DEF TypeOK, Places, WaitWoken
<1>3. Windows'
  BY Zenon DEF TypeOK, Windows, WaitWoken
<1>4. Queues'
  BY Zenon DEF TypeOK, Queues, WaitWoken
<1>5. Counters'
  BY Zenon DEF TypeOK, Places, Counters, DPending, RPending, InHand, WaitWoken
<1> QED BY Zenon, <1>1, <1>2, <1>3, <1>4, <1>5

LEMMA WaitClosedIInv == ASSUME IInv, WaitClosed PROVE IInv'
<1> USE FlowAssumption DEF IInv, sendVars, recvVars, dVars, rVars, histVars
<1>1. TypeOK'
  BY DEF TypeOK, WaitClosed
<1>2. Places'
  BY Zenon DEF TypeOK, Places, WaitClosed
<1>3. Windows'
  BY Zenon DEF TypeOK, Windows, WaitClosed
<1>4. Queues'
  BY Zenon DEF TypeOK, Queues, WaitClosed
<1>5. Counters'
  BY Zenon DEF TypeOK, Places, Counters, DPending, RPending, InHand, WaitClosed
<1> QED BY Zenon, <1>1, <1>2, <1>3, <1>4, <1>5

LEMMA SetSizeIInv == ASSUME IInv, SetSize PROVE IInv'
<1> USE FlowAssumption DEF IInv, sendVars, recvVars, dVars, rVars, histVars
<1>1. TypeOK'
  <2>1. Head(acks).n \in Nat /\ Head(acks).max \in Nat /\ Head(acks).upto \in Nat
    BY Zenon, FirstUpdate, FrameFields DEF SetSize
  <2>2. Head(acks).n <= sSend
    BY Zenon, UpdateFits DEF SetSize
  <2>3. Tail(acks) \in Seq(WindowUpdate)
    BY DEF TypeOK, SetSize
  <2>4. /\ sMax' \in Nat /\ sSend' \in Nat /\ apc' \in {"idle", "allow"}
        /\ muxClosed' \in BOOLEAN
    BY <2>1, <2>2 DEF TypeOK, SetSize
  <2>5. sWait' \in BOOLEAN
    BY Zenon DEF TypeOK, SetSize
  <2>6. acks' \in Seq(WindowUpdate) /\ ackTaken' \in Nat
    BY Zenon, <2>1, <2>3 DEF SetSize
  <2>7. UNCHANGED <<token, sClosed, wpc, left, seg, data, recvVars, dVars, rVars,
                    pushed, taken, popped, ackPushed>>
    BY Zenon DEF SetSize
  <2> QED BY <2>4, <2>5, <2>6, <2>7 DEF TypeOK
<1>2. Places'
  BY Zenon DEF TypeOK, Places, SetSize
<1>3. Windows'
  <2>1. acks # <<>> /\ acks \in Seq(WindowUpdate)
    BY Zenon DEF TypeOK, SetSize
  <2>2. Head(acks).n \in Nat /\ Head(acks).max \in Nat
    BY Zenon, <2>1, FirstUpdate, FrameFields
  <2>3. Head(acks).n <= sSend
    BY Zenon, <2>1, UpdateFits
  <2>4. Head(acks).max <= MaxConn
    BY <2>1 DEF Windows
  <2>5. sMax' <= MaxConn /\ sSend' <= sSend /\ sSend' \in Nat
    <3>1. sSend \in Nat /\ sMax <= MaxConn
      BY Zenon DEF TypeOK, Windows
    <3>2. /\ sMax' \in {Head(acks).max, sMax}
          /\ sSend' \in {sSend - Head(acks).n, sSend}
      BY Zenon DEF SetSize
    <3> QED BY <2>2, <2>3, <2>4, <3>1, <3>2
  <2>6. \A i \in 1..Len(acks') : acks'[i].max <= MaxConn
    BY <2>1 DEF Windows, SetSize
  <2>7. UNCHANGED <<wpc, seg, rMax, dUpd, rUpd>>
    BY Zenon DEF SetSize
  <2>8. sSend' + (IF wpc' = "sent" THEN seg' ELSE 0) <= MaxConn
    <3>1. sSend \in Nat /\ seg \in Nat /\ MaxConn \in Nat
      BY Zenon DEF TypeOK
    <3>2. sSend + (IF wpc = "sent" THEN seg ELSE 0) <= MaxConn
      BY Zenon DEF Windows
    <3>3. sSend' <= sSend /\ sSend' \in Nat /\ wpc' = wpc /\ seg' = seg
      BY Zenon, <2>5, <2>7
    <3>4. PICK x \in Nat : sSend' = x
      BY Zenon, <3>3
    <3> QED BY <3>1, <3>2, <3>3, <3>4
  <2> QED BY Zenon, <2>5, <2>6, <2>7, <2>8 DEF Windows
<1>4. Queues'
  <2>1. Chained(acks', ackTaken', ackPushed')
    BY Zenon, FirstUpdate DEF SetSize
  <2> QED BY <2>1, SMTT(30) DEF Queues, SetSize
<1>5. Counters'
  <2>1. /\ Head(acks).n \in Nat /\ Head(acks).upto \in Nat
        /\ Head(acks).upto = ackTaken + Head(acks).n
    BY Zenon, FirstUpdate, FrameFields DEF SetSize
  <2>2. Head(acks).n <= sSend
    BY Zenon, UpdateFits DEF SetSize
  <2>3. /\ ackTaken' = ackTaken + Head(acks).n
        /\ sClosed => sSend' = sSend
        /\ ~sClosed => sSend' = sSend - Head(acks).n
    BY <2>1, <2>2 DEF TypeOK, SetSize
  <2>5. UNCHANGED <<sClosed, wpc, seg, recvVars, dVars, rVars, pushed, taken, popped, ackPushed>>
    BY Zenon DEF SetSize
  <2>6. InHand' = InHand /\ DPending' = DPending /\ RPending' = RPending
    BY Zenon, <2>5 DEF InHand, DPending, RPending
  <2>7. InHand \in Nat /\ DPending \in Nat /\ RPending \in Nat
    BY Zenon DEF TypeOK, Update, DPending, RPending, InHand
  <2> DEFINE n == Head(acks).n
  <2>a. n \in Nat /\ sSend \in Nat /\ pushed \in Nat /\ ackTaken \in Nat /\ pushed' = pushed
    BY Zenon, <2>1, <2>5 DEF TypeOK
  <2>b. ackTaken' = ackTaken + n /\ (sClosed => sSend' = sSend) /\ (~sClosed => sSend' = sSend - n)
    BY Zenon, <2>3
  <2>c. /\ ~sClosed => sSend = pushed + InHand - ackTaken
        /\ sSend >= pushed + InHand - ackTaken
    BY Zenon DEF Counters
  <2> HIDE DEF n
  <2>8. ~sClosed => sSend' = pushed' + InHand' - ackTaken'
    BY <2>6, <2>7, <2>a, <2>b, <2>c
  <2>9. sSend' >= pushed' + InHand' - ackTaken'
    BY <2>6, <2>7, <2>a, <2>b, <2>c
  <2>10. ~muxClosed
    BY Zenon DEF SetSize
  <2> QED BY Zenon, <2>5, <2>6, <2>8, <2>9, <2>10 DEF Counters
<1> QED BY Zenon, <1>1, <1>2, <1>3, <1>4, <1>5

LEMMA AllowIInv == ASSUME IInv, Allow PROVE IInv'
<1> USE FlowAssumption DEF IInv, sendVars, recvVars, dVars, rVars, histVars
<1>1. TypeOK'
  BY DEF TypeOK, Allow
<1>2. Places'
  BY Zenon DEF TypeOK, Places, Allow
<1>3. Windows'
  BY Zenon DEF TypeOK, Windows, Allow
<1>4. Queues'
  BY Zenon DEF TypeOK, Queues, Allow
<1>5. Counters'
  BY Zenon DEF TypeOK, Places, Counters, DPending, RPending, InHand, Allow
<1> QED BY Zenon, <1>1, <1>2, <1>3, <1>4, <1>5

LEMMA ConnWriteIInv == ASSUME IInv, NEW n \in 1..MaxWrite, ConnWrite(n) PROVE IInv'
<1> USE FlowAssumption DEF IInv, sendVars, recvVars, dVars, rVars, histVars
<1>1. TypeOK'
  BY DEF TypeOK, ConnWrite
<1>2. Places'
  BY Zenon DEF TypeOK, Places, ConnWrite
<1>3. Windows'
  BY Zenon DEF TypeOK, Windows, ConnWrite
<1>4. Queues'
  BY Zenon DEF TypeOK, Queues, ConnWrite
<1>5. Counters'
  BY Zenon DEF TypeOK, Places, Counters, DPending, RPending, InHand, ConnWrite
<1> QED BY Zenon, <1>1, <1>2, <1>3, <1>4, <1>5

LEMMA WaitTimeoutIInv == ASSUME IInv, WaitTimeout PROVE IInv'
<1> USE FlowAssumption DEF IInv, sendVars, recvVars, dVars, rVars, histVars
<1>1. TypeOK'
  BY DEF TypeOK, WaitTimeout
<1>2. Places'
  BY Zenon DEF TypeOK, Places, WaitTimeout
<1>3. Windows'
  BY Zenon DEF TypeOK, Windows, WaitTimeout
<1>4. Queues'
  BY Zenon DEF TypeOK, Queues, WaitTimeout
<1>5. Counters'
  BY Zenon DEF TypeOK, Places, Counters, DPending, RPending, InHand, WaitTimeout
<1> QED BY Zenon, <1>1, <1>2, <1>3, <1>4, <1>5

LEMMA CloseWindowIInv == ASSUME IInv, CloseWindow PROVE IInv'
<1> USE FlowAssumption DEF IInv, sendVars, recvVars, dVars, rVars, histVars
<1>1. TypeOK'
  BY DEF TypeOK, CloseWindow
<1>2. Places'
  BY Zenon DEF TypeOK, Places, CloseWindow
<1>3. Windows'
  BY Zenon DEF TypeOK, Windows, CloseWindow
<1>4. Queues'
  BY Zenon DEF TypeOK, Queues, CloseWindow
<1>5. Counters'
  BY Zenon DEF TypeOK, Places, Counters, DPending, RPending, InHand, CloseWindow
<1> QED BY Zenon, <1>1, <1>2, <1>3, <1>4, <1>5

LEMMA CloseMuxIInv == ASSUME IInv, CloseMux PROVE IInv'
<1> USE FlowAssumption DEF IInv, sendVars, recvVars, dVars, rVars, histVars
<1>1. TypeOK'
  BY DEF TypeOK, CloseMux
<1>2. Places'
  BY Zenon DEF TypeOK, Places, CloseMux
<1>3. Windows'
  BY Zenon DEF TypeOK, Windows, CloseMux
<1>4. Queues'
  BY Zenon DEF TypeOK, Queues, CloseMux
<1>5. Counters'
  BY Zenon DEF TypeOK, Places, Counters, DPending, RPending, InHand, CloseMux
<1> QED BY Zenon, <1>1, <1>2, <1>3, <1>4, <1>5

-----------------------------------------------------------------------------
(* The receiver's steps, and the theorems.                                  *)

LEMMA WriteCalcSizeIInv == ASSUME IInv, WriteCalcSize PROVE IInv'
<1> USE FlowAssumption DEF IInv, sendVars, recvVars, dVars, rVars, histVars
<1>1. TypeOK'
  <2>1. Head(data) \in Segment /\ Tail(data) \in Seq(Segment)
    BY DEF TypeOK, WriteCalcSize
  <2>2. Head(data).n \in Nat /\ Head(data).upto \in Nat
    BY Zenon, <2>1, FrameFields
  <2>3. rMax' \in Nat
    BY Zenon, CalcBounded DEF Windows, WriteCalcSize
  <2> QED BY <2>1, <2>2, <2>3 DEF TypeOK, WriteCalcSize
<1>2. Places'
  BY Zenon DEF TypeOK, Places, WriteCalcSize
<1>3. Windows'
  <2>1. rMax' <= MaxConn
    BY Zenon, CalcBounded DEF Windows, WriteCalcSize
  <2> QED BY Zenon, <2>1 DEF TypeOK, Windows, WriteCalcSize
<1>4. Queues'
  <2>1. data \in Seq(Segment) /\ data # <<>> /\ taken \in Int /\ pushed \in Int
    BY DEF TypeOK, WriteCalcSize
  <2>2. Chained(data, taken, pushed) /\ Chained(rq, popped, taken - dSeg)
    BY Zenon DEF Queues
  <2>3. /\ Chained(Tail(data), Head(data).upto, pushed)
        /\ Head(data) \in Segment /\ Head(data).upto = taken + Head(data).n
    BY Zenon, <2>1, <2>2, FrameFields, ChainTail
  <2>4. Head(data).n \in Nat
    BY Zenon, <2>3, FrameFields
  <2>5. dSeg = 0
    BY Zenon DEF Places, WriteCalcSize
  <2>6. taken' - dSeg' = taken - dSeg
    BY <2>1, <2>3, <2>4, <2>5 DEF WriteCalcSize
  <2> QED BY Zenon, <2>2, <2>3, <2>6 DEF Queues, WriteCalcSize
<1>5. Counters'
  <2>1. data \in Seq(Segment) /\ data # <<>> /\ taken \in Int /\ pushed \in Int
    BY DEF TypeOK, WriteCalcSize
  <2>2. Chained(data, taken, pushed)
    BY Zenon DEF Queues
  <2>3. Head(data) \in Segment /\ Head(data).upto = taken + Head(data).n
    BY Zenon, <2>1, <2>2, FrameFields, ChainTail
  <2>4. Head(data).n \in Nat
    BY Zenon, <2>3, FrameFields
  <2>5. dSeg = 0 /\ taken' - dSeg' = taken - dSeg
    BY <2>1, <2>3, <2>4 DEF Places, WriteCalcSize
  <2> QED BY Zenon, <2>5 DEF TypeOK, Counters, DPending, RPending, InHand, WriteCalcSize
<1> QED BY Zenon, <1>1, <1>2, <1>3, <1>4, <1>5

LEMMA WriteLoadIInv == ASSUME IInv, WriteLoad PROVE IInv'
<1> USE FlowAssumption DEF IInv, sendVars, recvVars, dVars, rVars, histVars
<1>1. TypeOK'
  <2>1. PICK q1 \in Queued(buffered) :
           dUpd'.max = EffectiveMaxSize(rMax, buffered, q1)
    BY DEF WriteLoad
  <2>2. dUpd'.max \in Nat /\ dUpd'.max <= MaxConn
    BY Zenon, <2>1, StoredBounded
  <2>3. dUpd' \in Update /\ dSnap' \in Word
    <3>1. dUpd'.wait \in BOOLEAN /\ dUpd'.send \in BOOLEAN /\ dUpd'.read \in Nat
      BY DEF TypeOK, WriteLoad
    <3>2. dUpd' = [send |-> dUpd'.send, max |-> dUpd'.max,
                   wait |-> dUpd'.wait, read |-> dUpd'.read]
      BY Zenon DEF WriteLoad
    <3>3. dSnap' \in Word
      BY Zenon DEF TypeOK, WriteLoad, RecvWord, Word
    <3> QED BY Zenon, <2>2, <3>1, <3>2, <3>3 DEF Update
  <2> QED BY <2>3 DEF TypeOK, WriteLoad
<1>2. Places'
  <2>1. /\ dUpd'.read = IF dUpd'.send THEN dSnap'.read ELSE 0
        /\ ~dUpd'.send => dUpd'.read = 0
    BY DEF TypeOK, WriteLoad, RecvWord
  <2> QED BY Zenon, <2>1 DEF TypeOK, Places, WriteLoad
<1>3. Windows'
  <2>1. PICK q1 \in Queued(buffered) :
           dUpd'.max = EffectiveMaxSize(rMax, buffered, q1)
    BY DEF WriteLoad
  <2>2. dUpd'.max \in Nat /\ dUpd'.max <= MaxConn
    BY Zenon, <2>1, StoredBounded
  <2> QED BY Zenon, <2>2 DEF TypeOK, Windows, WriteLoad
<1>4. Queues'
  BY Zenon DEF TypeOK, Queues, WriteLoad
<1>5. Counters'
  BY Zenon DEF TypeOK, Places, Counters, DPending, RPending, InHand, WriteLoad
<1> QED BY Zenon, <1>1, <1>2, <1>3, <1>4, <1>5

LEMMA WriteCASIInv == ASSUME IInv, WriteCAS PROVE IInv'
<1> USE FlowAssumption DEF IInv, sendVars, recvVars, dVars, rVars, histVars
<1>1. TypeOK'
  <2>1. NoWord \in Word /\ NoUpdate \in Update
    BY Zenon DEF Word, Update, NoWord, NoUpdate
  <2>2. dUpd.max \in Nat /\ dUpd.wait \in BOOLEAN
    BY Zenon DEF TypeOK, Update
  <2>3. rMax' \in Nat /\ rRead' \in Nat /\ rWait' \in BOOLEAN /\ dUpd' \in Update
        /\ dpc' \in {"load", "reserve"}
    BY <2>1, <2>2 DEF TypeOK, WriteCAS
  <2> QED BY <2>1, <2>3 DEF TypeOK, WriteCAS
<1>2. Places'
  BY DEF TypeOK, Places, WriteCAS, NoUpdate
<1>3. Windows'
  BY DEF TypeOK, Windows, WriteCAS, NoUpdate
<1>4. Queues'
  BY Zenon DEF TypeOK, Queues, WriteCAS
<1>5. Counters'
  <2>1. dUpd.read \in Nat
    BY Zenon DEF TypeOK, Update
  <2>2. CASE RecvWord = dSnap
    <3>1. dSnap.read = rRead
      BY Zenon, <2>2 DEF RecvWord
    <3>2. rRead' + DPending' = rRead + DPending
      BY <2>1, <2>2, <3>1 DEF TypeOK, Places, WriteCAS, DPending
    <3>3. rRead' \in Nat /\ DPending' \in Nat /\ DPending \in Nat
      BY <2>1, <2>2 DEF TypeOK, WriteCAS, DPending
    <3>4. RPending' = RPending /\ RPending \in Nat /\ InHand' = InHand
      BY Zenon DEF TypeOK, WriteCAS, RPending, InHand, Update
    <3>5. UNCHANGED <<buffered, popped, taken, dSeg, rSeg, rpc, ackPushed, muxClosed,
                      sSend, pushed, ackTaken, sClosed>>
      BY Zenon DEF WriteCAS
    <3>6. dpc # "push" /\ dpc' # "push"
      BY Zenon, <2>2 DEF WriteCAS
    <3>7. popped' - rSeg' = popped - rSeg
      BY Zenon, <3>5
    <3>8. ackPushed' + rRead' + DPending' + RPending' = ackPushed + rRead + DPending + RPending
      <4>1. ackPushed \in Nat /\ rRead \in Nat /\ ackPushed' = ackPushed
        BY Zenon, <3>5 DEF TypeOK
      <4>2. ackPushed' + rRead' + DPending' + RPending'
            = (ackPushed' + RPending') + (rRead' + DPending')
        BY <3>3, <3>4, <4>1
      <4>3. ackPushed + rRead + DPending + RPending
            = (ackPushed + RPending) + (rRead + DPending)
        BY <3>3, <3>4, <4>1
      <4> QED BY Zenon, <3>2, <3>4, <4>1, <4>2, <4>3
    <3>9. buffered' = taken' - dSeg' - popped'
                      + (IF dpc' = "push" THEN dSeg' ELSE 0)
                      + (IF rpc' = "release" THEN rSeg' ELSE 0)
      BY Zenon, <3>5, <3>6 DEF Counters
    <3> QED BY Zenon, <3>4, <3>5, <3>7, <3>8, <3>9 DEF Counters
  <2>3. CASE RecvWord # dSnap
    BY Zenon, <2>3 DEF TypeOK, Counters, DPending, RPending, InHand, WriteCAS
  <2> QED BY Zenon, <2>2, <2>3
<1> QED BY Zenon, <1>1, <1>2, <1>3, <1>4, <1>5

LEMMA ReserveBytesIInv == ASSUME IInv, ReserveBytes PROVE IInv'
<1> USE FlowAssumption DEF IInv, sendVars, recvVars, dVars, rVars, histVars
<1>1. TypeOK'
  BY DEF TypeOK, ReserveBytes
<1>2. Places'
  BY Zenon DEF TypeOK, Places, ReserveBytes
<1>3. Windows'
  BY Zenon DEF TypeOK, Windows, ReserveBytes
<1>4. Queues'
  BY Zenon DEF TypeOK, Queues, ReserveBytes
<1>5. Counters'
  BY DEF TypeOK, Places, Counters, DPending, RPending, InHand, ReserveBytes
<1> QED BY Zenon, <1>1, <1>2, <1>3, <1>4, <1>5

LEMMA WritePushIInv == ASSUME IInv, WritePush PROVE IInv'
<1> USE FlowAssumption DEF IInv, sendVars, recvVars, dVars, rVars, histVars
<1>1. TypeOK'
  <2>1. [n |-> dSeg, upto |-> taken] \in Segment /\ NoUpdate \in Update
    BY Zenon DEF TypeOK, Segment, Update, NoUpdate
  <2>2. rq' \in Seq(Segment)
    BY <2>1 DEF TypeOK, WritePush
  <2>3. dUpd' \in Update /\ dpc' \in {"update", "idle"}
    BY Zenon, <2>1 DEF TypeOK, WritePush
  <2> QED BY <2>2, <2>3 DEF TypeOK, WritePush
<1>2. Places'
  BY Zenon DEF TypeOK, Places, WritePush, NoUpdate
<1>3. Windows'
  BY DEF TypeOK, Windows, WritePush, NoUpdate
<1>4. Queues'
  <2> DEFINE e == [n |-> dSeg, upto |-> taken]
  <2>1. /\ e \in Segment /\ e.n = dSeg /\ e.upto = (taken - dSeg) + e.n
        /\ rq \in Seq(Segment) /\ popped \in Int /\ taken - dSeg \in Int
    BY DEF TypeOK, Segment
  <2>2. Chained(rq, popped, taken - dSeg)
    BY Zenon DEF Queues
  <2>3. \A x \in Segment : x.n \in Nat /\ x.upto \in Nat
    BY Zenon, FrameFields
  <2> HIDE DEF e
  <2>4. Chained(Append(rq, e), popped, (taken - dSeg) + e.n)
    BY Zenon, <2>1, <2>2, <2>3, ChainAppend
  <2>5. rq' = Append(rq, e) /\ (taken - dSeg) + e.n = taken' - dSeg'
    BY <2>1 DEF TypeOK, WritePush, e
  <2> QED BY Zenon, <2>4, <2>5 DEF Queues, WritePush
<1>5. Counters'
  <2>1. DPending' = DPending /\ RPending' = RPending /\ InHand' = InHand
    BY Zenon DEF Places, WritePush, DPending, RPending, InHand, NoUpdate
  <2> QED BY <2>1 DEF TypeOK, Counters, WritePush
<1> QED BY Zenon, <1>1, <1>2, <1>3, <1>4, <1>5

LEMMA WriteUpdateIInv == ASSUME IInv, WriteUpdate PROVE IInv'
<1> USE FlowAssumption DEF IInv, sendVars, recvVars, dVars, rVars, histVars
<1>1. TypeOK'
  <2>1. NoUpdate \in Update
    BY Zenon DEF Update, NoUpdate
  <2>2. /\ dUpd.max \in Nat /\ dUpd.read \in Nat
        /\ [max |-> dUpd.max, n |-> dUpd.read, upto |-> ackPushed + dUpd.read] \in WindowUpdate
    BY DEF TypeOK, Update, WindowUpdate
  <2>3. acks' \in Seq(WindowUpdate) /\ ackPushed' \in Nat
    <3>1. CASE muxClosed
      BY Zenon, <3>1 DEF TypeOK, WriteUpdate, PushUpdate
    <3>2. CASE ~muxClosed
      <4> DEFINE e == [max |-> dUpd.max, n |-> dUpd.read, upto |-> ackPushed + dUpd.read]
      <4>1. acks' = Append(acks, e) /\ ackPushed' = ackPushed + dUpd.read
        BY Zenon, <3>2 DEF WriteUpdate, PushUpdate
      <4>2. e \in WindowUpdate /\ acks \in Seq(WindowUpdate) /\ ackPushed \in Nat
        BY Zenon, <2>2 DEF TypeOK
      <4> HIDE DEF e
      <4> QED BY <2>2, <4>1, <4>2
    <3> QED BY Zenon, <3>1, <3>2
  <2> QED BY <2>1, <2>3 DEF TypeOK, WriteUpdate
<1>2. Places'
  BY Zenon DEF TypeOK, Places, WriteUpdate, NoUpdate
<1>3. Windows'
  <2>1. /\ dUpd.max \in Nat /\ dUpd.read \in Nat /\ dUpd.max <= MaxConn
    BY Zenon DEF TypeOK, Update, Windows
  <2>2. \A i \in 1..Len(acks') : acks'[i].max <= MaxConn
    <3>1. CASE muxClosed
      BY Zenon, <3>1 DEF Windows, WriteUpdate, PushUpdate
    <3>2. CASE ~muxClosed
      <4> DEFINE e == [max |-> dUpd.max, n |-> dUpd.read, upto |-> ackPushed + dUpd.read]
      <4>1. e.max <= MaxConn
        BY Zenon, <2>1
      <4>2. acks' = Append(acks, e) /\ acks \in Seq(WindowUpdate)
        BY Zenon, <3>2 DEF TypeOK, WriteUpdate, PushUpdate
      <4> HIDE DEF e
      <4> QED BY <4>1, <4>2 DEF Windows
    <3> QED BY Zenon, <3>1, <3>2
  <2> QED BY <2>2 DEF TypeOK, Windows, WriteUpdate, NoUpdate
<1>4. Queues'
  <2> DEFINE e == [max |-> dUpd.max, n |-> dUpd.read, upto |-> ackPushed + dUpd.read]
  <2>1. /\ dUpd.max \in Nat /\ dUpd.read \in Nat
        /\ e \in WindowUpdate /\ e.n = dUpd.read /\ e.upto = ackPushed + e.n /\ e.max = dUpd.max
    BY DEF TypeOK, Update, WindowUpdate
  <2> HIDE DEF e
  <2>2. CASE muxClosed
    BY Zenon, <2>2 DEF Queues, WriteUpdate, PushUpdate
  <2>3. CASE ~muxClosed
    <3>1. acks' = Append(acks, e) /\ ackPushed' = ackPushed + e.n
      BY Zenon, <2>1, <2>3 DEF WriteUpdate, PushUpdate, e
    <3>2. Chained(acks, ackTaken, ackPushed) /\ acks \in Seq(WindowUpdate)
          /\ ackTaken \in Int /\ ackPushed \in Int
      BY DEF TypeOK, Queues
    <3>3. \A x \in WindowUpdate : x.n \in Nat /\ x.upto \in Nat
      BY Zenon, FrameFields
    <3>4. Chained(Append(acks, e), ackTaken, ackPushed + e.n)
      BY Zenon, <2>1, <3>2, <3>3, ChainAppend
    <3> QED BY Zenon, <3>1, <3>4 DEF Queues, WriteUpdate
  <2> QED BY Zenon, <2>2, <2>3
<1>5. Counters'
  <2>1. dUpd.read \in Nat /\ DPending = dUpd.read /\ DPending' = 0
    BY Zenon DEF TypeOK, Update, WriteUpdate, DPending
  <2>2. RPending' = RPending /\ InHand' = InHand /\ RPending \in Nat
    BY Zenon DEF TypeOK, Update, WriteUpdate, RPending, InHand
  <2>3. muxClosed => ackPushed' = ackPushed
    BY Zenon DEF WriteUpdate, PushUpdate
  <2>4. ~muxClosed => ackPushed' = ackPushed + dUpd.read
    BY Zenon DEF WriteUpdate, PushUpdate
  <2>5. UNCHANGED <<buffered, popped, taken, rRead, dSeg, rSeg, muxClosed,
                    sSend, pushed, ackTaken, sClosed>>
    BY Zenon DEF WriteUpdate
  <2>6. /\ (dpc' = "push") = (dpc = "push")
        /\ (rpc' = "release") = (rpc = "release")
    BY Zenon DEF WriteUpdate
  <2>7. buffered' = taken' - dSeg' - popped'
                    + (IF dpc' = "push" THEN dSeg' ELSE 0)
                    + (IF rpc' = "release" THEN rSeg' ELSE 0)
    BY Zenon, <2>5, <2>6 DEF Counters
  <2>8. /\ popped' - rSeg' >= ackPushed' + rRead' + DPending' + RPending'
        /\ ~muxClosed => popped' - rSeg' = ackPushed' + rRead' + DPending' + RPending'
    <3>1. CASE muxClosed
      BY <2>1, <2>2, <2>3, <2>5, <3>1 DEF TypeOK, Counters
    <3>2. CASE ~muxClosed
      <4>1. popped - rSeg = ackPushed + rRead + DPending + RPending
        BY Zenon, <3>2 DEF Counters
      <4>2. /\ popped \in Nat /\ rSeg \in Nat /\ ackPushed \in Nat /\ rRead \in Nat
            /\ ackPushed' = ackPushed + dUpd.read
        BY Zenon, <2>4, <3>2 DEF TypeOK
      <4>3. ackPushed' + rRead' + DPending' + RPending' = ackPushed + rRead + DPending + RPending
        BY <2>1, <2>2, <2>5, <4>2
      <4>4. popped' - rSeg' = popped - rSeg /\ popped - rSeg \in Int
        BY <2>5, <4>2
      <4> QED BY <4>1, <4>3, <4>4
    <3> QED BY Zenon, <3>1, <3>2
  <2> QED BY Zenon, <2>2, <2>5, <2>7, <2>8 DEF Counters
<1> QED BY Zenon, <1>1, <1>2, <1>3, <1>4, <1>5

LEMMA ReadPopIInv == ASSUME IInv, ReadPop PROVE IInv'
<1> USE FlowAssumption DEF IInv, sendVars, recvVars, dVars, rVars, histVars
<1>1. TypeOK'
  <2>1. Head(rq) \in Segment /\ Tail(rq) \in Seq(Segment)
    BY DEF TypeOK, ReadPop
  <2>2. Head(rq).n \in Nat /\ Head(rq).upto \in Nat
    BY Zenon, <2>1, FrameFields
  <2> QED BY <2>1, <2>2 DEF TypeOK, ReadPop
<1>2. Places'
  BY Zenon DEF TypeOK, Places, ReadPop
<1>3. Windows'
  BY Zenon DEF TypeOK, Windows, ReadPop
<1>4. Queues'
  <2>1. rq \in Seq(Segment) /\ rq # <<>> /\ popped \in Int /\ taken - dSeg \in Int
    BY DEF TypeOK, ReadPop
  <2>2. Chained(rq, popped, taken - dSeg)
    BY Zenon DEF Queues
  <2>3. /\ Chained(Tail(rq), Head(rq).upto, taken - dSeg)
        /\ Head(rq) \in Segment /\ Head(rq).upto = popped + Head(rq).n
    BY Zenon, <2>1, <2>2, FrameFields, ChainTail
  <2> QED BY Zenon, <2>3 DEF Queues, ReadPop
<1>5. Counters'
  <2>1. rq \in Seq(Segment) /\ rq # <<>> /\ popped \in Int /\ taken - dSeg \in Int
    BY DEF TypeOK, ReadPop
  <2>2. Chained(rq, popped, taken - dSeg)
    BY Zenon DEF Queues
  <2>3. /\ Chained(Tail(rq), Head(rq).upto, taken - dSeg)
        /\ Head(rq) \in Segment /\ Head(rq).upto = popped + Head(rq).n
    BY Zenon, <2>1, <2>2, FrameFields, ChainTail
  <2>4. Head(rq).n \in Nat
    BY Zenon, <2>3, FrameFields
  <2>5. rSeg = 0 /\ rSeg' \in Nat /\ popped' = popped + rSeg'
    BY Zenon, <2>3, <2>4 DEF Places, ReadPop
  <2>x. PICK x \in Nat : rSeg' = x
    BY Zenon, <2>5
  <2>6. DPending' = DPending /\ RPending' = RPending /\ InHand' = InHand
        /\ DPending \in Nat /\ RPending \in Nat
    BY Zenon DEF TypeOK, Update, ReadPop, DPending, RPending, InHand
  <2>7. UNCHANGED <<buffered, taken, dSeg, dpc, ackPushed, rRead, muxClosed,
                    sSend, pushed, ackTaken, sClosed>>
    BY Zenon DEF ReadPop
  <2>8. rpc # "release" /\ rpc' = "release"
    BY Zenon DEF ReadPop
  <2>9. popped' - rSeg' = popped - rSeg
    BY <2>5, <2>x DEF TypeOK
  <2>10. ackPushed' + rRead' + DPending' + RPending' = ackPushed + rRead + DPending + RPending
    BY Zenon, <2>6, <2>7
  <2>11. buffered' = taken' - dSeg' - popped'
                     + (IF dpc' = "push" THEN dSeg' ELSE 0)
                     + (IF rpc' = "release" THEN rSeg' ELSE 0)
    <3>1. buffered = taken - dSeg - popped + (IF dpc = "push" THEN dSeg ELSE 0) + 0
      BY Zenon, <2>8 DEF Counters
    <3>2. /\ taken \in Nat /\ dSeg \in Nat /\ popped \in Nat /\ rSeg' \in Nat
          /\ (IF dpc = "push" THEN dSeg ELSE 0) \in Nat
      BY Zenon, <2>5 DEF TypeOK
    <3>3. taken - dSeg - popped + (IF dpc = "push" THEN dSeg ELSE 0) + 0
          = taken - dSeg - (popped + rSeg') + (IF dpc = "push" THEN dSeg ELSE 0) + rSeg'
      BY <2>x, <3>2
    <3> QED BY Zenon, <2>5, <2>7, <2>8, <3>1, <3>3
  <2> QED BY Zenon, <2>6, <2>7, <2>9, <2>10, <2>11 DEF Counters
<1> QED BY Zenon, <1>1, <1>2, <1>3, <1>4, <1>5

LEMMA ReleaseBytesIInv == ASSUME IInv, ReleaseBytes PROVE IInv'
<1> USE FlowAssumption DEF IInv, sendVars, recvVars, dVars, rVars, histVars
<1>1. TypeOK'
  <2>1. popped <= taken - dSeg
    BY Zenon, CountersOrdered
  <2>2. buffered - rSeg \in Nat
    BY <2>1 DEF TypeOK, Counters, ReleaseBytes
  <2> QED BY <2>2 DEF TypeOK, ReleaseBytes
<1>2. Places'
  BY Zenon DEF TypeOK, Places, ReleaseBytes
<1>3. Windows'
  BY Zenon DEF TypeOK, Windows, ReleaseBytes
<1>4. Queues'
  BY Zenon DEF TypeOK, Queues, ReleaseBytes
<1>5. Counters'
  BY SMTT(60) DEF TypeOK, Places, Counters, DPending, RPending, InHand, ReleaseBytes
<1> QED BY Zenon, <1>1, <1>2, <1>3, <1>4, <1>5

LEMMA StatusCalcSizeIInv == ASSUME IInv, StatusCalcSize PROVE IInv'
<1> USE FlowAssumption DEF IInv, sendVars, recvVars, dVars, rVars, histVars
<1>1. TypeOK'
  <2>1. rMax' \in Nat
    BY Zenon, CalcBounded DEF Windows, StatusCalcSize
  <2> QED BY <2>1, SMTT(60) DEF TypeOK, StatusCalcSize
<1>2. Places'
  BY Zenon DEF TypeOK, Places, StatusCalcSize
<1>3. Windows'
  <2>1. rMax' <= MaxConn
    BY Zenon, CalcBounded DEF Windows, StatusCalcSize
  <2> QED BY <2>1, Zenon DEF Windows, StatusCalcSize
<1>4. Queues'
  BY Zenon DEF TypeOK, Queues, StatusCalcSize
<1>5. Counters'
  BY Zenon DEF TypeOK, Places, Counters, DPending, RPending, InHand, StatusCalcSize
<1> QED BY Zenon, <1>1, <1>2, <1>3, <1>4, <1>5

LEMMA StatusLoadIInv == ASSUME IInv, StatusLoad PROVE IInv'
<1> USE FlowAssumption DEF IInv, sendVars, recvVars, dVars, rVars, histVars
<1>1. TypeOK'
  <2>1. PICK q1 \in Queued(buffered) :
           rUpd'.max = EffectiveMaxSize(rMax, buffered, q1)
    BY DEF StatusLoad
  <2>2. rUpd'.max \in Nat /\ rUpd'.max <= MaxConn
    BY Zenon, <2>1, StoredBounded
  <2>3. rUpd' \in Update /\ rSnap' \in Word
    <3>1. rUpd'.wait \in BOOLEAN /\ rUpd'.send \in BOOLEAN /\ rUpd'.read \in Nat
      BY DEF TypeOK, StatusLoad
    <3>2. rUpd' = [send |-> rUpd'.send, max |-> rUpd'.max,
                   wait |-> rUpd'.wait, read |-> rUpd'.read]
      BY Zenon DEF StatusLoad
    <3>3. rSnap' \in Word
      BY SMTT(60) DEF TypeOK, StatusLoad, RecvWord, Word
    <3> QED BY Zenon, <2>2, <3>1, <3>2, <3>3 DEF Update
  <2> QED BY <2>3 DEF TypeOK, StatusLoad
<1>2. Places'
  <2>1. rUpd'.read = rSnap'.read + rSeg
    BY SMTT(60) DEF TypeOK, StatusLoad, RecvWord
  <2> QED BY <2>1, Zenon DEF Places, StatusLoad
<1>3. Windows'
  <2>1. PICK q1 \in Queued(buffered) :
           rUpd'.max = EffectiveMaxSize(rMax, buffered, q1)
    BY DEF StatusLoad
  <2>2. rUpd'.max \in Nat /\ rUpd'.max <= MaxConn
    BY Zenon, <2>1, StoredBounded
  <2> QED BY <2>2, Zenon DEF Windows, StatusLoad
<1>4. Queues'
  BY Zenon DEF Queues, StatusLoad
<1>5. Counters'
  BY Zenon DEF TypeOK, Places, Counters, DPending, RPending, InHand, StatusLoad
<1> QED BY Zenon, <1>1, <1>2, <1>3, <1>4, <1>5

LEMMA StatusCASIInv == ASSUME IInv, StatusCAS PROVE IInv'
<1> USE FlowAssumption DEF IInv, sendVars, recvVars, dVars, rVars, histVars
<1>1. TypeOK'
  <2>1. NoWord \in Word /\ NoUpdate \in Update
    BY Zenon DEF Word, Update, NoWord, NoUpdate
  <2>2. rUpd.max \in Nat /\ rUpd.read \in Nat /\ rUpd.wait \in BOOLEAN /\ rUpd.send \in BOOLEAN
    BY Zenon DEF TypeOK, Update
  <2>3. rMax' \in Nat /\ rRead' \in Nat /\ rUpd' \in Update /\ rSeg' \in Nat
        /\ rpc' \in {"load", "update", "idle"}
    BY <2>1, <2>2 DEF TypeOK, StatusCAS
  <2>4. rWait' \in BOOLEAN
    BY Zenon, <2>2 DEF TypeOK, StatusCAS
  <2> QED BY <2>1, <2>3, <2>4 DEF TypeOK, StatusCAS
<1>2. Places'
  BY Zenon DEF TypeOK, Places, StatusCAS, NoUpdate
<1>3. Windows'
  <2>1. NoUpdate.max <= MaxConn
    BY DEF NoUpdate
  <2> QED BY Zenon, <2>1 DEF Windows, StatusCAS
<1>4. Queues'
  BY Zenon DEF TypeOK, Queues, StatusCAS
<1>5. Counters'
  <2>1. rUpd.read \in Nat
    BY Zenon DEF TypeOK, Update
  <2>2. CASE RecvWord = rSnap
    <3>1. rUpd.read = rRead + rSeg
      BY Zenon, <2>2 DEF Places, RecvWord, StatusCAS
    <3>2. rSeg' = 0 /\ rRead' + RPending' = rRead + rSeg /\ RPending = 0
      BY <2>1, <2>2, <3>1 DEF TypeOK, StatusCAS, RPending
    <3>3. rRead' \in Nat /\ RPending' \in Nat
      BY <2>1, <2>2 DEF TypeOK, StatusCAS, RPending
    <3>4. rpc # "release" /\ rpc' # "release"
      BY Zenon, <2>2 DEF StatusCAS
    <3>5. DPending' = DPending /\ DPending \in Nat /\ InHand' = InHand
      BY Zenon DEF TypeOK, StatusCAS, DPending, InHand, Update
    <3>6. UNCHANGED <<buffered, popped, taken, dSeg, dpc, ackPushed, muxClosed,
                      sSend, pushed, ackTaken, sClosed>>
      BY Zenon DEF StatusCAS
    <3>7. popped' - rSeg' = (popped - rSeg) + rSeg
      BY <3>2, <3>6 DEF TypeOK
    <3>8. ackPushed' + rRead' + DPending' + RPending' = (ackPushed + rRead + DPending + RPending) + rSeg
      <4>1. ackPushed \in Nat /\ rRead \in Nat /\ rSeg \in Nat /\ ackPushed' = ackPushed
        BY Zenon, <3>6 DEF TypeOK
      <4>2. ackPushed' + rRead' + DPending' + RPending'
            = (ackPushed' + DPending') + (rRead' + RPending')
        BY <3>3, <3>5, <4>1
      <4>3. (ackPushed + rRead + DPending + RPending) + rSeg
            = (ackPushed + DPending) + (rRead + rSeg)
        BY <3>2, <3>5, <4>1
      <4> QED BY Zenon, <3>2, <3>5, <4>1, <4>2, <4>3
    <3>9. /\ popped' - rSeg' >= ackPushed' + rRead' + DPending' + RPending'
          /\ ~muxClosed => popped' - rSeg' = ackPushed' + rRead' + DPending' + RPending'
      <4>1. /\ popped - rSeg >= ackPushed + rRead + DPending + RPending
            /\ ~muxClosed => popped - rSeg = ackPushed + rRead + DPending + RPending
        BY Zenon DEF Counters
      <4>2. /\ popped - rSeg \in Int /\ rSeg \in Int
            /\ ackPushed + rRead + DPending + RPending \in Int
        BY <3>2, <3>5 DEF TypeOK
      <4> QED BY <3>7, <3>8, <4>1, <4>2
    <3>10. buffered' = taken' - dSeg' - popped'
                      + (IF dpc' = "push" THEN dSeg' ELSE 0)
                      + (IF rpc' = "release" THEN rSeg' ELSE 0)
      BY <3>4, <3>6, SMTT(60) DEF Counters
    <3> QED BY Zenon, <3>5, <3>6, <3>9, <3>10 DEF Counters
  <2>3. CASE RecvWord # rSnap
    BY Zenon, <2>3 DEF TypeOK, Counters, DPending, RPending, InHand, StatusCAS
  <2> QED BY Zenon, <2>2, <2>3
<1> QED BY Zenon, <1>1, <1>2, <1>3, <1>4, <1>5

LEMMA StatusUpdateIInv == ASSUME IInv, StatusUpdate PROVE IInv'
<1> USE FlowAssumption DEF IInv, sendVars, recvVars, dVars, rVars, histVars
<1>1. TypeOK'
  <2>1. NoUpdate \in Update
    BY Zenon DEF Update, NoUpdate
  <2>2. /\ rUpd.max \in Nat /\ rUpd.read \in Nat
        /\ [max |-> rUpd.max, n |-> rUpd.read, upto |-> ackPushed + rUpd.read] \in WindowUpdate
    BY DEF TypeOK, Update, WindowUpdate
  <2>3. acks' \in Seq(WindowUpdate) /\ ackPushed' \in Nat
    <3>1. CASE muxClosed
      BY Zenon, <3>1 DEF TypeOK, StatusUpdate, PushUpdate
    <3>2. CASE ~muxClosed
      <4> DEFINE e == [max |-> rUpd.max, n |-> rUpd.read, upto |-> ackPushed + rUpd.read]
      <4>1. acks' = Append(acks, e) /\ ackPushed' = ackPushed + rUpd.read
        BY Zenon, <3>2 DEF StatusUpdate, PushUpdate
      <4>2. e \in WindowUpdate /\ acks \in Seq(WindowUpdate) /\ ackPushed \in Nat
        BY <2>2, SMTT(60) DEF TypeOK
      <4> HIDE DEF e
      <4> QED BY <2>2, <4>1, <4>2
    <3> QED BY Zenon, <3>1, <3>2
  <2> QED BY <2>1, <2>3 DEF TypeOK, StatusUpdate
<1>2. Places'
  BY Zenon DEF Places, StatusUpdate, NoUpdate
<1>3. Windows'
  <2>1. /\ rUpd.max \in Nat /\ rUpd.read \in Nat /\ rUpd.max <= MaxConn
    BY SMTT(60) DEF TypeOK, Update, Windows
  <2>2. \A i \in 1..Len(acks') : acks'[i].max <= MaxConn
    <3>1. CASE muxClosed
      BY Zenon, <3>1 DEF Windows, StatusUpdate, PushUpdate
    <3>2. CASE ~muxClosed
      <4> DEFINE e == [max |-> rUpd.max, n |-> rUpd.read, upto |-> ackPushed + rUpd.read]
      <4>1. e.max <= MaxConn
        BY Zenon, <2>1
      <4>2. acks' = Append(acks, e) /\ acks \in Seq(WindowUpdate)
        BY Zenon, <3>2 DEF TypeOK, StatusUpdate, PushUpdate
      <4> HIDE DEF e
      <4> QED BY <4>1, <4>2 DEF Windows
    <3> QED BY Zenon, <3>1, <3>2
  <2>3. NoUpdate.max <= MaxConn
    BY DEF NoUpdate
  <2> QED BY Zenon, <2>2, <2>3 DEF Windows, StatusUpdate
<1>4. Queues'
  <2> DEFINE e == [max |-> rUpd.max, n |-> rUpd.read, upto |-> ackPushed + rUpd.read]
  <2>1. /\ rUpd.max \in Nat /\ rUpd.read \in Nat
        /\ e \in WindowUpdate /\ e.n = rUpd.read /\ e.upto = ackPushed + e.n /\ e.max = rUpd.max
    BY DEF TypeOK, Update, WindowUpdate
  <2> HIDE DEF e
  <2>2. CASE muxClosed
    BY Zenon, <2>2 DEF Queues, StatusUpdate, PushUpdate
  <2>3. CASE ~muxClosed
    <3>1. acks' = Append(acks, e) /\ ackPushed' = ackPushed + e.n
      BY Zenon, <2>1, <2>3 DEF StatusUpdate, PushUpdate, e
    <3>2. Chained(acks, ackTaken, ackPushed) /\ acks \in Seq(WindowUpdate)
          /\ ackTaken \in Int /\ ackPushed \in Int
      BY DEF TypeOK, Queues
    <3>3. \A x \in WindowUpdate : x.n \in Nat /\ x.upto \in Nat
      BY Zenon, FrameFields
    <3>4. Chained(Append(acks, e), ackTaken, ackPushed + e.n)
      BY Zenon, <2>1, <3>2, <3>3, ChainAppend
    <3> QED BY Zenon, <3>1, <3>4 DEF Queues, StatusUpdate
  <2> QED BY Zenon, <2>2, <2>3
<1>5. Counters'
  <2>1. rUpd.read \in Nat /\ RPending = rUpd.read /\ RPending' = 0
    BY Zenon DEF TypeOK, Update, StatusUpdate, RPending
  <2>2. DPending' = DPending /\ InHand' = InHand /\ DPending \in Nat
    BY Zenon DEF TypeOK, Update, StatusUpdate, DPending, InHand
  <2>3. muxClosed => ackPushed' = ackPushed
    BY Zenon DEF StatusUpdate, PushUpdate
  <2>4. ~muxClosed => ackPushed' = ackPushed + rUpd.read
    BY Zenon DEF StatusUpdate, PushUpdate
  <2>5. UNCHANGED <<buffered, popped, taken, rRead, dSeg, rSeg, muxClosed,
                    sSend, pushed, ackTaken, sClosed>>
    BY Zenon DEF StatusUpdate
  <2>6. /\ (dpc' = "push") = (dpc = "push")
        /\ (rpc' = "release") = (rpc = "release")
    BY Zenon DEF StatusUpdate
  <2>7. buffered' = taken' - dSeg' - popped'
                    + (IF dpc' = "push" THEN dSeg' ELSE 0)
                    + (IF rpc' = "release" THEN rSeg' ELSE 0)
    BY Zenon, <2>5, <2>6 DEF Counters
  <2>8. /\ popped' - rSeg' >= ackPushed' + rRead' + DPending' + RPending'
        /\ ~muxClosed => popped' - rSeg' = ackPushed' + rRead' + DPending' + RPending'
    <3>1. CASE muxClosed
      BY <2>1, <2>2, <2>3, <2>5, <3>1 DEF TypeOK, Counters
    <3>2. CASE ~muxClosed
      <4>1. popped - rSeg = ackPushed + rRead + DPending + RPending
        BY Zenon, <3>2 DEF Counters
      <4>2. /\ popped \in Nat /\ rSeg \in Nat /\ ackPushed \in Nat /\ rRead \in Nat
            /\ ackPushed' = ackPushed + rUpd.read
        BY Zenon, <2>4, <3>2 DEF TypeOK
      <4>3. ackPushed' + rRead' + DPending' + RPending' = ackPushed + rRead + DPending + RPending
        BY <2>1, <2>2, <2>5, <4>2
      <4>4. popped' - rSeg' = popped - rSeg /\ popped - rSeg \in Int
        BY <2>5, <4>2
      <4> QED BY <4>1, <4>3, <4>4
    <3> QED BY Zenon, <3>1, <3>2
  <2> QED BY Zenon, <2>2, <2>5, <2>7, <2>8 DEF Counters
<1> QED BY Zenon, <1>1, <1>2, <1>3, <1>4, <1>5

LEMMA StutterIInv == ASSUME IInv, UNCHANGED vars PROVE IInv'
<1> USE FlowAssumption DEF IInv, sendVars, recvVars, dVars, rVars, histVars
<1> USE DEF vars, sendVars, recvVars, dVars, rVars, histVars
<1>1. TypeOK'
  BY DEF TypeOK
<1>2. Places'
  BY SMTT(60) DEF Places
<1>3. Windows'
  BY Zenon DEF Windows
<1>4. Queues'
  BY Zenon DEF Queues
<1>5. Counters'
  BY Zenon DEF Counters, DPending, RPending, InHand
<1> QED BY Zenon, <1>1, <1>2, <1>3, <1>4, <1>5

LEMMA NextIInv == IInv /\ [Next]_vars => IInv'
  BY Zenon, WriteToEnterIInv, WriteToBlockIInv, WriteToSegmentIInv, SentIInv,
     SendDataIInv, SendDataFailsIInv, WaitWokenIInv, WaitClosedIInv,
     SetSizeIInv, AllowIInv, WriteCalcSizeIInv, WriteLoadIInv,
     WriteCASIInv, ReserveBytesIInv, WritePushIInv, WriteUpdateIInv,
     ReadPopIInv, ReleaseBytesIInv, StatusCalcSizeIInv, StatusLoadIInv,
     StatusCASIInv, StatusUpdateIInv, ConnWriteIInv, WaitTimeoutIInv,
     CloseWindowIInv, CloseMuxIInv, StutterIInv
     DEF Next, Writer, AckReader, DataReader, Reader, Environment

-----------------------------------------------------------------------------
(* The inductive invariant holds in every reachable state. *)
THEOREM IInvAlways == Spec => []IInv
<1>1. Init => IInv
  BY Zenon, InitIInv
<1>2. IInv /\ [Next]_vars => IInv'
  BY Zenon, NextIInv
<1> QED BY <1>1, <1>2, PTL DEF Spec

(* Type correctness, for every value of the constants. *)
THEOREM TypeCorrect == Spec => []TypeOK
<1>1. IInv => TypeOK
  BY Zenon DEF IInv
<1> QED BY <1>1, IInvAlways, PTL

(* sendWindow.SetSize never closes the mux over an invalid window update,  *)
(* whatever the order in which the receiver's two goroutines send theirs.  *)
THEOREM NoInvalidUpdateAlways == Spec => []NoInvalidUpdate
<1>1. IInv => NoInvalidUpdate
  BY Zenon, IInvImplies
<1> QED BY <1>1, IInvAlways, PTL

(* Outstanding, buffered and unacknowledged bytes never exceed the         *)
(* configured connection window.                                           *)
THEOREM WindowsBoundedAlways == Spec => []WindowsBounded
<1>1. IInv => WindowsBounded
  BY Zenon, IInvImplies
<1> QED BY <1>1, IInvAlways, PTL

(* No credit is lost or minted while the mux is open. *)
THEOREM CreditConservedAlways == Spec => []CreditConserved
<1>1. IInv => CreditConserved
  BY Zenon, IInvImplies
<1> QED BY <1>1, IInvAlways, PTL
=============================================================================
