--------------------------- MODULE MuxWriteQueue ---------------------------
(***************************************************************************)
(* The write queue of a mux (src/lib/mux/queue.go, queue_stream_bucket.go, *)
(* flush.go) with the goroutines that meet in it: the senders in           *)
(* Mux.sendInfo, the writer goroutine of writeSession, and whoever runs    *)
(* closeWithReason.                                                        *)
(*                                                                         *)
(* The queue has two locks, mu and cond.L.  A section under mu that takes  *)
(* no other lock is one step; afterPop takes cond.L while mu is held, and  *)
(* Pop takes mu while cond.L is held, so those sections are several steps. *)
(* cond is a Go sync.Cond: Signal wakes the waiter that has waited         *)
(* longest, Broadcast wakes all, and a woken goroutine takes cond.L again  *)
(* before Wait returns.                                                    *)
(***************************************************************************)
EXTENDS Integers, Sequences, FiniteSets

CONSTANTS
    Senders,    \* goroutines that call sendInfo
    Workloads,  \* bounds of a behaviour: the frames each sender sends, in
                \* order, and whether the connection may break by itself
    Streams,    \* stream identifiers
    HighWater, LowWater,
    MaxBurst,   \* maxPriorityBurst
    BufCap,     \* frames the FlushWriter holds
    Writer, Closer, None

Classes == {"priority", "normal"}
Kinds == {"control", "update", "data", "close"}

(* A frame is queued in the control list or in the bucket of its stream. *)
Control == <<"control", None>>
Lanes == {Control} \cup (Classes \X Streams)
Lane(f) == IF f.kind \in {"control", "update"} THEN Control ELSE <<f.class, f.id>>

VARIABLES
    work,                   \* the member of Workloads this behaviour keeps to
    control, active, bucket, \* the queued frames: control list, stream buckets
    burst,                  \* priorityBurst
    length,                 \* the atomic length
    stop,                   \* the queue's stop flag
    muxClosed, connClosed, connFailed,
    mu, L, waiters,         \* lock holders and cond's wait list
    spc, sent,              \* senders: place, frames done with
    wpc, held,              \* writer: place, frame in hand
    buf, fwErr,             \* FlushWriter
    cpc, cproc,             \* closeWithReason: place and goroutine running it
    pushed, wire,           \* history: frames queued and frames the connection
                            \* accepted, numbered within their lane
    skipped                 \* history: see Skip

queueVars == <<control, active, bucket, burst, length>>
lockVars == <<mu, L, waiters>>
sendVars == <<work, spc, sent>>
writerVars == <<wpc, held, buf, fwErr, wire>>
closeVars == <<stop, muxClosed, connClosed, connFailed, cpc, cproc>>
vars == <<queueVars, lockVars, sendVars, writerVars, closeVars, pushed, skipped>>

Init ==
    /\ work \in Workloads
    /\ control = <<>> /\ active = [c \in Classes |-> <<>>]
    /\ bucket = [c \in Classes |-> [i \in Streams |-> <<>>]]
    /\ burst = 0 /\ length = 0
    /\ stop = FALSE /\ muxClosed = FALSE /\ connClosed = FALSE /\ connFailed = FALSE
    /\ mu = None /\ L = None /\ waiters = <<>>
    /\ spc = [s \in Senders |-> "idle"] /\ sent = [s \in Senders |-> 0]
    /\ wpc = "top" /\ held = <<>> /\ buf = <<>> /\ fwErr = FALSE
    /\ cpc = "idle" /\ cproc = None
    /\ pushed = [l \in Lanes |-> 0] /\ wire = [l \in Lanes |-> <<>>]
    /\ skipped = [i \in Streams |-> 0]

-----------------------------------------------------------------------------
(* Mutant: close frames go to the control list. *)
EnqueueCloseFirst(f) ==
    IF f.kind # "data"
    THEN control' = Append(control, f) /\ UNCHANGED <<active, bucket>>
    ELSE /\ bucket' = [bucket EXCEPT ![f.class][f.id] = Append(@, f)]
         /\ active' = IF bucket[f.class][f.id] = <<>>
                      THEN [active EXCEPT ![f.class] = Append(@, f.id)]
                      ELSE active
         /\ UNCHANGED control

(* push: control frames in one list, stream frames in the bucket of their  *)
(* stream, which joins the round robin when it was empty.                  *)
Enqueue(f) ==
    IF Lane(f) = Control
    THEN control' = Append(control, f) /\ UNCHANGED <<active, bucket>>
    ELSE /\ bucket' = [bucket EXCEPT ![f.class][f.id] = Append(@, f)]
         /\ active' = IF bucket[f.class][f.id] = <<>>
                      THEN [active EXCEPT ![f.class] = Append(@, f.id)]
                      ELSE active
         /\ UNCHANGED control

(* popStream: priority streams first, but no more than MaxBurst in a row   *)
(* while a normal stream has frames.                                       *)
PopClass ==
    IF active["priority"] # <<>> /\ (active["normal"] = <<>> \/ burst < MaxBurst)
    THEN "priority" ELSE "normal"

QueueEmpty == control = <<>> /\ \A c \in Classes : active[c] = <<>>

(* The frame TryPop returns. *)
NextFrame ==
    IF control # <<>> THEN Head(control)
    ELSE Head(bucket[PopClass][Head(active[PopClass])])

(* streamBucketSet.pop: the bucket leaves the round robin when it is       *)
(* empty and goes to its end otherwise.                                    *)
Dequeue ==
    IF control # <<>>
    THEN control' = Tail(control) /\ UNCHANGED <<active, bucket, burst>>
    ELSE LET c == PopClass
             i == Head(active[c])
             rest == Tail(bucket[c][i])
         IN /\ bucket' = [bucket EXCEPT ![c][i] = rest]
            /\ active' = [active EXCEPT ![c] =
                            IF rest = <<>> THEN Tail(@) ELSE Append(Tail(@), i)]
            /\ burst' = IF c = "priority" /\ active["normal"] # <<>> THEN burst + 1 ELSE 0
            /\ UNCHANGED control

(* History: for each stream with a normal frame queued, how many frames of *)
(* other streams left the queue since its last one did.                    *)
Skip ==
    skipped' = [i \in Streams |->
        IF control # <<>> THEN skipped[i]
        ELSE IF bucket["normal"][i] = <<>> \/ NextFrame.id = i THEN 0
        ELSE skipped[i] + 1]

(* afterPop: this pop takes the queue below the low-water mark. *)
Crosses == length = LowWater

(* TryPop by p, up to afterPop.  The pop that takes the queue below the    *)
(* low-water mark keeps mu to broadcast under cond.L.                      *)
TryPop(p) ==
    /\ mu = None /\ ~QueueEmpty
    /\ Dequeue /\ Skip
    /\ length' = length - 1
    /\ mu' = IF Crosses THEN p ELSE None

Signal == waiters' = IF waiters = <<>> THEN <<>> ELSE Tail(waiters)

-----------------------------------------------------------------------------
(* Mux.sendInfo *)

(* The frame s is sending, numbered when it is queued. *)
Message(s) == work.frames[s][sent[s] + 1]
Frame(s) == [id |-> Message(s).id, kind |-> Message(s).kind, class |-> Message(s).class,
             n |-> pushed[Lane(Message(s))] + 1]

GiveUp(s) ==
    /\ spc' = [spc EXCEPT ![s] = "idle"] /\ sent' = [sent EXCEPT ![s] = @ + 1]
    /\ UNCHANGED work
Goto(s, pc) == spc' = [spc EXCEPT ![s] = pc] /\ UNCHANGED <<work, sent>>

(* The first closed check, and the length applyWriteBackpressure looks at  *)
(* before it takes cond.L.                                                 *)
SendInfo(s) ==
    /\ spc[s] = "idle" /\ sent[s] < Len(work.frames[s])
    /\ IF muxClosed THEN GiveUp(s)
       ELSE IF Message(s).class = "normal" /\ Message(s).kind = "data" /\ length >= HighWater
       THEN Goto(s, "bpLock") ELSE Goto(s, "closed?")
    /\ UNCHANGED <<queueVars, lockVars, writerVars, closeVars, pushed, skipped>>

BackpressureLock(s) ==
    /\ spc[s] = "bpLock" \/ (spc[s] = "bpWait" /\ \A i \in 1..Len(waiters) : waiters[i] # s)
    /\ L = None /\ L' = s
    /\ Goto(s, "bpCheck")
    /\ UNCHANGED <<queueVars, mu, waiters, writerVars, closeVars, pushed, skipped>>

BackpressureCheck(s) ==
    /\ spc[s] = "bpCheck"
    /\ IF ~muxClosed /\ ~stop /\ length >= LowWater
       THEN Goto(s, "bpEnqueue") /\ UNCHANGED L
       ELSE Goto(s, "closed?") /\ L' = None
    /\ UNCHANGED <<queueVars, mu, waiters, writerVars, closeVars, pushed, skipped>>

BackpressureWait(s) ==
    /\ spc[s] = "bpEnqueue"
    /\ waiters' = Append(waiters, s) /\ L' = None
    /\ Goto(s, "bpWait")
    /\ UNCHANGED <<queueVars, mu, writerVars, closeVars, pushed, skipped>>

(* The closed checks after the backpressure. *)
SendClosed(s) ==
    /\ spc[s] = "closed?"
    /\ IF muxClosed THEN GiveUp(s) ELSE Goto(s, "push")
    /\ UNCHANGED <<queueVars, lockVars, writerVars, closeVars, pushed, skipped>>

Push(s) ==
    /\ spc[s] = "push" /\ mu = None
    /\ IF stop
       THEN GiveUp(s) /\ UNCHANGED <<queueVars, pushed>>
       ELSE /\ Enqueue(Frame(s)) /\ length' = length + 1 /\ UNCHANGED burst
            /\ pushed' = [pushed EXCEPT ![Lane(Message(s))] = @ + 1]
            /\ Goto(s, "signal")
    /\ UNCHANGED <<lockVars, writerVars, closeVars, skipped>>

PushSignal(s) ==
    /\ spc[s] = "signal" /\ L = None
    /\ Signal /\ GiveUp(s)
    /\ UNCHANGED <<queueVars, mu, L, writerVars, closeVars, pushed, skipped>>

-----------------------------------------------------------------------------
(* The goroutine of writeSession, with Pop and the FlushWriter *)

ConnOK == ~connFailed /\ ~connClosed

(* The frames q reach the connection. *)
Accepted(q) ==
    [l \in Lanes |->
        LET mine == SelectSeq(q, LAMBDA f : Lane(f) = l)
        IN wire[l] \o [i \in 1..Len(mine) |-> mine[i].n]]

(* FlushWriter.flush: an error is kept in fw.err. *)
Flush(b) ==
    /\ buf' = <<>>
    /\ IF fwErr \/ b = <<>> THEN UNCHANGED <<fwErr, wire>>
       ELSE IF ConnOK THEN wire' = Accepted(b) /\ UNCHANGED fwErr
       ELSE fwErr' = TRUE /\ UNCHANGED wire

WriterGoto(pc) == wpc' = pc /\ UNCHANGED <<held, buf, fwErr, wire>>

WriterTop ==
    /\ wpc = "top"
    /\ WriterGoto(IF muxClosed THEN "exit" ELSE "try0")
    /\ UNCHANGED <<queueVars, lockVars, sendVars, closeVars, pushed, skipped>>

(* TryPop in writeSession, twice at the start of Pop, and under cond.L. *)
WriterPops ==
    /\ wpc \in {"try0", "try1", "try2", "tryL"}
    /\ TryPop(Writer)
    /\ held' = <<NextFrame>>
    /\ wpc' = IF Crosses THEN "crossed" ELSE "pack"
    /\ L' = IF wpc = "tryL" /\ ~Crosses THEN None ELSE L
    /\ UNCHANGED <<waiters, sendVars, buf, fwErr, wire, closeVars, pushed>>

(* afterPop's broadcast: cond.L must be free, also of the writer itself. *)
WriterBroadcasts ==
    /\ wpc = "crossed" /\ L = None
    /\ waiters' = <<>> /\ mu' = None
    /\ WriterGoto("pack")
    /\ UNCHANGED <<queueVars, L, sendVars, closeVars, pushed, skipped>>

(* Nothing queued: flush what is buffered before Pop. *)
WriterIdle ==
    /\ wpc = "try0" /\ mu = None /\ QueueEmpty
    /\ wpc' = "try1" /\ Flush(buf)
    /\ UNCHANGED <<held, queueVars, lockVars, sendVars, closeVars, pushed, skipped>>

WriterRetries ==
    /\ wpc \in {"try1", "try2", "tryL"} /\ mu = None /\ QueueEmpty
    /\ WriterGoto(CASE wpc = "try1" -> "stop1" [] wpc = "try2" -> "stop2" [] OTHER -> "stopL")
    /\ UNCHANGED <<queueVars, lockVars, sendVars, closeVars, pushed, skipped>>

WriterStopped ==
    /\ wpc \in {"stop1", "stop2", "stopL"}
    /\ WriterGoto(IF stop THEN "exit" ELSE
         CASE wpc = "stop1" -> "try2" [] wpc = "stop2" -> "lockL" [] OTHER -> "enqueueL")
    /\ L' = IF stop /\ wpc = "stopL" THEN None ELSE L
    /\ UNCHANGED <<queueVars, mu, waiters, sendVars, closeVars, pushed, skipped>>

WriterLock ==
    /\ wpc = "lockL" \/ (wpc = "waitL" /\ \A i \in 1..Len(waiters) : waiters[i] # Writer)
    /\ L = None /\ L' = Writer
    /\ WriterGoto("tryL")
    /\ UNCHANGED <<queueVars, mu, waiters, sendVars, closeVars, pushed, skipped>>

WriterWait ==
    /\ wpc = "enqueueL"
    /\ waiters' = Append(waiters, Writer) /\ L' = None
    /\ WriterGoto("waitL")
    /\ UNCHANGED <<queueVars, mu, sendVars, closeVars, pushed, skipped>>

(* Pack: FlushWriter.Write flushes a full buffer first, and every frame    *)
(* but data and window updates is flushed at once.                         *)
WriterPack ==
    /\ wpc = "pack" /\ ~fwErr
    /\ \/ Len(buf) < BufCap
       \/ Len(buf) = BufCap /\ ConnOK
    /\ LET full == Len(buf) = BufCap
           rest == Append(IF full THEN <<>> ELSE buf, held[1])
           out == IF full THEN buf ELSE <<>>
       IN IF held[1].kind \in {"data", "update"}
          THEN buf' = rest /\ wire' = Accepted(out) /\ UNCHANGED fwErr
          ELSE /\ buf' = <<>>
               /\ fwErr' = ~ConnOK
               /\ wire' = Accepted(IF ConnOK THEN out \o rest ELSE out)
    /\ held' = <<>> /\ wpc' = "top"
    /\ UNCHANGED <<queueVars, lockVars, sendVars, closeVars, pushed, skipped>>

(* Pack fails: the frame is lost and the writer closes the mux. *)
WriterPackFails ==
    /\ wpc = "pack"
    /\ fwErr \/ (Len(buf) = BufCap /\ ~ConnOK)
    /\ fwErr' = TRUE /\ held' = <<>> /\ wpc' = "exit"
    /\ muxClosed' = TRUE
    /\ cpc' = IF muxClosed THEN cpc ELSE "stop"
    /\ cproc' = IF muxClosed THEN cproc ELSE Writer
    /\ buf' = IF fwErr THEN buf ELSE <<>>
    /\ UNCHANGED <<queueVars, lockVars, sendVars, wire, stop, connClosed, connFailed, pushed, skipped>>

(* The deferred Flush and Close, after closeWithReason has returned. *)
WriterExit ==
    /\ wpc = "exit" /\ (cproc = Writer => cpc = "done")
    /\ wpc' = "done" /\ Flush(buf) /\ UNCHANGED held
    /\ UNCHANGED <<queueVars, lockVars, sendVars, closeVars, pushed, skipped>>

-----------------------------------------------------------------------------
(* closeWithReason, run by Closer or by the writer after a failed write *)

CloseGoto(pc) == cpc' = pc /\ UNCHANGED <<muxClosed, connFailed, cproc>>

Close ==
    /\ ~muxClosed /\ muxClosed' = TRUE
    /\ cpc' = "stop" /\ cproc' = Closer
    /\ UNCHANGED <<queueVars, lockVars, sendVars, writerVars, stop, connClosed, connFailed, pushed, skipped>>

(* priorityQueue.Stop, before and after release. *)
CloseStop ==
    /\ cpc \in {"stop", "stop2"} /\ mu = None
    /\ stop' = TRUE
    /\ CloseGoto(IF cpc = "stop" THEN "broadcast" ELSE "broadcast2")
    /\ UNCHANGED <<queueVars, lockVars, sendVars, writerVars, connClosed, pushed, skipped>>

CloseBroadcast ==
    /\ cpc \in {"broadcast", "broadcast2"} /\ L = None
    /\ waiters' = <<>>
    /\ CloseGoto(IF cpc = "broadcast" THEN "release" ELSE "done")
    /\ UNCHANGED <<queueVars, mu, L, sendVars, writerVars, stop, connClosed, pushed, skipped>>

(* The goroutine that closes the connection starts before release. *)
ConnClose ==
    /\ cpc \in {"release", "crossed", "stop2", "broadcast2", "done"} /\ ~connClosed
    /\ connClosed' = TRUE
    /\ UNCHANGED <<queueVars, lockVars, sendVars, writerVars, stop, muxClosed, connFailed, cpc, cproc, pushed, skipped>>

(* release: frames still queued are dropped. *)
ReleasePops ==
    /\ cpc = "release" /\ TryPop(cproc)
    /\ CloseGoto(IF Crosses THEN "crossed" ELSE "release")
    /\ UNCHANGED <<L, waiters, sendVars, writerVars, stop, connClosed, pushed>>

ReleaseBroadcasts ==
    /\ cpc = "crossed" /\ L = None
    /\ waiters' = <<>> /\ mu' = None
    /\ CloseGoto("release")
    /\ UNCHANGED <<queueVars, L, sendVars, writerVars, stop, connClosed, pushed, skipped>>

ReleaseDone ==
    /\ cpc = "release" /\ mu = None /\ QueueEmpty
    /\ CloseGoto("stop2")
    /\ UNCHANGED <<queueVars, lockVars, sendVars, writerVars, stop, connClosed, pushed, skipped>>

(* The connection under the mux breaks. *)
ConnFails ==
    /\ work.breaks /\ ~connFailed /\ connFailed' = TRUE
    /\ UNCHANGED <<queueVars, lockVars, sendVars, writerVars, stop, muxClosed, connClosed, cpc, cproc, pushed, skipped>>

-----------------------------------------------------------------------------
Sender(s) == SendInfo(s) \/ BackpressureLock(s) \/ BackpressureCheck(s)
             \/ BackpressureWait(s) \/ SendClosed(s) \/ Push(s) \/ PushSignal(s)
WriterStep == WriterTop \/ WriterPops \/ WriterBroadcasts \/ WriterIdle
              \/ WriterRetries \/ WriterStopped \/ WriterLock \/ WriterWait
              \/ WriterPack \/ WriterPackFails \/ WriterExit
CloserStep == CloseStop \/ CloseBroadcast \/ ReleasePops \/ ReleaseBroadcasts \/ ReleaseDone

Next == (\E s \in Senders : Sender(s)) \/ WriterStep \/ CloserStep
        \/ ConnClose \/ Close \/ ConnFails

Spec == Init /\ [][Next]_vars

-----------------------------------------------------------------------------

Queued(l) == IF l = Control THEN control ELSE bucket[l[1]][l[2]]

(* Until the mux closes, no frame is lost, duplicated or overtaken within  *)
(* its lane on the way through the buckets, the writer's hand and the      *)
(* FlushWriter: a stream's bytes and its close frame stay in order however *)
(* senders, priority bursts and the round robin interleave.                *)
OrderKept ==
    ~muxClosed /\ ~fwErr =>
      \A l \in Lanes :
        LET out == Accepted(buf \o held)[l]
            all == out \o [i \in 1..Len(Queued(l)) |-> Queued(l)[i].n]
        IN all = [i \in 1..pushed[l] |-> i]

StreamsOf(c) ==
    {i \in Streams : \E s \in Senders : \E k \in 1..Len(work.frames[s]) :
        Lane(work.frames[s][k]) = <<c, i>>}
NormalStreams == StreamsOf("normal")
Burst == IF StreamsOf("priority") = {} THEN 0 ELSE MaxBurst

(* A stream with a normal frame queued waits for a bounded number of pops, *)
(* whatever the priority streams and the other streams send: one frame of  *)
(* each other normal stream, and a priority burst before each frame.       *)
NormalServed ==
    \A i \in Streams : skipped[i] + 1 <= (Burst + 1) * Cardinality(NormalStreams)

Active == {s \in Senders : work.frames[s] # <<>>}

(* The high-water mark bounds the normal data frames queued, up to the one *)
(* frame each sender may hold between its look at the length and Push.     *)
QueueBounded ==
    Cardinality({<<i, k>> \in Streams \X (1..length) :
                   k <= Len(bucket["normal"][i]) /\ bucket["normal"][i][k].kind = "data"})
    <= HighWater - 1 + Cardinality(Active)

(* When closeWithReason returns the queue is empty and stays so: no sender *)
(* slips a frame in behind release, whose pooled buffer would be lost.     *)
Drained == cpc \in {"stop2", "broadcast2", "done"} => QueueEmpty /\ length = 0

(* The two ways in which the locks of the queue can be taken for good.     *)
(* Pop calls TryPop under cond.L, and afterPop locks cond.L again; or      *)
(* release holds mu in afterPop while the writer in Pop holds cond.L.      *)
SelfLocked == wpc = "crossed" /\ L = Writer
CrossLocked == cpc = "crossed" /\ L = Writer /\ wpc = "tryL"
Stuck == SelfLocked \/ CrossLocked

=============================================================================
