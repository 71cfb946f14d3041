----------------------------- MODULE MuxReceive -----------------------------
(***************************************************************************)
(* The receive queues of a mux session (receiveWindowQueue and the parts   *)
(* of receiveWindow around it): the readSession goroutine pushes the       *)
(* frames of all streams, each stream has a reader that blocks in Pop and  *)
(* may be stopped, time out or be closed by another goroutine, and all of  *)
(* them share the pool of list elements.  Every frame is one byte long     *)
(* and the reader's buffer takes it whole.                                 *)
(***************************************************************************)
EXTENDS Integers, Sequences, FiniteSets

CONSTANTS
    Streams,     \* the streams of the session
    Workloads,   \* bounds of a behaviour, as records of
                 \*   frames: how many data frames the peer sends each stream,
                 \*   stops: the streams the peer closes or half-closes after them,
                 \*   closers: the streams another goroutine closes with Conn.Close,
                 \*   deadlines: the streams whose read deadline may expire
    None

VARIABLES
    work,     \* the member of Workloads this behaviour keeps to
    element,  \* the list elements made so far: what each holds, L = 0 after Reset
    pool,     \* [element -> how many times listEle holds it]
    queue,    \* [stream -> the chain of the bufQueue: elements, oldest first]
    length,   \* [stream -> length half of lengthWait; below 0, the word wrapped]
    wait,     \* [stream -> wait half of lengthWait]
    stopOp,   \* [stream -> stopOp is closed]
    closeOp,  \* [stream -> window.closeOp]
    current,  \* [stream -> receiveWindow.element: an element or 0 for nil]
    off,      \* [stream -> receiveWindow.off]
    buffered, \* [stream -> bytes reserved and not released]
    rpc,      \* [stream -> where its reader is]
    read,     \* [stream -> the frames its reader got]
    cpc,      \* [stream -> where its closer is]
    spc,      \* where readSession is: <<place, stream, element>>
    pushed,   \* [stream -> frames readSession took from the connection]
    panicked  \* a goroutine panicked, which ends the process

poolVars == <<work, element, pool>>
queueVars == <<queue, length, wait, stopOp>>
windowVars == <<closeOp, current, off, buffered>>
vars == <<poolVars, queueVars, windowVars, rpc, read, cpc, spc, pushed, panicked>>

Idle == <<"idle", None, 0>>
Reset == [L |-> 0, from |-> None, n |-> 0]
Elements == 1..Len(element)

(* Every receiveWindow starts with an empty element of its own. *)
Init ==
    \E f \in {g \in [Streams -> 1..Cardinality(Streams)] :
                \A s, t \in Streams : g[s] = g[t] => s = t} :
        /\ work \in Workloads
        /\ element = [e \in 1..Cardinality(Streams) |-> Reset]
        /\ pool = [e \in 1..Cardinality(Streams) |-> 0]
        /\ queue = [s \in Streams |-> <<>>]
        /\ length = [s \in Streams |-> 0] /\ wait = [s \in Streams |-> FALSE]
        /\ stopOp = [s \in Streams |-> FALSE] /\ closeOp = [s \in Streams |-> FALSE]
        /\ current = f /\ off = [s \in Streams |-> 0]
        /\ buffered = [s \in Streams |-> 0]
        /\ rpc = [s \in Streams |-> "idle"] /\ read = [s \in Streams |-> <<>>]
        /\ cpc = [s \in Streams |-> "idle"]
        /\ spc = Idle /\ pushed = [s \in Streams |-> 0]
        /\ panicked = FALSE

-----------------------------------------------------------------------------
(* listEle.Put resets the element and pools it, once more if it is there. *)
Put(e) ==
    /\ element' = [element EXCEPT ![e] = Reset]
    /\ pool' = [pool EXCEPT ![e] = @ + 1]
    /\ UNCHANGED work

RGoto(s, pc) == rpc' = [rpc EXCEPT ![s] = pc]

-----------------------------------------------------------------------------
(* readSession: receiveWindow.Write, newListElement and Push. *)

(* Get returns a pooled element or a new one. *)
Write(s) ==
    /\ spc = Idle /\ pushed[s] < work.frames[s]
    /\ pushed' = [pushed EXCEPT ![s] = @ + 1]
    /\ IF closeOp[s]
       THEN UNCHANGED <<element, pool, spc>>
       ELSE LET data == [L |-> 1, from |-> s, n |-> pushed[s] + 1] IN
            \/ \E e \in Elements :
                /\ pool[e] > 0
                /\ pool' = [pool EXCEPT ![e] = @ - 1]
                /\ element' = [element EXCEPT ![e] = data]
                /\ spc' = <<"push", s, e>>
            \/ /\ \A e \in Elements : pool[e] = 0
               /\ element' = Append(element, data)
               /\ pool' = [e \in 1..(Len(element) + 1) |-> IF e \in Elements THEN pool[e] ELSE 0]
               /\ spc' = <<"push", s, Len(element) + 1>>
    /\ UNCHANGED <<work, queueVars, windowVars, rpc, read, cpc, panicked>>

(* reserveBytes, then Push under its lock: the wait bit is taken. *)
Push ==
    /\ spc[1] = "push"
    /\ LET s == spc[2]
           e == spc[3]
       IN /\ buffered' = [buffered EXCEPT ![s] = @ + 1]
          /\ length' = [length EXCEPT ![s] = @ + element[e].L]
          /\ wait' = [wait EXCEPT ![s] = FALSE]
          /\ queue' = [queue EXCEPT ![s] = Append(@, e)]
          /\ spc' = IF wait[s] THEN <<"allow", s, 0>> ELSE Idle
    /\ UNCHANGED <<poolVars, stopOp, closeOp, current, off, rpc, read, cpc, pushed, panicked>>

(* The unbuffered readOp: allowPop and waitPush meet. *)
AllowPop(s) ==
    /\ spc[1] = "allow" /\ spc[2] = s
    /\ rpc[s] = "wait"
    /\ spc' = Idle /\ RGoto(s, "pop")
    /\ UNCHANGED <<poolVars, queueVars, windowVars, read, cpc, pushed, panicked>>

AllowPopStopped ==
    /\ spc[1] = "allow" /\ stopOp[spc[2]]
    /\ spc' = Idle
    /\ UNCHANGED <<poolVars, queueVars, windowVars, rpc, read, cpc, pushed, panicked>>

(* muxConnClose or muxConnCloseWrite arrives behind the stream's data. *)
RemoteStop(s) ==
    /\ spc = Idle /\ s \in work.stops /\ pushed[s] = work.frames[s] /\ ~stopOp[s]
    /\ stopOp' = [stopOp EXCEPT ![s] = TRUE]
    /\ UNCHANGED <<poolVars, queue, length, wait, windowVars, rpc, read, cpc, spc, pushed, panicked>>

-----------------------------------------------------------------------------
(* The reader: Conn.Read, receiveWindow.Read and readFromQueue. *)

ReadEnter(s) ==
    /\ rpc[s] = "idle"
    /\ RGoto(s, IF closeOp[s] THEN "done" ELSE "copy")
    /\ UNCHANGED <<poolVars, queueVars, windowVars, read, cpc, spc, pushed, panicked>>

(* A nil element, or Buf[off:L] of an element that was reset. *)
Panics(s) ==
    /\ \/ rpc[s] \in {"copy", "take"} /\ current[s] = 0
       \/ rpc[s] = "take" /\ current[s] # 0 /\ off[s] > element[current[s]].L
    /\ panicked' = TRUE
    /\ UNCHANGED <<poolVars, queueVars, windowVars, rpc, read, cpc, spc, pushed>>

(* A finished element goes back to the pool before the next one is there. *)
ReadFinished(s) ==
    /\ rpc[s] = "copy" /\ current[s] # 0
    /\ off[s] = element[current[s]].L
    /\ Put(current[s])
    /\ RGoto(s, IF closeOp[s] THEN "done" ELSE "pop")
    /\ UNCHANGED <<queueVars, windowVars, read, cpc, spc, pushed, panicked>>

(* The element was reused and its length differs from the offset. *)
ReadUnfinished(s) ==
    /\ rpc[s] = "copy" /\ current[s] # 0
    /\ off[s] # element[current[s]].L
    /\ RGoto(s, "take")
    /\ UNCHANGED <<poolVars, queueVars, windowVars, read, cpc, spc, pushed, panicked>>

(* Mutant of PopWait: the reader waits without setting the wait bit. *)
PopWaitNoBit(s) ==
    /\ rpc[s] = "pop" /\ length[s] = 0
    /\ RGoto(s, "wait")
    /\ UNCHANGED <<poolVars, queueVars, windowVars, read, cpc, spc, pushed, panicked>>

PopWait(s) ==
    /\ rpc[s] = "pop" /\ length[s] = 0
    /\ wait' = [wait EXCEPT ![s] = TRUE]
    /\ RGoto(s, "wait")
    /\ UNCHANGED <<poolVars, queue, length, stopOp, windowVars, read, cpc, spc, pushed, panicked>>

(* TryPop subtracts the length the element has now. *)
TryPop(s) ==
    /\ queue[s] # <<>>
    /\ queue' = [queue EXCEPT ![s] = Tail(@)]
    /\ length' = [length EXCEPT ![s] = @ - element[Head(queue[s])].L]

Pop(s) ==
    /\ rpc[s] = "pop" /\ length[s] # 0
    /\ TryPop(s)
    /\ current' = [current EXCEPT ![s] = Head(queue[s])]
    /\ off' = [off EXCEPT ![s] = 0]
    /\ RGoto(s, "take")
    /\ UNCHANGED <<poolVars, wait, stopOp, closeOp, buffered, read, cpc, spc, pushed, panicked>>

(* Mutant of PopFails: the element that was put back is kept. *)
PopFailsKeepsElement(s) ==
    /\ off' = [off EXCEPT ![s] = 0]
    /\ RGoto(s, "close")
    /\ UNCHANGED <<poolVars, queueVars, closeOp, current, buffered, read, cpc, spc, pushed, panicked>>

(* Pop fails, so element is nil; the window is closed next. *)
PopFails(s) ==
    /\ current' = [current EXCEPT ![s] = 0]
    /\ off' = [off EXCEPT ![s] = 0]
    /\ RGoto(s, "close")
    /\ UNCHANGED <<poolVars, queueVars, closeOp, buffered, read, cpc, spc, pushed, panicked>>

WaitStopped(s) == rpc[s] = "wait" /\ stopOp[s] /\ PopFails(s)
WaitTimeout(s) == rpc[s] = "wait" /\ s \in work.deadlines /\ PopFails(s)

(* copy, then releaseBytes and sendStatus for an element read to its end. *)
Take(s) ==
    /\ rpc[s] = "take" /\ current[s] # 0
    /\ LET x == element[current[s]] IN
       /\ off[s] <= x.L
       /\ read' = [read EXCEPT ![s] = IF off[s] < x.L THEN Append(@, <<x.from, x.n>>) ELSE @]
       /\ off' = [off EXCEPT ![s] = x.L]
       /\ buffered' = [buffered EXCEPT ![s] = @ - x.L]
    /\ RGoto(s, "idle")
    /\ UNCHANGED <<poolVars, queueVars, closeOp, current, cpc, spc, pushed, panicked>>

-----------------------------------------------------------------------------
(* receiveWindow.CloseWindow, run by the reader (pc "close") after an      *)
(* error and by Conn.Close in the closer: both flags, then release.        *)

CloseFlags(s) ==
    /\ closeOp' = [closeOp EXCEPT ![s] = TRUE]
    /\ stopOp' = [stopOp EXCEPT ![s] = TRUE]
    /\ UNCHANGED <<poolVars, queue, length, wait, current, off, buffered>>

ReleaseQueued(s) ==
    /\ TryPop(s)
    /\ Put(Head(queue[s]))
    /\ buffered' = [buffered EXCEPT ![s] = @ - element[Head(queue[s])].L]
    /\ UNCHANGED <<wait, stopOp, closeOp, current, off>>

ReleaseCurrent(s) ==
    /\ queue[s] = <<>>
    /\ IF current[s] = 0
       THEN UNCHANGED <<poolVars, current, buffered>>
       ELSE /\ buffered' = [buffered EXCEPT ![s] =
                                IF off[s] < element[current[s]].L THEN @ - element[current[s]].L ELSE @]
            /\ Put(current[s])
            /\ current' = [current EXCEPT ![s] = 0]
    /\ UNCHANGED <<queueVars, closeOp, off>>

ReaderCloses(s) ==
    /\ \/ rpc[s] = "close" /\ CloseFlags(s) /\ RGoto(s, "release")
       \/ rpc[s] = "release" /\ ReleaseQueued(s) /\ UNCHANGED rpc
       \/ rpc[s] = "release" /\ ReleaseCurrent(s) /\ RGoto(s, "done")
    /\ UNCHANGED <<read, cpc, spc, pushed, panicked>>

ConnClose(s) ==
    /\ s \in work.closers
    /\ \/ cpc[s] = "idle" /\ CloseFlags(s) /\ cpc' = [cpc EXCEPT ![s] = "release"]
       \/ cpc[s] = "release" /\ ReleaseQueued(s) /\ UNCHANGED cpc
       \/ cpc[s] = "release" /\ ReleaseCurrent(s) /\ cpc' = [cpc EXCEPT ![s] = "done"]
    /\ UNCHANGED <<rpc, read, spc, pushed, panicked>>

-----------------------------------------------------------------------------
Reader(s) ==
    \/ ReadEnter(s) \/ Panics(s) \/ ReadFinished(s) \/ ReadUnfinished(s)
    \/ PopWait(s) \/ Pop(s) \/ WaitStopped(s) \/ Take(s) \/ ReaderCloses(s)
ReadSession ==
    \/ Push \/ AllowPopStopped
    \/ \E s \in Streams : Write(s) \/ AllowPop(s) \/ RemoteStop(s)

Next ==
    /\ ~panicked
    /\ \/ ReadSession
       \/ \E s \in Streams : Reader(s) \/ WaitTimeout(s) \/ ConnClose(s)

Spec == Init /\ [][Next]_vars

-----------------------------------------------------------------------------
(* Until a Conn.Close runs: release() and a reader use the same element    *)
(* without a lock.                                                         *)
NoneClosed == \A s \in Streams : cpc[s] = "idle"

(* A stream's reader gets the frames of its own stream, each once and in   *)
(* order, whatever is done to the other streams of the session.            *)
StreamIsolation ==
    \A s \in Streams : read[s] = [k \in 1..Len(read[s]) |-> <<s, k>>]

(* Without a local Close no reader gets a frame of another stream, or one  *)
(* twice or out of order, although all streams share the element pool.     *)
IsolatedUntilClose == NoneClosed => StreamIsolation

(* A list element has one owner: it is pooled once, or queued once, or the *)
(* unread element of one reader, or in readSession's hands.                *)
InQueue(e) == {<<s, k>> \in Streams \X (1..Len(element)) : k <= Len(queue[s]) /\ queue[s][k] = e}
SingleOwner ==
    NoneClosed => \A e \in Elements :
        pool[e] + Cardinality(InQueue(e))
        + Cardinality({s \in Streams : current[s] = e /\ rpc[s] = "take"})
        + (IF spc[1] = "push" /\ spc[3] = e THEN 1 ELSE 0) <= 1

(* The bytes counted against the session's receive budget are those queued *)
(* and the one the reader has not finished, so a stream that is done holds *)
(* none.                                                                   *)
BufferedExact ==
    NoneClosed => \A s \in Streams :
        buffered[s] = Len(queue[s])
            + (IF current[s] # 0 /\ rpc[s] = "take" THEN 1 ELSE 0)

(* Everything pushed before a stream stops is read and then its reader     *)
(* ends: no wake-up is lost between Push, the wait bit and waitPush.       *)
ReadToTheEnd ==
    \A s \in Streams :
        (pushed[s] = work.frames[s] /\ stopOp[s] /\ ~closeOp[s]) ~>
            \/ rpc[s] = "done" /\ (Len(read[s]) = work.frames[s] \/ s \in work.deadlines)
            \/ ~NoneClosed
=============================================================================
