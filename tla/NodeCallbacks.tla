---------------------------- MODULE NodeCallbacks ----------------------------
(***************************************************************************)
(* Callbacks of a management platform (web/routers/node_callbacks.go): a   *)
(* worker takes events from its subscription and posts them, with retries, *)
(* to the platform; a durable event that could not be posted goes to a     *)
(* bounded queue on disk, which a wake-up or a ticker replays oldest first.*)
(* Operators clear or replay the queue, an import resets it, the process   *)
(* crashes and restarts.                                                   *)
(*                                                                         *)
(* Durable events are numbered by their place in the event log; Own stands *)
(* for the live-only events the worker's and the queue's status changes    *)
(* publish to the same subscription and that no sink delivers.  "got" and  *)
(* "excused" are history: what the platform received, and what the code    *)
(* gives up knowingly (oldest dropped at the limit, cleared, reset, in     *)
(* memory at a crash, published while no subscription was open).           *)
(***************************************************************************)
EXTENDS Integers, Sequences, Functions, FiniteSets, FiniteSetsExt

CONSTANTS
  Plans,      \* what is tried: bounds on events, faults, API requests, crashes
  Buffer,     \* capacity of the subscription (128 in the code)
  QueueMax,   \* CallbackQueueMax
  RetryMax,   \* CallbackRetryMax
  Limit       \* page of the log's replay (100 in the code)

VARIABLES
  plan,     \* events, faults, requests, crashes still allowed
  last,     \* number of events recorded in the log
  sub,      \* the subscription: open, channel, overflowSequence
  worker,   \* step, where to return to, event or item in hand, attempt, lastSequence, page
  wake,     \* replayWake holds a token
  items,    \* nodeCallbackQueueStore.items of the platform: [id, ev]
  nextID,
  flight,   \* snapshots taken under mu and not yet handed to the writer
  pending,  \* the writer's newest state, not on disk yet
  disk,
  got,
  excused

vars == <<plan, last, sub, worker, wake, items, nextID, flight, pending, disk, got, excused>>

Own == 0
None == [none |-> TRUE]
Callers == {"worker", "api"}
Opened == [open |-> TRUE, q |-> << >>, over |-> 0]
Idle == [pc |-> "select", back |-> "select", ev |-> Own, id |-> 0, try |-> 0, seen |-> 0, page |-> << >>, more |-> FALSE]
Spend(field) == plan[field] > 0 /\ plan' = [plan EXCEPT ![field] = @ - 1]
Events(q) == {q[i].ev : i \in DOMAIN q}

-----------------------------------------------------------------------------
(* The subscription, modelled whole in NodeRealtime: a full channel ends it *)
(* and keeps the number of the event that did not fit (0 for a live one).  *)

Published(s, ev) ==
  IF ~s.open THEN s
  ELSE IF Len(s.q) < Buffer THEN [s EXCEPT !.q = Append(@, ev)]
  ELSE [s EXCEPT !.open = FALSE, !.over = ev]

\* Before it subscribes again the worker reads the log, but only when the
\* event that did not fit was a durable one.
WillReplay == ~sub.open /\ sub.over > 0
              /\ \/ worker.pc \in {"select", "drain", "page"}
                 \/ worker.pc \in {"deliver", "after"} /\ worker.back \in {"select", "drain"}

Report ==
  /\ Spend("events")
  /\ last' = last + 1
  /\ sub' = Published(sub, last + 1)
  /\ excused' = IF sub.open \/ WillReplay \/ worker.more THEN excused ELSE excused \cup {last + 1}
  /\ UNCHANGED <<worker, wake, items, nextID, flight, pending, disk, got>>

-----------------------------------------------------------------------------
(* The queue.                                                              *)

\* trimNodeCallbackQueueItemsInPlace keeps the newest; without a limit
\* nothing is kept.
Trimmed(q, max) == IF max <= 0 THEN << >> ELSE IF Len(q) > max THEN SubSeq(q, Len(q) - max + 1, Len(q)) ELSE q

Snapshot(q, n) == [q |-> q, next |-> n]
\* nextPersistedStateLocked: the snapshot of a caller makes those in flight stale.
Changes(caller, q, n) ==
  /\ items' = q /\ nextID' = n
  /\ flight' = [c \in Callers |-> IF c = caller THEN [state |-> Snapshot(q, n), stale |-> FALSE]
                                  ELSE IF flight[c] = None THEN None ELSE [flight[c] EXCEPT !.stale = TRUE]]

\* persistSnapshot: a snapshot older than the newest taken is not stored.
Persist(caller) ==
  /\ flight[caller] # None
  /\ flight' = [flight EXCEPT ![caller] = None]
  /\ pending' = IF flight[caller].stale THEN pending ELSE flight[caller].state
  /\ UNCHANGED <<plan, last, items, nextID, disk, got, excused>>

\* nodeRuntimeStateWriter.flushPending
Flush ==
  /\ pending # None
  /\ disk' = pending
  /\ pending' = None
  /\ UNCHANGED <<plan, last, sub, worker, wake, items, nextID, flight, got, excused>>

Enqueue(ev) ==
  IF QueueMax <= 0
  THEN excused' = excused \cup {ev} /\ UNCHANGED <<items, nextID, flight>>
  ELSE LET q == Trimmed(Append(items, [id |-> nextID + 1, ev |-> ev]), QueueMax)
       IN /\ Changes("worker", q, nextID + 1)
          /\ excused' = excused \cup (Events(items) \ Events(q))

Has(id) == \E i \in DOMAIN items : items[i].id = id

Remove(id) ==
  IF Has(id) THEN Changes("worker", SelectSeq(items, LAMBDA it : it.id # id), nextID)
             ELSE UNCHANGED <<items, nextID, flight>>
\* MarkAttempt changes the item's counters only, and stores them.
MarkAttempt(id) == IF Has(id) THEN Changes("worker", items, nextID) ELSE UNCHANGED <<items, nextID, flight>>

-----------------------------------------------------------------------------
(* The worker: one iteration of runWorker's select at a time.              *)

At(pc) == worker.pc = pc /\ flight["worker"] = None
Deliver(ev, id, back) == [worker EXCEPT !.pc = "deliver", !.back = back, !.ev = ev, !.id = id, !.try = 0]
\* processCallbackEvent: the number is noted, an event no sink gets is skipped.
Processed(w, ev, back) ==
  LET noted == [w EXCEPT !.seen = Max({@, ev}), !.pc = back]
  IN IF ev = Own THEN noted ELSE [noted EXCEPT !.pc = "deliver", !.back = back, !.ev = ev, !.id = 0, !.try = 0]

Take ==
  /\ At("select") \/ At("drain")
  /\ sub.q # << >>
  /\ sub' = [sub EXCEPT !.q = Tail(@)]
  /\ worker' = Processed(worker, Head(sub.q), worker.pc)
  /\ UNCHANGED <<plan, last, wake, items, nextID, flight, pending, disk, got, excused>>

\* subscriptionDone, then recoverWorkerSubscription: drain, read the log if
\* a durable event did not fit, subscribe again.
Done ==
  /\ At("select") /\ ~sub.open
  /\ worker' = [worker EXCEPT !.pc = "drain"]
  /\ UNCHANGED <<plan, last, sub, wake, items, nextID, flight, pending, disk, got, excused>>

Drained ==
  /\ At("drain") /\ sub.q = << >>
  /\ worker' = [worker EXCEPT !.pc = IF sub.over > 0 THEN "page" ELSE "subscribe"]
  /\ UNCHANGED <<plan, last, sub, wake, items, nextID, flight, pending, disk, got, excused>>

\* replayNodeChanges: one page of what the log has after "seen".
ReadPage ==
  /\ At("page")
  /\ LET upto == Min({last, worker.seen + Limit})
     IN worker' = [worker EXCEPT !.page = [i \in 1 .. upto - worker.seen |-> worker.seen + i],
                                 !.more = last > upto, !.pc = "replay"]
  /\ UNCHANGED <<plan, last, sub, wake, items, nextID, flight, pending, disk, got, excused>>

ReplayNext ==
  /\ At("replay")
  /\ worker' = IF worker.page # << >> THEN Processed([worker EXCEPT !.page = Tail(@)], Head(worker.page), "replay")
               ELSE [worker EXCEPT !.pc = IF worker.more THEN "page" ELSE "subscribe", !.more = FALSE]
  /\ UNCHANGED <<plan, last, sub, wake, items, nextID, flight, pending, disk, got, excused>>

Subscribe ==
  /\ At("subscribe")
  /\ sub' = Opened
  /\ worker' = [worker EXCEPT !.pc = "select"]
  /\ UNCHANGED <<plan, last, wake, items, nextID, flight, pending, disk, got, excused>>

\* replayQueuedCallback, from the wake-up or from the ticker: the oldest item.
Replay ==
  /\ At("select") /\ items # << >>
  /\ wake' \in {wake, FALSE}
  /\ worker' = Deliver(Head(items).ev, Head(items).id, "select")
  /\ UNCHANGED <<plan, last, sub, items, nextID, flight, pending, disk, got, excused>>

\* A wake-up that finds the queue empty.
WakeIdle ==
  /\ At("select") /\ wake /\ items = << >>
  /\ wake' = FALSE
  /\ UNCHANGED <<plan, last, sub, worker, items, nextID, flight, pending, disk, got, excused>>

\* deliverNodeCallbackWithRetry: one attempt that fails.  After the last one
\* a new event is queued and an item of the queue marked.
AttemptFails ==
  /\ At("deliver") /\ Spend("faults")
  /\ IF worker.try < RetryMax
     THEN worker' = [worker EXCEPT !.try = @ + 1] /\ UNCHANGED <<items, nextID, flight, excused>>
     ELSE /\ worker' = [worker EXCEPT !.pc = "after"]
          /\ IF worker.id = 0 THEN Enqueue(worker.ev) ELSE MarkAttempt(worker.id) /\ UNCHANGED excused
  /\ sub' = Published(sub, Own)
  /\ UNCHANGED <<last, wake, pending, disk, got>>

\* The platform answers 2xx: deliverCallbackEvent, or Remove of the item
\* that was peeked.
AttemptSucceeds ==
  /\ At("deliver")
  /\ got' = got \cup {worker.ev}
  /\ worker' = [worker EXCEPT !.pc = "after"]
  /\ IF worker.id = 0 THEN UNCHANGED <<items, nextID, flight>> ELSE Remove(worker.id)
  /\ sub' = Published(sub, Own)
  /\ UNCHANGED <<plan, last, wake, pending, disk, excused>>

\* The rest of the handler once the snapshot is handed over: the queue event,
\* and a wake-up while something is queued.
After ==
  /\ At("after")
  /\ worker' = [worker EXCEPT !.pc = worker.back, !.ev = Own, !.id = 0, !.try = 0]
  /\ wake' = (wake \/ items # << >>)
  /\ sub' = Published(sub, Own)
  /\ UNCHANGED <<plan, last, items, nextID, flight, pending, disk, got, excused>>

PersistWorker == Persist("worker") /\ UNCHANGED <<sub, worker, wake>>

-----------------------------------------------------------------------------
(* Requests of operators, and the import.                                  *)

Clear ==
  /\ Spend("requests") /\ flight["api"] = None
  /\ Changes("api", << >>, nextID)
  /\ excused' = excused \cup Events(items)
  /\ UNCHANGED <<last, sub, worker, wake, pending, disk, got>>

\* The ids start over.
Reset ==
  /\ Spend("requests") /\ flight["api"] = None
  /\ Changes("api", << >>, 0)
  /\ excused' = excused \cup Events(items)
  /\ UNCHANGED <<last, sub, worker, wake, pending, disk, got>>

\* notifyNodeCallbackReplay
RequestReplay ==
  /\ Spend("requests")
  /\ wake' = TRUE
  /\ UNCHANGED <<last, sub, worker, items, nextID, flight, pending, disk, got, excused>>

PersistApi ==
  /\ Persist("api")
  /\ sub' = Published(sub, Own)
  /\ UNCHANGED <<worker, wake>>

\* load and trimAndPersist of the next process; the worker subscribes afresh
\* and does not look at the log.
Restart ==
  /\ Spend("crashes")
  /\ LET q == Trimmed(disk.q, QueueMax)
         n == Max({disk.next} \cup {disk.q[i].id : i \in DOMAIN disk.q})
     IN /\ items' = q /\ nextID' = n
        /\ pending' = Snapshot(q, n)
        /\ excused' = excused \cup ((1 .. last) \ (got \cup Events(q)))
        /\ wake' = (q # << >>)
  /\ flight' = [c \in Callers |-> None]
  /\ sub' = Opened
  /\ worker' = Idle
  /\ UNCHANGED <<last, disk, got>>

-----------------------------------------------------------------------------
Init ==
  /\ plan \in Plans
  /\ last = 0
  /\ sub = Opened
  /\ worker = Idle
  /\ wake = FALSE
  /\ items = << >> /\ nextID = 0
  /\ flight = [c \in Callers |-> None]
  /\ pending = None
  /\ disk = Snapshot(<< >>, 0)
  /\ got = {} /\ excused = {}

WorkerNext ==
  \/ Take \/ Done \/ Drained \/ ReadPage \/ ReplayNext \/ Subscribe \/ Replay \/ WakeIdle
  \/ AttemptFails \/ AttemptSucceeds \/ After \/ PersistWorker

Next ==
  \/ WorkerNext \/ Report \/ Flush \/ PersistApi
  \/ Clear \/ Reset \/ RequestReplay \/ Restart

Fairness == WF_vars(WorkerNext) /\ WF_vars(PersistApi) /\ WF_vars(Flush)
Spec == Init /\ [][Next]_vars /\ Fairness

-----------------------------------------------------------------------------
InHand == IF worker.pc \in {"deliver", "after"} THEN {worker.ev} ELSE {}

\* Every durable event the node published is with the platform, queued, on
\* its way to the worker (in the channel, in hand, in the page or still to be
\* read from the log), or was given up in one of the ways the code names:
\* removing an item by its id after the post never removes another event.
Accounted ==
  \A s \in 1 .. last :
     \/ s \in got \cup excused \cup Events(items) \cup InHand
     \/ s \in Range(sub.q) \cup Range(worker.page)
     \/ s > worker.seen /\ (WillReplay \/ worker.more)

\* When no snapshot is in flight, what is on disk or about to be written is
\* the queue: persistSnapshot drops the stale ones, whatever order the worker
\* and an operator's request reach it in.
NewestPersisted ==
  (\A c \in Callers : flight[c] = None) =>
     (IF pending = None THEN disk ELSE pending) = Snapshot(items, nextID)

=============================================================================
