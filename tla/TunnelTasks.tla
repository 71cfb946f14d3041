----------------------------- MODULE TunnelTasks -----------------------------
EXTENDS Integers, Sequences, FiniteSets

(***************************************************************************)
(* The run list of the server: tunnels are stored, started, stopped,       *)
(* edited and deleted by requests of the management API, by the loop that  *)
(* reads the bridge's events, by the hooks of leaving clients and nodes,   *)
(* and by start-up and import, while each service opens its port in a      *)
(* goroutine of its own.  No lock covers an operation, so it is a sequence *)
(* of calls on the store and on the run list; todo is what is left of it.  *)
(***************************************************************************)
CONSTANTS Tunnels, Ports, Workers, MaxServices, MaxOps, QueueCap, MaxRevision

VARIABLES
  store,    \* tunnel -> stored record, or Gone
  run,      \* RunList: tunnel -> number of a service, Passive or None
  svc,      \* the services created so far
  queue,    \* Bridge.OpenTask
  act,      \* actor -> the operation it is in
  ops,      \* operations begun
  over,     \* tunnels on which two operations overlapped
  orphan,   \* tunnels whose record was removed though the run list was not consulted
  late,     \* tunnels marked stopped by the failure of a service already replaced
  undone,   \* tunnels whose publication was rolled back
  taken,    \* revisions that accepted edits expected, as <<tunnel, revision>>
  lost,     \* two accepted edits expected the same revision
  used      \* ids handed out

ghosts == <<over, orphan, late, undone, taken, lost>>
vars == <<store, run, svc, queue, act, ops, used, ghosts>>

None == 0
Passive == -1
Loop == "loop"
Actors == Workers \union {Loop}

Blank(p, passive, temp) == [port |-> p, passive |-> passive, temp |-> temp, status |-> TRUE, rev |-> 1, want |-> 0]
Gone == [Blank(0, FALSE, FALSE) EXCEPT !.rev = 0]
Idle == [op |-> "idle", id |-> 0, todo |-> <<>>, v |-> None, work |-> Gone, was |-> FALSE]

At(a, s) == act[a].todo # <<>> /\ Head(act[a].todo) = s
Cur(a) == act[a].id
Goes(a, r) == act' = [act EXCEPT ![a] = IF r.todo = <<>> THEN Idle ELSE r]
Go(a) == Goes(a, [act[a] EXCEPT !.todo = Tail(@)])
To(a, rest) == Goes(a, [act[a] EXCEPT !.todo = rest])
NoGhosts == UNCHANGED <<used, ghosts>>

StopCalls == <<"mark", "load", "close", "unlist">>
StartCalls == <<"get", "probe", "launch", "started">>
CloseCalls == <<"load", "close", "unlist">>
StopRuntimeCalls == <<"load", "closeAnyway", "unlist">>

(* What an operation does next when one of its calls fails. *)
OnError(op, call) ==
  CASE op = "edit" /\ call = "load" -> StartCalls
    [] op = "restart" /\ call \in {"mark", "load", "close"} -> StartCalls
    [] op = "add" /\ call \in {"probe", "launch"} -> <<"delete">>
    [] op = "remove" /\ call = "load" -> <<"delete">>
    [] op = "publish" /\ call \in {"probe", "enqueue"} -> <<"delete">>
    [] op = "publish" /\ call = "respond" -> <<"delete", "again">>
    [] call = "started" -> StopRuntimeCalls
    [] OTHER -> <<>>
Fail(a) == To(a, OnError(act[a].op, Head(act[a].todo)))

Held(p) == \E s \in DOMAIN svc : svc[s].port = p /\ svc[s].st \in {"bound", "listening"}
(* tool.TestTunnelPort: a passive tunnel needs no port. *)
TestTunnelPort(r) == r.passive \/ ~Held(r.port)

Init ==
  /\ store = [i \in Tunnels |-> Gone]
  /\ run = [i \in Tunnels |-> None]
  /\ svc = <<>>
  /\ queue = <<>>
  /\ act = [a \in Actors |-> Idle]
  /\ ops = 0
  /\ used = {}
  /\ over = {} /\ orphan = {} /\ late = {} /\ undone = {} /\ taken = {} /\ lost = FALSE

-----------------------------------------------------------------------------
(* Calls on the store and on the run list.                                 *)

(* markStoredTaskStopped: the previous status is kept for a roll-back. *)
Mark(a) ==
  LET i == Cur(a) IN
  /\ At(a, "mark")
  /\ \/ store[i] = Gone /\ Fail(a) /\ UNCHANGED store
     \/ /\ store[i] # Gone
        /\ store' = [store EXCEPT ![i].status = FALSE]
        /\ Goes(a, [act[a] EXCEPT !.todo = Tail(@), !.was = store[i].status])
  /\ UNCHANGED <<run, svc, queue, ops>> /\ NoGhosts

Load(a) ==
  /\ At(a, "load")
  /\ \/ run[Cur(a)] = None /\ Fail(a)
     \/ run[Cur(a)] # None /\ Goes(a, [act[a] EXCEPT !.todo = Tail(@), !.v = run[Cur(a)]])
  /\ UNCHANGED <<store, run, svc, queue, ops>> /\ NoGhosts

(* Close of TunnelModeServer and UdpModeServer: it closes the listener the *)
(* service has set, and finds none while the service is still opening it.  *)
Closed(s) == [svc EXCEPT ![s].st = IF @ = "listening" THEN "closed" ELSE @,
                         ![s].slipped = @ \/ svc[s].st \in {"starting", "bound"}]

CloseService(a) ==
  LET v == act[a].v IN
  /\ At(a, "close") \/ At(a, "closeAnyway")
  /\ svc' = IF v = Passive THEN svc ELSE Closed(v)
  /\ Go(a)
  /\ UNCHANGED <<store, run, queue, ops>> /\ NoGhosts

(* The listener reports an error: StopServer puts the status back. *)
CloseFails(a) ==
  LET v == act[a].v
      i == Cur(a) IN
  /\ At(a, "close") /\ v # Passive
  /\ svc[v].st = "listening"
  /\ store' = IF act[a].op \in {"stop", "edit", "restart", "drop"} /\ store[i] # Gone
              THEN [store EXCEPT ![i].status = act[a].was] ELSE store
  /\ Fail(a)
  /\ UNCHANGED <<run, svc, queue, ops>> /\ NoGhosts

(* stopTaskRuntime goes on when the listener reports an error. *)
CloseAnyway(a) ==
  LET v == act[a].v IN
  /\ At(a, "closeAnyway") /\ v # Passive
  /\ svc[v].st = "listening"
  /\ svc' = [svc EXCEPT ![v].slipped = TRUE]
  /\ Go(a)
  /\ UNCHANGED <<store, run, queue, ops>> /\ NoGhosts

Unlist(a) ==
  /\ At(a, "unlist")
  /\ run' = [run EXCEPT ![Cur(a)] = IF @ = act[a].v THEN None ELSE @]
  /\ Go(a)
  /\ UNCHANGED <<store, svc, queue, ops>> /\ NoGhosts

Get(a) ==
  /\ At(a, "get")
  /\ \/ store[Cur(a)] = Gone /\ Fail(a)
     \/ store[Cur(a)] # Gone /\ Goes(a, [act[a] EXCEPT !.todo = Tail(@), !.work = store[Cur(a)]])
  /\ UNCHANGED <<store, run, svc, queue, ops>> /\ NoGhosts

(* AddTask up to the port test; a secret or p2p tunnel is only listed. *)
Probe(a) ==
  LET w == act[a].work IN
  /\ At(a, "probe")
  /\ \/ /\ act[a].op # "publish" /\ w.passive
        /\ run' = [run EXCEPT ![Cur(a)] = Passive]
        /\ To(a, Tail(Tail(act[a].todo)))
     \/ /\ act[a].op = "publish" \/ ~w.passive
        /\ IF TestTunnelPort(w) THEN Go(a) ELSE Fail(a)
        /\ UNCHANGED run
  /\ UNCHANGED <<store, svc, queue, ops>> /\ NoGhosts

(* launchTaskRuntime: listed, then started in a goroutine. *)
Launch(a) ==
  LET w == act[a].work IN
  /\ At(a, "launch") /\ Len(svc) < MaxServices
  /\ svc' = Append([s \in DOMAIN svc |-> [svc[s] EXCEPT !.slipped = @ \/ run[Cur(a)] = s]],
                    [st |-> "starting", id |-> Cur(a), port |-> w.port, slipped |-> FALSE])
  /\ run' = [run EXCEPT ![Cur(a)] = Len(svc) + 1]
  /\ Go(a)
  /\ UNCHANGED <<store, queue, ops>> /\ NoGhosts

Started(a) ==
  LET i == Cur(a) IN
  /\ At(a, "started")
  /\ \/ store[i] = Gone /\ Fail(a) /\ UNCHANGED store
     \/ store[i] # Gone /\ store' = [store EXCEPT ![i].status = TRUE] /\ Go(a)
  /\ UNCHANGED <<run, svc, queue, ops>> /\ NoGhosts

(* The record is read and a copy of it changed: TouchMeta raises the revision. *)
Read(a) ==
  LET i == Cur(a)
      w == act[a].work IN
  /\ At(a, "read")
  /\ \/ store[i] = Gone /\ Fail(a)
     \/ /\ store[i] # Gone
        /\ IF w.port # store[i].port /\ Held(w.port) THEN Fail(a)
           ELSE Goes(a, [act[a] EXCEPT !.todo = Tail(@),
                  !.work = [store[i] EXCEPT !.port = w.port, !.rev = @ + 1, !.want = w.want]])
  /\ UNCHANGED <<store, run, svc, queue, ops>> /\ NoGhosts

(* UpdateTask compares the revision, and stores in a later step. *)
Check(a) ==
  LET i == Cur(a)
      w == act[a].work IN
  /\ At(a, "check")
  /\ IF store[i] = Gone \/ (w.want > 0 /\ store[i].rev # w.want) THEN Fail(a) ELSE Go(a)
  /\ UNCHANGED <<store, run, svc, queue, ops>> /\ NoGhosts

Save(a) ==
  LET i == Cur(a)
      w == act[a].work IN
  /\ At(a, "save")
  /\ store' = [store EXCEPT ![i] = [w EXCEPT !.want = 0]]
  /\ taken' = IF w.want > 0 THEN taken \union {<<i, w.want>>} ELSE taken
  /\ lost' = (lost \/ <<i, w.want>> \in taken)
  /\ Go(a)
  /\ UNCHANGED <<run, svc, queue, ops, used, over, orphan, late, undone>>

Create(a) ==
  /\ At(a, "create")
  /\ IF TestTunnelPort(act[a].work) \/ act[a].op = "publish"
     THEN store' = [store EXCEPT ![Cur(a)] = act[a].work] /\ Go(a)
     ELSE UNCHANGED store /\ To(a, <<>>)
  /\ UNCHANGED <<run, svc, queue, ops>> /\ NoGhosts

(* DelTask of the store, and its roll-back of a publication. *)
Delete(a) ==
  /\ At(a, "delete")
  /\ store' = [store EXCEPT ![Cur(a)] = Gone]
  /\ Go(a)
  /\ undone' = IF act[a].op = "publish" THEN undone \union {Cur(a)} ELSE undone
  /\ UNCHANGED <<run, svc, queue, ops, used, over, orphan, late, taken, lost>>

(* enqueueBridgeEvent: the queue has room, or the handler gives up after a timeout. *)
Enqueue(a) ==
  /\ At(a, "enqueue") \/ At(a, "again")
  /\ \/ Len(queue) < QueueCap /\ queue' = Append(queue, Cur(a)) /\ Go(a)
     \/ Len(queue) = QueueCap /\ Fail(a) /\ UNCHANGED queue
  /\ UNCHANGED <<store, run, svc, ops>> /\ NoGhosts

(* The answer to the client is written, or its connection is gone. *)
Respond(a) ==
  /\ At(a, "respond")
  /\ Go(a) \/ Fail(a)
  /\ UNCHANGED <<store, run, svc, queue, ops>> /\ NoGhosts

Calls(a) ==
  \/ Mark(a) \/ Load(a) \/ CloseService(a) \/ CloseFails(a) \/ CloseAnyway(a) \/ Unlist(a)
  \/ Get(a) \/ Probe(a) \/ Launch(a) \/ Started(a)
  \/ Read(a) \/ Check(a) \/ Save(a) \/ Create(a) \/ Delete(a) \/ Enqueue(a) \/ Respond(a)

-----------------------------------------------------------------------------
(* The operations.                                                         *)

Begin(a, op, i, calls, work) ==
  /\ act[a] = Idle /\ ops < MaxOps
  /\ act' = [act EXCEPT ![a] = [Idle EXCEPT !.op = op, !.id = i, !.todo = calls, !.work = work]]
  /\ ops' = ops + 1
  /\ over' = IF \E b \in Actors \ {a} : act[b] # Idle /\ act[b].id = i THEN over \union {i} ELSE over
  /\ UNCHANGED <<store, run, svc, orphan, late, undone, taken, lost>>

AddTunnel(a, i, p, passive) ==
  /\ i \notin used
  /\ used' = used \union {i}
  /\ Begin(a, "add", i, <<"create", "probe", "launch">>, Blank(p, passive, FALSE))
  /\ UNCHANGED queue

(* An edit names the revision it was made for, or 0. *)
EditTunnel(a, i, p, want) ==
  /\ store[i] # Gone /\ store[i].rev < MaxRevision
  /\ Begin(a, "edit", i, <<"read", "check", "save">> \o StopCalls \o StartCalls, [Blank(p, FALSE, FALSE) EXCEPT !.want = want])
  /\ UNCHANGED <<used, queue>>

changeTunnelStatusWithRepo(a, i) ==
  /\ store[i] # Gone /\ store[i].rev < MaxRevision
  /\ Begin(a, "change", i, <<"read", "check", "save">>, store[i])
  /\ UNCHANGED <<used, queue>>

StopTunnel(a, i) ==
  /\ store[i] # Gone
  /\ Begin(a, "stop", i, StopCalls, Gone) /\ UNCHANGED <<used, queue>>

StartTunnel(a, i) ==
  /\ store[i] # Gone
  /\ Begin(a, "start", i, StartCalls, Gone) /\ UNCHANGED <<used, queue>>

DeleteTunnel(a, i) ==
  /\ i \in used
  /\ Begin(a, "remove", i, CloseCalls \o <<"delete">>, Gone) /\ UNCHANGED <<used, queue>>

(* DelTask, for the tunnels of a deleted client or of one that left. *)
DelTask(a, i) ==
  /\ store[i] # Gone
  /\ Begin(a, "drop", i, IF run[i] # None THEN StopCalls \o <<"delete">> ELSE <<"delete">>, Gone)
  /\ UNCHANGED <<used, queue>>

StartPersisted(a, i) ==
  /\ store[i] # Gone /\ run[i] = None
  /\ store[i].status
  /\ Begin(a, "boot", i, <<"probe", "launch">>, store[i]) /\ UNCHANGED <<used, queue>>

StopPreserveStatus(a, i) ==
  /\ store[i] # Gone
  /\ Begin(a, "halt", i, StopRuntimeCalls, Gone) /\ UNCHANGED <<used, queue>>

(* A tunnel of a client's configuration file is created and announced. *)
PublishTask(a, i, p, passive) ==
  /\ i \notin used
  /\ used' = used \union {i}
  /\ Begin(a, "publish", i, <<"create", "probe", "enqueue", "respond">>, Blank(p, passive, TRUE))
  /\ UNCHANGED queue

(* HandleOpenTask. *)
RestartTask ==
  /\ queue # <<>>
  /\ queue' = Tail(queue)
  /\ act[Loop] = Idle
  /\ act' = [act EXCEPT ![Loop] = [Idle EXCEPT !.op = "restart", !.id = Head(queue), !.todo = StopCalls \o StartCalls]]
  /\ over' = IF \E b \in Workers : act[b] # Idle /\ act[b].id = Head(queue) /\ act[b].op # "publish"
             THEN over \union {Head(queue)} ELSE over
  /\ UNCHANGED <<store, run, svc, ops, used, orphan, late, undone, taken, lost>>

(* HandleCloseNode: the last node that published the tunnel left. *)
CloseNode(i) ==
  /\ store[i] # Gone /\ store[i].temp
  /\ store' = [store EXCEPT ![i] = Gone]
  /\ orphan' = orphan \union {i}
  /\ UNCHANGED <<run, svc, queue, act, ops, used, over, late, undone, taken, lost>>

Requests(a) ==
  \E i \in Tunnels :
    \/ \E p \in Ports, passive \in BOOLEAN : AddTunnel(a, i, p, passive) \/ PublishTask(a, i, p, passive)
    \/ \E p \in Ports : store[i] # Gone /\ (EditTunnel(a, i, p, 0) \/ EditTunnel(a, i, p, store[i].rev))
    \/ changeTunnelStatusWithRepo(a, i) \/ StopTunnel(a, i) \/ StartTunnel(a, i) \/ DeleteTunnel(a, i)
    \/ DelTask(a, i) \/ StartPersisted(a, i) \/ StopPreserveStatus(a, i)

-----------------------------------------------------------------------------
(* The goroutine of a service.                                             *)

Sets(s, st) == svc' = [svc EXCEPT ![s].st = st]

Bind(s) ==
  /\ svc[s].st = "starting" /\ ~Held(svc[s].port)
  /\ Sets(s, "bound")
  /\ UNCHANGED <<store, run, queue, act, ops>> /\ NoGhosts

Serve(s) ==
  /\ svc[s].st = "bound"
  /\ Sets(s, "listening")
  /\ UNCHANGED <<store, run, queue, act, ops>> /\ NoGhosts

(* The port is taken, or something else fails. *)
StartFails(s) ==
  /\ svc[s].st = "starting"
  /\ Sets(s, "failed")
  /\ UNCHANGED <<store, run, queue, act, ops>> /\ NoGhosts

(* The run list is cleared whatever it holds. *)
clearAnyRuntimeEntry(s) ==
  /\ svc[s].st = "failed"
  /\ run' = [run EXCEPT ![svc[s].id] = None]
  /\ Sets(s, "cleared")
  /\ UNCHANGED <<store, queue, act, ops>> /\ NoGhosts

(* CompareAndDelete: only the entry of the service that failed. *)
clearFailedTaskRuntimeEntry(s) ==
  LET i == svc[s].id IN
  /\ svc[s].st = "failed"
  /\ IF run[i] = s THEN run' = [run EXCEPT ![i] = None] /\ Sets(s, "cleared")
     ELSE UNCHANGED run /\ Sets(s, "closed")
  /\ UNCHANGED <<store, queue, act, ops>> /\ NoGhosts

persistTaskStoppedAfterStartFailure(s) ==
  LET i == svc[s].id IN
  /\ svc[s].st = "cleared"
  /\ Sets(s, "closed")
  /\ store' = IF store[i] # Gone THEN [store EXCEPT ![i].status = FALSE] ELSE store
  /\ late' = IF run[i] # None \/ \E a \in Actors : act[a] # Idle /\ Cur(a) = i THEN late \union {i} ELSE late
  /\ UNCHANGED <<run, queue, act, ops, used, over, orphan, undone, taken, lost>>

Service(s) ==
  Bind(s) \/ Serve(s) \/ StartFails(s) \/ clearFailedTaskRuntimeEntry(s) \/ persistTaskStoppedAfterStartFailure(s)

Rest ==
  /\ \A a \in Actors : act[a] = Idle
  /\ queue = <<>>
  /\ \A s \in DOMAIN svc : svc[s].st \in {"listening", "closed"}

Next ==
  \/ \E a \in Actors : Calls(a)
  \/ \E a \in Workers : Requests(a)
  \/ RestartTask
  \/ \E i \in Tunnels : CloseNode(i)
  \/ \E s \in DOMAIN svc : Service(s)

Spec == Init /\ [][Next]_vars

-----------------------------------------------------------------------------
(* When nothing is going on, a service that listens is the listed one of a *)
(* stored tunnel that is marked as started, unless: operations on the      *)
(* tunnel overlapped; the service slipped, that is its Close found no      *)
(* listener or failed, or a second start took its place in the list; the   *)
(* record went with its node or with a roll-back; or the failure of an     *)
(* earlier service was recorded after the new start had begun.             *)
ListenerHasTunnel ==
  Rest => \A s \in DOMAIN svc :
    LET i == svc[s].id IN
    svc[s].st = "listening" /\ ~svc[s].slipped /\ i \notin over \union orphan \union undone
      => run[i] = s /\ store[i] # Gone /\ (store[i].status \/ i \in late)

=============================================================================
