----------------------------- MODULE FlowRefresh -----------------------------
EXTENDS Integers, Sequences, FiniteSets, FiniteSetsExt

(***************************************************************************)
(* Refresh of the clients' traffic and its periodic writing.  One caller   *)
(* at a time leads a refresh: it sets the sums of the clients to zero and  *)
(* adds up their tunnels; the others wait for it.  The manager of the      *)
(* periodic session replaces the goroutine when the interval changes.      *)
(***************************************************************************)
CONSTANTS Clients, Tunnels, Owner, Workers, Intervals, MaxTraffic, MaxCalls, MaxSessions

VARIABLES
  flow,        \* tunnel -> traffic so far
  online,      \* clients the bridge has a node of
  shown,       \* client -> [sum, connected], as the lists show it
  saved,       \* client -> sum written to the file
  refreshing,  \* number of the refresh under way, or 0
  ended,       \* refreshes whose channel is closed
  fresh,       \* a full refresh is younger than the reuse window
  act,         \* worker or session -> what it is doing
  stop, every, \* flowSessionManager: its session, or 0, and the interval
  sess,        \* the sessions made so far
  calls

vars == <<flow, online, shown, saved, refreshing, ended, fresh, act, stop, every, sess, calls>>
refresh == <<shown, refreshing, ended, fresh>>
manager == <<stop, every, sess>>

Sessions == 1..MaxSessions
Actors == Workers \union {<<"session", s>> : s \in Sessions}
Idle == [pc |-> "idle", set |-> {}, rest |-> {}, no |-> 0, then |-> "end", old |-> 0, new |-> 0]
Total(c) == MapThenSumSet(LAMBDA t : flow[t], {t \in Tunnels : Owner[t] = c})

Init ==
  /\ flow = [t \in Tunnels |-> 0]
  /\ online = {}
  /\ shown = [c \in Clients |-> [sum |-> 0, connected |-> FALSE]]
  /\ saved = [c \in Clients |-> 0]
  /\ refreshing = 0 /\ ended = {} /\ fresh = FALSE
  /\ act = [a \in Actors |-> Idle]
  /\ stop = 0 /\ every = 0 /\ sess = <<>>
  /\ calls = 0

Goes(a, r) == act' = [act EXCEPT ![a] = r]
At(a, pc) == act[a].pc = pc
(* What follows a refresh: nothing, or the writing of a Flush. *)
After(a) == Goes(a, IF act[a].then = "end" THEN Idle ELSE [act[a] EXCEPT !.pc = act[a].then])

-----------------------------------------------------------------------------

(* beginRefreshClients: wait for the refresh under way, use the last one, or lead. *)
beginRefreshClients(a, force, set, r) ==
  \/ /\ refreshing # 0
     /\ Goes(a, [r EXCEPT !.pc = "wait", !.no = refreshing]) /\ UNCHANGED refresh
  \/ /\ refreshing = 0 /\ ~force /\ fresh
     /\ Goes(a, Idle) /\ UNCHANGED refresh
  \/ /\ refreshing = 0 /\ (force \/ ~fresh)
     /\ refreshing' = Cardinality(ended) + 1
     /\ Goes(a, [r EXCEPT !.pc = "reset", !.set = set, !.no = refreshing'])
     /\ UNCHANGED <<shown, ended, fresh>>

Call(a) == a \in Workers /\ At(a, "idle") /\ calls < MaxCalls /\ calls' = calls + 1
RefreshClients(a, force) ==
  /\ Call(a) /\ beginRefreshClients(a, force, Clients, Idle)
  /\ UNCHANGED <<flow, online, saved, manager>>
RefreshClient(a, c) ==
  /\ Call(a) /\ beginRefreshClients(a, TRUE, {c}, Idle)
  /\ UNCHANGED <<flow, online, saved, manager>>

(* Flush, of a session or of a caller of Update: refresh, then write. *)
Flush(a) ==
  /\ At(a, "flush")
  /\ beginRefreshClients(a, TRUE, Clients, [act[a] EXCEPT !.then = "persist"])
  /\ UNCHANGED <<flow, online, saved, manager, calls>>

Released(a) ==
  /\ At(a, "wait") /\ act[a].no \in ended
  /\ After(a)
  /\ UNCHANGED <<flow, online, saved, refresh, manager, calls>>

(* Who is connected, as the bridge knows it; the sum begins at zero. *)
refreshClientRuntime(c) == [sum |-> 0, connected |-> c \in online]

(* refreshClientRuntimeState: every client of the refresh. *)
Reset(a) ==
  /\ At(a, "reset")
  /\ shown' = [c \in Clients |-> IF c \in act[a].set THEN refreshClientRuntime(c) ELSE shown[c]]
  /\ Goes(a, [act[a] EXCEPT !.pc = "add", !.rest = {t \in Tunnels : Owner[t] \in act[a].set}])
  /\ UNCHANGED <<flow, online, saved, refreshing, ended, fresh, manager, calls>>

Add(a, t) ==
  /\ At(a, "add") /\ t \in act[a].rest
  /\ shown' = [shown EXCEPT ![Owner[t]].sum = @ + flow[t]]
  /\ Goes(a, [act[a] EXCEPT !.rest = @ \ {t}])
  /\ UNCHANGED <<flow, online, saved, refreshing, ended, fresh, manager, calls>>

(* finishRefreshClients: a refresh of all clients may be used again for a while. *)
Finish(a) ==
  /\ At(a, "add") /\ act[a].rest = {}
  /\ refreshing' = 0
  /\ ended' = ended \union {act[a].no}
  /\ fresh' = (fresh \/ act[a].set = Clients)
  /\ After(a)
  /\ UNCHANGED <<flow, online, shown, saved, manager, calls>>

Persist(a) ==
  /\ At(a, "persist")
  /\ saved' = [c \in Clients |-> shown[c].sum]
  /\ IF a \in Workers THEN Goes(a, [act[a] EXCEPT !.pc = "start"]) ELSE Goes(a, [Idle EXCEPT !.pc = "run"])
  /\ UNCHANGED <<flow, online, refresh, manager, calls>>

-----------------------------------------------------------------------------
(* flowSessionManager.                                                     *)

NewSession == [stopped |-> FALSE, closes |-> 0]

buildUpdatePlan(i) ==
  IF i = 0 THEN [old |-> stop, new |-> 0, stop |-> 0, every |-> 0]
  ELSE IF stop # 0 /\ every = i THEN [old |-> 0, new |-> 0, stop |-> stop, every |-> i]
  ELSE [old |-> stop, new |-> Len(sess) + 1, stop |-> Len(sess) + 1, every |-> i]

(* Under the lock; what is replaced is closed after it. *)
Update(a, i) ==
  LET p == buildUpdatePlan(i) IN
  /\ Call(a) /\ p.new <= MaxSessions
  /\ stop' = p.stop /\ every' = p.every
  /\ sess' = IF p.new # 0 THEN Append(sess, NewSession) ELSE sess
  /\ Goes(a, [Idle EXCEPT !.pc = "close", !.old = p.old, !.new = p.new])
  /\ UNCHANGED <<flow, online, saved, refresh>>

CloseOld(a) ==
  LET r == act[a] IN
  /\ At(a, "close")
  /\ sess' = IF r.old = 0 THEN sess ELSE [sess EXCEPT ![r.old] = [stopped |-> TRUE, closes |-> @.closes + 1]]
  /\ Goes(a, IF r.new = 0 THEN Idle ELSE [r EXCEPT !.pc = "flush"])
  /\ UNCHANGED <<flow, online, saved, refresh, stop, every, calls>>

(* The goroutine begins after the first flush. *)
Start(a) ==
  /\ At(a, "start")
  /\ act' = [act EXCEPT ![a] = Idle, ![<<"session", act[a].new>>] = [Idle EXCEPT !.pc = "run"]]
  /\ UNCHANGED <<flow, online, saved, refresh, manager, calls>>

Tick(s) ==
  LET a == <<"session", s>> IN
  /\ At(a, "run") /\ ~sess[s].stopped /\ calls < MaxCalls
  /\ calls' = calls + 1
  /\ Goes(a, [act[a] EXCEPT !.pc = "flush"])
  /\ UNCHANGED <<flow, online, saved, refresh, manager>>

Leaves(s) ==
  LET a == <<"session", s>> IN
  /\ At(a, "run") /\ sess[s].stopped
  /\ Goes(a, [Idle EXCEPT !.pc = "gone"])
  /\ UNCHANGED <<flow, online, saved, refresh, manager, calls>>

-----------------------------------------------------------------------------
Traffic(t) ==
  /\ flow[t] < MaxTraffic
  /\ flow' = [flow EXCEPT ![t] = @ + 1]
  /\ UNCHANGED <<online, saved, refresh, act, manager, calls>>

Connects(c) ==
  /\ online' = online \union {c}
  /\ c \notin online
  /\ UNCHANGED <<flow, saved, refresh, act, manager, calls>>

(* The reuse window passes, or the store or the bridge is another one. *)
Expires ==
  /\ fresh
  /\ fresh' = FALSE
  /\ UNCHANGED <<flow, online, saved, shown, refreshing, ended, act, manager, calls>>

Step(a) ==
  Released(a) \/ Reset(a) \/ (\E t \in Tunnels : Add(a, t)) \/ Finish(a) \/ Flush(a) \/ Persist(a) \/ CloseOld(a) \/ Start(a)

Next ==
  \/ \E a \in Workers, force \in BOOLEAN : RefreshClients(a, force)
  \/ \E a \in Workers, c \in Clients : RefreshClient(a, c)
  \/ \E a \in Workers, i \in Intervals : Update(a, i)
  \/ \E a \in Actors : Step(a)
  \/ \E s \in Sessions : Tick(s) \/ Leaves(s)
  \/ \E t \in Tunnels : Traffic(t)
  \/ \E c \in Clients : Connects(c)
  \/ Expires

(* Goroutines that can go on do so. *)
Spec == Init /\ [][Next]_vars /\ \A a \in Actors : WF_vars(Step(a))

-----------------------------------------------------------------------------
(* Traffic is never counted twice: neither the sums shown nor those in the *)
(* file exceed what the tunnels carried.                                   *)
NotCountedTwice == \A c \in Clients : shown[c].sum <= Total(c) /\ saved[c] <= Total(c)

Quiet == \A a \in Workers : act[a] = Idle
(* The stop channel of a session is closed once, and when no change of the *)
(* interval is under way the manager's session is the only one not told to *)
(* stop.                                                                   *)
OneSession ==
  /\ \A s \in DOMAIN sess : sess[s].closes <= 1
  /\ Quiet => {s \in DOMAIN sess : ~sess[s].stopped} = {stop} \ {0}

=============================================================================
