---------------------------- MODULE PunchRuntime ----------------------------
(***************************************************************************)
(* One peer's run of a punching session: it opens and probes a socket per  *)
(* address family, maps its port at the router, tells the bridge what it   *)
(* observed, and starts a worker for every family the peer has too.  The   *)
(* workers' goroutines spray, open more sockets for the birthday rounds    *)
(* and read; the first confirmed pair's socket is handed over, the others  *)
(* are closed, and so is everything when the run fails.                    *)
(*                                                                         *)
(* What the packets say is in PunchSession; here a worker is settled once  *)
(* it has nominated, and a read loop may confirm its socket.               *)
(***************************************************************************)
EXTENDS Naturals, Sequences, FiniteSets

CONSTANTS
  Families,      \* local address families
  Mapped,        \* the families whose port may be mapped at the router
  Birthday,      \* the sockets a family has in its last birthday round, 0 without birthday rounds
  SprayRounds,   \* birthday rounds
  Faults         \* what may fail: "listen", "probe", "bridge", "cancel", "go"

Sockets == UNION {{f} \X (0..Birthday[f]) : f \in Families}
Primary(f) == <<f, 0>>
NoSocket == <<"none", 0>>

VARIABLES
  step,          \* where runBridgeSession is
  probe,         \* the probing goroutine of a family
  sock,          \* state of each socket
  attempt,       \* how many ways to map the family's port were tried
  mapping,       \* whether the router maps the family's port
  renewal,       \* the goroutine that renews the mapping
  cleanup,       \* the goroutine that removes it
  peerHas,       \* the families the peer reports
  workers,       \* families with a worker
  owned,         \* the sockets a worker's session holds
  stopped,       \* workers whose context is cancelled
  spray,         \* the spraying goroutine of a worker
  round,         \* its birthday round
  loop,          \* the read loop of each socket
  settled,       \* workers that have nominated or confirmed a pair
  channel,       \* the socket of the confirmed pair
  deadline,      \* whether the handshake's deadline or the caller has ended the wait
  result,        \* the socket handed over, or why there is none
  stray,         \* sockets opened after their session had closed its own
  revived        \* mappings renewed while they were being removed

routerVars == <<attempt, mapping, renewal, cleanup, revived>>
workerVars == <<workers, owned, stopped, spray, round, settled>>
vars == <<step, probe, sock, routerVars, peerHas, workerVars, loop, channel, deadline, result, stray>>

Fail(why) == why \in Faults
Opened == {f \in Families : probe[f] = "opened"}

-----------------------------------------------------------------------------
(* Probing. *)

listen(f) ==
  /\ step = "probing" /\ probe[f] = "idle"
  /\ \/ sock' = [sock EXCEPT ![Primary(f)] = "open"] /\ probe' = [probe EXCEPT ![f] = "probing"]
     \/ Fail("listen") /\ probe' = [probe EXCEPT ![f] = "failed"] /\ UNCHANGED sock
  /\ UNCHANGED <<step, routerVars, peerHas, workerVars, loop, channel, deadline, result, stray>>

(* Answers of the probe endpoints arrive, or none does before the deadline and the socket is closed. *)
runProbe(f) ==
  /\ probe[f] = "probing"
  /\ \/ probe' = [probe EXCEPT ![f] = IF f \in Mapped THEN "mapping" ELSE "opened"] /\ UNCHANGED sock
     \/ Fail("probe") /\ probe' = [probe EXCEPT ![f] = "failed"] /\ sock' = [sock EXCEPT ![Primary(f)] = "closed"]
  /\ UNCHANGED <<step, routerVars, peerHas, workerVars, loop, channel, deadline, result, stray>>

(* The ways to have the port mapped are tried in turn until one succeeds or the time for them is over. *)
Methods == <<"pcp", "nat-pmp", "upnp-igd2", "upnp-igd1", "upnp-ppp1">>
maybeEnablePortMapping(f) ==
  /\ probe[f] = "mapping" /\ probe' = [probe EXCEPT ![f] = "opened"]
  /\ attempt' = [attempt EXCEPT ![f] = 0]
  /\ UNCHANGED <<step, sock, mapping, renewal, cleanup, revived, peerHas, workerVars, loop, channel, deadline, result, stray>>
(* A gateway is found, tells its address and maps the port, and the mapping is renewed from now on. *)
tryPortMapping(f) ==
  /\ probe[f] = "mapping" /\ attempt[f] < Len(Methods)
  /\ \/ /\ attempt' = [attempt EXCEPT ![f] = 0]
        /\ mapping' = [mapping EXCEPT ![f] = TRUE] /\ renewal' = [renewal EXCEPT ![f] = "waiting"]
        /\ probe' = [probe EXCEPT ![f] = "opened"]
     \/ attempt' = [attempt EXCEPT ![f] = @ + 1] /\ UNCHANGED <<mapping, renewal, probe>>
  /\ UNCHANGED <<step, sock, cleanup, revived, peerHas, workerVars, loop, channel, deadline, result, stray>>

runPortMappingRenewal(f) ==
  /\ \/ /\ renewal[f] = "waiting"
        /\ renewal' = [renewal EXCEPT ![f] = "renewing"] /\ UNCHANGED <<mapping, revived>>
     \/ /\ renewal[f] \in {"renewing", "last"}
        /\ renewal' = [renewal EXCEPT ![f] = IF @ = "last" THEN "ended" ELSE "waiting"]
        /\ \/ mapping' = [mapping EXCEPT ![f] = TRUE]
              /\ revived' = IF renewal[f] = "last" THEN revived \union {f} ELSE revived
           \/ UNCHANGED <<mapping, revived>>
  /\ UNCHANGED <<step, probe, sock, attempt, cleanup, peerHas, workerVars, loop, channel, deadline, result, stray>>

(* The wrapped socket stops the renewal and has the mapping removed, once. *)
managedPacketConnClose(S) ==
  LET fs == {f \in Families : Primary(f) \in S /\ sock[Primary(f)] = "open" /\ renewal[f] # "off"}
  IN /\ cleanup' = [f \in Families |-> IF f \in fs THEN "running" ELSE cleanup[f]]
     /\ renewal' = [f \in Families |-> IF f \in fs THEN IF renewal[f] = "renewing" THEN "last" ELSE "ended" ELSE renewal[f]]
runCleanup(f) ==
  /\ cleanup[f] = "running"
  /\ cleanup' = [cleanup EXCEPT ![f] = "done"] /\ mapping' = [mapping EXCEPT ![f] = FALSE]
  /\ UNCHANGED <<step, probe, sock, attempt, renewal, revived, peerHas, workerVars, loop, channel, deadline, result, stray>>

Close(S) ==
  /\ sock' = [s \in Sockets |-> IF s \in S /\ sock[s] = "open" THEN "closed" ELSE sock[s]]
  /\ managedPacketConnClose(S)

(* Some family answered, or the run is over. *)
openProbeRuntimeFamilies ==
  /\ step = "probing" /\ \A f \in Families : probe[f] \in {"opened", "failed"}
  /\ IF Opened = {} THEN step' = "done" /\ result' = "probe failed" ELSE step' = "report" /\ UNCHANGED result
  /\ UNCHANGED <<probe, sock, routerVars, peerHas, workerVars, loop, channel, deadline, stray>>

-----------------------------------------------------------------------------
(* The dialogue with the bridge.  An error closes the probed sockets and, once there are *)
(* workers, everything their sessions hold. *)

failRuntimeWorkers == UNION {owned[f] : f \in workers}
Ends(why) ==
  /\ step' = "done" /\ result' = why
  /\ Close({Primary(f) : f \in Opened} \union failRuntimeWorkers)
  /\ stopped' = workers
  /\ owned' = [f \in Families |-> IF f \in workers THEN {} ELSE owned[f]]
  /\ UNCHANGED <<probe, attempt, mapping, revived, peerHas, workers, spray, round, settled, loop, channel, deadline, stray>>

WriteReport ==
  /\ step = "report"
  /\ \/ /\ step' = "summary" /\ peerHas' \in SUBSET Families
        /\ UNCHANGED <<probe, sock, routerVars, workerVars, loop, channel, deadline, result, stray>>
     \/ Fail("bridge") /\ Ends("write failed")

(* The families both peers have. *)
buildRuntimeFamilyWorkers == Opened \intersect peerHas
(* The summary, an abort, a broken connection or the caller's cancellation. *)
ReadSummary ==
  /\ step = "summary"
  /\ \/ /\ buildRuntimeFamilyWorkers # {}
        /\ step' = "ready" /\ workers' = buildRuntimeFamilyWorkers
        /\ owned' = [f \in Families |-> IF f \in workers' THEN {Primary(f)} ELSE {}]
        /\ UNCHANGED <<probe, sock, routerVars, peerHas, stopped, spray, round, settled, loop, channel, deadline, result, stray>>
     \/ buildRuntimeFamilyWorkers = {} /\ Ends("no compatible family")
     \/ Fail("bridge") /\ Ends("aborted")

WriteReady ==
  /\ step = "ready"
  /\ \/ /\ step' = "go"
        /\ UNCHANGED <<probe, sock, routerVars, peerHas, workerVars, loop, channel, deadline, result, stray>>
     \/ Fail("bridge") /\ Ends("write failed")

startRuntimeWorkers ==
  /\ step' = "punching"
  /\ spray' = [f \in Families |-> IF f \in workers THEN "direct" ELSE spray[f]]
  /\ loop' = [s \in Sockets |-> IF s[2] = 0 /\ s[1] \in workers THEN "run" ELSE loop[s]]
  /\ UNCHANGED <<probe, sock, routerVars, peerHas, workers, owned, stopped, round, settled, channel, deadline, result, stray>>
awaitPunchGo ==
  /\ step = "go"
  /\ \/ startRuntimeWorkers
     \/ Fail("go") /\ Ends("no go")

(* The deadline of the handshake, or the caller gives up. *)
Deadline ==
  /\ step = "punching" /\ ~deadline
  /\ deadline' = TRUE
  /\ UNCHANGED <<step, probe, sock, routerVars, peerHas, workerVars, loop, channel, result, stray>>

-----------------------------------------------------------------------------
(* The goroutines of a worker. *)

Over(f) == f \in stopped \/ deadline

(* Direct and target phases, each until a pair is nominated or the context is over. *)
startSpray(f) ==
  /\ spray[f] \in {"direct", "target"}
  /\ spray' = [spray EXCEPT ![f] =
       IF settled[f] THEN "ended" ELSE IF @ = "direct" THEN "target" ELSE IF Birthday[f] > 0 THEN "birthday" ELSE "periodic"]
  /\ UNCHANGED <<step, probe, sock, routerVars, peerHas, workers, owned, stopped, round, settled, loop, channel, deadline, result, stray>>

(* A birthday round wants twice as many sockets as the one before. *)
Desired(f) == IF round[f] = SprayRounds THEN Birthday[f]
              ELSE IF 2 ^ round[f] > Birthday[f] THEN Birthday[f] ELSE 2 ^ round[f]
Spare(f) == {s \in Sockets : s[1] = f /\ sock[s] = "none"}
(* The context is not looked at: a round that begins after the session closed its sockets opens new ones. *)
ensureBirthdaySockets(f) ==
  /\ spray[f] = "birthday"
  /\ IF Cardinality(owned[f]) < Desired(f) /\ Spare(f) # {}
     THEN \E s \in Spare(f) :
            /\ sock' = [sock EXCEPT ![s] = "open"] /\ loop' = [loop EXCEPT ![s] = "run"]
            /\ owned' = [owned EXCEPT ![f] = @ \union {s}]
            /\ stray' = IF f \in stopped THEN stray \union {s} ELSE stray
            /\ UNCHANGED spray
     ELSE spray' = [spray EXCEPT ![f] = IF round[f] = SprayRounds THEN "periodic" ELSE "matrix"] /\ UNCHANGED <<sock, loop, owned, stray>>
  /\ UNCHANGED <<step, probe, routerVars, peerHas, workers, stopped, round, settled, channel, deadline, result>>
(* A pass over the targets, then a pause unless it was the last round. *)
runBirthdaySpray(f) ==
  /\ spray[f] = "matrix"
  /\ round' = [round EXCEPT ![f] = @ + 1]
  /\ spray' = [spray EXCEPT ![f] = IF settled[f] \/ (Over(f) /\ round[f] < SprayRounds - 1) THEN "ended" ELSE "birthday"]
  /\ UNCHANGED <<step, probe, sock, routerVars, peerHas, workers, owned, stopped, settled, loop, channel, deadline, result, stray>>
runPeriodicSpray(f) ==
  /\ spray[f] = "periodic" /\ (settled[f] \/ Over(f))
  /\ spray' = [spray EXCEPT ![f] = "ended"]
  /\ UNCHANGED <<step, probe, sock, routerVars, peerHas, workers, owned, stopped, round, settled, loop, channel, deadline, result, stray>>

Nominates(f) ==
  /\ step = "punching" /\ f \in workers /\ ~settled[f]
  /\ settled' = [settled EXCEPT ![f] = TRUE]
  /\ UNCHANGED <<step, probe, sock, routerVars, peerHas, workers, owned, stopped, spray, round, loop, channel, deadline, result, stray>>

(* A packet confirms the pair of this socket; the first one is taken. *)
Confirms(s) ==
  /\ loop[s] = "run" /\ sock[s] = "open" /\ settled[s[1]] /\ ~Over(s[1])
  /\ channel = NoSocket /\ channel' = s
  /\ UNCHANGED <<step, probe, sock, routerVars, peerHas, workerVars, loop, deadline, result, stray>>

(* A read loop ends with its socket or its context. *)
readLoopEnds(s) ==
  /\ loop[s] = "run" /\ (sock[s] = "closed" \/ Over(s[1]))
  /\ loop' = [loop EXCEPT ![s] = "done"]
  /\ UNCHANGED <<step, probe, sock, routerVars, peerHas, workerVars, channel, deadline, result, stray>>

-----------------------------------------------------------------------------
(* The end of the run. *)

(* Mutant: the sockets of the other families stay. *)
stopRuntimeWorkersForWinnerOnly(w) == {}
stopRuntimeWorkersForWinner(w) == UNION {owned[f] : f \in workers \ {w}}
finalizeRuntimeHandover ==
  /\ step = "punching" /\ channel # NoSocket
  /\ step' = "stopping" /\ stopped' = workers
  /\ Close(stopRuntimeWorkersForWinner(channel[1]))
  /\ owned' = [f \in Families |-> IF f \in workers /\ f # channel[1] THEN {} ELSE owned[f]]
  /\ UNCHANGED <<probe, attempt, mapping, revived, peerHas, workers, spray, round, settled, loop, channel, deadline, result, stray>>
(* The read loop has stopped, or 300 ms have passed; the winner's other sockets are closed. *)
closeSockets ==
  /\ step = "stopping"
  /\ step' = "done" /\ result' = "handed"
  /\ Close(owned[channel[1]] \ {channel})
  /\ owned' = [owned EXCEPT ![channel[1]] = {channel}]
  /\ UNCHANGED <<probe, attempt, mapping, revived, peerHas, workers, stopped, spray, round, settled, loop, channel, deadline, stray>>

failRuntimeHandshake ==
  /\ step = "punching" /\ deadline /\ channel = NoSocket
  /\ Ends("timeout")

Init ==
  /\ step = "probing" /\ probe = [f \in Families |-> "idle"] /\ sock = [s \in Sockets |-> "none"]
  /\ attempt = [f \in Families |-> 0] /\ mapping = [f \in Families |-> FALSE] /\ renewal = [f \in Families |-> "off"] /\ cleanup = [f \in Families |-> "none"]
  /\ peerHas = {} /\ workers = {} /\ owned = [f \in Families |-> {}] /\ stopped = {}
  /\ spray = [f \in Families |-> "off"] /\ round = [f \in Families |-> 0] /\ loop = [s \in Sockets |-> "off"]
  /\ settled = [f \in Families |-> FALSE] /\ channel = NoSocket /\ deadline = FALSE
  /\ result = "none" /\ stray = {} /\ revived = {}

Runs == openProbeRuntimeFamilies \/ WriteReport \/ ReadSummary \/ WriteReady \/ awaitPunchGo \/ finalizeRuntimeHandover \/ closeSockets \/ failRuntimeHandshake
Probes(f) == listen(f) \/ runProbe(f) \/ maybeEnablePortMapping(f) \/ tryPortMapping(f)
SpraySteps(f) == startSpray(f) \/ ensureBirthdaySockets(f) \/ runBirthdaySpray(f) \/ runPeriodicSpray(f)

Next ==
  \/ Runs \/ Deadline
  \/ \E f \in Families : Probes(f) \/ SpraySteps(f) \/ runPortMappingRenewal(f) \/ runCleanup(f) \/ Nominates(f)
  \/ \E s \in Sockets : Confirms(s) \/ readLoopEnds(s)

Spec == Init /\ [][Next]_vars

(* When the run is over no socket is left open but the one handed over.  Two kinds escape the *)
(* code: one opened by a birthday round that began after its session had closed its sockets, and, *)
(* after a success, the probed socket of a family the peer does not have. *)
SocketsReleased ==
  step = "done" =>
    \A s \in Sockets : sock[s] = "open" =>
      \/ result = "handed" /\ s = channel
      \/ s \in stray
      \/ s[2] = 0 /\ result = "handed" /\ s[1] \notin workers

(* The router's mapping goes with its socket, unless a renewal was under way when it was closed. *)
MappingFollowsSocket ==
  \A f \in Families : mapping[f] /\ sock[Primary(f)] = "closed" => cleanup[f] = "running" \/ f \in revived

=============================================================================
