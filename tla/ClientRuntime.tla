---------------------------- MODULE ClientRuntime ----------------------------
(***************************************************************************)
(* The client (npc) of one bridge: opening of the control connection,      *)
(* the configuration session, the tunnel with its accept loop, the main    *)
(* signal, the monitor, the file servers, the channels the bridge opens,   *)
(* and Close, which runs once and whichever goroutine asks first.          *)
(* (client/control.go, client/client.go, client/client_channel_runtime.go) *)
(***************************************************************************)
EXTENDS Naturals, FiniteSets

CONSTANTS Kinds,    \* of tunnel: "mux", "quic", or "legacy" (protocol below 5: signal only)
          Modes,    \* "config": StartFromConfig; "command": the loop of startLaunchDirect
          Tasks,    \* the configuration's file tasks, all of one runtime key
          MaxRuns,  \* connections made one after the other
          MaxChannels

VARIABLES kind, mode, reconnect,  \* fixed: the tunnel, the loop, AutoReconnect
          parent,    \* the parent context is cancelled
          pc,        \* of the loop's goroutine
          run,       \* the run it is in
          stage, conn, use,  \* NewConn: its stage, the connection it builds, and what for
          session,   \* the configuration session's connection
          client,    \* run -> the TRPClient
          accept, monitor, join,  \* run -> the place of these goroutines
          channel,   \* run -> the handler of a channel
          files, starter, shut,   \* run -> file server manager, its StartFileServer calls, servers shut down
          status,    \* NowStatus
          crashed    \* a goroutine dereferenced nil: the process is gone

vars == <<kind, mode, reconnect, parent, pc, run, stage, conn, use, session, client, accept, monitor, join,
          channel, files, starter, shut, status, crashed>>
fixed == <<kind, mode, reconnect>>
dialVars == <<stage, conn, use>>
fileVars == <<files, starter, shut>>
helpers == <<accept, monitor, join, channel>>

Runs == 1 .. MaxRuns
Fresh == [done |-> FALSE, tunnel |-> "nil", mux |-> "none", signal |-> "nil", sig |-> "none",
          ticker |-> "nil", once |-> "no", step |-> 0]

Init ==
  /\ kind \in Kinds /\ mode \in Modes /\ reconnect \in BOOLEAN
  /\ parent = FALSE /\ pc = "head" /\ run = 0 /\ stage = "none" /\ conn = "none" /\ use = "none" /\ session = "none"
  /\ client = [r \in Runs |-> Fresh]
  /\ accept = [r \in Runs |-> "none"] /\ monitor = [r \in Runs |-> "none"] /\ join = [r \in Runs |-> "none"]
  /\ channel = [r \in Runs |-> [at |-> "none", src |-> "none", target |-> "none", count |-> 0]]
  /\ files = [r \in Runs |-> [state |-> "none", entry |-> 0]]
  /\ starter = [r \in Runs |-> [t \in Tasks |-> "idle"]] /\ shut = [r \in Runs |-> {}]
  /\ status = 0 /\ crashed = FALSE

me == client[run]
Done(r) == client[r].done \/ parent          \* s.ctx is a child of the parent's context
MuxDead(r) == client[r].mux # "open"
SignalDead(r) == client[r].sig # "open" \/ (kind # "legacy" /\ MuxDead(r))

(***************************************************************************)
(* The loop around the runs.                                               *)
(***************************************************************************)
(* Before the first run, and after the delay before a later one. *)
Begin ==
  /\ run' = run + 1
  /\ use' = (IF mode = "config" THEN "session" ELSE "tunnel")
  /\ stage' = "plan" /\ conn' = "none" /\ pc' = "dial"
  /\ status' = (IF mode = "command" THEN 0 ELSE status)
  /\ UNCHANGED parent

StartFromConfig ==
  /\ pc = "head" /\ mode = "config"
  /\ \/ parent /\ pc' = "ended" /\ UNCHANGED <<run, use, stage, conn, parent, status>>
     \/ ~parent /\ run > 0 /\ ~reconnect /\ parent' = TRUE /\ pc' = "ended" /\ UNCHANGED <<run, use, stage, conn, status>>
     \/ ~parent /\ (run = 0 \/ reconnect) /\ run < MaxRuns /\ Begin
  /\ UNCHANGED <<fixed, session, client, helpers, fileVars, crashed>>

startLaunchDirect ==
  /\ pc = "head" /\ mode = "command"
  /\ \/ run > 0 /\ reconnect /\ parent /\ pc' = "ended" /\ UNCHANGED <<run, use, stage, conn, parent, status>>
     \/ run > 0 /\ ~reconnect /\ parent' = TRUE /\ pc' = "ended" /\ UNCHANGED <<run, use, stage, conn, status>>
     \/ (run = 0 \/ (reconnect /\ ~parent)) /\ run < MaxRuns /\ Begin
  /\ UNCHANGED <<fixed, session, client, helpers, fileVars, crashed>>

(***************************************************************************)
(* NewConn: plan, transport, wire, version, authentication, work type.     *)
(***************************************************************************)
(* Only the tunnel's connection watches the client's context; the configuration session dials with none. *)
DialCancelled == use = "tunnel" /\ Done(run)

After(s) ==
  CASE s = "plan" -> "raw"        \* the connection, straight or through a proxy
    [] s = "raw" -> "wrap"        \* CONNECT, TLS, WebSocket, QUIC stream
    [] s = "wrap" -> "version"
    [] s = "version" -> "auth"
    [] s = "auth" -> "fingerprint"
    [] s = "fingerprint" -> "type"
    [] s = "type" -> "flag"

(* The plan is refused only for a context that is over. *)
buildClientControlConnPlan ==
  /\ pc = "dial" /\ stage = "plan" /\ ~DialCancelled
  /\ stage' = After(stage)
  /\ UNCHANGED <<fixed, parent, pc, run, conn, use, session, client, helpers, fileVars, status, crashed>>

openClientControlTransport ==
  /\ pc = "dial" /\ stage \in {"raw", "wrap"}
  /\ stage' = After(stage) /\ conn' = "open"
  /\ UNCHANGED <<fixed, parent, pc, run, use, session, client, helpers, fileVars, status, crashed>>

authenticateClientControlConn ==
  /\ pc = "dial" /\ stage \in {"version", "auth", "fingerprint"} /\ ~DialCancelled
  /\ stage' = After(stage)
  /\ UNCHANGED <<fixed, parent, pc, run, conn, use, session, client, helpers, fileVars, status, crashed>>

(* A failing stage closes what it has opened; the run ends (openBridgeTunnel, openClientConfigSession). *)
DialFails ==
  /\ pc = "dial" /\ (stage = "plan" => DialCancelled)
  /\ conn' = (IF conn = "open" THEN "closed" ELSE conn)
  /\ stage' = "none"
  /\ pc' = (IF use = "session" THEN "head" ELSE "close")
  /\ UNCHANGED <<fixed, parent, run, use, session, client, helpers, fileVars, status, crashed>>

(* The work type is sent: the connection becomes the session, the tunnel or, before version 5, the signal. *)
SendType ==
  /\ pc = "dial" /\ stage = "type"
  /\ stage' = "none" /\ conn' = "none"
  /\ \/ use = "session" /\ session' = "open" /\ pc' = "publish" /\ UNCHANGED client
     \/ use = "tunnel" /\ kind # "legacy" /\ pc' = "install" /\ UNCHANGED session
        /\ client' = [client EXCEPT ![run].mux = "open"]
     \/ use = "tunnel" /\ kind = "legacy" /\ pc' = "setSignal" /\ UNCHANGED session
        /\ client' = [client EXCEPT ![run].sig = "open"]
  /\ UNCHANGED <<fixed, parent, run, use, helpers, fileVars, status, crashed>>

(***************************************************************************)
(* The configuration session (RunConfigOnce).                              *)
(***************************************************************************)
(* A public client publishes its configuration, which may be refused. *)
publishPublicConfig ==
  /\ pc = "publish"
  /\ \/ pc' = "tasks" /\ UNCHANGED session
     \/ pc' = "head" /\ session' = "closed"
  /\ UNCHANGED <<fixed, parent, run, dialVars, client, helpers, fileVars, status, crashed>>

(* Hosts and tasks are published one by one; an accepted file task gets a goroutine for its server. *)
publishClientConfigTasks ==
  /\ pc = "tasks"
  /\ files' = [files EXCEPT ![run].state = "open"]
  /\ \E accepted \in SUBSET Tasks :
       starter' = [starter EXCEPT ![run] = [t \in Tasks |-> IF t \in accepted THEN "begun" ELSE "idle"]]
  /\ status' = 0 /\ use' = "tunnel" /\ stage' = "plan" /\ conn' = "none" /\ pc' = "dial"
  /\ UNCHANGED <<fixed, parent, run, session, client, helpers, shut, crashed>>

(***************************************************************************)
(* Start of a client.                                                      *)
(***************************************************************************)
installBridgeTunnel ==
  /\ pc = "install"
  /\ client' = [client EXCEPT ![run].tunnel = "set"]
  /\ accept' = [accept EXCEPT ![run] = "check"]
  /\ pc' = "signal"
  /\ UNCHANGED <<fixed, parent, run, dialVars, session, monitor, join, channel, fileVars, status, crashed>>

(* A stream of the tunnel, on which the type main is sent. *)
openTunnelMainSignal ==
  /\ pc = "signal"
  /\ \/ me.tunnel = "nil" /\ pc' = "close" /\ UNCHANGED client
     \/ me.tunnel = "set" /\ pc' = "close" /\ UNCHANGED client
     \/ me.tunnel = "set" /\ pc' = "close" /\ client' = [client EXCEPT ![run].sig = "closed"]
     \/ me.tunnel = "set" /\ ~MuxDead(run) /\ pc' = "setSignal" /\ client' = [client EXCEPT ![run].sig = "open"]
  /\ UNCHANGED <<fixed, parent, run, dialVars, session, helpers, fileVars, status, crashed>>

setSignal ==
  /\ pc = "setSignal"
  /\ client' = [client EXCEPT ![run].signal = "set"]
  /\ monitor' = [monitor EXCEPT ![run] = "new"]
  /\ pc' = "ready"
  /\ UNCHANGED <<fixed, parent, run, dialVars, session, accept, join, channel, fileVars, status, crashed>>

markReady ==
  /\ pc = "ready" /\ status' = 1 /\ pc' = "main"
  /\ UNCHANGED <<fixed, parent, run, dialVars, session, client, helpers, fileVars, crashed>>

(* The loop over the signal's events: it looks at the context, then blocks in a read. *)
handleMain ==
  /\ pc = "main"
  /\ \/ Done(run) /\ pc' = "close"
     \/ ~Done(run) /\ me.signal = "set" /\ pc' = "reading"
  /\ UNCHANGED <<fixed, parent, run, dialVars, session, client, helpers, fileVars, status, crashed>>

(* The read ends when the signal is dead, not when the context is: an order to punch starts a provider session. *)
readMainEvent ==
  /\ pc = "reading"
  /\ \/ SignalDead(run) /\ pc' = "close" /\ UNCHANGED join
     \/ ~SignalDead(run) /\ join[run] = "none" /\ pc' = "main" /\ join' = [join EXCEPT ![run] = "opening"]
  /\ UNCHANGED <<fixed, parent, run, dialVars, session, client, accept, monitor, channel, fileVars, status, crashed>>

(* The provider's side of a punch: under a timeout and the client's context, its connections closed at the end. *)
P2PJoin(r) ==
  /\ \/ join[r] = "opening" /\ join' = [join EXCEPT ![r] = IF Done(r) THEN "ended" ELSE "serving"]
     \/ join[r] \in {"opening", "serving"} /\ join' = [join EXCEPT ![r] = "ended"]
  /\ UNCHANGED <<fixed, parent, pc, run, dialVars, session, client, accept, monitor, channel, fileVars, status, crashed>>

(***************************************************************************)
(* File servers of a run.                                                  *)
(***************************************************************************)
(* The server now registered is shut down: its Serve returns. *)
shutdownNoFileServer(r) == shut' = shut
shutdownFileServer(r) == shut' = [shut EXCEPT ![r] = @ \union ({files[r].entry} \ {0})]

(* StartFileServer: refused once the manager is closed, before or while it registers; the server it replaces is shut. *)
registerFileServer(r, t) == [files EXCEPT ![r].entry = t]

StartFileServer(r, t) ==
  /\ \/ starter[r][t] = "begun" /\ UNCHANGED <<files, shut>>
        /\ starter' = [starter EXCEPT ![r][t] = IF files[r].state = "open" THEN "built" ELSE "ended"]
     \/ starter[r][t] = "built" /\ files[r].state # "open" /\ UNCHANGED <<files, shut>>
        /\ starter' = [starter EXCEPT ![r][t] = "ended"]
     \/ starter[r][t] = "built" /\ files[r].state = "open"
        /\ files' = registerFileServer(r, t)
        /\ starter' = [starter EXCEPT ![r][t] = "registered"]
        /\ shutdownFileServer(r)
     \/ starter[r][t] = "registered" /\ starter' = [starter EXCEPT ![r][t] = "serving"] /\ UNCHANGED <<files, shut>>
  /\ UNCHANGED <<fixed, parent, pc, run, dialVars, session, client, helpers, status, crashed>>

(* Serve returns once the server is shut down, and takes its entry out if it is still the current one. *)
FileServerEnds(r, t) ==
  /\ starter[r][t] = "serving" /\ t \in shut[r]
  /\ starter' = [starter EXCEPT ![r][t] = "ended"]
  /\ files' = [files EXCEPT ![r].entry = IF @ = t THEN 0 ELSE @]
  /\ UNCHANGED <<fixed, parent, pc, run, dialVars, session, client, helpers, shut, status, crashed>>

CloseAllStaysOpen(r) ==
  /\ files' = [files EXCEPT ![r].entry = 0]
  /\ shutdownFileServer(r)
CloseAll(r) ==
  /\ files' = [files EXCEPT ![r] = [state |-> IF @.state = "open" THEN "closed" ELSE @.state, entry |-> 0]]
  /\ shutdownFileServer(r)

FilesEnded(r) == \A t \in Tasks : starter[r][t] # "serving"

(* The manager watches the context of its run, which ends with the run. *)
FilesWatch(r) ==
  /\ files[r].state = "open" /\ (parent \/ r < run \/ (r = run /\ pc = "head"))
  /\ CloseAll(r)
  /\ UNCHANGED <<fixed, parent, pc, run, dialVars, session, client, helpers, starter, status, crashed>>

(***************************************************************************)
(* Close: once, by the first goroutine that asks; the others wait for it.  *)
(***************************************************************************)
Close(who, r) ==
  /\ client[r].once = "no"
  /\ client' = [client EXCEPT ![r].once = who, ![r].step = 1]

Closed(r) == client[r].once = "over"

(* The steps of Shutdown, each seen by the goroutines still at work. *)
Shutdown(r) ==
  /\ client[r].once \in {"main", "accept", "monitor"}
  /\ LET c == client[r]
         Step(d) == client' = [client EXCEPT ![r] = [d EXCEPT !.step = @ + 1]]
     IN \/ c.step = 1 /\ status' = 0 /\ Step(c) /\ UNCHANGED <<files, shut>>
        \/ c.step = 2 /\ Step([c EXCEPT !.done = TRUE]) /\ UNCHANGED <<status, files, shut>>
        \/ c.step = 3 /\ UNCHANGED <<status, files, shut>>
           /\ Step([c EXCEPT !.mux = IF c.tunnel = "set" THEN "closed" ELSE @, !.tunnel = "nil"])
        \/ c.step = 4 /\ UNCHANGED <<status, files, shut>>
           /\ Step([c EXCEPT !.sig = IF c.signal = "set" THEN "closed" ELSE @, !.signal = "nil"])
        \/ c.step = 5 /\ Step([c EXCEPT !.ticker = IF @ = "set" THEN "stopped" ELSE @]) /\ UNCHANGED <<status, files, shut>>
        \/ c.step = 6 /\ Step(c) /\ CloseAll(r) /\ UNCHANGED status
        \/ c.step = 7 /\ FilesEnded(r) /\ UNCHANGED <<status, files, shut>>
           /\ client' = [client EXCEPT ![r].once = "over"]
  /\ UNCHANGED <<fixed, parent, pc, run, dialVars, session, helpers, starter, crashed>>

(* The loop's goroutine leaves Start through Close; the session and the run's context end with it. *)
MainCloses ==
  /\ pc = "close" /\ Close("main", run)
  /\ UNCHANGED <<fixed, parent, pc, run, dialVars, session, helpers, fileVars, status, crashed>>

Returned ==
  /\ pc = "close" /\ Closed(run)
  /\ pc' = "head" /\ session' = (IF session = "open" THEN "closed" ELSE session)
  /\ UNCHANGED <<fixed, parent, run, dialVars, client, helpers, fileVars, status, crashed>>

(***************************************************************************)
(* The accept loop.                                                        *)
(***************************************************************************)
(* It looks at the context between two channels; its connection is closed when it ends. *)
serveTunnelAcceptLoop(r) ==
  /\ \/ accept[r] = "check" /\ ~Done(r) /\ accept' = [accept EXCEPT ![r] = "accept"] /\ UNCHANGED client
     \/ accept[r] = "check" /\ Done(r) /\ accept' = [accept EXCEPT ![r] = "ended"]
        /\ client' = [client EXCEPT ![r].mux = "closed"]
     \/ accept[r] = "close" /\ client[r].once = "no" /\ Close("accept", r) /\ UNCHANGED accept
     \/ accept[r] = "close" /\ Closed(r) /\ accept' = [accept EXCEPT ![r] = "ended"]
        /\ client' = [client EXCEPT ![r].mux = "closed"]
  /\ UNCHANGED <<fixed, parent, pc, run, dialVars, session, monitor, join, channel, fileVars, status, crashed>>

(* A mux reports that it is dead and nothing else; QUIC also that the context is over. *)
acceptTunnelConn(r) ==
  /\ accept[r] = "accept"
  /\ \/ (client[r].tunnel = "nil" \/ MuxDead(r) \/ (kind = "quic" /\ Done(r)))
        /\ accept' = [accept EXCEPT ![r] = "close"] /\ UNCHANGED channel
     \/ ~MuxDead(r) /\ channel[r].at \in {"none", "ended"} /\ channel[r].count < MaxChannels
        /\ accept' = [accept EXCEPT ![r] = "check"]
        /\ channel' = [channel EXCEPT ![r] = [at |-> "link", src |-> "open", target |-> "none", count |-> @.count + 1]]
  /\ UNCHANGED <<fixed, parent, pc, run, dialVars, session, client, monitor, join, fileVars, status, crashed>>

(***************************************************************************)
(* The monitor.                                                            *)
(***************************************************************************)
MonitorStarts(r) ==
  /\ monitor[r] = "new"
  /\ client' = [client EXCEPT ![r].ticker = "set"] /\ monitor' = [monitor EXCEPT ![r] = "loop"]
  /\ UNCHANGED <<fixed, parent, pc, run, dialVars, session, accept, join, channel, fileVars, status, crashed>>

(* The select evaluates s.ticker.C again in every round: Close sets s.ticker to nil. *)
MonitorLoops(r) ==
  /\ monitor[r] = "loop"
  /\ IF client[r].ticker = "set" THEN monitor' = [monitor EXCEPT ![r] = "wait"] /\ UNCHANGED crashed
     ELSE crashed' = TRUE /\ UNCHANGED monitor
  /\ UNCHANGED <<fixed, parent, pc, run, dialVars, session, client, accept, join, channel, fileVars, status>>

TunnelClosed(r) == client[r].tunnel = "nil" \/ MuxDead(r)

Monitor(r) ==
  /\ \/ monitor[r] = "wait" /\ client[r].ticker = "set" /\ UNCHANGED client
        /\ monitor' = [monitor EXCEPT ![r] = IF TunnelClosed(r) THEN "close" ELSE "loop"]
     \/ monitor[r] = "wait" /\ Done(r) /\ UNCHANGED client
        /\ monitor' = [monitor EXCEPT ![r] = "ended"]
     \/ monitor[r] = "close" /\ Close("monitor", r) /\ UNCHANGED monitor
     \/ monitor[r] = "close" /\ Closed(r) /\ UNCHANGED client
        /\ monitor' = [monitor EXCEPT ![r] = "ended"]
  /\ UNCHANGED <<fixed, parent, pc, run, dialVars, session, accept, join, channel, fileVars, status, crashed>>

(***************************************************************************)
(* A channel the bridge opens.                                             *)
(***************************************************************************)
(* Link and acknowledgement, UDP relay, file server or target, permission, dialling, result, relay: *)
(* every way out closes the stream, and the target once there is one. *)
ChannelEnds(r) ==
  /\ channel[r].at \in {"link", "target", "file", "dialled", "relay"}
  /\ channel' = [channel EXCEPT ![r].at = "ended", ![r].src = "closed",
                                ![r].target = IF @ = "open" THEN "closed" ELSE @]
  /\ UNCHANGED <<fixed, parent, pc, run, dialVars, session, client, accept, monitor, join, fileVars, status, crashed>>

handleChan(r) ==
  /\ \/ channel[r].at = "link"
        /\ \E next \in {"relay", "target"} \union (IF files[r].entry # 0 THEN {"file"} ELSE {}) :
             channel' = [channel EXCEPT ![r].at = next]
     \/ channel[r].at = "target" /\ ~Done(r) /\ channel' = [channel EXCEPT ![r].at = "dialled", ![r].target = "open"]
     \/ channel[r].at = "dialled" /\ channel' = [channel EXCEPT ![r].at = "relay"]
  /\ UNCHANGED <<fixed, parent, pc, run, dialVars, session, client, accept, monitor, join, fileVars, status, crashed>>

(***************************************************************************)
(* The world around.                                                       *)
(***************************************************************************)
(* The bridge or the network ends the tunnel, or the signal alone. *)
ConnectionLost(r) ==
  /\ \/ client[r].mux = "open" /\ client' = [client EXCEPT ![r].mux = "closed"]
     \/ client[r].sig = "open" /\ client' = [client EXCEPT ![r].sig = "closed"]
  /\ UNCHANGED <<fixed, parent, pc, run, dialVars, session, helpers, fileVars, status, crashed>>

ParentCancels ==
  /\ ~parent /\ parent' = TRUE
  /\ UNCHANGED <<fixed, pc, run, dialVars, session, client, helpers, fileVars, status, crashed>>

LoopSteps ==
  \/ StartFromConfig \/ startLaunchDirect
  \/ buildClientControlConnPlan \/ openClientControlTransport \/ authenticateClientControlConn \/ SendType \/ DialFails
  \/ publishPublicConfig \/ publishClientConfigTasks
  \/ installBridgeTunnel \/ openTunnelMainSignal \/ setSignal \/ markReady \/ handleMain \/ readMainEvent
  \/ MainCloses \/ Returned

AcceptSteps(r) == serveTunnelAcceptLoop(r) \/ acceptTunnelConn(r)
MonitorSteps(r) == MonitorStarts(r) \/ MonitorLoops(r) \/ Monitor(r)
FileSteps(r) == FilesWatch(r) \/ \E t \in Tasks : StartFileServer(r, t) \/ FileServerEnds(r, t)
ChannelSteps(r) == handleChan(r) \/ ChannelEnds(r)

Next ==
  /\ ~crashed
  /\ \/ LoopSteps
     \/ \E r \in Runs : \/ AcceptSteps(r) \/ MonitorSteps(r) \/ FileSteps(r) \/ ChannelSteps(r)
                        \/ P2PJoin(r) \/ Shutdown(r) \/ ConnectionLost(r)
     \/ ParentCancels

(* Every goroutine that can go on does, and a wait of the loop ends; nobody makes a connection break. *)
Fairness ==
  /\ WF_vars(~crashed /\ LoopSteps)
  /\ \A r \in Runs : /\ WF_vars(~crashed /\ AcceptSteps(r)) /\ WF_vars(~crashed /\ MonitorSteps(r))
                     /\ WF_vars(~crashed /\ FileSteps(r)) /\ WF_vars(~crashed /\ Shutdown(r))

Spec == Init /\ [][Next]_vars /\ Fairness

(***************************************************************************)
(* Properties.                                                             *)
(***************************************************************************)
(* When a run has returned to the loop, nothing of it is left to meet the next one: its connections are
   closed though Close was begun by another goroutine, in the middle of the start, and no file server of it
   serves, whenever the goroutines that start them come to run; a channel that has ended is closed on both sides. *)
Released ==
  /\ \A r \in Runs : r < run \/ (r = run /\ pc \in {"head", "ended"}) =>
       /\ client[r].mux # "open" /\ (client[r].sig = "open" => kind # "legacy")
       /\ conn # "open" \/ r < run
       /\ \A t \in Tasks : starter[r][t] \in {"registered", "serving"} => t \in shut[r]
  /\ pc = "head" => session # "open"
  /\ \A r \in Runs : channel[r].at = "ended" => channel[r].src = "closed" /\ channel[r].target # "open"

(* A client whose connection is lost leaves Start, in whatever state the loss found it: the loop can connect
   again. (The process may also have died of the monitor's nil ticker.) *)
LossSeen(r) == client[r].mux = "closed" \/ client[r].sig = "closed"
LossHandled(r) == run # r \/ pc \in {"head", "ended"} \/ crashed
=============================================================================
