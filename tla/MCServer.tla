------------------------------ MODULE MCServer ------------------------------
EXTENDS ProxyConns, TLC

(***************************************************************************)
(* The server's services, and the connections it serves.  A behaviour is    *)
(* one of a single module, which part names, and mode what it is bounded    *)
(* to: ProxyConns has its own variables, the others share the slots.        *)
(***************************************************************************)
VARIABLES part, mode, s1, s2, s3, s4, s5, s6, s7, s8, s9, s10, s11, s12, s13, s14, s15, s16, s17, s18, s19, s20
slots == <<s1, s2, s3, s4, s5, s6, s7, s8, s9, s10, s11, s12, s13, s14, s15, s16, s17, s18, s19, s20>>
Off == "off"
(* The slots a part does not use. *)
OffFrom(n) ==
  /\ n <= 1 => s1 = Off /\ s2 = Off /\ s3 = Off /\ s4 = Off /\ s5 = Off /\ s6 = Off /\ s7 = Off /\ s8 = Off
               /\ s9 = Off /\ s10 = Off
  /\ n <= 11 => s11 = Off /\ s12 = Off
  /\ n <= 13 => s13 = Off
  /\ n <= 14 => s14 = Off /\ s15 = Off
  /\ n <= 16 => s16 = Off
  /\ n <= 17 => s17 = Off
  /\ n <= 18 => s18 = Off
  /\ n <= 19 => s19 = Off /\ s20 = Off

-----------------------------------------------------------------------------
(* Services: tunnels, owners of what clients publish, health of targets,   *)
(* refresh of the counters, and the clients the server knows.              *)
Tasks == INSTANCE TunnelTasks WITH store <- s1, run <- s2, svc <- s3, queue <- s4, act <- s5, ops <- s6,
  over <- s7, orphan <- s8, late <- s9, undone <- s10, taken <- s11, lost <- s12, used <- s13,
  Tunnels <- {1, 2}, Ports <- {80}, Workers <- {"w"}, MaxServices <- 2, MaxOps <- 3, QueueCap <- 1, MaxRevision <- 3
Owners == INSTANCE RuntimeOwners WITH kind <- s1, obj <- s2, stored <- s3, files <- s4, h <- s5,
  leaving <- s6, pubs <- s7, leaves <- s8, selects <- s9, turn <- s10, unfair <- s11, acked <- s12, torn <- s13,
  Nodes <- {"a", "b", "c"}, Kinds <- {"task", "file", "host"}, MaxPublications <- 3, MaxLeaves <- 1, MaxSelects <- 5
Health == INSTANCE TargetHealth WITH owned <- s1, up <- s2, fails <- s3, wire <- s4, arr <- s5,
  src <- s6, ix <- s7, out <- s8, outSnap <- s9, checks <- s10, losses <- s11, picks <- s12, last <- s13,
  probed <- s14, missed <- s15,
  Targets <- <<"x", "y">>, MaxFail <- 2, MaxChecks <- 7, MaxLosses <- 1, MaxPicks <- 2, Offsets <- {0, 1}
Flow == INSTANCE FlowRefresh WITH flow <- s1, online <- s2, shown <- s3, saved <- s4, refreshing <- s5,
  ended <- s6, fresh <- s7, act <- s8, stop <- s9, every <- s10, sess <- s11, calls <- s12,
  Clients <- {"c", "d"}, Tunnels <- {1}, Owner <- (1 :> "c"), Workers <- {<<"caller", 1>>, <<"caller", 2>>},
  Intervals <- {0, 1, 2}, MaxTraffic <- 1, MaxCalls <- 3, MaxSessions <- 2
Cf(p, v, l) == [public |-> p, visitor |-> v, local |-> l]
Rec(k, t, l) == [key |-> k, kind |-> t, label |-> l, on |-> TRUE, spent |-> FALSE]
Clients == INSTANCE ServerClients WITH clients <- s1, lastId <- s2, tasks <- s3, online <- s4,
  attaching <- s5, published <- s6, cfg <- s7, job <- s8, synced <- s9, changes <- s10,
  Ids <- 1..6, Keys <- {"k", "l", "m"}, MaxChanges <- 3,
  Configs <- {Cf("", "", TRUE), Cf("k", "l", FALSE), Cf("l", "l", FALSE), Cf("l", "k", TRUE)},
  Imports <- {<<Rec("m", "stored", "")>>, <<Rec("k", "special", "public_vkey"), Rec("l", "stored", "")>>}

(* Connections: kept ones to backends, UDP sessions, SOCKS5 associations,   *)
(* and the HTTP servers.                                                    *)
Pool == INSTANCE BackendPool WITH version <- s1, edits <- s2, edit <- s3, doomed <- s4, now <- s5,
  cache <- s6, items <- s7, nextPrune <- s8, used <- s9, told <- s10, idle <- s11, at <- s12,
  host <- s13, since <- s14, backend <- s15, pool <- s16, transport <- s17, stale <- s18, conn <- s19, late <- s20,
  Requests <- {1, 2, 3}, Backends <- {"x", "y"}, MaxEntries <- 1, TTL <- 1, Interval <- 1, MaxTime <- 1, MaxEdits <- 1
Udp == INSTANCE UdpServer WITH listening <- s1, sessions <- s2, made <- s3, owner <- s4, done <- s5,
  closing <- s6, conn <- s7, known <- s8, worker <- s9, back <- s10, lease <- s11, queue <- s12,
  reader <- s13, target <- s14, packets <- s15, closer <- s16, snapshot <- s17,
  Senders <- {"a", "b"}, MaxSessions <- 2, QueueCap <- 1, MaxPackets <- 2
Socks == INSTANCE UdpAssociations WITH ip <- s1, handler <- s2, closing <- s3, link <- s4, loops <- s5,
  bound <- s6, members <- s7, byAddr <- s8, byIP <- s9, pending <- s10, closed <- s11, listening <- s12,
  cancelled <- s13, running <- s14, reader <- s15, datagrams <- s16, closer <- s17, snapshot <- s18,
  Sessions <- {"s", "t"}, Ips <- {"i"}, Ports <- {1}, MaxDatagrams <- 2
Http == INSTANCE HttpServers WITH ports <- s1, socket <- s2, serve <- s3, start <- s4, inits <- s5,
  failed <- s6, closer <- s7, done <- s8, queue <- s9, drains <- s10, tls <- s11, before <- s12,
  runtimeClosed <- s13, workerClosing <- s14, worker <- s15, quic <- s16,
  Conns <- {"c", "d"}, Quics <- {"q"}, QueueCap <- 1
Rate == INSTANCE RateLimiter WITH now <- s1, limit <- s2, tat <- s3, enabled <- s4, stopped <- s5,
  signal <- s6, closed <- s7, mu <- s8, call <- s9, heard <- s10, edit <- s11, calls <- s12, edits <- s13,
  paid <- s14, mark <- s15,
  Callers <- {1, 2}, Rates <- <<"tunnel", "client">>, Editors <- {"e"}, Limits <- {0, 1}, Sizes <- {2},
  Second <- 1, Burst <- 1, Coalesce <- 0, ShortWait <- 1, MaxI64 <- 20, MaxTime <- 2, MaxCalls <- 2, MaxEdits <- 1
ASSUME Rate!RateAssumption

-----------------------------------------------------------------------------
L(c, t) == [r \in Records |-> CASE r = "client" -> c [] r \in {"tunnel", "host"} -> t [] OTHER -> 2]
MCLimits == {L(1, 0), L(0, 1), L(2, 2)}
AllHosts == \A i \in Handlers : kind[i] = "host" /\ ~local[i]
Quiet == Init /\ limit = L(1, 0) /\ AllHosts

(* Three connections to a host with their limits; two with edits of the    *)
(* records; one of every kind with a failing step.                         *)
ConnsInit ==
  /\ part = "conns" /\ Init /\ OffFrom(1)
  /\ \/ mode \in {"limits", "edits"} /\ AllHosts
     \/ mode = "paths" /\ limit = L(1, 0) /\ \A i \in Handlers : i # 1 => kind[i] = "host" /\ ~local[i]
ConnsNext ==
  /\ part = "conns" /\ Next /\ UNCHANGED <<part, mode, slots>>
  /\ mode = "limits" => UNCHANGED records
  /\ mode = "edits" => at'[3] = "new" /\ faults' = 0 /\ Cardinality({r \in Records : state'[r] \in {"expired", "spent"}}) <= 1
  /\ mode = "paths" => at'[2] = "new" /\ at'[3] = "new" /\ UNCHANGED <<current, draft>>
ConnsSpec == ConnsInit /\ [][ConnsNext]_<<part, mode, vars, slots>>

(* The services.  A single tunnel, or a pair without roll-backs; owners    *)
(* that race to publish and leave, or that are picked in turn; requests to *)
(* one backend without a clock, the third when the first is over, or to    *)
(* two without edits; reads and writes under the limits of a tunnel and of *)
(* its client, or writes while the tunnel's limit is changed.              *)
OneBackend == s15 = [r \in {1, 2, 3} |-> "x"]
ServerInit ==
  \/ ConnsInit
  \/ /\ Quiet
     /\ \/ part = "tasks" /\ mode \in {"single", "pair"} /\ Tasks!Init /\ OffFrom(14)
        \/ part = "owners" /\ mode \in {"race", "turns"} /\ Owners!Init /\ (mode = "turns" => s1 = "task") /\ OffFrom(14)
        \/ part = "health" /\ mode = Off /\ Health!Init /\ OffFrom(16)
        \/ part = "flow" /\ mode = Off /\ Flow!Init /\ OffFrom(13)
        \/ part = "clients" /\ mode = Off /\ Clients!Init /\ OffFrom(11)
        \/ /\ part = "pool" /\ mode = Off /\ Pool!Init
           /\ OneBackend \/ s15 = [r \in {1, 2, 3} |-> IF r = 1 THEN "x" ELSE "y"]
        \/ /\ part = "rate" /\ mode \in {"both", "edits"} /\ Rate!Init /\ OffFrom(16)
           /\ s2["tunnel"] = 1 /\ s2["client"] = IF mode = "both" THEN 1 ELSE 0
ServerNext ==
  \/ ConnsNext
  \/ /\ UNCHANGED <<part, mode, vars>>
     /\ \/ /\ part = "tasks" /\ Tasks!Next /\ UNCHANGED <<s14, s15, s16, s17, s18, s19, s20>>
           /\ s7' = {} /\ IF mode = "pair" THEN s10' = {} /\ s8' = {} ELSE s13' \subseteq {1}
        \/ /\ part = "owners" /\ Owners!Next /\ UNCHANGED <<s14, s15, s16, s17, s18, s19, s20>>
           /\ IF mode = "race" THEN s9' = 0 /\ (s1 # "task" => s7' <= 2)
              ELSE /\ s9' > s9 => \A u \in DOMAIN s5 : s5[u].pc = "idle"
                   /\ Cardinality({u \in DOMAIN s5 : s5'[u].pc # "idle"}) <= 1 /\ s13' = {}
        \/ part = "health" /\ Health!Next /\ UNCHANGED <<s16, s17, s18, s19, s20>>
        \/ part = "flow" /\ Flow!Next /\ UNCHANGED <<s13, s14, s15, s16, s17, s18, s19, s20>>
        \/ part = "clients" /\ Clients!Next /\ UNCHANGED <<s11, s12, s13, s14, s15, s16, s17, s18, s19, s20>>
        \/ /\ part = "pool" /\ Pool!Next
           /\ \A r \in {2, 3} : s12'[r] # "look" => s12'[r - 1] # "look"
           /\ IF OneBackend THEN s5' = 0 /\ (s12'[3] # "look" => s12[1] = "over") ELSE s1' = 0 /\ s12'[3] = "look"
        \/ /\ part = "rate" /\ Rate!Next /\ UNCHANGED <<s16, s17, s18, s19, s20>>
           /\ IF mode = "both" THEN s13' = 0
              ELSE s11'["e"].rate # "client" /\ \A c \in {1, 2} : s9'[c].op = "write"
ServerSpec == ServerInit /\ [][ServerNext]_<<part, mode, vars, slots>>

-----------------------------------------------------------------------------
(* What has to come to an end.  Every part has the fairness of its module; *)
(* a part does not change, so that one condition serves several of them.   *)
EndsInit ==
  /\ Quiet /\ mode = Off
  /\ \/ part = "udp" /\ Udp!Init /\ OffFrom(18)
     \/ part = "socks" /\ Socks!Init /\ OffFrom(19)
     \/ part = "http" /\ Http!Init /\ OffFrom(17)
UdpDo(A) == part = "udp" /\ A /\ UNCHANGED <<s18, s19, s20>>
SocksDo(A) == part = "socks" /\ A /\ UNCHANGED <<s19, s20>>
HttpDo(A) == part = "http" /\ A /\ UNCHANGED <<s17, s18, s19, s20>>
EndsNext ==
  /\ UNCHANGED <<part, mode, vars>>
  /\ \/ UdpDo(Udp!Next) \/ SocksDo(Socks!Next)
     \/ HttpDo(Http!Next /\ (s1 # {"https"} => s11' = s11))
EndsFairness ==
  /\ WF_slots(UdpDo(Udp!sessionForPacket \/ Udp!handleUDPPacket)
              \/ SocksDo(Socks!enqueue) \/ HttpDo(Http!initServer))
  /\ WF_slots(UdpDo(s16 # "idle" /\ Udp!Close) \/ SocksDo(s17 # "idle" /\ Socks!Close)
              \/ HttpDo(Http!AcceptQueued))
  /\ WF_slots(SocksDo(Socks!readLoopEnds) \/ HttpDo(Http!runRuntimeServers))
  /\ WF_slots(SocksDo(s13 /\ Socks!cleanupLoop) \/ HttpDo(Http!closeRuntimeServers))
  /\ WF_slots(HttpDo(Http!StartReturns))
  /\ \A s \in 1..2 : WF_slots(UdpDo(Udp!WorkerSteps(s))) /\ WF_slots(UdpDo(Udp!startUDPBackchannel(s)))
                     /\ WF_slots(UdpDo(Udp!closeConn(s)))
  /\ \A s \in {"s", "t"} : WF_slots(SocksDo((s2[s] # "wait" \/ s3[s] # "no") /\ Socks!HandlerSteps(s)))
                     /\ WF_slots(SocksDo(Socks!SessionClose(s))) /\ WF_slots(SocksDo(Socks!LoopEnds(s)))
  /\ \A s \in Http!Servers : WF_slots(HttpDo((s3[s] = "starting" \/ s2[s] = "closed") /\ Http!Serve(s)))
  /\ \A c \in {"c", "d"} : WF_slots(HttpDo(Http!Deliver(c)))
  /\ \A c \in Http!Closers : WF_slots(HttpDo(Http!CloseSteps(c)))
  /\ WF_slots(HttpDo(Http!dispatchHandleQUIC("q"))) /\ WF_slots(HttpDo(Http!serveBridgeQUIC("q")))
  /\ WF_slots(HttpDo(Http!SocketEnds("q")))
EndsSpec == EndsInit /\ [][EndsNext]_<<part, mode, vars, slots>> /\ EndsFairness

-----------------------------------------------------------------------------
(* Services: what listens belongs to a tunnel in the run list or to one     *)
(* that is being started or stopped (TunnelTasks); traffic is not counted   *)
(* twice by concurrent refreshes, and one flow session runs at a time       *)
(* (FlowRefresh); after a reload the special clients and the keys of the    *)
(* runtime are those of the configuration (ServerClients).                  *)
ServicesSound ==
  /\ part = "tasks" => Tasks!ListenerHasTunnel
  /\ part = "flow" => Flow!NotCountedTwice /\ Flow!OneSession
  /\ part = "clients" => Clients!KeysFollowConfig
(* What clients publish: a task, a file or a host has exactly the owners    *)
(* that published it and did not leave, and they are picked in turn         *)
(* (RuntimeOwners); the targets that are picked follow their health checks  *)
(* (TargetHealth).                                                          *)
OwnersSound ==
  /\ part = "owners" => Owners!OwnersExact /\ Owners!FairTurns
  /\ part = "health" => Health!ListFollowsHealth
(* Kept connections: a request that began after an edit of its host uses a  *)
(* connection of the new one (BackendPool).                                 *)
FreshUsesCurrent == part = "pool" => Pool!FreshUsesCurrent
(* Rate limits: bytes are not passed on ahead of their time (RateLimiter).  *)
PaceKept == part = "rate" => Rate!PaceKept

(* UDP: a worker that is over leaves nothing (UdpServer), and the registry  *)
(* of SOCKS5 associations answers for exactly the live ones                 *)
(* (UdpAssociations).                                                       *)
UdpSound ==
  /\ part = "udp" => Udp!WorkerLeavesNothing
  /\ part = "socks" => Socks!RegistryExact
(* A shutdown comes to its end: Close of a UDP tunnel returns, the          *)
(* associations of a closed SOCKS5 tunnel end, and when one HTTP server     *)
(* ends all of them do and Start returns; an HTTPS connection that was      *)
(* queued before the queue was closed is served or closed (https.go).       *)
ShutdownEnds ==
  /\ ( \/ part = "udp" /\ s16 = "wait"
       \/ part = "socks" /\ s17 # "idle"
       \/ part = "http" /\ (s6 \/ \E s \in Http!Servers : s3[s] = "ended") )
     ~> ( \/ part = "udp" /\ s16 = "returned"
          \/ part = "socks" /\ s17 = "returned" /\ \A s \in {"s", "t"} : s2[s] = "over" /\ s5[s] = {}
          \/ part = "http" /\ Http!Over )
  /\ (part = "http" /\ "c" \in s12) ~> (part = "http" /\ s11["c"] \in {"served", "closed"})
=============================================================================
