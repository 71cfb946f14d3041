------------------------------ MODULE MCClient ------------------------------
EXTENDS PunchSession, TLC

(***************************************************************************)
(* The client: how it is launched and runs, and how two clients come to a   *)
(* direct path.  A behaviour is one of a single module, which part names,   *)
(* and mode what it is bounded to: PunchSession has its own variables, the  *)
(* others share the slots.                                                  *)
(***************************************************************************)
VARIABLES part, mode, s1, s2, s3, s4, s5, s6, s7, s8, s9, s10, s11, s12, s13, s14, s15, s16, s17, s18, s19, s20
slots == <<s1, s2, s3, s4, s5, s6, s7, s8, s9, s10, s11, s12, s13, s14, s15, s16, s17, s18, s19, s20>>
Off == "off"
(* The slots a part does not use. *)
OffFrom(n) ==
  /\ n <= 1 => s1 = Off /\ s2 = Off /\ s3 = Off /\ s4 = Off /\ s5 = Off /\ s6 = Off
  /\ n <= 7 => s7 = Off /\ s8 = Off /\ s9 = Off
  /\ n <= 10 => s10 = Off
  /\ n <= 11 => s11 = Off /\ s12 = Off
  /\ n <= 13 => s13 = Off /\ s14 = Off /\ s15 = Off /\ s16 = Off /\ s17 = Off /\ s18 = Off /\ s19 = Off /\ s20 = Off

-----------------------------------------------------------------------------
(* The visitor's requests: two of one local service, one that shares its   *)
(* provider, one that may fall back to the relay, one that has to.         *)
A(a, p) == [assoc |-> a, provider |-> p]
MCLocal == (1 :> "l" @@ 2 :> "l" @@ 3 :> "m" @@ 4 :> "f" @@ 5 :> "s")
MCShape == [l \in {"l", "m", "f", "s"} |-> [p2p |-> l # "s", secret |-> l \in {"f", "s"}]]
MCAnswers == ("l" :> {A("a", "p"), A("b", "p")} @@ "m" :> {A("a", "p"), A("c", "q")} @@ "f" :> {A("a", "p")} @@ "s" :> {})
Visit == INSTANCE P2PVisitor WITH objs <- s1, associations <- s2, bindings <- s3, peers <- s4,
  transports <- s5, tunnels <- s6, cache <- s7, req <- s8, expired <- s9, services <- s10, closing <- s11, late <- s12,
  Requests <- 1..5, LocalOf <- MCLocal, Shape <- MCShape, Answers <- MCAnswers, Modes <- {"quic", "kcp"},
  Preferred <- "quic", Faults <- {"punch", "resolve", "relay", "tunnel", "transport", "close"},
  MaxObjects <- 3, MaxTransports <- 2, MaxTunnels <- 2
Crew == [rebind |-> {1, 2, 3}, close |-> {1, 3}, relay |-> {4, 5}]
VisitPlan ==
  /\ \A q \in (1..5) \ Crew[mode] : s8'[q] = Visit!Idle
  /\ \A l \in DOMAIN MCShape : l \notin {MCLocal[q] : q \in Crew[mode]} => s10'[l] = "idle"
  /\ mode = "rebind" => /\ s12' = {} /\ s11' = "no" /\ s9' = {} /\ \A t \in DOMAIN s5' : s5'[t].state # "dead"
                        /\ s10' # s10 => \A q \in 1..5 : s8[q] = Visit!Idle
  /\ mode = "close" => s9' = {}
  /\ mode # "relay" => s6' = <<>>

(* The provider's messages. *)
M(k, a, p, v, o, ts) == [kind |-> k, assoc |-> a, provider |-> p, visitor |-> v, open |-> o, targets |-> ts]
Provide == INSTANCE P2PProvider WITH peerOf <- s1, policy <- s2, seen <- s3, session <- s4, channel <- s5, alive <- s6,
  Self <- "self", Targets <- {"x", "y", "file"}, Modes <- {"quic", "kcp"}, Channels <- {1}, MaxMessages <- 3,
  Messages <- {M("bind", "a", "self", "v", FALSE, {"x"}), M("start", "a", "self", "v", FALSE, {"y"}),
               M("start", "b", "self", "w", FALSE, {"x"}), M("bind", "a", "other", "v", TRUE, {}),
               M("bind", "b", "self", "w", FALSE, {})}

(* The sockets of a punch, and the plan it follows. *)
Sockets == INSTANCE PunchRuntime WITH step <- s1, probe <- s2, sock <- s3, attempt <- s4, mapping <- s5,
  renewal <- s6, cleanup <- s7, peerHas <- s8, workers <- s9, owned <- s10, stopped <- s11, spray <- s12,
  round <- s13, loop <- s14, settled <- s15, channel <- s16, deadline <- s17, result <- s18, stray <- s19, revived <- s20,
  Families <- {"v4", "v6"}, Mapped <- {"v4"}, Birthday <- ("v4" :> 2 @@ "v6" :> 0), SprayRounds <- 2,
  Faults <- {"listen", "probe", "bridge", "go"}
Policy(g, f, b, i, d, r) ==
  [given |-> g, force |-> f, spray |-> TRUE, birthday |-> b, interval |-> i, delay |-> d, retry |-> r]
Punch == INSTANCE PunchPlan WITH step <- s1, nat <- s2, base <- s3, answered <- s4, extra <- s5,
  tested <- s6, offsets <- s7, obs <- s8, plan <- s9, stages <- s10,
  Endpoints <- <<<<1, 1>>, <<1, 2>>, <<2, 1>>>>,
  Nats <- {[mapping |-> m, stride |-> d, filters |-> f, pool |-> p] :
             m \in {"independent", "address", "endpoint"}, d \in {1, 5}, f \in BOOLEAN, p \in {1, 2}},
  Policies <- {Policy(FALSE, FALSE, FALSE, 0, 0, 0), Policy(TRUE, FALSE, TRUE, 3, 200, 500), Policy(TRUE, TRUE, FALSE, 3, 20, 0)},
  Histories <- {<<>>, <<2, 7>>}, Scores <- {0-16, 24}, Bases <- {4, 18}, MaxPort <- 20, MaxInterval <- 8,
  MaxStep <- 6, Span <- 6, Timeouts <- {7, 5000}

-----------------------------------------------------------------------------
(* The client's runs: the file servers of a configuration, or one of them,  *)
(* the channels of one run, and two runs of a command line around a loss.   *)
Run == INSTANCE ClientRuntime WITH kind <- s1, mode <- s2, reconnect <- s3, parent <- s4, pc <- s5, run <- s6,
  stage <- s7, conn <- s8, use <- s9, session <- s10, client <- s11, accept <- s12, monitor <- s13, join <- s14,
  channel <- s15, files <- s16, starter <- s17, shut <- s18, status <- s19, crashed <- s20,
  Kinds <- {"mux", "quic", "legacy"}, Modes <- {"config", "command"}, Tasks <- {1, 2}, MaxRuns <- 2, MaxChannels <- 1
RunInit ==
  /\ Run!Init
  /\ \/ mode \in {"files", "serve"} /\ s2 = "config" /\ s1 = "mux" /\ s3
     \/ mode = "channel" /\ s2 = "command" /\ s1 = "mux" /\ ~s3
     \/ mode = "loss" /\ s2 = "command"
RunPlan ==
  /\ mode # "channel" => \A r \in 1..2 : s15'[r].count = 0 /\ s14'[r] = "none"
  /\ mode # "loss" => s6' < 2
  /\ mode = "serve" => \A r \in 1..2 : s17'[r][2] = "idle"
  /\ s11'[2].mux = "none" /\ s11'[2].sig = "none"
(* The launch inputs: a link to a bundle of two, local servers, what does not resolve, and a wrapped pair. *)
NoRuntime == [k \in {"auto_reconnect"} |-> "none"]
Profile(n, m, nodes, src) ==
  [name |-> n, direct |-> IF m = "direct" THEN "good" ELSE "none", config |-> IF m = "config" THEN "good" ELSE "none",
   local |-> "none", nodes |-> nodes, source |-> src, reconnect |-> TRUE]
Several(ps) == [direct |-> "none", config |-> "none", local |-> "none", profiles |-> ps, runtime |-> NoRuntime,
                nodes |-> <<>>, source |-> "none", reconnect |-> TRUE]
Local(v) == [Several(<<>>) EXCEPT !.local = v, !.nodes = <<"quic">>]
Json(s) == [form |-> "json", spec |-> s]
Start == INSTANCE NpcLaunch WITH inputs <- s1, flags <- s2, runtime <- s3, cancelled <- s4, stopped <- s5, sup <- s6,
  runner <- s7, child <- s8, told <- s9, looks <- s10, Inputs <- {1, 2}, Answers <- {"ok", "gone", "busy"},
  Settings <- {"auto_reconnect"}, ResolveDepth <- 6, SourceDepth <- 4, MaxFetches <- 2, Sources <- [cfg |-> "more", more |-> "none"],
  Launches <- {<<"url", "none">>, <<"loc", "none">>, <<"bad", "none">>, <<"none1", "none">>, <<"odd", "none">>, <<"b64", "set">>},
  Documents <-
    [url |-> [form |-> "url", to |-> "npc"], npc |-> [form |-> "npc", to |-> "two", runtime |-> NoRuntime],
     two |-> Json(Several(<<Profile("p", "direct", <<"quic", "mux">>, "none"), Profile("q", "config", <<"quic">>, "cfg")>>)),
     loc |-> Json(Local("good")), bad |-> Json(Local("bad")), none1 |-> [form |-> "file", to |-> "none"],
     b64 |-> [form |-> "npc", to |-> "loc", runtime |-> [k \in {"auto_reconnect"} |-> "off"]],
     odd |-> Json([Several(<<>>) EXCEPT !.config = "senseless", !.nodes = <<"quic">>]),
     set |-> Json(Several(<<Profile("s", "config", <<"wait">>, "none"), Profile("t", "config", <<"mux">>, "none"),
                            Profile("u", "config", <<"quic">>, "none")>>))]
-----------------------------------------------------------------------------
(* A punch: one path with losses, timeouts and ageing, or two paths that    *)
(* are nominated in turn, where a packet without effect stays unread.       *)
HandshakePlan ==
  /\ mode = "age" => \A m \in net' : m.path = 1
  /\ mode = "epochs" =>
       /\ "failed" \notin {outcome'[s] : s \in Peers}
       /\ ~(net' \subseteq net /\ UNCHANGED <<phase, cmVars, visitorVars, inbound, reader, endVars>>)
       /\ \A f \in Families, x \in Paths :
            /\ cand[f][x] # "none" => cand'[f][x] # "none"
            /\ cand[f][x] # "closed" /\ confirmed'[<<"visitor", f>>] = 0 => cand'[f][x] # "closed"

RunDo(step) == part = "run" /\ ~s20 /\ step /\ RunPlan /\ UNCHANGED <<part, mode, vars>>
StartDo(step) == part = "launch" /\ step /\ UNCHANGED <<part, mode, vars, s11, s12, s13, s14, s15, s16, s17, s18, s19, s20>>
ClientInit ==
  \/ part = "punch" /\ Init /\ mode \in {"age", "epochs"} /\ OffFrom(1)
  \/ /\ Init
     /\ \/ part = "visit" /\ Visit!Init /\ mode \in DOMAIN Crew /\ OffFrom(13)
        \/ part = "provide" /\ Provide!Init /\ mode = Off /\ OffFrom(7)
        \/ part = "sockets" /\ Sockets!Init /\ mode = Off
        \/ part = "plan" /\ Punch!Init /\ mode = Off /\ OffFrom(11)
        \/ part = "run" /\ RunInit /\ mode # "serve"
        \/ part = "launch" /\ Start!Init /\ mode = Off /\ OffFrom(11)
ClientNext ==
  \/ RunDo(Run!Next) \/ StartDo(Start!Next)
  \/ part = "punch" /\ Next /\ HandshakePlan /\ UNCHANGED <<part, mode, slots>>
  \/ /\ UNCHANGED <<part, mode, vars>>
     /\ \/ part = "visit" /\ Visit!Next /\ VisitPlan /\ UNCHANGED <<s13, s14, s15, s16, s17, s18, s19, s20>>
        \/ /\ part = "provide" /\ Provide!Next
           /\ UNCHANGED <<s7, s8, s9, s10, s11, s12, s13, s14, s15, s16, s17, s18, s19, s20>>
        \/ part = "sockets" /\ Sockets!Next
        \/ /\ part = "plan" /\ Punch!Next /\ UNCHANGED <<s11, s12, s13, s14, s15, s16, s17, s18, s19, s20>>
           /\ s1' = "planned" => s9'.timeout = 5000 \/ (s3 = 4 /\ s7 = <<>>)
           /\ s1' = "sprayed" => s9.timeout = 5000
ClientSpec == ClientInit /\ [][ClientNext]_<<part, mode, vars, slots>>

-----------------------------------------------------------------------------
(* A pair that was given up may be nominated again once no reader is about to confirm it. *)
CoolingPlan ==
  \A f \in Families : cooling'[f] # cooling[f] /\ cooling'[f] \subseteq cooling[f] => \A x \in Paths : reader[<<"visitor", f, x>>].at # "confirm"

PunchDo(step) == part = "punch" /\ step /\ CoolingPlan /\ UNCHANGED <<part, mode, slots>>
EndsInit ==
  /\ Init
  /\ \/ part = "punch" /\ mode = Off /\ OffFrom(1)
     \/ part = "run" /\ RunInit /\ mode \in {"serve", "loss"}
     \/ part = "launch" /\ Start!Init /\ mode = Off /\ OffFrom(11)
EndsNext == RunDo(Run!Next) \/ StartDo(Start!Next) \/ PunchDo(Next)
(* Goroutines go on, delays and dials end, and READY is not lost for ever (there is one family). *)
EndsFairness ==
  LET all == <<part, mode, vars, slots>> IN
  /\ WF_all(RunDo(Run!LoopSteps))
  /\ \A i \in {1, 2} :
       /\ WF_all(RunDo(Run!AcceptSteps(i)) \/ StartDo(Start!Supervises(i)) \/ PunchDo(\E f \in Families : i \in Paths /\ Continues(f, i)))
       /\ WF_all(RunDo(Run!MonitorSteps(i)) \/ StartDo(Start!Returns(i)))
       /\ WF_all(RunDo(Run!FileSteps(i)) \/ StartDo(Start!RetryDue(i)))
       /\ WF_all(RunDo(Run!Shutdown(i)) \/ StartDo(Start!DialEnds(i)))
  /\ \A s \in Peers : WF_all(PunchDo(finalizeRuntimeHandover(s)))
  /\ \A f \in Families, x \in Paths, e \in 1..MaxEpoch : SF_all(PunchDo(Receives(Packet("provider", f, x, "ready", e))))
EndsSpec == EndsInit /\ [][EndsNext]_<<part, mode, vars, slots>> /\ EndsFairness

-----------------------------------------------------------------------------
(* The visitor: no transport is lost, a request reaches the provider it was *)
(* resolved to, and whoever waits for a dialer has one (P2PVisitor).        *)
VisitorSound == part = "visit" => Visit!NoTransportLost /\ Visit!ReachesItsProvider /\ Visit!WaiterHasDialer
(* The provider: an established transport survives the timers, and a        *)
(* visitor reaches what the messages grant it together (P2PProvider).       *)
ProviderSound == part = "provide" => Provide!EstablishedSurvivesTimers /\ Provide!ReachIsUnion
(* A punch: all sockets but the winner are closed, and a port mapping lives *)
(* as long as its socket (PunchRuntime); a NAT is classified right, the     *)
(* port it will use next is among those tried, and a second nomination has  *)
(* its time (PunchPlan).                                                    *)
PunchSound ==
  /\ part = "sockets" => Sockets!SocketsReleased /\ Sockets!MappingFollowsSocket
  /\ part = "plan" => Punch!ClassifiedRight /\ Punch!NextPortTried /\ Punch!SecondChance
(* What a run leaves behind: nothing of it meets the next one, a profile    *)
(* keeps its UUID, and only the operator ends a process that reconnects     *)
(* (ClientRuntime, NpcLaunch).                                              *)
RunsSound ==
  /\ part = "run" => Run!Released
  /\ part = "launch" => Start!UuidKept /\ Start!OnlyOperatorStops
(* A lost connection ends its run and a lost unit its bundle, and either is *)
(* begun again (ClientRuntime, NpcLaunch).                                  *)
LossRecovers ==
  /\ \/ part = "run" /\ Run!LossSeen(1)
     \/ part = "launch" /\ Start!LossSeen(1)
     ~> (part = "run" => Run!LossHandled(1)) /\ (part = "launch" => Start!LossHandled(1))
  /\ part = "launch" /\ Start!LossSeen(2) ~> (part = "launch" => Start!LossHandled(2))
=============================================================================
