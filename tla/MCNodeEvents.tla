---------------------------- MODULE MCNodeEvents ----------------------------
EXTENDS NodeRequests, Integers, TLC

(***************************************************************************)
(* Requests to a node and the events they cause.  A behaviour is one of a   *)
(* single module, which part names: NodeRequests has its own variables, the *)
(* others share the slots.                                                  *)
(***************************************************************************)
VARIABLES part, s1, s2, s3, s4, s5, s6, s7, s8, s9, s10, s11, s12, s13
slots == <<s1, s2, s3, s4, s5, s6, s7, s8, s9, s10, s11, s12, s13>>
Off == "off"
(* The slots a part does not use. *)
OffFrom(n) ==
  /\ n <= 1 => s1 = Off /\ s2 = Off /\ s3 = Off /\ s4 = Off /\ s5 = Off /\ s6 = Off
  /\ n <= 7 => s7 = Off
  /\ n <= 8 => s8 = Off /\ s9 = Off /\ s10 = Off
  /\ n <= 11 => s11 = Off
  /\ n <= 12 => s12 = Off
  /\ n <= 13 => s13 = Off

-----------------------------------------------------------------------------
(* Requests with one idempotency key. *)
W(b, h) == [kind |-> "write", key |-> TRUE, body |-> b, hang |-> h]
I(k) == [kind |-> "import", key |-> k, body |-> "a", hang |-> FALSE]
No == [W("a", FALSE) EXCEPT !.kind = "none"]
MCPlans ==
  {[ask |-> <<W("a", TRUE), W("a", FALSE), W("b", FALSE)>>, faults |-> 1],
   [ask |-> <<W("a", TRUE), W("a", FALSE), No>>, faults |-> 3],
   [ask |-> <<I(TRUE), I(FALSE), No>>, faults |-> 2],
   [ask |-> <<I(TRUE), W("a", FALSE), No>>, faults |-> 2]}

(* Events: the log, the sinks, the realtime link and the callbacks. *)
Admin == [admin |-> TRUE, platform |-> ""]
PlatformAdmin(p) == [admin |-> FALSE, platform |-> p]
MCSinkPlans ==
  {[sinks |-> {"webhook"}, actors |-> {Admin}, events |-> 3, writes |-> 1],
   [sinks |-> {"webhook"}, actors |-> {Admin}, events |-> 2, writes |-> 3],
   [sinks |-> {"webhook"}, actors |-> {Admin, PlatformAdmin("p"), PlatformAdmin("q")}, events |-> 1, writes |-> 2],
   [sinks |-> {"subscription"}, actors |-> {Admin}, events |-> 2, writes |-> 3]}
MCLinkPlans ==
  {[link |-> "direct", seq |-> 4, live |-> 0, faults |-> 0],
   [link |-> "direct", seq |-> 2, live |-> 0, faults |-> 1],
   [link |-> "direct", seq |-> 1, live |-> 0, faults |-> 2],
   [link |-> "reverse", seq |-> 2, live |-> 0, faults |-> 2],
   [link |-> "direct", seq |-> 1, live |-> 1, faults |-> 1],
   [link |-> "reverse", seq |-> 2, live |-> 1, faults |-> 0]}
MCCallbackPlans ==
  {[events |-> 3, faults |-> 6, requests |-> 0, crashes |-> 0],
   [events |-> 3, faults |-> 4, requests |-> 1, crashes |-> 0],
   [events |-> 3, faults |-> 3, requests |-> 0, crashes |-> 1]}
Log == INSTANCE NodeEventLog WITH log <- s1, task <- s2, writer <- s3, journal <- s4, disk <- s5,
  life <- s6, base <- s7,
  Crews <- {{1}, {1, 2}}, MaxEntries <- 1, MinRetention <- 1, MaxRetention <- 1, Limit <- 1, MaxSeq <- 3, MaxLives <- 2
Sinks == INSTANCE NodeSinks WITH plan <- s1, exist <- s2, log <- s3, pub <- s4, hooks <- s5, next <- s6,
  disk <- s7, signal <- s8, sync <- s9, workers <- s10, wsub <- s11, wloop <- s12, writes <- s13,
  Ids <- {"a", "b"}, Plans <- MCSinkPlans, Buffer <- 1, MaxHooks <- 1
Link == INSTANCE NodeRealtime WITH plan <- s1, node <- s2, pub <- s3, sess <- s4, sub <- s5, down <- s6,
  up <- s7, peer <- s8, import <- s9, live <- s10, faults <- s11,
  Publishers <- {1}, Classes <- {"durable", "live"}, Plans <- MCLinkPlans, Buffer <- 1, Retention <- 1, Limit <- 1
Calls == INSTANCE NodeCallbacks WITH plan <- s1, last <- s2, sub <- s3, worker <- s4, wake <- s5,
  items <- s6, nextID <- s7, flight <- s8, pending <- s9, disk <- s10, got <- s11, excused <- s12,
  Plans <- MCCallbackPlans, Buffer <- 1, QueueMax <- 2, RetryMax <- 1, Limit <- 1

-----------------------------------------------------------------------------
Quiet == Init /\ plan.faults = 1
MCInit ==
  \/ part = "requests" /\ Init /\ OffFrom(1)
  \/ part = "log" /\ Quiet /\ Log!Init /\ OffFrom(8)
  \/ part = "sinks" /\ Quiet /\ Sinks!Init
  \/ part = "link" /\ Quiet /\ Link!Init /\ OffFrom(12)
  \/ part = "calls" /\ Quiet /\ Calls!Init /\ OffFrom(13)
MCNext ==
  \/ part = "requests" /\ Next /\ UNCHANGED <<part, slots>>
  \/ /\ UNCHANGED <<part, vars>>
     /\ \/ part = "log" /\ Log!Next /\ UNCHANGED <<s8, s9, s10, s11, s12, s13>>
        \/ part = "sinks" /\ Sinks!Next
        \/ part = "link" /\ Link!Next /\ UNCHANGED <<s12, s13>>
        \/ part = "calls" /\ Calls!Next /\ UNCHANGED s13
MCSpec == MCInit /\ [][MCNext]_<<part, vars, slots>>

-----------------------------------------------------------------------------
(* Events arrive: a reader of the log that continues from a cursor loses no *)
(* event silently (query), a restart never hands out a cursor below one on  *)
(* disk (load), and a peer of the realtime link that believes itself up to  *)
(* date has every durable change (Publish, handleReverseHello).             *)
EventsDelivered ==
  /\ part = "log" => Log!ReplayComplete /\ Log!CursorSurvives
  /\ part = "link" => Link!NoSilentGap
(* The sinks: no enabled sink matches more than its last writer asked for   *)
(* (applyScrubPlanLocked), a running worker has the stored configuration    *)
(* (syncWorkers) and an event is posted to a webhook at most once; every    *)
(* event of a callback is delivered, queued, on its way or given up for a   *)
(* named reason, and the newest queue is what is stored (persistSnapshot).  *)
SinksSound ==
  /\ part = "sinks" => Sinks!ScopeKept /\ Sinks!WorkersFollowStore /\ Sinks!AttemptedOnce
  /\ part = "calls" => Calls!Accounted /\ Calls!NewestPersisted
=============================================================================
