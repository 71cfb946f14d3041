----------------------------- MODULE P2PProvider -----------------------------
(***************************************************************************)
(* The provider side of P2P in the client.  Messages of the server record  *)
(* what each visitor may reach; a punch start also runs a session that     *)
(* punches, listens on the punched socket, and must promote the visitor's  *)
(* transport before two timers end the attempt; the channels of a promoted *)
(* transport are checked against the visitor's grants and relayed.         *)
(***************************************************************************)
EXTENDS Integers, FiniteSets, Functions

CONSTANTS
  Self,          \* this client's uuid
  Messages,      \* [kind, assoc, provider, visitor, open, targets]: bind and punch-start messages of the server
  Targets,       \* what channels ask for
  Modes,         \* "quic", "kcp"
  Channels,
  MaxMessages

VARIABLES
  peerOf,        \* association -> visitor
  policy,        \* visitor -> [open, targets]: EffectivePolicy
  seen,          \* messages handled
  session,       \* association -> the session's state
  channel,       \* channel -> [pc, assoc, want, target]
  alive          \* the client's own context

vars == <<peerOf, policy, seen, session, channel, alive>>

Assocs == {m.assoc : m \in Messages}
Nothing == [open |-> FALSE, targets |-> {}]
With(f, k, v) == [x \in DOMAIN f \union {k} |-> IF x = k THEN v ELSE f[x]]

NoSession ==
  [pc |-> "none", mode |-> "kcp", ctx |-> FALSE, socket |-> FALSE, listener |-> FALSE, control |-> FALSE,
   timer |-> "off", watchdog |-> "off", pre |-> FALSE, told |-> {}]
Init ==
  /\ peerOf = <<>> /\ policy = <<>> /\ seen = {}
  /\ session = [a \in Assocs |-> NoSession]
  /\ channel = [c \in Channels |-> [pc |-> "none", assoc |-> "", want |-> "", target |-> FALSE]]
  /\ alive = TRUE

------------------------------------------------------------------------------
(* Grants.                                                                 *)

\* shouldRecordP2PAssociationBind, shouldRecordP2PPunchStart: only what names this client as the provider.
shouldRecord(m) == m.provider = Self
\* NormalizeP2PAccessPolicy: a whitelist without targets, and no policy at all, are open.
Normalize(p) == IF p.open \/ p.targets = {} THEN [open |-> TRUE, targets |-> {}] ELSE p
mergeP2PAccessGrant(current, grant) ==
  IF current = Nothing THEN grant
  ELSE IF current.open THEN current
  ELSE IF grant.open THEN grant
  ELSE [open |-> FALSE, targets |-> current.targets \union grant.targets]
PolicyOf(v) == IF v \in DOMAIN policy THEN policy[v] ELSE Nothing

\* RecordBind and RecordPunchStart: the association's visitor, and the visitor's grants enlarged.
Record(m) ==
  IF shouldRecord(m)
  THEN /\ peerOf' = With(peerOf, m.assoc, m.visitor)
       /\ policy' = With(policy, m.visitor,
                         mergeP2PAccessGrant(PolicyOf(m.visitor), Normalize([open |-> m.open, targets |-> m.targets])))
       /\ seen' = seen \union {m}
  ELSE UNCHANGED <<peerOf, policy>> /\ seen' = seen \union {m}

\* The main signal's messages; a punch start begins a session of its own.
Bind(m) ==
  /\ m \notin seen /\ Cardinality(seen) < MaxMessages /\ alive /\ m.kind = "bind"
  /\ Record(m) /\ UNCHANGED <<session, channel, alive>>
PunchStart(m) ==
  /\ m \notin seen /\ Cardinality(seen) < MaxMessages /\ alive /\ m.kind = "start"
  /\ session[m.assoc].pc \in {"none", "ended"}
  /\ Record(m)
  /\ session' = [session EXCEPT ![m.assoc] = [NoSession EXCEPT !.pc = "punch", !.control = TRUE]]
  /\ UNCHANGED <<channel, alive>>

\* p2pAccessPolicyAllows over the policy of the association's visitor; nothing recorded, nothing allowed.
Known(a) == a \in DOMAIN peerOf /\ PolicyOf(peerOf[a]) # Nothing
Allows(a, x) == Known(a) /\ LET p == PolicyOf(peerOf[a]) IN p.open \/ x \in p.targets

------------------------------------------------------------------------------
(* A session: clientP2PJoinRuntime.Run around ServeTransport.              *)

S(a) == session[a]
Sets(a, r) == session' = [session EXCEPT ![a] = r]
Rest == <<peerOf, policy, seen, channel, alive>>

\* openProviderPunchSession: a failure closes the control connection.
Punches(a) ==
  /\ S(a).pc = "punch"
  /\ \/ alive /\ \E m \in Modes : Sets(a, [S(a) EXCEPT !.pc = "setup", !.mode = m, !.socket = TRUE, !.ctx = TRUE,
                                                     !.timer = "armed", !.watchdog = "armed", !.told = @ \union {"start"}])
     \/ Sets(a, [S(a) EXCEPT !.pc = "ended", !.control = FALSE])
  /\ UNCHANGED Rest

\* lifecycle.Close, then Run's deferred closing of the socket and of the control connection.
ended(r) == [r EXCEPT !.pc = "ended", !.watchdog = IF @ = "armed" THEN "stopped" ELSE @, !.timer = IF @ = "armed" THEN "stopped" ELSE @,
                      !.pre = TRUE, !.listener = FALSE, !.ctx = FALSE, !.socket = FALSE, !.control = FALSE]
Told(r, what) == [r EXCEPT !.told = IF r.control THEN @ \union {what} ELSE @]

Setup(a) ==
  /\ S(a).pc = "setup"
  /\ \/ S(a).socket /\ Sets(a, [S(a) EXCEPT !.pc = "accept", !.listener = TRUE])
     \/ Sets(a, ended(Told(S(a), "fail")))
  /\ UNCHANGED Rest

\* The two timers run out apart from one another.
TimerFires(a) ==
  /\ S(a).timer = "armed" /\ Sets(a, [S(a) EXCEPT !.timer = "fired", !.ctx = FALSE]) /\ UNCHANGED Rest
WatchdogFires(a) ==
  /\ S(a).watchdog = "armed" /\ Sets(a, [S(a) EXCEPT !.watchdog = "fired", !.socket = FALSE]) /\ UNCHANGED Rest
\* bindKCPListener's goroutine.
ListenerFollows(a) ==
  /\ S(a).mode = "kcp" /\ S(a).listener /\ ~S(a).ctx /\ ~S(a).pre
  /\ Sets(a, [S(a) EXCEPT !.listener = FALSE, !.pre = TRUE]) /\ UNCHANGED Rest

\* One turn of the accept loop: the context seen over, an error, a stranger rejected, the visitor's transport.
Accepts(a) ==
  /\ S(a).pc = "accept"
  /\ \/ ~S(a).ctx /\ Sets(a, ended(S(a)))
     \/ ~(S(a).socket /\ S(a).listener /\ (S(a).mode = "quic" => S(a).ctx)) /\ Sets(a, ended(Told(S(a), "fail")))
     \/ S(a).socket /\ S(a).listener /\ Sets(a, [S(a) EXCEPT !.pc = "promote"])
  /\ UNCHANGED Rest

\* PromoteQUIC, PromoteKCP: each timer must still be stoppable; only then is the transport announced.
StopsLate(timer) == timer # "off"
Stops(timer) == timer = "armed"
Promotes(a) ==
  LET r == S(a) IN
  /\ \/ r.pc = "promote" /\ Sets(a, IF Stops(r.watchdog) THEN [r EXCEPT !.pc = "promote2", !.watchdog = "stopped"] ELSE ended(r))
     \/ r.pc = "promote2" /\ Sets(a, IF Stops(r.timer) THEN [r EXCEPT !.pc = "announce", !.timer = "stopped"] ELSE ended(r))
     \/ r.pc = "announce" /\ Sets(a, [Told(r, "established") EXCEPT !.pc = "serve", !.control = FALSE, !.pre = (r.mode = "kcp")])
  /\ UNCHANGED Rest

\* The serving ends with the transport; a QUIC one also ends with the context.
ServeEnds(a) ==
  /\ S(a).pc = "serve" /\ Sets(a, ended(S(a))) /\ UNCHANGED Rest

\* Run's own deadline closes a control connection that is still open; Close of the client ends every context.
ControlTimesOut(a) ==
  /\ S(a).control /\ Sets(a, [S(a) EXCEPT !.control = FALSE]) /\ UNCHANGED Rest
ClientCloses ==
  /\ alive /\ alive' = FALSE
  /\ session' = [a \in Assocs |-> [session[a] EXCEPT !.ctx = FALSE]]
  /\ UNCHANGED <<peerOf, policy, seen, channel>>

------------------------------------------------------------------------------
(* Channels of a promoted transport.                                       *)

C(c) == channel[c]
Moves(c, r) == channel' = [channel EXCEPT ![c] = r] /\ UNCHANGED <<peerOf, policy, seen, session, alive>>
Closed(c) == Moves(c, [C(c) EXCEPT !.pc = "closed"])

\* dispatchChannel and Prepare: the link is read and acknowledged, or the channel is closed; file and udp5 have handlers of their own.
Opens(c, a, x) ==
  /\ C(c).pc = "none" /\ S(a).pc = "serve"
  /\ Moves(c, [C(c) EXCEPT !.pc = "link", !.assoc = a, !.want = x])
Prepares(c) ==
  /\ C(c).pc = "link"
  /\ \/ Closed(c)
     \/ Moves(c, [C(c) EXCEPT !.pc = IF C(c).want = "file" THEN "special" ELSE "check"])
Authorize(c) ==
  /\ C(c).pc = "check"
  /\ IF Allows(C(c).assoc, C(c).want) THEN Moves(c, [C(c) EXCEPT !.pc = "dial"]) ELSE Closed(c)
\* A failed dial closes the channel, a result that cannot be written closes both ends.
Connect(c) ==
  \/ C(c).pc = "dial" /\ Closed(c)
  \/ C(c).pc = "dial" /\ Moves(c, [C(c) EXCEPT !.pc = "result", !.target = TRUE])
  \/ C(c).pc = "result" /\ Moves(c, [C(c) EXCEPT !.pc = "relay"])
  \/ C(c).pc = "result" /\ Moves(c, [C(c) EXCEPT !.pc = "closed", !.target = FALSE])
RelayEnds(c) ==
  C(c).pc \in {"relay", "special"} /\ Moves(c, [C(c) EXCEPT !.pc = "closed", !.target = FALSE])

Steps(a) == Punches(a) \/ Setup(a) \/ Accepts(a) \/ Promotes(a) \/ ServeEnds(a)
Around(a) == TimerFires(a) \/ WatchdogFires(a) \/ ListenerFollows(a) \/ ControlTimesOut(a)
Next ==
  \/ \E m \in Messages : Bind(m) \/ PunchStart(m)
  \/ \E a \in Assocs : Steps(a) \/ Around(a)
  \/ \E c \in Channels : Prepares(c) \/ Authorize(c) \/ Connect(c) \/ RelayEnds(c)
  \/ \E c \in Channels, a \in Assocs, x \in Targets : Opens(c, a, x)
  \/ ClientCloses
Spec == Init /\ [][Next]_vars

------------------------------------------------------------------------------
(* What must hold.                                                         *)

(* A transport announced to the server as established cannot be ended by   *)
(* the timers of the attempt: neither has fired nor can fire, so its       *)
(* socket is open for as long as it is served.                             *)
EstablishedSurvivesTimers ==
  \A a \in Assocs : "established" \in S(a).told \/ S(a).pc = "serve" =>
    /\ S(a).timer = "stopped" /\ S(a).watchdog = "stopped"
    /\ S(a).pc = "serve" => S(a).socket /\ (alive => S(a).ctx /\ S(a).listener)

(* The visitor's tunnels share one transport, so what its associations may *)
(* reach is what any of the messages recorded for that visitor grants, in  *)
(* whatever order they came, and nothing else; a channel that dials was    *)
(* granted its target.                                                     *)
Grants(m, x) == m.open \/ m.targets = {} \/ x \in m.targets
Granted(a, x) == \E m \in seen : shouldRecord(m) /\ m.visitor = peerOf[a] /\ Grants(m, x)
ReachIsUnion ==
  /\ \A a \in DOMAIN peerOf, x \in Targets : Allows(a, x) <=> Granted(a, x)
  /\ \A c \in Channels : C(c).pc \in {"dial", "result", "relay"} => Granted(C(c).assoc, C(c).want)
=============================================================================
