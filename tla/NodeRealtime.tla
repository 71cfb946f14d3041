---------------------------- MODULE NodeRealtime ----------------------------
(***************************************************************************)
(* The realtime channel of a node: management events recorded and then     *)
(* published through the event hub (web/routers/state.go), the session     *)
(* that carries them to one peer over a direct or a reverse WebSocket      *)
(* (web/routers/node_ws.go), and the invalidation of sessions after a      *)
(* configuration import (web/routers/node_ws_dispatch.go).  The peer is    *)
(* external: it follows the documented protocol, keeping a cursor, asking  *)
(* for the changes after it and synchronising fully when told to.          *)
(***************************************************************************)
EXTENDS Integers, Sequences, SequencesExt, FiniteSets

CONSTANTS
  Publishers,   \* goroutines reporting management events
  Classes,      \* classes of events that are reported: "durable", "live"
  Plans,        \* what is tried: the link and the bounds on its events and faults
  Buffer,       \* capacity of a subscription's channel (32 in the code)
  Retention,    \* length of the durable history
  Limit         \* page size of a changes query

VARIABLES
  plan,      \* the link ("direct" or "reverse") and the bounds seq, live, faults
  node,      \* boot, epoch, seq: identity and cursor; mixed: an import met an unpublished event
  pub,       \* what each publisher has recorded and not yet published
  sess,      \* the node's end of the connection
  sub,       \* the session's subscription at the hub
  down,      \* frames on their way to the peer
  up,        \* frames on their way to the node
  peer,      \* the peer's knowledge
  import,    \* "none", or how the import that reset the protocol state, not answered yet, was asked for
  live, faults

vars == <<plan, node, pub, sess, sub, down, up, peer, import, live, faults>>

link == plan.link
Idle == [class |-> "none", seq |-> 0]
NoSession == [open |-> FALSE, ready |-> FALSE, window |-> FALSE, skip |-> 0, loop |-> "none", auth |-> TRUE]
NoSub == [open |-> FALSE, ch |-> << >>, overflow |-> 0]
FreshSub == [open |-> TRUE, ch |-> << >>, overflow |-> 0]
Unsynced == [boot |-> 0, epoch |-> 0, conn |-> 0, from |-> 0, after |-> 0, have |-> {}, state |-> "off"]

Init ==
  /\ plan \in Plans
  /\ node = [boot |-> 1, epoch |-> 1, seq |-> 0, mixed |-> FALSE]
  /\ pub = [p \in Publishers |-> Idle]
  /\ sess = NoSession /\ sub = NoSub
  /\ down = << >> /\ up = << >>
  /\ peer = Unsynced
  /\ import = "none"
  /\ live = 0 /\ faults = 0

-----------------------------------------------------------------------------
(* The hub.                                                                *)

\* OnManagementEvent, first half: the log numbers the event; a live-only
\* event repeats the durable cursor.
Record(p) ==
  \E class \in Classes :
    /\ pub[p] = Idle
    /\ IF class = "durable"
       THEN /\ node.seq < plan.seq
            /\ node' = [node EXCEPT !.seq = @ + 1]
            /\ live' = live
       ELSE /\ live < plan.live
            /\ live' = live + 1
            /\ node' = node
    /\ pub' = [pub EXCEPT ![p] = [class |-> class, seq |-> node'.seq]]
    /\ UNCHANGED <<plan, sess, sub, down, up, peer, import, faults>>

\* removeSubscription: only a positive sequence number is remembered.
Overflowed(seq) == [sub EXCEPT !.open = FALSE, !.overflow = IF seq > 0 THEN seq ELSE @]

\* Publish: a send that would block ends the subscription instead.
Publish(p) ==
  /\ pub[p] # Idle
  /\ sub' = IF ~sub.open THEN sub
            ELSE IF Len(sub.ch) < Buffer THEN [sub EXCEPT !.ch = Append(@, pub[p])]
            ELSE Overflowed(pub[p].seq)
  /\ pub' = [pub EXCEPT ![p] = Idle]
  /\ UNCHANGED <<plan, node, sess, down, up, peer, import, live, faults>>

-----------------------------------------------------------------------------
(* The node's end of a session.                                            *)

\* The history holds the last Retention events of this epoch.
ChangesPage(after) ==
  LET oldest == IF node.seq > Retention THEN node.seq - Retention + 1 ELSE 1
      first  == IF after + 1 > oldest THEN after + 1 ELSE oldest
      last   == IF first + Limit - 1 < node.seq THEN first + Limit - 1 ELSE node.seq
  IN  [items  |-> first .. last,
       more   |-> last < node.seq,
       gap    |-> node.seq > 0 /\ after > 0 /\ after < oldest - 1,
       next   |-> IF last < node.seq THEN last ELSE node.seq,
       cursor |-> node.seq]

Frame(t) == [t |-> t, boot |-> node.boot, epoch |-> node.epoch, seq |-> node.seq, page |-> << >>, resync |-> FALSE]
Notice(t) == [t |-> t, boot |-> 0, epoch |-> 0, seq |-> 0, page |-> << >>, resync |-> FALSE]
Send(f) == down' = Append(down, f)
CloseConn ==
  /\ sess' = NoSession
  /\ sub' = NoSub
  /\ up' = << >>

\* connectAndServe / nodeWebSocketHandler: a reverse session subscribes
\* before its hello, a direct one after it.
Connect ==
  /\ ~sess.open /\ sub = NoSub /\ down = << >> /\ peer.state = "off"
  /\ sess' = [open |-> TRUE, ready |-> link = "direct", window |-> TRUE, skip |-> 0,
              loop |-> IF link = "reverse" THEN "runs" ELSE "none", auth |-> TRUE]
  /\ sub' = IF link = "reverse" THEN FreshSub ELSE NoSub
  /\ Send(Frame("hello"))
  /\ UNCHANGED <<plan, node, pub, up, peer, import, live, faults>>
DirectSubscribe ==
  /\ sess.open /\ link = "direct" /\ sess.loop = "none"
  /\ sess' = [sess EXCEPT !.loop = "runs"]
  /\ sub' = FreshSub
  /\ UNCHANGED <<plan, node, pub, down, up, peer, import, live, faults>>

\* The grace timer of runNodeReverseKeepaliveLoop.
Grace ==
  /\ sess.open /\ ~sess.ready
  /\ sess' = [sess EXCEPT !.ready = TRUE]
  /\ UNCHANGED <<plan, node, pub, sub, down, up, peer, import, live, faults>>

\* deliverEvent of the event loop.  The direct session refreshes its actor
\* before every event, the reverse one skips what its hello replayed.
Deliver ==
  /\ sess.open /\ sess.ready /\ sess.loop = "runs" /\ sub.ch # << >>
  /\ LET e == Head(sub.ch)
     IN  IF link = "direct" /\ ~sess.auth
         THEN Send(Notice("denied")) /\ CloseConn
         ELSE /\ sub' = [sub EXCEPT !.ch = Tail(@)]
              /\ up' = up
              /\ IF link = "reverse" /\ e.seq <= sess.skip
                 THEN UNCHANGED <<sess, down>>
                 ELSE /\ Send([Notice("event") EXCEPT !.seq = e.seq, !.page = e.class])
                      /\ sess' = [sess EXCEPT !.window = FALSE]
  /\ UNCHANGED <<plan, node, pub, peer, import, live, faults>>

\* The loop's end: the channel is drained; an overflow is announced and the
\* connection closed, any other end of the subscription is not.
LoopEnds ==
  /\ sess.open /\ sess.ready /\ sess.loop = "runs" /\ ~sub.open /\ sub.ch = << >>
  /\ IF sub.overflow > 0
     THEN Send(Notice("resync")) /\ CloseConn
     ELSE /\ sess' = [sess EXCEPT !.loop = "ended"]
          /\ UNCHANGED <<sub, down, up>>
  /\ UNCHANGED <<plan, node, pub, peer, import, live, faults>>

\* handleReverseHello: a replay page, and whether its reader must resync.
HelloAck(f) ==
  LET page == ChangesPage(f.after)
  IN  [Frame("ack") EXCEPT !.page = page, !.resync = f.boot # node.boot \/ page.gap]

\* The read loop: a direct session first refreshes the actor; hello is taken
\* only before realtime traffic; a request opens the event gate.
HandleFrame ==
  /\ sess.open /\ up # << >>
  /\ sess.loop # "none"
  /\ LET f == Head(up)
     IN  CASE link = "direct" /\ ~sess.auth -> Send(Notice("denied")) /\ CloseConn
           [] link = "direct" /\ sess.auth /\ f.t = "hello" ->
                Send(Notice("error")) /\ up' = Tail(up) /\ UNCHANGED <<sess, sub>>
           [] link = "reverse" /\ f.t = "hello" ->
                /\ up' = Tail(up)
                /\ sub' = sub
                /\ IF sess.window
                   THEN /\ Send(HelloAck(f))
                        /\ sess' = [sess EXCEPT !.skip = node.seq]
                   ELSE Send(Notice("error")) /\ sess' = sess
           [] sess.auth /\ f.t = "changes" ->
                /\ Send([Frame("page") EXCEPT !.page = ChangesPage(f.after)])
                /\ up' = Tail(up)
                /\ sess' = [sess EXCEPT !.window = FALSE, !.ready = TRUE]
                /\ sub' = sub
  /\ UNCHANGED <<plan, node, pub, peer, import, live, faults>>

-----------------------------------------------------------------------------
(* Faults and the import.                                                  *)

Fault ==
  /\ faults < plan.faults
  /\ faults' = faults + 1

\* The connection breaks: what is in flight is lost.
Lose ==
  /\ Fault /\ sess.open
  /\ CloseConn
  /\ down' = << >>
  /\ peer' = [peer EXCEPT !.state = "off"]
  /\ UNCHANGED <<plan, node, pub, import, live>>

\* The credentials of a direct session expire (nodeWSAuthRefresher.Refresh).
Expire ==
  /\ Fault /\ sess.open /\ link = "direct" /\ sess.auth
  /\ sess' = [sess EXCEPT !.auth = FALSE]
  /\ UNCHANGED <<plan, node, pub, sub, down, up, peer, import, live>>

\* The process restarts: a new boot id, a cursor that may have fallen back.
Restart ==
  /\ Fault
  /\ \E s \in 0 .. node.seq : node' = [node EXCEPT !.boot = @ + 1, !.seq = s]
  /\ CloseConn
  /\ down' = << >>
  /\ pub' = [p \in Publishers |-> Idle]
  /\ peer' = [peer EXCEPT !.state = "off"]
  /\ import' = "none"
  /\ UNCHANGED <<plan, live>>

\* executeNodeConfigImport on another connection: ResetProtocolState ends
\* every subscription without an overflow and empties the log.
ImportReset ==
  /\ Fault /\ import = "none"
  /\ import' \in {"http", "ws"}
  /\ node' = [node EXCEPT !.epoch = @ + 1, !.seq = 0, !.mixed = @ \/ \E p \in Publishers : pub[p].class = "durable"]
  /\ sub' = IF sub.open THEN [sub EXCEPT !.open = FALSE] ELSE sub
  /\ UNCHANGED <<plan, pub, sess, down, up, peer, live>>
\* The epoch the answer is taken to announce.  The HTTP handler has it at
\* hand; over a WebSocket it is decoded from a body whose payload is wrapped
\* in "data", which decodes without an error to a payload without an epoch;
\* an import inside a batch is not looked at either.
AnnouncedEpoch(via) == IF via = "http" THEN node.epoch ELSE 0
\* The response is written, then InvalidateAll reaches every session.
ImportAnswer ==
  /\ import # "none"
  /\ import' = "none"
  /\ IF AnnouncedEpoch(import) # 0 /\ sess.open THEN Send(Notice("epoch")) /\ CloseConn ELSE UNCHANGED <<sess, sub, down, up>>
  /\ UNCHANGED <<plan, node, pub, peer, live, faults>>

-----------------------------------------------------------------------------
(* The peer (external): the documented use of hello, changes and resync.   *)

FullSync(f) == [peer EXCEPT !.boot = f.boot, !.epoch = f.epoch, !.from = f.seq, !.after = f.seq, !.have = 1 .. f.seq]
Ask(after, boot) ==
  up' = Append(up, IF link = "reverse" /\ peer.state = "off"
                   THEN [t |-> "hello", after |-> after, boot |-> boot]
                   ELSE [t |-> "changes", after |-> after, boot |-> boot])
Known(f) == f.boot = peer.boot /\ f.epoch = peer.epoch

\* A page: its items are known now; more pages are asked for.
TakePage(p, page) ==
  LET q == [p EXCEPT !.have = @ \cup page.items]
  IN  IF page.more
      THEN /\ peer' = [q EXCEPT !.after = page.next, !.state = "paging"]
           /\ up' = Append(up, [t |-> "changes", after |-> page.next, boot |-> q.boot])
      ELSE /\ peer' = [q EXCEPT !.after = page.next, !.state = "live"]
           /\ up' = up

\* An answer from another configuration epoch than the session's hello, a
\* refused hello and the three closing frames all end the session; after a
\* change of epoch or a resync the peer starts from a full synchronisation.
Ends(f) == f.t \in {"resync", "epoch", "denied", "error"} \/ (f.t \in {"ack", "page"} /\ f.epoch # peer.conn)
PeerLeaves(f) ==
  /\ CloseConn
  /\ down' = << >>
  /\ peer' = [peer EXCEPT !.state = "off", !.boot = IF f.t \in {"denied", "error"} THEN @ ELSE 0]

PeerReceive ==
  /\ down # << >>
  /\ LET f == Head(down)
     IN  IF Ends(f) THEN PeerLeaves(f)
         ELSE /\ down' = Tail(down)
              /\ UNCHANGED <<sess, sub>>
              /\ CASE f.t = "hello" ->
                        LET p == IF Known(f) \/ link = "reverse" THEN peer ELSE FullSync(f)
                        IN  /\ peer' = [p EXCEPT !.state = "paging", !.conn = f.epoch]
                            /\ Ask(p.after, p.boot)
                   [] f.t \in {"ack", "page"} ->
                        IF f.resync \/ f.page.gap \/ ~Known(f)
                        THEN peer' = [FullSync(f) EXCEPT !.state = "live"] /\ up' = up
                        ELSE TakePage(peer, f.page)
                   [] f.t = "event" ->
                        /\ up' = up
                        /\ peer' = IF f.page # "durable" THEN peer
                                   ELSE [peer EXCEPT !.have = @ \cup {f.seq},
                                           !.after = IF peer.state = "live" /\ f.seq > @ THEN f.seq ELSE @]
  /\ UNCHANGED <<plan, node, pub, import, live, faults>>

NodeStep ==
  \/ \E p \in Publishers : Publish(p)
  \/ Connect \/ DirectSubscribe \/ Grace \/ Deliver \/ LoopEnds \/ HandleFrame \/ ImportAnswer

Next ==
  \/ \E p \in Publishers : Record(p)
  \/ NodeStep \/ PeerReceive
  \/ Lose \/ Expire \/ Restart \/ ImportReset

\* The node's goroutines and the peer run on; faults and events need not come.
Fairness ==
  /\ \A p \in Publishers : WF_vars(Publish(p))
  /\ WF_vars(Connect) /\ WF_vars(DirectSubscribe) /\ WF_vars(Grace) /\ WF_vars(Deliver)
  /\ WF_vars(LoopEnds) /\ WF_vars(HandleFrame) /\ WF_vars(ImportAnswer) /\ WF_vars(PeerReceive)

Spec == Init /\ [][Next]_vars /\ Fairness

-----------------------------------------------------------------------------
\* Two cases no frame reveals: an event recorded before an import and
\* published after it carries a number of the old log, and a history trimmed
\* beyond a cursor of zero is no gap (the query compares only after > 0).
Unrevealed == node.mixed \/ (peer.from = 0 /\ node.seq > Retention)
SameLife == peer.boot = node.boot /\ peer.epoch = node.epoch

(* A peer that follows the protocol never believes itself up to date while  *)
(* a durable change is missing: with its cursor at n it has every event up  *)
(* to n (Publish, skipUntilSequence, handleReverseHello, the order of       *)
(* hello, Subscribe and the replay).                                        *)
NoSilentGap ==
  ~Unrevealed /\ peer.state = "live" /\ SameLife => 1 .. peer.after \subseteq peer.have

=============================================================================
