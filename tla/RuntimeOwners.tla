---------------------------- MODULE RuntimeOwners ----------------------------
EXTENDS Integers, Sequences, FiniteSets

(***************************************************************************)
(* Several nodes of one client publish the same tunnel, file tunnel or     *)
(* host from their configuration files.  The record keeps a pool of owners *)
(* with what each of them published, shows the publication of one, and     *)
(* takes turns among them.  A publication that cannot be announced or      *)
(* answered is rolled back; a node that leaves takes its share with it.    *)
(***************************************************************************)
CONSTANTS Nodes, Kinds, MaxPublications, MaxLeaves, MaxSelects

VARIABLES
  kind,     \* what is published: "task", "file" or "host"
  obj,      \* the records made so far
  stored,   \* those in the store
  files,    \* nodes that own the file key of the client
  h,        \* node -> its configuration connection
  leaving,  \* node -> records found without owner, not yet deleted; or None
  pubs, leaves, selects,
  turn,     \* record -> the owners chosen since another one's last turn
  unfair,   \* an owner was chosen twice within the turn of another
  acked,    \* <<node, record>>: the publication was answered with success and the node has not left
  torn      \* records changed by somebody between a snapshot and its restoration, or by a node that had left

ghosts == <<turn, unfair, acked, torn>>
vars == <<kind, obj, stored, files, h, leaving, pubs, leaves, selects, ghosts>>

None == 0
Nobody == "nobody"

Pool(order, next, entry) == [order |-> order, next |-> next, entry |-> entry]
NoPool == Pool(<<>>, 0, [u \in Nodes |-> None])
NewRecord == [route |-> Nobody, pool |-> NoPool, shown |-> None]
Idle == [pc |-> "idle", o |-> None, p |-> None, added |-> FALSE, outer |-> NewRecord, inner |-> NewRecord]

InPool(q, u) == q.entry[u] # None
Owners(o) == {u \in Nodes : InPool(obj[o].pool, u)}

-----------------------------------------------------------------------------
(* runtimeOwnerPool.                                                       *)

set(q, u, p) ==
  LET order == IF InPool(q, u) THEN q.order ELSE Append(q.order, u) IN
  Pool(order, IF q.next >= Len(order) THEN 0 ELSE q.next, [q.entry EXCEPT ![u] = p])

Index(q, u) == CHOOSE i \in 1..Len(q.order) : q.order[i] = u
Without(s, i) == SubSeq(s, 1, i - 1) \o SubSeq(s, i + 1, Len(s))

(* next counts from 0. *)
remove(q, u) ==
  IF ~InPool(q, u) THEN q
  ELSE LET i == Index(q, u) - 1
           order == Without(q.order, i + 1)
           next == IF order = <<>> THEN 0
                   ELSE IF q.next > i THEN q.next - 1
                   ELSE IF q.next >= Len(order) THEN 0 ELSE q.next IN
       Pool(order, next, [q.entry EXCEPT ![u] = None])

selectNext(q) == [q EXCEPT !.next = (@ + 1) % Len(q.order)]

-----------------------------------------------------------------------------
(* The operations of a tunnel or host on its owners.                       *)

(* The first owner is shown, and one that is shown stays up to date. *)
BindRuntimeOwner(r, u, p) ==
  LET q == set(r.pool, u, p) IN
  IF r.pool.order = <<>> \/ r.route = u THEN [route |-> u, pool |-> q, shown |-> p]
  ELSE [r EXCEPT !.pool = q]

(* The record goes on showing the publication of the one that left. *)
RemoveRuntimeOwnerKeepsShown(r, u) ==
  LET q == remove(r.pool, u) IN
  IF ~InPool(r.pool, u) THEN r
  ELSE IF q.order = <<>> THEN [r EXCEPT !.route = Nobody, !.pool = NoPool]
  ELSE IF r.route # u THEN [r EXCEPT !.pool = q]
  ELSE [r EXCEPT !.route = Head(q.order), !.pool = q]

RemoveRuntimeOwner(r, u) ==
  LET q == remove(r.pool, u)
      first == Head(q.order) IN
  IF ~InPool(r.pool, u) THEN r
  ELSE IF q.order = <<>> THEN [r EXCEPT !.route = Nobody, !.pool = NoPool]
  ELSE IF r.route # u THEN [r EXCEPT !.pool = q]
  ELSE [route |-> first, pool |-> q, shown |-> q.entry[first]]

(* Update(snapshot), and RestoreRuntimeBinding. *)
Shows(r, snapshot) == [r EXCEPT !.shown = snapshot.shown]
RestoreRuntimeBinding(r, snapshot) == [r EXCEPT !.route = snapshot.route, !.pool = snapshot.pool]

Init ==
  /\ kind \in Kinds
  /\ obj = <<>> /\ stored = {} /\ files = {}
  /\ h = [u \in Nodes |-> Idle]
  /\ leaving = [u \in Nodes |-> {}]
  /\ pubs = 0 /\ leaves = 0 /\ selects = 0
  /\ turn = <<>> /\ unfair = FALSE /\ acked = {} /\ torn = {}

(* Another node is between its snapshot of o and the answer it may have to take back. *)
Watched(o, u) == \E v \in Nodes \ {u} : h[v].o = o /\ h[v].pc \notin {"idle", "outer"}
Spoils(u, os) == torn' = torn \union {o \in os : Watched(o, u)}

At(u, pc) == h[u].pc = pc
Goes(u, pc) == h' = [h EXCEPT ![u].pc = pc]
Ends(u) == h' = [h EXCEPT ![u] = Idle]
Others == UNCHANGED <<kind, leaving, pubs, leaves, selects>>

-----------------------------------------------------------------------------
(* The handler of a configuration connection.                              *)

(* prepareConfigTaskVariant enters the file owner; HasTunnel or HasHost looks for the record. *)
Publish(u) ==
  /\ At(u, "idle") /\ pubs < MaxPublications
  /\ pubs' = pubs + 1
  /\ files' = IF kind = "file" THEN files \union {u} ELSE files
  /\ LET r == [Idle EXCEPT !.p = pubs + 1, !.added = (kind = "file" /\ u \notin files)] IN
     \/ stored = {} /\ h' = [h EXCEPT ![u] = [r EXCEPT !.pc = "create"]]
     \/ \E o \in stored : h' = [h EXCEPT ![u] = [r EXCEPT !.pc = "outer", !.o = o]]
  /\ UNCHANGED <<kind, obj, stored, leaving, leaves, selects, ghosts>>

(* IsHostExist refuses a second host; NewTask takes a second tunnel. *)
Create(u) ==
  LET r == BindRuntimeOwner(NewRecord, u, h[u].p)
      o == Len(obj) + 1 IN
  /\ At(u, "create")
  /\ \/ /\ kind = "host" /\ stored # {}
        /\ Ends(u) /\ UNCHANGED <<obj, stored, turn>>
     \/ /\ kind = "host" => stored = {}
        /\ obj' = Append(obj, r)
        /\ stored' = stored \union {o}
        /\ turn' = Append(turn, [v \in Nodes |-> {}])
        /\ h' = [h EXCEPT ![u].o = o, ![u].pc = IF kind = "host" THEN "respondNew" ELSE "announceNew"]
  /\ UNCHANGED <<files, unfair, acked, torn>> /\ Others

DropsFile(u) == files' = IF h[u].added THEN files \ {u} ELSE files

(* The port is taken or the queue of events stays full: the record is deleted. *)
AnnounceNew(u) ==
  /\ At(u, "announceNew")
  /\ \/ Goes(u, "respondNew") /\ UNCHANGED <<stored, files>>
     \/ stored' = stored \ {h[u].o} /\ DropsFile(u) /\ Ends(u)
  /\ UNCHANGED <<obj, ghosts>> /\ Others

RespondNew(u) ==
  /\ At(u, "respondNew")
  /\ \/ Ends(u) /\ acked' = acked \union {<<u, h[u].o>>} /\ UNCHANGED <<stored, files>>
     \/ stored' = stored \ {h[u].o} /\ DropsFile(u) /\ Ends(u) /\ UNCHANGED acked
  /\ UNCHANGED <<obj, turn, unfair, torn>> /\ Others

(* publishNoStore...: a first snapshot for the roll-back of the answer. *)
Outer(u) ==
  /\ At(u, "outer")
  /\ h' = [h EXCEPT ![u].pc = "inner", ![u].outer = obj[h[u].o]]
  /\ UNCHANGED <<obj, stored, files, ghosts>> /\ Others

(* publishNoStore...Update: a second one for the roll-back of the announcement. *)
Inner(u) ==
  /\ At(u, "inner")
  /\ h' = [h EXCEPT ![u].pc = "bind", ![u].inner = obj[h[u].o]]
  /\ UNCHANGED <<obj, stored, files, ghosts>> /\ Others

Bind(u) ==
  LET o == h[u].o IN
  /\ At(u, "bind")
  /\ obj' = [obj EXCEPT ![o] = BindRuntimeOwner(@, u, h[u].p)]
  /\ turn' = IF u \in Owners(o) THEN turn ELSE [turn EXCEPT ![o][u] = {}]
  /\ Spoils(u, {o})
  /\ Goes(u, "announce")
  /\ UNCHANGED <<stored, files, unfair, acked>> /\ Others

Announce(u) ==
  /\ At(u, "announce")
  /\ \/ Goes(u, "respond") /\ UNCHANGED files
     \/ h' = [h EXCEPT ![u].pc = "update", ![u].outer = h[u].inner] /\ DropsFile(u)
  /\ UNCHANGED <<obj, stored, ghosts>> /\ Others

Respond(u) ==
  /\ At(u, "respond")
  /\ \/ Ends(u) /\ acked' = acked \union {<<u, h[u].o>>} /\ UNCHANGED files
     \/ Goes(u, "update") /\ DropsFile(u) /\ UNCHANGED acked
  /\ UNCHANGED <<obj, stored, turn, unfair, torn>> /\ Others

(* The roll-back: the content, then the owners. *)
Update(u) ==
  LET o == h[u].o IN
  /\ At(u, "update")
  /\ obj' = [obj EXCEPT ![o] = Shows(@, h[u].outer)]
  /\ Spoils(u, {o})
  /\ Goes(u, "restore")
  /\ UNCHANGED <<stored, files, turn, unfair, acked>> /\ Others

Restore(u) ==
  LET o == h[u].o IN
  /\ At(u, "restore")
  /\ obj' = [obj EXCEPT ![o] = RestoreRuntimeBinding(@, h[u].outer)]
  /\ turn' = [turn EXCEPT ![o] = [v \in Nodes |-> {}]]
  /\ Spoils(u, {o})
  /\ Ends(u)
  /\ UNCHANGED <<stored, files, unfair, acked>> /\ Others

-----------------------------------------------------------------------------
(* HandleCloseNode: the node is taken out of every record of the client,   *)
(* then those left without owner are deleted if they still are.            *)

RemovesNode(u) ==
  /\ leaves < MaxLeaves /\ leaving[u] = {}
  /\ leaves' = leaves + 1
  /\ obj' = [o \in DOMAIN obj |-> IF o \in stored THEN RemoveRuntimeOwner(obj[o], u) ELSE obj[o]]
  /\ leaving' = [leaving EXCEPT ![u] = {o \in stored : obj'[o].pool.order = <<>>}]
  /\ files' = files \ {u}
  /\ acked' = {a \in acked : a[1] # u}
  /\ torn' = torn \union {o \in stored : \E v \in Nodes : h[v].o = o /\ h[v].pc # "idle"}
  /\ UNCHANGED <<kind, stored, h, pubs, selects, turn, unfair>>

DeletesOwnerless(u) ==
  /\ leaving[u] # {}
  /\ stored' = stored \ {o \in leaving[u] : obj[o].pool.order = <<>>}
  /\ leaving' = [leaving EXCEPT ![u] = {}]
  /\ UNCHANGED <<kind, obj, files, h, pubs, leaves, selects, ghosts>>

-----------------------------------------------------------------------------
(* A connection of a visitor goes to the next owner.                       *)
SelectRuntimeRoute(o) ==
  LET q == obj[o].pool
      chosen == q.order[q.next + 1] IN
  /\ selects < MaxSelects /\ q.order # <<>>
  /\ selects' = selects + 1
  /\ obj' = [obj EXCEPT ![o].pool = selectNext(q)]
  /\ unfair' = (unfair \/ \E u \in Owners(o) : u # chosen /\ chosen \in turn[o][u])
  /\ turn' = [turn EXCEPT ![o] = [u \in Nodes |-> IF u = chosen THEN {} ELSE @[u] \union {chosen}]]
  /\ UNCHANGED <<kind, stored, files, h, leaving, pubs, leaves, acked, torn>>

Handler(u) ==
  \/ Publish(u) \/ Create(u) \/ AnnounceNew(u) \/ RespondNew(u)
  \/ Outer(u) \/ Inner(u) \/ Bind(u) \/ Announce(u) \/ Respond(u) \/ Update(u) \/ Restore(u)

Next ==
  \/ \E u \in Nodes : Handler(u) \/ RemovesNode(u) \/ DeletesOwnerless(u)
  \/ \E o \in stored : SelectRuntimeRoute(o)

Spec == Init /\ [][Next]_vars

-----------------------------------------------------------------------------
(* A record with owners shows what its route's owner published last, and   *)
(* has no owner but nodes whose publication was answered and that have not *)
(* left.  Excepted are records that somebody else changed between a        *)
(* snapshot and its restoration, and those a handler is working on.        *)
OwnersExact ==
  \A o \in stored \ torn :
    (\A u \in Nodes : h[u].o # o) =>
      LET r == obj[o] IN
      /\ Owners(o) = {u \in Nodes : <<u, o>> \in acked}
      /\ Owners(o) = {r.pool.order[i] : i \in 1..Len(r.pool.order)}
      /\ Owners(o) # {} => r.route \in Owners(o) /\ r.shown = r.pool.entry[r.route]

(* No owner is chosen twice between two turns of another that stayed. *)
FairTurns == ~unfair
=============================================================================
