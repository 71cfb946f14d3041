--------------------------- MODULE BridgeRuntime ---------------------------
(***************************************************************************)
(* The server's runtime of one client id: the entry of Bridge.Client, the  *)
(* Client objects it held, their nodes and the connections of the nodes.   *)
(* An npc keeps a signal connection (WORK_MAIN) and a tunnel (WORK_CHAN)   *)
(* per uuid and reconnects with the same uuid.  Each connection is served  *)
(* by a goroutine that attaches it, waits until it closes and cleans up;   *)
(* Bridge.ping and SendLinkInfo prune nodes and delete clients meanwhile.  *)
(* The grace windows and retry budgets only delay a removal, so a removal  *)
(* they guard may happen at any time here.  A Client or Node object is     *)
(* named after the connection whose goroutine made it.                     *)
(***************************************************************************)
EXTENDS Integers, FiniteSets

CONSTANTS
    Conns,     \* the connections the npc makes
    Kind,      \* [connection -> "main" or "chan"]
    Uuids,     \* the uuids of the nodes
    Workloads, \* bounds of a behaviour, as records of
               \*   conns: the connections that are made,
               \*   uuid: [connection -> its node's uuid],
               \*   after: [connection -> those of earlier sessions],
               \*   ver: the protocol version of the npc,
               \*   links: how many link requests are sent
    None

Actors == Conns \cup {"ping", "link"}

VARIABLES
    work,     \* the member of Workloads this behaviour keeps to
    entry,    \* Bridge.Client[id]: a Client object or None
    clients,  \* the Client objects: closed, and the nodes by uuid
    nodes,    \* the Node objects: signal, tunnel
    open,     \* [connection -> "no", "open" or "closed"]
    pc,       \* [actor -> where its goroutine is]
    cl,       \* [actor -> the Client it works on]
    nd,       \* [actor -> the Node it works on]
    detached, \* [actor -> the nodes Client.Close handed it to close]
    links,    \* link requests made
    used,     \* the tunnel the link request goes through
    raced     \* history: connections attached to a runtime that was going away

linkVars == <<work, links, used>>
vars == <<entry, clients, nodes, open, pc, cl, nd, detached, linkVars, raced>>

Init ==
    /\ work \in Workloads
    /\ entry = None
    /\ clients = [k \in Conns |-> [closed |-> FALSE, nodes |-> [u \in Uuids |-> None]]]
    /\ nodes = [n \in Conns |-> [signal |-> None, tunnel |-> None]]
    /\ open = [c \in Conns |-> "no"]
    /\ pc = [a \in Actors |-> "idle"]
    /\ cl = [a \in Actors |-> None] /\ nd = [a \in Actors |-> None]
    /\ detached = [a \in Actors |-> {}]
    /\ links = 0 /\ used = None /\ raced = {}

-----------------------------------------------------------------------------
Live(c) == c # None /\ open[c] = "open"
IsOnline(n) == Live(nodes[n].tunnel) /\ Live(nodes[n].signal)

(* Node.isOfflineLocked for a client with a positive id. *)
IsOffline(n) ==
    IF work.ver < 5 THEN ~Live(nodes[n].tunnel) /\ ~Live(nodes[n].signal) ELSE ~IsOnline(n)

NodesOf(k) == {clients[k].nodes[u] : u \in Uuids} \ {None}
NodeCount(k) == Cardinality(NodesOf(k))

Closing(conns) == [c \in Conns |-> IF c \in conns THEN "closed" ELSE open[c]]
Goto(a, place) == pc' = [pc EXCEPT ![a] = place]

(* The same, forgetting the client and the node where the work is over. *)
Leave(a, place) ==
    LET over == place \in {"idle", "done", "del"} IN
    /\ Goto(a, place)
    /\ cl' = [cl EXCEPT ![a] = IF over THEN None ELSE @]
    /\ nd' = [nd EXCEPT ![a] = IF over THEN None ELSE @]

(* Node.closeLocked on a set of nodes. *)
CloseNodes(ns) ==
    /\ open' = Closing({nodes[n].signal : n \in ns} \cup {nodes[n].tunnel : n \in ns})
    /\ nodes' = [n \in Conns |->
                    IF n \in ns THEN [signal |-> None, tunnel |-> None] ELSE nodes[n]]

Held(c, node) == IF Kind[c] = "main" THEN node.signal ELSE node.tunnel

Attached(c, node) ==
    IF Kind[c] = "main" THEN [node EXCEPT !.signal = c] ELSE [node EXCEPT !.tunnel = c]

(* addSignal and addTunnel: the connection that was there is closed. *)
AttachTo(c, n) ==
    /\ open' = Closing({Held(c, nodes[n])} \ {c})
    /\ nodes' = [nodes EXCEPT ![n] = Attached(c, @)]

NewNode(c) == Attached(c, [signal |-> None, tunnel |-> None])

-----------------------------------------------------------------------------
(* handleMainWork and attachTunnelNode. *)

Connect(c) ==
    /\ c \in work.conns
    /\ open[c] = "no" /\ \A d \in work.after[c] \cap work.conns : open[d] # "no"
    /\ open' = [open EXCEPT ![c] = "open"]
    /\ Goto(c, "work")
    /\ UNCHANGED <<entry, clients, nodes, cl, nd, detached, linkVars, raced>>

(* loadOrStoreRuntimeClient: the new Client is stored or one is loaded. *)
LoadOrStore(c) ==
    /\ pc[c] = "work"
    /\ IF entry = None
       THEN /\ nodes' = [nodes EXCEPT ![c] = NewNode(c)]
            /\ clients' = [clients EXCEPT ![c].nodes[work.uuid[c]] = c]
            /\ entry' = c
            /\ cl' = [cl EXCEPT ![c] = c] /\ nd' = [nd EXCEPT ![c] = c]
            /\ Goto(c, "serve")
       ELSE /\ cl' = [cl EXCEPT ![c] = entry]
            /\ Goto(c, "prune")
            /\ UNCHANGED <<clients, nodes, nd, entry>>
    /\ UNCHANGED <<open, detached, linkVars, raced>>

(* RemoveOfflineNodesExcept: offline nodes that are due go one by one. *)
PruneOthers(c) ==
    /\ pc[c] = "prune"
    /\ \/ \E n \in NodesOf(cl[c]) :
            /\ work.uuid[n] # work.uuid[c] /\ IsOffline(n)
            /\ nd' = [nd EXCEPT ![c] = n] /\ Goto(c, "premove")
       \/ Goto(c, "lookup") /\ UNCHANGED nd
    /\ UNCHANGED <<entry, clients, nodes, open, cl, detached, linkVars, raced>>

(* GetNodeByUUID. *)
Lookup(c) ==
    /\ pc[c] = "lookup"
    /\ nd' = [nd EXCEPT ![c] = clients[cl[c]].nodes[work.uuid[c]]]
    /\ Goto(c, IF nd'[c] # None THEN "attach" ELSE "addnode")
    /\ UNCHANGED <<entry, clients, nodes, open, cl, detached, linkVars, raced>>

(* The client c is about to join is closed, replaced or being removed, or  *)
(* the node it found is no longer the client's.                            *)
GoingAway(c) ==
    \/ entry # cl[c] \/ clients[cl[c]].closed
    \/ \E a \in Actors : pc[a] = "delete" /\ cl[a] = cl[c]
    \/ pc[c] = "attach" /\ clients[cl[c]].nodes[work.uuid[c]] # nd[c]
NoteRace(c) == raced' = IF GoingAway(c) THEN raced \cup {c} ELSE raced

Attach(c) ==
    /\ pc[c] = "attach"
    /\ AttachTo(c, nd[c]) /\ NoteRace(c)
    /\ Goto(c, "serve")
    /\ UNCHANGED <<entry, clients, cl, nd, detached, linkVars>>

(* Client.AddNode: a node that appeared since the lookup takes the         *)
(* connection over, unless it is online and the npc is old.                *)
AddNode(c) ==
    /\ pc[c] = "addnode"
    /\ nd' = [nd EXCEPT ![c] = c]
    /\ LET n == clients[cl[c]].nodes[work.uuid[c]] IN
       IF n = None
       THEN /\ clients' = [clients EXCEPT ![cl[c]].nodes[work.uuid[c]] = c]
            /\ nodes' = [nodes EXCEPT ![c] = NewNode(c)]
            /\ UNCHANGED open
       ELSE IF IsOnline(n) /\ work.ver < 6
       THEN /\ open' = Closing({c})
            /\ UNCHANGED <<clients, nodes>>
       ELSE /\ open' = Closing({Held(c, nodes[n])})
            /\ nodes' = [nodes EXCEPT ![n] = Attached(c, @), ![c] = NewNode(c)]
            /\ UNCHANGED clients
    /\ NoteRace(c)
    /\ Goto(c, "serve")
    /\ UNCHANGED <<entry, cl, detached, linkVars>>

(* The network or the npc closes a connection. *)
Disconnect(c) ==
    /\ open[c] = "open" /\ pc[c] = "serve"
    /\ open' = Closing({c})
    /\ UNCHANGED <<entry, clients, nodes, pc, cl, nd, detached, linkVars, raced>>

-----------------------------------------------------------------------------
(* GetHealthFromClient and serveTunnelRuntime: the connection has ended.   *)
(* CloseIfSignalCurrent and CloseIfTunnelCurrent close the whole node.  An *)
(* npc older than version 5 has no goroutine on its tunnel.                *)
ServeEnds(c) ==
    /\ pc[c] = "serve" /\ open[c] = "closed"
    /\ IF Held(c, nodes[nd[c]]) = c /\ (Kind[c] = "main" \/ work.ver > 4)
       THEN CloseNodes({nd[c]}) /\ Leave(c, "remove")
       ELSE Leave(c, "done") /\ UNCHANGED <<nodes, open>>
    /\ UNCHANGED <<entry, clients, detached, linkVars, raced>>

(* Where an actor goes on after a cleanup and after pruning a node. *)
Finished(a) == IF a \in Conns THEN "done" ELSE "idle"
Resumes(a) == IF a \in Conns THEN "prune" ELSE IF a = "link" THEN "route" ELSE "idle"

(* Mutant: the node is dropped by uuid whatever node is current. *)
CloseAndRemoveByUuid(a) ==
    /\ pc[a] \in {"remove", "premove"}
    /\ LET u == work.uuid[nd[a]] IN
       IF IsOffline(nd[a])
       THEN /\ clients' = [clients EXCEPT ![cl[a]].nodes[u] = None]
            /\ Leave(a, IF pc[a] = "remove" THEN "close" ELSE "pclose")
       ELSE /\ Leave(a, IF pc[a] = "remove" THEN Finished(a) ELSE Resumes(a))
            /\ UNCHANGED clients
    /\ UNCHANGED <<entry, nodes, open, detached, linkVars, raced>>

(* closeAndRemoveNodeIfCurrent, under the client's lock. *)
CloseAndRemove(a) ==
    /\ pc[a] \in {"remove", "premove"}
    /\ LET u == work.uuid[nd[a]] IN
       IF clients[cl[a]].nodes[u] = nd[a] /\ IsOffline(nd[a])
       THEN /\ clients' = [clients EXCEPT ![cl[a]].nodes[u] = None]
            /\ Leave(a, IF pc[a] = "remove" THEN "close" ELSE "pclose")
       ELSE /\ Leave(a, IF pc[a] = "remove" THEN Finished(a) ELSE Resumes(a))
            /\ UNCHANGED clients
    /\ UNCHANGED <<entry, nodes, open, detached, linkVars, raced>>

(* ... and after it: node.Close and the hook. *)
CloseRemoved(a) ==
    /\ pc[a] \in {"close", "pclose"}
    /\ CloseNodes({nd[a]})
    /\ Leave(a, IF pc[a] = "close" THEN "empty" ELSE Resumes(a))
    /\ UNCHANGED <<entry, clients, detached, linkVars, raced>>

(* removeEmptyRuntimeClient: the count, then the CompareAndDelete. *)
RemoveEmpty(a) ==
    /\ pc[a] = "empty"
    /\ Leave(a, IF NodeCount(cl[a]) = 0 THEN "delete" ELSE Finished(a))
    /\ UNCHANGED <<entry, clients, nodes, open, detached, linkVars, raced>>

RemoveCurrentClient(a) ==
    /\ pc[a] = "delete"
    /\ entry' = IF entry = cl[a] THEN None ELSE entry
    /\ Leave(a, Finished(a))
    /\ UNCHANGED <<clients, nodes, open, detached, linkVars, raced>>

(* DelClient looks the id up again; Client.Close detaches the nodes. *)
DelClient(a) ==
    /\ pc[a] = "del"
    /\ IF entry = None THEN Goto(a, "idle") /\ UNCHANGED <<clients, detached, cl>>
       ELSE /\ cl' = [cl EXCEPT ![a] = entry]
            /\ IF clients[entry].closed
               THEN Goto(a, "delete") /\ UNCHANGED <<clients, detached>>
               ELSE /\ clients' = [clients EXCEPT ![entry] = [closed |-> TRUE, nodes |-> [u \in Uuids |-> None]]]
                    /\ detached' = [detached EXCEPT ![a] = NodesOf(entry)]
                    /\ Goto(a, "detached")
    /\ UNCHANGED <<entry, nodes, open, nd, linkVars, raced>>

CloseDetached(a) ==
    /\ pc[a] = "detached"
    /\ CloseNodes(detached[a])
    /\ detached' = [detached EXCEPT ![a] = {}]
    /\ Goto(a, "delete")
    /\ UNCHANGED <<entry, clients, cl, nd, linkVars, raced>>

-----------------------------------------------------------------------------
(* Bridge.ping on the client it finds: RemoveOfflineNodes, then an empty   *)
(* client is removed and one without an online node deleted.               *)

PingPrune ==
    /\ pc["ping"] = "idle" /\ entry # None
    /\ \E n \in NodesOf(entry) : IsOffline(n) /\ nd' = [nd EXCEPT !["ping"] = n]
    /\ cl' = [cl EXCEPT !["ping"] = entry]
    /\ Goto("ping", "premove")
    /\ UNCHANGED <<entry, clients, nodes, open, detached, linkVars, raced>>

PingEmpty ==
    /\ pc["ping"] = "idle" /\ entry # None /\ NodeCount(entry) = 0
    /\ cl' = [cl EXCEPT !["ping"] = entry]
    /\ Goto("ping", "empty")
    /\ UNCHANGED <<entry, clients, nodes, open, nd, detached, linkVars, raced>>

PingUnavailable ==
    /\ pc["ping"] = "idle" /\ entry # None
    /\ \A n \in NodesOf(entry) : IsOffline(n)
    /\ Goto("ping", "del")
    /\ UNCHANGED <<entry, clients, nodes, open, cl, nd, detached, linkVars, raced>>

-----------------------------------------------------------------------------
(* SendLinkInfo on the client it loaded. *)

LinkStart ==
    /\ pc["link"] = "idle" /\ entry # None /\ links < work.links
    /\ links' = links + 1
    /\ cl' = [cl EXCEPT !["link"] = entry]
    /\ Goto("link", "route")
    /\ UNCHANGED <<entry, clients, nodes, open, nd, detached, work, used, raced>>

(* An offline node is pruned by CheckNode, or closed first by              *)
(* pruneUnavailableClientNode, which then looks for an empty client.       *)
LinkPrune ==
    /\ pc["link"] = "route"
    /\ \E n \in NodesOf(cl["link"]) :
        /\ IsOffline(n) /\ nd' = [nd EXCEPT !["link"] = n]
        /\ \/ Goto("link", "premove") /\ UNCHANGED <<nodes, open>>
           \/ Goto("link", "remove") /\ CloseNodes({n})
    /\ UNCHANGED <<entry, clients, cl, detached, linkVars, raced>>

(* clientNodeUnavailable. *)
LinkUnavailable ==
    /\ pc["link"] = "route"
    /\ \A n \in NodesOf(cl["link"]) : IsOffline(n)
    /\ Leave("link", "del")
    /\ UNCHANGED <<entry, clients, nodes, open, detached, linkVars, raced>>

LinkSend ==
    /\ pc["link"] = "route"
    /\ \E n \in NodesOf(cl["link"]) :
        /\ ~IsOffline(n) /\ nodes[n].tunnel # None
        /\ IF work.ver > 5
           THEN /\ nd' = [nd EXCEPT !["link"] = n] /\ used' = nodes[n].tunnel
                /\ Goto("link", "ack") /\ UNCHANGED cl
           ELSE Leave("link", "idle") /\ UNCHANGED used
    /\ UNCHANGED <<entry, clients, nodes, open, detached, work, links, raced>>

(* closeNodeOnLinkAckFailure closes the node if it still has that tunnel. *)
LinkAck ==
    /\ pc["link"] = "ack"
    /\ \/ Leave("link", "idle") /\ UNCHANGED <<nodes, open>>
       \/ /\ nodes[nd["link"]].tunnel = used
          /\ Leave("link", "remove") /\ CloseNodes({nd["link"]})
    /\ used' = None
    /\ UNCHANGED <<entry, clients, detached, work, links, raced>>

-----------------------------------------------------------------------------
Serve(c) ==
    \/ LoadOrStore(c) \/ PruneOthers(c) \/ Lookup(c) \/ Attach(c)
    \/ AddNode(c) \/ ServeEnds(c)
CleanUp(a) ==
    \/ CloseAndRemove(a) \/ CloseRemoved(a) \/ RemoveEmpty(a)
    \/ RemoveCurrentClient(a) \/ DelClient(a) \/ CloseDetached(a)

Ping == PingPrune \/ PingEmpty \/ PingUnavailable
Link == LinkPrune \/ LinkUnavailable \/ LinkSend \/ LinkAck

Next ==
    \/ \E c \in Conns : Connect(c) \/ Serve(c) \/ Disconnect(c)
    \/ \E a \in Actors : CleanUp(a)
    \/ Ping \/ LinkStart \/ Link

Spec == Init /\ [][Next]_vars

-----------------------------------------------------------------------------

(* A closed client is in Bridge.Client only while the goroutine that       *)
(* closed it is on its way to take it out, however the deletions of ping   *)
(* and of a link, the reconnects and the cleanups overlap.                 *)
ClosedClientLeaves ==
    entry # None /\ clients[entry].closed =>
        \E a \in Actors : pc[a] \in {"detached", "delete"} /\ cl[a] = entry

Reachable(c) ==
    /\ entry # None
    /\ LET n == clients[entry].nodes[work.uuid[c]] IN n # None /\ Held(c, nodes[n]) = c

BeingClosed(c) ==
    \E a \in Actors : \E n \in Conns :
        /\ Held(c, nodes[n]) = c
        /\ n \in detached[a] \/ (pc[a] \in {"close", "pclose"} /\ n = nd[a])

(* An attached open connection can be routed to through Bridge.Client, or  *)
(* is about to be closed, unless the client or node it was attached to was *)
(* going away at that moment: cleanup, ping and links together never lose  *)
(* a connection of the current runtime.                                    *)
NotStranded ==
    \A c \in Conns :
        pc[c] = "serve" /\ open[c] = "open" /\ c \notin raced =>
            Reachable(c) \/ BeingClosed(c)

=============================================================================
