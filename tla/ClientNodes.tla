---------------------------- MODULE ClientNodes ----------------------------
(***************************************************************************)
(* The nodes of one Client of the bridge: which is current, how a request  *)
(* chooses one (CheckNode, GetNode), and the file routes that name node    *)
(* uuids as owners.  A section under Client.mu is a step; the reads made   *)
(* outside it (nodes, nodeList, lastUUIDRef) are steps of their own.       *)
(* Pool.Next and Pool.Random may return any element of the list; a node    *)
(* that is offline may or may not be in a grace window.                    *)
(***************************************************************************)
EXTENDS Integers, FiniteSets

CONSTANTS
    Uuids,     \* node uuids
    Keys,      \* file route keys
    Checkers,  \* goroutines that choose a node
    Workloads, \* bounds of a behaviour, as records of
               \*   keys: the file route keys in use,
               \*   checkers: the goroutines that choose a node,
               \*   joins: how often a uuid joins,
               \*   rotate: ClientSelectMode is not Primary,
               \*   closes: whether DelClient closes the client
    None

VARIABLES
    work,      \* the member of Workloads this behaviour keeps to
    nodes,     \* [uuid -> the number of its current Node object, 0 for none]
    made,      \* [uuid -> how often it has joined]
    online,    \* [uuid -> whether the current node is online]
    nodeList,  \* the uuids of the pool
    last, ref, \* LastUUID, and lastUUIDRef that mirrors it
    files,     \* [key -> uuids that own the route]
    index,     \* fileOwnerKeys: [uuid -> keys]
    closed,
    pc, cand, node, left, \* of the checkers: place, uuid, Node, grace checks left
    resolver,  \* GetNodeByFile: its key, uuid, Node and place
    pruning,   \* removed nodes whose file mappings are still to be pruned
    adding,    \* [uuid -> the key AddFileOwner is adding, and for which Node]
    snap,      \* what snapshotCurrentNodeUUID has read
    told       \* history: routes AddFileOwner granted to a Node object

selVars == <<pc, cand, node, left>>
listVars == <<nodes, made, online, nodeList, last, ref, work, closed>>
fileVars == <<files, index>>
vars == <<listVars, fileVars, selVars, resolver, pruning, adding, snap, told>>

NoResolve == [place |-> "idle", key |-> None, uuid |-> None, node |-> 0]
NoAdd == [key |-> None, node |-> 0]

Init ==
    /\ work \in Workloads
    /\ \E u \in Uuids :
        /\ nodes = [v \in Uuids |-> IF v = u THEN 1 ELSE 0]
        /\ nodeList = {u} /\ last = u /\ ref = u
    /\ made = nodes
    /\ online = [u \in Uuids |-> nodes[u] # 0]
    /\ files = [k \in Keys |-> {}] /\ index = [u \in Uuids |-> {}]
    /\ closed = FALSE
    /\ pc = [c \in Checkers |-> "idle"] /\ cand = [c \in Checkers |-> None]
    /\ node = [c \in Checkers |-> 0] /\ left = [c \in Checkers |-> 0]
    /\ resolver = NoResolve /\ pruning = {} /\ told = {}
    /\ adding = [u \in Uuids |-> NoAdd]
    /\ snap = "none"

-----------------------------------------------------------------------------
(* assignCurrentNodeUUID. *)
Assign(u) == last' = u /\ ref' = u

(* advanceCurrentNodeLocked, after the list lost u. *)
Advance(u) ==
    IF last # u THEN UNCHANGED <<last, ref>>
    ELSE IF nodeList \ {u} = {} THEN Assign(None)
    ELSE \E v \in nodeList \ {u} : Assign(v)

(* Mutant: the uuid stays in the pool. *)
DropKeepsList(u) ==
    /\ nodes' = [nodes EXCEPT ![u] = 0]
    /\ online' = [online EXCEPT ![u] = FALSE]
    /\ nodeList' = nodeList
    /\ Advance(u)

(* dropNodeRuntimeLocked. *)
Drop(u) ==
    /\ nodes' = [nodes EXCEPT ![u] = 0]
    /\ online' = [online EXCEPT ![u] = FALSE]
    /\ nodeList' = nodeList \ {u}
    /\ Advance(u)

(* removeFileOwnerLocked with the reverse index. *)
RemoveOwner(ks, u) ==
    /\ files' = [k \in Keys |-> IF k \in ks THEN files[k] \ {u} ELSE files[k]]
    /\ index' = [index EXCEPT ![u] = @ \ {k \in ks : u \in files[k]}]

(* pruneFileMappings finds the keys through the index. *)
PruneFileMappings(u) == RemoveOwner(index[u], u)

IsCurrent(u, n) == n # 0 /\ nodes[u] = n

-----------------------------------------------------------------------------
(* The nodes come and go. *)

(* Client.AddNode: a new node, or the current one with new connections. *)
AddNode(u) ==
    /\ made[u] < work.joins /\ ~online[u]
    /\ made' = [made EXCEPT ![u] = @ + 1]
    /\ nodes' = [nodes EXCEPT ![u] = IF @ = 0 THEN made[u] + 1 ELSE @]
    /\ online' = [online EXCEPT ![u] = TRUE]
    /\ nodeList' = nodeList \cup {u}
    /\ Assign(u)
    /\ UNCHANGED <<work, closed, fileVars, selVars, resolver, pruning, adding, snap, told>>

Offline(u) ==
    /\ online[u]
    /\ online' = [online EXCEPT ![u] = FALSE]
    /\ UNCHANGED <<nodes, made, nodeList, last, ref, work, closed, fileVars, selVars, resolver, pruning, adding, snap, told>>

(* closeAndRemoveNodeIfCurrent from the cleanup of a connection or from    *)
(* ping; the file mappings follow after the unlock.                        *)
CloseAndRemove(u) ==
    /\ nodes[u] # 0 /\ ~online[u]
    /\ Drop(u)
    /\ pruning' = pruning \cup {<<u, nodes[u]>>}
    /\ UNCHANGED <<made, work, closed, fileVars, selVars, resolver, adding, snap, told>>

PruneRemoved(p) ==
    /\ p \in pruning
    /\ PruneFileMappings(p[1])
    /\ pruning' = pruning \ {p}
    /\ UNCHANGED <<listVars, selVars, resolver, adding, snap, told>>

(* Client.Close: detachNodesForClose. *)
Close ==
    /\ work.closes /\ ~closed /\ closed' = TRUE
    /\ nodes' = [u \in Uuids |-> 0] /\ online' = [u \in Uuids |-> FALSE]
    /\ nodeList' = {} /\ Assign(None)
    /\ files' = [k \in Keys |-> {}] /\ index' = [u \in Uuids |-> {}]
    /\ UNCHANGED <<made, work, selVars, resolver, pruning, adding, snap, told>>

-----------------------------------------------------------------------------
(* CheckNode and GetNode of checker c. *)

Move(c, place) == pc' = [pc EXCEPT ![c] = place]
Choose(c, place, u) == Move(c, place) /\ cand' = [cand EXCEPT ![c] = u]
Return(c) ==
    /\ Move(c, "idle")
    /\ cand' = [cand EXCEPT ![c] = None] /\ node' = [node EXCEPT ![c] = 0]
    /\ left' = [left EXCEPT ![c] = 0]
KeepsClient == UNCHANGED <<listVars, fileVars>>
KeepsRest == UNCHANGED <<resolver, pruning, adding, snap, told>>

(* GetNode sets the uuid the mode gives before it checks. *)
GetNode(c) ==
    /\ c \in work.checkers /\ pc[c] = "idle" /\ nodeList # {}
    /\ IF work.rotate THEN \E u \in nodeList : Choose(c, "rotate", u)
       ELSE Move(c, "size") /\ UNCHANGED cand
    /\ KeepsClient /\ KeepsRest /\ UNCHANGED <<node, left>>

SetCurrent(c) ==
    /\ pc[c] \in {"rotate", "set"}
    /\ Assign(cand[c])
    /\ Move(c, IF pc[c] = "set" THEN "loop" ELSE "size")
    /\ KeepsRest
    /\ UNCHANGED <<nodes, made, online, nodeList, work, closed, fileVars, cand, node, left>>

(* The size of the list, and currentNodeIfOnline. *)
CheckNode(c) ==
    /\ pc[c] = "size"
    /\ IF nodeList = {} \/ (ref # None /\ online[ref])
       THEN Return(c)
       ELSE /\ Move(c, "loop")
            /\ left' = [left EXCEPT ![c] = Cardinality(nodeList)]
            /\ UNCHANGED <<cand, node>>
    /\ KeepsClient /\ KeepsRest

(* currentOrNextNodeUUID: the mirror, LastUUID, or the list's next. *)
CurrentOrNext(c) ==
    /\ pc[c] = "loop"
    /\ \/ ref # None /\ Choose(c, "eval", ref) /\ UNCHANGED <<node, left>>
       \/ ref = None /\ last # None /\ Choose(c, "mirror", last) /\ UNCHANGED <<node, left>>
       \/ /\ ref = None /\ last = None
          /\ \/ nodeList = {} /\ Return(c)
             \/ \E u \in nodeList : Choose(c, "adopt", u) /\ UNCHANGED <<node, left>>
    /\ KeepsClient /\ KeepsRest

Mirror(c) ==
    /\ pc[c] = "mirror"
    /\ ref' = IF ref = None THEN cand[c] ELSE ref
    /\ Move(c, "eval")
    /\ KeepsRest
    /\ UNCHANGED <<nodes, made, online, nodeList, last, work, closed, fileVars, cand, node, left>>

Adopt(c) ==
    /\ pc[c] = "adopt"
    /\ IF last = None THEN Assign(cand[c]) ELSE UNCHANGED <<last, ref>>
    /\ Choose(c, "eval", last')
    /\ KeepsRest
    /\ UNCHANGED <<nodes, made, online, nodeList, work, closed, fileVars, node, left>>

(* evaluateNodeCandidate. *)
Evaluate(c) ==
    /\ pc[c] = "eval"
    /\ LET u == cand[c] IN
       \/ nodes[u] = 0 /\ Move(c, "missing") /\ UNCHANGED <<cand, node, left>>
       \/ online[u] /\ Return(c)
       \/ /\ nodes[u] # 0 /\ ~online[u]   \* in a grace window
          /\ IF left[c] <= 1 THEN Return(c)
             ELSE /\ left' = [left EXCEPT ![c] = @ - 1]
                  /\ Move(c, "defer") /\ UNCHANGED <<cand, node>>
       \/ /\ nodes[u] # 0 /\ ~online[u]
          /\ node' = [node EXCEPT ![c] = nodes[u]]
          /\ Move(c, "prune") /\ UNCHANGED <<cand, left>>
    /\ KeepsClient /\ KeepsRest

(* nextDistinctNodeUUID. *)
NextDistinct(c) ==
    /\ pc[c] = "defer"
    /\ IF nodeList \ {cand[c]} = {} THEN Choose(c, "set", None)
       ELSE \E u \in nodeList \ {cand[c]} : Choose(c, "set", u)
    /\ KeepsClient /\ KeepsRest /\ UNCHANGED <<node, left>>

(* pruneMissingNodeUUID, and closeAndRemoveNodeIfCurrent. *)
Prune(c) ==
    /\ pc[c] \in {"missing", "prune"}
    /\ LET u == cand[c] IN
       IF IF pc[c] = "missing" THEN nodes[u] = 0 /\ u \in nodeList
                               ELSE IsCurrent(u, node[c]) /\ ~online[u]
       THEN Drop(u) /\ Move(c, "files")
       ELSE Move(c, "loop") /\ UNCHANGED <<nodes, online, nodeList, last, ref>>
    /\ KeepsRest /\ UNCHANGED <<made, work, closed, fileVars, cand, node, left>>

PruneFiles(c) ==
    /\ pc[c] = "files"
    /\ PruneFileMappings(cand[c])
    /\ Move(c, "loop")
    /\ KeepsRest /\ UNCHANGED <<listVars, cand, node, left>>

(* snapshotCurrentNodeUUID: the read under the lock, the store after it. *)
SnapshotRead ==
    /\ snap = "none" /\ snap' = last
    /\ KeepsClient /\ UNCHANGED <<selVars, resolver, pruning, adding, told>>

SnapshotStore ==
    /\ snap # "none" /\ snap' = "none"
    /\ ref' = snap
    /\ UNCHANGED <<nodes, made, online, nodeList, last, work, closed, fileVars, selVars, resolver, pruning, adding, told>>

-----------------------------------------------------------------------------
(* File routes. *)

(* AddFileOwner: the node is looked up, then the route changes under mu. *)
AddFileLookup(u, k) ==
    /\ k \in work.keys /\ adding[u] = NoAdd /\ nodes[u] # 0
    /\ adding' = [adding EXCEPT ![u] = [key |-> k, node |-> nodes[u]]]
    /\ KeepsClient /\ UNCHANGED <<selVars, resolver, pruning, snap, told>>

AddFileOwner(u) ==
    /\ adding[u] # NoAdd
    /\ LET k == adding[u].key IN
       /\ files' = [files EXCEPT ![k] = @ \cup {u}]
       /\ index' = [index EXCEPT ![u] = @ \cup {k}]
       /\ told' = told \cup {<<u, adding[u].node, k>>}
    /\ adding' = [adding EXCEPT ![u] = NoAdd]
    /\ UNCHANGED <<listVars, selVars, resolver, pruning, snap>>

(* RemoveFileOwner, when the task is rolled back or deleted. *)
RemoveFileOwner(u, k) ==
    /\ u \in files[k]
    /\ RemoveOwner({k}, u)
    /\ told' = {t \in told : t[1] # u \/ t[3] # k}
    /\ UNCHANGED <<listVars, selVars, resolver, pruning, adding, snap>>

(* GetNodeByFile: an owner, its evaluation, the removal of a bad one. *)
Resolve(k) ==
    /\ resolver = NoResolve
    /\ \E u \in files[k] :
        resolver' = [place |-> "eval", key |-> k, uuid |-> u, node |-> 0]
    /\ KeepsClient /\ UNCHANGED <<selVars, pruning, adding, snap, told>>

ResolveEvaluate ==
    /\ resolver.place = "eval"
    /\ LET u == resolver.uuid IN
       \/ nodes[u] = 0 /\ resolver' = [resolver EXCEPT !.place = "owner"]
       \/ nodes[u] # 0 /\ resolver' = NoResolve   \* online, or in the grace window
       \/ nodes[u] # 0 /\ ~online[u]
          /\ resolver' = [resolver EXCEPT !.place = "owner", !.node = nodes[u]]
    /\ KeepsClient /\ UNCHANGED <<selVars, pruning, adding, snap, told>>

ResolveRemoveOwner ==
    /\ resolver.place = "owner"
    /\ RemoveOwner({resolver.key}, resolver.uuid)
    /\ resolver' = [resolver EXCEPT !.place = "node"]
    /\ UNCHANGED <<listVars, selVars, pruning, adding, snap, told>>

ResolvePrune ==
    /\ resolver.place = "node"
    /\ LET u == resolver.uuid IN
       IF IsCurrent(u, resolver.node) /\ ~online[u]
       THEN Drop(u) /\ pruning' = pruning \cup {<<u, nodes[u]>>}
       ELSE UNCHANGED <<nodes, online, nodeList, last, ref, pruning>>
    /\ resolver' = NoResolve
    /\ UNCHANGED <<made, work, closed, fileVars, selVars, adding, snap, told>>

-----------------------------------------------------------------------------
Check(c) ==
    \/ SetCurrent(c) \/ CheckNode(c) \/ CurrentOrNext(c) \/ Mirror(c) \/ Adopt(c)
    \/ Evaluate(c) \/ NextDistinct(c) \/ Prune(c) \/ PruneFiles(c)
Snapshot == SnapshotRead \/ SnapshotStore
Route ==
    \/ \E u \in Uuids, k \in Keys : AddFileLookup(u, k) \/ RemoveFileOwner(u, k)
    \/ \E u \in Uuids : AddFileOwner(u)
    \/ \E k \in Keys : Resolve(k)
    \/ ResolveEvaluate \/ ResolveRemoveOwner \/ ResolvePrune

Next ==
    \/ \E u \in Uuids : AddNode(u) \/ Offline(u) \/ CloseAndRemove(u)
    \/ \E p \in pruning : PruneRemoved(p)
    \/ Close
    \/ \E c \in Checkers : GetNode(c) \/ Check(c)
    \/ Snapshot \/ Route

Spec == Init /\ [][Next]_vars

-----------------------------------------------------------------------------

(* The pool lists exactly the uuids that have a node, whichever of the     *)
(* removals, the joins and Client.Close overlap; NodeCount, which decides  *)
(* whether the client is empty, counts the pool.                           *)
ListExact == nodeList = {u \in Uuids : nodes[u] # 0}

(* fileOwnerKeys is the inverse of the owners of the routes: pruning the   *)
(* mappings of a removed node through it misses none.                      *)
IndexExact == \A k \in Keys, u \in Uuids : k \in index[u] <=> u \in files[k]

=============================================================================
