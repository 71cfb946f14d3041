------------------------------ MODULE MCBridge ------------------------------
EXTENDS BridgeP2P, Integers, TLC

(***************************************************************************)
(* The P2P sessions of the bridge, the runtime of a client, the choice     *)
(* among its nodes and the handshake, each in behaviours of its own: part  *)
(* says which.                                                             *)
(***************************************************************************)
VARIABLES part,
  rWork, entry, clients, nodes, open, rPc, cl, nd, detached, links, used, raced,
  nWork, nNodes, made, online, nodeList, last, ref, files, index, closed, nPc, cand, node, left, resolver,
  pruning, adding, snap, told,
  now, secure, on, hPc, env, kind, flag, hMade, items, uses, queue, owner, register, toggles

Rvars == <<rWork, entry, clients, nodes, open, rPc, cl, nd, detached, links, used, raced>>
Nvars == <<nWork, nNodes, made, online, nodeList, last, ref, files, index, closed, nPc, cand, node, left,
  resolver, pruning, adding, snap, told>>
Hvars == <<now, secure, on, hPc, env, kind, flag, hMade, items, uses, queue, owner, register, toggles>>

Off == "off"
ROff == rWork = Off /\ entry = Off /\ clients = Off /\ nodes = Off /\ open = Off /\ rPc = Off /\ cl = Off /\
  nd = Off /\ detached = Off /\ links = Off /\ used = Off /\ raced = Off
NOff == nWork = Off /\ nNodes = Off /\ made = Off /\ online = Off /\ nodeList = Off /\ last = Off /\
  ref = Off /\ files = Off /\ index = Off /\ closed = Off /\ nPc = Off /\ cand = Off /\ node = Off /\
  left = Off /\ resolver = Off /\ pruning = Off /\ adding = Off /\ snap = Off /\ told = Off
HOff == now = Off /\ secure = Off /\ on = Off /\ hPc = Off /\ env = Off /\ kind = Off /\ flag = Off /\
  hMade = Off /\ items = Off /\ uses = Off /\ queue = Off /\ owner = Off /\ register = Off /\ toggles = Off

-----------------------------------------------------------------------------
(* Two P2P sessions: one with every message, or both with a provider that  *)
(* never joins and a visitor that aborts, leaves or waits.                 *)
OneOrTwo ==
  { [sessions |-> {s}, talk |-> TRUE] : s \in {CHOOSE s \in Sessions : TRUE} }
  \cup { [sessions |-> Sessions, talk |-> FALSE] }
(* The sessions at rest, in the other parts. *)
Quiet == Init /\ work = CHOOSE w \in Workloads : TRUE

(* The npc's signal reconnects with its uuid; links are asked for while it *)
(* comes and goes; or two older npcs share the id.                         *)
Npc == {"m1", "t1", "m2"}
NpcKind == [c \in Npc |-> IF c = "t1" THEN "chan" ELSE "main"]
Reconnect ==
  [conns |-> Npc, uuid |-> [c \in Npc |-> "u"],
   after |-> [c \in Npc |-> IF c = "m2" THEN {"m1", "t1"} ELSE {}], ver |-> 6, links |-> 0]
TwoLinks ==
  [conns |-> {"m1", "t1"}, uuid |-> [c \in Npc |-> "u"], after |-> [c \in Npc |-> {}], ver |-> 6, links |-> 2]
TwoNodes ==
  [conns |-> Npc, uuid |-> [c \in Npc |-> IF c = "m2" THEN "v" ELSE "u"],
   after |-> [c \in Npc |-> {}], ver |-> 5, links |-> 0]
NpcLoads == {Reconnect, TwoLinks, TwoNodes}
R == INSTANCE BridgeRuntime WITH work <- rWork, pc <- rPc, Conns <- Npc, Kind <- NpcKind,
       Uuids <- {"u", "v"}, Workloads <- NpcLoads, None <- "nil"

(* A goroutine chooses a node, in Primary mode or a rotating one, or       *)
(* routes to files are published, resolved and withdrawn.                  *)
Load(keys, checkers, joins, rotate) ==
  [keys |-> keys, checkers |-> checkers, joins |-> joins, rotate |-> rotate, closes |-> TRUE]
NodeLoads == { Load({}, {"c"}, 2, FALSE), Load({}, {"c"}, 2, TRUE), Load({"f"}, {}, 1, FALSE) }
N == INSTANCE ClientNodes WITH work <- nWork, nodes <- nNodes, pc <- nPc, Uuids <- {"a", "b"},
       Keys <- {"f"}, Checkers <- {"c"}, Workloads <- NodeLoads, None <- "nil"

(* Two connections: of one client whose authenticator comes twice while    *)
(* time passes, or of two clients that ask for every kind of work.         *)
Flags == {"main", "chan", "config", "register", "visitor", "secret", "file", "resolve", "p2p", "session"}
H == INSTANCE BridgeHandshake WITH pc <- hPc, made <- hMade, Conns <- {"c1", "c2"}, Clients <- {1, 2},
       Special <- (2 :> "public"), Ttl <- 1, MaxTime <- 3, Skews <- {-1, 0, 1}, QueueCap <- 1, MaxToggles <- 1
Replayed ==
  /\ secure /\ toggles' = 0
  /\ \A c \in {"c1", "c2"} : hPc'[c] \notin Flags /\ env'[c].from < 2 /\ ~env'[c].legacy
Worked ==
  /\ now' = now
  /\ \A c \in {"c1", "c2"} : env'[c] = H!NoEnv \/ env'[c].ts = now

-----------------------------------------------------------------------------
MCInit ==
  \/ part = "p2p" /\ Init /\ ROff /\ NOff /\ HOff
  \/ part = "runtime" /\ Quiet /\ R!Init /\ NOff /\ HOff
  \/ part = "nodes" /\ Quiet /\ ROff /\ N!Init /\ HOff
  \/ part \in {"replay", "flags"} /\ Quiet /\ ROff /\ NOff /\ H!Init

MCNext ==
  \/ part = "p2p" /\ Next /\ UNCHANGED <<part, Rvars, Nvars, Hvars>>
  \/ part = "runtime" /\ R!Next /\ UNCHANGED <<part, vars, Nvars, Hvars>>
  \/ part = "nodes" /\ N!Next /\ UNCHANGED <<part, vars, Rvars, Hvars>>
  \/ part = "replay" /\ H!Next /\ Replayed /\ UNCHANGED <<part, vars, Rvars, Nvars>>
  \/ part = "flags" /\ H!Next /\ Worked /\ UNCHANGED <<part, vars, Rvars, Nvars>>

MCSpec == MCInit /\ [][MCNext]_<<part, vars, Rvars, Nvars, Hvars>>

-----------------------------------------------------------------------------
(* The properties of BridgeRuntime: no connection of the current runtime   *)
(* is lost, and a closed client is on its way out of the map.              *)
NotStranded == part = "runtime" => R!NotStranded /\ R!ClosedClientLeaves
(* The properties of ClientNodes: the pool has exactly the uuids with a    *)
(* node, and the reverse index of the file routes is exact.                *)
NodesExact == part = "nodes" => N!ListExact /\ N!IndexExact
(* The property of BridgeHandshake: an authenticator is accepted once.     *)
AcceptedOnce == part \in {"replay", "flags"} => H!AcceptedOnce
=============================================================================
