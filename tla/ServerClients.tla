---------------------------- MODULE ServerClients ----------------------------
EXTENDS Integers, Sequences, FiniteSets, FiniteSetsExt

(***************************************************************************)
(* The clients the server itself keeps from its configuration (public_vkey,*)
(* visitor_vkey, local proxy), their reconciliation when the configuration *)
(* is read again, the monitor that disconnects clients that may no longer  *)
(* be served, the removal of orphans after an import and what the closing  *)
(* of a client deletes.  A node's handshake is checked first and attached  *)
(* later; a goroutine per node.                                            *)
(***************************************************************************)
CONSTANTS Ids, Keys, Configs, Imports, MaxChanges

VARIABLES
  clients,    \* id -> record, id -1 the local proxy; the clients of the store
  lastId,     \* ClientIncreaseId
  tasks,      \* client -> kinds of resources it has: "kept", "noStore"
  online,     \* keys of bridge.Client
  attaching,  \* ids of nodes that passed the handshake and are not yet in the bridge
  published,  \* clients with an entry without service in the run list
  cfg,        \* servercfg.Current
  job,        \* the reload under way: [pc, left, cfg]
  synced,     \* a reload of cfg has run to its end, undisturbed (ghost)
  changes

vars == <<clients, lastId, tasks, online, attaching, published, cfg, job, synced, changes>>

None == ""
Local == -1
Known == DOMAIN clients
NoJob == [pc |-> "none", left |-> {}, cfg |-> [public |-> None, visitor |-> None, local |-> FALSE]]
Record(key, kind, label) == [key |-> key, kind |-> kind, label |-> label, on |-> TRUE, spent |-> FALSE]
Fresh == {lastId + 1} \intersect Ids
Holder(key) == {i \in Known : clients[i].key = key}
With(f, i, r) == [j \in DOMAIN f \union {i} |-> IF j = i THEN r ELSE f[j]]
Without(f, i) == [j \in DOMAIN f \ {i} |-> f[j]]

Init ==
  /\ cfg \in Configs
  /\ clients = <<>> /\ lastId = 0 /\ tasks = [i \in Ids \union {Local} |-> {}]
  /\ online = {} /\ attaching = {} /\ published = {}
  /\ job = [pc |-> "local", left |-> {}, cfg |-> cfg]
  /\ synced = FALSE /\ changes = 0

Changes == changes < MaxChanges /\ changes' = changes + 1
store == <<clients, lastId, tasks>>
bridge == <<online, attaching>>

-----------------------------------------------------------------------------
(* desiredRuntimeVKeyLabels: one client if the two keys are the same. *)
Desired(c) ==
  LET pub == IF c.public = None THEN <<>> ELSE [k \in {c.public} |-> "public_vkey"]
      vis == IF c.visitor = None THEN <<>> ELSE [k \in {c.visitor} |-> "visitor_vkey"]
  IN [k \in DOMAIN pub \union DOMAIN vis |-> IF k \in DOMAIN pub THEN pub[k] ELSE vis[k]]

(* isManagedRuntimeVKeyClient. *)
Managed(i) == clients[i].kind = "special" /\ clients[i].label \in {"public_vkey", "visitor_vkey"}

(* applyRuntimeVKeyPublication. *)
Publication(i, key, c) == published' = IF key = c.public THEN published \union {i} ELSE published \ {i}

(* What DelClient of the bridge has the server delete, for a client that   *)
(* is not hidden: resources that are not stored, and the client itself if  *)
(* it is not stored.                                                       *)
HandleCloseClient(i, cs, ts) ==
  [clients |-> IF i \in DOMAIN cs /\ cs[i].kind = "config" THEN Without(cs, i) ELSE cs,
   tasks |-> [ts EXCEPT ![i] = IF i \in DOMAIN cs /\ cs[i].kind = "config" THEN {} ELSE @ \ {"noStore"}]]
DelBridgeClient(i) ==
  /\ online' = online \ {i}
  /\ IF i \in online /\ ~(i \in Known /\ clients[i].kind = "special")
       THEN LET r == HandleCloseClient(i, clients, tasks) IN clients' = r.clients /\ tasks' = r.tasks /\ UNCHANGED lastId
       ELSE UNCHANGED store

(* Reload: the new configuration is current before it is applied. *)
Reload(c) ==
  /\ Changes /\ job = NoJob /\ c # cfg
  /\ cfg' = c /\ synced' = FALSE
  /\ job' = [pc |-> "local", left |-> {}, cfg |-> c]
  /\ UNCHANGED <<store, bridge, published>>

EnsureLocalProxy ==
  /\ job.pc = "local"
  /\ IF job.cfg.local
       THEN /\ clients' = IF Local \in Known THEN clients ELSE With(clients, Local, Record("localproxy", "local", None))
            /\ UNCHANGED <<tasks, published>>
       ELSE /\ clients' = Without(clients, Local)
            /\ tasks' = [tasks EXCEPT ![Local] = {}]
            /\ published' = published \ {Local}
  /\ job' = [job EXCEPT !.pc = "reconcile", !.left = Known \ {Local}]
  /\ UNCHANGED <<lastId, bridge, cfg, synced, changes>>

removeRuntimeVKeyClient(i) ==
  /\ online' = online \ {i}
  /\ published' = published \ {i}
  /\ clients' = Without(clients, i)
  /\ tasks' = [tasks EXCEPT ![i] = {}]
  /\ UNCHANGED lastId

(* reconcileStoredVKeyClients, one client of the range at a time. *)
Reconcile(i) ==
  LET want == Desired(job.cfg) IN
  /\ job.pc = "reconcile" /\ i \in job.left
  /\ job' = [job EXCEPT !.left = @ \ {i}]
  /\ IF i \notin Known \/ ~Managed(i) THEN UNCHANGED <<store, online, published>>
     ELSE IF clients[i].key \in DOMAIN want
       THEN /\ clients' = [clients EXCEPT ![i].label = want[clients[i].key]]
            /\ Publication(i, clients[i].key, job.cfg)
            /\ UNCHANGED <<lastId, tasks, online>>
       ELSE removeRuntimeVKeyClient(i)
  /\ UNCHANGED <<attaching, cfg, synced, changes>>
Reconciled ==
  /\ job.pc = "reconcile" /\ job.left = {}
  /\ job' = [job EXCEPT !.pc = "publish", !.left = DOMAIN Desired(job.cfg)]
  /\ UNCHANGED <<store, bridge, published, cfg, synced, changes>>

(* A key another client has is left to it. *)
ensureVKeyClient(key, label) ==
  \/ \E i \in Holder(key) :
       /\ clients' = IF clients[i].kind = "special" THEN [clients EXCEPT ![i].label = label] ELSE clients
       /\ UNCHANGED <<lastId, published>>
  \/ /\ Holder(key) = {} /\ Fresh # {}
     /\ clients' = With(clients, lastId + 1, Record(key, "special", label))
     /\ Publication(lastId + 1, key, job.cfg)
     /\ lastId' = lastId + 1

(* publishDesiredVKeyClients. *)
Ensure(key) ==
  /\ job.pc = "publish" /\ key \in job.left
  /\ job' = [job EXCEPT !.left = @ \ {key}]
  /\ ensureVKeyClient(key, Desired(job.cfg)[key])
  /\ UNCHANGED <<tasks, bridge, cfg, synced, changes>>
ReloadEnds ==
  /\ job.pc = "publish" /\ job.left = {}
  /\ job' = NoJob /\ synced' = TRUE
  /\ UNCHANGED <<store, bridge, published, cfg, changes>>

-----------------------------------------------------------------------------
(* Clients of the store.                                                   *)

(* "config": a client made through the public key, not stored. *)
NewClient(key, kind) ==
  /\ Changes /\ Holder(key) = {} /\ Fresh # {}
  /\ clients' = With(clients, lastId + 1, Record(key, kind, None))
  /\ tasks' = [tasks EXCEPT ![lastId + 1] = {"kept", "noStore"}]
  /\ lastId' = lastId + 1
  /\ UNCHANGED <<bridge, published, cfg, job, synced>>

(* Deleted through the API with its resources; the special ones are not shown. *)
DelClient(i) ==
  /\ Changes /\ i \in Known /\ clients[i].kind \in {"stored", "config"}
  /\ clients' = Without(clients, i)
  /\ tasks' = [tasks EXCEPT ![i] = {}]
  /\ online' = online \ {i}
  /\ UNCHANGED <<lastId, attaching, published, cfg, job, synced>>

ChangeStatus(i) ==
  /\ Changes /\ i \in Known /\ clients[i].kind \in {"stored", "config"}
  /\ clients' = [clients EXCEPT ![i].on = ~@]
  /\ UNCHANGED <<lastId, tasks, bridge, published, cfg, job, synced>>

(* The client or its user expires, or their traffic is used up. *)
Spends(i) ==
  /\ Changes /\ i \in Known /\ ~clients[i].spent
  /\ clients' = [clients EXCEPT ![i].spent = TRUE]
  /\ UNCHANGED <<lastId, tasks, bridge, published, cfg, job, synced>>

(* DisconnectOrphans: the ids of the bridge that the store does not know. *)
Orphans(on, known) == {i \in on : i > 0 /\ i \notin known}

(* An import: the store holds the clients of the snapshot only, and those  *)
(* online that it does not know are disconnected.  A special client it     *)
(* does not hold is missing until the next reload.                         *)
Import(s) ==
  /\ Changes /\ job = NoJob
  /\ clients' = s
  /\ tasks' = [i \in DOMAIN tasks |-> IF i \in DOMAIN s THEN tasks[i] \ {"noStore"} ELSE {}]
  /\ online' = online \ Orphans(online, DOMAIN s)
  /\ synced' = FALSE
  /\ lastId' = Max(DOMAIN s)
  /\ UNCHANGED <<attaching, published, cfg, job>>

-----------------------------------------------------------------------------
(* A node: the handshake reads the client's status, the main work puts it  *)
(* into the bridge; the hidden clients are refused.                        *)
Verified(i) ==
  /\ i \in Known /\ i \notin attaching \union online
  /\ clients[i].on /\ clients[i].kind \in {"stored", "config"}
  /\ attaching' = attaching \union {i}
  /\ UNCHANGED <<store, online, published, cfg, job, synced, changes>>
Attaches(i) ==
  /\ i \in attaching
  /\ attaching' = attaching \ {i}
  /\ online' = IF i \in Known /\ clients[i].kind = "special" THEN online ELSE online \union {i}
  /\ UNCHANGED <<store, published, cfg, job, synced, changes>>

shouldDisconnectClient(i) == ~clients[i].on \/ clients[i].spent
(* monitorClientLifecycle: each client of the store, every ten seconds. *)
Monitor(i) ==
  /\ i \in Known /\ i > 0 /\ i \in online
  /\ shouldDisconnectClient(i)
  /\ DelBridgeClient(i)
  /\ UNCHANGED <<attaching, published, cfg, job, synced, changes>>

ReloadSteps ==
  EnsureLocalProxy \/ (\E i \in Ids : Reconcile(i)) \/ Reconciled \/ (\E k \in Keys : Ensure(k)) \/ ReloadEnds

Next ==
  \/ \E c \in Configs : Reload(c)
  \/ ReloadSteps
  \/ \E k \in Keys, kind \in {"stored", "config"} : NewClient(k, kind)
  \/ \E i \in Ids : DelClient(i) \/ ChangeStatus(i) \/ Spends(i)
  \/ \E s \in Imports : Import(s)
  \/ \E i \in Ids : Verified(i) \/ Attaches(i) \/ Monitor(i)

(* The reload goes on; a node that passed the handshake is attached; the   *)
(* monitor's ticker ticks for ever.                                        *)
Spec == Init /\ [][Next]_vars /\ WF_vars(ReloadSteps) /\ \A i \in Ids : WF_vars(Attaches(i)) /\ WF_vars(Monitor(i))

-----------------------------------------------------------------------------
(* Once a reload has ended the clients kept for the keys are those the     *)
(* configuration names, each once, except where another client holds the   *)
(* key; the client of public_vkey is the one that is published.            *)
KeysFollowConfig ==
  synced =>
    LET mine == {i \in Known : clients[i].kind = "special"} IN
    /\ \A i, j \in mine : clients[i].key = clients[j].key => i = j
    /\ \A i \in mine : clients[i].key \in DOMAIN Desired(cfg) /\ clients[i].label = Desired(cfg)[clients[i].key]
    /\ {i \in mine : clients[i].key = cfg.public} = published \intersect mine
    /\ (Local \in Known) = cfg.local

=============================================================================
