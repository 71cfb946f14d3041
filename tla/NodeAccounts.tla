---------------------------- MODULE NodeAccounts ----------------------------
(***************************************************************************)
(* The management requests that change users and clients: create, edit,    *)
(* clear, switch on or off, delete, kick, the traffic another system       *)
(* reports, and the synchronisation of the node.  A request copies the     *)
(* records it needs, changes its copies and stores each one whole; other   *)
(* requests run between any two of its steps.  A record that was stored    *)
(* from a copy that was out of date by then is torn.                       *)
(***************************************************************************)
EXTENDS Integers, FiniteSets, FiniteSetsExt, Sequences, SequencesExt

CONSTANTS Users, Clients,        \* ids, positive numbers
          Workers,
          UserEdits,             \* what a user may be set to: [on, max, limit, reset]
          ClientEdits,           \* and a client: [owner (Same: not given), managers, limit, reset]
          Reports,               \* traffic reports: sequences of clients, a unit each
          Ops,                   \* requests that are made
          MaxRequests, MaxFaults

Same == -1
None == [none |-> TRUE]
Idle == [op |-> "idle"]
VARIABLES
  users,     \* id -> [on, max, limit, flow, secret], or None
  clients,   \* id -> [owner, managers, on, limit, flow, traffic], or None
  issued,    \* ids of records that were given out
  services,  \* clients that have tunnels and hosts -> these have counted traffic
  online,    \* clients with a connection
  running,   \* the tunnels are started
  req,       \* worker -> the request at work
  behind,    \* worker -> records stored or deleted by others since it copied them
  torn,      \* records stored from a copy that was behind, or by half a request
  due,       \* record -> the traffic accepted for it since it was cleared
  requests, faults

vars == <<users, clients, issued, services, online, running, req, behind, torn, due, requests, faults>>
runtime == <<services, online, running>>

C(c) == <<"client", c>>
U(u) == <<"user", u>>
Live(table) == {i \in DOMAIN table : table[i] # None}
Owned(u) == {c \in Live(clients) : clients[c].owner = u}
Count(report, S) == Cardinality({i \in DOMAIN report : report[i] \in S})

NewUser(max) == [on |-> TRUE, max |-> max, limit |-> 0, flow |-> 0, secret |-> TRUE]

Init ==
  /\ users \in [Users -> {None, NewUser(0)}]
  /\ clients \in [Clients -> {None} \union
                   [owner : {0} \union Users, managers : {{}}, on : {TRUE}, limit : {0}, flow : {0}, traffic : {0}]]
  /\ issued = {U(u) : u \in Live(users)} \union {C(c) : c \in Live(clients)}
  /\ services = [c \in Live(clients) |-> TRUE]
  /\ online = Live(clients)
  /\ running = TRUE
  /\ req = [w \in Workers |-> Idle]
  /\ behind = [w \in Workers |-> {}]
  /\ torn = {}
  /\ due = [r \in {C(c) : c \in Clients} \union {U(u) : u \in Users} |-> 0]
  /\ requests = 0
  /\ faults = 0

-----------------------------------------------------------------------------
(* The store, as lib/file offers it: a record is replaced whole, if it is there. *)
Wrote(w, rs) == behind' = [x \in Workers |-> IF x = w THEN behind[x] \ rs ELSE behind[x] \union rs]
Copied(w, rs) == behind' = [behind EXCEPT ![w] = @ \ rs]
Tears(w, rs) == torn' = torn \union (rs \intersect behind[w])

SaveClient(w, c, copy) ==   \* its record is there
  /\ clients' = [clients EXCEPT ![c] = copy]
  /\ Wrote(w, {C(c)})
  /\ Tears(w, {C(c)})
SaveUser(w, u, copy) ==
  /\ users' = [users EXCEPT ![u] = copy]
  /\ Wrote(w, {U(u)})
  /\ Tears(w, {U(u)})

(* The copy of a client for changing it has its owner with it, without the owner's secrets. *)
cloneAttachedOwnerUser(u) == [users[u] EXCEPT !.secret = FALSE]

-----------------------------------------------------------------------------
(* Requests begin and end. *)
Begins(w, r) ==
  /\ req[w] = Idle
  /\ r.op \in Ops
  /\ requests < MaxRequests
  /\ requests' = requests + 1
  /\ req' = [req EXCEPT ![w] = r]
Goes(w, at) == req' = [req EXCEPT ![w].at = at]
Ends(w) == req' = [req EXCEPT ![w] = Idle]
At(w, op, at) == req[w] # Idle /\ req[w].op \in op /\ req[w].at = at

(* A record is gone by the time it is stored: the request ends, and what it has stored by then stays. *)
Fails(w, rs) ==
  /\ Ends(w)
  /\ torn' = torn \union rs
  /\ UNCHANGED <<users, clients, runtime, behind, due, issued, requests, faults>>

-----------------------------------------------------------------------------
(* The service for clients. *)
ensureUserCanAttachClientLate(u, c) == users[u].max > 0 => Cardinality(Owned(u) \ {c}) <= users[u].max
ensureUserCanAttachClient(u, c) == users[u].max > 0 => Cardinality(Owned(u) \ {c}) < users[u].max

resolveManagedUser(owner, c) == owner > 0 => users[owner] # None /\ ensureUserCanAttachClient(owner, c)

Bound(client, owner) ==   \* an owned client has no limit of its own
  IF owner > 0 THEN [client EXCEPT !.owner = owner, !.limit = 0] ELSE [client EXCEPT !.owner = 0]
sanitizeManagerUserIDs(ms, owner) == ms \ {owner}

Fresh(e) ==
  LET o == IF e.owner = Same THEN 0 ELSE e.owner IN
  Bound([owner |-> 0, managers |-> sanitizeManagerUserIDs(e.managers, o), on |-> TRUE, limit |-> e.limit, flow |-> 0,
         traffic |-> 0], o)
NodeCreateClient(w) ==
  \E c \in Clients, e \in ClientEdits :
     /\ C(c) \notin issued
     /\ issued' = issued \union {C(c)}   \* NextClientID
     /\ resolveManagedUser(IF e.owner = Same THEN 0 ELSE e.owner, c)
     /\ Begins(w, [op |-> "add", at |-> "save", c |-> c, copy |-> Fresh(e)])
     /\ Copied(w, {U(u) : u \in Users})
     /\ UNCHANGED <<users, clients, runtime, torn, due, faults>>
AddClient(w) ==
  LET c == req[w].c
      owner == {U(u) : u \in {req[w].copy.owner} \ {0}}
  IN /\ At(w, {"add"}, "save")
     /\ clients' = [clients EXCEPT ![c] = req[w].copy]
     /\ Wrote(w, {C(c)} \union owner)
     /\ Tears(w, owner)
     /\ Ends(w)
     /\ UNCHANGED <<users, runtime, due, issued, requests, faults>>

Edited(c, e) ==
  LET old == clients[c]
      set == [old EXCEPT !.limit = e.limit, !.flow = IF e.reset THEN 0 ELSE @]
      bound == Bound(set, IF e.owner = Same THEN old.owner ELSE e.owner)
  IN [bound EXCEPT !.managers = sanitizeManagerUserIDs(e.managers, bound.owner)]
NodeUpdateClient(w) ==
  \E c \in Live(clients), e \in ClientEdits :
     /\ IF e.owner = Same THEN clients[c].owner > 0 => users[clients[c].owner] # None
        ELSE resolveManagedUser(e.owner, c)
     /\ Begins(w, [op |-> "edit", at |-> "save", c |-> c, copy |-> Edited(c, e)])
     /\ Copied(w, {C(c)} \union {U(u) : u \in Users})
     /\ UNCHANGED <<users, clients, runtime, issued, torn, due, faults>>
EditClient(w) ==
  \/ LET c == req[w].c
         o == req[w].copy.owner
     IN /\ At(w, {"edit"}, "save")
        /\ clients[c] # None
        /\ clients' = [clients EXCEPT ![c] = req[w].copy]
        /\ Wrote(w, {C(c)} \union {U(u) : u \in {o} \ {0, clients[c].owner}})
        /\ Tears(w, {C(c)} \union {U(u) : u \in {o} \ {0}})
        /\ Ends(w)
        /\ UNCHANGED <<users, runtime, due, issued, requests, faults>>
  \/ At(w, {"edit"}, "save") /\ clients[req[w].c] = None /\ Fails(w, {})

(* Switched, or kicked: stored first, then disconnected. *)
NodeSetClientStatus(w) ==
  \E c \in Live(clients), on \in BOOLEAN :
     /\ Begins(w, [op |-> "status", at |-> "save", c |-> c, copy |-> [clients[c] EXCEPT !.on = on]])
     /\ Copied(w, {C(c)})
     /\ UNCHANGED <<users, clients, runtime, issued, torn, due, faults>>
NodeKick(w) ==
  \E c \in Live(clients) :
     /\ Begins(w, [op |-> "kick", at |-> "save", c |-> c, copy |-> [clients[c] EXCEPT !.on = FALSE]])
     /\ Copied(w, {C(c)})
     /\ UNCHANGED <<users, clients, runtime, issued, torn, due, faults>>
ChangeClientStatus(w) ==
  \/ /\ At(w, {"status", "kick"}, "save")
     /\ clients[req[w].c] # None
     /\ SaveClient(w, req[w].c, req[w].copy)
     /\ IF req[w].copy.on THEN Ends(w) ELSE Goes(w, "disconnect")
     /\ UNCHANGED <<users, runtime, due, issued, requests, faults>>
  \/ At(w, {"status", "kick"}, "save") /\ clients[req[w].c] = None /\ Fails(w, {})
  \/ /\ At(w, {"status", "kick"}, "disconnect")
     /\ online' = online \ {req[w].c}
     /\ Ends(w)
     /\ UNCHANGED <<users, clients, services, running, behind, torn, due, issued, requests, faults>>

(* Cleared: the services' counters are stored at zero before the client is. *)
applyClientStatusMutation(client, mode) ==
  CASE mode = "flow" -> [client EXCEPT !.flow = 0, !.traffic = 0]
    [] mode = "flow_limit" -> [client EXCEPT !.limit = 0]
NodeClearClient(w) ==
  \E c \in Live(clients), mode \in {"flow", "flow_limit"} :
     /\ Begins(w, [op |-> "clear", c |-> c, mode |-> mode, at |-> IF mode = "flow" THEN "services" ELSE "save",
                   copy |-> applyClientStatusMutation(clients[c], mode)])
     /\ Copied(w, {C(c)})
     /\ UNCHANGED <<users, clients, runtime, issued, torn, due, faults>>
ClearClient(w) ==
  \/ /\ At(w, {"clear"}, "services")
     /\ services' = [c \in DOMAIN services |-> services[c] /\ c # req[w].c]
     /\ Goes(w, "save")
     /\ UNCHANGED <<users, clients, online, running, behind, torn, due, issued, requests, faults>>
  \/ LET c == req[w].c IN
     /\ At(w, {"clear"}, "save")
     /\ clients[c] # None
     /\ SaveClient(w, c, req[w].copy)
     /\ due' = IF req[w].mode = "flow" THEN [due EXCEPT ![C(c)] = 0] ELSE due
     /\ Ends(w)
     /\ UNCHANGED <<users, runtime, issued, requests, faults>>
  \/ At(w, {"clear"}, "save") /\ clients[req[w].c] = None /\ Fails(w, {})

(* Deleted, for a request of its own or for the owner's: record, connection, tunnels and hosts. *)
DeleteRecord(w, c) ==
  /\ clients' = [clients EXCEPT ![c] = None]
  /\ Wrote(w, {C(c)})
NodeDeleteClient(w) ==
  \E c \in Live(clients) :
     /\ Begins(w, [op |-> "delete", at |-> "record", c |-> c])
     /\ UNCHANGED <<users, clients, runtime, behind, issued, torn, due, faults>>
DeleteClient(w) ==
  \/ /\ At(w, {"delete"}, "record")
     /\ clients[req[w].c] # None
     /\ DeleteRecord(w, req[w].c)
     /\ Goes(w, "disconnect")
     /\ UNCHANGED <<users, runtime, torn, due, issued, requests, faults>>
  \/ At(w, {"delete"}, "record") /\ clients[req[w].c] = None /\ Fails(w, {})

DeletedClientLeaves(w) ==
  \/ /\ At(w, {"delete", "drop"}, "disconnect")
     /\ online' = online \ {req[w].c}
     /\ Goes(w, "resources")
     /\ UNCHANGED <<users, clients, services, running, behind, torn, due, issued, requests, faults>>
  \/ /\ At(w, {"delete", "drop"}, "resources")
     /\ services' = [x \in DOMAIN services \ {req[w].c} |-> services[x]]
     /\ IF req[w].op = "delete" THEN Ends(w) ELSE Goes(w, "owned")
     /\ UNCHANGED <<users, clients, online, running, behind, torn, due, issued, requests, faults>>

-----------------------------------------------------------------------------
(* The service for users. *)
shouldDisconnectUserClientsNow(user) == ~user.on \/ (user.limit > 0 /\ user.flow >= user.limit)

NodeCreateUser(w) ==
  \E u \in Users, max \in {0, 1} :
     /\ req[w] = Idle
     /\ "user" \in Ops
     /\ U(u) \notin issued
     /\ issued' = issued \union {U(u)}   \* NextUserID
     /\ users' = [users EXCEPT ![u] = NewUser(max)]
     /\ Wrote(w, {U(u)})
     /\ UNCHANGED <<clients, runtime, req, torn, due, requests, faults>>
NodeUpdateUser(w) ==
  \E u \in Live(users), e \in UserEdits :
     /\ Begins(w, [op |-> "user", at |-> "save", u |-> u, reset |-> e.reset,
                   status |-> FALSE, copy |-> [users[u] EXCEPT !.on = e.on, !.max = e.max, !.limit = e.limit,
                                             !.flow = IF e.reset THEN 0 ELSE @]])
     /\ Copied(w, {U(u)})
     /\ UNCHANGED <<users, clients, runtime, issued, torn, due, faults>>
NodeSetUserStatus(w) ==
  \E u \in Live(users), on \in BOOLEAN :
     /\ Begins(w, [op |-> "user", at |-> "save", u |-> u, reset |-> FALSE, status |-> TRUE,
                   copy |-> [users[u] EXCEPT !.on = on]])
     /\ Copied(w, {U(u)})
     /\ UNCHANGED <<users, clients, runtime, issued, torn, due, faults>>
ChangeUser(w) ==
  \/ LET u == req[w].u IN
     /\ At(w, {"user"}, "save")
     /\ users[u] # None
     /\ SaveUser(w, u, req[w].copy)
     /\ due' = IF req[w].reset THEN [due EXCEPT ![U(u)] = 0] ELSE due
     /\ IF ~req[w].copy.on \/ (~req[w].status /\ shouldDisconnectUserClientsNow(req[w].copy))
        THEN Goes(w, "disconnect") ELSE Ends(w)
     /\ UNCHANGED <<clients, runtime, issued, requests, faults>>
  \/ At(w, {"user"}, "save") /\ users[req[w].u] = None /\ Fails(w, {})
  \/ /\ At(w, {"user"}, "disconnect")   \* disconnectUserClients
     /\ online' = online \ Owned(req[w].u)
     /\ Ends(w)
     /\ UNCHANGED <<users, clients, services, running, behind, torn, due, issued, requests, faults>>

(* Its clients are listed, deleted one after the other, and then the user, with what still refers to it. *)
clearUserReferences(u) ==
  [c \in Clients |-> IF clients[c] = None THEN None
                     ELSE [clients[c] EXCEPT !.owner = IF @ = u THEN 0 ELSE @, !.managers = @ \ {u}]]
NodeDeleteUser(w) ==
  \E u \in Live(users) :
     /\ Begins(w, [op |-> "drop", at |-> "owned", u |-> u, left |-> Owned(u), c |-> 0])
     /\ UNCHANGED <<users, clients, runtime, behind, issued, torn, due, faults>>
DeleteUser(w) ==
  \/ \E c \in Clients :
       /\ At(w, {"drop"}, "owned")
       /\ c \in req[w].left
       /\ clients[c] # None
       /\ DeleteRecord(w, c)
       /\ req' = [req EXCEPT ![w].at = "disconnect", ![w].c = c, ![w].left = @ \ {c}]
       /\ UNCHANGED <<users, runtime, torn, due, issued, requests, faults>>
  \/ At(w, {"drop"}, "owned") /\ (\E c \in req[w].left : clients[c] = None) /\ Fails(w, {})
  \/ LET u == req[w].u IN
     /\ At(w, {"drop"}, "owned")
     /\ req[w].left = {}
     /\ users[u] # None
     /\ users' = [users EXCEPT ![u] = None]
     /\ clients' = clearUserReferences(u)
     /\ Wrote(w, {U(u)} \union {C(c) : c \in {x \in Clients : clients'[x] # clients[x]}})
     /\ Ends(w)
     /\ UNCHANGED <<runtime, torn, due, issued, requests, faults>>
  \/ At(w, {"drop"}, "owned") /\ req[w].left = {} /\ users[req[w].u] = None /\ Fails(w, {})

-----------------------------------------------------------------------------
(* A traffic report.  Its items are resolved one after the other; items of one client share a copy, and  *)
(* so do the clients of one owner. *)
Counted(copy) == [copy EXCEPT !.flow = @ + 1, !.traffic = @ + 1]
Charged(copy) == [copy EXCEPT !.flow = @ + 1]

ApplyTrafficItemAlone(w) ==
  LET r == req[w]
      c == r.items[r.next]
      client == IF r.cs[c] # None THEN r.cs[c] ELSE clients[c]
      o == client.owner
  IN /\ At(w, {"traffic"}, "resolve")
     /\ r.next <= Len(r.items)
     /\ clients[c] # None
     /\ req' = [req EXCEPT ![w].next = @ + 1, ![w].cs[c] = Counted(client),
                 ![w].us = [u \in Users |-> IF u = o /\ users[u] # None
                                            THEN Charged(cloneAttachedOwnerUser(u)) ELSE r.us[u]]]
     /\ behind' = [behind EXCEPT ![w] = @ \ ((IF r.cs[c] = None THEN {C(c)} ELSE {}) \union
                                             {U(u) : u \in {x \in Users : x = o /\ r.us[x] = None}})]
     /\ UNCHANGED <<users, clients, runtime, torn, due, issued, requests, faults>>
ApplyTrafficItem(w) ==
  LET r == req[w]
      c == r.items[r.next]
      client == IF r.cs[c] # None THEN r.cs[c] ELSE clients[c]
      o == client.owner
      owner == [u \in Users |-> IF r.us[u] # None THEN r.us[u] ELSE IF users[u] = None THEN None
                                ELSE cloneAttachedOwnerUser(u)]
  IN /\ At(w, {"traffic"}, "resolve")
     /\ r.next <= Len(r.items)
     /\ clients[c] # None
     /\ req' = [req EXCEPT ![w].next = @ + 1, ![w].cs[c] = Counted(client),
                 ![w].us = [u \in Users |-> IF u = o /\ owner[u] # None THEN Charged(owner[u]) ELSE r.us[u]]]
     /\ behind' = [behind EXCEPT ![w] = @ \ ((IF r.cs[c] = None THEN {C(c)} ELSE {}) \union
                                             {U(u) : u \in {x \in Users : x = o /\ r.us[x] = None}})]
     /\ UNCHANGED <<users, clients, runtime, torn, due, issued, requests, faults>>

Touched(r) == {C(c) : c \in Live(r.cs)} \union {U(u) : u \in Live(r.us)}
Of(r, u) == {c \in Live(r.cs) : r.cs[c].owner = u}

NodeTraffic(w) ==
  \E items \in Reports :
     /\ Begins(w, [op |-> "traffic", at |-> "resolve", items |-> items, next |-> 1, saved |-> {},
                   cs |-> [c \in Clients |-> None], us |-> [u \in Users |-> None]])
     /\ UNCHANGED <<users, clients, runtime, behind, issued, torn, due, faults>>
ApplyTraffic(w) ==
  \/ ApplyTrafficItem(w)
  \/ At(w, {"traffic"}, "resolve") /\ req[w].next <= Len(req[w].items) /\ clients[req[w].items[req[w].next]] = None
     /\ Fails(w, {})
  \/ /\ At(w, {"traffic"}, "resolve")
     /\ req[w].next > Len(req[w].items)
     /\ Goes(w, "clients")
     /\ UNCHANGED <<users, clients, runtime, behind, torn, due, issued, requests, faults>>
  \/ \E c \in Clients :
       /\ At(w, {"traffic"}, "clients")
       /\ c \in Live(req[w].cs) \ req[w].saved
       /\ IF clients[c] = None THEN Fails(w, Touched(req[w]))
          ELSE /\ SaveClient(w, c, req[w].cs[c])
               /\ due' = [due EXCEPT ![C(c)] = @ + Count(req[w].items, {c})]
               /\ req' = [req EXCEPT ![w].saved = @ \union {c}]
               /\ UNCHANGED <<users, runtime, issued, requests, faults>>
  \/ /\ At(w, {"traffic"}, "clients")
     /\ req[w].saved = Live(req[w].cs)
     /\ req' = [req EXCEPT ![w].at = "users", ![w].saved = {}]
     /\ UNCHANGED <<users, clients, runtime, behind, torn, due, issued, requests, faults>>
  \/ \E u \in Users :
       /\ At(w, {"traffic"}, "users")
       /\ u \in Live(req[w].us) \ req[w].saved
       /\ IF users[u] = None THEN Fails(w, Touched(req[w]))
          ELSE /\ SaveUser(w, u, req[w].us[u])
               /\ due' = [due EXCEPT ![U(u)] = @ + Count(req[w].items, Of(req[w], u))]
               /\ req' = [req EXCEPT ![w].saved = @ \union {u}]
               /\ UNCHANGED <<clients, runtime, issued, requests, faults>>
  \/ /\ At(w, {"traffic"}, "users")
     /\ req[w].saved = Live(req[w].us)
     /\ Ends(w)
     /\ UNCHANGED <<users, clients, runtime, behind, torn, due, issued, requests, faults>>

-----------------------------------------------------------------------------
(* Synchronisation: the tunnels stop, the store is written, clients without a record are disconnected, and *)
(* the tunnels start, also when writing failed. *)
NodeSync(w) ==
  /\ Begins(w, [op |-> "sync", at |-> "flush"])
   /\ running' = FALSE
   /\ UNCHANGED <<users, clients, services, online, behind, issued, torn, due, faults>>
Sync(w) ==
  \/ /\ At(w, {"sync"}, "flush")
     /\ \/ Goes(w, "orphans") /\ UNCHANGED faults
        \/ faults < MaxFaults /\ faults' = faults + 1 /\ Goes(w, "start")
     /\ UNCHANGED <<users, clients, runtime, behind, torn, due, issued, requests>>
  \/ /\ At(w, {"sync"}, "orphans")
     /\ online' = online \intersect Live(clients)
     /\ Goes(w, "start")
     /\ UNCHANGED <<users, clients, services, running, behind, torn, due, issued, requests, faults>>
  \/ /\ At(w, {"sync"}, "start")
     /\ running' = TRUE
     /\ Ends(w)
     /\ UNCHANGED <<users, clients, services, online, behind, torn, due, issued, requests, faults>>

(* A client connects, and gets its first tunnel, while it has a record. *)
Attach(c) ==
  /\ clients[c] # None
  /\ clients[c].on
  /\ c \notin online
  /\ online' = online \union {c}
  /\ UNCHANGED <<users, clients, services, running, req, behind, torn, due, issued, requests, faults>>
AddService(c) ==
  /\ clients[c] # None
  /\ c \notin DOMAIN services
  /\ services' = [x \in DOMAIN services \union {c} |-> IF x = c THEN TRUE ELSE services[x]]
  /\ UNCHANGED <<users, clients, online, running, req, behind, torn, due, issued, requests, faults>>

Next ==
  \/ \E w \in Workers :
       \/ NodeCreateClient(w) \/ AddClient(w) \/ NodeUpdateClient(w) \/ EditClient(w)
       \/ NodeSetClientStatus(w) \/ NodeKick(w) \/ ChangeClientStatus(w) \/ NodeClearClient(w) \/ ClearClient(w)
       \/ NodeDeleteClient(w) \/ DeleteClient(w) \/ DeletedClientLeaves(w)
       \/ NodeCreateUser(w) \/ NodeUpdateUser(w) \/ NodeSetUserStatus(w) \/ ChangeUser(w) \/ NodeDeleteUser(w)
       \/ DeleteUser(w) \/ NodeTraffic(w) \/ ApplyTraffic(w) \/ NodeSync(w) \/ Sync(w)
  \/ \E c \in Clients : Attach(c) \/ AddService(c)

Spec == Init /\ [][Next]_vars

-----------------------------------------------------------------------------
(* What an actor is shown of the node. *)
Scopes ==
  {[kind |-> k, user |-> u, ids |-> s] :
     k \in {"admin", "platform_admin", "platform_user", "user", "client"}, u \in {0} \union Users,
     s \in {{}, Clients, {Min(Clients)}}}

CanBeManagedByUser(c, u) == u > 0 /\ (clients[c].owner = u \/ u \in clients[c].managers)
AllowsClient(s, c) ==
  CASE s.kind = "admin" -> TRUE
    [] s.kind = "platform_admin" -> s.user > 0 /\ clients[c].owner = s.user
    [] s.kind = "platform_user" -> (s.user > 0 => clients[c].owner = s.user) /\ c \in s.ids
    [] s.kind = "user" -> IF s.user > 0 THEN CanBeManagedByUser(c, s.user) ELSE c \in s.ids
    [] s.kind = "client" -> c \in s.ids
AllowsUser(s, u) == s.kind = "admin" \/ (s.kind # "client" /\ u = s.user)

collectNodeScopeOwnedClients(s) == {c \in Owned(s.user) : AllowsClient(s, c)}
collectNodeScopeManagedClients(s) == {c \in Live(clients) : CanBeManagedByUser(c, s.user) /\ AllowsClient(s, c)}
collectNodeScopeClientsByIDs(s) == {c \in s.ids \intersect Live(clients) : AllowsClient(s, c)}
collectNodeScopeClientsByRange(s) == {c \in Live(clients) : AllowsClient(s, c)}

collectUserNodeScopeSnapshot(s) ==
  IF s.user > 0 THEN collectNodeScopeManagedClients(s) ELSE collectNodeScopeClientsByRange(s)
collectPlatformNodeScopeSnapshot(s) ==
  IF s.user > 0 THEN collectNodeScopeOwnedClients(s) ELSE collectNodeScopeClientsByRange(s)

collectNodeScopeSnapshot(s) ==
  CASE s.kind = "admin" -> collectNodeScopeClientsByRange(s)
    [] s.kind = "platform_admin" -> collectPlatformNodeScopeSnapshot(s)
    [] s.kind = "user" -> collectUserNodeScopeSnapshot(s)
    [] OTHER -> collectNodeScopeClientsByIDs(s)
collectNodeScopeUserByID(s) ==
  CASE s.kind = "admin" -> Live(users)
    [] s.kind = "client" -> {}
    [] OTHER -> {s.user} \intersect Live(users)

-----------------------------------------------------------------------------
Quiet == \A w \in Workers : req[w] = Idle

(* When no request is at work, a client and a user have counted exactly the traffic that was accepted    *)
(* for them since it was cleared: reports of many items and clients of one owner included, unless their  *)
(* records were stored from copies that were out of date (ApplyTraffic, node_control.go:1650, against    *)
(* every other request). *)
TrafficAccounted ==
  Quiet =>
    /\ \A c \in Live(clients) : C(c) \notin torn => clients[c].traffic = due[C(c)]
    /\ \A u \in Live(users) : U(u) \notin torn => users[u].flow = due[U(u)]

(* A client that was deleted, by a request of its own or with its owner, leaves no tunnels and hosts     *)
(* behind and no connection (clients.go:410, users.go:685): every client at rest that has any has a      *)
(* record.  And the tunnels are started whenever no synchronisation is at work. *)
DeletedLeavesNothing ==
  /\ Quiet => running
  /\ \A c \in Clients :
       (\A w \in Workers : ~(req[w] # Idle /\ req[w].op \in {"delete", "drop"})) /\ clients[c] = None
       => c \notin online /\ c \notin DOMAIN services

(* A client comes to an owner only within the owner's number of clients, unless another request changed  *)
(* the owner, its clients or the client between the count and the write (clients.go:909-945). *)
QuotaStep ==
  \A u \in Live(users), c \in Clients :
    clients'[c] # None /\ clients'[c].owner = u /\ c \notin Owned(u) /\ {U(u), C(c)} \intersect torn' = {}
    => users[u].max = 0 \/ Cardinality(Owned(u)') <= users[u].max
QuotaKept == [][QuotaStep]_vars

(* The snapshot of the node is gathered through the store's lookups, a different one for every kind of   *)
(* actor: it has exactly the clients and users that the actor's scope allows (node_control.go:380-681). *)
ScopeExact ==
  \A s \in Scopes :
    /\ collectNodeScopeSnapshot(s) = {c \in Live(clients) : AllowsClient(s, c)}
    /\ collectNodeScopeUserByID(s) = {u \in Live(users) : AllowsUser(s, u)}

(* A user keeps a password or a one-time secret: no request may store a user without either, as creating *)
(* and editing one refuse to (management-api-http-resources.md:29, users.go:180, :245). *)
SecretKept == \A u \in Live(users) : users[u].secret
=============================================================================
