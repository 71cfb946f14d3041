----------------------------- MODULE NodeAccess -----------------------------
(***************************************************************************)
(* Who may do what through the management API (web/routers, web/api,       *)
(* web/service/authorization.go): the catalogue of protected actions, the  *)
(* two dispatchers that resolve a request to one of them (HTTP routes and  *)
(* frames of a WebSocket), the access decision, the listing published by   *)
(* discovery, and the refresh of the caller's identity before a request,   *)
(* while other requests change users, clients and tunnels.                 *)
(*                                                                         *)
(* A path is the sequence of its segments after the API prefix; "{id}" is  *)
(* a parameter, and a request's number is a member of Ids.  A permission   *)
(* "clients:read" is <<"clients", "read">>; "*" is All.                    *)
(***************************************************************************)
EXTENDS Integers, Sequences, FiniteSets, TLAPS

CONSTANTS
  Grants,     \* the credentials a caller may hold, see Init
  Mutations,  \* how many changes of the store a behaviour makes
  Requests    \* how many requests the caller begins

VARIABLES
  store,      \* users, clients, tunnels and hosts
  cred,       \* the caller's credential: cookie, standalone or node token
  sock,       \* the caller's WebSocket: its refresher's identity
  req,        \* the request being served
  begun, moved

vars == <<store, cred, sock, req, begun, moved>>

Clients == {1, 2}
Users == {1, 2}
ServiceUser == 3
Ids == {"1", "2"}
Num == [i \in Ids |-> IF i = "1" THEN 1 ELSE 2]
All == <<"*", "*">>
Admin == <<"management", "admin">>
Global == <<"global", "manage">>

\* A login or token is an administrator's, a user's or a client's own; a platform's token has a role, full control
\* or not, and the clients the platform asks for (servercfg.ManagementPlatformConfig).
ASSUME GrantsAssumption ==
  \A g \in Grants :
    \/ g \in [kind : {"admin"}, mode : {"session", "token"}]
    \/ g \in [kind : {"user"}, mode : {"session", "token"}, uid : Users]
    \/ g \in [kind : {"client"}, mode : {"session", "token"}, uid : Clients]
    \/ g \in [kind : {"platform"}, mode : {"platform"}, role : {"admin", "user"}, full : BOOLEAN, wanted : SUBSET Clients]

-----------------------------------------------------------------------------
(* The catalogue of protected actions.                                     *)

Act(res, act, method, path, perm, scoped, own) ==
  [res |-> res, act |-> act, method |-> method, path |-> path, perm |-> perm,
   scoped |-> scoped, own |-> own]

OnItem(r, a) == <<r, "{id}", "actions", a>>

\* The list, create, read and control actions that tunnels and hosts share.
ProxyActions(r, own) ==
  { Act(r, "list", "GET", <<r>>, <<r, "read">>, TRUE, "none"),
    Act(r, "create", "POST", <<r>>, <<r, "create">>, TRUE, "none"),
    Act(r, "read", "GET", <<r, "{id}">>, <<r, "read">>, FALSE, own) } \cup
  { Act(r, a, "POST", OnItem(r, a), <<r, a>>, FALSE, own) : a \in {"update", "delete"} } \cup
  { Act(r, a, "POST", OnItem(r, a), <<r, "control">>, FALSE, own) : a \in {"start", "stop", "clear"} }

ClientActions ==
  LET C(a, m, p, perm, own) == Act("clients", a, m, p, <<"clients", perm>>, FALSE, own) IN
  { C("list", "GET", <<"clients">>, "read", "none"),
    C("qrcode", "GET", <<"tools", "qrcode">>, "read", "none"),
    C("qrcode_generate", "POST", <<"tools", "qrcode">>, "read", "none"),
    C("create", "POST", <<"clients">>, "create", "none"),
    C("connections", "GET", <<"clients", "{id}", "connections">>, "read", "client"),
    C("clear_all", "POST", <<"clients", "actions", "clear">>, "status", "none"),
    C("kick", "POST", <<"clients", "actions", "kick">>, "status", "none"),
    C("ping", "POST", OnItem("clients", "ping"), "read", "client"),
    C("read", "GET", <<"clients", "{id}">>, "read", "client"),
    C("update", "POST", OnItem("clients", "update"), "update", "client"),
    C("clear", "POST", OnItem("clients", "clear"), "status", "client"),
    C("status", "POST", OnItem("clients", "status"), "status", "client"),
    C("delete", "POST", OnItem("clients", "delete"), "delete", "client") }

SystemActions ==
  LET S(a, m, p) == Act("system", a, m, <<"system">> \o p, <<>>, FALSE, "none") IN
  { S(a, "GET", <<a>>) : a \in {"overview", "dashboard", "registration", "operations", "status",
                                "changes", "usage_snapshot", "export"} } \cup
  { S("import", "POST", <<"import">>), S("sync", "POST", <<"actions", "sync">>),
    Act("traffic", "write", "POST", <<"traffic">>, <<>>, FALSE, "none") }

AdminActions ==
  LET U(a, m, p) == Act("users", a, m, p, Admin, FALSE, "none")
      G(r, a, m, p) == Act(r, a, m, p, Global, FALSE, "none") IN
  { U("list", "GET", <<"users">>), U("create", "POST", <<"users">>), U("read", "GET", <<"users", "{id}">>) } \cup
  { U(a, "POST", OnItem("users", a)) : a \in {"update", "status", "delete"} } \cup
  { G("settings_global", "read", "GET", <<"settings", "global">>),
    G("settings_global", "update", "POST", <<"settings", "global", "actions", "update">>),
    G("security_bans", "list", "GET", <<"security", "bans">>) } \cup
  { G("security_bans", a, "POST", <<"security", "bans", "actions", a>>) : a \in {"delete", "delete_all", "clean"} }

\* The actions that have handlers of their own in both dispatchers.
SinkActions ==
  LET W(r, a, m, p) == Act(r, a, m, p, <<>>, FALSE, "none")
      Q == <<"callbacks", "queue">> IN
  { W("callbacks_queue", "list", "GET", Q), W("callbacks_queue", "replay", "POST", Q \o <<"actions", "replay">>),
    W("callbacks_queue", "clear", "POST", Q \o <<"actions", "clear">>),
    W("webhooks", "list", "GET", <<"webhooks">>), W("webhooks", "create", "POST", <<"webhooks">>),
    W("webhooks", "read", "GET", <<"webhooks", "{id}">>) } \cup
  { W("webhooks", a, "POST", OnItem("webhooks", a)) : a \in {"update", "status", "delete"} }

CertSuggestion ==
  Act("hosts", "cert_suggestion", "GET", <<"hosts", "cert-suggestion">>, <<"hosts", "read">>, FALSE, "none")

Catalogue ==
  SystemActions \cup ProxyActions("tunnels", "tunnel") \cup ProxyActions("hosts", "host") \cup
  {CertSuggestion} \cup ClientActions \cup AdminActions \cup SinkActions

-----------------------------------------------------------------------------
(* Actors and what they are granted.                                       *)

RoleUser ==
  ({"clients"} \X {"create", "read", "update", "delete", "status"}) \cup
  ({"tunnels", "hosts"} \X {"create", "read", "update", "delete", "control"})

RoleClient == {p \in RoleUser : p[1] # "clients"} \cup {<<"clients", "read">>}

matchPermission(g, p) == g = All \/ g = p \/ (g[2] = "*" /\ g[1] = p[1])

Allows(a, p) == a.kind # "anonymous" /\ \E g \in a.perms : matchPermission(g, p)

Anonymous == [kind |-> "anonymous", admin |-> FALSE, ids |-> {}, perms |-> {}, uid |-> 0]

\* NormalizePrincipal: an actor with the administrator's permission is an
\* administrator, and an administrator has every permission.
Actor(kind, admin, ids, perms, uid) ==
  LET isAdmin == admin \/ \E g \in perms : matchPermission(g, Admin)
  IN [kind |-> kind, admin |-> isAdmin, ids |-> ids,
      perms |-> IF isAdmin THEN perms \cup {All} ELSE perms, uid |-> uid]

\* NodeAccessScope: what the scope checks of the system actions look at.
CanViewStatus(a) == a.admin \/ a.kind \in {"platform_admin", "platform_user"}
CanViewUsage(a) == CanViewStatus(a) \/ a.kind \in {"user", "client"}
AccountWide(a) == a.admin \/ a.kind = "platform_admin"

ScopeAllowed(c, a) ==
  CASE c.res = "system" /\ c.act = "overview" -> CanViewStatus(a) \/ CanViewUsage(a)
    [] c.res = "system" /\ c.act \in {"registration", "operations", "status"} -> CanViewStatus(a)
    [] c.res = "system" /\ c.act = "usage_snapshot" -> CanViewUsage(a)
    [] c.res = "system" /\ c.act \in {"dashboard", "export", "sync"} -> a.admin
    [] c.res = "traffic" -> a.admin
    [] c.res = "callbacks_queue" -> AccountWide(a)
    [] OTHER -> TRUE

\* The checks made by the handlers that both dispatchers call directly.
HandlerAllows(c, a) ==
  CASE c.res = "system" /\ c.act = "import" -> a.admin
    [] c.res = "webhooks" -> a.admin \/ a.kind = "platform_admin"
    [] c.res = "callbacks_queue" -> AccountWide(a)
    [] OTHER -> TRUE

\* The Visible functions of the catalogue's entries; the callback queue is
\* published only where a platform of the actor's has callbacks enabled.
VisibleByScope(c, a, queues) ==
  CASE c.res = "system" /\ c.act = "overview" -> CanViewStatus(a) \/ CanViewUsage(a)
    [] c.res = "system" /\ c.act \in {"registration", "operations", "status"} -> CanViewStatus(a)
    [] c.res = "system" /\ c.act = "usage_snapshot" -> CanViewUsage(a)
    [] c.res = "system" /\ c.act \in {"dashboard", "export", "import", "sync"} -> a.admin
    [] c.res = "traffic" -> a.admin
    [] c.res = "callbacks_queue" -> AccountWide(a) /\ queues
    [] c.res = "webhooks" -> a.admin \/ a.kind = "platform_admin"
    [] OTHER -> TRUE

\* VisibleActionEntries: what discovery publishes to the actor.
Visible(c, a, queues) ==
  a.kind # "anonymous" /\ (c.perm = <<>> \/ Allows(a, c.perm)) /\ VisibleByScope(c, a, queues)

-----------------------------------------------------------------------------
(* Resolving a request to an action.                                       *)

Matches(pattern, path) ==
  Len(pattern) = Len(path) /\ \A i \in DOMAIN path : pattern[i] \in {path[i], "{id}"}

Params(c) == Cardinality({i \in DOMAIN c.path : c.path[i] = "{id}"})

\* The gin router: a static segment wins over a parameter.
HTTPRoute(r) ==
  LET found == {c \in Catalogue : c.method = r.method /\ Matches(c.path, r.path)}
  IN {c \in found : \A d \in found : Params(c) <= Params(d)}

\* nodeWSManagedRouteKindForProtectedAction
Managed(c) == c \in SinkActions \/ (c.res = "system" /\ c.act \in {"changes", "import"})

IsResource(c) == ~Managed(c) /\ c.path[1] \in {"users", "clients", "tunnels", "hosts"}

Place(res, id, sub, act) == [res |-> res, id |-> id, sub |-> sub, act |-> act]
Nowhere == Place("", FALSE, "", "")

\* nodeWSResourceRouteSpecFromAction: where a resource action is found.
SpecPlace(p) ==
  LET id == Len(p) > 1 /\ p[2] = "{id}" IN
  CASE Len(p) = 1 -> Place(p[1], FALSE, "", "")
    [] Len(p) = 2 -> Place(p[1], id, IF id THEN "" ELSE p[2], "")
    [] Len(p) = 3 -> IF id THEN Place(p[1], TRUE, p[3], "") ELSE Place(p[1], FALSE, p[2], p[3])
    [] OTHER -> IF id THEN Place(p[1], TRUE, p[3], p[4]) ELSE Nowhere

\* Mutant: the second of three segments is always taken for a number.
SplitNumberFirst(p) ==
  LET id == Len(p) > 1 /\ p[2] \in Ids IN
  CASE Len(p) = 1 -> Place(p[1], FALSE, "", "")
    [] Len(p) = 2 -> Place(p[1], id, IF id THEN "" ELSE p[2], "")
    [] Len(p) = 3 -> IF id THEN Place(p[1], TRUE, p[3], "") ELSE Nowhere
    [] Len(p) = 4 -> IF id /\ p[3] = "actions" THEN Place(p[1], TRUE, "actions", p[4]) ELSE Nowhere
    [] OTHER -> Nowhere

\* splitNodeResourcePath: what a frame's path asks for.
SplitPlace(p) ==
  LET id == Len(p) > 1 /\ p[2] \in Ids IN
  CASE Len(p) = 1 -> Place(p[1], FALSE, "", "")
    [] Len(p) = 2 -> Place(p[1], id, IF id THEN "" ELSE p[2], "")
    [] Len(p) = 3 -> IF p[2] = "actions" THEN Place(p[1], FALSE, "actions", p[3])
                     ELSE IF id THEN Place(p[1], TRUE, p[3], "") ELSE Nowhere
    [] Len(p) = 4 -> IF id /\ p[3] = "actions" THEN Place(p[1], TRUE, "actions", p[4]) ELSE Nowhere
    [] OTHER -> Nowhere

\* dispatchNodeWSRequestWithBase: direct routes, then managed ones, then
\* resources.
WSRoute(r) ==
  LET direct == {c \in Catalogue : ~Managed(c) /\ ~IsResource(c) /\ c.path = r.path}
      managed == {c \in Catalogue : Managed(c) /\ Matches(c.path, r.path)
                     /\ \A i \in DOMAIN r.path : c.path[i] = "{id}" => r.path[i] \in Ids}
      placed == {c \in Catalogue : IsResource(c) /\ SplitPlace(r.path) # Nowhere
                     /\ SpecPlace(c.path) = SplitPlace(r.path)}
      found == IF direct # {} THEN direct ELSE IF managed # {} THEN managed ELSE placed
  IN {c \in found : c.method = r.method}

PathId(c, r) ==
  LET at == {i \in DOMAIN r.path : c.path[i] = "{id}"}
  IN IF at = {} THEN 0 ELSE Num[r.path[CHOOSE i \in at : TRUE]]

\* Both the check and the handler read the parameter "id" by the same lookup:
\* over HTTP a field of the body first, in a frame the path.
HTTPId(c, r) == IF r.body > 0 THEN r.body ELSE PathId(c, r)
WSId(c, r) == IF PathId(c, r) > 0 THEN PathId(c, r) ELSE r.body

-----------------------------------------------------------------------------
(* The access decision.                                                    *)

Refused == [ok |-> FALSE, client |-> 0]
Granted(n) == [ok |-> TRUE, client |-> n]

ResolveClient(a, wanted) ==
  IF Allows(a, Admin) THEN Granted(wanted)
  ELSE IF wanted > 0 THEN IF wanted \in a.ids THEN Granted(wanted) ELSE Refused
  ELSE IF a.ids = {} THEN Refused
  ELSE Granted(IF Cardinality(a.ids) = 1 THEN CHOOSE n \in a.ids : TRUE ELSE 0)

\* RequireClient, RequireTunnel and RequireHost.
Owns(own, a, id, st) ==
  \/ Allows(a, Admin)
  \/ CASE own = "client" -> id \in a.ids
       [] own = "tunnel" -> st.tunnel[id] \in a.ids
       [] own = "host" -> st.host[id] \in a.ids
       [] OTHER -> TRUE

ResolveProtectedActionAccess(c, a, wanted, id, st) ==
  LET scoped == IF c.scoped THEN ResolveClient(a, wanted) ELSE Granted(0) IN
  IF /\ c.perm = <<>> \/ Allows(a, c.perm)
     /\ scoped.ok
     /\ id = 0 \/ Owns(c.own, a, id, st)
  THEN scoped ELSE Refused

\* nodeProtectedActionAccessMiddleware, then the handler's own check.
HTTPAccess(c, a, r, st) ==
  IF ScopeAllowed(c, a) /\ HandlerAllows(c, a)
  THEN ResolveProtectedActionAccess(c, a, r.client, HTTPId(c, r), st) ELSE Refused

\* requireNodeWSRouteExecutionAccess; a managed route has its handler's check
\* only.
WSAccess(c, a, r, st) ==
  IF Managed(c) THEN IF HandlerAllows(c, a) THEN Granted(0) ELSE Refused
  ELSE IF ScopeAllowed(c, a) THEN ResolveProtectedActionAccess(c, a, r.client, WSId(c, r), st)
  ELSE Refused

\* The clients a granted action touches.
Touched(c, access, id, st) ==
  {n \in Clients :
     \/ access.client = n
     \/ id > 0 /\ CASE c.own = "client" -> id = n
                    [] c.own = "tunnel" -> st.tunnel[id] = n
                    [] c.own = "host" -> st.host[id] = n
                    [] OTHER -> FALSE}

Outcome(c, access, id, st) ==
  [act |-> c, ok |-> access.ok, client |-> access.client, id |-> id,
   touched |-> IF access.ok THEN Touched(c, access, id, st) ELSE {}]

\* Every path of the catalogue with numbers for its parameters, and some that
\* no action has, under both methods.
Instances(p) == {[i \in DOMAIN p |-> IF p[i] = "{id}" THEN n ELSE p[i]] : n \in Ids}
Paths == UNION {Instances(c.path) : c \in Catalogue} \cup
         {<<"tunnels", "1", "connections">>, <<"webhooks", "1", "actions", "clear">>, <<"system">>}
Asked == [path : Paths, method : {"GET", "POST"}]
Routes == {[ask |-> r, http |-> HTTPRoute(r), ws |-> WSRoute(r)] : r \in Asked}

HTTPVerdict(found, a, r, st) == {Outcome(c, HTTPAccess(c, a, r, st), HTTPId(c, r), st) : c \in found}
WSVerdict(found, a, r, st) == {Outcome(c, WSAccess(c, a, r, st), WSId(c, r), st) : c \in found}

-----------------------------------------------------------------------------
(* Identities and their refresh.                                           *)

\* ManagedClientIDsByUser: the enabled clients a user owns or manages.
ManagedClientIDs(st, u) == {n \in Clients : st.up[n] /\ (st.owner[n] = u \/ u \in st.managers[n])}
OwnedClientIDs(st, u) == {n \in Clients : st.owner[n] = u}

UserAllowed(st, u) == u \in Users /\ st.on[u]
ClientAllowed(st, n) == st.up[n] /\ (st.owner[n] = 0 \/ UserAllowed(st, st.owner[n]))

\* Mutant: a user's clients are those of the login.
RefreshKeepsClients(a, st) ==
  CASE a.kind = "user" -> IF UserAllowed(st, a.uid) THEN a ELSE Anonymous
    [] a.kind = "client" -> IF ClientAllowed(st, a.uid) THEN [a EXCEPT !.ids = {a.uid}] ELSE Anonymous
    [] OTHER -> a

\* RefreshSessionIdentity: an administrator's identity is not looked up; a
\* user's and a client's are, and their clients replaced.
RefreshIdentity(a, st) ==
  CASE a.kind = "user" -> IF UserAllowed(st, a.uid) THEN [a EXCEPT !.ids = ManagedClientIDs(st, a.uid)] ELSE Anonymous
    [] a.kind = "client" -> IF ClientAllowed(st, a.uid) THEN [a EXCEPT !.ids = {a.uid}] ELSE Anonymous
    [] OTHER -> a

\* platformActorFromLookup: the platform's role and the clients it asked for,
\* of those its service user owns.
PlatformActor(p, st) ==
  LET owned == OwnedClientIDs(st, ServiceUser) IN
  IF p.role = "admin"
  THEN Actor("platform_admin", p.full, IF p.full THEN {} ELSE owned, IF p.full THEN {All} ELSE RoleUser, 0)
  ELSE Actor("platform_user", FALSE, p.wanted \cap owned, RoleUser, 0)

None == [mode |-> "none"]

\* What a login, a token or a platform's token gives.
Issue(g, st) ==
  CASE g.kind = "admin" -> [mode |-> g.mode, who |-> g, actor |-> Actor("admin", TRUE, {}, {All, Admin, Global}, 0)]
    [] g.kind = "user" -> [mode |-> g.mode, who |-> g, actor |-> Actor("user", FALSE, ManagedClientIDs(st, g.uid), RoleUser, g.uid)]
    [] g.kind = "client" -> [mode |-> g.mode, who |-> g, actor |-> Actor("client", FALSE, {g.uid}, RoleClient, g.uid)]
    [] g.kind = "platform" -> [mode |-> g.mode, who |-> g, actor |-> PlatformActor(g, st)]

\* The caller's actor at the start of a request or frame: a session is
\* rewritten, a token's claims are refreshed, a platform's actor built anew.
Refreshed(h, st) ==
  IF h = None \/ h.mode = "revoked" THEN None
  ELSE IF h.mode = "platform" THEN [h EXCEPT !.actor = PlatformActor(h.who, st)]
  ELSE IF RefreshIdentity(h.actor, st) = Anonymous THEN None
  ELSE [h EXCEPT !.actor = RefreshIdentity(h.actor, st)]

-----------------------------------------------------------------------------
(* The caller's requests and the changes others make meanwhile.            *)

InitStore ==
  [on |-> [u \in Users |-> TRUE], owner |-> [n \in Clients |-> n], up |-> [n \in Clients |-> TRUE],
   managers |-> [n \in Clients |-> {}], tunnel |-> [n \in Clients |-> n], host |-> [n \in Clients |-> 3 - n]]

Init ==
  /\ \E o \in {1, ServiceUser} : store = [InitStore EXCEPT !.owner[1] = o]
  /\ \E g \in Grants : cred = Issue(g, store)
  /\ sock = None /\ req = None /\ begun = 0 /\ moved = 0

\* The requests a behaviour makes: one action of every kind of check.
Probes ==
  LET P(path, m, body, cl) == [path |-> path, method |-> m, body |-> body, client |-> cl] IN
  { P(<<r, "1">>, "GET", b, 0) : r \in {"tunnels", "hosts", "clients"}, b \in {0, 2} } \cup
  { P(<<"hosts">>, "POST", 0, cl) : cl \in {0, 1, 2} }

\* The clients the principal behind a credential may act on, read from the
\* store when the request arrives: what the access decision has to agree with.
Entitled(w, st) ==
  CASE w.kind = "admin" -> Clients
    [] w.kind = "user" -> IF UserAllowed(st, w.uid) THEN ManagedClientIDs(st, w.uid) ELSE {}
    [] w.kind = "client" -> IF ClientAllowed(st, w.uid) THEN {w.uid} ELSE {}
    [] w.kind = "platform" -> IF w.full THEN Clients
                              ELSE OwnedClientIDs(st, ServiceUser) \cap (IF w.role = "admin" THEN Clients ELSE w.wanted)

Serve(via, h, p) ==
  req' = [via |-> via, ask |-> p, actor |-> h.actor, entitled |-> Entitled(h.who, store), verdict |-> {}, phase |-> "ready"]

\* runRequestIdentityMiddleware and nodeAccessMiddleware: the identity is
\* refreshed, the session rewritten or cleared, an anonymous caller refused.  An
\* item of a batch is dispatched like a frame, with the actor of the request.
BeginHTTP(p, via) ==
  LET h == Refreshed(cred, store) IN
  /\ req = None /\ begun < Requests /\ cred # None
  /\ begun' = begun + 1
  /\ cred' = IF cred.mode = "session" THEN h ELSE cred
  /\ IF h = None THEN UNCHANGED req ELSE Serve(via, h, p)
  /\ UNCHANGED <<store, sock, moved>>

\* A bound: once the last request is served nothing more is observed.
Observed == begun < Requests \/ req # None

\* newNodeWSAuthRefresher: the WebSocket keeps what it needs to refresh.
Upgrade ==
  LET h == Refreshed(cred, store) IN
  /\ Observed /\ req = None /\ sock = None /\ cred # None
  /\ cred' = IF cred.mode = "session" THEN h ELSE cred
  /\ sock' = h
  /\ UNCHANGED <<store, req, begun, moved>>

\* A frame: the actor is refreshed first, and a failure closes the socket.
BeginFrame(p) ==
  LET h == Refreshed(sock, store) IN
  /\ req = None /\ begun < Requests /\ sock # None
  /\ begun' = begun + 1
  /\ sock' = h
  /\ IF h = None THEN UNCHANGED req ELSE Serve("ws", h, p)
  /\ UNCHANGED <<store, cred, moved>>

\* The dispatcher decides on what the store holds by then.
Decide ==
  /\ req # None /\ req.phase = "ready"
  /\ req' = [req EXCEPT !.phase = "decided",
               !.verdict = IF req.via = "http" THEN HTTPVerdict(HTTPRoute(req.ask), req.actor, req.ask, store)
                           ELSE WSVerdict(WSRoute(req.ask), req.actor, req.ask, store)]
  /\ UNCHANGED <<store, cred, sock, begun, moved>>

Finish ==
  /\ req # None /\ req.phase = "decided"
  /\ req' = None
  /\ UNCHANGED <<store, cred, sock, begun, moved>>

\* SessionLogout; the platform's token leaves the configuration.
Withdraw ==
  /\ Observed /\ cred # None /\ cred.mode \in {"session", "platform"}
  /\ cred' = None
  /\ sock' = IF cred.mode = "platform" /\ sock # None THEN [sock EXCEPT !.mode = "revoked"] ELSE sock
  /\ UNCHANGED <<store, req, begun, moved>>

\* Other callers' changes: a user switched off or on, a client given to
\* another owner, to a manager, or disabled, a tunnel or host moved.
Mutate ==
  /\ Observed /\ moved < Mutations
  /\ moved' = moved + 1
  /\ \/ store' = [store EXCEPT !.on[1] = ~@]
     \/ \E u \in {0, 2} : store' = [store EXCEPT !.owner[1] = u]
     \/ store' = [store EXCEPT !.managers[2] = IF @ = {} THEN {1} ELSE {}]
     \/ store' = [store EXCEPT !.up[1] = ~@]
     \/ \E t \in {0, 2} : store' = [store EXCEPT !.tunnel[1] = t]
     \/ store' = [store EXCEPT !.host[2] = 2]
  /\ UNCHANGED <<cred, sock, req, begun>>

Next ==
  \/ \E p \in Probes : BeginHTTP(p, "http") \/ BeginHTTP(p, "batch") \/ BeginFrame(p)
  \/ Upgrade \/ Decide \/ Finish \/ Withdraw \/ Mutate

Spec == Init /\ [][Next]_vars
-----------------------------------------------------------------------------
(* Properties.                                                             *)

\* A path and method mean the same over HTTP and in a WebSocket frame: for the
\* actor of a request over HTTP, as it is refreshed when the request arrives,
\* both dispatchers find the same action of the catalogue, or none, and take
\* the same decision, whatever was changed meanwhile (routes of router.go against the direct,
\* managed and resource routes of node_ws_dispatch.go).  A body that carries
\* an id of its own is left out: HTTP lets it win over the path.
SameVerdict ==
  (req # None /\ req.phase = "ready" /\ req.via = "http") =>
    \A q \in Routes, cl \in {0, 1} :
      LET r == [path |-> q.ask.path, method |-> q.ask.method, body |-> 0, client |-> cl]
      IN HTTPVerdict(q.http, req.actor, r, store) = WSVerdict(q.ws, req.actor, r, store)

\* Discovery tells the truth (VisibleActionEntries): an action listed for an
\* actor is refused only for the resource it names, and an action that is not
\* listed is refused, except the callback queue where no platform has one.
ListedIsAllowed ==
  (req # None /\ req.phase = "ready") =>
    \A c \in Catalogue, queues \in BOOLEAN :
      LET may == ScopeAllowed(c, req.actor) /\ HandlerAllows(c, req.actor)
                   /\ (c.perm = <<>> \/ Allows(req.actor, c.perm))
      IN /\ Visible(c, req.actor, queues) => may
         /\ may => Visible(c, req.actor, queues) \/ c.res = "callbacks_queue"

\* What an actor may do does not depend on how it asks: over HTTP, in a
\* WebSocket frame, or by reading the catalogue first.
VerdictsAgree == SameVerdict /\ ListedIsAllowed

\* Taking a right away ends it: a granted request touches only clients its
\* principal was entitled to when the request or the frame arrived, whatever
\* the session, the token or the WebSocket remembers from before (the refresh
\* in syncRequestSessionActor, resolveStandaloneTokenActorIdentity and
\* nodeWSAuthRefresher.Refresh).
RevokedIsRefused ==
  req # None => \A v \in req.verdict : v.ok => v.touched \subseteq req.entitled

-----------------------------------------------------------------------------
(* The proof of RevokedIsRefused, for any number of requests and of         *)
(* changes.  A credential and a WebSocket remember an actor of their         *)
(* principal's kind, which has the administrator's permission only when the  *)
(* principal is an administrator or a platform with full control; so the     *)
(* actor that a refresh gives has no client the principal is not entitled to *)
(* when it is made, and what is decided later is decided for that actor.     *)
Permissions == RoleUser \cup {All, Admin, Global}
Actors ==
  [kind : {"admin", "user", "client", "platform_admin", "platform_user"}, admin : BOOLEAN, ids : SUBSET Clients,
   perms : SUBSET Permissions, uid : Nat]

\* What is remembered for a principal.
Remembers(w, m, a) ==
  CASE w.kind = "admin" -> m # "platform" /\ a.kind = "admin"
    [] w.kind = "user" -> m # "platform" /\ a.kind = "user" /\ a.uid = w.uid /\ a.perms = RoleUser
    [] w.kind = "client" -> m # "platform" /\ a.kind = "client" /\ a.uid = w.uid /\ a.perms = RoleClient
    [] OTHER -> m \in {"platform", "revoked"}
Holder(h) ==
  \/ h = None
  \/ /\ h \in [mode : {"session", "token", "platform", "revoked"}, who : Grants, actor : Actors]
     /\ Remembers(h.who, h.mode, h.actor)

\* The actor of a request stays within the clients E.
Fits(a, E) == (Allows(a, Admin) => Clients \subseteq E) /\ a.ids \subseteq E

RequestFits ==
  req # None => req.actor \in Actors /\ Fits(req.actor, req.entitled) /\ \A v \in req.verdict : v.ok => v.touched \subseteq req.entitled

IInv == Holder(cred) /\ Holder(sock) /\ RequestFits

\* The permissions of users and clients are not the administrator's (DefaultRolePermissions).
LEMMA RolesAreNotAdmin ==
  RoleClient \subseteq RoleUser /\ \A g \in RoleUser : ~matchPermission(g, Admin)
<1>1. ASSUME NEW r, NEW p, NEW g \in r \X p PROVE g[1] \in r /\ g[2] \in p
  OBVIOUS
<1>2. \A g \in RoleUser : g[1] \in {"clients", "tunnels", "hosts"} /\ g[2] \in {"create", "read", "update", "delete", "status", "control"}
  BY <1>1 DEF RoleUser
<1>3. <<"clients", "read">> \in RoleUser
  BY DEF RoleUser
<1>4. All[1] = "*" /\ Admin[1] = "management"
  BY DEF All, Admin
<1>5. \A g \in RoleUser : g # All /\ g # Admin /\ g[2] # "*"
  BY <1>2, <1>4
<1> QED
  BY <1>3, <1>5 DEF matchPermission, RoleClient

\* NormalizePrincipal leaves an actor with such permissions as it is.
LEMMA PlainActor ==
  ASSUME NEW kind, NEW ids, NEW perms \in {RoleUser, RoleClient}, NEW uid
  PROVE  Actor(kind, FALSE, ids, perms, uid) = [kind |-> kind, admin |-> FALSE, ids |-> ids, perms |-> perms, uid |-> uid]
BY RolesAreNotAdmin DEF Actor

\* platformActorFromLookup stays within the platform's clients.
LEMMA PlatformFits ==
  ASSUME NEW g \in Grants, g.kind = "platform", NEW st
  PROVE  PlatformActor(g, st) \in Actors /\ Fits(PlatformActor(g, st), Entitled(g, st))
<1>1. g.role \in {"admin", "user"} /\ g.full \in BOOLEAN /\ g.wanted \subseteq Clients
  BY GrantsAssumption
<1>2. OwnedClientIDs(st, ServiceUser) \subseteq Clients
  BY DEF OwnedClientIDs
<1>3. Entitled(g, st) = IF g.full THEN Clients
                        ELSE OwnedClientIDs(st, ServiceUser) \cap (IF g.role = "admin" THEN Clients ELSE g.wanted)
  BY DEF Entitled
<1>4. CASE g.role = "admin" /\ g.full
  <2>1. PlatformActor(g, st) = [kind |-> "platform_admin", admin |-> TRUE, ids |-> {}, perms |-> {All}, uid |-> 0]
    BY <1>4 DEF PlatformActor, Actor
  <2> QED
    BY <2>1, <1>3, <1>4 DEF Actors, Fits, Permissions
<1>5. CASE g.role = "admin" /\ ~g.full
  <2>1. PlatformActor(g, st) = [kind |-> "platform_admin", admin |-> FALSE, ids |-> OwnedClientIDs(st, ServiceUser), perms |-> RoleUser, uid |-> 0]
    BY <1>5, <1>1, PlainActor DEF PlatformActor
  <2> QED
    BY <2>1, <1>2, <1>3, <1>5, RolesAreNotAdmin DEF Actors, Permissions, Fits, Allows
<1>6. CASE g.role = "user"
  <2>1. PlatformActor(g, st) = [kind |-> "platform_user", admin |-> FALSE, ids |-> g.wanted \cap OwnedClientIDs(st, ServiceUser), perms |-> RoleUser, uid |-> 0]
    BY <1>6, PlainActor DEF PlatformActor
  <2> QED
    BY <2>1, <1>1, <1>2, <1>3, <1>6, RolesAreNotAdmin DEF Actors, Permissions, Fits, Allows
<1> QED
  BY <1>1, <1>4, <1>5, <1>6


\* A login or a token is its holder's.
LEMMA IssuedHolds == ASSUME NEW g \in Grants, NEW st PROVE Holder(Issue(g, st))
<1>1. ASSUME NEW a \in Actors, Issue(g, st) = [mode |-> g.mode, who |-> g, actor |-> a], Remembers(g, g.mode, a)
      PROVE  Holder(Issue(g, st))
  BY <1>1, GrantsAssumption DEF Holder
<1>2. CASE g.kind = "admin"
  <2>1. PICK a : a = [kind |-> "admin", admin |-> TRUE, ids |-> {}, perms |-> {All, Admin, Global}, uid |-> 0]
    OBVIOUS
  <2>2. Issue(g, st) = [mode |-> g.mode, who |-> g, actor |-> a]
    BY <1>2, <2>1 DEF Issue, Actor
  <2>3. a \in Actors /\ a.kind = "admin"
    BY <2>1 DEF Actors, Permissions
  <2>4. Remembers(g, g.mode, a)
    BY <1>2, <2>3, GrantsAssumption DEF Remembers
  <2> QED
    BY <1>1, <2>2, <2>3, <2>4
<1>3. CASE g.kind = "user"
  <2>1. PICK a : a = [kind |-> "user", admin |-> FALSE, ids |-> ManagedClientIDs(st, g.uid), perms |-> RoleUser, uid |-> g.uid]
    OBVIOUS
  <2>2. Issue(g, st) = [mode |-> g.mode, who |-> g, actor |-> a]
    BY <1>3, <2>1, PlainActor DEF Issue
  <2>3. ManagedClientIDs(st, g.uid) \subseteq Clients /\ g.uid \in Nat /\ g.mode # "platform"
    BY <1>3, GrantsAssumption DEF ManagedClientIDs, Users
  <2>4. a \in Actors
    BY <2>1, <2>3 DEF Actors, Permissions
  <2>5. Remembers(g, g.mode, a)
    BY <1>3, <2>1, <2>3 DEF Remembers
  <2> QED
    BY <1>1, <2>2, <2>4, <2>5
<1>4. CASE g.kind = "client"
  <2>1. PICK a : a = [kind |-> "client", admin |-> FALSE, ids |-> {g.uid}, perms |-> RoleClient, uid |-> g.uid]
    OBVIOUS
  <2>2. Issue(g, st) = [mode |-> g.mode, who |-> g, actor |-> a]
    BY <1>4, <2>1, PlainActor DEF Issue
  <2>3. g.uid \in Clients /\ g.uid \in Nat /\ g.mode # "platform"
    BY <1>4, GrantsAssumption DEF Clients
  <2>4. a \in Actors
    BY <2>1, <2>3, RolesAreNotAdmin DEF Actors, Permissions
  <2>5. Remembers(g, g.mode, a)
    BY <1>4, <2>1, <2>3 DEF Remembers
  <2> QED
    BY <1>1, <2>2, <2>4, <2>5
<1>5. CASE g.kind = "platform"
  BY <1>1, <1>5, PlatformFits, GrantsAssumption DEF Issue, Remembers
<1> QED
  BY <1>2, <1>3, <1>4, <1>5, GrantsAssumption

\* A refresh gives nothing, or an actor of the same principal within what the store entitles it to.
LEMMA RefreshedFits ==
  ASSUME NEW h, Holder(h), NEW st, Refreshed(h, st) # None
  PROVE  /\ Holder(Refreshed(h, st)) /\ Refreshed(h, st).who = h.who
         /\ Refreshed(h, st).actor \in Actors
         /\ Fits(Refreshed(h, st).actor, Entitled(h.who, st))
<1> DEFINE k == Refreshed(h, st)
<1>1. /\ h \in [mode : {"session", "token", "platform", "revoked"}, who : Grants, actor : Actors]
      /\ Remembers(h.who, h.mode, h.actor) /\ h.mode # "revoked"
  BY DEF Holder, Refreshed
<1>2. h.who.kind \in {"admin", "user", "client", "platform"}
  BY <1>1, GrantsAssumption
<1>3. ASSUME NEW a \in Actors, k = [h EXCEPT !.actor = a], Remembers(h.who, h.mode, a) PROVE Holder(k) /\ k.who = h.who /\ k.actor = a
  BY <1>1, <1>3 DEF Holder
<1>4. CASE h.who.kind = "platform"
  <2>1. h.mode = "platform"
    BY <1>1, <1>4 DEF Remembers
  <2>2. k = [h EXCEPT !.actor = PlatformActor(h.who, st)]
    BY <2>1 DEF Refreshed
  <2>3. Remembers(h.who, h.mode, PlatformActor(h.who, st))
    BY <2>1, <1>4 DEF Remembers
  <2> QED
    BY <1>1, <1>3, <1>4, <2>2, <2>3, PlatformFits
<1>5. CASE h.who.kind # "platform"
  <2>1. h.mode # "platform"
    BY <1>1, <1>2, <1>5 DEF Remembers
  <2>2. k = [h EXCEPT !.actor = RefreshIdentity(h.actor, st)] /\ RefreshIdentity(h.actor, st) # Anonymous
    BY <2>1, <1>1 DEF Refreshed
  <2>3. CASE h.who.kind = "admin"
    <3>1. RefreshIdentity(h.actor, st) = h.actor
      BY <1>1, <2>3 DEF Remembers, RefreshIdentity
    <3>2. Entitled(h.who, st) = Clients
      BY <2>3 DEF Entitled
    <3> QED
      BY <1>1, <1>3, <2>2, <3>1, <3>2 DEF Fits, Actors
  <2>4. CASE h.who.kind = "user"
    <3>1. h.actor.kind = "user" /\ h.actor.uid = h.who.uid /\ h.actor.perms = RoleUser
      BY <1>1, <2>4 DEF Remembers
    <3>2. RefreshIdentity(h.actor, st) = [h.actor EXCEPT !.ids = ManagedClientIDs(st, h.who.uid)] /\ UserAllowed(st, h.who.uid)
      BY <2>2, <3>1 DEF RefreshIdentity
    <3>3. PICK a : a = RefreshIdentity(h.actor, st)
      OBVIOUS
    <3>4. ManagedClientIDs(st, h.who.uid) \subseteq Clients
      BY DEF ManagedClientIDs
    <3>5. /\ a \in Actors /\ a.kind = "user" /\ a.uid = h.who.uid /\ a.perms = RoleUser
          /\ a.ids = ManagedClientIDs(st, h.who.uid)
      BY <1>1, <3>1, <3>2, <3>3, <3>4 DEF Actors
    <3>6. Remembers(h.who, h.mode, a)
      BY <3>5, <2>1, <2>4 DEF Remembers
    <3>7. Entitled(h.who, st) = ManagedClientIDs(st, h.who.uid)
      BY <2>4, <3>2 DEF Entitled
    <3>8. Fits(a, Entitled(h.who, st))
      BY <3>5, <3>7, RolesAreNotAdmin DEF Fits, Allows
    <3> QED
      BY <1>3, <2>2, <3>3, <3>5, <3>6, <3>8
  <2>5. CASE h.who.kind = "client"
    <3>1. h.actor.kind = "client" /\ h.actor.uid = h.who.uid /\ h.actor.perms = RoleClient /\ h.who.uid \in Clients
      BY <1>1, <2>5, GrantsAssumption DEF Remembers
    <3>2. RefreshIdentity(h.actor, st) = [h.actor EXCEPT !.ids = {h.who.uid}] /\ ClientAllowed(st, h.who.uid)
      BY <2>2, <3>1 DEF RefreshIdentity
    <3>3. PICK a : a = RefreshIdentity(h.actor, st)
      OBVIOUS
    <3>4. a \in Actors /\ a.kind = "client" /\ a.uid = h.who.uid /\ a.perms = RoleClient /\ a.ids = {h.who.uid}
      BY <1>1, <3>1, <3>2, <3>3 DEF Actors
    <3>5. Remembers(h.who, h.mode, a)
      BY <3>4, <2>1, <2>5 DEF Remembers
    <3>6. Entitled(h.who, st) = {h.who.uid}
      BY <2>5, <3>2 DEF Entitled
    <3>7. Fits(a, Entitled(h.who, st))
      BY <3>4, <3>6, RolesAreNotAdmin DEF Fits, Allows
    <3> QED
      BY <1>3, <2>2, <3>3, <3>4, <3>5, <3>7
  <2> QED
    BY <1>2, <1>5, <2>3, <2>4, <2>5
<1> QED
  BY <1>4, <1>5

\* What a managed action's entry in the catalogue lacks: a permission, a scope and an owner to check.
Bare(c) == c.perm = <<>> /\ ~c.scoped /\ c.own = "none"
OfResource(c, r) == c.res = r
LEMMA ManagedIsBare ==
  /\ \A c \in Catalogue : Managed(c) => Bare(c)
  /\ \A c \in SinkActions : c.res \in {"callbacks_queue", "webhooks"}
  /\ \A c \in Catalogue : c.res \in {"callbacks_queue", "webhooks"} => c \in SinkActions
<1>1. \A res, act, method, path : Bare(Act(res, act, method, path, <<>>, FALSE, "none"))
  BY DEF Act, Bare
<1>2. \A res, act, method, path, perm, scoped, own : OfResource(Act(res, act, method, path, perm, scoped, own), res)
  BY DEF Act, OfResource
<1>3. \A c \in SinkActions : Bare(c) /\ \E r \in {"callbacks_queue", "webhooks"} : OfResource(c, r)
  BY <1>1, <1>2, Zenon DEF SinkActions
<1>4. \A c \in SystemActions : Bare(c) /\ \E r \in {"system", "traffic"} : OfResource(c, r)
  BY <1>1, <1>2, Zenon DEF SystemActions
<1>5. \A r, own : \A c \in ProxyActions(r, own) : OfResource(c, r)
  BY <1>2, Zenon DEF ProxyActions
<1>6. \A c \in ClientActions : OfResource(c, "clients")
  BY <1>2, Zenon DEF ClientActions
<1>7. \A c \in AdminActions : \E r \in {"users", "settings_global", "security_bans"} : OfResource(c, r)
  BY <1>2, Zenon DEF AdminActions
<1>8. OfResource(CertSuggestion, "hosts")
  BY <1>2 DEF CertSuggestion
<1>9. \A c \in Catalogue : \/ c \in SinkActions \/ c \in SystemActions
                           \/ \E r \in {"tunnels", "hosts", "clients", "users", "settings_global", "security_bans"} : OfResource(c, r)
  BY <1>5, <1>6, <1>7, <1>8 DEF Catalogue
<1>10. \A c \in SinkActions : c.res \in {"callbacks_queue", "webhooks"}
  BY <1>3 DEF OfResource
<1>11. \A c \in Catalogue : c.res \in {"callbacks_queue", "webhooks"} => c \in SinkActions
  BY <1>4, <1>9 DEF OfResource
<1>12. \A c \in Catalogue : c.res = "system" => Bare(c)
  BY <1>3, <1>4, <1>9 DEF OfResource
<1> QED
  BY <1>3, <1>10, <1>11, <1>12 DEF Managed

\* A decision for an actor within E touches nothing outside E.
LEMMA DecisionFits ==
  ASSUME NEW c, NEW a, NEW E, Fits(a, E), NEW access, NEW id, NEW st, access.ok,
         access.client = 0 \/ access.client \in a.ids \/ Allows(a, Admin),
         id = 0 \/ Owns(c.own, a, id, st)
  PROVE  Touched(c, access, id, st) \subseteq E
<1> SUFFICES ASSUME NEW n \in Touched(c, access, id, st), ~Allows(a, Admin) PROVE n \in a.ids
  BY DEF Fits, Touched
<1>1. n \in Clients /\ n # 0
  BY DEF Touched, Clients
<1>2. CASE access.client = n
  BY <1>1, <1>2
<1>3. CASE access.client # n
  <2>1. id > 0 /\ CASE c.own = "client" -> id = n
                    [] c.own = "tunnel" -> st.tunnel[id] = n
                    [] c.own = "host" -> st.host[id] = n
                    [] OTHER -> FALSE
    BY <1>3 DEF Touched
  <2>2. Owns(c.own, a, id, st)
    BY <2>1
  <2> QED
    BY <2>1, <2>2 DEF Owns
<1> QED
  BY <1>2, <1>3

\* ResolveProtectedActionAccess grants the client of the scope, which is one of the actor's.
LEMMA AccessFits ==
  ASSUME NEW c, NEW a, NEW wanted, NEW id, NEW st, NEW access,
         access = ResolveProtectedActionAccess(c, a, wanted, id, st), access.ok
  PROVE  /\ access.client = 0 \/ access.client \in a.ids \/ Allows(a, Admin)
         /\ id = 0 \/ Owns(c.own, a, id, st)
<1>1. PICK s : s = IF c.scoped THEN ResolveClient(a, wanted) ELSE Granted(0)
  OBVIOUS
<1>2. access = s /\ (id = 0 \/ Owns(c.own, a, id, st))
  BY <1>1 DEF ResolveProtectedActionAccess, Refused
<1>3. CASE ~c.scoped
  BY <1>1, <1>2, <1>3 DEF Granted
<1>4. CASE c.scoped
  <2>1. s = ResolveClient(a, wanted) /\ s.ok
    BY <1>1, <1>2, <1>4
  <2> QED
    BY <1>2, <2>1 DEF ResolveClient, Granted, Refused
<1> QED
  BY <1>3, <1>4

\* Over HTTP and in a frame what is granted is within E.
LEMMA VerdictFits ==
  ASSUME NEW a, NEW E, Fits(a, E), NEW r, NEW st, NEW v,
         v \in HTTPVerdict(HTTPRoute(r), a, r, st) \/ v \in WSVerdict(WSRoute(r), a, r, st), v.ok
  PROVE  v.touched \subseteq E
<1>1. PICK c, access, id :
        /\ c \in Catalogue /\ v = Outcome(c, access, id, st)
        /\ \/ access = HTTPAccess(c, a, r, st) /\ id = HTTPId(c, r)
           \/ access = WSAccess(c, a, r, st) /\ id = WSId(c, r)
  <2>1. CASE v \in HTTPVerdict(HTTPRoute(r), a, r, st)
    <3>1. PICK c \in HTTPRoute(r) : v = Outcome(c, HTTPAccess(c, a, r, st), HTTPId(c, r), st)
      BY <2>1 DEF HTTPVerdict
    <3>2. c \in Catalogue
      BY DEF HTTPRoute
    <3> QED
      BY <3>1, <3>2
  <2>2. CASE v \in WSVerdict(WSRoute(r), a, r, st)
    <3>1. PICK c \in WSRoute(r) : v = Outcome(c, WSAccess(c, a, r, st), WSId(c, r), st)
      BY <2>2 DEF WSVerdict
    <3>2. c \in Catalogue
      BY DEF WSRoute
    <3> QED
      BY <3>1, <3>2
  <2> QED
    BY <2>1, <2>2
<1>2. access.ok /\ v.touched = Touched(c, access, id, st)
  BY <1>1 DEF Outcome
<1>3. CASE access = ResolveProtectedActionAccess(c, a, r.client, id, st)
  BY <1>2, <1>3, AccessFits, DecisionFits
<1>4. CASE access # ResolveProtectedActionAccess(c, a, r.client, id, st)
  <2>1. Managed(c) /\ access = Granted(0)
    BY <1>1, <1>2, <1>4 DEF HTTPAccess, WSAccess, Refused
  <2>2. access.client = 0 /\ c.own = "none"
    BY <1>1, <2>1, ManagedIsBare DEF Granted, Bare
  <2>3. Owns(c.own, a, id, st)
    BY <2>2 DEF Owns
  <2> QED
    BY <1>2, <2>2, <2>3, DecisionFits
<1> QED
  BY <1>3, <1>4

LEMMA InitIInv == Init => IInv
<1> SUFFICES ASSUME Init PROVE IInv
  OBVIOUS
<1>1. PICK g \in Grants : cred = Issue(g, store)
  BY DEF Init
<1>2. Holder(cred) /\ Holder(None)
  BY <1>1, IssuedHolds DEF Holder
<1> QED
  BY <1>2 DEF Init, IInv, RequestFits

\* A request that begins has the actor of a refresh and nothing granted yet.
LEMMA ServeFits ==
  ASSUME NEW h, Holder(h), Refreshed(h, store) # None, NEW via, NEW p, Serve(via, Refreshed(h, store), p)
  PROVE  RequestFits'
<1>1. PICK k : k = Refreshed(h, store)
  OBVIOUS
<1>2. k.actor \in Actors /\ k.who = h.who /\ Fits(k.actor, Entitled(h.who, store))
  BY <1>1, RefreshedFits
<1>3. req' = [via |-> via, ask |-> p, actor |-> k.actor, entitled |-> Entitled(h.who, store), verdict |-> {}, phase |-> "ready"]
  BY <1>1, <1>2 DEF Serve
<1> QED
  BY <1>2, <1>3 DEF RequestFits

LEMMA NextKeeps == IInv /\ [Next]_vars => IInv'
<1> SUFFICES ASSUME IInv, [Next]_vars PROVE IInv'
  OBVIOUS
<1>1. ASSUME NEW h, Holder(h) PROVE Holder(Refreshed(h, store))
  <2>1. Holder(None)
    BY DEF Holder
  <2> QED
    BY <1>1, <2>1, RefreshedFits
<1>2. ASSUME UNCHANGED <<cred, sock, req>> PROVE IInv'
  BY <1>2 DEF IInv, Holder, RequestFits
<1>3. CASE \E p \in Probes : BeginHTTP(p, "http") \/ BeginHTTP(p, "batch")
  <2>1. PICK p, via : BeginHTTP(p, via)
    BY <1>3
  <2>2. Holder(cred') /\ sock' = sock
    BY <2>1, <1>1 DEF BeginHTTP, IInv
  <2>3. RequestFits'
    BY <2>1, ServeFits DEF BeginHTTP, IInv, RequestFits
  <2> QED
    BY <2>2, <2>3 DEF IInv
<1>4. CASE \E p \in Probes : BeginFrame(p)
  <2>1. PICK p : BeginFrame(p)
    BY <1>4
  <2>2. Holder(sock') /\ cred' = cred
    BY <2>1, <1>1 DEF BeginFrame, IInv
  <2>3. RequestFits'
    BY <2>1, ServeFits DEF BeginFrame, IInv, RequestFits
  <2> QED
    BY <2>2, <2>3 DEF IInv
<1>5. CASE Upgrade
  BY <1>1, <1>5 DEF Upgrade, IInv, RequestFits
<1>6. CASE Decide
  <2>1. PICK V : /\ req' = [req EXCEPT !.phase = "decided", !.verdict = V]
                 /\ V = IF req.via = "http" THEN HTTPVerdict(HTTPRoute(req.ask), req.actor, req.ask, store)
                        ELSE WSVerdict(WSRoute(req.ask), req.actor, req.ask, store)
    BY <1>6 DEF Decide
  <2>2. req # None /\ req.actor \in Actors /\ Fits(req.actor, req.entitled) /\ cred' = cred /\ sock' = sock
    BY <1>6 DEF Decide, IInv, RequestFits
  <2>3. \A v \in V : v.ok => v.touched \subseteq req.entitled
    BY <2>1, <2>2, VerdictFits
  <2>4. req'.actor = req.actor /\ req'.entitled = req.entitled /\ (req'.verdict = V \/ req'.verdict = req.verdict)
    BY <2>1
  <2> QED
    BY <2>2, <2>3, <2>4 DEF IInv, RequestFits
<1>7. CASE Finish
  BY <1>7 DEF Finish, IInv, RequestFits
<1>8. CASE Withdraw
  <2>1. Holder(cred') /\ req' = req
    <3>1. Holder(None)
      BY DEF Holder
    <3> QED
      BY <1>8, <3>1 DEF Withdraw
  <2>2. Holder(sock')
    <3>1. CASE sock' = sock
      BY <3>1 DEF IInv
    <3>2. CASE sock # None /\ sock' = [sock EXCEPT !.mode = "revoked"]
      <4>1. /\ sock \in [mode : {"session", "token", "platform", "revoked"}, who : Grants, actor : Actors]
            /\ Remembers(sock.who, sock.mode, sock.actor)
        BY <3>2 DEF IInv, Holder
      <4>2. Remembers(sock.who, "revoked", sock.actor)
        BY <4>1 DEF Remembers
      <4> QED
        BY <3>2, <4>1, <4>2 DEF Holder
    <3> QED
      BY <1>8, <3>1, <3>2 DEF Withdraw
  <2> QED
    BY <2>1, <2>2 DEF IInv, RequestFits
<1>9. CASE Mutate
  BY <1>2, <1>9 DEF Mutate
<1>10. CASE UNCHANGED vars
  BY <1>2, <1>10 DEF vars
<1> QED
  BY <1>3, <1>4, <1>5, <1>6, <1>7, <1>8, <1>9, <1>10 DEF Next

\* Whatever is taken away, however often and at whichever moment between requests, frames and decisions: what is granted
\* was the caller's when the request or frame arrived (syncRequestSessionActor, nodeWSAuthRefresher.Refresh).
THEOREM RevokedIsRefusedAlways == Spec => []RevokedIsRefused
<1>1. IInv => RevokedIsRefused
  BY DEF IInv, RequestFits, RevokedIsRefused
<1> QED
  BY InitIInv, NextKeeps, <1>1, PTL DEF Spec

\* Discovery and the access checks agree for every actor and every entry (VisibleActionEntries, ScopeAllowed).
THEOREM ListedIsAllowedAlways == Spec => []ListedIsAllowed
<1>1. IInv => ListedIsAllowed
  <2> SUFFICES ASSUME NEW c \in Catalogue, NEW queues \in BOOLEAN, NEW a \in Actors
               PROVE  LET may == ScopeAllowed(c, a) /\ HandlerAllows(c, a) /\ (c.perm = <<>> \/ Allows(a, c.perm))
                      IN /\ Visible(c, a, queues) => may
                         /\ may => Visible(c, a, queues) \/ c.res = "callbacks_queue"
    BY DEF IInv, RequestFits, ListedIsAllowed
  <2>1. a.kind # "anonymous"
    BY DEF Actors
  <2>2. VisibleByScope(c, a, queues) => ScopeAllowed(c, a) /\ HandlerAllows(c, a)
    BY DEF VisibleByScope, ScopeAllowed, HandlerAllows
  <2>3. ScopeAllowed(c, a) /\ HandlerAllows(c, a) => VisibleByScope(c, a, queues) \/ c.res = "callbacks_queue"
    BY DEF VisibleByScope, ScopeAllowed, HandlerAllows
  <2> QED
    BY <2>1, <2>2, <2>3 DEF Visible
<1> QED
  BY InitIInv, NextKeeps, <1>1, PTL DEF Spec

\* An action that both dispatchers find is granted by both or by neither, and for the same client, when the body has no
\* id of its own: the middlewares of router.go and requireNodeWSRouteExecutionAccess decide alike.
THEOREM SameDecision ==
  ASSUME NEW c \in Catalogue, NEW a \in Actors, NEW r, r.body = 0, PathId(c, r) \in Nat, NEW st
  PROVE  HTTPId(c, r) = WSId(c, r) /\ HTTPAccess(c, a, r, st) = WSAccess(c, a, r, st)
<1>1. HTTPId(c, r) = PathId(c, r) /\ WSId(c, r) = PathId(c, r)
  BY DEF HTTPId, WSId
<1>2. CASE Managed(c)
  <2>1. Bare(c)
    BY <1>2, ManagedIsBare
  <2>2. HandlerAllows(c, a) => ScopeAllowed(c, a)
    BY <1>2, ManagedIsBare DEF HandlerAllows, ScopeAllowed, Managed
  <2>3. ResolveProtectedActionAccess(c, a, r.client, HTTPId(c, r), st) = Granted(0)
    BY <2>1 DEF ResolveProtectedActionAccess, Granted, Owns, Bare
  <2> QED
    BY <1>1, <1>2, <2>2, <2>3 DEF HTTPAccess, WSAccess
<1>3. CASE ~Managed(c)
  <2>1. HandlerAllows(c, a)
    BY <1>3, ManagedIsBare DEF HandlerAllows, Managed
  <2> QED
    BY <1>1, <1>3, <2>1 DEF HTTPAccess, WSAccess
<1> QED
  BY <1>2, <1>3
=============================================================================
