------------------------------ MODULE FileStore ------------------------------
(***************************************************************************)
(* lib/file: the store of users, clients, tunnels ("tasks") and hosts.     *)
(* Each table is a map from ids to records beside the indexes that answer  *)
(* its look-ups and its id counter; every change ends in rewriting the     *)
(* files of the tables it touched, at once or, inside a window of deferred *)
(* persistence, when the window ends.  A start and an import load records  *)
(* one by one into empty tables.  A crash keeps the files and nothing else.*)
(* Records carry what look-ups and references tell apart.  A user's birth  *)
(* and a client's ownerBirth are history, not data of the program.         *)
(***************************************************************************)
EXTENDS Integers, Sequences, TLAPS

CONSTANTS Names, Platforms, Keys, Passwords, HostNames,
          Snapshots,  \* configurations that may be imported, as sequences of records
          Starts,     \* contents of the files at the first start, consistent
          MaxId,      \* ids given out per table
          MaxSteps    \* operations, windows, imports and restarts of a behaviour

VARIABLES db,      \* the four tables: map, indexes and id counter
          disk,    \* the files
          depth,   \* open windows of deferred persistence
          dirty,   \* tables the windows have to write
          todo,    \* tables the running operation has still to write
          loading, \* "start" or "import" while records are loaded, else "no"
          load,    \* the records still to load, each with its place in the order
          source,  \* history: all records of the running load
          shown,   \* history: the tables before the running load
          births,  \* history: users made so far
          half,    \* history: the users file of an operation is written, its clients file is not
          cut,     \* history: a crash came then, or an import brought a client without its owner
          skipped, \* history: records of the files the last start left out
          steps

None == "none"
Tables == {"users", "clients", "tasks", "hosts"}
Rank == [users |-> 1, clients |-> 2, tasks |-> 3, hosts |-> 4]
Schemes == {"all", "http", "https"}

loadVars == <<loading, load, source, shown>>
vars == <<db, disk, depth, dirty, todo, loadVars, births, half, cut, skipped, steps>>

RowSet(d) == {d.rows[i] : i \in DOMAIN d.rows}
Rows(t) == RowSet(db[t])
AllRows == [t \in Tables |-> Rows(t)]
Tabled(s) == [t \in Tables |-> {s[t][i] : i \in DOMAIN s[t]}]
Visible == IF loading = "no" THEN AllRows ELSE shown
Abstract == INSTANCE FileTables WITH mem <- Visible, Snapshots <- {Tabled(s) : s \in Snapshots}

Ids == Nat \ {0}
UserRecord == [id : Ids, name : Names, platform : Platforms \union {None}, birth : Nat, noStore : {FALSE}]
ClientRecord == [id : Ids, key : Keys, owner : Nat, ownerBirth : Nat, managers : SUBSET Nat, noStore : BOOLEAN]
TaskRecord == [id : Ids, client : Nat, password : Passwords \union {None}, noStore : BOOLEAN]
HostRecord == [id : Ids, client : Nat, name : HostNames, scheme : Schemes, noStore : BOOLEAN]
RecordOf == [users |-> UserRecord, clients |-> ClientRecord, tasks |-> TaskRecord, hosts |-> HostRecord]

(* Records of a configuration, none of a user this model has seen made. *)
Configured(m) ==
  /\ \A t \in Tables : m[t] \subseteq RecordOf[t]
  /\ \A u \in m.users : u.birth = 0
  /\ \A c \in m.clients : c.ownerBirth = 0

ASSUME StoreAssumption ==
  /\ None \notin Names \union Platforms \union Keys \union Passwords
  /\ \A s \in Snapshots : Configured(Tabled(s))
  /\ \A s \in Starts :
       /\ s = [t \in Tables |-> s[t]]
       /\ Configured(s) /\ Abstract!Consistent(s)
       /\ \A t \in Tables : \A r \in s[t] : ~ r.noStore
       /\ \A c \in s.clients : c.owner \in {0} \union Abstract!Ids(s.users)

-----------------------------------------------------------------------------
Put(f, k, v) == [x \in DOMAIN f \union {k} |-> IF x = k THEN v ELSE f[x]]
Drop(f, k) == [x \in DOMAIN f \ {k} |-> f[x]]

(* StringIDIndex: the entry of a key is added and removed only if there is one. *)
Enter(f, k, id) == IF k = None THEN f ELSE Put(f, k, id)
Leave(f, k, id) == IF k \in DOMAIN f /\ f[k] = id THEN Drop(f, k) ELSE f
TakenBy(f, k, id) == k # None /\ k \in DOMAIN f /\ f[k] # id

(* groupIDIndex: pairs of a group and a member; group 0 is never entered. *)
Group(idx, g, id) == IF g = 0 THEN idx ELSE idx \union {<<g, id>>}
Ungroup(idx, id) == {p \in idx : p[2] # id}
Members(idx, g) == {p[2] : p \in {q \in idx : q[1] = g}}

Empty == [x \in {} |-> x]
EmptyDb ==
  [users |-> [rows |-> Empty, byName |-> Empty, byPlatform |-> Empty, last |-> 0],
   clients |-> [rows |-> Empty, byKey |-> Empty, owners |-> {}, managers |-> {}, last |-> 0],
   tasks |-> [rows |-> Empty, byPassword |-> Empty, byClient |-> {}, last |-> 0],
   hosts |-> [rows |-> Empty, byHost |-> {}, byClient |-> {}, last |-> 0]]

Counted(last, id) == IF id > last THEN id ELSE last

ForgetUser(d, id) ==
  IF id \notin DOMAIN d.rows THEN d
  ELSE [rows |-> Drop(d.rows, id), byName |-> Leave(d.byName, d.rows[id].name, id),
        byPlatform |-> Leave(d.byPlatform, d.rows[id].platform, id), last |-> d.last]
KeepUser(d, u) ==
  [rows |-> Put(d.rows, u.id, u), byName |-> Enter(d.byName, u.name, u.id),
   byPlatform |-> Enter(d.byPlatform, u.platform, u.id), last |-> Counted(d.last, u.id)]

ForgetClient(d, id) ==
  IF id \notin DOMAIN d.rows THEN d
  ELSE [rows |-> Drop(d.rows, id), byKey |-> Leave(d.byKey, d.rows[id].key, id),
        owners |-> Ungroup(d.owners, id), managers |-> Ungroup(d.managers, id), last |-> d.last]
ManagerPairs(c) == {<<m, c.id>> : m \in c.managers}
KeepClient(d, c) ==
  [rows |-> Put(d.rows, c.id, c), byKey |-> Enter(d.byKey, c.key, c.id),
   owners |-> Group(d.owners, c.owner, c.id), managers |-> d.managers \union ManagerPairs(c),
   last |-> Counted(d.last, c.id)]

ForgetTaskNotPassword(d, id) ==
  IF id \notin DOMAIN d.rows THEN d
  ELSE [rows |-> Drop(d.rows, id), byPassword |-> d.byPassword,
        byClient |-> d.byClient \ {<<d.rows[id].client, id>>}, last |-> d.last]
ForgetTask(d, id) ==
  IF id \notin DOMAIN d.rows THEN d
  ELSE [rows |-> Drop(d.rows, id), byPassword |-> Leave(d.byPassword, d.rows[id].password, id),
        byClient |-> d.byClient \ {<<d.rows[id].client, id>>}, last |-> d.last]
KeepTask(d, t) ==
  [rows |-> Put(d.rows, t.id, t), byPassword |-> Enter(d.byPassword, t.password, t.id),
   byClient |-> Group(d.byClient, t.client, t.id), last |-> Counted(d.last, t.id)]

(* DomainIndex: a tree of labels holding ids, here pairs of a name and an id. *)
AddName(idx, n, id) == idx \union {<<n, id>>}
RemoveName(idx, n, id) == idx \ {<<n, id>>}

ForgetHost(d, id) ==
  IF id \notin DOMAIN d.rows THEN d
  ELSE [rows |-> Drop(d.rows, id), byHost |-> RemoveName(d.byHost, d.rows[id].name, id),
        byClient |-> d.byClient \ {<<d.rows[id].client, id>>}, last |-> d.last]
KeepHost(d, h) ==
  [rows |-> Put(d.rows, h.id, h), byHost |-> AddName(d.byHost, h.name, h.id),
   byClient |-> Group(d.byClient, h.client, h.id), last |-> Counted(d.last, h.id)]

(* A record stored in place of the one with its id, if there is one. *)
PutUser(d, u) == KeepUser(ForgetUser(d, u.id), u)
PutClient(d, c) == KeepClient(ForgetClient(d, c.id), c)
PutTask(d, t) == KeepTask(ForgetTask(d, t.id), t)
PutHost(d, h) == KeepHost(ForgetHost(d, h.id), h)

(* Loading a record: refused when another id holds its key, its route or when
   its client is not there; a record of the same id is replaced. *)
LoadUser(d, u) ==
  IF TakenBy(d.byName, u.name, u.id) \/ TakenBy(d.byPlatform, u.platform, u.id) THEN d ELSE PutUser(d, u)

LoadClient(d, c) == IF TakenBy(d.byKey, c.key, c.id) THEN d ELSE PutClient(d, c)

LoadTask(d, t) == IF TakenBy(d.byPassword, t.password, t.id) THEN d ELSE PutTask(d, t)

RouteExists(d, h) ==
  \E i \in DOMAIN d.rows \ {h.id} : d.rows[i].name = h.name /\ d.rows[i].scheme \in {"all", h.scheme}

LoadHost(d, h) == IF RouteExists(d, h) THEN d ELSE PutHost(d, h)

-----------------------------------------------------------------------------
(* The end of an operation: the files of the tables ts are to be written,
   unless a window defers them. *)
Store(ts) ==
  IF depth > 0 THEN dirty' = dirty \union ts /\ todo' = todo
               ELSE todo' = ts /\ dirty' = dirty

Idle == loading = "no" /\ todo = {} /\ steps < MaxSteps
Stays == UNCHANGED <<disk, depth, loadVars, half, cut, skipped>>
Operate(d, ts) == Idle /\ db' = d /\ Store(ts) /\ steps' = steps + 1 /\ Stays

NextId(t) == db[t].last + 1
FreeName(n, id) == \A i \in DOMAIN db.users.rows \ {id} : db.users.rows[i].name # n
VerifyVkey(k, id) == \A i \in DOMAIN db.clients.rows \ {id} : db.clients.rows[i].key # k

FreshUser(n, p) == [id |-> NextId("users"), name |-> n, platform |-> p, birth |-> births + 1, noStore |-> FALSE]

NewUser(n) ==
  /\ NextId("users") <= MaxId /\ FreeName(n, 0)
  /\ Operate([db EXCEPT !.users = PutUser(@, FreshUser(n, None))], {"users"})
  /\ births' = births + 1

UpdateUser(id, n) ==
  /\ id \in DOMAIN db.users.rows /\ FreeName(n, id)
  /\ Operate([db EXCEPT !.users = PutUser(@, [db.users.rows[id] EXCEPT !.name = n])], {"users"})
  /\ UNCHANGED births

(* FlushToDisk: every file is written, and no window defers it. *)
Flush == todo' = Tables /\ UNCHANGED dirty

(* The service user of a platform is made if the platform has none; every file is written. *)
EnsureManagementPlatformUsers(p, n) ==
  /\ Idle /\ NextId("users") <= MaxId /\ FreeName(n, 0)
  /\ p \notin {db.users.rows[i].platform : i \in DOMAIN db.users.rows}
  /\ db' = [db EXCEPT !.users = PutUser(@, FreshUser(n, p))]
  /\ births' = births + 1 /\ Flush /\ steps' = steps + 1 /\ Stays

(* The clients a user owns or manages, found through the two indexes. *)
OwnedClients(u) == Members(db.clients.owners, u)
LinkedClients(u) == Members(db.clients.owners, u) \union Members(db.clients.managers, u)

ClearedOf(c, u) ==
  [c EXCEPT !.owner = IF @ = u THEN 0 ELSE @, !.ownerBirth = IF c.owner = u THEN 0 ELSE @, !.managers = @ \ {u}]

(* The rows cs stand in place of those of d, and the entries of the ids ls are made anew. *)
Relinked(d, cs, ls) ==
  [rows |-> cs, byKey |-> d.byKey, last |-> d.last,
   owners |-> {p \in d.owners : p[2] \notin ls} \union {<<cs[i].owner, i>> : i \in {j \in ls : cs[j].owner # 0}},
   managers |-> {p \in d.managers : p[2] \notin ls} \union UNION {ManagerPairs(cs[i]) : i \in ls}]
ClearedRows(d, u) == [i \in DOMAIN d.rows |-> IF i \in LinkedClients(u) THEN ClearedOf(d.rows[i], u) ELSE d.rows[i]]
clearUserReferences(d, u) == Relinked(d, ClearedRows(d, u), LinkedClients(u))

DelUser(id) ==
  /\ id \in DOMAIN db.users.rows
  /\ Operate([db EXCEPT !.users = ForgetUser(@, id), !.clients = clearUserReferences(@, id)],
             IF LinkedClients(id) = {} THEN {"users"} ELSE {"users", "clients"})
  /\ UNCHANGED births

(* The owner is never a manager too (NormalizeOwnership). *)
GivenTo(id, k, o, ms, ns) ==
  [id |-> id, key |-> k, owner |-> o, ownerBirth |-> IF o = 0 THEN 0 ELSE db.users.rows[o].birth,
   managers |-> ms \ {o}, noStore |-> ns]

NewClient(k, o, ms, ns) ==
  /\ NextId("clients") <= MaxId /\ VerifyVkey(k, 0)
  /\ Operate([db EXCEPT !.clients = PutClient(@, GivenTo(NextId("clients"), k, o, ms, ns))], {"clients"})
  /\ UNCHANGED births

UpdateClient(id, k, o, ms) ==
  /\ id \in DOMAIN db.clients.rows /\ VerifyVkey(k, id)
  /\ Operate([db EXCEPT !.clients = PutClient(@, GivenTo(id, k, o, ms, db.clients.rows[id].noStore))], {"clients"})
  /\ UNCHANGED births

HasResources(id) == Members(db.tasks.byClient, id) # {} \/ Members(db.hosts.byClient, id) # {}

DelClient(id) ==
  /\ id \in DOMAIN db.clients.rows /\ ~ HasResources(id)
  /\ Operate([db EXCEPT !.clients = ForgetClient(@, id)], {"clients"})
  /\ UNCHANGED births

(* A password another tunnel holds is replaced by a fresh random one. *)
FreePasswords(p, id) ==
  IF p = None \/ ~ TakenBy(db.tasks.byPassword, p, id) THEN {p}
  ELSE {q \in Passwords : ~ TakenBy(db.tasks.byPassword, q, id)}

NewTask(c, p, ns) ==
  /\ NextId("tasks") <= MaxId /\ c \in DOMAIN db.clients.rows
  /\ \E q \in FreePasswords(p, NextId("tasks")) :
       Operate([db EXCEPT !.tasks = PutTask(@, [id |-> NextId("tasks"), client |-> c, password |-> q, noStore |-> ns])],
               {"tasks"})
  /\ UNCHANGED births

UpdateTask(id, c, p) ==
  /\ id \in DOMAIN db.tasks.rows /\ c \in DOMAIN db.clients.rows
  /\ \E q \in FreePasswords(p, id) :
       Operate([db EXCEPT !.tasks = PutTask(@, [db.tasks.rows[id] EXCEPT !.client = c, !.password = q])], {"tasks"})
  /\ UNCHANGED births

UpdateTaskStatus(id) == id \in DOMAIN db.tasks.rows /\ Operate(db, {"tasks"}) /\ UNCHANGED births

DropTask(id) == Operate([db EXCEPT !.tasks = ForgetTask(@, id)], {"tasks"}) /\ UNCHANGED births
DelTask(id) == id \in DOMAIN db.tasks.rows /\ DropTask(id)

(* The last node of a configuration's tunnel is gone: only a tunnel that is not stored goes too. *)
DeleteNoStoreTaskIfCurrentOwnerless(id) ==
  id \in DOMAIN db.tasks.rows /\ db.tasks.rows[id].noStore /\ DropTask(id)

StoreHost(h) ==
  /\ ~ RouteExists(db.hosts, h)
  /\ Operate([db EXCEPT !.hosts = PutHost(@, h)], {"hosts"})
  /\ UNCHANGED births

NewHost(c, n, sc, ns) ==
  /\ NextId("hosts") <= MaxId /\ c \in DOMAIN db.clients.rows
  /\ StoreHost([id |-> NextId("hosts"), client |-> c, name |-> n, scheme |-> sc, noStore |-> ns])

UpdateHost(id, c, n, sc) ==
  /\ id \in DOMAIN db.hosts.rows /\ c \in DOMAIN db.clients.rows
  /\ StoreHost([db.hosts.rows[id] EXCEPT !.client = c, !.name = n, !.scheme = sc])

DropHost(id) == Operate([db EXCEPT !.hosts = ForgetHost(@, id)], {"hosts"}) /\ UNCHANGED births
DelHost(id) == id \in DOMAIN db.hosts.rows /\ DropHost(id)

DeleteNoStoreHostIfCurrentOwnerless(id) ==
  id \in DOMAIN db.hosts.rows /\ db.hosts.rows[id].noStore /\ DropHost(id)

-----------------------------------------------------------------------------
(* A load empties the tables and takes the records one by one, users first. *)
StartLoad(kind, records, all) ==
  /\ db' = EmptyDb /\ loading' = kind /\ load' = records /\ source' = all /\ shown' = Visible

Pending(t) == {e[2] : e \in load[t]}
Turn(t) == loading # "no" /\ \A o \in Tables : Rank[o] < Rank[t] => load[o] = {}
First(t) == {e \in load[t] : \A f \in load[t] : e[1] <= f[1]}
Loaded(t, e, d) ==
  /\ Turn(t)
  /\ db' = [db EXCEPT ![t] = d] /\ load' = [load EXCEPT ![t] = @ \ {e}]
  /\ UNCHANGED <<disk, depth, dirty, todo, loading, source, shown, births, half, cut, skipped, steps>>

Present(r, d, e) == IF r.client \in DOMAIN db.clients.rows THEN e ELSE d
LoadUsers == \E e \in First("users") : Loaded("users", e, LoadUser(db.users, e[2]))
LoadClients == \E e \in First("clients") : Loaded("clients", e, LoadClient(db.clients, e[2]))
LoadTasks == \E e \in First("tasks") : Loaded("tasks", e, Present(e[2], db.tasks, LoadTask(db.tasks, e[2])))
LoadHosts == \E e \in First("hosts") : Loaded("hosts", e, Present(e[2], db.hosts, LoadHost(db.hosts, e[2])))

NoTables == [t \in Tables |-> {}]
Strays == {c \in Rows("clients") : c.owner # 0 /\ c.owner \notin DOMAIN db.users.rows}

(* An import that has loaded everything is flushed; after a start the records left out stay in the files. *)
EndLoad ==
  /\ loading # "no" /\ load = NoTables
  /\ IF loading = "import"
     THEN /\ Flush /\ cut' = (cut \/ Strays # {}) /\ UNCHANGED skipped
     ELSE /\ skipped' = [t \in Tables |-> disk[t] \ Rows(t)] /\ UNCHANGED <<todo, dirty, cut>>
  /\ loading' = "no" /\ source' = NoTables /\ shown' = NoTables
  /\ UNCHANGED <<db, disk, depth, load, births, half, steps>>

Import(records, all) ==
  /\ Idle /\ StartLoad("import", records, all) /\ steps' = steps + 1
  /\ UNCHANGED <<disk, depth, dirty, todo, births, half, cut, skipped>>

(* The tables as an export gives them: every record, in the order of the ids. *)
buildConfigSnapshot == [t \in Tables |-> {<<r.id, r>> : r \in Rows(t)}]
ImportExported == Import(buildConfigSnapshot, AllRows)
ImportSnapshot(s) == Import([t \in Tables |-> {<<i, s[t][i]>> : i \in DOMAIN s[t]}], Tabled(s))

(* The records of the files, which hold them in any order. *)
Filed == [t \in Tables |-> {<<0, r>> : r \in disk[t]}]

(* The process ends and a new one loads the files. *)
Restart ==
  /\ steps < MaxSteps
  /\ StartLoad("start", Filed, disk)
  /\ cut' = (cut \/ half) /\ half' = FALSE
  /\ depth' = 0 /\ dirty' = {} /\ todo' = {} /\ skipped' = NoTables /\ steps' = steps + 1
  /\ UNCHANGED <<disk, births>>

-----------------------------------------------------------------------------
beginDeferredPersistence ==
  /\ Idle /\ depth < 2
  /\ depth' = depth + 1 /\ steps' = steps + 1
  /\ UNCHANGED <<db, disk, dirty, todo, loadVars, births, half, cut, skipped>>

(* The last window to end writes the tables its operations touched. *)
endDeferredPersistence ==
  /\ loading = "no" /\ todo = {} /\ depth > 0
  /\ depth' = depth - 1
  /\ IF depth = 1 THEN todo' = dirty /\ dirty' = {} ELSE UNCHANGED <<todo, dirty>>
  /\ UNCHANGED <<db, disk, loadVars, births, half, cut, skipped, steps>>

(* The file is written beside the old one and renamed over it; records marked
   NoStore are left out.  Users come first, then clients, tunnels and hosts. *)
Written(t) == {r \in Rows(t) : ~ r.noStore}
StoreNow(t) ==
  /\ t \in todo /\ \A o \in todo : Rank[t] <= Rank[o]
  /\ disk' = [disk EXCEPT ![t] = Written(t)]
  /\ skipped' = [skipped EXCEPT ![t] = {}]
  /\ half' = CASE t = "users" -> "clients" \in todo
               [] t = "clients" -> FALSE
               [] OTHER -> half
  /\ todo' = todo \ {t}
  /\ UNCHANGED <<db, depth, dirty, loadVars, births, cut, steps>>

Init ==
  /\ disk \in Starts /\ db = EmptyDb
  /\ loading = "start" /\ load = Filed /\ source = disk /\ shown = disk
  /\ depth = 0 /\ dirty = {} /\ todo = {} /\ births = 0 /\ half = FALSE /\ cut = FALSE
  /\ skipped = NoTables /\ steps = 0

Owners == {0} \union DOMAIN db.users.rows
UserSteps ==
  \/ \E n \in Names : NewUser(n)
  \/ \E n \in Names, i \in DOMAIN db.users.rows : UpdateUser(i, n)
  \/ \E n \in Names, p \in Platforms : EnsureManagementPlatformUsers(p, n)
  \/ \E i \in DOMAIN db.users.rows : DelUser(i)
ClientSteps ==
  \/ \E k \in Keys, o \in Owners, ms \in SUBSET DOMAIN db.users.rows, ns \in BOOLEAN : NewClient(k, o, ms, ns)
  \/ \E i \in DOMAIN db.clients.rows, k \in Keys, o \in Owners, ms \in SUBSET DOMAIN db.users.rows :
       UpdateClient(i, k, o, ms)
  \/ \E i \in DOMAIN db.clients.rows : DelClient(i)
TaskSteps ==
  \/ \E c \in DOMAIN db.clients.rows, p \in Passwords \union {None}, ns \in BOOLEAN : NewTask(c, p, ns)
  \/ \E i \in DOMAIN db.tasks.rows, c \in DOMAIN db.clients.rows, p \in Passwords \union {None} : UpdateTask(i, c, p)
  \/ \E i \in DOMAIN db.tasks.rows : UpdateTaskStatus(i) \/ DelTask(i) \/ DeleteNoStoreTaskIfCurrentOwnerless(i)
HostSteps ==
  \/ \E c \in DOMAIN db.clients.rows, n \in HostNames, sc \in Schemes, ns \in BOOLEAN : NewHost(c, n, sc, ns)
  \/ \E i \in DOMAIN db.hosts.rows, c \in DOMAIN db.clients.rows, n \in HostNames, sc \in Schemes : UpdateHost(i, c, n, sc)
  \/ \E i \in DOMAIN db.hosts.rows : DelHost(i) \/ DeleteNoStoreHostIfCurrentOwnerless(i)
LoadSteps == LoadUsers \/ LoadClients \/ LoadTasks \/ LoadHosts \/ EndLoad
(* The bound on steps is reached and no file is due. *)
Rest == steps = MaxSteps /\ loading = "no" /\ todo = {} /\ depth = 0 /\ UNCHANGED vars
FileSteps ==
  \/ beginDeferredPersistence \/ endDeferredPersistence \/ Restart \/ Rest
  \/ \E t \in Tables : StoreNow(t)
ImportSteps == ImportExported \/ \E s \in Snapshots : ImportSnapshot(s)

Next == UserSteps \/ ClientSteps \/ TaskSteps \/ HostSteps \/ LoadSteps \/ FileSteps \/ ImportSteps

Spec == Init /\ [][Next]_vars

-----------------------------------------------------------------------------
(* The maps, indexes, deferred windows, loads and crashes of the store keep the promise of FileTables. *)
StoreRefinesTables == Abstract!Spec

(* Every look-up through an index answers what a scan of the map would: name, platform, key,
   password, host name, and the clients, tunnels and hosts of a user or a client. *)
LookupExact ==
  /\ \A i \in DOMAIN db.users.rows :
       db.users.rows[i].name \in DOMAIN db.users.byName /\ db.users.byName[db.users.rows[i].name] = i
  /\ \A n \in DOMAIN db.users.byName : db.users.byName[n] \in DOMAIN db.users.rows
  /\ \A p \in DOMAIN db.users.byPlatform :
       /\ db.users.byPlatform[p] \in DOMAIN db.users.rows
       /\ db.users.rows[db.users.byPlatform[p]].platform = p
  /\ \A i \in DOMAIN db.users.rows : db.users.rows[i].platform # None =>
       /\ db.users.rows[i].platform \in DOMAIN db.users.byPlatform
       /\ db.users.byPlatform[db.users.rows[i].platform] = i
  /\ \A i \in DOMAIN db.clients.rows :
       db.clients.rows[i].key \in DOMAIN db.clients.byKey /\ db.clients.byKey[db.clients.rows[i].key] = i
  /\ \A k \in DOMAIN db.clients.byKey : db.clients.byKey[k] \in DOMAIN db.clients.rows
  /\ \A p \in DOMAIN db.tasks.byPassword :
       /\ db.tasks.byPassword[p] \in DOMAIN db.tasks.rows
       /\ db.tasks.rows[db.tasks.byPassword[p]].password = p
  /\ \A i \in DOMAIN db.tasks.rows : db.tasks.rows[i].password # None =>
       /\ db.tasks.rows[i].password \in DOMAIN db.tasks.byPassword
       /\ db.tasks.byPassword[db.tasks.rows[i].password] = i
  /\ db.hosts.byHost = {<<h.name, h.id>> : h \in Rows("hosts")}
  /\ db.clients.owners = {<<c.owner, c.id>> : c \in {x \in Rows("clients") : x.owner # 0}}
  /\ db.clients.managers = UNION {ManagerPairs(c) : c \in Rows("clients")}
  /\ db.tasks.byClient = {<<t.client, t.id>> : t \in Rows("tasks")}
  /\ db.hosts.byClient = {<<h.client, h.id>> : h \in Rows("hosts")}

(* A client belongs to the user it was given to: an id that a later user receives does not bring along the
   clients of the user who had it, unless a crash cut DelUser between its two files or an import brought a
   client without its owner. *)
OwnershipNotInherited ==
  \A c \in Rows("clients") :
    c.owner \in DOMAIN db.users.rows /\ ~ cut => db.users.rows[c.owner].birth = c.ownerBirth

(* Both: what the tables answer is right (the indexes, and the owner of a client). *)
RecordsExact == LookupExact /\ OwnershipNotInherited

(* When no window is open, no load runs and no write is due, each file holds exactly its table, beside the
   records the last start could not use and no write has cleared since. *)
QuiescentIsDurable ==
  depth = 0 /\ todo = {} /\ loading = "no" => \A t \in Tables : disk[t] = Written(t) \union skipped[t]

-----------------------------------------------------------------------------
(* The proofs.  An index is exact for a column of a table: it leads from *)
(* every value other than None to the one row that has it, and back.     *)
ExactIndex(idx, col) ==
  /\ \A i \in DOMAIN col : col[i] # None => col[i] \in DOMAIN idx /\ idx[col[i]] = i
  /\ \A k \in DOMAIN idx : k # None /\ idx[k] \in DOMAIN col /\ col[idx[k]] = k

(* The step from col to new gives row id the value k, which no other row has, *)
(* and the step from idx to e leaves the old value of the row and enters k.   *)
Revalued(idx, col, e, new, id, k) ==
  /\ ExactIndex(idx, col)
  /\ DOMAIN new = DOMAIN col \union {id} /\ new[id] = k
  /\ \A i \in DOMAIN col \ {id} : new[i] = col[i] /\ (k # None => col[i] # k)
  /\ e = Enter(IF id \in DOMAIN col THEN Leave(idx, col[id], id) ELSE idx, k, id)

LEMMA IndexPut ==
  ASSUME NEW idx, NEW col, NEW e, NEW new, NEW id, NEW k, Revalued(idx, col, e, new, id, k)
  PROVE  ExactIndex(e, new)
<1>0. PICK left : left = IF id \in DOMAIN col THEN Leave(idx, col[id], id) ELSE idx
  BY Zenon
<1> USE DEF Revalued
<1>1. /\ \A x : x \in DOMAIN left <=> x \in DOMAIN idx /\ idx[x] # id
      /\ \A x \in DOMAIN left : left[x] = idx[x]
  <2>1. CASE id \in DOMAIN col
    <3>1. left = Leave(idx, col[id], id)
      BY Zenon, <1>0, <2>1
    <3> QED BY <2>1, <3>1 DEF ExactIndex, Leave, Drop
  <2>2. CASE id \notin DOMAIN col
    BY Zenon, <1>0, <2>2 DEF ExactIndex
  <2> QED BY Zenon, <2>1, <2>2
<1>2. ASSUME k # None
      PROVE  /\ DOMAIN e = DOMAIN left \union {k} /\ e[k] = id
             /\ \A x \in DOMAIN left \ {k} : e[x] = left[x]
  BY Zenon, <1>0, <1>2 DEF Enter, Put
<1>3. k = None => e = left
  BY Zenon, <1>0 DEF Enter
<1>4. ASSUME NEW i \in DOMAIN new, new[i] # None PROVE new[i] \in DOMAIN e /\ e[new[i]] = i
  BY <1>1, <1>2, <1>3, <1>4 DEF ExactIndex
<1>5. ASSUME NEW x \in DOMAIN e PROVE x # None /\ e[x] \in DOMAIN new /\ new[e[x]] = x
  BY <1>1, <1>2, <1>3 DEF ExactIndex
<1> QED BY Zenon, <1>4, <1>5 DEF ExactIndex

(* A row that goes takes its entry with it. *)
Devalued(idx, col, e, new, id) ==
  /\ ExactIndex(idx, col) /\ id \in DOMAIN col
  /\ DOMAIN new = DOMAIN col \ {id}
  /\ \A i \in DOMAIN new : new[i] = col[i]
  /\ e = Leave(idx, col[id], id)

LEMMA IndexDrop ==
  ASSUME NEW idx, NEW col, NEW e, NEW new, NEW id, Devalued(idx, col, e, new, id)
  PROVE  ExactIndex(e, new)
<1>1. /\ \A x : x \in DOMAIN e <=> x \in DOMAIN idx /\ idx[x] # id
      /\ \A x \in DOMAIN e : e[x] = idx[x]
  BY Zenon DEF Devalued, ExactIndex, Leave, Drop
<1>2. \A i \in DOMAIN new : new[i] # None => new[i] \in DOMAIN e /\ e[new[i]] = i
  BY <1>1 DEF Devalued, ExactIndex
<1>3. \A x \in DOMAIN e : x # None /\ e[x] \in DOMAIN new /\ new[e[x]] = x
  BY <1>1 DEF Devalued, ExactIndex
<1> QED BY Zenon, <1>2, <1>3 DEF ExactIndex

(* Map f with r stored under its id, and map f without the row of id. *)
RowPut(f, g, r) ==
  /\ DOMAIN g = DOMAIN f \union {r.id} /\ g[r.id] = r
  /\ \A i \in DOMAIN f \ {r.id} : g[i] = f[i]
RowDrop(f, g, id) ==
  /\ DOMAIN g = DOMAIN f \ {id}
  /\ \A i \in DOMAIN g : g[i] = f[i]

(* What holds of the rows of every table. *)
RowsOK(d, S) ==
  /\ DOMAIN d.rows \subseteq Ids /\ d.last \in Nat
  /\ \A i \in DOMAIN d.rows : d.rows[i] \in S /\ d.rows[i].id = i /\ i <= d.last

LEMMA RowsPut ==
  ASSUME NEW S, NEW d, NEW r \in S, NEW e, r.id \in Ids, RowsOK(d, S),
         RowPut(d.rows, e.rows, r), e.last = Counted(d.last, r.id)
  PROVE  RowsOK(e, S)
<1>1. DOMAIN e.rows \subseteq Ids /\ e.last \in Nat /\ e.last >= d.last /\ e.last >= r.id
  BY DEF RowPut, RowsOK, Counted, Ids
<1>2. ASSUME NEW i \in DOMAIN e.rows PROVE e.rows[i] \in S /\ e.rows[i].id = i /\ i <= e.last
  <2>1. CASE i = r.id
    BY Zenon, <1>1, <2>1 DEF RowPut
  <2>2. CASE i # r.id
    <3>1. i \in DOMAIN d.rows \ {r.id} /\ e.rows[i] = d.rows[i]
      BY Zenon, <2>2 DEF RowPut
    <3>2. i \in Nat /\ d.last \in Nat /\ i <= d.last
      BY Zenon, <3>1 DEF RowsOK, Ids
    <3> QED BY <1>1, <3>1, <3>2 DEF RowsOK
  <2> QED BY Zenon, <2>1, <2>2
<1> QED BY Zenon, <1>1, <1>2 DEF RowsOK

LEMMA RowsDrop ==
  ASSUME NEW S, NEW d, NEW id, NEW e, RowsOK(d, S), RowDrop(d.rows, e.rows, id), e.last = d.last
  PROVE  RowsOK(e, S)
BY Zenon DEF RowsOK, RowDrop

NameColumn(d) == [i \in DOMAIN d.rows |-> d.rows[i].name]
PlatformColumn(d) == [i \in DOMAIN d.rows |-> d.rows[i].platform]
UsersOK(d) ==
  /\ RowsOK(d, UserRecord)
  /\ ExactIndex(d.byName, NameColumn(d)) /\ ExactIndex(d.byPlatform, PlatformColumn(d))

LEMMA PutUserOK ==
  ASSUME NEW d, NEW u \in UserRecord, NEW e, UsersOK(d), e = PutUser(d, u),
         \A i \in DOMAIN d.rows \ {u.id} :
           d.rows[i].name # u.name /\ (u.platform # None => d.rows[i].platform # u.platform)
  PROVE  UsersOK(e) /\ RowPut(d.rows, e.rows, u)
<1>1. PICK f : f = ForgetUser(d, u.id)
  BY Zenon
<1>2. e = KeepUser(f, u)
  BY Zenon, <1>1 DEF PutUser
<1>3. /\ f.last = d.last
      /\ DOMAIN f.rows = DOMAIN d.rows \ {u.id}
      /\ \A i \in DOMAIN f.rows : f.rows[i] = d.rows[i]
      /\ f.byName = IF u.id \in DOMAIN d.rows THEN Leave(d.byName, d.rows[u.id].name, u.id) ELSE d.byName
      /\ f.byPlatform = IF u.id \in DOMAIN d.rows THEN Leave(d.byPlatform, d.rows[u.id].platform, u.id)
                        ELSE d.byPlatform
  BY Zenon, <1>1 DEF ForgetUser, Drop
<1>4. /\ e.last = Counted(d.last, u.id)
      /\ e.rows = Put(f.rows, u.id, u)
      /\ e.byName = Enter(f.byName, u.name, u.id)
      /\ e.byPlatform = Enter(f.byPlatform, u.platform, u.id)
  BY <1>2, <1>3 DEF KeepUser
<1>5. RowPut(d.rows, e.rows, u)
  BY Zenon, <1>3, <1>4 DEF Put, RowPut
<1>6. u.id \in Ids
  BY Zenon DEF UserRecord
<1>7. RowsOK(e, UserRecord)
  BY Zenon, <1>4, <1>5, <1>6, RowsPut DEF UsersOK
<1>8. ExactIndex(e.byName, NameColumn(e))
  <2>1. PICK col : col = NameColumn(d)
    BY Zenon
  <2>2. PICK new : new = NameColumn(e)
    BY Zenon
  <2>3. /\ DOMAIN new = DOMAIN col \union {u.id} /\ new[u.id] = u.name
        /\ \A i \in DOMAIN col \ {u.id} : new[i] = col[i]
        /\ \A i \in DOMAIN col \ {u.id} : col[i] # u.name
        /\ DOMAIN col = DOMAIN d.rows /\ \A i \in DOMAIN col : col[i] = d.rows[i].name
    BY Zenon, <1>5, <2>1, <2>2 DEF NameColumn, RowPut
  <2>4. f.byName = IF u.id \in DOMAIN col THEN Leave(d.byName, col[u.id], u.id) ELSE d.byName
    BY Zenon, <1>3, <2>3
  <2>5. Revalued(d.byName, col, e.byName, new, u.id, u.name)
    BY Zenon, <1>4, <2>1, <2>3, <2>4 DEF UsersOK, Revalued
  <2> QED BY Zenon, <2>2, <2>5, IndexPut
<1>9. ExactIndex(e.byPlatform, PlatformColumn(e))
  <2>1. PICK col : col = PlatformColumn(d)
    BY Zenon
  <2>2. PICK new : new = PlatformColumn(e)
    BY Zenon
  <2>3. /\ DOMAIN new = DOMAIN col \union {u.id} /\ new[u.id] = u.platform
        /\ \A i \in DOMAIN col \ {u.id} : new[i] = col[i]
        /\ \A i \in DOMAIN col \ {u.id} : u.platform # None => col[i] # u.platform
        /\ DOMAIN col = DOMAIN d.rows /\ \A i \in DOMAIN col : col[i] = d.rows[i].platform
    BY Zenon, <1>5, <2>1, <2>2 DEF PlatformColumn, RowPut
  <2>4. f.byPlatform = IF u.id \in DOMAIN col THEN Leave(d.byPlatform, col[u.id], u.id) ELSE d.byPlatform
    BY Zenon, <1>3, <2>3
  <2>5. Revalued(d.byPlatform, col, e.byPlatform, new, u.id, u.platform)
    BY Zenon, <1>4, <2>1, <2>3, <2>4 DEF UsersOK, Revalued
  <2> QED BY Zenon, <2>2, <2>5, IndexPut
<1> QED BY Zenon, <1>5, <1>7, <1>8, <1>9 DEF UsersOK

LEMMA ForgetUserOK ==
  ASSUME NEW d, NEW id \in DOMAIN d.rows, NEW e, UsersOK(d), e = ForgetUser(d, id)
  PROVE  UsersOK(e) /\ RowDrop(d.rows, e.rows, id)
<1>1. /\ e.last = d.last /\ e.rows = Drop(d.rows, id)
      /\ e.byName = Leave(d.byName, d.rows[id].name, id)
      /\ e.byPlatform = Leave(d.byPlatform, d.rows[id].platform, id)
  BY Zenon DEF ForgetUser
<1>2. RowDrop(d.rows, e.rows, id)
  BY Zenon, <1>1 DEF Drop, RowDrop
<1>3. RowsOK(e, UserRecord)
  BY Zenon, <1>1, <1>2, RowsDrop DEF UsersOK
<1>4. ExactIndex(e.byName, NameColumn(e))
  <2>1. PICK col : col = NameColumn(d)
    BY Zenon
  <2>2. PICK new : new = NameColumn(e)
    BY Zenon
  <2>3. /\ id \in DOMAIN col /\ DOMAIN new = DOMAIN col \ {id} /\ col[id] = d.rows[id].name
        /\ \A i \in DOMAIN new : new[i] = col[i]
    BY Zenon, <1>2, <2>1, <2>2 DEF NameColumn, RowDrop
  <2>4. Devalued(d.byName, col, e.byName, new, id)
    BY Zenon, <1>1, <2>1, <2>3 DEF UsersOK, Devalued
  <2> QED BY Zenon, <2>2, <2>4, IndexDrop
<1>5. ExactIndex(e.byPlatform, PlatformColumn(e))
  <2>1. PICK col : col = PlatformColumn(d)
    BY Zenon
  <2>2. PICK new : new = PlatformColumn(e)
    BY Zenon
  <2>3. /\ id \in DOMAIN col /\ DOMAIN new = DOMAIN col \ {id} /\ col[id] = d.rows[id].platform
        /\ \A i \in DOMAIN new : new[i] = col[i]
    BY Zenon, <1>2, <2>1, <2>2 DEF PlatformColumn, RowDrop
  <2>4. Devalued(d.byPlatform, col, e.byPlatform, new, id)
    BY Zenon, <1>1, <2>1, <2>3 DEF UsersOK, Devalued
  <2> QED BY Zenon, <2>2, <2>4, IndexDrop
<1> QED BY Zenon, <1>2, <1>3, <1>4, <1>5 DEF UsersOK

(* A set of pairs is exact for a column of sets: it holds a pair for every row and member of its set. *)
ExactPairs(idx, col) ==
  /\ \A p \in idx : p = <<p[1], p[2]>> /\ p[2] \in DOMAIN col /\ p[1] \in col[p[2]]
  /\ \A i \in DOMAIN col : \A g \in col[i] : <<g, i>> \in idx

(* Row id gets the set G, and idx the pairs of it for those it had. *)
Regrouped(idx, col, e, new, id, G) ==
  /\ ExactPairs(idx, col)
  /\ DOMAIN new = DOMAIN col \union {id} /\ new[id] = G
  /\ \A i \in DOMAIN col \ {id} : new[i] = col[i]
  /\ \A p : p \in e <=> \/ p \in idx /\ p[2] # id
                        \/ p \in {<<g, id>> : g \in G}

LEMMA PairsPut ==
  ASSUME NEW idx, NEW col, NEW e, NEW new, NEW id, NEW G, Regrouped(idx, col, e, new, id, G)
  PROVE  ExactPairs(e, new)
<1>1. ASSUME NEW p \in e PROVE p = <<p[1], p[2]>> /\ p[2] \in DOMAIN new /\ p[1] \in new[p[2]]
  <2>1. CASE p \in idx /\ p[2] # id
    BY Zenon, <2>1 DEF Regrouped, ExactPairs
  <2>2. CASE p \in {<<g, id>> : g \in G}
    <3>1. PICK g \in G : p = <<g, id>>
      BY Zenon, <2>2
    <3>2. p[1] = g /\ p[2] = id
      BY Zenon, <3>1
    <3> QED BY Zenon, <3>1, <3>2 DEF Regrouped
  <2> QED BY Zenon, <2>1, <2>2 DEF Regrouped
<1>2. ASSUME NEW i \in DOMAIN new, NEW g \in new[i] PROVE <<g, i>> \in e
  <2>1. CASE i = id
    <3>1. g \in G
      BY Zenon, <2>1 DEF Regrouped
    <3> QED BY Zenon, <2>1, <3>1 DEF Regrouped
  <2>2. CASE i # id
    <3>1. <<g, i>> \in idx
      BY Zenon, <2>2 DEF Regrouped, ExactPairs
    <3>2. <<g, i>>[2] # id
      BY Zenon, <2>2
    <3> QED BY Zenon, <3>1, <3>2 DEF Regrouped
  <2> QED BY Zenon, <2>1, <2>2
<1> QED BY Zenon, <1>1, <1>2 DEF ExactPairs

Degrouped(idx, col, e, new, id) ==
  /\ ExactPairs(idx, col)
  /\ DOMAIN new = DOMAIN col \ {id}
  /\ \A i \in DOMAIN new : new[i] = col[i]
  /\ \A p : p \in e <=> p \in idx /\ p[2] # id

LEMMA PairsDrop ==
  ASSUME NEW idx, NEW col, NEW e, NEW new, NEW id, Degrouped(idx, col, e, new, id)
  PROVE  ExactPairs(e, new)
<1>1. ASSUME NEW p \in e PROVE p = <<p[1], p[2]>> /\ p[2] \in DOMAIN new /\ p[1] \in new[p[2]]
  BY Zenon DEF Degrouped, ExactPairs
<1>2. ASSUME NEW i \in DOMAIN new, NEW g \in new[i] PROVE <<g, i>> \in e
  <2>1. <<g, i>> \in idx /\ i # id
    BY Zenon DEF Degrouped, ExactPairs
  <2>2. <<g, i>>[2] # id
    BY Zenon, <2>1
  <2> QED BY Zenon, <2>1, <2>2 DEF Degrouped
<1> QED BY Zenon, <1>1, <1>2 DEF ExactPairs

KeyColumn(d) == [i \in DOMAIN d.rows |-> d.rows[i].key]
OwnerColumn(d) == [i \in DOMAIN d.rows |-> {d.rows[i].owner} \ {0}]
ManagerColumn(d) == [i \in DOMAIN d.rows |-> d.rows[i].managers]
ClientsOK(d) ==
  /\ RowsOK(d, ClientRecord)
  /\ ExactIndex(d.byKey, KeyColumn(d))
  /\ ExactPairs(d.owners, OwnerColumn(d)) /\ ExactPairs(d.managers, ManagerColumn(d))

LEMMA PutClientOK ==
  ASSUME NEW d, NEW c \in ClientRecord, NEW e, ClientsOK(d), e = PutClient(d, c),
         \A i \in DOMAIN d.rows \ {c.id} : d.rows[i].key # c.key
  PROVE  ClientsOK(e) /\ RowPut(d.rows, e.rows, c)
<1>1. PICK f : f = ForgetClient(d, c.id)
  BY Zenon
<1>2. e = KeepClient(f, c)
  BY Zenon, <1>1 DEF PutClient
<1>3. /\ f.last = d.last
      /\ DOMAIN f.rows = DOMAIN d.rows \ {c.id}
      /\ \A i \in DOMAIN f.rows : f.rows[i] = d.rows[i]
      /\ f.byKey = IF c.id \in DOMAIN d.rows THEN Leave(d.byKey, d.rows[c.id].key, c.id) ELSE d.byKey
  BY Zenon, <1>1 DEF ForgetClient, Drop
<1>4. /\ e.last = Counted(d.last, c.id)
      /\ e.rows = Put(f.rows, c.id, c)
      /\ e.byKey = Enter(f.byKey, c.key, c.id)
      /\ e.owners = Group(f.owners, c.owner, c.id)
      /\ e.managers = f.managers \union ManagerPairs(c)
  BY <1>2, <1>3 DEF KeepClient
<1>5. RowPut(d.rows, e.rows, c)
  BY Zenon, <1>3, <1>4 DEF Put, RowPut
<1>6. c.id \in Ids
  BY Zenon DEF ClientRecord
<1>7. RowsOK(e, ClientRecord)
  BY Zenon, <1>4, <1>5, <1>6, RowsPut DEF ClientsOK
<1>8. ExactIndex(e.byKey, KeyColumn(e))
  <2>1. PICK col : col = KeyColumn(d)
    BY Zenon
  <2>2. PICK new : new = KeyColumn(e)
    BY Zenon
  <2>3. /\ DOMAIN new = DOMAIN col \union {c.id} /\ new[c.id] = c.key
        /\ \A i \in DOMAIN col \ {c.id} : new[i] = col[i]
        /\ \A i \in DOMAIN col \ {c.id} : col[i] # c.key
        /\ DOMAIN col = DOMAIN d.rows /\ \A i \in DOMAIN col : col[i] = d.rows[i].key
    BY Zenon, <1>5, <2>1, <2>2 DEF KeyColumn, RowPut
  <2>4. f.byKey = IF c.id \in DOMAIN col THEN Leave(d.byKey, col[c.id], c.id) ELSE d.byKey
    BY Zenon, <1>3, <2>3
  <2>5. Revalued(d.byKey, col, e.byKey, new, c.id, c.key)
    BY Zenon, <1>4, <2>1, <2>3, <2>4 DEF ClientsOK, Revalued
  <2> QED BY Zenon, <2>2, <2>5, IndexPut
<1>9. \A p : p \in f.owners <=> p \in d.owners /\ p[2] # c.id
  <2>1. CASE c.id \in DOMAIN d.rows
    BY Zenon, <1>1, <2>1 DEF ForgetClient, Ungroup
  <2>2. CASE c.id \notin DOMAIN d.rows
    BY Zenon, <1>1, <2>2 DEF ForgetClient, ClientsOK, ExactPairs, OwnerColumn
  <2> QED BY Zenon, <2>1, <2>2
<1>10. \A p : p \in f.managers <=> p \in d.managers /\ p[2] # c.id
  <2>1. CASE c.id \in DOMAIN d.rows
    BY Zenon, <1>1, <2>1 DEF ForgetClient, Ungroup
  <2>2. CASE c.id \notin DOMAIN d.rows
    BY Zenon, <1>1, <2>2 DEF ForgetClient, ClientsOK, ExactPairs, ManagerColumn
  <2> QED BY Zenon, <2>1, <2>2
<1>11. ExactPairs(e.owners, OwnerColumn(e))
  <2>1. PICK col : col = OwnerColumn(d)
    BY Zenon
  <2>2. PICK new : new = OwnerColumn(e)
    BY Zenon
  <2>3. PICK G : G = {c.owner} \ {0}
    BY Zenon
  <2>4. /\ DOMAIN new = DOMAIN col \union {c.id} /\ new[c.id] = G
        /\ \A i \in DOMAIN col \ {c.id} : new[i] = col[i]
    BY Zenon, <1>5, <2>1, <2>2, <2>3 DEF OwnerColumn, RowPut
  <2>5. \A p : p \in e.owners <=> p \in f.owners \/ p \in {<<g, c.id>> : g \in G}
    BY Zenon, <1>4, <2>3 DEF Group
  <2>6. Regrouped(d.owners, col, e.owners, new, c.id, G)
    BY Zenon, <1>9, <2>1, <2>4, <2>5 DEF ClientsOK, Regrouped
  <2> QED BY Zenon, <2>2, <2>6, PairsPut
<1>12. ExactPairs(e.managers, ManagerColumn(e))
  <2>1. PICK col : col = ManagerColumn(d)
    BY Zenon
  <2>2. PICK new : new = ManagerColumn(e)
    BY Zenon
  <2>3. PICK G : G = c.managers
    BY Zenon
  <2>4. /\ DOMAIN new = DOMAIN col \union {c.id} /\ new[c.id] = G
        /\ \A i \in DOMAIN col \ {c.id} : new[i] = col[i]
    BY Zenon, <1>5, <2>1, <2>2, <2>3 DEF ManagerColumn, RowPut
  <2>5. \A p : p \in e.managers <=> p \in f.managers \/ p \in {<<g, c.id>> : g \in G}
    BY Zenon, <1>4, <2>3 DEF ManagerPairs
  <2>6. Regrouped(d.managers, col, e.managers, new, c.id, G)
    BY Zenon, <1>10, <2>1, <2>4, <2>5 DEF ClientsOK, Regrouped
  <2> QED BY Zenon, <2>2, <2>6, PairsPut
<1> QED BY Zenon, <1>5, <1>7, <1>8, <1>11, <1>12 DEF ClientsOK

LEMMA ForgetClientOK ==
  ASSUME NEW d, NEW id \in DOMAIN d.rows, NEW e, ClientsOK(d), e = ForgetClient(d, id)
  PROVE  ClientsOK(e) /\ RowDrop(d.rows, e.rows, id)
<1>1. /\ e.last = d.last /\ e.rows = Drop(d.rows, id)
      /\ e.byKey = Leave(d.byKey, d.rows[id].key, id)
      /\ e.owners = Ungroup(d.owners, id) /\ e.managers = Ungroup(d.managers, id)
  BY Zenon DEF ForgetClient
<1>2. RowDrop(d.rows, e.rows, id)
  BY Zenon, <1>1 DEF Drop, RowDrop
<1>3. RowsOK(e, ClientRecord)
  BY Zenon, <1>1, <1>2, RowsDrop DEF ClientsOK
<1>4. ExactIndex(e.byKey, KeyColumn(e))
  <2>1. PICK col : col = KeyColumn(d)
    BY Zenon
  <2>2. PICK new : new = KeyColumn(e)
    BY Zenon
  <2>3. /\ id \in DOMAIN col /\ DOMAIN new = DOMAIN col \ {id} /\ col[id] = d.rows[id].key
        /\ \A i \in DOMAIN new : new[i] = col[i]
    BY Zenon, <1>2, <2>1, <2>2 DEF KeyColumn, RowDrop
  <2>4. Devalued(d.byKey, col, e.byKey, new, id)
    BY Zenon, <1>1, <2>1, <2>3 DEF ClientsOK, Devalued
  <2> QED BY Zenon, <2>2, <2>4, IndexDrop
<1>5. ExactPairs(e.owners, OwnerColumn(e))
  <2>1. PICK col : col = OwnerColumn(d)
    BY Zenon
  <2>2. PICK new : new = OwnerColumn(e)
    BY Zenon
  <2>3. DOMAIN new = DOMAIN col \ {id} /\ \A i \in DOMAIN new : new[i] = col[i]
    BY Zenon, <1>2, <2>1, <2>2 DEF OwnerColumn, RowDrop
  <2>4. Degrouped(d.owners, col, e.owners, new, id)
    BY Zenon, <1>1, <2>1, <2>3 DEF ClientsOK, Degrouped, Ungroup
  <2> QED BY Zenon, <2>2, <2>4, PairsDrop
<1>6. ExactPairs(e.managers, ManagerColumn(e))
  <2>1. PICK col : col = ManagerColumn(d)
    BY Zenon
  <2>2. PICK new : new = ManagerColumn(e)
    BY Zenon
  <2>3. DOMAIN new = DOMAIN col \ {id} /\ \A i \in DOMAIN new : new[i] = col[i]
    BY Zenon, <1>2, <2>1, <2>2 DEF ManagerColumn, RowDrop
  <2>4. Degrouped(d.managers, col, e.managers, new, id)
    BY Zenon, <1>1, <2>1, <2>3 DEF ClientsOK, Degrouped, Ungroup
  <2> QED BY Zenon, <2>2, <2>4, PairsDrop
<1> QED BY Zenon, <1>2, <1>3, <1>4, <1>5, <1>6 DEF ClientsOK

PasswordColumn(d) == [i \in DOMAIN d.rows |-> d.rows[i].password]
ClientColumn(d) == [i \in DOMAIN d.rows |-> {d.rows[i].client}]
TasksOK(d) ==
  /\ RowsOK(d, TaskRecord) /\ \A i \in DOMAIN d.rows : d.rows[i].client \in Ids
  /\ ExactIndex(d.byPassword, PasswordColumn(d)) /\ ExactPairs(d.byClient, ClientColumn(d))

(* Without the one pair of a row there is no pair with its id. *)
Unpaired(idx, col, e, id, c) == ExactPairs(idx, col) /\ id \in DOMAIN col /\ col[id] = {c} /\ e = idx \ {<<c, id>>}

Without(idx, e, id) == \A p : p \in e <=> p \in idx /\ p[2] # id

LEMMA PairRemoved ==
  ASSUME NEW idx, NEW col, NEW e, NEW id, NEW c, Unpaired(idx, col, e, id, c)
  PROVE  Without(idx, e, id)
<1>1. ASSUME NEW p, p \in idx, p[2] = id PROVE p = <<c, id>>
  BY Zenon, <1>1 DEF Unpaired, ExactPairs
<1>2. <<c, id>>[2] = id
  BY Zenon
<1> QED BY Zenon, <1>1, <1>2 DEF Unpaired, Without

LEMMA PutTaskOK ==
  ASSUME NEW d, NEW t \in TaskRecord, NEW e, TasksOK(d), e = PutTask(d, t), t.client \in Ids,
         \A i \in DOMAIN d.rows \ {t.id} : t.password # None => d.rows[i].password # t.password
  PROVE  TasksOK(e) /\ RowPut(d.rows, e.rows, t)
<1>1. PICK f : f = ForgetTask(d, t.id)
  BY Zenon
<1>2. e = KeepTask(f, t)
  BY Zenon, <1>1 DEF PutTask
<1>3. /\ f.last = d.last
      /\ DOMAIN f.rows = DOMAIN d.rows \ {t.id}
      /\ \A i \in DOMAIN f.rows : f.rows[i] = d.rows[i]
      /\ f.byPassword = IF t.id \in DOMAIN d.rows THEN Leave(d.byPassword, d.rows[t.id].password, t.id)
                        ELSE d.byPassword
  BY Zenon, <1>1 DEF ForgetTask, Drop
<1>4. /\ e.last = Counted(d.last, t.id)
      /\ e.rows = Put(f.rows, t.id, t)
      /\ e.byPassword = Enter(f.byPassword, t.password, t.id)
      /\ e.byClient = Group(f.byClient, t.client, t.id)
  BY <1>2, <1>3 DEF KeepTask
<1>5. RowPut(d.rows, e.rows, t)
  BY Zenon, <1>3, <1>4 DEF Put, RowPut
<1>6. t.id \in Ids
  BY Zenon DEF TaskRecord
<1>7. RowsOK(e, TaskRecord)
  BY Zenon, <1>4, <1>5, <1>6, RowsPut DEF TasksOK
<1>8. \A i \in DOMAIN e.rows : e.rows[i].client \in Ids
  BY Zenon, <1>5 DEF TasksOK, RowPut
<1>9. ExactIndex(e.byPassword, PasswordColumn(e))
  <2>1. PICK col : col = PasswordColumn(d)
    BY Zenon
  <2>2. PICK new : new = PasswordColumn(e)
    BY Zenon
  <2>3. /\ DOMAIN new = DOMAIN col \union {t.id} /\ new[t.id] = t.password
        /\ \A i \in DOMAIN col \ {t.id} : new[i] = col[i]
        /\ \A i \in DOMAIN col \ {t.id} : t.password # None => col[i] # t.password
        /\ DOMAIN col = DOMAIN d.rows /\ \A i \in DOMAIN col : col[i] = d.rows[i].password
    BY Zenon, <1>5, <2>1, <2>2 DEF PasswordColumn, RowPut
  <2>4. f.byPassword = IF t.id \in DOMAIN col THEN Leave(d.byPassword, col[t.id], t.id) ELSE d.byPassword
    BY Zenon, <1>3, <2>3
  <2>5. Revalued(d.byPassword, col, e.byPassword, new, t.id, t.password)
    BY Zenon, <1>4, <2>1, <2>3, <2>4 DEF TasksOK, Revalued
  <2> QED BY Zenon, <2>2, <2>5, IndexPut
<1>10. ExactPairs(e.byClient, ClientColumn(e))
  <2>1. PICK col : col = ClientColumn(d)
    BY Zenon
  <2>2. PICK new : new = ClientColumn(e)
    BY Zenon
  <2>3. PICK G : G = {t.client}
    BY Zenon
  <2>4. /\ DOMAIN new = DOMAIN col \union {t.id} /\ new[t.id] = G
        /\ \A i \in DOMAIN col \ {t.id} : new[i] = col[i]
        /\ DOMAIN col = DOMAIN d.rows /\ \A i \in DOMAIN col : col[i] = {d.rows[i].client}
    BY Zenon, <1>5, <2>1, <2>2, <2>3 DEF ClientColumn, RowPut
  <2>5. Without(d.byClient, f.byClient, t.id)
    <3>1. CASE t.id \in DOMAIN d.rows
      <4>1. f.byClient = d.byClient \ {<<d.rows[t.id].client, t.id>>}
        BY Zenon, <1>1, <3>1 DEF ForgetTask
      <4>2. Unpaired(d.byClient, col, f.byClient, t.id, d.rows[t.id].client)
        BY Zenon, <2>1, <2>4, <3>1, <4>1 DEF TasksOK, Unpaired
      <4> QED BY Zenon, <4>2, PairRemoved
    <3>2. CASE t.id \notin DOMAIN d.rows
      BY Zenon, <1>1, <2>1, <2>4, <3>2 DEF ForgetTask, TasksOK, ExactPairs, Without
    <3> QED BY Zenon, <3>1, <3>2
  <2>6. \A p : p \in e.byClient <=> p \in f.byClient \/ p \in {<<g, t.id>> : g \in G}
    BY Zenon, <1>4, <2>3 DEF Group, Ids
  <2>7. Regrouped(d.byClient, col, e.byClient, new, t.id, G)
    BY Zenon, <2>1, <2>4, <2>5, <2>6 DEF TasksOK, Regrouped, Without
  <2> QED BY Zenon, <2>2, <2>7, PairsPut
<1> QED BY Zenon, <1>5, <1>7, <1>8, <1>9, <1>10 DEF TasksOK

LEMMA ForgetTaskOK ==
  ASSUME NEW d, NEW id \in DOMAIN d.rows, NEW e, TasksOK(d), e = ForgetTask(d, id)
  PROVE  TasksOK(e) /\ RowDrop(d.rows, e.rows, id)
<1>1. /\ e.last = d.last /\ e.rows = Drop(d.rows, id)
      /\ e.byPassword = Leave(d.byPassword, d.rows[id].password, id)
      /\ e.byClient = d.byClient \ {<<d.rows[id].client, id>>}
  BY Zenon DEF ForgetTask
<1>2. RowDrop(d.rows, e.rows, id)
  BY Zenon, <1>1 DEF Drop, RowDrop
<1>3. RowsOK(e, TaskRecord)
  BY Zenon, <1>1, <1>2, RowsDrop DEF TasksOK
<1>4. \A i \in DOMAIN e.rows : e.rows[i].client \in Ids
  BY Zenon, <1>2 DEF TasksOK, RowDrop
<1>5. ExactIndex(e.byPassword, PasswordColumn(e))
  <2>1. PICK col : col = PasswordColumn(d)
    BY Zenon
  <2>2. PICK new : new = PasswordColumn(e)
    BY Zenon
  <2>3. /\ id \in DOMAIN col /\ DOMAIN new = DOMAIN col \ {id} /\ col[id] = d.rows[id].password
        /\ \A i \in DOMAIN new : new[i] = col[i]
    BY Zenon, <1>2, <2>1, <2>2 DEF PasswordColumn, RowDrop
  <2>4. Devalued(d.byPassword, col, e.byPassword, new, id)
    BY Zenon, <1>1, <2>1, <2>3 DEF TasksOK, Devalued
  <2> QED BY Zenon, <2>2, <2>4, IndexDrop
<1>6. ExactPairs(e.byClient, ClientColumn(e))
  <2>1. PICK col : col = ClientColumn(d)
    BY Zenon
  <2>2. PICK new : new = ClientColumn(e)
    BY Zenon
  <2>3. /\ id \in DOMAIN col /\ DOMAIN new = DOMAIN col \ {id} /\ col[id] = {d.rows[id].client}
        /\ \A i \in DOMAIN new : new[i] = col[i]
    BY Zenon, <1>2, <2>1, <2>2 DEF ClientColumn, RowDrop
  <2>4. Without(d.byClient, e.byClient, id)
    <3>1. Unpaired(d.byClient, col, e.byClient, id, d.rows[id].client)
      BY Zenon, <1>1, <2>1, <2>3 DEF TasksOK, Unpaired
    <3> QED BY Zenon, <3>1, PairRemoved
  <2>5. Degrouped(d.byClient, col, e.byClient, new, id)
    BY Zenon, <2>1, <2>3, <2>4 DEF TasksOK, Degrouped, Without
  <2> QED BY Zenon, <2>2, <2>5, PairsDrop
<1> QED BY Zenon, <1>2, <1>3, <1>4, <1>5, <1>6 DEF TasksOK

HostColumn(d) == [i \in DOMAIN d.rows |-> {d.rows[i].name}]
HostsOK(d) ==
  /\ RowsOK(d, HostRecord) /\ \A i \in DOMAIN d.rows : d.rows[i].client \in Ids
  /\ ExactPairs(d.byHost, HostColumn(d)) /\ ExactPairs(d.byClient, ClientColumn(d))
  /\ \A i, j \in DOMAIN d.rows : d.rows[i].name = d.rows[j].name /\ d.rows[i].scheme = d.rows[j].scheme => i = j

LEMMA PutHostOK ==
  ASSUME NEW d, NEW h \in HostRecord, NEW e, HostsOK(d), e = PutHost(d, h), h.client \in Ids,
         \A i \in DOMAIN d.rows \ {h.id} : ~ (d.rows[i].name = h.name /\ d.rows[i].scheme = h.scheme)
  PROVE  HostsOK(e) /\ RowPut(d.rows, e.rows, h)
<1>1. PICK f : f = ForgetHost(d, h.id)
  BY Zenon
<1>2. e = KeepHost(f, h)
  BY Zenon, <1>1 DEF PutHost
<1>3. /\ f.last = d.last
      /\ DOMAIN f.rows = DOMAIN d.rows \ {h.id}
      /\ \A i \in DOMAIN f.rows : f.rows[i] = d.rows[i]
  BY Zenon, <1>1 DEF ForgetHost, Drop
<1>4. /\ e.last = Counted(d.last, h.id)
      /\ e.rows = Put(f.rows, h.id, h)
      /\ e.byHost = AddName(f.byHost, h.name, h.id)
      /\ e.byClient = Group(f.byClient, h.client, h.id)
  BY <1>2, <1>3 DEF KeepHost
<1>5. RowPut(d.rows, e.rows, h)
  BY Zenon, <1>3, <1>4 DEF Put, RowPut
<1>6. h.id \in Ids
  BY Zenon DEF HostRecord
<1>7. RowsOK(e, HostRecord)
  BY Zenon, <1>4, <1>5, <1>6, RowsPut DEF HostsOK
<1>8. \A i \in DOMAIN e.rows : e.rows[i].client \in Ids
  BY Zenon, <1>5 DEF HostsOK, RowPut
<1>9. ExactPairs(e.byHost, HostColumn(e))
  <2>1. PICK col : col = HostColumn(d)
    BY Zenon
  <2>2. PICK new : new = HostColumn(e)
    BY Zenon
  <2>3. PICK G : G = {h.name}
    BY Zenon
  <2>4. /\ DOMAIN new = DOMAIN col \union {h.id} /\ new[h.id] = G
        /\ \A i \in DOMAIN col \ {h.id} : new[i] = col[i]
        /\ DOMAIN col = DOMAIN d.rows /\ \A i \in DOMAIN col : col[i] = {d.rows[i].name}
    BY Zenon, <1>5, <2>1, <2>2, <2>3 DEF HostColumn, RowPut
  <2>5. Without(d.byHost, f.byHost, h.id)
    <3>1. CASE h.id \in DOMAIN d.rows
      <4>1. f.byHost = d.byHost \ {<<d.rows[h.id].name, h.id>>}
        BY Zenon, <1>1, <3>1 DEF ForgetHost, RemoveName
      <4>2. Unpaired(d.byHost, col, f.byHost, h.id, d.rows[h.id].name)
        BY Zenon, <2>1, <2>4, <3>1, <4>1 DEF HostsOK, Unpaired
      <4> QED BY Zenon, <4>2, PairRemoved
    <3>2. CASE h.id \notin DOMAIN d.rows
      BY Zenon, <1>1, <2>1, <2>4, <3>2 DEF ForgetHost, HostsOK, ExactPairs, Without
    <3> QED BY Zenon, <3>1, <3>2
  <2>6. \A p : p \in e.byHost <=> p \in f.byHost \/ p \in {<<g, h.id>> : g \in G}
    BY Zenon, <1>4, <2>3 DEF AddName
  <2>7. Regrouped(d.byHost, col, e.byHost, new, h.id, G)
    BY Zenon, <2>1, <2>4, <2>5, <2>6 DEF HostsOK, Regrouped, Without
  <2> QED BY Zenon, <2>2, <2>7, PairsPut
<1>10. ExactPairs(e.byClient, ClientColumn(e))
  <2>1. PICK col : col = ClientColumn(d)
    BY Zenon
  <2>2. PICK new : new = ClientColumn(e)
    BY Zenon
  <2>3. PICK G : G = {h.client}
    BY Zenon
  <2>4. /\ DOMAIN new = DOMAIN col \union {h.id} /\ new[h.id] = G
        /\ \A i \in DOMAIN col \ {h.id} : new[i] = col[i]
        /\ DOMAIN col = DOMAIN d.rows /\ \A i \in DOMAIN col : col[i] = {d.rows[i].client}
    BY Zenon, <1>5, <2>1, <2>2, <2>3 DEF ClientColumn, RowPut
  <2>5. Without(d.byClient, f.byClient, h.id)
    <3>1. CASE h.id \in DOMAIN d.rows
      <4>1. f.byClient = d.byClient \ {<<d.rows[h.id].client, h.id>>}
        BY Zenon, <1>1, <3>1 DEF ForgetHost
      <4>2. Unpaired(d.byClient, col, f.byClient, h.id, d.rows[h.id].client)
        BY Zenon, <2>1, <2>4, <3>1, <4>1 DEF HostsOK, Unpaired
      <4> QED BY Zenon, <4>2, PairRemoved
    <3>2. CASE h.id \notin DOMAIN d.rows
      BY Zenon, <1>1, <2>1, <2>4, <3>2 DEF ForgetHost, HostsOK, ExactPairs, Without
    <3> QED BY Zenon, <3>1, <3>2
  <2>6. \A p : p \in e.byClient <=> p \in f.byClient \/ p \in {<<g, h.id>> : g \in G}
    BY Zenon, <1>4, <2>3 DEF Group, Ids
  <2>7. Regrouped(d.byClient, col, e.byClient, new, h.id, G)
    BY Zenon, <2>1, <2>4, <2>5, <2>6 DEF HostsOK, Regrouped, Without
  <2> QED BY Zenon, <2>2, <2>7, PairsPut
<1>11. \A i, j \in DOMAIN e.rows : e.rows[i].name = e.rows[j].name /\ e.rows[i].scheme = e.rows[j].scheme => i = j
  BY <1>5 DEF HostsOK, RowPut
<1> QED BY Zenon, <1>5, <1>7, <1>8, <1>9, <1>10, <1>11 DEF HostsOK

LEMMA ForgetHostOK ==
  ASSUME NEW d, NEW id \in DOMAIN d.rows, NEW e, HostsOK(d), e = ForgetHost(d, id)
  PROVE  HostsOK(e) /\ RowDrop(d.rows, e.rows, id)
<1>1. /\ e.last = d.last /\ e.rows = Drop(d.rows, id)
      /\ e.byHost = d.byHost \ {<<d.rows[id].name, id>>}
      /\ e.byClient = d.byClient \ {<<d.rows[id].client, id>>}
  BY Zenon DEF ForgetHost, RemoveName
<1>2. RowDrop(d.rows, e.rows, id)
  BY Zenon, <1>1 DEF Drop, RowDrop
<1>3. RowsOK(e, HostRecord)
  BY Zenon, <1>1, <1>2, RowsDrop DEF HostsOK
<1>4. \A i \in DOMAIN e.rows : e.rows[i].client \in Ids
  BY Zenon, <1>2 DEF HostsOK, RowDrop
<1>5. ExactPairs(e.byHost, HostColumn(e))
  <2>1. PICK col : col = HostColumn(d)
    BY Zenon
  <2>2. PICK new : new = HostColumn(e)
    BY Zenon
  <2>3. /\ id \in DOMAIN col /\ DOMAIN new = DOMAIN col \ {id} /\ col[id] = {d.rows[id].name}
        /\ \A i \in DOMAIN new : new[i] = col[i]
    BY Zenon, <1>2, <2>1, <2>2 DEF HostColumn, RowDrop
  <2>4. Without(d.byHost, e.byHost, id)
    <3>1. Unpaired(d.byHost, col, e.byHost, id, d.rows[id].name)
      BY Zenon, <1>1, <2>1, <2>3 DEF HostsOK, Unpaired
    <3> QED BY Zenon, <3>1, PairRemoved
  <2>5. Degrouped(d.byHost, col, e.byHost, new, id)
    BY Zenon, <2>1, <2>3, <2>4 DEF HostsOK, Degrouped, Without
  <2> QED BY Zenon, <2>2, <2>5, PairsDrop
<1>6. ExactPairs(e.byClient, ClientColumn(e))
  <2>1. PICK col : col = ClientColumn(d)
    BY Zenon
  <2>2. PICK new : new = ClientColumn(e)
    BY Zenon
  <2>3. /\ id \in DOMAIN col /\ DOMAIN new = DOMAIN col \ {id} /\ col[id] = {d.rows[id].client}
        /\ \A i \in DOMAIN new : new[i] = col[i]
    BY Zenon, <1>2, <2>1, <2>2 DEF ClientColumn, RowDrop
  <2>4. Without(d.byClient, e.byClient, id)
    <3>1. Unpaired(d.byClient, col, e.byClient, id, d.rows[id].client)
      BY Zenon, <1>1, <2>1, <2>3 DEF HostsOK, Unpaired
    <3> QED BY Zenon, <3>1, PairRemoved
  <2>5. Degrouped(d.byClient, col, e.byClient, new, id)
    BY Zenon, <2>1, <2>3, <2>4 DEF HostsOK, Degrouped, Without
  <2> QED BY Zenon, <2>2, <2>5, PairsDrop
<1>7. \A i, j \in DOMAIN e.rows : e.rows[i].name = e.rows[j].name /\ e.rows[i].scheme = e.rows[j].scheme => i = j
  BY <1>2 DEF HostsOK, RowDrop
<1> QED BY Zenon, <1>2, <1>3, <1>4, <1>5, <1>6, <1>7 DEF HostsOK

Holders(col, g) == {i \in DOMAIN col : g \in col[i]}

LEMMA MembersExact ==
  ASSUME NEW idx, NEW col, NEW g, ExactPairs(idx, col)
  PROVE  Members(idx, g) = Holders(col, g)
<1>1. ASSUME NEW i \in Members(idx, g) PROVE i \in DOMAIN col /\ g \in col[i]
  <2>1. PICK p \in idx : p[1] = g /\ i = p[2]
    BY Zenon DEF Members
  <2> QED BY Zenon, <2>1 DEF ExactPairs
<1>2. ASSUME NEW i \in DOMAIN col, g \in col[i] PROVE i \in Members(idx, g)
  <2>1. <<g, i>> \in idx
    BY Zenon, <1>2 DEF ExactPairs
  <2>2. <<g, i>>[1] = g /\ <<g, i>>[2] = i
    BY Zenon
  <2> QED BY Zenon, <2>1, <2>2 DEF Members
<1> QED BY Zenon, <1>1, <1>2 DEF Holders

Refers(c, u) == c.owner = u \/ u \in c.managers

LEMMA LinkedExact ==
  ASSUME NEW u \in Ids, ClientsOK(db.clients)
  PROVE  LinkedClients(u) = {i \in DOMAIN db.clients.rows : Refers(db.clients.rows[i], u)}
<1>1. PICK d : d = db.clients
  BY Zenon
<1>2. PICK oc : oc = OwnerColumn(d)
  BY Zenon
<1>3. PICK mc : mc = ManagerColumn(d)
  BY Zenon
<1>4. ExactPairs(d.owners, oc) /\ ExactPairs(d.managers, mc)
  BY Zenon, <1>1, <1>2, <1>3 DEF ClientsOK
<1>5. Members(d.owners, u) = Holders(oc, u) /\ Members(d.managers, u) = Holders(mc, u)
  BY Zenon, <1>4, MembersExact
<1>6. /\ DOMAIN oc = DOMAIN d.rows /\ \A i \in DOMAIN oc : u \in oc[i] <=> d.rows[i].owner = u
      /\ DOMAIN mc = DOMAIN d.rows /\ \A i \in DOMAIN mc : u \in mc[i] <=> u \in d.rows[i].managers
  BY Zenon, <1>2, <1>3 DEF OwnerColumn, ManagerColumn, Ids
<1>7. LinkedClients(u) = Members(d.owners, u) \union Members(d.managers, u)
  BY Zenon, <1>1 DEF LinkedClients
<1> HIDE <1>1
<1>8. LinkedClients(u) = {i \in DOMAIN d.rows : Refers(d.rows[i], u)}
  BY Zenon, <1>5, <1>6, <1>7 DEF Refers, Holders
<1> QED BY Zenon, <1>1, <1>8

LEMMA ClearedFacts ==
  ASSUME NEW c \in ClientRecord, NEW u \in Ids, NEW e, e = ClearedOf(c, u)
  PROVE  /\ e \in ClientRecord /\ e.id = c.id /\ e.key = c.key /\ e.noStore = c.noStore
         /\ e.owner = (IF c.owner = u THEN 0 ELSE c.owner) /\ e.managers = c.managers \ {u}
         /\ e.ownerBirth = (IF c.owner = u THEN 0 ELSE c.ownerBirth)
         /\ ~ Refers(e, u)
<1>1. /\ c.id \in Ids /\ c.key \in Keys /\ c.owner \in Nat /\ c.ownerBirth \in Nat
      /\ c.managers \in SUBSET Nat /\ c.noStore \in BOOLEAN
  BY Zenon DEF ClientRecord
<1>2. e = [id |-> c.id, key |-> c.key, owner |-> IF c.owner = u THEN 0 ELSE c.owner,
           ownerBirth |-> IF c.owner = u THEN 0 ELSE c.ownerBirth, managers |-> c.managers \ {u},
           noStore |-> c.noStore]
  BY Zenon DEF ClearedOf, ClientRecord
<1>3. /\ e.id = c.id /\ e.key = c.key /\ e.noStore = c.noStore
      /\ e.owner = (IF c.owner = u THEN 0 ELSE c.owner) /\ e.managers = c.managers \ {u}
      /\ e.ownerBirth = (IF c.owner = u THEN 0 ELSE c.ownerBirth)
  BY <1>2
<1>4. e.owner \in Nat /\ e.ownerBirth \in Nat /\ e.managers \in SUBSET Nat /\ e.owner # u
  BY <1>1, <1>3 DEF Ids
<1>5. e \in ClientRecord
  <2>1. e = [id |-> e.id, key |-> e.key, owner |-> e.owner, ownerBirth |-> e.ownerBirth,
             managers |-> e.managers, noStore |-> e.noStore]
    BY Zenon, <1>2
  <2> QED BY Zenon, <1>1, <1>3, <1>4, <2>1 DEF ClientRecord
<1>6. ~ Refers(e, u)
  BY Zenon, <1>3, <1>4 DEF Refers
<1> QED BY Zenon, <1>3, <1>5, <1>6

(* Every client forgets the user as owner and as manager, in its record and in the indexes. *)
LEMMA ClearOK ==
  ASSUME NEW u \in Ids, NEW d, d = db.clients, ClientsOK(d), NEW e, e = clearUserReferences(d, u)
  PROVE  /\ ClientsOK(e)
         /\ DOMAIN e.rows = DOMAIN d.rows
         /\ \A i \in DOMAIN d.rows :
              e.rows[i] = IF Refers(d.rows[i], u) THEN ClearedOf(d.rows[i], u) ELSE d.rows[i]
<1>1. PICK L : L = LinkedClients(u)
  BY Zenon
<1>2. L = {i \in DOMAIN d.rows : Refers(d.rows[i], u)}
  BY Zenon, <1>1, LinkedExact
<1>3. PICK cs : cs = ClearedRows(d, u)
  BY Zenon
<1>4. e = Relinked(d, cs, L)
  BY Zenon, <1>1, <1>3 DEF clearUserReferences
<1>5. /\ e.rows = cs /\ e.byKey = d.byKey /\ e.last = d.last
      /\ e.owners = {p \in d.owners : p[2] \notin L}
                    \union {<<cs[i].owner, i>> : i \in {j \in L : cs[j].owner # 0}}
      /\ e.managers = {p \in d.managers : p[2] \notin L} \union UNION {ManagerPairs(cs[i]) : i \in L}
  BY <1>4 DEF Relinked
<1>6. /\ DOMAIN cs = DOMAIN d.rows
      /\ \A i \in DOMAIN d.rows : cs[i] = IF i \in L THEN ClearedOf(d.rows[i], u) ELSE d.rows[i]
  BY Zenon, <1>1, <1>3 DEF ClearedRows
<1>7. \A i \in DOMAIN d.rows : d.rows[i] \in ClientRecord /\ d.rows[i].id = i
  BY Zenon DEF ClientsOK, RowsOK
<1>8. ASSUME NEW i \in DOMAIN d.rows
      PROVE  /\ cs[i] \in ClientRecord /\ cs[i].id = i /\ cs[i].key = d.rows[i].key
             /\ i \notin L => cs[i] = d.rows[i]
  <2>1. PICK c : c = d.rows[i]
    BY Zenon
  <2>2. PICK f : f = ClearedOf(c, u)
    BY Zenon
  <2>3. c \in ClientRecord
    BY Zenon, <1>7, <2>1
  <2>6. f \in ClientRecord /\ f.id = c.id /\ f.key = c.key
    BY <2>2, <2>3, ClearedFacts
  <2>4. CASE i \in L
    <3>1. cs[i] = f
      BY Zenon, <1>6, <2>1, <2>2, <2>4
    <3> QED BY Zenon, <1>7, <2>1, <2>6, <2>4, <3>1
  <2>5. CASE i \notin L
    BY Zenon, <1>6, <1>7, <2>5
  <2> QED BY Zenon, <2>4, <2>5
<1>9. RowsOK(e, ClientRecord)
  BY Zenon, <1>5, <1>6, <1>8 DEF ClientsOK, RowsOK
<1>10. ExactIndex(e.byKey, KeyColumn(e))
  <2>1. KeyColumn(e) = KeyColumn(d)
    BY Zenon, <1>5, <1>6, <1>8 DEF KeyColumn
  <2> QED BY Zenon, <1>5, <2>1 DEF ClientsOK
<1>11. ExactPairs(e.owners, OwnerColumn(e))
  <2>1. PICK oc : oc = OwnerColumn(d)
    BY Zenon
  <2>2. PICK ec : ec = OwnerColumn(e)
    BY Zenon
  <2>3. /\ DOMAIN oc = DOMAIN d.rows /\ \A i \in DOMAIN d.rows : oc[i] = {d.rows[i].owner} \ {0}
        /\ DOMAIN ec = DOMAIN d.rows /\ \A i \in DOMAIN d.rows : ec[i] = {cs[i].owner} \ {0}
    BY Zenon, <1>5, <1>6, <2>1, <2>2 DEF OwnerColumn
  <2>4. ExactPairs(d.owners, oc)
    BY Zenon, <2>1 DEF ClientsOK
  <2>5. ASSUME NEW p \in e.owners PROVE p = <<p[1], p[2]>> /\ p[2] \in DOMAIN ec /\ p[1] \in ec[p[2]]
    <3>1. CASE p \in d.owners /\ p[2] \notin L
      BY <1>8, <2>3, <2>4, <3>1 DEF ExactPairs
    <3>2. ASSUME NEW i \in L, cs[i].owner # 0, p = <<cs[i].owner, i>>
          PROVE  p = <<p[1], p[2]>> /\ p[2] \in DOMAIN ec /\ p[1] \in ec[p[2]]
      <4>1. p[1] = cs[i].owner /\ p[2] = i
        BY Zenon, <3>2
      <4> QED BY <1>2, <2>3, <3>2, <4>1
    <3> QED BY Zenon, <1>5, <3>1, <3>2
  <2>6. ASSUME NEW i \in DOMAIN ec, NEW g \in ec[i] PROVE <<g, i>> \in e.owners
    <3>1. g = cs[i].owner /\ g # 0 /\ i \in DOMAIN d.rows
      BY <2>3
    <3>2. CASE i \in L
      BY Zenon, <1>5, <3>1, <3>2
    <3>3. CASE i \notin L
      <4>1. <<g, i>> \in d.owners
        BY <1>8, <2>3, <2>4, <3>1, <3>3 DEF ExactPairs
      <4>2. <<g, i>>[2] = i
        BY Zenon
      <4> QED BY Zenon, <1>5, <3>3, <4>1, <4>2
    <3> QED BY Zenon, <3>2, <3>3
  <2> QED BY Zenon, <2>2, <2>5, <2>6 DEF ExactPairs
<1>12. ExactPairs(e.managers, ManagerColumn(e))
  <2>1. PICK oc : oc = ManagerColumn(d)
    BY Zenon
  <2>2. PICK ec : ec = ManagerColumn(e)
    BY Zenon
  <2>3. /\ DOMAIN oc = DOMAIN d.rows /\ \A i \in DOMAIN d.rows : oc[i] = d.rows[i].managers
        /\ DOMAIN ec = DOMAIN d.rows /\ \A i \in DOMAIN d.rows : ec[i] = cs[i].managers
    BY Zenon, <1>5, <1>6, <2>1, <2>2 DEF ManagerColumn
  <2>4. ExactPairs(d.managers, oc)
    BY Zenon, <2>1 DEF ClientsOK
  <2>5. ASSUME NEW p \in e.managers PROVE p = <<p[1], p[2]>> /\ p[2] \in DOMAIN ec /\ p[1] \in ec[p[2]]
    <3>1. CASE p \in d.managers /\ p[2] \notin L
      BY <1>8, <2>3, <2>4, <3>1 DEF ExactPairs
    <3>2. ASSUME NEW i \in L, NEW m \in cs[i].managers, p = <<m, cs[i].id>>
          PROVE  p = <<p[1], p[2]>> /\ p[2] \in DOMAIN ec /\ p[1] \in ec[p[2]]
      <4>1. i \in DOMAIN d.rows /\ cs[i].id = i
        BY Zenon, <1>2, <1>8
      <4>2. p[1] = m /\ p[2] = i
        BY Zenon, <3>2, <4>1
      <4>3. p = <<p[1], p[2]>>
        BY Zenon, <3>2, <4>1, <4>2
      <4>4. ec[i] = cs[i].managers /\ DOMAIN ec = DOMAIN d.rows
        BY Zenon, <2>3, <4>1
      <4>5. m \in ec[i] /\ i \in DOMAIN ec
        BY Zenon, <4>1, <4>4
      <4>6. p[1] \in ec[p[2]] /\ p[2] \in DOMAIN ec
        BY Zenon, <4>2, <4>5
      <4> QED BY Zenon, <4>3, <4>6
    <3>3. CASE p \in UNION {ManagerPairs(cs[i]) : i \in L}
      <4>1. PICK i \in L : p \in ManagerPairs(cs[i])
        BY Zenon, <3>3
      <4>2. PICK m \in cs[i].managers : p = <<m, cs[i].id>>
        BY Zenon, <4>1 DEF ManagerPairs
      <4> QED BY Zenon, <3>2, <4>1, <4>2
    <3> QED BY Zenon, <1>5, <3>1, <3>3
  <2>6. ASSUME NEW i \in DOMAIN ec, NEW g \in ec[i] PROVE <<g, i>> \in e.managers
    <3>1. g \in cs[i].managers /\ i \in DOMAIN d.rows /\ cs[i].id = i
      BY Zenon, <1>8, <2>3
    <3>2. CASE i \in L
      <4>1. <<g, i>> \in ManagerPairs(cs[i])
        BY Zenon, <3>1 DEF ManagerPairs
      <4> QED BY Zenon, <1>5, <3>2, <4>1
    <3>3. CASE i \notin L
      <4>1. <<g, i>> \in d.managers
        BY <1>8, <2>3, <2>4, <3>1, <3>3 DEF ExactPairs
      <4>2. <<g, i>>[2] = i
        BY Zenon
      <4> QED BY Zenon, <1>5, <3>3, <4>1, <4>2
    <3> QED BY Zenon, <3>2, <3>3
  <2> QED BY Zenon, <2>2, <2>5, <2>6 DEF ExactPairs
<1>13. \A i \in DOMAIN d.rows : e.rows[i] = IF Refers(d.rows[i], u) THEN ClearedOf(d.rows[i], u) ELSE d.rows[i]
  BY Zenon, <1>2, <1>5, <1>6
<1> QED BY Zenon, <1>5, <1>6, <1>9, <1>10, <1>11, <1>12, <1>13 DEF ClientsOK

-----------------------------------------------------------------------------
(* The four tables are exact, and every tunnel and host has its client. *)
Placed(d, cs) == \A i \in DOMAIN d.rows : d.rows[i].client \in DOMAIN cs.rows
DbOK(d) ==
  /\ d = [t \in Tables |-> d[t]]
  /\ UsersOK(d.users) /\ ClientsOK(d.clients) /\ TasksOK(d.tasks) /\ HostsOK(d.hosts)
  /\ Placed(d.tasks, d.clients) /\ Placed(d.hosts, d.clients)

Others(d, e, t) == e = [o \in Tables |-> e[o]] /\ \A o \in Tables \ {t} : e[o] = d[o]
Replaced(d, e, t, r) == Others(d, e, t) /\ RowSet(e[t]) = {x \in RowSet(d[t]) : x.id # r.id} \union {r}
Removed(d, e, t, id) == Others(d, e, t) /\ RowSet(e[t]) = {x \in RowSet(d[t]) : x.id # id}

LEMMA RowSetPut ==
  ASSUME NEW d, NEW S, RowsOK(d, S), NEW r, NEW e, RowPut(d.rows, e.rows, r)
  PROVE  RowSet(e) = {x \in RowSet(d) : x.id # r.id} \union {r}
BY DEF RowSet, RowsOK, RowPut

LEMMA RowSetDrop ==
  ASSUME NEW d, NEW S, RowsOK(d, S), NEW id, NEW e, RowDrop(d.rows, e.rows, id)
  PROVE  RowSet(e) = {x \in RowSet(d) : x.id # id}
BY DEF RowSet, RowsOK, RowDrop

UserFits(d, u) ==
  \A i \in DOMAIN d.rows \ {u.id} :
    d.rows[i].name # u.name /\ (u.platform # None => d.rows[i].platform # u.platform)
KeyFits(d, c) == \A i \in DOMAIN d.rows \ {c.id} : d.rows[i].key # c.key
PasswordFits(d, t) == \A i \in DOMAIN d.rows \ {t.id} : t.password # None => d.rows[i].password # t.password
RouteFits(d, h) == \A i \in DOMAIN d.rows \ {h.id} : ~ (d.rows[i].name = h.name /\ d.rows[i].scheme = h.scheme)

LEMMA UserStored ==
  ASSUME NEW d, DbOK(d), NEW u \in UserRecord, UserFits(d.users, u),
         NEW e, e = [d EXCEPT !.users = PutUser(d.users, u)]
  PROVE  DbOK(e) /\ Replaced(d, e, "users", u)
<1>1. PICK a : a = d.users
  BY Zenon
<1>2. PICK b : b = PutUser(a, u)
  BY Zenon
<1>3. UsersOK(a) /\ RowsOK(a, UserRecord) /\ UserFits(a, u)
  BY Zenon, <1>1 DEF DbOK, UsersOK
<1>4. UsersOK(b) /\ RowPut(a.rows, b.rows, u)
  BY Zenon, <1>2, <1>3, PutUserOK DEF UserFits
<1>5. RowSet(b) = {x \in RowSet(a) : x.id # u.id} \union {u}
  BY Zenon, <1>3, <1>4, RowSetPut
<1>6. Others(d, e, "users") /\ e.users = b
  <2>1. e = [d EXCEPT !["users"] = b] /\ d = [t \in Tables |-> d[t]]
    BY Zenon, <1>1, <1>2 DEF DbOK
  <2> QED BY Zenon, <2>1 DEF Others, Tables
<1>7. e.clients = d.clients /\ e.tasks = d.tasks /\ e.hosts = d.hosts /\ e = [o \in Tables |-> e[o]]
  BY Zenon, <1>6 DEF Others, Tables
<1> QED BY Zenon, <1>1, <1>4, <1>5, <1>6, <1>7 DEF DbOK, Replaced

LEMMA UserRemoved ==
  ASSUME NEW d, DbOK(d), NEW id \in DOMAIN d.users.rows,
         NEW e, e = [d EXCEPT !.users = ForgetUser(d.users, id)]
  PROVE  DbOK(e) /\ Removed(d, e, "users", id)
<1>1. PICK a : a = d.users
  BY Zenon
<1>2. PICK b : b = ForgetUser(a, id)
  BY Zenon
<1>3. UsersOK(a) /\ RowsOK(a, UserRecord) /\ id \in DOMAIN a.rows
  BY Zenon, <1>1 DEF DbOK, UsersOK
<1>4. UsersOK(b) /\ RowDrop(a.rows, b.rows, id)
  BY Zenon, <1>2, <1>3, ForgetUserOK
<1>5. RowSet(b) = {x \in RowSet(a) : x.id # id}
  BY Zenon, <1>3, <1>4, RowSetDrop
<1>6. Others(d, e, "users") /\ e.users = b
  <2>1. e = [d EXCEPT !["users"] = b] /\ d = [t \in Tables |-> d[t]]
    BY Zenon, <1>1, <1>2 DEF DbOK
  <2> QED BY Zenon, <2>1 DEF Others, Tables
<1>7. e.clients = d.clients /\ e.tasks = d.tasks /\ e.hosts = d.hosts /\ e = [o \in Tables |-> e[o]]
  BY Zenon, <1>6 DEF Others, Tables
<1> QED BY Zenon, <1>1, <1>4, <1>5, <1>6, <1>7 DEF DbOK, Removed

LEMMA ClientStored ==
  ASSUME NEW d, DbOK(d), NEW c \in ClientRecord, KeyFits(d.clients, c),
         NEW e, e = [d EXCEPT !.clients = PutClient(d.clients, c)]
  PROVE  DbOK(e) /\ Replaced(d, e, "clients", c)
<1>1. PICK a : a = d.clients
  BY Zenon
<1>2. PICK b : b = PutClient(a, c)
  BY Zenon
<1>3. ClientsOK(a) /\ RowsOK(a, ClientRecord) /\ KeyFits(a, c)
  BY Zenon, <1>1 DEF DbOK, ClientsOK
<1>4. ClientsOK(b) /\ RowPut(a.rows, b.rows, c)
  BY Zenon, <1>2, <1>3, PutClientOK DEF KeyFits
<1>5. RowSet(b) = {x \in RowSet(a) : x.id # c.id} \union {c}
  BY Zenon, <1>3, <1>4, RowSetPut
<1>6. Others(d, e, "clients") /\ e.clients = b
  <2>1. e = [d EXCEPT !["clients"] = b] /\ d = [o \in Tables |-> d[o]]
    BY Zenon, <1>1, <1>2 DEF DbOK
  <2> QED BY Zenon, <2>1 DEF Others, Tables
<1>7. e.users = d.users /\ e.tasks = d.tasks /\ e.hosts = d.hosts /\ e = [o \in Tables |-> e[o]]
  BY Zenon, <1>6 DEF Others, Tables
<1>9. Placed(d.tasks, b) /\ Placed(d.hosts, b)
  BY Zenon, <1>1, <1>4 DEF DbOK, Placed, RowPut
<1> QED BY Zenon, <1>1, <1>4, <1>5, <1>6, <1>7, <1>9 DEF DbOK, Replaced

LEMMA ClientRemoved ==
  ASSUME NEW d, DbOK(d), NEW id \in DOMAIN d.clients.rows,
         \A i \in DOMAIN d.tasks.rows : d.tasks.rows[i].client # id,
         \A i \in DOMAIN d.hosts.rows : d.hosts.rows[i].client # id,
         NEW e, e = [d EXCEPT !.clients = ForgetClient(d.clients, id)]
  PROVE  DbOK(e) /\ Removed(d, e, "clients", id)
<1>1. PICK a : a = d.clients
  BY Zenon
<1>2. PICK b : b = ForgetClient(a, id)
  BY Zenon
<1>3. ClientsOK(a) /\ RowsOK(a, ClientRecord) /\ id \in DOMAIN a.rows
  BY Zenon, <1>1 DEF DbOK, ClientsOK
<1>4. ClientsOK(b) /\ RowDrop(a.rows, b.rows, id)
  BY Zenon, <1>2, <1>3, ForgetClientOK
<1>5. RowSet(b) = {x \in RowSet(a) : x.id # id}
  BY Zenon, <1>3, <1>4, RowSetDrop
<1>6. Others(d, e, "clients") /\ e.clients = b
  <2>1. e = [d EXCEPT !["clients"] = b] /\ d = [o \in Tables |-> d[o]]
    BY Zenon, <1>1, <1>2 DEF DbOK
  <2> QED BY Zenon, <2>1 DEF Others, Tables
<1>7. e.users = d.users /\ e.tasks = d.tasks /\ e.hosts = d.hosts /\ e = [o \in Tables |-> e[o]]
  BY Zenon, <1>6 DEF Others, Tables
<1>9. Placed(d.tasks, b) /\ Placed(d.hosts, b)
  BY Zenon, <1>1, <1>4 DEF DbOK, Placed, RowDrop
<1> QED BY Zenon, <1>1, <1>4, <1>5, <1>6, <1>7, <1>9 DEF DbOK, Removed

LEMMA TaskStored ==
  ASSUME NEW d, DbOK(d), NEW t \in TaskRecord, PasswordFits(d.tasks, t), t.client \in DOMAIN d.clients.rows,
         NEW e, e = [d EXCEPT !.tasks = PutTask(d.tasks, t)]
  PROVE  DbOK(e) /\ Replaced(d, e, "tasks", t)
<1>1. PICK a : a = d.tasks
  BY Zenon
<1>2. PICK b : b = PutTask(a, t)
  BY Zenon
<1>3. TasksOK(a) /\ RowsOK(a, TaskRecord) /\ PasswordFits(a, t)
  BY Zenon, <1>1 DEF DbOK, TasksOK
<1>8. t.client \in Ids
  BY Zenon DEF DbOK, ClientsOK, RowsOK
<1>4. TasksOK(b) /\ RowPut(a.rows, b.rows, t)
  BY Zenon, <1>2, <1>3, <1>8, PutTaskOK DEF PasswordFits
<1>5. RowSet(b) = {x \in RowSet(a) : x.id # t.id} \union {t}
  BY Zenon, <1>3, <1>4, RowSetPut
<1>6. Others(d, e, "tasks") /\ e.tasks = b
  <2>1. e = [d EXCEPT !["tasks"] = b] /\ d = [o \in Tables |-> d[o]]
    BY Zenon, <1>1, <1>2 DEF DbOK
  <2> QED BY Zenon, <2>1 DEF Others, Tables
<1>7. e.users = d.users /\ e.clients = d.clients /\ e.hosts = d.hosts /\ e = [o \in Tables |-> e[o]]
  BY Zenon, <1>6 DEF Others, Tables
<1>9. Placed(b, d.clients)
  <2>1. Placed(a, d.clients)
    BY Zenon, <1>1 DEF DbOK
  <2> QED BY Zenon, <1>4, <2>1 DEF Placed, RowPut
<1> QED BY Zenon, <1>1, <1>4, <1>5, <1>6, <1>7, <1>9 DEF DbOK, Replaced

LEMMA TaskRemoved ==
  ASSUME NEW d, DbOK(d), NEW id \in DOMAIN d.tasks.rows,
         NEW e, e = [d EXCEPT !.tasks = ForgetTask(d.tasks, id)]
  PROVE  DbOK(e) /\ Removed(d, e, "tasks", id)
<1>1. PICK a : a = d.tasks
  BY Zenon
<1>2. PICK b : b = ForgetTask(a, id)
  BY Zenon
<1>3. TasksOK(a) /\ RowsOK(a, TaskRecord) /\ id \in DOMAIN a.rows
  BY Zenon, <1>1 DEF DbOK, TasksOK
<1>4. TasksOK(b) /\ RowDrop(a.rows, b.rows, id)
  BY Zenon, <1>2, <1>3, ForgetTaskOK
<1>5. RowSet(b) = {x \in RowSet(a) : x.id # id}
  BY Zenon, <1>3, <1>4, RowSetDrop
<1>6. Others(d, e, "tasks") /\ e.tasks = b
  <2>1. e = [d EXCEPT !["tasks"] = b] /\ d = [o \in Tables |-> d[o]]
    BY Zenon, <1>1, <1>2 DEF DbOK
  <2> QED BY Zenon, <2>1 DEF Others, Tables
<1>7. e.users = d.users /\ e.clients = d.clients /\ e.hosts = d.hosts /\ e = [o \in Tables |-> e[o]]
  BY Zenon, <1>6 DEF Others, Tables
<1>9. Placed(b, d.clients)
  <2>1. Placed(a, d.clients)
    BY Zenon, <1>1 DEF DbOK
  <2> QED BY Zenon, <1>4, <2>1 DEF Placed, RowDrop
<1> QED BY Zenon, <1>1, <1>4, <1>5, <1>6, <1>7, <1>9 DEF DbOK, Removed

LEMMA HostStored ==
  ASSUME NEW d, DbOK(d), NEW h \in HostRecord, RouteFits(d.hosts, h), h.client \in DOMAIN d.clients.rows,
         NEW e, e = [d EXCEPT !.hosts = PutHost(d.hosts, h)]
  PROVE  DbOK(e) /\ Replaced(d, e, "hosts", h)
<1>1. PICK a : a = d.hosts
  BY Zenon
<1>2. PICK b : b = PutHost(a, h)
  BY Zenon
<1>3. HostsOK(a) /\ RowsOK(a, HostRecord) /\ RouteFits(a, h)
  BY Zenon, <1>1 DEF DbOK, HostsOK
<1>8. h.client \in Ids
  BY Zenon DEF DbOK, ClientsOK, RowsOK
<1>4. HostsOK(b) /\ RowPut(a.rows, b.rows, h)
  BY Zenon, <1>2, <1>3, <1>8, PutHostOK DEF RouteFits
<1>5. RowSet(b) = {x \in RowSet(a) : x.id # h.id} \union {h}
  BY Zenon, <1>3, <1>4, RowSetPut
<1>6. Others(d, e, "hosts") /\ e.hosts = b
  <2>1. e = [d EXCEPT !["hosts"] = b] /\ d = [o \in Tables |-> d[o]]
    BY Zenon, <1>1, <1>2 DEF DbOK
  <2> QED BY Zenon, <2>1 DEF Others, Tables
<1>7. e.users = d.users /\ e.clients = d.clients /\ e.tasks = d.tasks /\ e = [o \in Tables |-> e[o]]
  BY Zenon, <1>6 DEF Others, Tables
<1>9. Placed(b, d.clients)
  <2>1. Placed(a, d.clients)
    BY Zenon, <1>1 DEF DbOK
  <2> QED BY Zenon, <1>4, <2>1 DEF Placed, RowPut
<1> QED BY Zenon, <1>1, <1>4, <1>5, <1>6, <1>7, <1>9 DEF DbOK, Replaced

LEMMA HostRemoved ==
  ASSUME NEW d, DbOK(d), NEW id \in DOMAIN d.hosts.rows,
         NEW e, e = [d EXCEPT !.hosts = ForgetHost(d.hosts, id)]
  PROVE  DbOK(e) /\ Removed(d, e, "hosts", id)
<1>1. PICK a : a = d.hosts
  BY Zenon
<1>2. PICK b : b = ForgetHost(a, id)
  BY Zenon
<1>3. HostsOK(a) /\ RowsOK(a, HostRecord) /\ id \in DOMAIN a.rows
  BY Zenon, <1>1 DEF DbOK, HostsOK
<1>4. HostsOK(b) /\ RowDrop(a.rows, b.rows, id)
  BY Zenon, <1>2, <1>3, ForgetHostOK
<1>5. RowSet(b) = {x \in RowSet(a) : x.id # id}
  BY Zenon, <1>3, <1>4, RowSetDrop
<1>6. Others(d, e, "hosts") /\ e.hosts = b
  <2>1. e = [d EXCEPT !["hosts"] = b] /\ d = [o \in Tables |-> d[o]]
    BY Zenon, <1>1, <1>2 DEF DbOK
  <2> QED BY Zenon, <2>1 DEF Others, Tables
<1>7. e.users = d.users /\ e.clients = d.clients /\ e.tasks = d.tasks /\ e = [o \in Tables |-> e[o]]
  BY Zenon, <1>6 DEF Others, Tables
<1>9. Placed(b, d.clients)
  <2>1. Placed(a, d.clients)
    BY Zenon, <1>1 DEF DbOK
  <2> QED BY Zenon, <1>4, <2>1 DEF Placed, RowDrop
<1> QED BY Zenon, <1>1, <1>4, <1>5, <1>6, <1>7, <1>9 DEF DbOK, Removed

-----------------------------------------------------------------------------
(* The inductive invariant.  The files hold records of a table at one time, no two in each other's way; ... *)
Apart(t, rs) == \A r, s \in rs : Abstract!Clash(t, r, s) => r = s
FilesOK ==
  /\ disk = [t \in Tables |-> disk[t]]
  /\ skipped = [t \in Tables |-> skipped[t]] /\ skipped.users = {} /\ skipped.clients = {}
  /\ \A t \in Tables : disk[t] \subseteq RecordOf[t] /\ Apart(t, disk[t]) /\ \A r \in disk[t] : ~ r.noStore

ControlOK ==
  /\ depth \in Nat /\ dirty \subseteq Tables /\ todo \subseteq Tables /\ births \in Nat
  /\ loading \in {"no", "start", "import"}
  /\ depth = 0 => dirty = {}
  /\ loading # "no" => todo = {}

(* ... a file that is not to be written holds its table; ... *)
Due == IF todo = {} THEN dirty ELSE todo
FilesFresh ==
  loading = "no" => \A t \in Tables \ Due : disk[t] = Written(t) \union skipped[t]

(* ... a load has its records from one place, and one that it left out had to be left out; ... *)
Missing(r) == r.client \notin DOMAIN db.clients.rows
LeftOut(t, r) ==
  \/ \E o \in source[t] \ {r} : Abstract!Clash(t, r, o) \/ (t = "hosts" /\ Abstract!Covers(o, r))
  \/ t \in {"tasks", "hosts"} /\ Missing(r)
Handled(t) ==
  /\ source[t] \subseteq RecordOf[t]
  /\ Rows(t) \union Pending(t) \subseteq source[t]
  /\ \A r \in source[t] : r \in Rows(t) \/ r \in Pending(t) \/ LeftOut(t, r)
Shadowed(h) == \E g \in Rows("hosts") : Abstract!Covers(g, h)
HostsKept == \A h \in disk.hosts : h \in Rows("hosts") \/ h \in Pending("hosts") \/ Missing(h) \/ Shadowed(h)
Sourced ==
  \/ loading = "import" /\ source \in {Tabled(s) : s \in Snapshots} \union {shown}
  \/ loading = "start" /\ source = disk /\ HostsKept
InOrder == load.users # {} \/ load.clients # {} => Pending("tasks") = source.tasks /\ Pending("hosts") = source.hosts
LoadOK ==
  /\ load = [t \in Tables |-> load[t]]
  /\ loading # "no" => Sourced /\ (\A t \in Tables : Handled(t)) /\ InOrder

(* ... and a client has the owner it was given to, in the tables, in the files and in a load. *)
Born(c, us) == \A u \in us : u.id = c.owner => u.birth = c.ownerBirth
Owned(c, us) == c.owner = 0 \/ \E u \in us : u.id = c.owner /\ u.birth = c.ownerBirth
AllOwned(cs, us) == \A c \in cs : Owned(c, us)
OwnersOK ==
  ~ cut =>
    /\ loading = "no" => AllOwned(Rows("clients"), Rows("users"))
    /\ ~ half => AllOwned(disk.clients, disk.users)
    /\ loading # "no" => \A c \in source.clients : Born(c, source.users)
    /\ loading = "start" => AllOwned(source.clients, source.users)

IInv == DbOK(db) /\ FilesOK /\ ControlOK /\ FilesFresh /\ LoadOK /\ OwnersOK

LEMMA IndexTells ==
  ASSUME NEW idx, NEW col, ExactIndex(idx, col), NEW i \in DOMAIN col, NEW j \in DOMAIN col, col[i] = col[j], col[i] # None
  PROVE  i = j
BY Zenon DEF ExactIndex

LEMMA Labelled ==
  /\ RecordOf["users"] = UserRecord /\ RecordOf["clients"] = ClientRecord
  /\ RecordOf["tasks"] = TaskRecord /\ RecordOf["hosts"] = HostRecord
BY Zenon DEF RecordOf

LEMMA RowsOfTable ==
  ASSUME NEW d, DbOK(d), NEW t \in Tables
  PROVE  RowSet(d[t]) \subseteq RecordOf[t] /\ Apart(t, RowSet(d[t]))
<1>1. CASE t = "users"
  <2>1. PICK a : a = d.users
    BY Zenon
  <2>2. RowsOK(a, UserRecord) /\ ExactIndex(a.byName, NameColumn(a)) /\ ExactIndex(a.byPlatform, PlatformColumn(a))
    BY Zenon, <2>1 DEF DbOK, UsersOK
  <2>3. RowSet(a) \subseteq UserRecord
    BY Zenon, <2>2 DEF RowsOK, RowSet
  <2>4. ASSUME NEW i \in DOMAIN a.rows, NEW j \in DOMAIN a.rows, Abstract!Clash("users", a.rows[i], a.rows[j])
        PROVE  i = j
    <3>0. a.rows[i] \in UserRecord /\ a.rows[i].id = i /\ a.rows[j].id = j /\ a.rows[i].name # None
      BY Zenon, <2>2, StoreAssumption DEF RowsOK, UserRecord
    <3>1. CASE a.rows[i].name = a.rows[j].name
      <4>1. PICK col : col = NameColumn(a)
        BY Zenon
      <4>2. DOMAIN col = DOMAIN a.rows /\ col[i] = a.rows[i].name /\ col[j] = a.rows[j].name
        BY Zenon, <4>1 DEF NameColumn
      <4>3. ExactIndex(a.byName, col)
        BY Zenon, <2>2, <4>1
      <4> QED BY Zenon, <3>0, <3>1, <4>2, <4>3, IndexTells
    <3>2. CASE a.rows[i].platform = a.rows[j].platform /\ a.rows[i].platform # None
      <4>1. PICK col : col = PlatformColumn(a)
        BY Zenon
      <4>2. DOMAIN col = DOMAIN a.rows /\ col[i] = a.rows[i].platform /\ col[j] = a.rows[j].platform
        BY Zenon, <4>1 DEF PlatformColumn
      <4>3. ExactIndex(a.byPlatform, col)
        BY Zenon, <2>2, <4>1
      <4> QED BY Zenon, <3>0, <3>2, <4>2, <4>3, IndexTells
    <3> QED BY Zenon, <2>4, <3>0, <3>1, <3>2 DEF Abstract!Clash, None
  <2>5. Apart("users", RowSet(a))
    <3> SUFFICES ASSUME NEW r \in RowSet(a), NEW s \in RowSet(a), Abstract!Clash("users", r, s) PROVE r = s
      BY Zenon DEF Apart
    <3>1. PICK i \in DOMAIN a.rows : r = a.rows[i]
      BY Zenon DEF RowSet
    <3>2. PICK j \in DOMAIN a.rows : s = a.rows[j]
      BY Zenon DEF RowSet
    <3> QED BY Zenon, <2>4, <3>1, <3>2
  <2> QED BY Zenon, <1>1, <2>1, <2>3, <2>5, Labelled
<1>2. CASE t = "clients"
  <2>1. PICK a : a = d.clients
    BY Zenon
  <2>2. RowsOK(a, ClientRecord) /\ ExactIndex(a.byKey, KeyColumn(a))
    BY Zenon, <2>1 DEF DbOK, ClientsOK
  <2>3. RowSet(a) \subseteq ClientRecord
    BY Zenon, <2>2 DEF RowsOK, RowSet
  <2>4. ASSUME NEW i \in DOMAIN a.rows, NEW j \in DOMAIN a.rows, Abstract!Clash("clients", a.rows[i], a.rows[j])
        PROVE  i = j
    <3>0. a.rows[i] \in ClientRecord /\ a.rows[i].id = i /\ a.rows[j].id = j /\ a.rows[i].key # None
      BY Zenon, <2>2, StoreAssumption DEF RowsOK, ClientRecord
    <3>1. CASE a.rows[i].key = a.rows[j].key
      <4>1. PICK col : col = KeyColumn(a)
        BY Zenon
      <4>2. DOMAIN col = DOMAIN a.rows /\ col[i] = a.rows[i].key /\ col[j] = a.rows[j].key
        BY Zenon, <4>1 DEF KeyColumn
      <4>3. ExactIndex(a.byKey, col)
        BY Zenon, <2>2, <4>1
      <4> QED BY Zenon, <3>0, <3>1, <4>2, <4>3, IndexTells
    <3> QED BY Zenon, <2>4, <3>0, <3>1 DEF Abstract!Clash
  <2>5. Apart("clients", RowSet(a))
    <3> SUFFICES ASSUME NEW r \in RowSet(a), NEW s \in RowSet(a), Abstract!Clash("clients", r, s) PROVE r = s
      BY Zenon DEF Apart
    <3>1. PICK i \in DOMAIN a.rows : r = a.rows[i]
      BY Zenon DEF RowSet
    <3>2. PICK j \in DOMAIN a.rows : s = a.rows[j]
      BY Zenon DEF RowSet
    <3> QED BY Zenon, <2>4, <3>1, <3>2
  <2> QED BY Zenon, <1>2, <2>1, <2>3, <2>5, Labelled
<1>3. CASE t = "tasks"
  <2>1. PICK a : a = d.tasks
    BY Zenon
  <2>2. RowsOK(a, TaskRecord) /\ ExactIndex(a.byPassword, PasswordColumn(a))
    BY Zenon, <2>1 DEF DbOK, TasksOK
  <2>3. RowSet(a) \subseteq TaskRecord
    BY Zenon, <2>2 DEF RowsOK, RowSet
  <2>4. ASSUME NEW i \in DOMAIN a.rows, NEW j \in DOMAIN a.rows, Abstract!Clash("tasks", a.rows[i], a.rows[j])
        PROVE  i = j
    <3>0. a.rows[i].id = i /\ a.rows[j].id = j
      BY Zenon, <2>2 DEF RowsOK
    <3>1. CASE a.rows[i].password = a.rows[j].password /\ a.rows[i].password # None
      <4>1. PICK col : col = PasswordColumn(a)
        BY Zenon
      <4>2. DOMAIN col = DOMAIN a.rows /\ col[i] = a.rows[i].password /\ col[j] = a.rows[j].password
        BY Zenon, <4>1 DEF PasswordColumn
      <4>3. ExactIndex(a.byPassword, col)
        BY Zenon, <2>2, <4>1
      <4> QED BY Zenon, <3>0, <3>1, <4>2, <4>3, IndexTells
    <3> QED BY Zenon, <2>4, <3>0, <3>1 DEF Abstract!Clash, None
  <2>5. Apart("tasks", RowSet(a))
    <3> SUFFICES ASSUME NEW r \in RowSet(a), NEW s \in RowSet(a), Abstract!Clash("tasks", r, s) PROVE r = s
      BY Zenon DEF Apart
    <3>1. PICK i \in DOMAIN a.rows : r = a.rows[i]
      BY Zenon DEF RowSet
    <3>2. PICK j \in DOMAIN a.rows : s = a.rows[j]
      BY Zenon DEF RowSet
    <3> QED BY Zenon, <2>4, <3>1, <3>2
  <2> QED BY Zenon, <1>3, <2>1, <2>3, <2>5, Labelled
<1>4. CASE t = "hosts"
  <2>1. PICK a : a = d.hosts
    BY Zenon
  <2>2. RowsOK(a, HostRecord)
    BY Zenon, <2>1 DEF DbOK, HostsOK
  <2>3. RowSet(a) \subseteq HostRecord
    BY Zenon, <2>2 DEF RowsOK, RowSet
  <2>4. ASSUME NEW i \in DOMAIN a.rows, NEW j \in DOMAIN a.rows, Abstract!Clash("hosts", a.rows[i], a.rows[j])
        PROVE  i = j
    BY Zenon, <2>2, <2>4 DEF Abstract!Clash, RowsOK
  <2>5. Apart("hosts", RowSet(a))
    <3> SUFFICES ASSUME NEW r \in RowSet(a), NEW s \in RowSet(a), Abstract!Clash("hosts", r, s) PROVE r = s
      BY Zenon DEF Apart
    <3>1. PICK i \in DOMAIN a.rows : r = a.rows[i]
      BY Zenon DEF RowSet
    <3>2. PICK j \in DOMAIN a.rows : s = a.rows[j]
      BY Zenon DEF RowSet
    <3> QED BY Zenon, <2>4, <3>1, <3>2
  <2> QED BY Zenon, <1>4, <2>1, <2>3, <2>5, Labelled
<1> QED BY Zenon, <1>1, <1>2, <1>3, <1>4 DEF Tables

LEMMA ConsistentRows ==
  ASSUME NEW d, DbOK(d), NEW m, m = [t \in Tables |-> RowSet(d[t])]
  PROVE  Abstract!Consistent(m)
<1>1. m.clients = RowSet(d.clients) /\ m.tasks = RowSet(d.tasks) /\ m.hosts = RowSet(d.hosts)
  BY Zenon DEF Tables
<1>2. \A t \in Tables : Apart(t, m[t])
  BY Zenon, RowsOfTable
<1>3. ASSUME NEW g \in m.hosts, NEW h \in m.hosts PROVE ~ (Abstract!Covers(g, h) /\ Abstract!Covers(h, g))
  <2>1. PICK a : a = d.hosts
    BY Zenon
  <2>2. \A i, j \in DOMAIN a.rows : a.rows[i].name = a.rows[j].name /\ a.rows[i].scheme = a.rows[j].scheme => i = j
    BY Zenon, <2>1 DEF DbOK, HostsOK
  <2>3. PICK i \in DOMAIN a.rows : g = a.rows[i]
    BY Zenon, <1>1, <2>1 DEF RowSet
  <2>4. PICK j \in DOMAIN a.rows : h = a.rows[j]
    BY Zenon, <1>1, <2>1 DEF RowSet
  <2> QED BY Zenon, <2>2, <2>3, <2>4 DEF Abstract!Covers
<1>4. ASSUME NEW r \in m.tasks \union m.hosts PROVE r.client \in Abstract!Ids(m.clients)
  <2>1. r.client \in DOMAIN d.clients.rows
    BY Zenon, <1>1 DEF DbOK, Placed, RowSet
  <2>2. \A i \in DOMAIN d.clients.rows : d.clients.rows[i].id = i
    BY Zenon DEF DbOK, ClientsOK, RowsOK
  <2>3. d.clients.rows[r.client] \in m.clients /\ d.clients.rows[r.client].id = r.client
    BY Zenon, <1>1, <2>1, <2>2 DEF RowSet
  <2> QED BY Zenon, <2>3 DEF Abstract!Ids
<1> QED BY Zenon, <1>2, <1>3, <1>4 DEF Abstract!Consistent, Apart, Tables, Abstract!Tables

-----------------------------------------------------------------------------
(* What an operation has to show: it leaves exact tables d, which differ from the old ones in tables ts *)
(* at most, and every client still has its owner.                                                       *)
Sound(d, ts) ==
  /\ DbOK(d) /\ \A t \in Tables \ ts : RowSet(d[t]) = RowSet(db[t])
  /\ ~ cut => AllOwned(RowSet(d.clients), RowSet(d.users))

LEMMA StillFresh ==
  ASSUME IInv, loading = "no", NEW ts,
         \A t \in Tables \ ts : RowSet(db'[t]) = RowSet(db[t]), UNCHANGED <<disk, loadVars, skipped>>,
         Due \subseteq Due', ts \subseteq Due'
  PROVE  FilesFresh'
<1>1. ASSUME NEW t \in Tables \ Due' PROVE disk'[t] = Written(t)' \union skipped'[t]
  <2>1. disk[t] = Written(t) \union skipped[t] /\ RowSet(db'[t]) = RowSet(db[t])
    BY Zenon DEF IInv, FilesFresh
  <2>2. Written(t)' = Written(t)
    BY Zenon, <2>1 DEF Written, Rows
  <2> QED BY Zenon, <2>1, <2>2
<1> QED BY Zenon, <1>1 DEF FilesFresh

LEMMA Operated ==
  ASSUME IInv, NEW d, NEW ts \in SUBSET Tables, ts # {}, Operate(d, ts), Sound(d, ts), births' \in Nat
  PROVE  IInv'
<1>1. /\ loading = "no" /\ todo = {} /\ db' = d /\ loading' = loading /\ load' = load /\ source' = source
      /\ shown' = shown /\ disk' = disk /\ depth' = depth /\ half' = half /\ cut' = cut /\ skipped' = skipped
  BY Zenon DEF Operate, Idle, Stays, loadVars
<1>2. DbOK(db)'
  BY Zenon, <1>1 DEF Sound
<1>3. FilesOK'
  BY Zenon, <1>1 DEF IInv, FilesOK
<1>4. /\ ControlOK' /\ Due \subseteq Due' /\ ts \subseteq Due'
  BY <1>1 DEF Operate, Store, IInv, ControlOK, Due
<1>5. FilesFresh'
  BY Zenon, <1>1, <1>4, StillFresh DEF Sound, loadVars
<1>6. LoadOK'
  BY Zenon, <1>1 DEF IInv, LoadOK
<1>7. OwnersOK'
  <2>1. ~ cut /\ ~ half => AllOwned(disk.clients, disk.users)
    BY Zenon DEF IInv, OwnersOK
  <2> QED BY Zenon, <1>1, <2>1 DEF OwnersOK, Sound, Rows
<1> QED BY Zenon, <1>2, <1>3, <1>4, <1>5, <1>6, <1>7 DEF IInv

(* A record stored in table users keeps the owners, if it does not change the birth of a user there was; ... *)
LEMMA OwnersKeptByUser ==
  ASSUME NEW d, NEW e, NEW u, Replaced(d, e, "users", u), AllOwned(RowSet(d.clients), RowSet(d.users)),
         \A x \in RowSet(d.users) : x.id = u.id => x.birth = u.birth
  PROVE  AllOwned(RowSet(e.clients), RowSet(e.users))
<1>1. e.clients = d.clients /\ RowSet(e.users) = {x \in RowSet(d.users) : x.id # u.id} \union {u}
  BY Zenon DEF Replaced, Others, Tables
<1>2. ASSUME NEW c, Owned(c, RowSet(d.users)) PROVE Owned(c, RowSet(e.users))
  BY Zenon, <1>1, <1>2 DEF Owned
<1> QED BY Zenon, <1>1, <1>2 DEF AllOwned

(* ... so does a client whose owner is there. *)
LEMMA OwnersKeptByClient ==
  ASSUME NEW d, NEW e, NEW c, Replaced(d, e, "clients", c), AllOwned(RowSet(d.clients), RowSet(d.users)),
         Owned(c, RowSet(d.users))
  PROVE  AllOwned(RowSet(e.clients), RowSet(e.users))
<1>1. e.users = d.users /\ RowSet(e.clients) = {x \in RowSet(d.clients) : x.id # c.id} \union {c}
  BY Zenon DEF Replaced, Others, Tables
<1> QED BY Zenon, <1>1 DEF AllOwned

LEMMA OwnedNow ==
  ASSUME IInv, loading = "no", ~ cut
  PROVE  AllOwned(RowSet(db.clients), RowSet(db.users))
BY Zenon DEF IInv, OwnersOK, Rows

One(d, e) ==
  \E t \in Tables : \/ \E r : Replaced(d, e, t, r)
                    \/ \E x \in RowSet(d[t]) : Removed(d, e, t, x.id)

LEMMA UserRows ==
  ASSUME NEW d, DbOK(d)
  PROVE  /\ d.users.last \in Nat /\ DOMAIN d.users.rows \subseteq Ids
         /\ \A i \in DOMAIN d.users.rows : d.users.rows[i] \in UserRecord /\ d.users.rows[i].id = i /\ i <= d.users.last
BY Zenon DEF DbOK, UsersOK, RowsOK

LEMMA ClientRows ==
  ASSUME NEW d, DbOK(d)
  PROVE  /\ d.clients.last \in Nat /\ DOMAIN d.clients.rows \subseteq Ids
         /\ \A i \in DOMAIN d.clients.rows :
              d.clients.rows[i] \in ClientRecord /\ d.clients.rows[i].id = i /\ i <= d.clients.last
BY Zenon DEF DbOK, ClientsOK, RowsOK

LEMMA TaskRows ==
  ASSUME NEW d, DbOK(d)
  PROVE  /\ d.tasks.last \in Nat /\ DOMAIN d.tasks.rows \subseteq Ids
         /\ \A i \in DOMAIN d.tasks.rows : d.tasks.rows[i] \in TaskRecord /\ d.tasks.rows[i].id = i /\ i <= d.tasks.last
BY Zenon DEF DbOK, TasksOK, RowsOK

LEMMA HostRows ==
  ASSUME NEW d, DbOK(d)
  PROVE  /\ d.hosts.last \in Nat /\ DOMAIN d.hosts.rows \subseteq Ids
         /\ \A i \in DOMAIN d.hosts.rows : d.hosts.rows[i] \in HostRecord /\ d.hosts.rows[i].id = i /\ i <= d.hosts.last
BY Zenon DEF DbOK, HostsOK, RowsOK

(* A new user is stored soundly. *)
LEMMA FreshUserSound ==
  ASSUME IInv, loading = "no", NEW n \in Names, NEW p \in Platforms \union {None}, FreeName(n, 0),
         p # None => p \notin {db.users.rows[i].platform : i \in DOMAIN db.users.rows},
         NEW e, e = [db EXCEPT !.users = PutUser(db.users, FreshUser(n, p))]
  PROVE  Sound(e, {"users"}) /\ One(db, e) /\ births + 1 \in Nat
<1>1. DbOK(db) /\ births \in Nat
  BY Zenon DEF IInv, ControlOK
<1>2. PICK u : u = FreshUser(n, p)
  BY Zenon
<1>3. /\ u.id = db.users.last + 1 /\ u.name = n /\ u.platform = p /\ u.birth = births + 1 /\ u.noStore = FALSE
      /\ u = [id |-> u.id, name |-> u.name, platform |-> u.platform, birth |-> u.birth, noStore |-> u.noStore]
  BY Zenon, <1>2 DEF FreshUser, NextId
<1>4. u \in UserRecord
  <2>1. u.id \in Ids /\ u.birth \in Nat
    BY <1>1, <1>3, UserRows DEF Ids
  <2> QED BY Zenon, <1>3, <2>1 DEF UserRecord
<1>5. UserFits(db.users, u)
  BY Zenon, <1>1, <1>3, UserRows DEF UserFits, FreeName, Ids
<1>6. DbOK(e) /\ Replaced(db, e, "users", u)
  BY Zenon, <1>1, <1>2, <1>4, <1>5, UserStored
<1>7. \A x \in RowSet(db.users) : x.id # u.id
  BY <1>1, <1>3, UserRows DEF RowSet, Ids
<1>8. ~ cut => AllOwned(RowSet(e.clients), RowSet(e.users))
  BY Zenon, <1>6, <1>7, OwnersKeptByUser, OwnedNow
<1>9. "users" \in Tables
  BY Zenon DEF Tables
<1>10. Sound(e, {"users"}) /\ One(db, e)
  BY Zenon, <1>6, <1>8, <1>9 DEF Sound, One, Replaced, Others
<1>11. births + 1 \in Nat
  BY <1>1
<1> QED BY Zenon, <1>10, <1>11

LEMMA NewUserOK ==
  ASSUME IInv, NEW n \in Names, NewUser(n)
  PROVE  IInv' /\ One(db, db')
<1>1. PICK e : e = [db EXCEPT !.users = PutUser(db.users, FreshUser(n, None))]
  BY Zenon
<1>2. Operate(e, {"users"}) /\ births' = births + 1 /\ FreeName(n, 0) /\ loading = "no" /\ db' = e
  BY Zenon, <1>1 DEF NewUser, Operate, Idle
<1>3. Sound(e, {"users"}) /\ One(db, e) /\ births + 1 \in Nat
  BY Zenon, <1>1, <1>2, FreshUserSound
<1>4. {"users"} \in SUBSET Tables /\ {"users"} # {}
  BY Zenon DEF Tables
<1> QED BY Zenon, <1>2, <1>3, <1>4, Operated

LEMMA UpdateUserOK ==
  ASSUME IInv, NEW id, NEW n \in Names, UpdateUser(id, n)
  PROVE  IInv' /\ One(db, db')
<1>0. DbOK(db)
  BY Zenon DEF IInv
<1>1. PICK r : r = db.users.rows[id]
  BY Zenon
<1>2. PICK u : u = [r EXCEPT !.name = n]
  BY Zenon
<1>3. PICK e : e = [db EXCEPT !.users = PutUser(db.users, u)]
  BY Zenon
<1>4. /\ Operate(e, {"users"}) /\ births' = births /\ FreeName(n, id) /\ loading = "no" /\ db' = e
      /\ id \in DOMAIN db.users.rows
  BY Zenon, <1>1, <1>2, <1>3 DEF UpdateUser, Operate, Idle
<1>5. r \in UserRecord /\ r.id = id
  BY Zenon, <1>0, <1>1, <1>4, UserRows
<1>6. u \in UserRecord /\ u.id = id /\ u.name = n /\ u.platform = r.platform /\ u.birth = r.birth
  BY Zenon, <1>2, <1>5 DEF UserRecord
<1>7. UserFits(db.users, u)
  <2>1. ASSUME NEW i \in DOMAIN db.users.rows \ {id}, r.platform # None PROVE db.users.rows[i].platform # r.platform
    <3>1. PICK a : a = db.users
      BY Zenon
    <3>2. PICK col : col = PlatformColumn(a)
      BY Zenon
    <3>3. ExactIndex(a.byPlatform, col)
      BY Zenon, <1>0, <3>1, <3>2 DEF DbOK, UsersOK
    <3>4. DOMAIN col = DOMAIN a.rows /\ col[i] = a.rows[i].platform /\ col[id] = a.rows[id].platform
      BY Zenon, <1>4, <3>1, <3>2 DEF PlatformColumn
    <3> QED BY Zenon, <1>1, <1>4, <2>1, <3>1, <3>3, <3>4, IndexTells
  <2> QED BY Zenon, <1>4, <1>6, <2>1 DEF UserFits, FreeName
<1>8. DbOK(e) /\ Replaced(db, e, "users", u)
  BY Zenon, <1>0, <1>3, <1>6, <1>7, UserStored
<1>9. \A x \in RowSet(db.users) : x.id = u.id => x.birth = u.birth
  BY <1>0, <1>1, <1>4, <1>6, UserRows DEF RowSet
<1>10. ~ cut => AllOwned(RowSet(e.clients), RowSet(e.users))
  BY Zenon, <1>4, <1>8, <1>9, OwnersKeptByUser, OwnedNow
<1>11. {"users"} \in SUBSET Tables /\ {"users"} # {} /\ "users" \in Tables
  BY Zenon DEF Tables
<1>12. Sound(e, {"users"}) /\ One(db, e) /\ births' \in Nat
  BY Zenon, <1>4, <1>8, <1>10, <1>11 DEF Sound, One, Replaced, Others, IInv, ControlOK
<1> QED BY Zenon, <1>4, <1>11, <1>12, Operated

LEMMA FlushKeeps ==
  ASSUME IInv, loading = "no", NEW d, db' = d, DbOK(d), births' \in Nat,
         ~ cut => AllOwned(RowSet(d.clients), RowSet(d.users)), Flush, Stays
  PROVE  IInv'
<1>1. /\ loading' = loading /\ load' = load /\ source' = source /\ todo' = Tables /\ dirty' = dirty
      /\ shown' = shown /\ disk' = disk /\ depth' = depth /\ half' = half /\ cut' = cut /\ skipped' = skipped
  BY Zenon DEF Flush, Stays, loadVars
<1>2. FilesOK'
  BY Zenon, <1>1 DEF IInv, FilesOK
<1>3. ControlOK'
  BY Zenon, <1>1 DEF IInv, ControlOK
<1>4. FilesFresh'
  BY Zenon, <1>1 DEF FilesFresh, Due, Tables, IInv
<1>5. LoadOK'
  BY Zenon, <1>1 DEF IInv, LoadOK
<1>6. OwnersOK'
  BY Zenon, <1>1 DEF OwnersOK, IInv, Rows
<1> QED BY Zenon, <1>2, <1>3, <1>4, <1>5, <1>6 DEF IInv

LEMMA PlatformUserOK ==
  ASSUME IInv, NEW p \in Platforms, NEW n \in Names, EnsureManagementPlatformUsers(p, n)
  PROVE  IInv' /\ One(db, db')
<1>1. PICK e : e = [db EXCEPT !.users = PutUser(db.users, FreshUser(n, p))]
  BY Zenon
<1>2. /\ Flush /\ Stays /\ births' = births + 1 /\ FreeName(n, 0) /\ loading = "no" /\ db' = e
      /\ p \notin {db.users.rows[i].platform : i \in DOMAIN db.users.rows}
  BY Zenon, <1>1 DEF EnsureManagementPlatformUsers, Idle
<1>3. Sound(e, {"users"}) /\ One(db, e) /\ births + 1 \in Nat
  BY Zenon, <1>1, <1>2, FreshUserSound
<1> QED BY Zenon, <1>2, <1>3, FlushKeeps DEF Sound

(* A user leaves: the clients forget the user. *)
LEMMA DelUserOK ==
  ASSUME IInv, NEW id, DelUser(id)
  PROVE  /\ IInv'
         /\ \A o \in {"tasks", "hosts"} : db'[o] = db[o]
         /\ Removed(db, [db EXCEPT !.users = db'.users], "users", id)
         /\ DOMAIN db'.clients.rows = DOMAIN db.clients.rows
         /\ \A i \in DOMAIN db.clients.rows :
              /\ ~ Refers(db'.clients.rows[i], id)
              /\ ~ Refers(db.clients.rows[i], id) => db'.clients.rows[i] = db.clients.rows[i]
<1>0. DbOK(db)
  BY Zenon DEF IInv
<1>1. PICK a : a = ForgetUser(db.users, id)
  BY Zenon
<1>2. PICK b : b = clearUserReferences(db.clients, id)
  BY Zenon
<1>3. PICK e : e = [db EXCEPT !.users = a, !.clients = b]
  BY Zenon
<1>4. PICK ts : ts = IF LinkedClients(id) = {} THEN {"users"} ELSE {"users", "clients"}
  BY Zenon
<1>5. Operate(e, ts) /\ births' = births /\ loading = "no" /\ db' = e /\ id \in DOMAIN db.users.rows
  BY Zenon, <1>1, <1>2, <1>3, <1>4 DEF DelUser, Operate, Idle
<1>6. PICK f : f = [db EXCEPT !.users = a]
  BY Zenon
<1>7. DbOK(f) /\ Removed(db, f, "users", id)
  BY Zenon, <1>0, <1>1, <1>5, <1>6, UserRemoved
<1>8. id \in Ids
  BY Zenon, <1>0, <1>5, UserRows
<1>9. PICK d : d = db.clients
  BY Zenon
<1>10. ClientsOK(d)
  BY Zenon, <1>0, <1>9 DEF DbOK
<1>11. /\ ClientsOK(b) /\ DOMAIN b.rows = DOMAIN d.rows
       /\ \A i \in DOMAIN d.rows : b.rows[i] = IF Refers(d.rows[i], id) THEN ClearedOf(d.rows[i], id) ELSE d.rows[i]
  BY <1>2, <1>8, <1>9, <1>10, ClearOK
<1>12. /\ e.users = a /\ e.clients = b /\ e.tasks = db.tasks /\ e.hosts = db.hosts /\ e = [t \in Tables |-> e[t]]
       /\ f.users = a /\ f.clients = db.clients /\ f.tasks = db.tasks /\ f.hosts = db.hosts
  BY Zenon, <1>0, <1>3, <1>6 DEF DbOK, Tables
<1>13. DbOK(e)
  BY Zenon, <1>7, <1>9, <1>11, <1>12 DEF DbOK, Placed
<1>14. ASSUME NEW i \in DOMAIN d.rows
       PROVE  /\ ~ Refers(b.rows[i], id)
              /\ ~ Refers(d.rows[i], id) => b.rows[i] = d.rows[i]
              /\ ~ cut => Owned(b.rows[i], RowSet(a))
  <2>1. PICK c : c = d.rows[i]
    BY Zenon
  <2>2. PICK g : g = ClearedOf(c, id)
    BY Zenon
  <2>3. c \in ClientRecord
    BY Zenon, <1>0, <1>9, <2>1, ClientRows
  <2>4. /\ ~ Refers(g, id) /\ g.owner = (IF c.owner = id THEN 0 ELSE c.owner)
        /\ g.ownerBirth = (IF c.owner = id THEN 0 ELSE c.ownerBirth)
    BY <1>8, <2>2, <2>3, ClearedFacts
  <2>5. b.rows[i] = IF Refers(c, id) THEN g ELSE c
    BY Zenon, <1>11, <2>1, <2>2
  <2>6. ~ cut => Owned(c, RowSet(db.users))
    BY Zenon, <1>5, <1>9, <2>1, OwnedNow DEF AllOwned, RowSet
  <2>7. RowSet(a) = {x \in RowSet(db.users) : x.id # id}
    BY Zenon, <1>7, <1>12 DEF Removed
  <2>8. ~ cut => Owned(g, RowSet(a))
    BY Zenon, <2>4, <2>6, <2>7 DEF Owned
  <2>9. ~ cut /\ ~ Refers(c, id) => Owned(c, RowSet(a))
    BY Zenon, <2>6, <2>7 DEF Owned, Refers
  <2> QED BY Zenon, <2>1, <2>4, <2>5, <2>8, <2>9
<1>15. ~ cut => AllOwned(RowSet(e.clients), RowSet(e.users))
  <2>1. SUFFICES ASSUME ~ cut, NEW c \in RowSet(b) PROVE Owned(c, RowSet(a))
    BY Zenon, <1>12 DEF AllOwned
  <2>2. PICK i \in DOMAIN d.rows : c = b.rows[i]
    BY Zenon, <1>11 DEF RowSet
  <2> QED BY Zenon, <1>14, <2>1, <2>2
<1>16. LinkedClients(id) = {} => RowSet(e.clients) = RowSet(db.clients)
  <2>1. SUFFICES ASSUME LinkedClients(id) = {} PROVE RowSet(b) = RowSet(d)
    BY Zenon, <1>9, <1>12
  <2>2. LinkedClients(id) = {i \in DOMAIN d.rows : Refers(d.rows[i], id)}
    BY Zenon, <1>8, <1>9, <1>10, LinkedExact
  <2>3. \A i \in DOMAIN d.rows : ~ Refers(d.rows[i], id)
    BY Zenon, <2>1, <2>2
  <2>4. \A i \in DOMAIN d.rows : b.rows[i] = d.rows[i]
    BY Zenon, <1>14, <2>3
  <2> QED BY Zenon, <1>11, <2>4 DEF RowSet
<1>17. \A t \in Tables \ ts : RowSet(e[t]) = RowSet(db[t])
  BY Zenon, <1>4, <1>12, <1>16 DEF Tables
<1>18. ts \in SUBSET Tables /\ ts # {}
  BY Zenon, <1>4 DEF Tables
<1>19. Sound(e, ts) /\ births' \in Nat
  BY Zenon, <1>5, <1>13, <1>15, <1>17 DEF Sound, IInv, ControlOK
<1>20. IInv'
  BY Zenon, <1>5, <1>18, <1>19, Operated
<1>21. \A o \in {"tasks", "hosts"} : db'[o] = db[o]
  BY Zenon, <1>5, <1>12
<1>22. Removed(db, [db EXCEPT !.users = db'.users], "users", id)
  BY Zenon, <1>5, <1>6, <1>7, <1>12
<1> QED BY Zenon, <1>5, <1>9, <1>11, <1>12, <1>14, <1>20, <1>21, <1>22

(* A client is stored under an id, with an owner that is there. *)
LEMMA GivenClientSound ==
  ASSUME IInv, loading = "no", NEW id \in Ids, NEW k \in Keys, NEW o \in Owners,
         NEW ms \in SUBSET DOMAIN db.users.rows, NEW ns \in BOOLEAN, VerifyVkey(k, id),
         NEW e, e = [db EXCEPT !.clients = PutClient(db.clients, GivenTo(id, k, o, ms, ns))]
  PROVE  Sound(e, {"clients"}) /\ One(db, e)
<1>1. DbOK(db)
  BY Zenon DEF IInv
<1>2. PICK c : c = GivenTo(id, k, o, ms, ns)
  BY Zenon
<1>3. PICK us : us = db.users.rows
  BY Zenon
<1>4. /\ c.id = id /\ c.key = k /\ c.owner = o /\ c.ownerBirth = (IF o = 0 THEN 0 ELSE us[o].birth)
      /\ c.managers = ms \ {o} /\ c.noStore = ns
      /\ c = [id |-> c.id, key |-> c.key, owner |-> c.owner, ownerBirth |-> c.ownerBirth,
              managers |-> c.managers, noStore |-> c.noStore]
  BY Zenon, <1>2, <1>3 DEF GivenTo
<1>5. /\ DOMAIN us \subseteq Nat \ {0} /\ \A i \in DOMAIN us : us[i] \in UserRecord /\ us[i].id = i /\ us[i].birth \in Nat
      /\ o \in {0} \union DOMAIN us /\ ms \in SUBSET DOMAIN us
  BY Zenon, <1>1, <1>3, UserRows DEF Owners, UserRecord, Ids
<1>6. c.owner \in Nat /\ c.ownerBirth \in Nat /\ c.managers \in SUBSET Nat
  BY <1>4, <1>5
<1>7. c \in ClientRecord
  BY Zenon, <1>4, <1>6 DEF ClientRecord
<1>8. Owned(c, RowSet(db.users))
  <2>1. CASE o = 0
    BY Zenon, <1>4, <2>1 DEF Owned
  <2>2. CASE o # 0
    <3>1. us[o] \in RowSet(db.users) /\ us[o].id = c.owner /\ us[o].birth = c.ownerBirth
      BY Zenon, <1>3, <1>4, <1>5, <2>2 DEF RowSet
    <3> QED BY Zenon, <3>1 DEF Owned
  <2> QED BY Zenon, <2>1, <2>2
<1>9. KeyFits(db.clients, c)
  BY Zenon, <1>4 DEF KeyFits, VerifyVkey
<1>10. DbOK(e) /\ Replaced(db, e, "clients", c)
  BY Zenon, <1>1, <1>2, <1>7, <1>9, ClientStored
<1>11. ~ cut => AllOwned(RowSet(e.clients), RowSet(e.users))
  BY Zenon, <1>8, <1>10, OwnersKeptByClient, OwnedNow
<1>12. "clients" \in Tables
  BY Zenon DEF Tables
<1> QED BY Zenon, <1>10, <1>11, <1>12 DEF Sound, One, Replaced, Others

LEMMA NewClientOK ==
  ASSUME IInv, NEW k \in Keys, NEW o \in Owners, NEW ms \in SUBSET DOMAIN db.users.rows, NEW ns \in BOOLEAN,
         NewClient(k, o, ms, ns)
  PROVE  IInv' /\ One(db, db')
<1>1. PICK id : id = NextId("clients")
  BY Zenon
<1>2. PICK e : e = [db EXCEPT !.clients = PutClient(db.clients, GivenTo(id, k, o, ms, ns))]
  BY Zenon
<1>3. Operate(e, {"clients"}) /\ births' = births /\ VerifyVkey(k, 0) /\ loading = "no" /\ db' = e
  BY Zenon, <1>1, <1>2 DEF NewClient, Operate, Idle
<1>4. DbOK(db) /\ births' \in Nat
  BY Zenon, <1>3 DEF IInv, ControlOK
<1>5. id \in Ids /\ VerifyVkey(k, id)
  BY <1>1, <1>3, <1>4, ClientRows DEF NextId, Ids, VerifyVkey
<1>6. Sound(e, {"clients"}) /\ One(db, e)
  BY Zenon, <1>2, <1>3, <1>5, GivenClientSound
<1>7. {"clients"} \in SUBSET Tables /\ {"clients"} # {}
  BY Zenon DEF Tables
<1> QED BY Zenon, <1>3, <1>4, <1>6, <1>7, Operated

LEMMA UpdateClientOK ==
  ASSUME IInv, NEW id \in DOMAIN db.clients.rows, NEW k \in Keys, NEW o \in Owners,
         NEW ms \in SUBSET DOMAIN db.users.rows, UpdateClient(id, k, o, ms)
  PROVE  IInv' /\ One(db, db')
<1>1. PICK ns : ns = db.clients.rows[id].noStore
  BY Zenon
<1>2. PICK e : e = [db EXCEPT !.clients = PutClient(db.clients, GivenTo(id, k, o, ms, ns))]
  BY Zenon
<1>3. Operate(e, {"clients"}) /\ births' = births /\ VerifyVkey(k, id) /\ loading = "no" /\ db' = e
  BY Zenon, <1>1, <1>2 DEF UpdateClient, Operate, Idle
<1>4. DbOK(db) /\ births' \in Nat
  BY Zenon, <1>3 DEF IInv, ControlOK
<1>5. id \in Ids /\ ns \in BOOLEAN
  BY Zenon, <1>1, <1>4, ClientRows DEF ClientRecord
<1>6. Sound(e, {"clients"}) /\ One(db, e)
  BY Zenon, <1>2, <1>3, <1>5, GivenClientSound
<1>7. {"clients"} \in SUBSET Tables /\ {"clients"} # {}
  BY Zenon DEF Tables
<1> QED BY Zenon, <1>3, <1>4, <1>6, <1>7, Operated

LEMMA NoMembers ==
  ASSUME NEW d, ExactPairs(d.byClient, ClientColumn(d)), NEW id, Members(d.byClient, id) = {}
  PROVE  \A i \in DOMAIN d.rows : d.rows[i].client # id
<1>1. PICK col : col = ClientColumn(d)
  BY Zenon
<1>2. Members(d.byClient, id) = Holders(col, id)
  BY Zenon, <1>1, MembersExact
<1>3. DOMAIN col = DOMAIN d.rows /\ \A i \in DOMAIN d.rows : col[i] = {d.rows[i].client}
  BY Zenon, <1>1 DEF ClientColumn
<1> QED BY Zenon, <1>2, <1>3 DEF Holders

LEMMA DelClientOK ==
  ASSUME IInv, NEW id, DelClient(id)
  PROVE  IInv' /\ One(db, db')
<1>1. PICK e : e = [db EXCEPT !.clients = ForgetClient(db.clients, id)]
  BY Zenon
<1>2. /\ Operate(e, {"clients"}) /\ births' = births /\ ~ HasResources(id) /\ loading = "no" /\ db' = e
      /\ id \in DOMAIN db.clients.rows
  BY Zenon, <1>1 DEF DelClient, Operate, Idle
<1>3. DbOK(db) /\ births' \in Nat
  BY Zenon, <1>2 DEF IInv, ControlOK
<1>4. /\ \A i \in DOMAIN db.tasks.rows : db.tasks.rows[i].client # id
      /\ \A i \in DOMAIN db.hosts.rows : db.hosts.rows[i].client # id
  <2>1. /\ ExactPairs(db.tasks.byClient, ClientColumn(db.tasks)) /\ Members(db.tasks.byClient, id) = {}
        /\ ExactPairs(db.hosts.byClient, ClientColumn(db.hosts)) /\ Members(db.hosts.byClient, id) = {}
    BY Zenon, <1>2, <1>3 DEF DbOK, TasksOK, HostsOK, HasResources
  <2>2. PICK ts : ts = db.tasks
    BY Zenon
  <2>3. PICK hs : hs = db.hosts
    BY Zenon
  <2>4. /\ \A i \in DOMAIN ts.rows : ts.rows[i].client # id
        /\ \A i \in DOMAIN hs.rows : hs.rows[i].client # id
    BY Zenon, <2>1, <2>2, <2>3, NoMembers
  <2> QED BY Zenon, <2>2, <2>3, <2>4
<1>5. DbOK(e) /\ Removed(db, e, "clients", id)
  BY Zenon, <1>1, <1>2, <1>3, <1>4, ClientRemoved
<1>6. e.users = db.users /\ RowSet(e.clients) \subseteq RowSet(db.clients)
  BY Zenon, <1>5 DEF Removed, Others, Tables
<1>7. ~ cut => AllOwned(RowSet(e.clients), RowSet(e.users))
  BY Zenon, <1>2, <1>6, OwnedNow DEF AllOwned
<1>8. {"clients"} \in SUBSET Tables /\ {"clients"} # {} /\ "clients" \in Tables
  BY Zenon DEF Tables
<1>9. db.clients.rows[id] \in RowSet(db.clients) /\ db.clients.rows[id].id = id
  BY Zenon, <1>2, <1>3, ClientRows DEF RowSet
<1>10. One(db, e)
  BY Zenon, <1>5, <1>8, <1>9 DEF One
<1>11. Sound(e, {"clients"})
  BY Zenon, <1>5, <1>7, <1>8 DEF Sound, Removed, Others
<1> QED BY Zenon, <1>2, <1>3, <1>8, <1>10, <1>11, Operated

(* A tunnel or a host is stored: users and clients stay as they are. *)
LEMMA ResourceSound ==
  ASSUME IInv, loading = "no", NEW t \in {"tasks", "hosts"}, NEW e, DbOK(e),
         \/ \E r : Replaced(db, e, t, r)
         \/ \E x \in RowSet(db[t]) : Removed(db, e, t, x.id)
  PROVE  Sound(e, {t}) /\ One(db, e) /\ {t} \in SUBSET Tables /\ {t} # {}
<1>1. \A o \in Tables \ {t} : e[o] = db[o]
  BY Zenon DEF Replaced, Removed, Others
<1>2. e.users = db.users /\ e.clients = db.clients /\ t \in Tables /\ {t} \in SUBSET Tables
  BY Zenon, <1>1 DEF Tables
<1>3. ~ cut => AllOwned(RowSet(e.clients), RowSet(e.users))
  BY Zenon, <1>2, OwnedNow
<1> QED BY Zenon, <1>1, <1>2, <1>3 DEF Sound, One

LEMMA TaskSound ==
  ASSUME IInv, loading = "no", NEW r \in TaskRecord, r.client \in DOMAIN db.clients.rows,
         ~ TakenBy(db.tasks.byPassword, r.password, r.id),
         NEW e, e = [db EXCEPT !.tasks = PutTask(db.tasks, r)]
  PROVE  Sound(e, {"tasks"}) /\ One(db, e) /\ {"tasks"} \in SUBSET Tables /\ {"tasks"} # {}
<1>1. DbOK(db)
  BY Zenon DEF IInv
<1>2. PasswordFits(db.tasks, r)
  <2>1. PICK a : a = db.tasks
    BY Zenon
  <2>2. PICK col : col = PasswordColumn(a)
    BY Zenon
  <2>3. ExactIndex(a.byPassword, col)
    BY Zenon, <1>1, <2>1, <2>2 DEF DbOK, TasksOK
  <2>4. DOMAIN col = DOMAIN a.rows /\ \A i \in DOMAIN a.rows : col[i] = a.rows[i].password
    BY Zenon, <2>2 DEF PasswordColumn
  <2>5. ASSUME NEW i \in DOMAIN a.rows \ {r.id}, r.password # None, a.rows[i].password = r.password PROVE FALSE
    <3>1. ~ TakenBy(a.byPassword, r.password, r.id) /\ i \in DOMAIN col /\ col[i] = r.password
      BY Zenon, <2>1, <2>4, <2>5
    <3>2. r.password \in DOMAIN a.byPassword /\ a.byPassword[r.password] = i
      BY Zenon, <2>3, <2>5, <3>1 DEF ExactIndex
    <3> QED BY Zenon, <2>5, <3>1, <3>2 DEF TakenBy
  <2> QED BY Zenon, <2>1, <2>5 DEF PasswordFits
<1>3. DbOK(e) /\ Replaced(db, e, "tasks", r)
  BY Zenon, <1>1, <1>2, TaskStored
<1> QED BY Zenon, <1>3, ResourceSound

LEMMA NewTaskOK ==
  ASSUME IInv, NEW c, NEW p \in Passwords \union {None}, NEW ns \in BOOLEAN, NewTask(c, p, ns)
  PROVE  IInv' /\ One(db, db')
<1>1. PICK id : id = NextId("tasks")
  BY Zenon
<1>2. PICK q \in FreePasswords(p, id) :
        Operate([db EXCEPT !.tasks = PutTask(db.tasks, [id |-> id, client |-> c, password |-> q, noStore |-> ns])], {"tasks"})
  BY Zenon, <1>1 DEF NewTask
<1>3. PICK r : r = [id |-> id, client |-> c, password |-> q, noStore |-> ns]
  BY Zenon
<1>4. PICK e : e = [db EXCEPT !.tasks = PutTask(db.tasks, r)]
  BY Zenon
<1>5. Operate(e, {"tasks"}) /\ births' = births /\ loading = "no" /\ db' = e /\ c \in DOMAIN db.clients.rows
  BY Zenon, <1>2, <1>3, <1>4 DEF NewTask, Operate, Idle
<1>6. DbOK(db) /\ births' \in Nat
  BY Zenon, <1>5 DEF IInv, ControlOK
<1>7. id \in Ids /\ c \in Nat
  BY <1>1, <1>5, <1>6, TaskRows, ClientRows DEF NextId, Ids
<1>8. q \in Passwords \union {None} /\ ~ TakenBy(db.tasks.byPassword, q, id)
  BY Zenon DEF FreePasswords, TakenBy
<1>9. r.id = id /\ r.client = c /\ r.password = q
  BY Zenon, <1>3
<1>10. r \in TaskRecord
  BY Zenon, <1>3, <1>7, <1>8 DEF TaskRecord
<1>11. Sound(e, {"tasks"}) /\ One(db, e) /\ {"tasks"} \in SUBSET Tables /\ {"tasks"} # {}
  BY Zenon, <1>4, <1>5, <1>8, <1>9, <1>10, TaskSound
<1> QED BY Zenon, <1>5, <1>6, <1>11, Operated

LEMMA UpdateTaskOK ==
  ASSUME IInv, NEW id, NEW c, NEW p \in Passwords \union {None}, UpdateTask(id, c, p)
  PROVE  IInv' /\ One(db, db')
<1>1. PICK s : s = db.tasks.rows[id]
  BY Zenon
<1>2. PICK q \in FreePasswords(p, id) :
        Operate([db EXCEPT !.tasks = PutTask(db.tasks, [s EXCEPT !.client = c, !.password = q])], {"tasks"})
  BY Zenon, <1>1 DEF UpdateTask
<1>3. PICK r : r = [s EXCEPT !.client = c, !.password = q]
  BY Zenon
<1>4. PICK e : e = [db EXCEPT !.tasks = PutTask(db.tasks, r)]
  BY Zenon
<1>5. /\ Operate(e, {"tasks"}) /\ births' = births /\ loading = "no" /\ db' = e /\ c \in DOMAIN db.clients.rows
      /\ id \in DOMAIN db.tasks.rows
  BY Zenon, <1>2, <1>3, <1>4 DEF UpdateTask, Operate, Idle
<1>6. DbOK(db) /\ births' \in Nat
  BY Zenon, <1>5 DEF IInv, ControlOK
<1>7. s \in TaskRecord /\ s.id = id
  BY Zenon, <1>1, <1>5, <1>6, TaskRows
<1>8. q \in Passwords \union {None} /\ ~ TakenBy(db.tasks.byPassword, q, id)
  BY Zenon DEF FreePasswords, TakenBy
<1>9. c \in Nat
  BY Zenon, <1>5, <1>6, ClientRows DEF Ids
<1>10. r \in TaskRecord /\ r.id = id /\ r.client = c /\ r.password = q
  BY Zenon, <1>3, <1>7, <1>8, <1>9 DEF TaskRecord
<1>11. Sound(e, {"tasks"}) /\ One(db, e) /\ {"tasks"} \in SUBSET Tables /\ {"tasks"} # {}
  BY Zenon, <1>4, <1>5, <1>8, <1>10, TaskSound
<1> QED BY Zenon, <1>5, <1>6, <1>11, Operated

LEMMA TaskStatusOK ==
  ASSUME IInv, NEW id, UpdateTaskStatus(id)
  PROVE  IInv' /\ db' = db
<1>1. Operate(db, {"tasks"}) /\ births' = births /\ loading = "no" /\ db' = db
  BY Zenon DEF UpdateTaskStatus, Operate, Idle
<1>2. Sound(db, {"tasks"}) /\ births' \in Nat
  BY Zenon, <1>1, OwnedNow DEF Sound, IInv, ControlOK
<1>3. {"tasks"} \in SUBSET Tables /\ {"tasks"} # {}
  BY Zenon DEF Tables
<1> QED BY Zenon, <1>1, <1>2, <1>3, Operated

LEMMA DropTaskOK ==
  ASSUME IInv, NEW id \in DOMAIN db.tasks.rows, DropTask(id)
  PROVE  IInv' /\ One(db, db')
<1>1. PICK e : e = [db EXCEPT !.tasks = ForgetTask(db.tasks, id)]
  BY Zenon
<1>2. Operate(e, {"tasks"}) /\ births' = births /\ loading = "no" /\ db' = e
  BY Zenon, <1>1 DEF DropTask, Operate, Idle
<1>3. DbOK(db) /\ births' \in Nat
  BY Zenon, <1>2 DEF IInv, ControlOK
<1>4. DbOK(e) /\ Removed(db, e, "tasks", id)
  BY Zenon, <1>1, <1>3, TaskRemoved
<1>5. db.tasks.rows[id] \in RowSet(db.tasks) /\ db.tasks.rows[id].id = id
  BY Zenon, <1>3, TaskRows DEF RowSet
<1>6. Sound(e, {"tasks"}) /\ One(db, e) /\ {"tasks"} \in SUBSET Tables /\ {"tasks"} # {}
  BY Zenon, <1>2, <1>4, <1>5, ResourceSound
<1> QED BY Zenon, <1>2, <1>3, <1>6, Operated

LEMMA StoreHostOK ==
  ASSUME IInv, NEW h \in HostRecord, h.client \in DOMAIN db.clients.rows, StoreHost(h)
  PROVE  IInv' /\ One(db, db')
<1>1. PICK e : e = [db EXCEPT !.hosts = PutHost(db.hosts, h)]
  BY Zenon
<1>2. Operate(e, {"hosts"}) /\ births' = births /\ loading = "no" /\ db' = e /\ ~ RouteExists(db.hosts, h)
  BY Zenon, <1>1 DEF StoreHost, Operate, Idle
<1>3. DbOK(db) /\ births' \in Nat
  BY Zenon, <1>2 DEF IInv, ControlOK
<1>4. RouteFits(db.hosts, h)
  BY Zenon, <1>2 DEF RouteExists, RouteFits
<1>5. DbOK(e) /\ Replaced(db, e, "hosts", h)
  BY Zenon, <1>1, <1>3, <1>4, HostStored
<1>6. Sound(e, {"hosts"}) /\ One(db, e) /\ {"hosts"} \in SUBSET Tables /\ {"hosts"} # {}
  BY Zenon, <1>2, <1>5, ResourceSound
<1> QED BY Zenon, <1>2, <1>3, <1>6, Operated

LEMMA NewHostOK ==
  ASSUME IInv, NEW c \in DOMAIN db.clients.rows, NEW n \in HostNames, NEW sc \in Schemes, NEW ns \in BOOLEAN,
         NewHost(c, n, sc, ns)
  PROVE  IInv' /\ One(db, db')
<1>1. PICK id : id = NextId("hosts")
  BY Zenon
<1>2. PICK h : h = [id |-> id, client |-> c, name |-> n, scheme |-> sc, noStore |-> ns]
  BY Zenon
<1>3. DbOK(db)
  BY Zenon DEF IInv
<1>4. id \in Ids /\ c \in Nat
  BY <1>1, <1>3, HostRows, ClientRows DEF NextId, Ids
<1>5. h \in HostRecord
  BY Zenon, <1>2, <1>4 DEF HostRecord
<1>6. h.client = c
  BY Zenon, <1>2
<1>7. StoreHost(h)
  BY Zenon, <1>1, <1>2 DEF NewHost
<1> QED BY Zenon, <1>5, <1>6, <1>7, StoreHostOK

LEMMA UpdateHostOK ==
  ASSUME IInv, NEW id \in DOMAIN db.hosts.rows, NEW c \in DOMAIN db.clients.rows, NEW n \in HostNames, NEW sc \in Schemes,
         UpdateHost(id, c, n, sc)
  PROVE  IInv' /\ One(db, db')
<1>1. PICK g : g = db.hosts.rows[id]
  BY Zenon
<1>2. PICK h : h = [g EXCEPT !.client = c, !.name = n, !.scheme = sc]
  BY Zenon
<1>3. DbOK(db)
  BY Zenon DEF IInv
<1>4. g \in HostRecord /\ c \in Nat
  BY Zenon, <1>1, <1>3, HostRows, ClientRows DEF Ids
<1>5. h \in HostRecord /\ h.client = c
  BY Zenon, <1>2, <1>4 DEF HostRecord
<1>7. StoreHost(h)
  BY Zenon, <1>1, <1>2 DEF UpdateHost
<1> QED BY Zenon, <1>5, <1>7, StoreHostOK

LEMMA DropHostOK ==
  ASSUME IInv, NEW id \in DOMAIN db.hosts.rows, DropHost(id)
  PROVE  IInv' /\ One(db, db')
<1>1. PICK e : e = [db EXCEPT !.hosts = ForgetHost(db.hosts, id)]
  BY Zenon
<1>2. Operate(e, {"hosts"}) /\ births' = births /\ loading = "no" /\ db' = e
  BY Zenon, <1>1 DEF DropHost, Operate, Idle
<1>3. DbOK(db) /\ births' \in Nat
  BY Zenon, <1>2 DEF IInv, ControlOK
<1>4. DbOK(e) /\ Removed(db, e, "hosts", id)
  BY Zenon, <1>1, <1>3, HostRemoved
<1>5. db.hosts.rows[id] \in RowSet(db.hosts) /\ db.hosts.rows[id].id = id
  BY Zenon, <1>3, HostRows DEF RowSet
<1>6. Sound(e, {"hosts"}) /\ One(db, e) /\ {"hosts"} \in SUBSET Tables /\ {"hosts"} # {}
  BY Zenon, <1>2, <1>4, <1>5, ResourceSound
<1> QED BY Zenon, <1>2, <1>3, <1>6, Operated

-----------------------------------------------------------------------------
(* Windows and files. *)
LEMMA BeginOK ==
  ASSUME IInv, beginDeferredPersistence
  PROVE  IInv' /\ db' = db
<1>1. /\ depth' = depth + 1 /\ db' = db /\ loading' = loading /\ load' = load /\ source' = source /\ todo' = todo
      /\ dirty' = dirty /\ births' = births /\ shown' = shown /\ disk' = disk /\ half' = half /\ cut' = cut
      /\ skipped' = skipped
  BY Zenon DEF beginDeferredPersistence, loadVars
<1>2. ControlOK'
  BY <1>1 DEF IInv, ControlOK
<1> QED BY Zenon, <1>1, <1>2 DEF IInv, FilesOK, FilesFresh, LoadOK, OwnersOK, Due, Written, Rows, Sourced, Handled,
       LeftOut, Missing, HostsKept, Shadowed, InOrder, Pending

LEMMA EndOK ==
  ASSUME IInv, endDeferredPersistence
  PROVE  IInv' /\ db' = db
<1>1. /\ db' = db /\ loading' = loading /\ load' = load /\ source' = source /\ births' = births /\ shown' = shown
      /\ disk' = disk /\ half' = half /\ cut' = cut /\ skipped' = skipped /\ loading = "no"
  BY Zenon DEF endDeferredPersistence, loadVars
<1>2. ControlOK' /\ Due' = Due
  BY <1>1 DEF IInv, ControlOK, endDeferredPersistence, Due
<1>3. FilesFresh'
  BY Zenon, <1>1, <1>2 DEF IInv, FilesFresh, Written, Rows
<1> QED BY Zenon, <1>1, <1>2, <1>3 DEF IInv, FilesOK, LoadOK, OwnersOK, Rows

LEMMA StoreNowOK ==
  ASSUME IInv, NEW t \in Tables, StoreNow(t)
  PROVE  IInv' /\ db' = db /\ loading = "no"
<1>1. /\ db' = db /\ loading' = loading /\ load' = load /\ source' = source /\ births' = births /\ shown' = shown
      /\ cut' = cut /\ dirty' = dirty /\ depth' = depth
      /\ t \in todo /\ todo' = todo \ {t} /\ disk' = [disk EXCEPT ![t] = Written(t)] /\ skipped' = [skipped EXCEPT ![t] = {}]
  BY Zenon DEF StoreNow, loadVars
<1>2. loading = "no" /\ todo # {} /\ todo \subseteq Tables
  BY Zenon, <1>1 DEF IInv, ControlOK
<1>3. /\ DOMAIN disk = Tables /\ DOMAIN skipped = Tables
      /\ disk' = [o \in Tables |-> IF o = t THEN Written(t) ELSE disk[o]]
      /\ skipped' = [o \in Tables |-> IF o = t THEN {} ELSE skipped[o]]
  BY Zenon, <1>1 DEF IInv, FilesOK
<1>4. \A o \in Tables : RowSet(db[o]) \subseteq RecordOf[o] /\ Apart(o, RowSet(db[o]))
  BY Zenon, RowsOfTable DEF IInv
<1>5. Written(t) \subseteq RowSet(db[t]) /\ \A r \in Written(t) : ~ r.noStore
  BY Zenon DEF Written, Rows
<1>6. FilesOK'
  <2>1. disk' = [o \in Tables |-> disk'[o]] /\ skipped' = [o \in Tables |-> skipped'[o]]
    BY Zenon, <1>3
  <2>3. skipped'.users = {} /\ skipped'.clients = {}
    BY Zenon, <1>3 DEF Tables, IInv, FilesOK
  <2>2. ASSUME NEW o \in Tables
        PROVE  disk'[o] \subseteq RecordOf[o] /\ Apart(o, disk'[o]) /\ \A r \in disk'[o] : ~ r.noStore
    <3>1. CASE o = t
      <4>1. disk'[o] = Written(t)
        BY Zenon, <1>3, <3>1
      <4> QED BY Zenon, <1>4, <1>5, <3>1, <4>1 DEF Apart
    <3>2. CASE o # t
      <4>1. disk'[o] = disk[o]
        BY Zenon, <1>3, <3>2
      <4> QED BY Zenon, <4>1 DEF IInv, FilesOK
    <3> QED BY Zenon, <3>1, <3>2
  <2> QED BY Zenon, <2>1, <2>2, <2>3 DEF FilesOK
<1>7. ControlOK'
  BY Zenon, <1>1, <1>2 DEF IInv, ControlOK
<1>8. \A o \in Tables \ todo : disk[o] = Written(o) \union skipped[o]
  BY Zenon, <1>2 DEF IInv, FilesFresh, Due
<1>9. skipped.users = {} /\ skipped.clients = {}
  BY Zenon DEF IInv, FilesOK
<1>10. FilesFresh'
  <2>1. ASSUME NEW o \in Tables \ Due' PROVE disk'[o] = Written(o)' \union skipped'[o]
    <3>1. Written(o)' = Written(o)
      BY Zenon, <1>1 DEF Written, Rows
    <3>2. CASE o = t
      BY Zenon, <1>3, <3>1, <3>2
    <3>3. CASE o # t
      <4>1. o \notin todo
        BY Zenon, <1>1, <3>3 DEF Due
      <4> QED BY Zenon, <1>3, <1>8, <3>1, <3>3, <4>1
    <3> QED BY Zenon, <3>2, <3>3
  <2> QED BY Zenon, <2>1 DEF FilesFresh
<1>11. OwnersOK'
  <2>1. ~ cut => AllOwned(Rows("clients"), Rows("users"))
    BY Zenon, <1>2 DEF IInv, OwnersOK
  <2>2. Written("users") = Rows("users") /\ Written("clients") \subseteq Rows("clients")
    <3>1. \A r \in Rows("users") : ~ r.noStore
      <4>1. "users" \in Tables
        BY Zenon DEF Tables
      <4>2. \A r \in UserRecord : ~ r.noStore
        BY Zenon DEF UserRecord
      <4> QED BY Zenon, <1>4, <4>1, <4>2, Labelled DEF Rows
    <3> QED BY Zenon, <3>1 DEF Written
  <2>3. ASSUME ~ cut, ~ half' PROVE AllOwned(disk'.clients, disk'.users)
    <3>1. CASE t = "users"
      <4>1. "clients" \notin todo
        BY Zenon, <2>3, <3>1 DEF StoreNow
      <4>2. disk.clients = Written("clients")
        BY Zenon, <1>8, <1>9, <4>1 DEF Tables
      <4>3. disk'.users = Written("users") /\ disk'.clients = Written("clients")
        BY Zenon, <1>3, <3>1, <4>2 DEF Tables
      <4> QED BY Zenon, <2>1, <2>2, <2>3, <4>3 DEF AllOwned
    <3>2. CASE t = "clients"
      <4>1. "users" \notin todo
        BY <3>2 DEF StoreNow, Rank
      <4>2. disk.users = Written("users")
        BY Zenon, <1>8, <1>9, <4>1 DEF Tables
      <4>3. disk'.users = Written("users") /\ disk'.clients = Written("clients")
        BY Zenon, <1>3, <3>2, <4>2 DEF Tables
      <4> QED BY Zenon, <2>1, <2>2, <2>3, <4>3 DEF AllOwned
    <3>3. CASE t \notin {"users", "clients"}
      <4>1. half' = half
        BY Zenon, <3>3 DEF StoreNow
      <4>2. disk'.users = disk.users /\ disk'.clients = disk.clients
        BY Zenon, <1>3, <3>3 DEF Tables
      <4> QED BY Zenon, <2>3, <4>1, <4>2 DEF IInv, OwnersOK
    <3> QED BY Zenon, <3>1, <3>2, <3>3
  <2>4. Rows("clients")' = Rows("clients") /\ Rows("users")' = Rows("users")
    BY Zenon, <1>1 DEF Rows
  <2> QED BY Zenon, <1>1, <1>2, <2>1, <2>3, <2>4 DEF OwnersOK
<1>12. LoadOK'
  BY Zenon, <1>1, <1>2 DEF IInv, LoadOK
<1> QED BY Zenon, <1>1, <1>2, <1>6, <1>7, <1>10, <1>11, <1>12 DEF IInv

-----------------------------------------------------------------------------
(* Loads. *)
LEMMA EmptyOK == DbOK(EmptyDb) /\ \A t \in Tables : RowSet(EmptyDb[t]) = {}
<1>1. PICK us : us = EmptyDb.users
  BY Zenon
<1>2. PICK cs : cs = EmptyDb.clients
  BY Zenon
<1>3. PICK ts : ts = EmptyDb.tasks
  BY Zenon
<1>4. PICK hs : hs = EmptyDb.hosts
  BY Zenon
<1>5. /\ DOMAIN us.rows = {} /\ DOMAIN us.byName = {} /\ DOMAIN us.byPlatform = {} /\ us.last = 0
      /\ DOMAIN cs.rows = {} /\ DOMAIN cs.byKey = {} /\ cs.owners = {} /\ cs.managers = {} /\ cs.last = 0
      /\ DOMAIN ts.rows = {} /\ DOMAIN ts.byPassword = {} /\ ts.byClient = {} /\ ts.last = 0
      /\ DOMAIN hs.rows = {} /\ hs.byHost = {} /\ hs.byClient = {} /\ hs.last = 0
  BY Zenon, <1>1, <1>2, <1>3, <1>4 DEF EmptyDb, Empty
<1>6. EmptyDb = [t \in Tables |-> EmptyDb[t]]
  BY Zenon DEF EmptyDb, Tables
<1>7. UsersOK(us)
  BY <1>5 DEF UsersOK, RowsOK, ExactIndex, NameColumn, PlatformColumn
<1>8. ClientsOK(cs)
  BY <1>5 DEF ClientsOK, RowsOK, ExactIndex, ExactPairs, KeyColumn, OwnerColumn, ManagerColumn
<1>9. TasksOK(ts) /\ Placed(ts, cs)
  BY <1>5 DEF TasksOK, RowsOK, ExactIndex, ExactPairs, PasswordColumn, ClientColumn, Placed
<1>10. HostsOK(hs) /\ Placed(hs, cs)
  BY <1>5 DEF HostsOK, RowsOK, ExactPairs, HostColumn, ClientColumn, Placed
<1>11. RowSet(us) = {} /\ RowSet(cs) = {} /\ RowSet(ts) = {} /\ RowSet(hs) = {}
  BY Zenon, <1>5 DEF RowSet
<1> QED BY Zenon, <1>1, <1>2, <1>3, <1>4, <1>6, <1>7, <1>8, <1>9, <1>10, <1>11 DEF DbOK, Tables

(* A load that starts has every record before it. *)
Ahead(recs, all) ==
  /\ recs = [t \in Tables |-> recs[t]]
  /\ \A t \in Tables : {e[2] : e \in recs[t]} = all[t] /\ all[t] \subseteq RecordOf[t]

LEMMA LoadStarts ==
  ASSUME NEW kind, NEW recs, NEW all, StartLoad(kind, recs, all), Ahead(recs, all)
  PROVE  /\ DbOK(db)' /\ load' = [t \in Tables |-> load'[t]] /\ (\A t \in Tables : Handled(t))' /\ InOrder'
         /\ loading' = kind /\ source' = all /\ shown' = Visible
         /\ \A t \in Tables : Pending(t)' = all[t]
<1>1. db' = EmptyDb /\ loading' = kind /\ load' = recs /\ source' = all /\ shown' = Visible
  BY Zenon DEF StartLoad
<1>2. DbOK(db)'
  BY Zenon, <1>1, EmptyOK
<1>3. ASSUME NEW t \in Tables PROVE Pending(t)' = all[t] /\ Rows(t)' = {} /\ all[t] \subseteq RecordOf[t]
  BY Zenon, <1>1, EmptyOK DEF Pending, Rows, Ahead
<1>4. ASSUME NEW t \in Tables PROVE Handled(t)'
  BY Zenon, <1>1, <1>3 DEF Handled
<1>5. "tasks" \in Tables /\ "hosts" \in Tables
  BY Zenon DEF Tables
<1>6. InOrder'
  BY Zenon, <1>1, <1>3, <1>5 DEF InOrder
<1>7. load' = [t \in Tables |-> load'[t]]
  BY Zenon, <1>1 DEF Ahead
<1> QED BY Zenon, <1>1, <1>2, <1>3, <1>4, <1>6, <1>7

LEMMA RestartOK ==
  ASSUME IInv, Restart
  PROVE  IInv' /\ shown' = Visible /\ disk' = disk /\ loading' # "no"
<1>1. /\ StartLoad("start", Filed, disk) /\ cut' = (cut \/ half) /\ half' = FALSE /\ depth' = 0 /\ dirty' = {}
      /\ todo' = {} /\ skipped' = NoTables /\ disk' = disk /\ births' = births
  BY Zenon DEF Restart
<1>2. Ahead(Filed, disk)
  <2>1. ASSUME NEW t \in Tables PROVE {e[2] : e \in Filed[t]} = disk[t]
    <3>1. Filed[t] = {<<0, r>> : r \in disk[t]}
      BY Zenon DEF Filed
    <3>2. \A r : <<0, r>>[2] = r
      BY Zenon
    <3>3. ASSUME NEW r \in disk[t] PROVE r \in {e[2] : e \in Filed[t]}
      BY Zenon, <3>1, <3>2
    <3>4. ASSUME NEW x \in {e[2] : e \in Filed[t]} PROVE x \in disk[t]
      BY Zenon, <3>1, <3>2
    <3> QED BY Zenon, <3>3, <3>4
  <2>2. Filed = [t \in Tables |-> Filed[t]]
    BY Zenon DEF Filed
  <2> QED BY Zenon, <2>1, <2>2 DEF Ahead, IInv, FilesOK
<1>3. PICK recs : recs = Filed
  BY Zenon
<1>4. PICK all : all = disk
  BY Zenon
<1>5. /\ DbOK(db)' /\ load' = [t \in Tables |-> load'[t]] /\ (\A t \in Tables : Handled(t))' /\ InOrder'
      /\ loading' = "start" /\ source' = all /\ shown' = Visible
      /\ \A t \in Tables : Pending(t)' = all[t]
  <2>1. StartLoad("start", recs, all) /\ Ahead(recs, all)
    BY Zenon, <1>1, <1>2, <1>3, <1>4
  <2> QED BY Zenon, <2>1, LoadStarts
<1>6. FilesOK'
  <2>1. NoTables = [t \in Tables |-> NoTables[t]] /\ NoTables.users = {} /\ NoTables.clients = {}
    BY Zenon DEF NoTables, Tables
  <2> QED BY Zenon, <1>1, <2>1 DEF IInv, FilesOK
<1>7. ControlOK'
  BY Zenon, <1>1, <1>5 DEF IInv, ControlOK
<1>8. "hosts" \in Tables
  BY Zenon DEF Tables
<1>9. Pending("hosts")' = disk.hosts
  BY Zenon, <1>4, <1>5, <1>8
<1>10. HostsKept'
  BY Zenon, <1>1, <1>9 DEF HostsKept
<1>11. LoadOK'
  BY Zenon, <1>1, <1>4, <1>5, <1>10 DEF LoadOK, Sourced
<1>12. OwnersOK'
  <2>1. ~ cut' => AllOwned(disk.clients, disk.users)
    BY Zenon, <1>1 DEF IInv, OwnersOK
  <2>2. ASSUME AllOwned(disk.clients, disk.users), NEW c \in disk.clients PROVE Born(c, disk.users)
    <3>1. c \in ClientRecord /\ disk.users \subseteq UserRecord /\ Apart("users", disk.users)
      BY Zenon, Labelled DEF IInv, FilesOK, Tables
    <3>2. c.owner \in Nat /\ \A u \in disk.users : u.id # 0
      BY Zenon, <3>1 DEF ClientRecord, UserRecord, Ids
    <3>3. Owned(c, disk.users)
      BY Zenon, <2>2 DEF AllOwned
    <3> QED BY Zenon, <3>1, <3>2, <3>3 DEF Born, Owned, Apart, Abstract!Clash
  <2> QED BY Zenon, <1>1, <1>4, <1>5, <2>1, <2>2 DEF OwnersOK
<1>13. FilesFresh'
  BY Zenon, <1>5 DEF FilesFresh
<1> QED BY Zenon, <1>1, <1>5, <1>6, <1>7, <1>11, <1>12, <1>13 DEF IInv

LEMMA ImportOK ==
  ASSUME IInv, NEW recs, NEW all, Import(recs, all), Ahead(recs, all),
         all \in {Tabled(s) : s \in Snapshots} \union {AllRows},
         ~ cut => \A c \in all.clients : Born(c, all.users)
  PROVE  IInv' /\ shown' = Visible /\ disk' = disk /\ loading' # "no"
<1>1. /\ StartLoad("import", recs, all) /\ loading = "no" /\ cut' = cut /\ half' = half /\ depth' = depth
      /\ dirty' = dirty /\ todo' = todo /\ todo = {} /\ skipped' = skipped /\ disk' = disk /\ births' = births
  BY Zenon DEF Import, Idle
<1>2. /\ DbOK(db)' /\ load' = [t \in Tables |-> load'[t]] /\ (\A t \in Tables : Handled(t))' /\ InOrder'
      /\ loading' = "import" /\ source' = all /\ shown' = Visible
  BY Zenon, <1>1, LoadStarts
<1>3. FilesOK'
  BY Zenon, <1>1 DEF IInv, FilesOK
<1>4. ControlOK'
  BY Zenon, <1>1, <1>2 DEF IInv, ControlOK
<1>5. Visible = AllRows
  BY Zenon, <1>1 DEF Visible
<1>6. LoadOK'
  BY Zenon, <1>2, <1>5 DEF LoadOK, Sourced
<1>7. OwnersOK'
  BY Zenon, <1>1, <1>2 DEF OwnersOK, IInv
<1>8. FilesFresh'
  BY Zenon, <1>2 DEF FilesFresh
<1> QED BY Zenon, <1>1, <1>2, <1>3, <1>4, <1>6, <1>7, <1>8 DEF IInv

LEMMA ImportExportedOK ==
  ASSUME IInv, ImportExported
  PROVE  IInv' /\ shown' = Visible /\ disk' = disk /\ loading' # "no"
<1>1. PICK recs : recs = buildConfigSnapshot
  BY Zenon
<1>2. PICK all : all = AllRows
  BY Zenon
<1>3. Import(recs, all) /\ loading = "no"
  BY Zenon, <1>1, <1>2 DEF ImportExported, Import, Idle
<1>4. \A t \in Tables : all[t] = RowSet(db[t]) /\ recs[t] = {<<r.id, r>> : r \in RowSet(db[t])}
  BY Zenon, <1>1, <1>2 DEF AllRows, buildConfigSnapshot, Rows
<1>5. ASSUME NEW t \in Tables PROVE {e[2] : e \in recs[t]} = all[t] /\ all[t] \subseteq RecordOf[t]
  <2>1. \A r : <<r.id, r>>[2] = r
    BY Zenon
  <2>2. PICK S : S = RowSet(db[t])
    BY Zenon
  <2>3. recs[t] = {<<r.id, r>> : r \in S} /\ all[t] = S
    BY Zenon, <1>4, <2>2
  <2>4. ASSUME NEW r \in S PROVE r \in {e[2] : e \in recs[t]}
    BY Zenon, <2>1, <2>3
  <2>5. ASSUME NEW x \in {e[2] : e \in recs[t]} PROVE x \in S
    <3>1. PICK e \in recs[t] : x = e[2]
      BY Zenon
    <3>2. PICK r \in S : e = <<r.id, r>>
      BY Zenon, <2>3
    <3> QED BY Zenon, <2>1, <3>1, <3>2
  <2>6. S \subseteq RecordOf[t]
    BY Zenon, <2>2, RowsOfTable DEF IInv
  <2> QED BY Zenon, <2>3, <2>4, <2>5, <2>6
<1>6. recs = [t \in Tables |-> recs[t]]
  BY Zenon, <1>1 DEF buildConfigSnapshot
<1>7. Ahead(recs, all)
  BY Zenon, <1>5, <1>6 DEF Ahead
<1>8. ASSUME ~ cut, NEW c \in all.clients PROVE Born(c, all.users)
  <2>1. DbOK(db) /\ "users" \in Tables /\ "clients" \in Tables
    BY Zenon DEF IInv, Tables
  <2>2. all.users = RowSet(db.users) /\ all.clients = RowSet(db.clients)
    BY Zenon, <1>4, <2>1
  <2>3. Owned(c, all.users)
    BY Zenon, <1>3, <1>8, <2>2, OwnedNow DEF AllOwned
  <2>4. Apart("users", all.users) /\ all.users \subseteq UserRecord
    <3>1. RowSet(db["users"]) \subseteq RecordOf["users"] /\ Apart("users", RowSet(db["users"]))
      BY Zenon, <2>1, RowsOfTable
    <3> QED BY Zenon, <2>2, <3>1, Labelled
  <2>5. \A u \in all.users : u.id # 0
    BY Zenon, <2>4 DEF UserRecord, Ids
  <2> QED BY Zenon, <2>3, <2>4, <2>5 DEF Born, Owned, Apart, Abstract!Clash
<1>9. all \in {Tabled(s) : s \in Snapshots} \union {AllRows}
  BY Zenon, <1>2
<1>10. ~ cut => \A c \in all.clients : Born(c, all.users)
  BY Zenon, <1>8
<1> HIDE <1>2
<1> QED BY Zenon, <1>3, <1>7, <1>9, <1>10, ImportOK

LEMMA ImportSnapshotOK ==
  ASSUME IInv, NEW s \in Snapshots, ImportSnapshot(s)
  PROVE  IInv' /\ shown' = Visible /\ disk' = disk /\ loading' # "no"
<1>1. PICK recs : recs = [t \in Tables |-> {<<i, s[t][i]>> : i \in DOMAIN s[t]}]
  BY Zenon
<1>2. PICK all : all = Tabled(s)
  BY Zenon
<1>3. Import(recs, all)
  BY Zenon, <1>1, <1>2 DEF ImportSnapshot
<1>4. Configured(all)
  BY Zenon, <1>2, StoreAssumption
<1>5. ASSUME NEW t \in Tables PROVE {e[2] : e \in recs[t]} = all[t] /\ all[t] \subseteq RecordOf[t]
  <2>1. \A i : <<i, s[t][i]>>[2] = s[t][i]
    BY Zenon
  <2>2. recs[t] = {<<i, s[t][i]>> : i \in DOMAIN s[t]} /\ all[t] = {s[t][i] : i \in DOMAIN s[t]}
    BY Zenon, <1>1, <1>2 DEF Tabled
  <2>3. ASSUME NEW r \in all[t] PROVE r \in {e[2] : e \in recs[t]}
    <3>1. PICK i \in DOMAIN s[t] : r = s[t][i]
      BY Zenon, <2>2
    <3>2. PICK e : e = <<i, r>>
      BY Zenon
    <3>3. e[2] = r
      BY <3>2
    <3>4. e \in recs[t]
      BY Zenon, <2>2, <3>1, <3>2
    <3> QED BY Zenon, <3>3, <3>4
  <2>4. ASSUME NEW x \in {e[2] : e \in recs[t]} PROVE x \in all[t]
    <3>1. PICK e \in recs[t] : x = e[2]
      BY Zenon
    <3>2. PICK i \in DOMAIN s[t] : e = <<i, s[t][i]>>
      BY Zenon, <2>2
    <3> QED BY Zenon, <2>1, <2>2, <3>1, <3>2
  <2> QED BY Zenon, <1>4, <2>3, <2>4 DEF Configured
<1>6. recs = [t \in Tables |-> recs[t]]
  BY Zenon, <1>1
<1>7. Ahead(recs, all)
  BY Zenon, <1>5, <1>6 DEF Ahead
<1>8. \A c \in all.clients : Born(c, all.users)
  BY Zenon, <1>4 DEF Configured, Born
<1>9. all \in {Tabled(x) : x \in Snapshots} \union {AllRows}
  BY Zenon, <1>2
<1> HIDE <1>2
<1> QED BY Zenon, <1>3, <1>7, <1>8, <1>9, ImportOK

(* A load refuses a record for a row in its way, or for a client that is not there. *)
Refused(t, r) ==
  \/ t # "hosts" /\ \E o \in Rows(t) : o # r /\ Abstract!Clash(t, r, o)
  \/ t = "hosts" /\ Shadowed(r)
  \/ t \in {"tasks", "hosts"} /\ Missing(r)
Taken(t, r) == Replaced(db, db', t, r) \/ (db' = db /\ Refused(t, r))

LEMMA LoadStep ==
  ASSUME IInv, NEW t \in Tables, NEW e \in load[t], NEW d, Loaded(t, e, d), DbOK(db'), NEW r, r = e[2], Taken(t, r)
  PROVE  IInv' /\ shown' = shown /\ disk' = disk /\ loading' # "no" /\ loading # "no"
<1>1. /\ loading' = loading /\ source' = source /\ shown' = shown /\ disk' = disk /\ depth' = depth /\ dirty' = dirty
      /\ todo' = todo /\ births' = births /\ half' = half /\ cut' = cut /\ skipped' = skipped
      /\ Turn(t) /\ loading # "no" /\ load' = [load EXCEPT ![t] = load[t] \ {e}]
  BY Zenon DEF Loaded, Turn
<1>2. /\ Sourced /\ (\A o \in Tables : Handled(o)) /\ InOrder /\ load = [o \in Tables |-> load[o]]
  BY Zenon, <1>1 DEF IInv, LoadOK
<1>3. /\ load' = [o \in Tables |-> load'[o]] /\ load'[t] = load[t] \ {e}
      /\ \A o \in Tables \ {t} : load'[o] = load[o]
  BY Zenon, <1>1, <1>2
<1>4. \A o \in Tables \ {t} : db'[o] = db[o]
  BY Zenon DEF Taken, Replaced, Others
<1>5. /\ \A o \in Tables \ {t} : Rows(o)' = Rows(o) /\ Pending(o)' = Pending(o)
      /\ r \in Pending(t) /\ Pending(t)' \subseteq Pending(t)
      /\ \A x \in Pending(t) : x # r => x \in Pending(t)'
  <2>1. \A o \in Tables \ {t} : Rows(o)' = Rows(o) /\ Pending(o)' = Pending(o)
    BY Zenon, <1>3, <1>4 DEF Rows, Pending
  <2>2. r \in Pending(t) /\ Pending(t)' \subseteq Pending(t)
    BY Zenon, <1>3 DEF Pending
  <2>3. \A x \in Pending(t) : x # r => x \in Pending(t)'
    BY Zenon, <1>3 DEF Pending
  <2> QED BY Zenon, <2>1, <2>2, <2>3
<1>6. r \in source[t] /\ r \in RecordOf[t]
  BY Zenon, <1>2, <1>5 DEF Handled
<1>7. \/ Rows(t)' = {x \in Rows(t) : x.id # r.id} \union {r}
      \/ Rows(t)' = Rows(t) /\ db' = db /\ Refused(t, r)
  BY Zenon DEF Taken, Replaced, Rows
<1>8. ASSUME t \in {"users", "clients"} PROVE Pending("tasks") = source.tasks /\ Pending("hosts") = source.hosts
  <2>1. load.users # {} \/ load.clients # {}
    BY Zenon, <1>8
  <2> QED BY Zenon, <1>2, <2>1 DEF InOrder
<1>9. t # "clients" => \A x : Missing(x)' <=> Missing(x)
  <2>1. t # "clients" => db'.clients = db.clients
    BY Zenon, <1>4 DEF Tables
  <2> QED BY Zenon, <2>1 DEF Missing
<1>10. ASSUME NEW o \in Tables, o # t PROVE Handled(o)'
  <2>1. source'[o] = source[o] /\ Rows(o)' = Rows(o) /\ Pending(o)' = Pending(o) /\ Handled(o)
    BY Zenon, <1>1, <1>2, <1>5, <1>10
  <2>2. ASSUME NEW x \in source[o] PROVE x \in Rows(o) \/ x \in Pending(o) \/ LeftOut(o, x)'
    <3>1. CASE o \in {"tasks", "hosts"} /\ t \in {"users", "clients"}
      BY Zenon, <1>8, <3>1
    <3>2. CASE o \in {"users", "clients"}
      <4>1. LeftOut(o, x) => LeftOut(o, x)'
        BY Zenon, <1>1, <3>2 DEF LeftOut
      <4> QED BY Zenon, <2>1, <4>1 DEF Handled
    <3>3. CASE t # "clients"
      <4>1. LeftOut(o, x) => LeftOut(o, x)'
        BY Zenon, <1>1, <1>9, <3>3 DEF LeftOut
      <4> QED BY Zenon, <2>1, <4>1 DEF Handled
    <3> QED BY Zenon, <3>1, <3>2, <3>3 DEF Tables
  <2> QED BY Zenon, <2>1, <2>2 DEF Handled
<1>11. Handled(t)'
  <2>1. Handled(t) /\ source'[t] = source[t]
    BY Zenon, <1>1, <1>2
  <2>2. Rows(t)' \union Pending(t)' \subseteq source[t]
    BY Zenon, <1>5, <1>6, <1>7, <2>1 DEF Handled
  <2>3. \A x : LeftOut(t, x) => LeftOut(t, x)' \/ x \in Pending(t)' \/ t = "clients"
    BY Zenon, <1>1, <1>9 DEF LeftOut
  <2>4. \A x : t = "clients" /\ LeftOut(t, x) => LeftOut(t, x)'
    BY Zenon, <1>1 DEF LeftOut
  <2>5. ASSUME NEW x \in source[t], x \in Rows(t), x \notin Rows(t)' PROVE LeftOut(t, x)'
    <3>1. x.id = r.id /\ x # r
      BY Zenon, <1>7, <2>5
    <3>2. Abstract!Clash(t, x, r)
      BY Zenon, <3>1 DEF Abstract!Clash
    <3> QED BY Zenon, <1>1, <1>6, <3>1, <3>2 DEF LeftOut
  <2>6. ASSUME r \notin Rows(t)' PROVE LeftOut(t, r)'
    <3>1. Refused(t, r) /\ db' = db
      BY Zenon, <1>7, <2>6
    <3>2. Rows(t) \subseteq source[t]
      BY Zenon, <2>1 DEF Handled
    <3>3. \A g : Abstract!Covers(g, r) => g # r
      BY Zenon DEF Abstract!Covers
    <3>4. Missing(r)' <=> Missing(r)
      BY Zenon, <3>1 DEF Missing
    <3> QED BY Zenon, <1>1, <3>1, <3>2, <3>3, <3>4 DEF LeftOut, Refused, Shadowed
  <2>7. ASSUME NEW x \in source[t] PROVE x \in Rows(t)' \/ x \in Pending(t)' \/ LeftOut(t, x)'
    BY Zenon, <1>5, <2>1, <2>3, <2>4, <2>5, <2>6 DEF Handled
  <2> QED BY Zenon, <2>1, <2>2, <2>7 DEF Handled
<1>12. InOrder'
  <2>1. CASE t \in {"tasks", "hosts"}
    <3>1. load.users = {} /\ load.clients = {}
      BY <1>1, <2>1 DEF Turn, Tables, Rank
    <3>2. load'.users = {} /\ load'.clients = {}
      BY Zenon, <1>3, <2>1, <3>1 DEF Tables
    <3> QED BY Zenon, <3>2 DEF InOrder
  <2>2. CASE t \in {"users", "clients"}
    <3>1. Pending("tasks")' = Pending("tasks") /\ Pending("hosts")' = Pending("hosts")
      BY Zenon, <1>5, <2>2 DEF Tables
    <3> QED BY Zenon, <1>1, <1>8, <2>2, <3>1 DEF InOrder
  <2> QED BY Zenon, <2>1, <2>2 DEF Tables
<1>13. Sourced'
  <2>1. CASE loading = "import"
    BY Zenon, <1>1, <1>2, <2>1 DEF Sourced
  <2>2. CASE loading = "start"
    <3>1. source = disk /\ HostsKept
      BY Zenon, <1>2, <2>2 DEF Sourced
    <3>2. ASSUME NEW h \in disk.hosts
          PROVE  h \in Rows("hosts")' \/ h \in Pending("hosts")' \/ Missing(h)' \/ Shadowed(h)'
      <4>0. "hosts" \in Tables
        BY Zenon DEF Tables
      <4>1. CASE t \in {"users", "clients"}
        <5>1. h \in Pending("hosts") /\ t # "hosts"
          BY Zenon, <1>8, <3>1, <4>1
        <5> QED BY Zenon, <1>5, <4>0, <5>1
      <4>2. CASE t = "tasks"
        <5>1. Rows("hosts")' = Rows("hosts") /\ Pending("hosts")' = Pending("hosts") /\ (Missing(h)' <=> Missing(h))
          BY Zenon, <1>5, <1>9, <4>0, <4>2
        <5> QED BY Zenon, <3>1, <5>1 DEF HostsKept, Shadowed
      <4>3. CASE t = "hosts"
        <5>1. Missing(h)' <=> Missing(h)
          BY Zenon, <1>9, <4>3
        <5>2. Rows("hosts") \subseteq Rows("hosts")'
          <6>1. Apart("hosts", disk.hosts)
            BY Zenon, <4>0 DEF IInv, FilesOK
          <6>2. Rows("hosts") \subseteq disk.hosts /\ r \in disk.hosts
            BY Zenon, <1>2, <1>6, <3>1, <4>0, <4>3 DEF Handled
          <6>3. \A x \in Rows("hosts") : x.id = r.id => x = r
            BY Zenon, <6>1, <6>2 DEF Apart, Abstract!Clash
          <6> QED BY Zenon, <1>7, <4>3, <6>3
        <5>3. h = r => h \in Rows("hosts")' \/ Missing(h) \/ Shadowed(h)
          BY Zenon, <1>7, <4>3 DEF Refused
        <5>4. h # r /\ h \in Pending("hosts") => h \in Pending("hosts")'
          BY Zenon, <1>5, <4>3
        <5>5. Shadowed(h) => Shadowed(h)'
          BY Zenon, <5>2 DEF Shadowed
        <5> QED BY Zenon, <3>1, <5>1, <5>2, <5>3, <5>4, <5>5 DEF HostsKept
      <4> QED BY Zenon, <4>1, <4>2, <4>3 DEF Tables
    <3> QED BY Zenon, <1>1, <2>2, <3>1, <3>2 DEF Sourced, HostsKept
  <2> QED BY Zenon, <1>2, <2>1, <2>2 DEF Sourced
<1>14. LoadOK'
  BY Zenon, <1>3, <1>10, <1>11, <1>12, <1>13 DEF LoadOK
<1>15. FilesOK' /\ ControlOK' /\ FilesFresh'
  BY Zenon, <1>1 DEF IInv, FilesOK, ControlOK, FilesFresh
<1>16. OwnersOK'
  BY Zenon, <1>1 DEF IInv, OwnersOK
<1> QED BY Zenon, <1>1, <1>14, <1>15, <1>16 DEF IInv

(* Another id has an entry under the value k exactly if another row has k. *)
Elsewhere(col, k, id) == k # None /\ \E j \in DOMAIN col : j # id /\ col[j] = k

LEMMA TakenTells ==
  ASSUME NEW idx, NEW col, ExactIndex(idx, col), NEW k, NEW id
  PROVE  TakenBy(idx, k, id) <=> Elsewhere(col, k, id)
<1>1. TakenBy(idx, k, id) => Elsewhere(col, k, id)
  BY Zenon DEF ExactIndex, TakenBy, Elsewhere
<1>2. ASSUME ~ TakenBy(idx, k, id), NEW i \in DOMAIN col \ {id}, k # None, col[i] = k PROVE FALSE
  <2>1. k \in DOMAIN idx /\ idx[k] = i
    BY Zenon, <1>2 DEF ExactIndex
  <2> QED BY Zenon, <1>2, <2>1 DEF TakenBy
<1> QED BY Zenon, <1>1, <1>2 DEF Elsewhere

LEMMA SameDb ==
  ASSUME NEW d, DbOK(d), NEW t \in Tables, NEW e, e = [d EXCEPT ![t] = d[t]]
  PROVE  e = d
<1>1. d = [o \in Tables |-> d[o]]
  BY Zenon DEF DbOK
<1> QED BY Zenon, <1>1

LEMMA LoadUsersOK ==
  ASSUME IInv, LoadUsers
  PROVE  IInv' /\ shown' = shown /\ disk' = disk /\ loading' # "no" /\ loading # "no"
<1>1. PICK e \in First("users") : Loaded("users", e, LoadUser(db.users, e[2]))
  BY Zenon DEF LoadUsers
<1>2. PICK u : u = e[2]
  BY Zenon
<1>3. PICK d : d = LoadUser(db.users, u)
  BY Zenon
<1>4. /\ Loaded("users", e, d) /\ db' = [db EXCEPT !["users"] = d] /\ e \in load["users"] /\ DbOK(db)
      /\ "users" \in Tables /\ loading # "no"
  BY Zenon, <1>1, <1>2, <1>3 DEF Loaded, First, IInv, Tables, Turn
<1>5. u \in UserRecord
  BY Zenon, <1>2, <1>4, Labelled DEF IInv, LoadOK, Handled, Pending
<1>6. PICK a : a = db.users
  BY Zenon
<1>7. PICK nc : nc = NameColumn(a)
  BY Zenon
<1>8. PICK pc : pc = PlatformColumn(a)
  BY Zenon
<1>9. ExactIndex(a.byName, nc) /\ ExactIndex(a.byPlatform, pc)
  BY Zenon, <1>4, <1>6, <1>7, <1>8 DEF DbOK, UsersOK
<1>10. /\ DOMAIN nc = DOMAIN a.rows /\ \A i \in DOMAIN a.rows : nc[i] = a.rows[i].name
       /\ DOMAIN pc = DOMAIN a.rows /\ \A i \in DOMAIN a.rows : pc[i] = a.rows[i].platform
  BY Zenon, <1>7, <1>8 DEF NameColumn, PlatformColumn
<1>11. \A i \in DOMAIN a.rows : a.rows[i].id = i /\ a.rows[i] \in Rows("users")
  BY Zenon, <1>4, <1>6, UserRows DEF Rows, RowSet
<1>12. CASE TakenBy(a.byName, u.name, u.id) \/ TakenBy(a.byPlatform, u.platform, u.id)
  <2>1. d = db["users"]
    BY Zenon, <1>3, <1>6, <1>12 DEF LoadUser
  <2>2. db' = db
    BY Zenon, <1>4, <2>1, SameDb
  <2>3. PICK j \in DOMAIN a.rows : /\ j # u.id
                                   /\ a.rows[j].name = u.name \/ (a.rows[j].platform = u.platform /\ u.platform # None)
    <3>1. Elsewhere(nc, u.name, u.id) \/ Elsewhere(pc, u.platform, u.id)
      BY Zenon, <1>9, <1>12, TakenTells
    <3> QED BY Zenon, <1>10, <3>1 DEF Elsewhere
  <2>4. a.rows[j] # u
    BY Zenon, <1>11, <2>3
  <2>5. Abstract!Clash("users", u, a.rows[j])
    BY Zenon, <2>3 DEF Abstract!Clash, None
  <2>6. Refused("users", u)
    BY Zenon, <1>11, <2>4, <2>5 DEF Refused
  <2>7. Taken("users", u) /\ DbOK(db')
    BY Zenon, <1>4, <2>2, <2>6 DEF Taken
  <2> QED BY Zenon, <1>2, <1>4, <2>7, LoadStep
<1>13. CASE ~ (TakenBy(a.byName, u.name, u.id) \/ TakenBy(a.byPlatform, u.platform, u.id))
  <2>1. d = PutUser(db.users, u)
    BY Zenon, <1>3, <1>6, <1>13 DEF LoadUser
  <2>2. u.name # None
    BY Zenon, <1>5, StoreAssumption DEF UserRecord
  <2>3. /\ \A i \in DOMAIN nc \ {u.id} : nc[i] # u.name
        /\ \A i \in DOMAIN pc \ {u.id} : u.platform # None => pc[i] # u.platform
    <3>1. ~ Elsewhere(nc, u.name, u.id) /\ ~ Elsewhere(pc, u.platform, u.id)
      BY Zenon, <1>9, <1>13, TakenTells
    <3> QED BY Zenon, <2>2, <3>1 DEF Elsewhere
  <2>4. UserFits(db.users, u)
    <3>1. \A i \in DOMAIN a.rows \ {u.id} : nc[i] # u.name /\ (u.platform # None => pc[i] # u.platform)
      BY Zenon, <1>10, <2>3
    <3>2. UserFits(a, u)
      BY Zenon, <1>10, <3>1 DEF UserFits
    <3> QED BY Zenon, <1>6, <3>2
  <2>5. PICK n : n = db'
    BY Zenon
  <2>6. n = [db EXCEPT !.users = PutUser(db.users, u)]
    BY Zenon, <1>4, <2>1, <2>5
  <2>7. DbOK(n) /\ Replaced(db, n, "users", u)
    BY Zenon, <1>4, <1>5, <2>4, <2>6, UserStored
  <2>8. Taken("users", u) /\ DbOK(db')
    BY Zenon, <2>5, <2>7 DEF Taken
  <2> QED BY Zenon, <1>2, <1>4, <2>8, LoadStep
<1> QED BY Zenon, <1>12, <1>13

LEMMA LoadClientsOK ==
  ASSUME IInv, LoadClients
  PROVE  IInv' /\ shown' = shown /\ disk' = disk /\ loading' # "no" /\ loading # "no"
<1>1. PICK e \in First("clients") : Loaded("clients", e, LoadClient(db.clients, e[2]))
  BY Zenon DEF LoadClients
<1>2. PICK c : c = e[2]
  BY Zenon
<1>3. PICK d : d = LoadClient(db.clients, c)
  BY Zenon
<1>4. /\ Loaded("clients", e, d) /\ db' = [db EXCEPT !["clients"] = d] /\ e \in load["clients"] /\ DbOK(db)
      /\ "clients" \in Tables /\ loading # "no"
  BY Zenon, <1>1, <1>2, <1>3 DEF Loaded, First, IInv, Tables, Turn
<1>5. c \in ClientRecord
  BY Zenon, <1>2, <1>4, Labelled DEF IInv, LoadOK, Handled, Pending
<1>6. PICK a : a = db.clients
  BY Zenon
<1>7. PICK kc : kc = KeyColumn(a)
  BY Zenon
<1>8. ExactIndex(a.byKey, kc)
  BY Zenon, <1>4, <1>6, <1>7 DEF DbOK, ClientsOK
<1>9. DOMAIN kc = DOMAIN a.rows /\ \A i \in DOMAIN a.rows : kc[i] = a.rows[i].key
  BY Zenon, <1>7 DEF KeyColumn
<1>10. \A i \in DOMAIN a.rows : a.rows[i].id = i /\ a.rows[i] \in Rows("clients")
  BY Zenon, <1>4, <1>6, ClientRows DEF Rows, RowSet
<1>11. CASE TakenBy(a.byKey, c.key, c.id)
  <2>1. d = db["clients"]
    BY Zenon, <1>3, <1>6, <1>11 DEF LoadClient
  <2>2. db' = db
    BY Zenon, <1>4, <2>1, SameDb
  <2>3. PICK j \in DOMAIN a.rows : j # c.id /\ a.rows[j].key = c.key
    <3>1. Elsewhere(kc, c.key, c.id)
      BY Zenon, <1>8, <1>11, TakenTells
    <3> QED BY Zenon, <1>9, <3>1 DEF Elsewhere
  <2>4. a.rows[j] # c
    BY Zenon, <1>10, <2>3
  <2>5. Abstract!Clash("clients", c, a.rows[j])
    BY Zenon, <2>3 DEF Abstract!Clash
  <2>6. Refused("clients", c)
    BY Zenon, <1>10, <2>4, <2>5 DEF Refused
  <2>7. Taken("clients", c) /\ DbOK(db')
    BY Zenon, <1>4, <2>2, <2>6 DEF Taken
  <2> QED BY Zenon, <1>2, <1>4, <2>7, LoadStep
<1>12. CASE ~ TakenBy(a.byKey, c.key, c.id)
  <2>1. d = PutClient(db.clients, c)
    BY Zenon, <1>3, <1>6, <1>12 DEF LoadClient
  <2>2. c.key # None
    BY Zenon, <1>5, StoreAssumption DEF ClientRecord
  <2>3. \A i \in DOMAIN kc \ {c.id} : kc[i] # c.key
    <3>1. ~ Elsewhere(kc, c.key, c.id)
      BY Zenon, <1>8, <1>12, TakenTells
    <3> QED BY Zenon, <2>2, <3>1 DEF Elsewhere
  <2>4. KeyFits(db.clients, c)
    BY Zenon, <1>6, <1>9, <2>3 DEF KeyFits
  <2>5. PICK n : n = db'
    BY Zenon
  <2>6. n = [db EXCEPT !.clients = PutClient(db.clients, c)]
    BY Zenon, <1>4, <2>1, <2>5
  <2>7. DbOK(n) /\ Replaced(db, n, "clients", c)
    BY Zenon, <1>4, <1>5, <2>4, <2>6, ClientStored
  <2>8. Taken("clients", c) /\ DbOK(db')
    BY Zenon, <2>5, <2>7 DEF Taken
  <2> QED BY Zenon, <1>2, <1>4, <2>8, LoadStep
<1> QED BY Zenon, <1>11, <1>12

LEMMA LoadTasksOK ==
  ASSUME IInv, LoadTasks
  PROVE  IInv' /\ shown' = shown /\ disk' = disk /\ loading' # "no" /\ loading # "no"
<1>1. PICK e \in First("tasks") : Loaded("tasks", e, Present(e[2], db.tasks, LoadTask(db.tasks, e[2])))
  BY Zenon DEF LoadTasks
<1>2. PICK c : c = e[2]
  BY Zenon
<1>3. PICK d : d = Present(c, db.tasks, LoadTask(db.tasks, c))
  BY Zenon
<1>4. /\ Loaded("tasks", e, d) /\ db' = [db EXCEPT !["tasks"] = d] /\ e \in load["tasks"] /\ DbOK(db)
      /\ "tasks" \in Tables /\ loading # "no"
  BY Zenon, <1>1, <1>2, <1>3 DEF Loaded, First, IInv, Tables, Turn
<1>5. c \in TaskRecord
  BY Zenon, <1>2, <1>4, Labelled DEF IInv, LoadOK, Handled, Pending
<1>6. PICK a : a = db.tasks
  BY Zenon
<1>7. PICK kc : kc = PasswordColumn(a)
  BY Zenon
<1>8. ExactIndex(a.byPassword, kc)
  BY Zenon, <1>4, <1>6, <1>7 DEF DbOK, TasksOK
<1>9. DOMAIN kc = DOMAIN a.rows /\ \A i \in DOMAIN a.rows : kc[i] = a.rows[i].password
  BY Zenon, <1>7 DEF PasswordColumn
<1>10. \A i \in DOMAIN a.rows : a.rows[i].id = i /\ a.rows[i] \in Rows("tasks")
  BY Zenon, <1>4, <1>6, TaskRows DEF Rows, RowSet
<1>11. CASE c.client \notin DOMAIN db.clients.rows
  <2>1. d = db["tasks"]
    BY Zenon, <1>3, <1>11 DEF Present
  <2>2. db' = db
    BY Zenon, <1>4, <2>1, SameDb
  <2>3. Refused("tasks", c)
    BY Zenon, <1>11 DEF Refused, Missing
  <2>4. Taken("tasks", c) /\ DbOK(db')
    BY Zenon, <1>4, <2>2, <2>3 DEF Taken
  <2> QED BY Zenon, <1>2, <1>4, <2>4, LoadStep
<1>12. CASE c.client \in DOMAIN db.clients.rows /\ TakenBy(a.byPassword, c.password, c.id)
  <2>1. d = db["tasks"]
    BY Zenon, <1>3, <1>6, <1>12 DEF LoadTask, Present
  <2>2. db' = db
    BY Zenon, <1>4, <2>1, SameDb
  <2>3. PICK j \in DOMAIN a.rows : j # c.id /\ a.rows[j].password = c.password /\ c.password # None
    <3>1. Elsewhere(kc, c.password, c.id)
      BY Zenon, <1>8, <1>12, TakenTells
    <3> QED BY Zenon, <1>9, <3>1 DEF Elsewhere
  <2>4. a.rows[j] # c
    BY Zenon, <1>10, <2>3
  <2>5. Abstract!Clash("tasks", c, a.rows[j])
    BY Zenon, <2>3 DEF Abstract!Clash, None
  <2>6. Refused("tasks", c)
    BY Zenon, <1>10, <2>4, <2>5 DEF Refused
  <2>7. Taken("tasks", c) /\ DbOK(db')
    BY Zenon, <1>4, <2>2, <2>6 DEF Taken
  <2> QED BY Zenon, <1>2, <1>4, <2>7, LoadStep
<1>13. CASE c.client \in DOMAIN db.clients.rows /\ ~ TakenBy(a.byPassword, c.password, c.id)
  <2>1. d = PutTask(db.tasks, c)
    BY Zenon, <1>3, <1>6, <1>13 DEF LoadTask, Present
  <2>2. \A i \in DOMAIN kc \ {c.id} : c.password # None => kc[i] # c.password
    <3>1. ~ Elsewhere(kc, c.password, c.id)
      BY Zenon, <1>8, <1>13, TakenTells
    <3> QED BY Zenon, <3>1 DEF Elsewhere
  <2>3. PasswordFits(db.tasks, c)
    BY Zenon, <1>6, <1>9, <2>2 DEF PasswordFits
  <2>5. PICK n : n = db'
    BY Zenon
  <2>6. n = [db EXCEPT !.tasks = PutTask(db.tasks, c)]
    BY Zenon, <1>4, <2>1, <2>5
  <2>7. DbOK(n) /\ Replaced(db, n, "tasks", c)
    BY Zenon, <1>4, <1>5, <1>13, <2>3, <2>6, TaskStored
  <2>8. Taken("tasks", c) /\ DbOK(db')
    BY Zenon, <2>5, <2>7 DEF Taken
  <2> QED BY Zenon, <1>2, <1>4, <2>8, LoadStep
<1> QED BY Zenon, <1>11, <1>12, <1>13

LEMMA LoadHostsOK ==
  ASSUME IInv, LoadHosts
  PROVE  IInv' /\ shown' = shown /\ disk' = disk /\ loading' # "no" /\ loading # "no"
<1>1. PICK e \in First("hosts") : Loaded("hosts", e, Present(e[2], db.hosts, LoadHost(db.hosts, e[2])))
  BY Zenon DEF LoadHosts
<1>2. PICK c : c = e[2]
  BY Zenon
<1>3. PICK d : d = Present(c, db.hosts, LoadHost(db.hosts, c))
  BY Zenon
<1>4. /\ Loaded("hosts", e, d) /\ db' = [db EXCEPT !["hosts"] = d] /\ e \in load["hosts"] /\ DbOK(db)
      /\ "hosts" \in Tables /\ loading # "no"
  BY Zenon, <1>1, <1>2, <1>3 DEF Loaded, First, IInv, Tables, Turn
<1>5. c \in HostRecord
  BY Zenon, <1>2, <1>4, Labelled DEF IInv, LoadOK, Handled, Pending
<1>6. CASE c.client \notin DOMAIN db.clients.rows
  <2>1. d = db["hosts"]
    BY Zenon, <1>3, <1>6 DEF Present
  <2>2. db' = db
    BY Zenon, <1>4, <2>1, SameDb
  <2>3. Refused("hosts", c)
    BY Zenon, <1>6 DEF Refused, Missing
  <2>4. Taken("hosts", c) /\ DbOK(db')
    BY Zenon, <1>4, <2>2, <2>3 DEF Taken
  <2> QED BY Zenon, <1>2, <1>4, <2>4, LoadStep
<1>7. CASE c.client \in DOMAIN db.clients.rows /\ RouteExists(db.hosts, c)
  <2>1. d = db["hosts"]
    BY Zenon, <1>3, <1>7 DEF LoadHost, Present
  <2>2. db' = db
    BY Zenon, <1>4, <2>1, SameDb
  <2>3. PICK j \in DOMAIN db.hosts.rows \ {c.id} :
          db.hosts.rows[j].name = c.name /\ db.hosts.rows[j].scheme \in {"all", c.scheme}
    BY Zenon, <1>7 DEF RouteExists
  <2>4. db.hosts.rows[j] \in Rows("hosts") /\ db.hosts.rows[j].id # c.id
    BY Zenon, <1>4, <2>3, HostRows DEF Rows, RowSet
  <2>5. Refused("hosts", c)
    BY Zenon, <2>3, <2>4 DEF Refused, Shadowed, Abstract!Covers
  <2>6. Taken("hosts", c) /\ DbOK(db')
    BY Zenon, <1>4, <2>2, <2>5 DEF Taken
  <2> QED BY Zenon, <1>2, <1>4, <2>6, LoadStep
<1>8. CASE c.client \in DOMAIN db.clients.rows /\ ~ RouteExists(db.hosts, c)
  <2>1. d = PutHost(db.hosts, c)
    BY Zenon, <1>3, <1>8 DEF LoadHost, Present
  <2>2. RouteFits(db.hosts, c)
    BY Zenon, <1>8 DEF RouteExists, RouteFits
  <2>5. PICK n : n = db'
    BY Zenon
  <2>6. n = [db EXCEPT !.hosts = PutHost(db.hosts, c)]
    BY Zenon, <1>4, <2>1, <2>5
  <2>7. DbOK(n) /\ Replaced(db, n, "hosts", c)
    BY Zenon, <1>4, <1>5, <1>8, <2>2, <2>6, HostStored
  <2>8. Taken("hosts", c) /\ DbOK(db')
    BY Zenon, <2>5, <2>7 DEF Taken
  <2> QED BY Zenon, <1>2, <1>4, <2>8, LoadStep
<1> QED BY Zenon, <1>6, <1>7, <1>8

(* A load without a record to come has its outcome: of a start, the files save what FileTables lets it leave out. *)
LEMMA AllHandled ==
  ASSUME IInv, loading # "no", load = NoTables, NEW t \in Tables
  PROVE  Rows(t) \subseteq source[t] /\ source[t] \subseteq RecordOf[t] /\ \A r \in source[t] : r \in Rows(t) \/ LeftOut(t, r)
<1>1. Handled(t)
  BY Zenon DEF IInv, LoadOK
<1>2. Pending(t) = {}
  BY Zenon DEF Pending, NoTables
<1> QED BY Zenon, <1>1, <1>2 DEF Handled

LEMMA WholeFiles ==
  ASSUME IInv, loading = "start", load = NoTables
  PROVE  /\ source = disk /\ Rows("users") = disk.users /\ Rows("clients") = disk.clients
         /\ \A t \in Tables : Written(t) = Rows(t) /\ Rows(t) \subseteq disk[t]
         /\ \A r \in disk.tasks : r \in Rows("tasks") \/ Missing(r)
         /\ \A h \in disk.hosts : h \in Rows("hosts") \/ Missing(h) \/ Shadowed(h)
<1>1. source = disk /\ HostsKept
  BY Zenon DEF IInv, LoadOK, Sourced
<1>2. ASSUME NEW t \in Tables
      PROVE  /\ Rows(t) \subseteq disk[t] /\ \A r \in disk[t] : r \in Rows(t) \/ LeftOut(t, r)
             /\ Apart(t, disk[t]) /\ \A r \in disk[t] : ~ r.noStore
  BY Zenon, <1>1, AllHandled DEF IInv, FilesOK
<1>3. ASSUME NEW t \in Tables, t # "hosts", NEW r \in disk[t], r \notin Rows(t) PROVE t = "tasks" /\ Missing(r)
  <2>1. LeftOut(t, r)
    BY Zenon, <1>2, <1>3
  <2>2. \A o \in source[t] \ {r} : ~ Abstract!Clash(t, r, o)
    BY Zenon, <1>1, <1>2 DEF Apart
  <2> QED BY Zenon, <1>3, <2>1, <2>2 DEF LeftOut
<1>4. "users" \in Tables /\ "clients" \in Tables /\ "tasks" \in Tables /\ "hosts" \in Tables
  BY Zenon DEF Tables
<1>5. Rows("users") = disk.users
  <2>1. ASSUME NEW r \in disk.users PROVE r \in Rows("users")
    BY Zenon, <1>3, <1>4
  <2> QED BY Zenon, <1>2, <1>4, <2>1
<1>6. Rows("clients") = disk.clients
  <2>1. ASSUME NEW r \in disk.clients PROVE r \in Rows("clients")
    BY Zenon, <1>3, <1>4
  <2> QED BY Zenon, <1>2, <1>4, <2>1
<1>7. \A r \in disk.tasks : r \in Rows("tasks") \/ Missing(r)
  BY Zenon, <1>3, <1>4
<1>8. Pending("hosts") = {}
  BY Zenon DEF Pending, NoTables, Tables
<1>9. \A h \in disk.hosts : h \in Rows("hosts") \/ Missing(h) \/ Shadowed(h)
  BY Zenon, <1>1, <1>8 DEF HostsKept
<1>10. \A t \in Tables : Written(t) = Rows(t) /\ Rows(t) \subseteq disk[t]
  BY Zenon, <1>2 DEF Written
<1> QED BY Zenon, <1>1, <1>5, <1>6, <1>7, <1>9, <1>10

LEMMA EndLoadOK ==
  ASSUME IInv, EndLoad
  PROVE  IInv' /\ db' = db /\ disk' = disk /\ loading # "no" /\ loading' = "no" /\ load = NoTables
<1>1. /\ loading # "no" /\ load = NoTables /\ loading' = "no" /\ source' = NoTables /\ shown' = NoTables
      /\ db' = db /\ disk' = disk /\ depth' = depth /\ load' = load /\ births' = births /\ half' = half
  BY Zenon DEF EndLoad
<1>2. todo = {} /\ loading \in {"no", "start", "import"}
  BY Zenon, <1>1 DEF IInv, ControlOK
<1>3. \A t \in Tables : Rows(t)' = Rows(t) /\ Written(t)' = Written(t)
  BY Zenon, <1>1 DEF Rows, Written
<1>4. "users" \in Tables /\ "clients" \in Tables
  BY Zenon DEF Tables
<1>5. LoadOK'
  BY Zenon, <1>1 DEF IInv, LoadOK
<1>6. CASE loading = "import"
  <2>1. todo' = Tables /\ dirty' = dirty /\ cut' = (cut \/ Strays # {}) /\ skipped' = skipped
    BY Zenon, <1>6 DEF EndLoad, Flush
  <2>2. FilesOK'
    BY Zenon, <1>1, <2>1 DEF IInv, FilesOK
  <2>3. ControlOK'
    BY Zenon, <1>1, <2>1 DEF IInv, ControlOK
  <2>4. FilesFresh'
    BY Zenon, <2>1 DEF FilesFresh, Due, Tables
  <2>5. ASSUME ~ cut, Strays = {}, NEW c \in Rows("clients") PROVE Owned(c, Rows("users"))
    <3>1. c.owner = 0 \/ c.owner \in DOMAIN db.users.rows
      BY Zenon, <2>5 DEF Strays
    <3>2. Born(c, source.users)
      <4>1. c \in source.clients
        BY Zenon, <1>1, <1>4, AllHandled
      <4> QED BY Zenon, <1>1, <2>5, <4>1 DEF IInv, OwnersOK
    <3>3. ASSUME c.owner \in DOMAIN db.users.rows PROVE Owned(c, Rows("users"))
      <4>1. PICK u : u = db.users.rows[c.owner]
        BY Zenon
      <4>2. u \in Rows("users") /\ u.id = c.owner
        BY Zenon, <3>3, <4>1, UserRows DEF IInv, Rows, RowSet
      <4>3. u \in source.users
        BY Zenon, <1>1, <1>4, <4>2, AllHandled
      <4> QED BY Zenon, <3>2, <4>2, <4>3 DEF Born, Owned
    <3> QED BY Zenon, <3>1, <3>3 DEF Owned
  <2>6. OwnersOK'
    <3>1. ~ cut' => AllOwned(Rows("clients")', Rows("users")')
      BY Zenon, <1>3, <1>4, <2>1, <2>5 DEF AllOwned
    <3>2. ~ cut' /\ ~ half => AllOwned(disk.clients, disk.users)
      BY Zenon, <2>1 DEF IInv, OwnersOK
    <3> QED BY Zenon, <1>1, <3>1, <3>2 DEF OwnersOK
  <2> QED BY Zenon, <1>1, <1>5, <2>2, <2>3, <2>4, <2>6 DEF IInv
<1>7. CASE loading = "start"
  <2>1. /\ todo' = todo /\ dirty' = dirty /\ cut' = cut /\ skipped' = [t \in Tables |-> disk[t] \ Rows(t)]
    BY Zenon, <1>7 DEF EndLoad
  <2>2. /\ source = disk /\ Rows("users") = disk.users /\ Rows("clients") = disk.clients
        /\ \A t \in Tables : Written(t) = Rows(t) /\ Rows(t) \subseteq disk[t]
    BY Zenon, <1>1, <1>7, WholeFiles
  <2>3. FilesOK'
    <3>1. skipped' = [t \in Tables |-> skipped'[t]] /\ skipped'.users = {} /\ skipped'.clients = {}
      BY Zenon, <2>1, <2>2 DEF Tables
    <3> QED BY Zenon, <1>1, <3>1 DEF IInv, FilesOK
  <2>4. ControlOK'
    BY Zenon, <1>1, <2>1 DEF IInv, ControlOK
  <2>5. ASSUME NEW t \in Tables PROVE disk'[t] = Written(t)' \union skipped'[t]
    BY Zenon, <1>1, <1>3, <2>1, <2>2
  <2>6. FilesFresh'
    BY Zenon, <2>5 DEF FilesFresh
  <2>7. OwnersOK'
    <3>1. ~ cut => AllOwned(disk.clients, disk.users)
      BY Zenon, <1>7, <2>2 DEF IInv, OwnersOK
    <3> QED BY Zenon, <1>1, <1>3, <1>4, <2>1, <2>2, <3>1 DEF OwnersOK
  <2> QED BY Zenon, <1>1, <1>5, <2>3, <2>4, <2>6, <2>7 DEF IInv
<1> QED BY Zenon, <1>1, <1>2, <1>6, <1>7

-----------------------------------------------------------------------------
LEMMA InitOK == Init => IInv
<1> SUFFICES ASSUME Init PROVE IInv
  BY Zenon
<1>1. /\ disk \in Starts /\ db = EmptyDb /\ loading = "start" /\ load = Filed /\ source = disk /\ depth = 0 /\ dirty = {}
      /\ todo = {} /\ births = 0 /\ half = FALSE /\ cut = FALSE /\ skipped = NoTables
  BY Zenon DEF Init
<1>2. PICK s \in Starts : s = disk
  BY Zenon, <1>1
<1>3. /\ s = [t \in Tables |-> s[t]] /\ Configured(s) /\ Abstract!Consistent(s)
      /\ \A t \in Tables : \A r \in s[t] : ~ r.noStore
      /\ \A c \in s.clients : c.owner \in {0} \union Abstract!Ids(s.users)
  BY Zenon, StoreAssumption
<1>4. \A t \in Tables : s[t] \subseteq RecordOf[t] /\ Apart(t, s[t])
  BY Zenon, <1>3 DEF Configured, Abstract!Consistent, Apart, Tables, Abstract!Tables
<1>5. DbOK(db)
  BY Zenon, <1>1, EmptyOK
<1>6. FilesOK
  <2>1. NoTables = [t \in Tables |-> NoTables[t]] /\ NoTables.users = {} /\ NoTables.clients = {}
    BY Zenon DEF NoTables, Tables
  <2> QED BY Zenon, <1>1, <1>2, <1>3, <1>4, <2>1 DEF FilesOK
<1>7. ControlOK
  BY Zenon, <1>1 DEF ControlOK
<1>8. FilesFresh
  BY Zenon, <1>1 DEF FilesFresh
<1>9. ASSUME NEW t \in Tables PROVE Pending(t) = disk[t] /\ Rows(t) = {}
  <2>1. load[t] = {<<0, r>> : r \in disk[t]}
    BY Zenon, <1>1 DEF Filed
  <2>2. \A r : <<0, r>>[2] = r
    BY Zenon
  <2>3. ASSUME NEW r \in disk[t] PROVE r \in Pending(t)
    BY Zenon, <2>1, <2>2 DEF Pending
  <2>4. ASSUME NEW x \in Pending(t) PROVE x \in disk[t]
    <3>1. PICK e \in load[t] : x = e[2]
      BY Zenon DEF Pending
    <3>2. PICK r \in disk[t] : e = <<0, r>>
      BY Zenon, <2>1
    <3> QED BY Zenon, <2>2, <3>1, <3>2
  <2>5. Rows(t) = {}
    BY Zenon, <1>1, EmptyOK DEF Rows
  <2> QED BY Zenon, <2>3, <2>4, <2>5
<1>10. LoadOK
  <2>1. load = [t \in Tables |-> load[t]]
    BY Zenon, <1>1 DEF Filed
  <2>2. \A t \in Tables : Handled(t)
    BY Zenon, <1>1, <1>2, <1>4, <1>9 DEF Handled
  <2>3. "tasks" \in Tables /\ "hosts" \in Tables
    BY Zenon DEF Tables
  <2>4. InOrder
    BY Zenon, <1>1, <1>9, <2>3 DEF InOrder
  <2>5. Sourced
    BY Zenon, <1>1, <1>9, <2>3 DEF Sourced, HostsKept
  <2> QED BY Zenon, <2>1, <2>2, <2>4, <2>5 DEF LoadOK
<1>11. OwnersOK
  <2>1. (\A u \in s.users : u.birth = 0) /\ \A c \in s.clients : c.ownerBirth = 0
    BY Zenon, <1>3 DEF Configured
  <2>2. AllOwned(s.clients, s.users)
    BY Zenon, <1>3, <2>1 DEF AllOwned, Owned, Abstract!Ids
  <2>3. \A c \in s.clients : Born(c, s.users)
    BY <2>1 DEF Born
  <2> QED BY Zenon, <1>1, <1>2, <2>2, <2>3 DEF OwnersOK
<1> QED BY Zenon, <1>5, <1>6, <1>7, <1>8, <1>10, <1>11 DEF IInv

LEMMA StutterOK ==
  ASSUME IInv, UNCHANGED vars
  PROVE  IInv'
<1>1. /\ db' = db /\ loading' = loading /\ load' = load /\ source' = source /\ todo' = todo /\ depth' = depth
      /\ dirty' = dirty /\ births' = births /\ shown' = shown /\ disk' = disk /\ half' = half /\ cut' = cut
      /\ skipped' = skipped
  BY Zenon DEF vars, loadVars
<1> QED BY Zenon, <1>1 DEF IInv, ControlOK, FilesOK, FilesFresh, LoadOK, OwnersOK, Due, Written, Rows, Sourced, Handled,
       LeftOut, Missing, HostsKept, Shadowed, InOrder, Pending

(* What a step does to the tables, in the terms of FileTables. *)
Same == db' = db /\ UNCHANGED <<disk, loading, shown>>
LEMMA StepKinds ==
  ASSUME IInv, Next
  PROVE  /\ IInv'
         /\ \/ One(db, db') /\ loading = "no" /\ UNCHANGED <<disk, loading>>
            \/ \E i \in DOMAIN db.users.rows : DelUser(i)
            \/ Same
            \/ shown' = Visible /\ disk' = disk /\ loading' # "no"
            \/ EndLoad
            \/ \E t \in Tables : StoreNow(t)
<1>1. \A d, ts : Operate(d, ts) => loading = "no" /\ UNCHANGED <<disk, loading, shown>>
  BY Zenon DEF Operate, Idle, Stays, loadVars
<1>2. CASE UserSteps
  <2>1. ASSUME NEW n \in Names, NewUser(n) PROVE IInv' /\ One(db, db') /\ loading = "no" /\ UNCHANGED <<disk, loading>>
    BY Zenon, <1>1, <2>1, NewUserOK DEF NewUser
  <2>2. ASSUME NEW n \in Names, NEW i \in DOMAIN db.users.rows, UpdateUser(i, n)
        PROVE  IInv' /\ One(db, db') /\ loading = "no" /\ UNCHANGED <<disk, loading>>
    BY Zenon, <1>1, <2>2, UpdateUserOK DEF UpdateUser
  <2>3. ASSUME NEW n \in Names, NEW p \in Platforms, EnsureManagementPlatformUsers(p, n)
        PROVE  IInv' /\ One(db, db') /\ loading = "no" /\ UNCHANGED <<disk, loading>>
    BY Zenon, <2>3, PlatformUserOK DEF EnsureManagementPlatformUsers, Idle, Stays, loadVars
  <2>4. ASSUME NEW i \in DOMAIN db.users.rows, DelUser(i) PROVE IInv'
    BY Zenon, <2>4, DelUserOK
  <2> QED BY Zenon, <1>2, <2>1, <2>2, <2>3, <2>4 DEF UserSteps
<1>3. CASE ClientSteps
  <2>1. ASSUME NEW k \in Keys, NEW o \in Owners, NEW ms \in SUBSET DOMAIN db.users.rows, NEW ns \in BOOLEAN,
               NewClient(k, o, ms, ns)
        PROVE  IInv' /\ One(db, db') /\ loading = "no" /\ UNCHANGED <<disk, loading>>
    BY Zenon, <1>1, <2>1, NewClientOK DEF NewClient
  <2>2. ASSUME NEW i \in DOMAIN db.clients.rows, NEW k \in Keys, NEW o \in Owners,
               NEW ms \in SUBSET DOMAIN db.users.rows, UpdateClient(i, k, o, ms)
        PROVE  IInv' /\ One(db, db') /\ loading = "no" /\ UNCHANGED <<disk, loading>>
    BY Zenon, <1>1, <2>2, UpdateClientOK DEF UpdateClient
  <2>3. ASSUME NEW i \in DOMAIN db.clients.rows, DelClient(i)
        PROVE  IInv' /\ One(db, db') /\ loading = "no" /\ UNCHANGED <<disk, loading>>
    BY Zenon, <1>1, <2>3, DelClientOK DEF DelClient
  <2> QED BY Zenon, <1>3, <2>1, <2>2, <2>3 DEF ClientSteps
<1>4. CASE TaskSteps
  <2>1. ASSUME NEW c \in DOMAIN db.clients.rows, NEW p \in Passwords \union {None}, NEW ns \in BOOLEAN, NewTask(c, p, ns)
        PROVE  IInv' /\ One(db, db') /\ loading = "no" /\ UNCHANGED <<disk, loading>>
    BY Zenon, <1>1, <2>1, NewTaskOK DEF NewTask
  <2>2. ASSUME NEW i \in DOMAIN db.tasks.rows, NEW c \in DOMAIN db.clients.rows, NEW p \in Passwords \union {None},
               UpdateTask(i, c, p)
        PROVE  IInv' /\ One(db, db') /\ loading = "no" /\ UNCHANGED <<disk, loading>>
    BY Zenon, <1>1, <2>2, UpdateTaskOK DEF UpdateTask
  <2>3. ASSUME NEW i \in DOMAIN db.tasks.rows, UpdateTaskStatus(i) PROVE IInv' /\ Same
    BY Zenon, <1>1, <2>3, TaskStatusOK DEF UpdateTaskStatus, Same
  <2>4. ASSUME NEW i \in DOMAIN db.tasks.rows, DelTask(i) \/ DeleteNoStoreTaskIfCurrentOwnerless(i)
        PROVE  IInv' /\ One(db, db') /\ loading = "no" /\ UNCHANGED <<disk, loading>>
    BY Zenon, <1>1, <2>4, DropTaskOK DEF DelTask, DeleteNoStoreTaskIfCurrentOwnerless, DropTask
  <2> QED BY Zenon, <1>4, <2>1, <2>2, <2>3, <2>4 DEF TaskSteps
<1>5. CASE HostSteps
  <2>1. ASSUME NEW c \in DOMAIN db.clients.rows, NEW n \in HostNames, NEW sc \in Schemes, NEW ns \in BOOLEAN,
               NewHost(c, n, sc, ns)
        PROVE  IInv' /\ One(db, db') /\ loading = "no" /\ UNCHANGED <<disk, loading>>
    BY Zenon, <1>1, <2>1, NewHostOK DEF NewHost, StoreHost
  <2>2. ASSUME NEW i \in DOMAIN db.hosts.rows, NEW c \in DOMAIN db.clients.rows, NEW n \in HostNames, NEW sc \in Schemes,
               UpdateHost(i, c, n, sc)
        PROVE  IInv' /\ One(db, db') /\ loading = "no" /\ UNCHANGED <<disk, loading>>
    BY Zenon, <1>1, <2>2, UpdateHostOK DEF UpdateHost, StoreHost
  <2>3. ASSUME NEW i \in DOMAIN db.hosts.rows, DelHost(i) \/ DeleteNoStoreHostIfCurrentOwnerless(i)
        PROVE  IInv' /\ One(db, db') /\ loading = "no" /\ UNCHANGED <<disk, loading>>
    BY Zenon, <1>1, <2>3, DropHostOK DEF DelHost, DeleteNoStoreHostIfCurrentOwnerless, DropHost
  <2> QED BY Zenon, <1>5, <2>1, <2>2, <2>3 DEF HostSteps
<1>6. CASE LoadSteps
  <2>1. loading # "no" => Visible = shown
    BY Zenon DEF Visible
  <2> QED BY Zenon, <1>6, <2>1, LoadUsersOK, LoadClientsOK, LoadTasksOK, LoadHostsOK, EndLoadOK DEF LoadSteps
<1>7. CASE FileSteps
  <2>1. ASSUME beginDeferredPersistence PROVE IInv' /\ Same
    BY Zenon, <2>1, BeginOK DEF beginDeferredPersistence, Same, loadVars
  <2>2. ASSUME endDeferredPersistence PROVE IInv' /\ Same
    BY Zenon, <2>2, EndOK DEF endDeferredPersistence, Same, loadVars
  <2>3. ASSUME Rest PROVE IInv' /\ Same
    <3>1. UNCHANGED vars
      BY Zenon, <2>3 DEF Rest
    <3>2. Same
      BY Zenon, <3>1 DEF vars, loadVars, Same
    <3> QED BY Zenon, <3>1, <3>2, StutterOK
  <2>4. ASSUME NEW t \in Tables, StoreNow(t) PROVE IInv'
    BY Zenon, <2>4, StoreNowOK
  <2> QED BY Zenon, <1>7, <2>1, <2>2, <2>3, <2>4, RestartOK DEF FileSteps
<1>8. CASE ImportSteps
  BY Zenon, <1>8, ImportExportedOK, ImportSnapshotOK DEF ImportSteps
<1> QED BY Zenon, <1>2, <1>3, <1>4, <1>5, <1>6, <1>7, <1>8 DEF Next

(* The inductive invariant holds in every state of every behaviour of the store. *)
THEOREM IInvAlways == Spec => []IInv
<1>1. ASSUME IInv, [Next]_vars PROVE IInv'
  BY Zenon, <1>1, StepKinds, StutterOK
<1> QED BY InitOK, <1>1, PTL DEF Spec

LEMMA LookUps ==
  ASSUME IInv
  PROVE  LookupExact
<1>0. DbOK(db)
  BY Zenon DEF IInv
<1>1. PICK us : us = db.users
  BY Zenon
<1>2. PICK cs : cs = db.clients
  BY Zenon
<1>3. PICK ts : ts = db.tasks
  BY Zenon
<1>4. PICK hs : hs = db.hosts
  BY Zenon
<1>5. /\ \A i \in DOMAIN us.rows : us.rows[i].name \in DOMAIN us.byName /\ us.byName[us.rows[i].name] = i
      /\ \A n \in DOMAIN us.byName : us.byName[n] \in DOMAIN us.rows
      /\ \A p \in DOMAIN us.byPlatform : us.byPlatform[p] \in DOMAIN us.rows /\ us.rows[us.byPlatform[p]].platform = p
      /\ \A i \in DOMAIN us.rows : us.rows[i].platform # None =>
           us.rows[i].platform \in DOMAIN us.byPlatform /\ us.byPlatform[us.rows[i].platform] = i
  <2>1. PICK nc : nc = NameColumn(us)
    BY Zenon
  <2>2. PICK pc : pc = PlatformColumn(us)
    BY Zenon
  <2>3. ExactIndex(us.byName, nc) /\ ExactIndex(us.byPlatform, pc)
    BY Zenon, <1>0, <1>1, <2>1, <2>2 DEF DbOK, UsersOK
  <2>4. /\ DOMAIN nc = DOMAIN us.rows /\ \A i \in DOMAIN us.rows : nc[i] = us.rows[i].name
        /\ DOMAIN pc = DOMAIN us.rows /\ \A i \in DOMAIN us.rows : pc[i] = us.rows[i].platform
    BY Zenon, <2>1, <2>2 DEF NameColumn, PlatformColumn
  <2>5. \A i \in DOMAIN us.rows : us.rows[i].name # None
    <3>1. \A u \in UserRecord : u.name # None
      BY Zenon, StoreAssumption DEF UserRecord
    <3> QED BY Zenon, <1>0, <1>1, <3>1, UserRows
  <2> QED BY <2>3, <2>4, <2>5 DEF ExactIndex
<1>6. /\ \A i \in DOMAIN cs.rows : cs.rows[i].key \in DOMAIN cs.byKey /\ cs.byKey[cs.rows[i].key] = i
      /\ \A k \in DOMAIN cs.byKey : cs.byKey[k] \in DOMAIN cs.rows
  <2>1. PICK kc : kc = KeyColumn(cs)
    BY Zenon
  <2>2. ExactIndex(cs.byKey, kc)
    BY Zenon, <1>0, <1>2, <2>1 DEF DbOK, ClientsOK
  <2>3. DOMAIN kc = DOMAIN cs.rows /\ \A i \in DOMAIN cs.rows : kc[i] = cs.rows[i].key
    BY Zenon, <2>1 DEF KeyColumn
  <2>4. \A i \in DOMAIN cs.rows : cs.rows[i].key # None
    <3>1. \A c \in ClientRecord : c.key # None
      BY Zenon, StoreAssumption DEF ClientRecord
    <3> QED BY Zenon, <1>0, <1>2, <3>1, ClientRows
  <2> QED BY Zenon, <2>2, <2>3, <2>4 DEF ExactIndex
<1>7. /\ \A p \in DOMAIN ts.byPassword : ts.byPassword[p] \in DOMAIN ts.rows /\ ts.rows[ts.byPassword[p]].password = p
      /\ \A i \in DOMAIN ts.rows : ts.rows[i].password # None =>
           ts.rows[i].password \in DOMAIN ts.byPassword /\ ts.byPassword[ts.rows[i].password] = i
  <2>1. PICK pc : pc = PasswordColumn(ts)
    BY Zenon
  <2>2. ExactIndex(ts.byPassword, pc)
    BY Zenon, <1>0, <1>3, <2>1 DEF DbOK, TasksOK
  <2>3. DOMAIN pc = DOMAIN ts.rows /\ \A i \in DOMAIN ts.rows : pc[i] = ts.rows[i].password
    BY Zenon, <2>1 DEF PasswordColumn
  <2> QED BY Zenon, <2>2, <2>3 DEF ExactIndex
<1>8. hs.byHost = {<<h.name, h.id>> : h \in RowSet(hs)} /\ hs.byClient = {<<h.client, h.id>> : h \in RowSet(hs)}
  <2>1. PICK nc : nc = HostColumn(hs)
    BY Zenon
  <2>2. PICK cc : cc = ClientColumn(hs)
    BY Zenon
  <2>3. ExactPairs(hs.byHost, nc) /\ ExactPairs(hs.byClient, cc)
    BY Zenon, <1>0, <1>4, <2>1, <2>2 DEF DbOK, HostsOK
  <2>4. /\ DOMAIN nc = DOMAIN hs.rows /\ \A i \in DOMAIN hs.rows : nc[i] = {hs.rows[i].name}
        /\ DOMAIN cc = DOMAIN hs.rows /\ \A i \in DOMAIN hs.rows : cc[i] = {hs.rows[i].client}
    BY Zenon, <2>1, <2>2 DEF HostColumn, ClientColumn
  <2>5. \A i \in DOMAIN hs.rows : hs.rows[i].id = i
    BY Zenon, <1>0, <1>4, HostRows
  <2>6. hs.byHost = {<<h.name, h.id>> : h \in RowSet(hs)}
    BY <2>3, <2>4, <2>5 DEF ExactPairs, RowSet
  <2>7. hs.byClient = {<<h.client, h.id>> : h \in RowSet(hs)}
    BY <2>3, <2>4, <2>5 DEF ExactPairs, RowSet
  <2> QED BY Zenon, <2>6, <2>7
<1>9. ts.byClient = {<<t.client, t.id>> : t \in RowSet(ts)}
  <2>2. PICK cc : cc = ClientColumn(ts)
    BY Zenon
  <2>3. ExactPairs(ts.byClient, cc)
    BY Zenon, <1>0, <1>3, <2>2 DEF DbOK, TasksOK
  <2>4. DOMAIN cc = DOMAIN ts.rows /\ \A i \in DOMAIN ts.rows : cc[i] = {ts.rows[i].client}
    BY Zenon, <2>2 DEF ClientColumn
  <2>5. \A i \in DOMAIN ts.rows : ts.rows[i].id = i
    BY Zenon, <1>0, <1>3, TaskRows
  <2> QED BY <2>3, <2>4, <2>5 DEF ExactPairs, RowSet
<1>10. /\ cs.owners = {<<c.owner, c.id>> : c \in {x \in RowSet(cs) : x.owner # 0}}
       /\ cs.managers = UNION {ManagerPairs(c) : c \in RowSet(cs)}
  <2>1. PICK oc : oc = OwnerColumn(cs)
    BY Zenon
  <2>2. PICK mc : mc = ManagerColumn(cs)
    BY Zenon
  <2>3. ExactPairs(cs.owners, oc) /\ ExactPairs(cs.managers, mc)
    BY Zenon, <1>0, <1>2, <2>1, <2>2 DEF DbOK, ClientsOK
  <2>4. /\ DOMAIN oc = DOMAIN cs.rows /\ \A i \in DOMAIN cs.rows : oc[i] = {cs.rows[i].owner} \ {0}
        /\ DOMAIN mc = DOMAIN cs.rows /\ \A i \in DOMAIN cs.rows : mc[i] = cs.rows[i].managers
    BY Zenon, <2>1, <2>2 DEF OwnerColumn, ManagerColumn
  <2>5. \A i \in DOMAIN cs.rows : cs.rows[i].id = i
    BY Zenon, <1>0, <1>2, ClientRows
  <2>6. cs.owners = {<<c.owner, c.id>> : c \in {x \in RowSet(cs) : x.owner # 0}}
    BY <2>3, <2>4, <2>5 DEF ExactPairs, RowSet
  <2>7. cs.managers = UNION {ManagerPairs(c) : c \in RowSet(cs)}
    BY <2>3, <2>4, <2>5 DEF ExactPairs, RowSet, ManagerPairs
  <2> QED BY Zenon, <2>6, <2>7
<1> QED BY Zenon, <1>1, <1>2, <1>3, <1>4, <1>5, <1>6, <1>7, <1>8, <1>9, <1>10 DEF LookupExact, Rows

LEMMA NotInherited ==
  ASSUME IInv
  PROVE  OwnershipNotInherited
<1> SUFFICES ASSUME NEW c \in Rows("clients"), c.owner \in DOMAIN db.users.rows, ~ cut
             PROVE  db.users.rows[c.owner].birth = c.ownerBirth
  BY Zenon DEF OwnershipNotInherited
<1>1. DbOK(db) /\ "users" \in Tables /\ "clients" \in Tables
  BY Zenon DEF IInv, Tables
<1>2. PICK u : u = db.users.rows[c.owner]
  BY Zenon
<1>3. u \in Rows("users") /\ u.id = c.owner /\ c.owner # 0
  BY Zenon, <1>1, <1>2, UserRows DEF Rows, RowSet, Ids
<1>4. CASE loading = "no"
  <2>1. Owned(c, RowSet(db.users))
    BY Zenon, <1>4, OwnedNow DEF AllOwned, Rows
  <2>2. Apart("users", RowSet(db["users"]))
    BY Zenon, <1>1, RowsOfTable
  <2> QED BY Zenon, <1>2, <1>3, <2>1, <2>2 DEF Owned, Apart, Rows, Abstract!Clash
<1>5. CASE loading # "no"
  <2>1. c \in source.clients /\ u \in source.users
    BY Zenon, <1>1, <1>3, <1>5 DEF IInv, LoadOK, Handled
  <2>2. Born(c, source.users)
    BY Zenon, <1>5, <2>1 DEF IInv, OwnersOK
  <2> QED BY Zenon, <1>2, <1>3, <2>1, <2>2 DEF Born
<1> QED BY Zenon, <1>4, <1>5

(* The look-ups of every table answer what its records say, after every operation, load, import and restart, *)
(* and no later user inherits the clients of a user whose id they are given. *)
THEOREM RecordsExactAlways == Spec => []RecordsExact
<1>1. IInv => RecordsExact
  BY Zenon, LookUps, NotInherited DEF RecordsExact
<1> QED BY IInvAlways, <1>1, PTL

(* When no write is due, every file holds its table: no operation, window, import or restart loses a change. *)
THEOREM DurableAlways == Spec => []QuiescentIsDurable
<1>1. ASSUME IInv PROVE QuiescentIsDurable
  <2> SUFFICES ASSUME depth = 0, todo = {}, loading = "no", NEW t \in Tables PROVE disk[t] = Written(t) \union skipped[t]
    BY Zenon DEF QuiescentIsDurable
  <2>1. t \notin Due
    BY Zenon, <1>1 DEF IInv, ControlOK, Due
  <2> QED BY Zenon, <1>1, <2>1 DEF IInv, FilesFresh
<1> QED BY IInvAlways, <1>1, PTL

-----------------------------------------------------------------------------
(* The refinement: each kind of step is one of FileTables, or leaves its variables alone. *)
TablesOf(d) == [t \in Tables |-> RowSet(d[t])]

LEMMA VisibleTables ==
  /\ loading = "no" => Visible = TablesOf(db)
  /\ loading # "no" => Visible = shown
BY Zenon DEF Visible, AllRows, TablesOf, Rows

LEMMA VisibleTablesNext ==
  /\ loading' = "no" => Visible' = TablesOf(db')
  /\ loading' # "no" => Visible' = shown'
BY Zenon DEF Visible, AllRows, TablesOf, Rows

LEMMA TableOf ==
  ASSUME NEW d, NEW m, m = TablesOf(d)
  PROVE  /\ \A t \in Tables : m[t] = RowSet(d[t])
         /\ m.users = RowSet(d.users) /\ m.clients = RowSet(d.clients) /\ m.tasks = RowSet(d.tasks) /\ m.hosts = RowSet(d.hosts)
BY Zenon DEF TablesOf, Tables

LEMMA OneIsChange ==
  ASSUME NEW d, NEW e, One(d, e), NEW m, m = TablesOf(d), NEW n, n = TablesOf(e)
  PROVE  \E t \in Tables : \E i \in Abstract!Ids(m[t]) \union Abstract!Ids(n[t]) :
           /\ {r \in n[t] : r.id # i} = {r \in m[t] : r.id # i}
           /\ \A o \in Tables \ {t} : n[o] = m[o]
<1>1. PICK t \in Tables : (\E r : Replaced(d, e, t, r)) \/ (\E x \in RowSet(d[t]) : Removed(d, e, t, x.id))
  BY Zenon DEF One
<1>2. m[t] = RowSet(d[t]) /\ n[t] = RowSet(e[t])
  BY Zenon, TableOf
<1>3. \A o \in Tables \ {t} : n[o] = m[o]
  <2>1. \A o \in Tables \ {t} : e[o] = d[o]
    BY Zenon, <1>1 DEF Replaced, Removed, Others
  <2>2. \A o \in Tables : m[o] = RowSet(d[o]) /\ n[o] = RowSet(e[o])
    BY Zenon, TableOf
  <2> QED BY Zenon, <2>1, <2>2
<1>4. CASE \E r : Replaced(d, e, t, r)
  <2>1. PICK r : Replaced(d, e, t, r)
    BY Zenon, <1>4
  <2>2. n[t] = {x \in m[t] : x.id # r.id} \union {r}
    BY Zenon, <1>2, <2>1 DEF Replaced
  <2>3. r.id \in Abstract!Ids(n[t])
    BY Zenon, <2>2 DEF Abstract!Ids
  <2>4. {x \in n[t] : x.id # r.id} = {x \in m[t] : x.id # r.id}
    BY Zenon, <2>2
  <2> QED BY Zenon, <1>3, <2>3, <2>4
<1>5. CASE \E x \in RowSet(d[t]) : Removed(d, e, t, x.id)
  <2>1. PICK x \in RowSet(d[t]) : Removed(d, e, t, x.id)
    BY Zenon, <1>5
  <2>2. n[t] = {y \in m[t] : y.id # x.id}
    BY Zenon, <1>2, <2>1 DEF Removed
  <2>3. x.id \in Abstract!Ids(m[t])
    BY Zenon, <1>2 DEF Abstract!Ids
  <2>4. {y \in n[t] : y.id # x.id} = {y \in m[t] : y.id # x.id}
    BY Zenon, <2>2
  <2> QED BY Zenon, <1>3, <2>3, <2>4
<1> QED BY Zenon, <1>1, <1>4, <1>5

LEMMA ChangeStep ==
  ASSUME IInv, IInv', One(db, db'), loading = "no", loading' = "no", disk' = disk
  PROVE  Abstract!Next
<1>1. PICK m : m = Visible
  BY Zenon
<1>2. PICK n : n = Visible'
  BY Zenon
<1>3. m = TablesOf(db) /\ n = TablesOf(db')
  BY Zenon, <1>1, <1>2, VisibleTables, VisibleTablesNext
<1>4. Abstract!Consistent(n)
  BY Zenon, <1>3, ConsistentRows DEF IInv, TablesOf
<1>5. \E t \in Tables : \E i \in Abstract!Ids(m[t]) \union Abstract!Ids(n[t]) :
        /\ {r \in n[t] : r.id # i} = {r \in m[t] : r.id # i}
        /\ \A o \in Tables \ {t} : n[o] = m[o]
  <2>1. PICK e : e = db'
    BY Zenon
  <2>2. One(db, e) /\ n = TablesOf(e)
    BY Zenon, <1>3, <2>1
  <2> QED BY <1>3, <2>2, OneIsChange
<1>6. Abstract!ChangeOne
  BY Zenon, <1>1, <1>2, <1>5 DEF Abstract!ChangeOne, Abstract!Tables, Tables
<1>7. Abstract!Consistent(Visible')
  BY Zenon, <1>2, <1>4
<1> QED BY Zenon, <1>6, <1>7 DEF Abstract!Next, Abstract!Change

LEMMA ClientIds ==
  ASSUME NEW d, DbOK(d)
  PROVE  Abstract!Ids(RowSet(d.clients)) = DOMAIN d.clients.rows
<1>1. PICK a : a = d.clients
  BY Zenon
<1>2. \A i \in DOMAIN a.rows : a.rows[i].id = i
  BY Zenon, <1>1, ClientRows
<1>3. Abstract!Ids(RowSet(a)) = DOMAIN a.rows
  BY Zenon, <1>2 DEF Abstract!Ids, RowSet
<1> QED BY Zenon, <1>1, <1>3

LEMMA DropStep ==
  ASSUME IInv, NEW id \in DOMAIN db.users.rows, DelUser(id)
  PROVE  Abstract!Next
<1>0. /\ loading = "no" /\ loading' = "no" /\ disk' = disk
  BY Zenon DEF DelUser, Operate, Idle, Stays, loadVars
<1>1. PICK m : m = Visible
  BY Zenon
<1>2. PICK n : n = Visible'
  BY Zenon
<1>3. m = TablesOf(db) /\ n = TablesOf(db')
  BY Zenon, <1>0, <1>1, <1>2, VisibleTables, VisibleTablesNext
<1>4. DbOK(db) /\ DbOK(db')
  BY Zenon, DelUserOK DEF IInv
<1>5. Abstract!Consistent(n)
  BY Zenon, <1>3, <1>4, ConsistentRows DEF TablesOf
<1>6. PICK e : e = db'
  BY Zenon
<1>7. /\ m.users = RowSet(db.users) /\ m.clients = RowSet(db.clients) /\ m.tasks = RowSet(db.tasks) /\ m.hosts = RowSet(db.hosts)
      /\ n.users = RowSet(e.users) /\ n.clients = RowSet(e.clients) /\ n.tasks = RowSet(e.tasks) /\ n.hosts = RowSet(e.hosts)
  BY Zenon, <1>3, <1>6, TableOf
<1>8. n.tasks = m.tasks /\ n.hosts = m.hosts
  BY Zenon, <1>6, <1>7, DelUserOK
<1>9. PICK u : u = db.users.rows[id]
  BY Zenon
<1>10. u \in m.users /\ u.id = id
  BY Zenon, <1>4, <1>7, <1>9, UserRows DEF RowSet
<1>11. n.users = m.users \ {u}
  <2>1. PICK f : f = [db EXCEPT !.users = db'.users]
    BY Zenon
  <2>2. Removed(db, f, "users", id)
    BY Zenon, <2>1, DelUserOK
  <2>3. f.users = db'.users
    BY Zenon, <1>4, <2>1 DEF DbOK, Tables
  <2>4. n.users = {x \in m.users : x.id # id}
    BY Zenon, <1>6, <1>7, <2>2, <2>3 DEF Removed
  <2>5. \A i \in DOMAIN db.users.rows : db.users.rows[i].id = i
    BY Zenon, <1>4, UserRows
  <2>6. ASSUME NEW x \in m.users, x.id = id PROVE x = u
    <3>1. PICK i \in DOMAIN db.users.rows : x = db.users.rows[i]
      BY Zenon, <1>7 DEF RowSet
    <3>2. i = id
      BY Zenon, <2>5, <2>6, <3>1
    <3> QED BY Zenon, <1>9, <3>1, <3>2
  <2> QED BY Zenon, <1>10, <2>4, <2>6
<1>12. Abstract!Ids(n.clients) = Abstract!Ids(m.clients)
  BY Zenon, <1>4, <1>6, <1>7, ClientIds, DelUserOK
<1>13. \A c \in n.clients : c.owner # id /\ id \notin c.managers
  <2>1. DOMAIN e.clients.rows = DOMAIN db.clients.rows
    BY Zenon, <1>6, DelUserOK
  <2>2. \A i \in DOMAIN db.clients.rows : ~ Refers(e.clients.rows[i], id)
    BY Zenon, <1>6, DelUserOK
  <2> QED BY Zenon, <1>7, <2>1, <2>2 DEF Refers, RowSet
<1>14. \A c \in m.clients : c.owner # id /\ id \notin c.managers => c \in n.clients
  <2>1. DOMAIN e.clients.rows = DOMAIN db.clients.rows
    BY Zenon, <1>6, DelUserOK
  <2>2. \A i \in DOMAIN db.clients.rows : ~ Refers(db.clients.rows[i], id) => e.clients.rows[i] = db.clients.rows[i]
    BY Zenon, <1>6, DelUserOK
  <2> QED BY Zenon, <1>7, <2>1, <2>2 DEF Refers, RowSet
<1>15. Abstract!DropUser
  BY Zenon, <1>1, <1>2, <1>8, <1>10, <1>11, <1>12, <1>13, <1>14 DEF Abstract!DropUser
<1> QED BY Zenon, <1>0, <1>2, <1>5, <1>15 DEF Abstract!Next, Abstract!Change

LEMMA SaveStep ==
  ASSUME IInv, NEW t \in Tables, StoreNow(t)
  PROVE  Abstract!Next
<1>0. /\ loading = "no" /\ db' = db
  BY Zenon, StoreNowOK
<1>1. loading' = loading /\ disk' = [disk EXCEPT ![t] = Written(t)]
  BY Zenon DEF StoreNow, loadVars
<1>2. Visible = TablesOf(db) /\ Visible' = TablesOf(db)
  BY Zenon, <1>0, <1>1, VisibleTables, VisibleTablesNext
<1>3. PICK m : m = Visible
  BY Zenon
<1>4. m[t] = Rows(t)
  BY Zenon, <1>2, <1>3, TableOf DEF Rows
<1>5. Written(t) = Abstract!Lasting(m[t])
  BY Zenon, <1>4 DEF Written, Abstract!Lasting
<1>6. Visible' = Visible
  BY Zenon, <1>2
<1>7. disk' = [disk EXCEPT ![t] = Abstract!Lasting(Visible[t])]
  BY Zenon, <1>1, <1>3, <1>5
<1>8. t \in Abstract!Tables
  BY Zenon DEF Abstract!Tables, Tables
<1> QED BY Zenon, <1>6, <1>7, <1>8 DEF Abstract!Next, Abstract!Save

LEMMA LoadedTables ==
  ASSUME IInv, EndLoad, NEW n, n = Visible'
  PROVE  /\ \A t \in Tables : n[t] = Rows(t)
         /\ n.users = Rows("users") /\ n.clients = Rows("clients") /\ n.tasks = Rows("tasks") /\ n.hosts = Rows("hosts")
         /\ Abstract!Ids(n.clients) = DOMAIN db.clients.rows
         /\ Abstract!Consistent(n)
<1>1. n = TablesOf(db)
  BY Zenon, EndLoadOK, VisibleTablesNext
<1>2. DbOK(db)
  BY Zenon DEF IInv
<1>3. Abstract!Consistent(n)
  BY Zenon, <1>1, <1>2, ConsistentRows DEF TablesOf
<1>4. /\ \A t \in Tables : n[t] = Rows(t)
      /\ n.users = Rows("users") /\ n.clients = Rows("clients") /\ n.tasks = Rows("tasks") /\ n.hosts = Rows("hosts")
  <2>1. /\ \A t \in Tables : n[t] = RowSet(db[t])
        /\ n.users = RowSet(db.users) /\ n.clients = RowSet(db.clients) /\ n.tasks = RowSet(db.tasks) /\ n.hosts = RowSet(db.hosts)
    BY Zenon, <1>1, TableOf
  <2> QED BY Zenon, <2>1 DEF Rows
<1>5. n.clients = RowSet(db.clients)
  BY Zenon, <1>1, TableOf
<1>6. Abstract!Ids(n.clients) = DOMAIN db.clients.rows
  BY Zenon, <1>2, <1>5, ClientIds
<1> QED BY Zenon, <1>3, <1>4, <1>6

(* An import ends: what it left out had to be left out. *)
LEMMA ImportEnds ==
  ASSUME IInv, EndLoad, loading = "import"
  PROVE  Abstract!Next
<1>1. PICK n : n = Visible'
  BY Zenon
<1>2. /\ \A t \in Tables : n[t] = Rows(t)
      /\ Abstract!Ids(n.clients) = DOMAIN db.clients.rows
      /\ Abstract!Consistent(n)
  BY Zenon, <1>1, LoadedTables
<1>3. load = NoTables /\ disk' = disk
  BY Zenon, EndLoadOK
<1>4. PICK m : m = Visible
  BY Zenon
<1>5. m = shown
  BY Zenon, <1>4, VisibleTables
<1>6. source \in {Tabled(s) : s \in Snapshots} \union {m}
  BY Zenon, <1>5 DEF IInv, LoadOK, Sourced
<1>7. ASSUME NEW t \in Tables
      PROVE  /\ n[t] \subseteq source[t]
             /\ \A r \in source[t] \ n[t] :
                  \/ \E o \in source[t] \ {r} : Abstract!Clash(t, r, o) \/ (t = "hosts" /\ Abstract!Covers(o, r))
                  \/ t \in {"tasks", "hosts"} /\ r.client \notin Abstract!Ids(n.clients)
  <2>1. Rows(t) \subseteq source[t] /\ \A r \in source[t] : r \in Rows(t) \/ LeftOut(t, r)
    BY Zenon, <1>3, AllHandled
  <2>2. n[t] \subseteq source[t] /\ \A r \in source[t] \ n[t] : LeftOut(t, r)
    BY Zenon, <1>2, <2>1
  <2>3. \A r : Missing(r) <=> r.client \notin Abstract!Ids(n.clients)
    BY Zenon, <1>2 DEF Missing
  <2> QED BY Zenon, <2>2, <2>3 DEF LeftOut
<1>8. Abstract!Tables = Tables
  BY Zenon DEF Abstract!Tables, Tables
<1>9. Abstract!Replace
  BY Zenon, <1>1, <1>4, <1>6, <1>7, <1>8 DEF Abstract!Replace
<1> QED BY Zenon, <1>1, <1>2, <1>3, <1>9 DEF Abstract!Next, Abstract!Import

(* A start ends: the files are back, save for the records of no client and the shadowed hosts. *)
LEMMA StartEnds ==
  ASSUME IInv, EndLoad, loading = "start"
  PROVE  Abstract!Next
<1>1. PICK n : n = Visible'
  BY Zenon
<1>2. /\ n.users = Rows("users") /\ n.clients = Rows("clients") /\ n.tasks = Rows("tasks") /\ n.hosts = Rows("hosts")
      /\ Abstract!Ids(n.clients) = DOMAIN db.clients.rows
      /\ Abstract!Consistent(n)
  BY Zenon, <1>1, LoadedTables
<1>3. load = NoTables /\ disk' = disk /\ DbOK(db)
  BY Zenon, EndLoadOK DEF IInv
<1>4. /\ Rows("users") = disk.users /\ Rows("clients") = disk.clients
      /\ \A t \in Tables : Rows(t) \subseteq disk[t]
      /\ \A r \in disk.tasks : r \in Rows("tasks") \/ Missing(r)
      /\ \A h \in disk.hosts : h \in Rows("hosts") \/ Missing(h) \/ Shadowed(h)
  BY Zenon, <1>3, WholeFiles
<1>5. n.users = disk.users /\ n.clients = disk.clients
  BY Zenon, <1>2, <1>4
<1>6. \A r : Missing(r) <=> r.client \notin Abstract!Ids(disk.clients)
  BY Zenon, <1>2, <1>5 DEF Missing
<1>7. n.tasks \subseteq disk.tasks /\ n.hosts \subseteq disk.hosts
  BY Zenon, <1>2, <1>4 DEF Tables
<1>8. /\ \A r \in n.tasks : r.client \in Abstract!Ids(disk.clients)
      /\ \A r \in n.hosts : r.client \in Abstract!Ids(disk.clients)
  BY Zenon, <1>2, <1>5 DEF Abstract!Consistent
<1>9. n.tasks = Abstract!Attached(disk.tasks)
  BY Zenon, <1>2, <1>4, <1>6, <1>7, <1>8 DEF Abstract!Attached
<1>10. n.hosts \subseteq Abstract!Attached(disk.hosts)
  BY Zenon, <1>7, <1>8 DEF Abstract!Attached
<1>11. \A h \in Abstract!Attached(disk.hosts) \ n.hosts : \E g \in n.hosts : Abstract!Covers(g, h)
  BY Zenon, <1>2, <1>4, <1>6 DEF Abstract!Attached, Shadowed
<1>12. Abstract!Recover
  BY Zenon, <1>1, <1>2, <1>3, <1>5, <1>9, <1>10, <1>11 DEF Abstract!Recover
<1> QED BY Zenon, <1>12 DEF Abstract!Next

LEMMA AbstractInit ==
  ASSUME Init
  PROVE  Abstract!Init
<1>1. /\ disk \in Starts /\ loading # "no" /\ shown = disk
  BY Zenon DEF Init
<1>2. Visible = disk
  BY Zenon, <1>1, VisibleTables
<1>3. Abstract!Consistent(disk) /\ disk = [t \in Tables |-> disk[t]] /\ \A t \in Tables : \A r \in disk[t] : ~ r.noStore
  BY Zenon, <1>1, StoreAssumption
<1>4. \A t \in Tables : Abstract!Lasting(disk[t]) = disk[t]
  BY Zenon, <1>3 DEF Abstract!Lasting
<1>5. disk = [t \in Tables |-> Abstract!Lasting(disk[t])]
  BY Zenon, <1>3, <1>4
<1>6. Abstract!Tables = Tables
  BY Zenon DEF Abstract!Tables, Tables
<1> QED BY Zenon, <1>2, <1>3, <1>5, <1>6 DEF Abstract!Init

LEMMA AbstractStep ==
  ASSUME IInv, [Next]_vars
  PROVE  [Abstract!Next]_<<Visible, disk>>
<1>1. CASE Next
  <2>1. /\ IInv'
        /\ \/ One(db, db') /\ loading = "no" /\ UNCHANGED <<disk, loading>>
           \/ \E i \in DOMAIN db.users.rows : DelUser(i)
           \/ Same
           \/ shown' = Visible /\ disk' = disk /\ loading' # "no"
           \/ EndLoad
           \/ \E t \in Tables : StoreNow(t)
    BY Zenon, <1>1, StepKinds
  <2>2. CASE One(db, db') /\ loading = "no" /\ UNCHANGED <<disk, loading>>
    BY Zenon, <2>1, <2>2, ChangeStep
  <2>3. CASE \E i \in DOMAIN db.users.rows : DelUser(i)
    BY Zenon, <2>3, DropStep
  <2>4. CASE Same
    BY Zenon, <2>4 DEF Same, Visible, AllRows, Rows
  <2>5. CASE shown' = Visible /\ disk' = disk /\ loading' # "no"
    BY Zenon, <2>5, VisibleTablesNext
  <2>6. CASE EndLoad
    <3>1. loading # "no" /\ loading \in {"no", "start", "import"}
      BY Zenon, <2>6, EndLoadOK DEF IInv, ControlOK
    <3>2. loading = "start" \/ loading = "import"
      BY Zenon, <3>1
    <3> QED BY Zenon, <2>6, <3>2, ImportEnds, StartEnds
  <2>7. CASE \E t \in Tables : StoreNow(t)
    BY Zenon, <2>7, SaveStep
  <2> QED BY Zenon, <2>1, <2>2, <2>3, <2>4, <2>5, <2>6, <2>7
<1>2. CASE UNCHANGED vars
  BY Zenon, <1>2 DEF vars, loadVars, Visible, AllRows, Rows
<1> QED BY Zenon, <1>1, <1>2

(* Every behaviour of the store, with its maps, indexes, deferred windows, partial writes, loads and
   crashes, is one of the four tables of FileTables: JsonDb's operations, the snapshot import and the
   load of the files do to the records what FileTables says and nothing else. *)
THEOREM StoreRefines == Spec => StoreRefinesTables
<1>1. ASSUME Init PROVE Abstract!Init
  BY Zenon, <1>1, AbstractInit
<1>2. ASSUME IInv, [Next]_vars PROVE [Abstract!Next]_<<Visible, disk>>
  BY Zenon, <1>2, AbstractStep
<1> QED BY <1>1, <1>2, IInvAlways, PTL DEF Spec, StoreRefinesTables, Abstract!Spec
=============================================================================
