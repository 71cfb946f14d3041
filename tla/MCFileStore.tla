----------------------------- MODULE MCFileStore -----------------------------
EXTENDS FileStore, FiniteSets

(***************************************************************************)
(* The store with its crashes, concurrent writers of the files, and the    *)
(* choice of a host, each in behaviours of its own: plan says which.       *)
(***************************************************************************)
VARIABLES plan,
  mem, file, pc, table, record, own, windows, writes, copy, lock, open, marks, changes, acked, failed,
  use, hosts, domain, path, scheme, exclude, left, best, over

persistVars == <<mem, file, pc, table, record, own, windows, writes, copy, lock, open, marks, changes, acked, failed>>
routeVars == <<use, hosts, domain, path, scheme, exclude, left, best, over>>

U(i, n) == [id |-> i, name |-> n, platform |-> None, birth |-> 0, noStore |-> FALSE]
C(i, k) == [id |-> i, key |-> k, owner |-> 0, ownerBirth |-> 0, managers |-> {}, noStore |-> FALSE]
T(i, c, p) == [id |-> i, client |-> c, password |-> p, noStore |-> FALSE]
H(i, c, n, sc) == [id |-> i, client |-> c, name |-> n, scheme |-> sc, noStore |-> FALSE]

(* Configurations with repeated ids, repeated keys, lost clients and shadowed hosts. *)
SomeSnapshots ==
  {[users |-> us, clients |-> cs, tasks |-> ts, hosts |-> hs] :
     us \in {<<>>, <<U(1, "a"), U(2, "a"), U(1, "b")>>},
     cs \in {<<C(1, "k"), C(2, "l")>>, <<[C(1, "k") EXCEPT !.owner = 1], C(2, "k")>>, <<C(2, "k"), C(2, "l")>>},
     ts \in {<<T(1, 1, "p"), T(2, 2, "p")>>, <<T(1, 2, "p"), T(1, 1, None)>>},
     hs \in {<<H(1, 1, "x", "all"), H(2, 1, "x", "http")>>, <<H(1, 2, "x", "http"), H(2, 1, "x", "all")>>}}

SomeStarts ==
  {[users |-> {U(1, "a")}, clients |-> {[C(1, "k") EXCEPT !.owner = 1]}, tasks |-> {T(1, 1, "p")},
    hosts |-> {H(1, 1, "x", "http")}]}

Com == <<"com">>
Ex == <<"com", "ex">>
A == <<"com", "ex", "a">>
Foo == <<"com", "fooex">>

MCLabelLength == [l \in {"com", "ex", "a", "fooex"} |-> CASE l = "com" -> 3 [] l = "ex" -> 2 [] l = "a" -> 1 [] l = "fooex" -> 5]
MCEndsIn == {<<"com", "com">>, <<"ex", "ex">>, <<"a", "a">>, <<"fooex", "fooex">>, <<"fooex", "ex">>}

Host(i, s) == [id |-> i, labels |-> s[1], wild |-> s[2], location |-> s[3], scheme |-> s[4], closed |-> s[5][1], cert |-> s[5][2]]
Wilds == {"exact", "dot", "bare"}
Shapes == {Ex, A} \X Wilds \X {<<>>, <<"v">>} \X {"all", "http"} \X {<<FALSE, FALSE>>, <<FALSE, TRUE>>, <<TRUE, TRUE>>}
Plain == {Ex, A} \X Wilds \X {<<>>, <<"v">>} \X {"all"} \X {<<FALSE, TRUE>>}

(* Two hosts that differ in everything, three that differ in name and location. *)
MCHostSets ==
  {{Host(1, s), Host(2, t)} : s \in Shapes, t \in Shapes}
  \union {{Host(1, s), Host(2, t), Host(3, u)} : s \in Plain, t \in Plain, u \in Plain}
MCDomains == {Com, Ex, A, Foo}
MCPaths == {<<>>, <<"v">>, <<"v", "w">>}

CONSTANTS Goroutines, Records, MaxChanges
MCOrder == <<"users", "clients">>
P == INSTANCE FilePersist WITH disk <- file, depth <- open, dirty <- marks, Order <- MCOrder, MaxDepth <- 1
R == INSTANCE HostRouting WITH HostSets <- MCHostSets, Domains <- MCDomains, Paths <- MCPaths,
                               LabelLength <- MCLabelLength, EndsIn <- MCEndsIn

Off == "off"
PersistOff ==
  /\ mem = Off /\ file = Off /\ pc = Off /\ table = Off /\ record = Off /\ own = Off /\ windows = Off /\ writes = Off
  /\ copy = Off /\ lock = Off /\ open = Off /\ marks = Off /\ changes = Off /\ acked = Off /\ failed = Off
RouteOff ==
  /\ use = Off /\ hosts = Off /\ domain = Off /\ path = Off /\ scheme = Off /\ exclude = Off
  /\ left = Off /\ best = Off /\ over = Off

Stores == {"users", "tasks", "hosts", "import"}
MCInit ==
  /\ Init
  /\ \/ plan \in Stores /\ PersistOff /\ RouteOff
     \/ plan = "persist" /\ P!Init /\ RouteOff
     \/ plan = "route" /\ R!Init /\ PersistOff

StoreNext ==
  \/ plan = "users" /\ (UserSteps \/ ClientSteps)
  \/ plan = "tasks" /\ TaskSteps
  \/ plan = "hosts" /\ HostSteps
  \/ plan \in {"tasks", "hosts"}
     /\ \/ \E k \in Keys, ns \in BOOLEAN : NewClient(k, 0, {}, ns)
        \/ \E i \in DOMAIN db.clients.rows : DelClient(i)
  \/ plan = "import" /\ (ImportSteps \/ UserSteps)
  \/ FileSteps \/ LoadSteps

MCNext ==
  \/ plan \in Stores /\ StoreNext /\ UNCHANGED <<plan, persistVars, routeVars>>
  \/ plan = "persist" /\ P!Next /\ UNCHANGED <<plan, vars, routeVars>>
  \/ plan = "route" /\ R!Next /\ UNCHANGED <<plan, vars, persistVars>>

MCSpec == MCInit /\ [][MCNext]_<<vars, plan, persistVars, routeVars>>

(* A change that is done is on disk: when no write is due every file holds its table (FileStore), and a *)
(* change that is acknowledged is in the file, failing or to be written (FilePersist). *)
ChangesDurable == QuiescentIsDurable /\ (plan = "persist" => P!AckedIsDurable)
(* The property of HostRouting: no fitting host beats the one chosen, in whatever order they come. *)
SelectionIsBest == plan = "route" => R!SelectionIsBest
=============================================================================
