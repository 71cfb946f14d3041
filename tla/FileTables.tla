----------------------------- MODULE FileTables -----------------------------
(***************************************************************************)
(* What the configuration store promises, without indexes, counters or     *)
(* pending writes: four tables of records in memory and their copies on    *)
(* disk.  A change leaves the tables consistent; a copy is only ever       *)
(* replaced by the whole of its table; a restart brings back what the      *)
(* copies hold, save the records whose client is gone and the hosts a more *)
(* general host of the same route shadows.                                 *)
(***************************************************************************)
EXTENDS Integers

CONSTANT Snapshots   \* the configurations an import may bring, as tables

VARIABLES mem, disk

Tables == {"users", "clients", "tasks", "hosts"}

Ids(rs) == {r.id : r \in rs}

(* Two records of table t that cannot both stand in it. *)
Clash(t, r, s) ==
  \/ r.id = s.id
  \/ t = "users" /\ (r.name = s.name \/ (r.platform = s.platform /\ r.platform # "none"))
  \/ t = "clients" /\ r.key = s.key
  \/ t = "tasks" /\ r.password = s.password /\ r.password # "none"

(* Host g covers host h: h may not be added beside g. *)
Covers(g, h) == g.id # h.id /\ g.name = h.name /\ g.scheme \in {"all", h.scheme}

Consistent(m) ==
  /\ \A t \in Tables : \A r, s \in m[t] : Clash(t, r, s) => r = s
  /\ \A g, h \in m.hosts : ~ (Covers(g, h) /\ Covers(h, g))
  /\ \A r \in m.tasks \union m.hosts : r.client \in Ids(m.clients)

Lasting(rs) == {r \in rs : ~ r.noStore}

Init == Consistent(mem) /\ disk = [t \in Tables |-> Lasting(mem[t])]

(* One record of one table is added, replaced or removed. *)
ChangeOne ==
  \E t \in Tables : \E i \in Ids(mem[t]) \union Ids(mem'[t]) :
    /\ {r \in mem'[t] : r.id # i} = {r \in mem[t] : r.id # i}
    /\ \A o \in Tables \ {t} : mem'[o] = mem[o]

(* A user leaves, and every client forgets the user as owner and manager. *)
DropUser ==
  \E u \in mem.users :
    /\ mem'.users = mem.users \ {u}
    /\ Ids(mem'.clients) = Ids(mem.clients)
    /\ \A c \in mem'.clients : c.owner # u.id /\ u.id \notin c.managers
    /\ \A c \in mem.clients : c.owner # u.id /\ u.id \notin c.managers => c \in mem'.clients
    /\ mem'.tasks = mem.tasks /\ mem'.hosts = mem.hosts

Change == (ChangeOne \/ DropUser) /\ Consistent(mem') /\ UNCHANGED disk

(* A whole configuration, or the one exported before, replaces the tables; a record of it is left out
   only when another one of it stands in its way or its client does not stand. *)
Replace ==
  \E s \in Snapshots \union {mem} : \A t \in Tables :
    /\ mem'[t] \subseteq s[t]
    /\ \A r \in s[t] \ mem'[t] :
         \/ \E o \in s[t] \ {r} : Clash(t, r, o) \/ (t = "hosts" /\ Covers(o, r))
         \/ t \in {"tasks", "hosts"} /\ r.client \notin Ids(mem'.clients)
Import == Replace /\ Consistent(mem') /\ UNCHANGED disk

Save == UNCHANGED mem /\ \E t \in Tables : disk' = [disk EXCEPT ![t] = Lasting(mem[t])]

Attached(rs) == {r \in rs : r.client \in Ids(disk.clients)}

Recover ==
  /\ UNCHANGED disk
  /\ mem'.users = disk.users /\ mem'.clients = disk.clients
  /\ mem'.tasks = Attached(disk.tasks)
  /\ mem'.hosts \subseteq Attached(disk.hosts)
  /\ \A h \in Attached(disk.hosts) \ mem'.hosts : \E g \in mem'.hosts : Covers(g, h)
  /\ Consistent(mem')

Next == Change \/ Import \/ Save \/ Recover

Spec == Init /\ [][Next]_<<mem, disk>>
=============================================================================
