----------------------------- MODULE FilePersist -----------------------------
(***************************************************************************)
(* lib/file/jsondb.go: concurrent operations of the store writing their    *)
(* tables' files.  An operation changes a record in memory and then asks   *)
(* for its table's file to be written.  A window of deferred persistence,  *)
(* opened by any goroutine, turns the requests of all of them into a mark; *)
(* the last window to close writes the marked tables.  A writer holds the  *)
(* table's lock while it copies the map record by record and renames the   *)
(* copy over the file; an error of the write is logged and the operation   *)
(* still succeeds.  A record is the number of its last change.             *)
(***************************************************************************)
EXTENDS Integers, Sequences

CONSTANTS Goroutines,
          Order,        \* the tables, in the order in which a flush writes them
          Records, MaxChanges, MaxDepth

VARIABLES mem, disk,   \* [table -> [record -> change]]
          pc, table, record, own,   \* own: the number of the operation's change
          windows, writes, copy, lock, depth, dirty, changes,
          acked,       \* history: the last acknowledged change of a record
          failed       \* history: tables whose last write failed

vars == <<mem, disk, pc, table, record, own, windows, writes, copy, lock, depth, dirty, changes, acked, failed>>
files == <<disk, lock, failed>>

Tables == {Order[i] : i \in 1..Len(Order)}
Free == "free"
AnyTable == CHOOSE t \in Tables : TRUE
AnyRecord == CHOOSE r \in Records : TRUE
Zero == [t \in Tables |-> [r \in Records |-> 0]]
NoCopy == [r \in {} |-> 0]

Init ==
  /\ mem = Zero /\ disk = Zero /\ acked = Zero /\ failed = {}
  /\ pc = [g \in Goroutines |-> "idle"]
  /\ table = [g \in Goroutines |-> AnyTable] /\ record = [g \in Goroutines |-> AnyRecord]
  /\ own = [g \in Goroutines |-> 0]
  /\ windows = [g \in Goroutines |-> 0]
  /\ writes = [g \in Goroutines |-> <<>>] /\ copy = [g \in Goroutines |-> NoCopy]
  /\ lock = [t \in Tables |-> Free] /\ depth = 0 /\ dirty = {} /\ changes = 0

beginDeferredPersistence(g) ==
  /\ pc[g] = "idle" /\ windows[g] < MaxDepth /\ changes < MaxChanges
  /\ windows' = [windows EXCEPT ![g] = @ + 1] /\ depth' = depth + 1
  /\ UNCHANGED <<mem, pc, table, record, own, writes, copy, dirty, changes, acked, files>>

(* An operation stores its record in the map. *)
Mutate(g, t, r) ==
  /\ pc[g] = "idle" /\ changes < MaxChanges
  /\ changes' = changes + 1 /\ mem' = [mem EXCEPT ![t][r] = changes + 1]
  /\ table' = [table EXCEPT ![g] = t] /\ record' = [record EXCEPT ![g] = r]
  /\ own' = [own EXCEPT ![g] = changes + 1]
  /\ pc' = [pc EXCEPT ![g] = "store"]
  /\ UNCHANGED <<windows, writes, copy, depth, dirty, acked, files>>

(* The operation returns: its change counts as made. *)
Acknowledged(g) ==
  [acked EXCEPT ![table[g]][record[g]] = IF own[g] > @ THEN own[g] ELSE @]

deferStore(g) ==
  /\ pc[g] = "store"
  /\ IF depth = 0
       THEN /\ writes' = [writes EXCEPT ![g] = <<table[g]>>] /\ pc' = [pc EXCEPT ![g] = "lock"]
            /\ UNCHANGED <<dirty, acked>>
       ELSE /\ dirty' = dirty \union {table[g]} /\ pc' = [pc EXCEPT ![g] = "idle"]
            /\ acked' = Acknowledged(g) /\ UNCHANGED writes
  /\ UNCHANGED <<mem, table, record, own, windows, copy, depth, changes, files>>

(* Closing a window: the last one takes the marks and writes their tables in order. *)
releaseDeferredStoreMask(g) ==
  /\ pc[g] = "idle" /\ windows[g] > 0
  /\ windows' = [windows EXCEPT ![g] = @ - 1] /\ depth' = depth - 1
  /\ IF depth = 1 /\ dirty # {}
       THEN /\ writes' = [writes EXCEPT ![g] = SelectSeq(Order, LAMBDA t : t \in dirty)]
            /\ dirty' = {} /\ pc' = [pc EXCEPT ![g] = "lock"]
       ELSE UNCHANGED <<writes, dirty, pc>>
  /\ UNCHANGED <<mem, table, record, own, copy, changes, acked, files>>

(* Mutant: two writers of a table at once. *)
LockIgnored(g) ==
  /\ pc[g] = "lock"
  /\ copy' = [copy EXCEPT ![g] = NoCopy]
  /\ pc' = [pc EXCEPT ![g] = "copy"]
  /\ UNCHANGED <<mem, disk, lock, failed, table, record, own, windows, writes, depth, dirty, changes, acked>>
Lock(g) ==
  /\ pc[g] = "lock" /\ lock[Head(writes[g])] = Free
  /\ lock' = [lock EXCEPT ![Head(writes[g])] = g]
  /\ copy' = [copy EXCEPT ![g] = NoCopy]
  /\ pc' = [pc EXCEPT ![g] = "copy"]
  /\ UNCHANGED <<mem, disk, failed, table, record, own, windows, writes, depth, dirty, changes, acked>>

(* sync.Map.Range gives each record as it is when it is reached. *)
CopyRecord(g) ==
  /\ pc[g] = "copy"
  /\ \E r \in Records \ DOMAIN copy[g] :
       copy' = [copy EXCEPT ![g] = [x \in DOMAIN @ \union {r} |-> IF x = r THEN mem[Head(writes[g])][r] ELSE @[x]]]
  /\ UNCHANGED <<mem, pc, table, record, own, windows, writes, depth, dirty, changes, acked, files>>

(* Unlock; go on with the next table of a flush, or return. *)
Finish(g) ==
  /\ lock' = [lock EXCEPT ![Head(writes[g])] = Free]
  /\ writes' = [writes EXCEPT ![g] = Tail(@)]
  /\ pc' = [pc EXCEPT ![g] = IF Len(writes[g]) > 1 THEN "lock" ELSE "idle"]
  /\ acked' = IF writes[g] = <<table[g]>> THEN Acknowledged(g) ELSE acked
  /\ copy' = [copy EXCEPT ![g] = NoCopy]
  /\ UNCHANGED <<mem, table, record, own, windows, depth, dirty, changes>>

Rename(g) ==
  /\ pc[g] = "copy" /\ DOMAIN copy[g] = Records
  /\ disk' = [disk EXCEPT ![Head(writes[g])] = copy[g]]
  /\ failed' = failed \ {Head(writes[g])}
  /\ Finish(g)

(* Creating, writing, syncing or renaming the temporary file fails: the old file stays. *)
WriteFails(g) ==
  /\ pc[g] = "copy"
  /\ failed' = failed \union {Head(writes[g])}
  /\ Finish(g) /\ UNCHANGED disk

(* The process ends; the next one starts from the files. *)
Crash ==
  /\ changes < MaxChanges
  /\ mem' = disk /\ acked' = disk
  /\ failed' = {} /\ lock' = [t \in Tables |-> Free] /\ depth' = 0 /\ dirty' = {}
  /\ pc' = [g \in Goroutines |-> "idle"]
  /\ table' = [g \in Goroutines |-> AnyTable] /\ record' = [g \in Goroutines |-> AnyRecord]
  /\ own' = [g \in Goroutines |-> 0]
  /\ windows' = [g \in Goroutines |-> 0]
  /\ writes' = [g \in Goroutines |-> <<>>] /\ copy' = [g \in Goroutines |-> NoCopy]
  /\ UNCHANGED <<disk, changes>>

(* The bound on changes is reached and nothing is under way. *)
Rest ==
  /\ changes = MaxChanges /\ depth = 0 /\ \A g \in Goroutines : pc[g] = "idle"
  /\ UNCHANGED vars

Next ==
  \/ \E g \in Goroutines :
       \/ beginDeferredPersistence(g) \/ deferStore(g) \/ releaseDeferredStoreMask(g)
       \/ Lock(g) \/ CopyRecord(g) \/ Rename(g) \/ WriteFails(g)
       \/ \E t \in Tables, r \in Records : Mutate(g, t, r)
  \/ Crash \/ Rest

Spec == Init /\ [][Next]_vars

-----------------------------------------------------------------------------
(* g will still write what record r of table t is now. *)
WillWrite(g, t, r) ==
  /\ t \in {writes[g][i] : i \in 1..Len(writes[g])}
  /\ pc[g] = "copy" /\ t = Head(writes[g]) /\ r \in DOMAIN copy[g] => copy[g][r] >= acked[t][r]

(* A change an operation has answered for is in the file, unless the write failed: at once, or, if
   a window of any goroutine was open, when the last window has closed and its tables are written. *)
AckedIsDurable ==
  \A t \in Tables, r \in Records :
    \/ disk[t][r] >= acked[t][r]
    \/ t \in failed
    \/ t \in dirty /\ depth > 0
    \/ \E g \in Goroutines : WillWrite(g, t, r)
=============================================================================
