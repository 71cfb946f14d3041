----------------------------- MODULE NodeRequests -----------------------------
(***************************************************************************)
(* Write requests to a node that carry one idempotency key, or none        *)
(* (web/routers/node_idempotency.go), over HTTP or a WebSocket, and the    *)
(* configuration import they may ask for (web/routers/node_ws_dispatch.go).*)
(* The first request runs the handler; the others wait for its answer,     *)
(* time out, or get it again.  Entries expire, an import resets the store, *)
(* the process restarts.                                                   *)
(*                                                                         *)
(* A waiter holds the "ready" channel of the entry it met, named by the    *)
(* request that made it.  "ran" and "excuse" are history: the executions   *)
(* that answered below 500, and why one answer may not be enough.          *)
(***************************************************************************)
EXTENDS Integers, FiniteSets, FiniteSetTheorems, TLAPS

CONSTANTS
  Requests,   \* requests of the same actor, method and path
  Plans       \* what each asks for [kind, key, body, hang] and bounds on faults

VARIABLES
  plan,      \* rigid: ask (per request), faults
  req,       \* step, entry waited for, answer
  entry,     \* nodeIdempotencyStore.entries of the key
  released,  \* entries whose ready channel is closed
  snap,      \* persisted state taken by a request and not stored yet
  disk,      \* the stored state
  cfg,       \* the configuration store: 0, or the import it comes from
  runtime,   \* configurations whose tasks run
  ran,
  excuse,
  faults

vars == <<plan, req, entry, released, snap, disk, cfg, runtime, ran, excuse, faults>>

None == [none |-> TRUE]
Cached(o, body) == [owner |-> o, body |-> body, ready |-> TRUE]
InFlight(o, body) == [owner |-> o, body |-> body, ready |-> FALSE]
New == [pc |-> "new", wait |-> 0, from |-> 0, saved |-> 0]
Ask(r) == plan.ask[r]
Fault == faults < plan.faults /\ faults' = faults + 1
To(r, pc) == req' = [req EXCEPT ![r].pc = pc]

\* releaseNodeIdempotencyEntry
Released(e) == IF e = None \/ e.ready THEN released ELSE released \cup {e.owner}
\* snapshotPersistedEntries: only answered entries.
Persisted(e) == IF e # None /\ e.ready THEN e ELSE None

-----------------------------------------------------------------------------
(* acquireContext; a request without a key runs at once.                   *)

\* A request in flight does not hold others back; the body is not compared.
AcquireAtOnce(r) ==
  /\ req[r].pc \in {"new", "again"} /\ Ask(r).kind # "none"
  /\ IF Ask(r).key /\ entry # None /\ entry.ready
     THEN req' = [req EXCEPT ![r].pc = "replayed", ![r].from = entry.owner] /\ UNCHANGED <<entry, released>>
     ELSE To(r, "run") /\ entry' = InFlight(r, Ask(r).body) /\ released' = released
  /\ UNCHANGED <<plan, snap, disk, cfg, runtime, ran, excuse, faults>>

Acquire(r) ==
  /\ req[r].pc \in {"new", "again"} /\ Ask(r).kind # "none"
  /\ CASE ~Ask(r).key -> To(r, "run") /\ UNCHANGED <<entry, released>>
       [] Ask(r).key /\ entry = None ->
            /\ entry' = InFlight(r, Ask(r).body)
            /\ released' = released \ {r}
            /\ To(r, "run")
       [] Ask(r).key /\ entry # None /\ entry.body # Ask(r).body -> To(r, "conflict") /\ UNCHANGED <<entry, released>>
       [] Ask(r).key /\ entry # None /\ entry.body = Ask(r).body /\ entry.ready ->
            req' = [req EXCEPT ![r].pc = "replayed", ![r].from = entry.owner] /\ UNCHANGED <<entry, released>>
       [] Ask(r).key /\ entry # None /\ entry.body = Ask(r).body /\ ~entry.ready ->
            req' = [req EXCEPT ![r].pc = "wait", ![r].wait = entry.owner] /\ UNCHANGED <<entry, released>>
  /\ UNCHANGED <<plan, snap, disk, cfg, runtime, ran, excuse, faults>>

\* waitNodeIdempotencyReady: the channel is closed, the caller gives up, or
\* the time is over and the entry, if it still is the same, is dropped.
Woken(r) ==
  /\ req[r].pc = "wait" /\ req[r].wait \in released
  /\ To(r, "again")
  /\ UNCHANGED <<plan, entry, released, snap, disk, cfg, runtime, ran, excuse, faults>>

GiveUp(r) ==
  /\ req[r].pc = "wait" /\ Fault
  /\ To(r, "canceled")
  /\ UNCHANGED <<plan, entry, released, snap, disk, cfg, runtime, ran, excuse>>

SameInFlight(r) == entry # None /\ ~entry.ready /\ entry.owner = req[r].wait

TimeOut(r) ==
  /\ req[r].pc = "wait"
  /\ To(r, "again")
  /\ IF SameInFlight(r)
     THEN /\ released' = Released(entry)
          /\ entry' = None
          /\ snap' = [snap EXCEPT ![r] = [taken |-> Persisted(None)]]
          /\ excuse' = excuse \cup {"timeout"}
     ELSE UNCHANGED <<entry, released, snap, excuse>>
  /\ UNCHANGED <<plan, disk, cfg, runtime, ran, faults>>

\* gcLocked: the TTL of an answered entry is over.
Expire ==
  /\ entry # None /\ entry.ready /\ Fault
  /\ entry' = None
  /\ excuse' = excuse \cup {"expired"}
  /\ UNCHANGED <<plan, req, released, snap, disk, cfg, runtime, ran>>

-----------------------------------------------------------------------------
(* The handler and the completion.                                         *)

\* A plain write: one effect, answered below 500, or an error of the server;
\* a handler that panics leaves the entry as it is.
Write(r, how) ==
  /\ req[r].pc = "run" /\ Ask(r).kind = "write"
  /\ how = "panics" => Ask(r).hang
  /\ how # "ok" => Fault
  /\ how = "ok" => faults' = faults
  /\ To(r, CASE how = "ok" -> "complete" [] how = "error" -> "discard" [] how = "panics" -> "died")
  /\ ran' = IF how = "ok" THEN ran \cup {r} ELSE ran
  /\ excuse' = IF how = "error" THEN excuse \cup {"error"} ELSE excuse
  /\ UNCHANGED <<plan, entry, released, snap, disk, cfg, runtime>>

\* completeHTTP, completeWS: only the current entry is completed; an answer
\* of 500 and above is not kept.
Complete(r) ==
  /\ req[r].pc \in {"complete", "discard"}
  /\ To(r, "done")
  /\ IF entry # None /\ entry.owner = r /\ ~entry.ready
     THEN LET e == IF req[r].pc = "complete" THEN Cached(r, entry.body) ELSE None
          IN  /\ released' = Released(entry)
              /\ entry' = e
              /\ snap' = [snap EXCEPT ![r] = [taken |-> Persisted(e)]]
     ELSE UNCHANGED <<entry, released, snap>>
  /\ UNCHANGED <<plan, disk, cfg, runtime, ran, excuse, faults>>

\* persist hands the snapshot to the writer after the lock is released: an
\* older one may arrive last.
Store(r) ==
  /\ snap[r] # None
  /\ snap' = [snap EXCEPT ![r] = None]
  /\ disk' = snap[r].taken
  /\ excuse' = IF snap[r].taken # Persisted(entry) THEN excuse \cup {"stale"} ELSE excuse
  /\ UNCHANGED <<plan, req, entry, released, cfg, runtime, ran, faults>>

-----------------------------------------------------------------------------
(* executeNodeConfigImport: keep what is there, stop the tasks, replace and *)
(* flush the store; on an error put back what was there; start the tasks.  *)

ImportBegins(r) ==
  /\ req[r].pc = "run" /\ Ask(r).kind = "import"
  /\ req' = [req EXCEPT ![r].pc = "stop", ![r].saved = cfg]
  /\ UNCHANGED <<plan, entry, released, snap, disk, cfg, runtime, ran, excuse, faults>>

ImportStops(r) ==
  /\ req[r].pc = "stop"
  /\ To(r, "replace")
  /\ runtime' = {}
  /\ UNCHANGED <<plan, entry, released, snap, disk, cfg, ran, excuse, faults>>

ImportReplaces(r) ==
  /\ req[r].pc = "replace"
  /\ \/ To(r, "reset") /\ cfg' = r /\ faults' = faults
     \/ Fault /\ To(r, "rollback") /\ cfg' \in {cfg, r}
  /\ UNCHANGED <<plan, entry, released, snap, disk, runtime, ran, excuse>>

ImportRollsBack(r) ==
  /\ req[r].pc = "rollback"
  /\ To(r, "restart")
  /\ cfg' = req[r].saved
  /\ excuse' = excuse \cup {"error"}
  /\ UNCHANGED <<plan, entry, released, snap, disk, runtime, ran, faults>>

\* ResetProtocolState: every entry is released and forgotten, its own too.
ImportResets(r) ==
  /\ req[r].pc = "reset"
  /\ To(r, "start")
  /\ released' = Released(entry)
  /\ entry' = None
  /\ snap' = [snap EXCEPT ![r] = [taken |-> None]]
  /\ excuse' = excuse \cup {"reset"}
  /\ UNCHANGED <<plan, disk, cfg, runtime, ran, faults>>

ImportStarts(r) ==
  /\ req[r].pc \in {"start", "restart"}
  /\ To(r, IF req[r].pc = "start" THEN "complete" ELSE "discard")
  /\ runtime' = runtime \cup {cfg}
  /\ ran' = IF req[r].pc = "start" THEN ran \cup {r} ELSE ran
  /\ UNCHANGED <<plan, entry, released, snap, disk, cfg, excuse, faults>>

-----------------------------------------------------------------------------
\* Close, and load in the next process: requests under way are lost, only
\* stored answers come back; the tasks of the store are started.
Restart ==
  /\ Fault
  /\ entry' = disk
  /\ released' = {}
  /\ snap' = [r \in Requests |-> None]
  /\ req' = [r \in Requests |-> IF req[r].pc \in {"new", "replayed", "conflict", "canceled", "done"} THEN req[r]
                                ELSE [req[r] EXCEPT !.pc = "lost"]]
  /\ runtime' = {cfg}
  /\ excuse' = IF disk # Persisted(entry) \/ \E r \in Requests : req[r].pc \notin {"new", "replayed", "conflict", "canceled", "done"}
               THEN excuse \cup {"restart"} ELSE excuse
  /\ UNCHANGED <<plan, disk, cfg, ran>>

Init ==
  /\ plan \in Plans
  /\ req = [r \in Requests |-> New]
  /\ entry = None /\ released = {}
  /\ snap = [r \in Requests |-> None] /\ disk = None
  /\ cfg = 0 /\ runtime = {0}
  /\ ran = {} /\ excuse = {} /\ faults = 0

Step(r) ==
  \/ Woken(r) \/ TimeOut(r) \/ (req[r].pc = "again" /\ Acquire(r))
  \/ (\E how \in {"ok", "error", "panics"} : Write(r, how))
  \/ Complete(r) \/ Store(r)
  \/ ImportBegins(r) \/ ImportStops(r) \/ ImportReplaces(r) \/ ImportRollsBack(r) \/ ImportResets(r) \/ ImportStarts(r)

Next == (\E r \in Requests : Acquire(r) \/ Step(r) \/ GiveUp(r)) \/ Expire \/ Restart

\* A request that was taken up is served on; a waiting one times out.
Fairness == \A r \in Requests : WF_vars(Step(r))
Spec == Init /\ [][Next]_vars /\ Fairness

-----------------------------------------------------------------------------
Running(r) == req[r].pc \in {"run", "complete", "discard", "died", "stop", "replace", "rollback", "reset", "start", "restart"}

\* One key, one execution: unless a wait timed out, the entry expired, an
\* import reset the store, the answer was 500 or above, or the process was
\* restarted without it, only one request runs the handler and only one
\* takes effect (acquireContext, complete, expireInflightEntry).
OneExecution ==
  /\ excuse = {} => Cardinality({r \in Requests : Ask(r).key /\ (Running(r) \/ r \in ran)}) <= 1
  /\ excuse \subseteq {"expired", "error"} => Cardinality({r \in Requests : Ask(r).key /\ Running(r)}) <= 1

\* An answer given again is the answer to the same request: it was produced
\* by an execution with the same body that took effect, whatever expired,
\* was reset or reloaded in between.
ReplayIsReal == \A r \in Requests : req[r].pc = "replayed" => req[r].from \in ran /\ Ask(req[r].from).body = Ask(r).body

-----------------------------------------------------------------------------
(* The proof of OneExecution and ReplayIsReal, for any number of requests. *)
(* The request that runs under the key is the one the entry is in flight   *)
(* for, as long as nothing has taken the entry away from it; what is kept, *)
(* on its way to the disk or stored, is an answer some execution gave.     *)
Steps ==
  {"new", "again", "wait", "run", "complete", "discard", "died", "stop", "replace", "rollback", "reset", "start",
   "restart", "replayed", "conflict", "canceled", "done", "lost"}
Names == Requests \cup {0}
TypeOK ==
  /\ req \in [Requests -> [pc : Steps, wait : Names, from : Names, saved : Names]]
  /\ cfg \in Names
  /\ snap = [r \in Requests |-> snap[r]]

\* Answers that were given, and entries: those, or one that waits for its answer.
Stored(e) == e = None \/ \E o \in ran : o \in Requests /\ Ask(o).key /\ e = Cached(o, Ask(o).body)
Real(e) == Stored(e) \/ \E o \in Requests : Ask(o).key /\ e = InFlight(o, Ask(o).body)

KeptIsReal ==
  /\ Real(entry) /\ Stored(disk)
  /\ \A r \in Requests : snap[r] = None \/ \E e \in {snap[r].taken} : snap[r] = [taken |-> e] /\ Stored(e)
Answered ==
  \A r \in Requests : /\ req[r].pc = "complete" => r \in ran
                      /\ req[r].pc \in {"discard", "restart"} => "error" \in excuse
                      /\ req[r].pc \in {"start"} => "reset" \in excuse
RunsAlone ==
  excuse \subseteq {"expired", "error"} =>
    \A r \in Requests : Ask(r).key /\ Running(r) => entry = InFlight(r, Ask(r).body)
RanIsKept ==
  excuse = {} => \A r \in Requests : Ask(r).key /\ r \in ran /\ ~Running(r) => entry = Cached(r, Ask(r).body)

IInv == TypeOK /\ KeptIsReal /\ Answered /\ RunsAlone /\ RanIsKept /\ ReplayIsReal

\* The parts of an entry, by which its forms differ.
LEMMA Forms ==
  ASSUME NEW o, NEW b
  PROVE  /\ InFlight(o, b) # None /\ InFlight(o, b).owner = o /\ InFlight(o, b).body = b /\ ~InFlight(o, b).ready
         /\ Cached(o, b) # None /\ Cached(o, b).owner = o /\ Cached(o, b).body = b /\ Cached(o, b).ready
BY DEF InFlight, Cached, None

\* An entry is none, an answer, or in flight.
LEMMA EntryForms ==
  ASSUME IInv, entry # None
  PROVE  /\ entry.owner \in Requests /\ Ask(entry.owner).key /\ entry.body = Ask(entry.owner).body
         /\ entry.ready => entry.owner \in ran /\ entry = Cached(entry.owner, entry.body)
         /\ ~entry.ready => entry = InFlight(entry.owner, entry.body)
BY Forms DEF IInv, KeptIsReal, Real, Stored

\* What a move of a request changes.
LEMMA Moved ==
  ASSUME TypeOK, NEW r \in Requests, NEW p \in Steps, To(r, p)
  PROVE  /\ req' \in [Requests -> [pc : Steps, wait : Names, from : Names, saved : Names]]
         /\ req'[r].pc = p /\ req'[r].from = req[r].from
         /\ \A q \in Requests : q # r => req'[q] = req[q]
<1>1. [req[r] EXCEPT !.pc = p] \in [pc : Steps, wait : Names, from : Names, saved : Names]
  BY DEF TypeOK
<1> QED
  BY <1>1 DEF TypeOK, To

\* A set in which any two members are one has at most one.
LEMMA AtMostOne ==
  ASSUME NEW S, \A a, b \in S : a = b
  PROVE  Cardinality(S) <= 1
<1>1. CASE S = {}
  BY <1>1, FS_EmptySet
<1>2. CASE S # {}
  <2>1. PICK a \in S : TRUE
    BY <1>2
  <2>2. S = {a}
    BY <2>1
  <2> QED
    BY <2>2, FS_Singleton
<1> QED
  BY <1>1, <1>2

\* The invariant says what was to be proved.
LEMMA InvImplies == IInv => OneExecution /\ ReplayIsReal
<1> SUFFICES ASSUME IInv PROVE OneExecution
  BY DEF IInv
<1>1. ASSUME excuse \subseteq {"expired", "error"}
      PROVE  Cardinality({r \in Requests : Ask(r).key /\ Running(r)}) <= 1
  <2>1. \A a, b \in {r \in Requests : Ask(r).key /\ Running(r)} : a = b
    BY <1>1, Forms DEF IInv, RunsAlone
  <2> QED
    BY <2>1, AtMostOne
<1>2. ASSUME excuse = {}
      PROVE  Cardinality({r \in Requests : Ask(r).key /\ (Running(r) \/ r \in ran)}) <= 1
  <2>1. \A a, b \in {r \in Requests : Ask(r).key /\ (Running(r) \/ r \in ran)} : a = b
    <3> SUFFICES ASSUME NEW a \in Requests, NEW b \in Requests, Ask(a).key, Ask(b).key,
                        Running(a) \/ a \in ran, Running(b) \/ b \in ran
                 PROVE  a = b
      OBVIOUS
    <3>1. entry = InFlight(a, Ask(a).body) \/ entry = Cached(a, Ask(a).body)
      BY <1>2 DEF IInv, RunsAlone, RanIsKept
    <3>2. entry = InFlight(b, Ask(b).body) \/ entry = Cached(b, Ask(b).body)
      BY <1>2 DEF IInv, RunsAlone, RanIsKept
    <3> QED
      BY <3>1, <3>2, Forms
  <2> QED
    BY <2>1, AtMostOne
<1> QED
  BY <1>1, <1>2 DEF OneExecution

\* Nothing has run or is kept at the start.
LEMMA InitIInv == Init => IInv
<1> SUFFICES ASSUME Init PROVE IInv
  OBVIOUS
<1>1. TypeOK
  BY DEF Init, TypeOK, New, Steps, Names
<1>2. KeptIsReal
  BY DEF Init, KeptIsReal, Real, Stored
<1>3. Answered /\ RunsAlone /\ RanIsKept /\ ReplayIsReal
  BY DEF Init, Answered, RunsAlone, RanIsKept, ReplayIsReal, Running, New
<1> QED
  BY <1>1, <1>2, <1>3 DEF IInv

\* What was stored or in flight stays so while executions are added.
LEMMA RealStays ==
  ASSUME plan' = plan, ran \subseteq ran', NEW e
  PROVE  (Stored(e) => Stored(e)') /\ (Real(e) => Real(e)')
BY DEF Stored, Real, Ask

\* A step of one request that leaves the entry and the stored answers alone.
LEMMA QuietStep ==
  ASSUME IInv, NEW r \in Requests, TypeOK', UNCHANGED <<plan, entry, snap, disk>>,
         ran \subseteq ran', ran' \subseteq ran \cup {r}, excuse \subseteq excuse',
         \A q \in Requests : q # r => req'[q] = req[q],
         Ask(r).key => (Running(r)' <=> Running(r)) /\ (r \in ran' => r \in ran \/ Running(r)),
         /\ req'[r].pc = "complete" => r \in ran'
         /\ req'[r].pc \in {"discard", "restart"} => "error" \in excuse'
         /\ req'[r].pc \in {"start"} => "reset" \in excuse',
         req'[r].pc = "replayed" => req'[r].from \in ran /\ Ask(req'[r].from).body = Ask(r).body
  PROVE  IInv'
<1>0. \A q : Ask(q)' = Ask(q)
  BY DEF Ask
<1>1. KeptIsReal'
  BY RealStays DEF IInv, KeptIsReal
<1>2. Answered'
  BY DEF IInv, Answered
<1>3. \A q \in Requests : Ask(q).key => (Running(q)' <=> Running(q))
  BY DEF Running
<1>4. RunsAlone'
  BY <1>0, <1>3 DEF IInv, RunsAlone
<1>5. RanIsKept'
  BY <1>0, <1>3 DEF IInv, RanIsKept
<1>6. ReplayIsReal'
  BY <1>0 DEF IInv, ReplayIsReal
<1> QED
  BY <1>1, <1>2, <1>4, <1>5, <1>6 DEF IInv

\* A request meets the entry: it starts it, conflicts with it, gets its answer or waits for it.
LEMMA AcquireKeeps == ASSUME IInv, NEW r \in Requests, Acquire(r) PROVE IInv'
<1>0. /\ req[r].pc \in {"new", "again"} /\ ~Running(r) /\ \A q : Ask(q)' = Ask(q)
      /\ UNCHANGED <<plan, snap, disk, cfg, ran, excuse>> /\ TypeOK
  BY DEF Acquire, Running, Ask, IInv
<1> USE DEF Steps
<1>1. CASE ~Ask(r).key
  <2>1. To(r, "run") /\ UNCHANGED entry
    BY <1>1 DEF Acquire
  <2> QED
    BY <1>0, <1>1, <2>1, Moved, QuietStep DEF TypeOK
<1>2. CASE Ask(r).key /\ entry = None
  <2>1. To(r, "run") /\ entry' = InFlight(r, Ask(r).body)
    BY <1>2 DEF Acquire
  <2>2. /\ TypeOK' /\ req'[r].pc = "run"
        /\ \A q \in Requests : q # r => req'[q] = req[q]
    BY <1>0, <2>1, Moved DEF TypeOK
  <2>3. KeptIsReal'
    <3>1. Real(entry)'
      BY <1>0, <1>2, <2>1 DEF Real
    <3> QED
      BY <1>0, <3>1, RealStays DEF IInv, KeptIsReal
  <2>4. Answered' /\ ReplayIsReal'
    BY <1>0, <2>2 DEF IInv, Answered, ReplayIsReal
  <2>5. RunsAlone'
    BY <1>0, <1>2, <2>1, <2>2, Forms DEF IInv, RunsAlone, Running
  <2>6. RanIsKept'
    BY <1>0, <1>2, <2>1, <2>2, Forms DEF IInv, RanIsKept, Running
  <2> QED
    BY <2>2, <2>3, <2>4, <2>5, <2>6 DEF IInv
<1>3. CASE Ask(r).key /\ entry # None /\ entry.body # Ask(r).body
  <2>1. To(r, "conflict") /\ UNCHANGED entry
    BY <1>3 DEF Acquire
  <2>2. /\ TypeOK' /\ req'[r].pc = "conflict"
        /\ \A q \in Requests : q # r => req'[q] = req[q]
    BY <1>0, <2>1, Moved DEF TypeOK
  <2>3. ~Running(r)'
    BY <2>2 DEF Running
  <2> QED
    BY <1>0, <2>1, <2>2, <2>3, QuietStep
<1>4. CASE Ask(r).key /\ entry # None /\ entry.body = Ask(r).body /\ entry.ready
  <2>1. req' = [req EXCEPT ![r].pc = "replayed", ![r].from = entry.owner] /\ UNCHANGED entry
    BY <1>4 DEF Acquire
  <2>2. entry.owner \in Requests /\ entry.owner \in ran /\ Ask(entry.owner).body = Ask(r).body
    BY <1>4, EntryForms
  <2>3. [req[r] EXCEPT !.pc = "replayed", !.from = entry.owner] \in [pc : Steps, wait : Names, from : Names, saved : Names]
    BY <1>0, <2>2 DEF TypeOK, Names
  <2>4. /\ TypeOK' /\ req'[r].pc = "replayed" /\ req'[r].from = entry.owner
        /\ \A q \in Requests : q # r => req'[q] = req[q]
    BY <1>0, <2>1, <2>3 DEF TypeOK
  <2>5. ~Running(r)'
    BY <2>4 DEF Running
  <2> QED
    BY <1>0, <2>1, <2>2, <2>4, <2>5, QuietStep
<1>5. CASE Ask(r).key /\ entry # None /\ entry.body = Ask(r).body /\ ~entry.ready
  <2>1. req' = [req EXCEPT ![r].pc = "wait", ![r].wait = entry.owner] /\ UNCHANGED entry
    BY <1>5 DEF Acquire
  <2>2. entry.owner \in Requests
    BY <1>5, EntryForms
  <2>3. [req[r] EXCEPT !.pc = "wait", !.wait = entry.owner] \in [pc : Steps, wait : Names, from : Names, saved : Names]
    BY <1>0, <2>2 DEF TypeOK, Names
  <2>4. /\ TypeOK' /\ req'[r].pc = "wait"
        /\ \A q \in Requests : q # r => req'[q] = req[q]
    BY <1>0, <2>1, <2>3 DEF TypeOK
  <2>5. ~Running(r)'
    BY <2>4 DEF Running
  <2> QED
    BY <1>0, <2>1, <2>4, <2>5, QuietStep
<1> QED
  BY <1>1, <1>2, <1>3, <1>4, <1>5

\* The entry is taken away: nothing holds any more but what was answered.
LEMMA DropKeeps ==
  ASSUME IInv, NEW r \in Requests, NEW p \in {"again", "start"}, NEW x \in {"timeout", "reset"},
         p = "start" => x = "reset",
         To(r, p), entry' = None, snap' = [snap EXCEPT ![r] = [taken |-> None]], excuse' = excuse \cup {x},
         UNCHANGED <<plan, disk, cfg, ran>>
  PROVE  IInv'
<1>1. /\ TypeOK' /\ req'[r].pc = p /\ \A q \in Requests : q # r => req'[q] = req[q]
  BY Moved DEF IInv, TypeOK, Steps
<1>2. KeptIsReal'
  <2>1. Stored(None)' /\ Real(None)'
    BY DEF Stored, Real
  <2>2. \A q \in Requests : snap'[q] = None \/ \E e : snap'[q] = [taken |-> e] /\ Stored(e)'
    BY <2>1, RealStays DEF IInv, KeptIsReal, TypeOK
  <2> QED
    BY <2>1, <2>2, RealStays DEF IInv, KeptIsReal
<1>3. Answered' /\ RunsAlone' /\ RanIsKept'
  BY <1>1 DEF IInv, Answered, RunsAlone, RanIsKept
<1>4. ReplayIsReal'
  BY <1>1 DEF IInv, ReplayIsReal, Ask
<1> QED
  BY <1>1, <1>2, <1>3, <1>4 DEF IInv

\* The end of a wait; when its time is over, the entry goes with it.
LEMMA WaitKeeps == ASSUME IInv, NEW r \in Requests, Woken(r) \/ GiveUp(r) \/ TimeOut(r) PROVE IInv'
<1>0. req[r].pc = "wait" /\ ~Running(r) /\ TypeOK
  BY DEF Woken, GiveUp, TimeOut, Running, IInv
<1>1. CASE TimeOut(r) /\ SameInFlight(r)
  BY <1>1, DropKeeps DEF TimeOut, Persisted
<1>2. CASE ~(TimeOut(r) /\ SameInFlight(r))
  <2>1. PICK p \in {"again", "canceled"} : To(r, p)
    BY <1>2 DEF Woken, GiveUp, TimeOut
  <2>2. UNCHANGED <<plan, entry, snap, disk, cfg, ran, excuse>>
    BY <1>2 DEF Woken, GiveUp, TimeOut
  <2>3. /\ TypeOK' /\ req'[r].pc = p /\ \A q \in Requests : q # r => req'[q] = req[q]
    BY <1>0, <2>1, <2>2, Moved DEF TypeOK, Steps
  <2>4. ~Running(r)'
    BY <2>3 DEF Running
  <2> QED
    BY <1>0, <2>2, <2>3, <2>4, QuietStep
<1> QED
  BY <1>1, <1>2

\* The handler: it runs before and after, or has given up for good.
LEMMA WriteKeeps == ASSUME IInv, NEW r \in Requests, NEW how \in {"ok", "error", "panics"}, Write(r, how) PROVE IInv'
<1>0. /\ req[r].pc = "run" /\ Running(r) /\ TypeOK /\ UNCHANGED <<plan, entry, snap, disk, cfg>>
  BY DEF Write, Running, IInv
<1>1. PICK p \in {"complete", "discard", "died"} :
        /\ To(r, p)
        /\ p = "complete" => ran' = ran \cup {r} /\ excuse' = excuse
        /\ p = "discard" => ran' = ran /\ excuse' = excuse \cup {"error"}
        /\ p = "died" => ran' = ran /\ excuse' = excuse
  BY DEF Write
<1>2. /\ TypeOK' /\ req'[r].pc = p /\ \A q \in Requests : q # r => req'[q] = req[q]
  BY <1>0, <1>1, Moved DEF TypeOK, Steps
<1>3. Running(r)'
  BY <1>2 DEF Running
<1> QED
  BY <1>0, <1>1, <1>2, <1>3, QuietStep

\* An import runs under its key like any handler, until it resets the store.
LEMMA ImportKeeps ==
  ASSUME IInv, NEW r \in Requests,
         ImportBegins(r) \/ ImportStops(r) \/ ImportReplaces(r) \/ ImportRollsBack(r) \/ ImportResets(r) \/ ImportStarts(r)
  PROVE  IInv'
<1>1. CASE ImportResets(r)
  BY <1>1, DropKeeps DEF ImportResets
<1>2. CASE ~ImportResets(r)
  <2>0. Running(r) /\ TypeOK /\ UNCHANGED <<plan, entry, snap, disk>>
    BY <1>2 DEF ImportBegins, ImportStops, ImportReplaces, ImportRollsBack, ImportStarts, Running, IInv
  <2>1. PICK p \in {"stop", "replace", "reset", "rollback", "restart", "complete", "discard"} :
          /\ req' = [req EXCEPT ![r].pc = p, ![r].saved = cfg] \/ To(r, p)
          /\ cfg' \in {cfg, r, req[r].saved}
          /\ p = "complete" => ran' = ran \cup {r} /\ excuse' = excuse
          /\ p # "complete" => ran' = ran
          /\ excuse' = excuse \/ excuse' = excuse \cup {"error"}
          /\ p \in {"restart", "discard"} => "error" \in excuse'
    <3>1. CASE ImportBegins(r)
      BY <3>1 DEF ImportBegins
    <3>2. CASE ImportStops(r)
      BY <3>2 DEF ImportStops
    <3>3. CASE ImportReplaces(r)
      BY <3>3 DEF ImportReplaces
    <3>4. CASE ImportRollsBack(r)
      BY <3>4 DEF ImportRollsBack
    <3>5. CASE ImportStarts(r)
      BY <3>5 DEF ImportStarts, IInv, Answered
    <3> QED
      BY <1>2, <3>1, <3>2, <3>3, <3>4, <3>5
  <2>2. [req[r] EXCEPT !.pc = p, !.saved = cfg] \in [pc : Steps, wait : Names, from : Names, saved : Names]
    BY <2>0 DEF TypeOK, Steps
  <2>3. /\ req' \in [Requests -> [pc : Steps, wait : Names, from : Names, saved : Names]]
        /\ req'[r].pc = p /\ \A q \in Requests : q # r => req'[q] = req[q]
    <3>1. CASE To(r, p)
      BY <2>0, <3>1, Moved DEF Steps
    <3>2. CASE req' = [req EXCEPT ![r].pc = p, ![r].saved = cfg]
      BY <2>0, <2>2, <3>2 DEF TypeOK
    <3> QED
      BY <2>1, <3>1, <3>2
  <2>4. TypeOK'
    <3>1. cfg' \in Names
      BY <2>0, <2>1 DEF TypeOK, Names
    <3> QED
      BY <2>0, <2>3, <3>1 DEF TypeOK
  <2>5. Running(r)'
    BY <2>3 DEF Running
  <2> QED
    BY <2>0, <2>1, <2>3, <2>4, <2>5, QuietStep
<1> QED
  BY <1>1, <1>2

\* An answer is kept if the entry still is the request's own.
LEMMA CompleteKeeps == ASSUME IInv, NEW r \in Requests, Complete(r) PROVE IInv'
<1> DEFINE own == entry # None /\ entry.owner = r /\ ~entry.ready
           e == IF req[r].pc = "complete" THEN Cached(r, entry.body) ELSE None
<1>0. /\ req[r].pc \in {"complete", "discard"} /\ Running(r) /\ TypeOK
      /\ UNCHANGED <<plan, disk, cfg, ran, excuse>> /\ \A q : Ask(q)' = Ask(q)
  BY DEF Complete, Running, IInv, Ask
<1>1. /\ req' \in [Requests -> [pc : Steps, wait : Names, from : Names, saved : Names]]
      /\ req'[r].pc = "done" /\ \A q \in Requests : q # r => req'[q] = req[q]
  <2>1. To(r, "done")
    BY DEF Complete
  <2> QED
    BY <1>0, <2>1, Moved DEF Steps
<1>2. /\ own => entry' = e /\ snap' = [snap EXCEPT ![r] = [taken |-> Persisted(e)]]
      /\ ~own => UNCHANGED <<entry, snap>>
  BY DEF Complete
<1>3. own => Ask(r).key /\ entry = InFlight(r, Ask(r).body) /\ entry.body = Ask(r).body
  BY EntryForms
<1>4. own => Stored(e) /\ Persisted(e) = e
  BY <1>0, <1>3, Forms DEF IInv, Answered, Stored, Persisted
<1>5. TypeOK'
  BY <1>0, <1>1, <1>2 DEF TypeOK
<1>6. Answered' /\ ReplayIsReal'
  BY <1>0, <1>1 DEF IInv, Answered, ReplayIsReal
<1>7. KeptIsReal'
  <2>1. CASE own
    <3>1. PICK c : c = e
      OBVIOUS
    <3>2. Stored(c)' /\ Real(c)'
      BY <1>0, <1>4, <2>1, <3>1, RealStays DEF Real
    <3>3. entry' = c /\ snap' = [snap EXCEPT ![r] = [taken |-> c]]
      BY <1>2, <1>4, <2>1, <3>1
    <3>4. \A q \in Requests : snap'[q] = None \/ \E d \in {snap'[q].taken} : snap'[q] = [taken |-> d] /\ Stored(d)'
      BY <1>0, <3>2, <3>3, RealStays DEF IInv, KeptIsReal, TypeOK
    <3> HIDE DEF e, own
    <3>5. Real(entry)'
      BY <3>2, <3>3 DEF Real, Stored
    <3> QED
      BY <1>0, <3>4, <3>5, RealStays DEF IInv, KeptIsReal
  <2>2. CASE ~own
    <3> HIDE DEF e, own
    <3> QED
      BY <1>0, <1>2, <2>2, RealStays DEF IInv, KeptIsReal
  <2> QED
    BY <2>1, <2>2
<1>8. \A q \in Requests : q # r => (Running(q)' <=> Running(q))
  BY <1>1 DEF Running
<1>9. ~Running(r)'
  BY <1>1 DEF Running
<1>10. RunsAlone'
  <2> SUFFICES ASSUME excuse \subseteq {"expired", "error"}, NEW q \in Requests, Ask(q).key, Running(q)'
               PROVE  entry' = InFlight(q, Ask(q).body)
    BY <1>0 DEF RunsAlone
  <2>1. q # r /\ entry = InFlight(q, Ask(q).body)
    BY <1>8, <1>9 DEF IInv, RunsAlone
  <2> QED
    BY <1>2, <2>1, Forms
<1>11. RanIsKept'
  <2> SUFFICES ASSUME excuse = {}, NEW q \in Requests, Ask(q).key, q \in ran, ~Running(q)'
               PROVE  entry' = Cached(q, Ask(q).body)
    BY <1>0 DEF RanIsKept
  <2>1. CASE q = r
    <3>1. entry = InFlight(r, Ask(r).body) /\ req[r].pc = "complete"
      BY <1>0, <2>1 DEF IInv, RunsAlone, Answered
    <3> QED
      BY <1>2, <1>3, <2>1, <3>1, Forms
  <2>2. CASE q # r
    <3>1. entry = Cached(q, Ask(q).body)
      BY <1>8, <2>2 DEF IInv, RanIsKept
    <3> QED
      BY <1>2, <3>1, Forms
  <2> QED
    BY <2>1, <2>2
<1> QED
  BY <1>5, <1>6, <1>7, <1>10, <1>11 DEF IInv

\* What reaches the disk was taken from the entry earlier.
LEMMA StoreKeeps == ASSUME IInv, NEW r \in Requests, Store(r) PROVE IInv'
<1>1. /\ snap' = [snap EXCEPT ![r] = None] /\ disk' = snap[r].taken /\ UNCHANGED <<plan, req, entry, cfg, ran>>
      /\ excuse \subseteq excuse' /\ snap[r] # None /\ \A q : Ask(q)' = Ask(q)
  BY DEF Store, Ask
<1>2. PICK e : snap[r] = [taken |-> e] /\ Stored(e)
  BY <1>1 DEF IInv, KeptIsReal
<1>3. disk' = e /\ Stored(e)'
  BY <1>1, <1>2, RealStays
<1>4. Stored(disk)'
  BY <1>3 DEF Stored
<1>5. \A q \in Requests : snap'[q] = None \/ \E d : snap'[q] = [taken |-> d] /\ Stored(d)'
  BY <1>1, RealStays DEF IInv, KeptIsReal, TypeOK
<1>6. KeptIsReal'
  BY <1>1, <1>4, <1>5, RealStays DEF IInv, KeptIsReal
<1>7. TypeOK' /\ Answered' /\ RunsAlone' /\ RanIsKept' /\ ReplayIsReal'
  BY <1>1 DEF IInv, TypeOK, Answered, RunsAlone, RanIsKept, ReplayIsReal, Running
<1> QED
  BY <1>6, <1>7 DEF IInv

\* An answer that expires was no longer in flight.
LEMMA ExpireKeeps == ASSUME IInv, Expire PROVE IInv'
<1>1. /\ entry # None /\ entry.ready /\ entry' = None /\ excuse' = excuse \cup {"expired"}
      /\ UNCHANGED <<plan, req, snap, disk, cfg, ran>> /\ \A q : Ask(q)' = Ask(q)
  BY DEF Expire, Ask
<1>2. KeptIsReal'
  <2>1. Real(entry)'
    BY <1>1 DEF Real, Stored
  <2> QED
    BY <1>1, <2>1, RealStays DEF IInv, KeptIsReal
<1>3. RunsAlone'
  <2>1. \A q \in Requests : entry # InFlight(q, Ask(q).body)
    BY <1>1, Forms
  <2>2. \A q : Running(q)' = Running(q)
    BY <1>1 DEF Running
  <2> QED
    BY <1>1, <2>1, <2>2 DEF IInv, RunsAlone
<1>4. TypeOK' /\ Answered' /\ RanIsKept' /\ ReplayIsReal'
  BY <1>1 DEF IInv, TypeOK, Answered, RanIsKept, ReplayIsReal
<1> QED
  BY <1>2, <1>3, <1>4 DEF IInv

\* A restart forgets what was under way, and says so unless nothing was.
LEMMA RestartKeeps == ASSUME IInv, Restart PROVE IInv'
<1> DEFINE Idle == {"new", "replayed", "conflict", "canceled", "done"}
<1>1. /\ entry' = disk /\ snap' = [r \in Requests |-> None] /\ UNCHANGED <<plan, disk, cfg, ran>>
      /\ req' = [r \in Requests |-> IF req[r].pc \in Idle THEN req[r] ELSE [req[r] EXCEPT !.pc = "lost"]]
      /\ excuse \subseteq excuse' /\ \A q : Ask(q)' = Ask(q)
      /\ "restart" \in excuse' \/ (disk = Persisted(entry) /\ \A r \in Requests : req[r].pc \in Idle)
  BY DEF Restart, Ask
<1>2. ASSUME NEW r \in Requests
      PROVE  /\ req'[r] \in [pc : Steps, wait : Names, from : Names, saved : Names]
             /\ req'[r].pc \in Idle \cup {"lost"}
             /\ req'[r].pc = "replayed" => req'[r] = req[r]
             /\ ~Running(r)'
  <2>1. req[r] \in [pc : Steps, wait : Names, from : Names, saved : Names]
    BY DEF IInv, TypeOK
  <2>2. CASE req[r].pc \in Idle
    BY <1>1, <2>1, <2>2 DEF Running
  <2>3. CASE req[r].pc \notin Idle
    <3>1. req'[r] = [req[r] EXCEPT !.pc = "lost"]
      BY <1>1, <2>3
    <3>2. req'[r] \in [pc : Steps, wait : Names, from : Names, saved : Names] /\ req'[r].pc = "lost"
      BY <2>1, <3>1 DEF Steps
    <3> QED
      BY <3>2 DEF Running
  <2> QED
    BY <2>2, <2>3
<1>3. TypeOK'
  BY <1>1, <1>2 DEF IInv, TypeOK
<1>4. KeptIsReal'
  <2>1. PICK d : d = disk
    OBVIOUS
  <2>2. Stored(d)' /\ Real(d)' /\ entry' = d /\ disk' = d
    BY <1>1, <2>1, RealStays DEF IInv, KeptIsReal, Real
  <2>3. Real(entry)' /\ Stored(disk)'
    BY <2>2 DEF Real, Stored
  <2> QED
    BY <1>1, <2>3 DEF KeptIsReal
<1>5. Answered' /\ RunsAlone' /\ ReplayIsReal'
  BY <1>1, <1>2 DEF IInv, Answered, RunsAlone, ReplayIsReal
<1>6. RanIsKept'
  <2> SUFFICES ASSUME excuse' = {}, NEW q \in Requests, Ask(q).key, q \in ran
               PROVE  disk = Cached(q, Ask(q).body)
    BY <1>1 DEF RanIsKept
  <2>1. excuse = {} /\ disk = Persisted(entry) /\ ~Running(q)
    BY <1>1 DEF Running
  <2>2. entry = Cached(q, Ask(q).body)
    BY <2>1 DEF IInv, RanIsKept
  <2> QED
    BY <2>1, <2>2, Forms DEF Persisted
<1> QED
  BY <1>3, <1>4, <1>5, <1>6 DEF IInv

\* The invariant is inductive.
LEMMA NextKeeps == IInv /\ [Next]_vars => IInv'
<1> SUFFICES ASSUME IInv, [Next]_vars PROVE IInv'
  OBVIOUS
<1>1. CASE UNCHANGED vars
  <2>1. UNCHANGED <<plan, req, entry, snap, disk, cfg, ran, excuse>> /\ \A q : Ask(q)' = Ask(q)
    BY <1>1 DEF vars, Ask
  <2>2. KeptIsReal'
    BY <2>1, RealStays DEF IInv, KeptIsReal
  <2> QED
    BY <2>1, <2>2 DEF IInv, TypeOK, Answered, RunsAlone, RanIsKept, ReplayIsReal, Running
<1>2. CASE \E r \in Requests : Acquire(r) \/ Step(r) \/ GiveUp(r)
  BY <1>2, AcquireKeeps, WaitKeeps, WriteKeeps, CompleteKeeps, StoreKeeps, ImportKeeps DEF Step
<1>3. CASE Expire \/ Restart
  BY <1>3, ExpireKeeps, RestartKeeps
<1> QED
  BY <1>1, <1>2, <1>3 DEF Next

\* Whatever the number of requests with the key, and wherever they stand when another one comes, one of them runs the
\* handler and one takes effect, but for the excuses the store gives (acquireContext, expireInflightEntry, complete).
THEOREM OneExecutionAlways == Spec => []OneExecution
BY InitIInv, NextKeeps, InvImplies, PTL DEF Spec

\* An answer that is given again was given by an execution of the same body that took effect, also after the entry went
\* to the disk late, expired or came back in another process (acquireContext, persist, load).
THEOREM ReplayIsRealAlways == Spec => []ReplayIsReal
BY InitIInv, NextKeeps, InvImplies, PTL DEF Spec
=============================================================================
