------------------------------ MODULE NodeSinks ------------------------------
(***************************************************************************)
(* The event sinks of a node: webhooks (web/routers/node_webhooks.go) and  *)
(* the temporary subscriptions of one WebSocket session                    *)
(* (web/routers/node_ws.go), with the selectors they share                 *)
(* (web/routers/node_event_sinks.go).  One publisher reports changes and   *)
(* deletions of resources; a deletion scrubs the selectors that name the   *)
(* resource, from a snapshot taken outside the store's lock.  The          *)
(* dispatcher keeps one worker per active webhook; a worker whose          *)
(* subscription overflowed replays the log and subscribes again.           *)
(*                                                                         *)
(* A selector is the set of resource ids it names; the empty one matches   *)
(* every event.  The other dimensions of a selector behave alike.  "ask"   *)
(* and "again" are history: the selector the last writer asked for, and    *)
(* whether a webhook was switched on again after a scrub emptied it.       *)
(***************************************************************************)
EXTENDS Integers, Sequences, SequencesExt, FiniteSets, FiniteSetsExt

CONSTANTS
  Ids,        \* resources that events and selectors name
  Plans,      \* what is tried: sinks, actors [admin, platform] and bounds on
              \* events and on requests that change a sink
  Buffer,     \* capacity of a worker's subscription (128 in the code)
  MaxHooks    \* bound: webhooks ever created

VARIABLES
  plan,     \* sinks, actors, events, writes
  exist,    \* resources and platforms that exist
  log,      \* the durable events: [id, del]; the index is the sequence number
  pub,      \* the publisher: recorded event, step, scrub plans
  hooks,    \* nodeWebhookStore.items
  next,     \* nodeWebhookStore.nextID
  disk,     \* what the store last handed to its writer
  signal,   \* changeCh holds a token
  sync,     \* the dispatcher: idle, or the active webhooks it has read
  workers,  \* nodeWebhookDispatcherManager.workers
  wsub,     \* the session's subscription, or None
  wloop,    \* the session's event loop: event to render, scrub plan
  writes

vars == <<plan, exist, log, pub, hooks, next, disk, signal, sync, workers, wsub, wloop, writes>>

None == [none |-> TRUE]
HookIds == 1 .. MaxHooks
IdlePub == [pc |-> "idle", plans |-> << >>]
IdleSync == [busy |-> FALSE, active |-> << >>]
IdleLoop == [pc |-> "idle", event |-> 0, plan |-> None]
Stored == {i \in HookIds : hooks[i] # None}

-----------------------------------------------------------------------------
(* Selectors and owners.                                                   *)

MatchesSelector(sel, s) == sel = {} \/ log[s].id \in sel
\* scrubNodeEventSelector: what is left, and whether nothing is left.
Scrubbed(sel) == sel \cap exist
ScrubDisables(sel) == sel # {} /\ Scrubbed(sel) = {}
MayInvalidateSelectors(s) == log[s].del

OwnerSupported(a) == a.admin \/ a.platform # ""
VisibleToActor(a, owner) ==
  /\ OwnerSupported(a) /\ OwnerSupported(owner)
  /\ a.admin \/ a.platform = owner.platform
OwnerInvalid(owner) == ~owner.admin /\ owner.platform \notin exist

-----------------------------------------------------------------------------
(* The webhook store: every mutation persists inside the lock and leaves a  *)
(* token for the dispatcher.                                               *)

Write == writes < plan.writes /\ writes' = writes + 1

Stores(h) ==
  /\ hooks' = h
  /\ disk' = h
  /\ signal' = TRUE
OthersThanStore == <<plan, exist, log, pub, sync, workers, wsub, wloop>>

Create ==
  /\ Write
  /\ "webhook" \in plan.sinks
  /\ next < MaxHooks
  /\ next' = next + 1
  /\ \E a \in {b \in plan.actors : OwnerSupported(b)}, sel \in SUBSET Ids :
       Stores([hooks EXCEPT ![next + 1] = [owner |-> a, on |-> TRUE, sel |-> sel, ask |-> sel, again |-> FALSE]])
  /\ UNCHANGED OthersThanStore

MutableBy(a, i) == hooks[i] # None /\ VisibleToActor(a, hooks[i].owner)

\* buildNodeWebhookConfig keeps the switch unless the request names it; an
\* update that changes nothing is not stored.
Update(i) ==
  /\ \E a \in plan.actors, sel \in SUBSET Ids, on \in BOOLEAN :
       /\ MutableBy(a, i)
       /\ sel # hooks[i].sel \/ on # hooks[i].on
       /\ Stores([hooks EXCEPT ![i].sel = sel, ![i].on = on, ![i].ask = sel, ![i].again = FALSE])
  /\ Write
  /\ UNCHANGED <<next, OthersThanStore>>

Widened(h) == h.sel = {} /\ h.ask # {}
SetEnabled(i) ==
  /\ \E a \in plan.actors : MutableBy(a, i)
  /\ Write
  /\ Stores([hooks EXCEPT ![i].on = ~@, ![i].again = @ \/ (~hooks[i].on /\ Widened(hooks[i]))])
  /\ UNCHANGED <<next, OthersThanStore>>

Delete(i) ==
  /\ \E a \in plan.actors : MutableBy(a, i)
  /\ Write
  /\ Stores([hooks EXCEPT ![i] = None])
  /\ UNCHANGED <<next, OthersThanStore>>

\* Reset of an import: the ids start over.
Reset ==
  /\ Write
  /\ Stores([i \in HookIds |-> None])
  /\ next' = 0
  /\ UNCHANGED OthersThanStore

\* load after a restart: the last stored state, with unsupported owners
\* switched off; the dispatcher starts with a synchronisation.
Restart ==
  /\ Write
  /\ hooks' = [i \in HookIds |-> IF disk[i] = None THEN None
                                 ELSE [disk[i] EXCEPT !.on = @ /\ OwnerSupported(disk[i].owner)]]
  /\ next' = Max({0} \cup {i \in HookIds : disk[i] # None})
  /\ signal' = TRUE
  /\ sync' = IdleSync
  /\ workers' = [i \in HookIds |-> None]
  /\ pub' = IdlePub
  /\ wsub' = None /\ wloop' = IdleLoop
  /\ UNCHANGED <<plan, exist, log, disk>>

-----------------------------------------------------------------------------
(* The publisher: OnManagementEvent records, publishes, then scrubs.       *)

Report(id, del) ==
  /\ pub.pc = "idle" /\ Len(log) < plan.events /\ id \in exist
  /\ log' = Append(log, [id |-> id, del |-> del])
  /\ exist' = IF del THEN exist \ {id} ELSE exist
  /\ pub' = [IdlePub EXCEPT !.pc = "publish"]
  /\ UNCHANGED <<plan, hooks, next, disk, signal, sync, workers, wsub, wloop, writes>>

\* A platform is taken out of the configuration; no event says so.
DropPlatform ==
  /\ \E p \in exist \ Ids : exist' = exist \ {p}
  /\ UNCHANGED <<plan, log, pub, hooks, next, disk, signal, sync, workers, wsub, wloop, writes>>

\* Publish to one worker's subscription: a full channel ends it.  The event
\* loop of the session holds one event; an overflow closes the session.
Offered(w, s) ==
  IF w = None THEN w
  ELSE IF ~w.open THEN IF w.step = "resub" THEN [w EXCEPT !.missed = @ \cup {s}] ELSE w
  ELSE IF ~MatchesSelector(w.cfg.sel, s) THEN w
  ELSE IF Len(w.ch) < Buffer THEN [w EXCEPT !.ch = Append(@, s)]
  ELSE [w EXCEPT !.open = FALSE]

Publish ==
  /\ pub.pc = "publish"
  /\ LET s == Len(log)
     IN  /\ workers' = [i \in HookIds |-> Offered(workers[i], s)]
         /\ IF wsub = None THEN UNCHANGED <<wloop, wsub>>
            ELSE IF wloop.pc = "idle"
            THEN wloop' = [wloop EXCEPT !.pc = "render", !.event = s] /\ wsub' = wsub
            ELSE wloop' = IdleLoop /\ wsub' = None
         /\ pub' = [pub EXCEPT !.pc = IF MayInvalidateSelectors(s) THEN "snapshot" ELSE "idle"]
  /\ UNCHANGED <<plan, exist, log, hooks, next, disk, signal, sync, writes>>

\* snapshotScrubCandidates and buildNodeWebhookScrubPlans.
ScrubSnapshot ==
  /\ pub.pc = "snapshot"
  /\ pub' = [pc |-> "apply",
             plans |-> [i \in {j \in Stored : \/ Scrubbed(hooks[j].sel) # hooks[j].sel
                                              \/ OwnerInvalid(hooks[j].owner)}
                          |-> [sel     |-> hooks[i].sel,
                               left    |-> Scrubbed(hooks[i].sel),
                               disable |-> ScrubDisables(hooks[i].sel),
                               orphan  |-> OwnerInvalid(hooks[i].owner),
                               owner   |-> hooks[i].owner]]]
  /\ UNCHANGED <<plan, exist, log, hooks, next, disk, signal, sync, workers, wsub, wloop, writes>>

\* The plan is applied to whatever is stored now.
PlannedBlindly(h, p) ==
  IF h = None THEN h ELSE [h EXCEPT !.sel = p.left, !.on = @ /\ ~p.orphan /\ ~p.disable]

\* applyScrubPlanLocked: only what still equals the snapshot is changed.
Planned(h, p) ==
  IF h = None THEN h
  ELSE LET same == h.sel = p.sel
       IN  [h EXCEPT !.sel = IF same THEN p.left ELSE @,
                     !.on  = @ /\ ~(p.orphan /\ h.owner = p.owner) /\ ~(p.disable /\ same),
                     !.again = IF same /\ p.disable THEN FALSE ELSE @]
ScrubApply ==
  /\ pub.pc = "apply"
  /\ LET h == [i \in HookIds |-> IF i \in DOMAIN pub.plans THEN Planned(hooks[i], pub.plans[i]) ELSE hooks[i]]
     IN  IF h = hooks THEN UNCHANGED <<hooks, disk, signal>> ELSE Stores(h)
  /\ pub' = IdlePub
  /\ UNCHANGED <<plan, exist, log, next, sync, workers, wsub, wloop, writes>>

-----------------------------------------------------------------------------
(* The dispatcher and its workers.                                         *)

Config(i) == [owner |-> hooks[i].owner, on |-> hooks[i].on, sel |-> hooks[i].sel]
Active == [i \in {j \in Stored : hooks[j].on /\ OwnerSupported(hooks[j].owner)} |-> Config(i)]
\* "live" is the goroutine; "from", "got" and "missed" are history: the log's
\* length at the start, the events attempted, and those nobody could see;
\* "early" is the event a replay read before it was published.
NewWorker(cfg) ==
  [cfg |-> cfg, live |-> TRUE, step |-> "run", open |-> TRUE, ch |-> << >>, todo |-> << >>, last |-> 0,
   busy |-> FALSE, from |-> Len(log), got |-> {}, twice |-> FALSE, early |-> 0, missed |-> {}]

\* watch takes the token and reads Active; the plan and the starts follow.
SyncRead ==
  /\ signal /\ ~sync.busy
  /\ signal' = FALSE
  /\ sync' = [busy |-> TRUE, active |-> Active]
  /\ UNCHANGED <<plan, exist, log, pub, hooks, next, disk, workers, wsub, wloop, writes>>
Synced(i) ==
  IF i \notin DOMAIN sync.active THEN None
  ELSE IF workers[i] # None /\ workers[i].cfg = sync.active[i] THEN workers[i]
  ELSE NewWorker(sync.active[i])
SyncApply ==
  /\ sync.busy
  /\ workers' = [i \in HookIds |-> Synced(i)]
  /\ sync' = IdleSync
  /\ UNCHANGED <<plan, exist, log, pub, hooks, next, disk, signal, wsub, wloop, writes>>

ConfigMatches(i) == i \in DOMAIN Active /\ Active[i] = workers[i].cfg
SetWorker(i, w) ==
  /\ workers' = [workers EXCEPT ![i] = w]
  /\ UNCHANGED <<plan, exist, log, pub, hooks, next, disk, signal, sync, wsub, wloop, writes>>

\* processWebhookEvent: an inactive worker drops the event.
Processed(w, i, s) ==
  IF ~ConfigMatches(i) THEN [w EXCEPT !.missed = @ \cup {s}]
  ELSE IF ~MatchesSelector(w.cfg.sel, s) THEN [w EXCEPT !.last = Max({@, s})]
  ELSE [w EXCEPT !.last = Max({@, s}), !.twice = @ \/ s \in w.got \ {w.early}, !.got = @ \cup {s}, !.busy = TRUE]

\* runWorker takes an event from its channel, or drains it once the
\* subscription is gone.
WorkerTake(i) ==
  /\ workers[i] # None
  /\ LET w == workers[i]
     IN  /\ w.live /\ ~w.busy /\ w.step \in {"run", "drain"} /\ w.ch # << >>
         /\ SetWorker(i, Processed([w EXCEPT !.ch = Tail(@)], i, Head(w.ch)))
\* deliverWebhookEvent returns; its outcome only changes the statistics.
WorkerDelivered(i) ==
  /\ workers[i] # None /\ workers[i].busy
  /\ SetWorker(i, [workers[i] EXCEPT !.busy = FALSE])

\* recoverWebhookWorker: inactive ends the goroutine, otherwise drain,
\* replay what the log has above the last event, and subscribe again.
WorkerRecover(i) ==
  /\ workers[i] # None
  /\ LET w == workers[i]
     IN  /\ w.live /\ ~w.busy /\ w.step = "run" /\ ~w.open
         /\ SetWorker(i, IF ConfigMatches(i) THEN [w EXCEPT !.step = "drain"] ELSE [w EXCEPT !.live = FALSE])

WorkerReplay(i) ==
  /\ workers[i] # None
  /\ LET w == workers[i]
     IN  /\ w.live /\ ~w.busy /\ w.step = "drain" /\ w.ch = << >>
         /\ SetWorker(i, [w EXCEPT !.step = "resub", !.todo = [k \in 1 .. (Len(log) - w.last) |-> w.last + k],
                                       !.early = IF pub.pc = "publish" THEN Len(log) ELSE @])
WorkerReplayNext(i) ==
  /\ workers[i] # None
  /\ LET w == workers[i]
     IN  /\ w.live /\ ~w.busy /\ w.step = "resub" /\ w.todo # << >>
         /\ SetWorker(i, Processed([w EXCEPT !.todo = Tail(@)], i, Head(w.todo)))
WorkerResubscribe(i) ==
  /\ workers[i] # None
  /\ LET w == workers[i]
     IN  /\ w.live /\ ~w.busy /\ w.step = "resub" /\ w.todo = << >>
         /\ SetWorker(i, [w EXCEPT !.step = "run", !.open = TRUE])

-----------------------------------------------------------------------------
(* The subscription of a WebSocket session: the read loop changes it while *)
(* the event loop renders callbacks and scrubs.                            *)

OthersThanWs == <<plan, exist, log, pub, hooks, next, disk, signal, sync, workers>>
SubCreate ==
  /\ "subscription" \in plan.sinks
  /\ wsub = None /\ Write
  /\ \E sel \in SUBSET Ids : wsub' = [on |-> TRUE, sel |-> sel, ask |-> sel]
  /\ UNCHANGED <<wloop, OthersThanWs>>
SubUpdate ==
  /\ wsub # None /\ Write
  /\ \E sel \in SUBSET Ids, on \in BOOLEAN : wsub' = [on |-> on, sel |-> sel, ask |-> sel]
  /\ UNCHANGED <<wloop, OthersThanWs>>
SubSetEnabled ==
  /\ wsub # None /\ Write
  /\ \E on \in BOOLEAN : wsub' = [wsub EXCEPT !.on = on]
  /\ UNCHANGED <<wloop, OthersThanWs>>
SubDelete ==
  /\ wsub # None /\ Write
  /\ wsub' = None
  /\ UNCHANGED <<wloop, OthersThanWs>>

\* EventFrames: callbacks for the event, then a scrub plan if it deletes.
Frames ==
  /\ wloop.pc = "render"
  /\ wloop' = IF MayInvalidateSelectors(wloop.event) /\ wsub # None
              THEN [pc |-> "scrub", event |-> 0, plan |-> [sel |-> wsub.sel, left |-> Scrubbed(wsub.sel)]]
              ELSE IdleLoop
  /\ UNCHANGED <<wsub, writes, OthersThanWs>>
\* applyScrubPlanLocked of the registry: nothing left deletes it.
SubScrub ==
  /\ wloop.pc = "scrub"
  /\ wsub' = IF wsub = None \/ wsub.sel # wloop.plan.sel THEN wsub
             ELSE IF wloop.plan.left = {} /\ wsub.sel # {} THEN None
             ELSE [wsub EXCEPT !.sel = wloop.plan.left]
  /\ wloop' = IdleLoop
  /\ UNCHANGED <<writes, OthersThanWs>>

-----------------------------------------------------------------------------
Init ==
  /\ plan \in Plans
  /\ exist = Ids \cup ({a.platform : a \in plan.actors} \ {""})
  /\ log = << >> /\ pub = IdlePub
  /\ hooks = [i \in HookIds |-> None] /\ next = 0 /\ disk = hooks
  /\ signal = FALSE /\ sync = IdleSync
  /\ workers = [i \in HookIds |-> None]
  /\ wsub = None /\ wloop = IdleLoop
  /\ writes = 0

WorkerStep(i) ==
  \/ WorkerTake(i) \/ WorkerDelivered(i) \/ WorkerRecover(i)
  \/ WorkerReplay(i) \/ WorkerReplayNext(i) \/ WorkerResubscribe(i)

Next ==
  \/ Create \/ Reset \/ Restart \/ DropPlatform
  \/ \E i \in HookIds : Update(i) \/ SetEnabled(i) \/ Delete(i) \/ WorkerStep(i)
  \/ \E id \in Ids, del \in BOOLEAN : Report(id, del)
  \/ Publish \/ ScrubSnapshot \/ ScrubApply \/ SyncRead \/ SyncApply
  \/ SubCreate \/ SubUpdate \/ SubSetEnabled \/ SubDelete \/ Frames \/ SubScrub

Spec == Init /\ [][Next]_vars

-----------------------------------------------------------------------------
Within(sel, ask) == IF sel = {} THEN ask = {} ELSE sel \subseteq ask \/ ask = {}

(* No sink that is switched on matches events its last writer did not ask   *)
(* for, however updates, switches and scrubs of deleted resources           *)
(* interleave (applyScrubPlanLocked).  A webhook whose selector a scrub      *)
(* emptied and that is switched on again by SetEnabled matches every event; *)
(* a subscription is deleted instead.                                       *)
ScopeKept ==
  /\ \A i \in Stored : hooks[i].on /\ ~hooks[i].again => Within(hooks[i].sel, hooks[i].ask)
  /\ wsub # None => Within(wsub.sel, wsub.ask)

(* With no token left and no synchronisation under way, the workers are     *)
(* exactly those of the active webhooks, each with the stored configuration *)
(* (notifyChanged, planWorkerSync, the channel of capacity one).            *)
WorkersFollowStore ==
  ~signal /\ ~sync.busy =>
    [i \in {j \in HookIds : workers[j] # None} |-> workers[i].cfg] = Active

Published == IF pub.pc = "publish" THEN Len(log) - 1 ELSE Len(log)

(* A running worker attempts every matching event once: overflow, drain and *)
(* replay neither repeat nor lose one, apart from events published between  *)
(* the replay and the new subscription, events that came while the stored   *)
(* configuration differed, and an event the replay read before it was       *)
(* published (recoverWebhookWorker, lastSequence).                          *)
AttemptedOnce ==
  \A i \in HookIds :
    LET w == workers[i]
    IN  w # None /\ w.live =>
          /\ ~w.twice
          /\ w.step = "run" /\ w.open =>
               \A s \in w.from + 1 .. Published :
                 MatchesSelector(w.cfg.sel, s) => s \in w.got \cup w.missed \cup ToSet(w.ch)
=============================================================================
