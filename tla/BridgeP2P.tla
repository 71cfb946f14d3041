----------------------------- MODULE BridgeP2P -----------------------------
(***************************************************************************)
(* The bridge's P2P sessions: a visitor asks for a session, the provider   *)
(* joins it, both report their probes, the bridge sends each a summary,    *)
(* both say ready, the bridge sends go, both report an established         *)
(* transport.  A session is served by three goroutines: the visitor's      *)
(* handler (then serve), the provider's, and the timer's callback.  A      *)
(* section under the session's mu is a step; a write to a control          *)
(* connection is a step that may fail, or wait for ever while the          *)
(* connection is open.  All sessions are of one visitor and provider, so   *)
(* of one association.                                                     *)
(***************************************************************************)
EXTENDS Naturals, Sequences, FiniteSets, TLAPS

CONSTANTS
    Sessions,
    Workloads \* bounds of a behaviour, as records of
              \*   sessions: those the visitor asks for,
              \*   talk: whether the provider joins and peers report

ASSUME BridgeP2PAssumption ==
    /\ IsFiniteSet(Sessions)
    /\ Workloads \subseteq [sessions : SUBSET Sessions, talk : BOOLEAN]

Roles == {"visitor", "provider"}
Threads == Roles \cup {"timer"}

VARIABLES
    work,        \* the member of Workloads this behaviour keeps to
    sess,        \* [session -> its fields under mu]
    conn,        \* [session -> [role -> state of its control connection]]
    got,         \* [session -> [role -> what the bridge wrote to the peer]]
    pc,          \* [session -> [thread -> place]]
    sessions,    \* p2pSessionManager.sessions
    registered,  \* p2pstate: sessions whose probes are accepted
    association, \* the entry of p2pAssociationManager.byID: its phase
    emitted      \* [session -> outcomes given to telemetry]

sessVars == <<work, sess, pc>>
sharedVars == <<sessions, registered, association, emitted>>
vars == <<sessVars, conn, got, sharedVars>>

NewSession ==
    [made |-> FALSE, closed |-> FALSE, control |-> {}, reports |-> {}, summarySent |-> FALSE,
     ready |-> {}, goSent |-> FALSE, established |-> {}, outcome |-> "none",
     completion |-> [kind |-> "none", controls |-> {}, emit |-> FALSE]]

Places ==
    {"idle", "create", "startVisitor", "startProvider", "join", "read",
     "summary", "summaryVisitor", "summaryProvider", "summaryDone",
     "go", "goVisitor", "goProvider", "goDone", "armed",
     "abort", "close", "unregister", "delete", "mark", "off"}

Init ==
    /\ work \in Workloads
    /\ sess = [s \in Sessions |-> NewSession]
    /\ conn = [s \in Sessions |-> [r \in Roles |-> "none"]]
    /\ got = [s \in Sessions |-> [r \in Roles |-> {}]]
    /\ pc = [s \in Sessions |-> [t \in Threads |-> "idle"]]
    /\ sessions = {} /\ registered = {} /\ association = "absent"
    /\ emitted = [s \in Sessions |-> <<>>]

At(s, t, place) == pc[s][t] = place
Goto(s, t, place) == pc' = [pc EXCEPT ![s][t] = place]

-----------------------------------------------------------------------------
(* p2pAssociationManager *)

(* attachAt with its sweep: an entry that is missing, or pending for more  *)
(* than p2pAssociationPendingTTL, is binding again.                        *)
AttachAssociation ==
    association' \in IF association = "absent" THEN {"binding"} ELSE {association, "binding"}

(* setPhase changes an entry that is there. *)
MarkPunching == association' = IF association = "absent" THEN "absent" ELSE "punching"

(* handleP2PResolveWork attaches and tells both peers. *)
Resolve ==
    /\ AttachAssociation
    /\ UNCHANGED <<sessVars, conn, got, sessions, registered, emitted>>

-----------------------------------------------------------------------------
(* The visitor's handler: handleP2PConnectWork. *)

Connect(s) ==
    /\ s \in work.sessions /\ At(s, "visitor", "idle")
    /\ AttachAssociation
    /\ conn' = [conn EXCEPT ![s]["visitor"] = "open"]
    /\ Goto(s, "visitor", "create")
    /\ UNCHANGED <<work, sess, got, sessions, registered, emitted>>

(* The provider's signal is gone, the visitor names another association,   *)
(* no probe endpoint is configured.                                        *)
CreateFails(s) ==
    /\ At(s, "visitor", "create")
    /\ conn' = [conn EXCEPT ![s]["visitor"] = "closed"]
    /\ Goto(s, "visitor", "off")
    /\ UNCHANGED <<work, sess, got, sharedVars>>

(* p2pSessionManager.create.  The timer is started before the session is   *)
(* stored, and is taken not to fire within the call.                       *)
Create(s) ==
    /\ At(s, "visitor", "create")
    /\ sess' = [sess EXCEPT ![s].made = TRUE, ![s].control = {"visitor"}]
    /\ MarkPunching
    /\ sessions' = sessions \cup {s}
    /\ registered' = registered \cup {s}
    /\ pc' = [pc EXCEPT ![s]["visitor"] = "startVisitor", ![s]["timer"] = "armed"]
    /\ UNCHANGED <<work, conn, got, emitted>>

(* The provider's start goes through its node's signal, not a control. *)
StartProvider(s) ==
    /\ At(s, "visitor", "startProvider")
    /\ \/ /\ Goto(s, "visitor", "read")
          /\ got' = [got EXCEPT ![s]["provider"] = @ \cup {"start"}]
       \/ Goto(s, "visitor", "abort") /\ UNCHANGED got
    /\ UNCHANGED <<work, sess, conn, sharedVars>>

-----------------------------------------------------------------------------
(* The provider's handler: handleP2PSessionWork. *)

(* resolveBridgeP2PSessionJoin: get deletes a session it finds closed. *)
Join(s) ==
    /\ work.talk /\ At(s, "provider", "idle") /\ "start" \in got[s]["provider"]
    /\ IF s \in sessions /\ ~sess[s].closed
       THEN /\ Goto(s, "provider", "join")
            /\ conn' = [conn EXCEPT ![s]["provider"] = "open"]
       ELSE /\ Goto(s, "provider", "off")
            /\ conn' = [conn EXCEPT ![s]["provider"] = "closed"]
    /\ sessions' = IF sess[s].closed THEN sessions \ {s} ELSE sessions
    /\ UNCHANGED <<work, sess, got, registered, association, emitted>>

AttachProvider(s) ==
    /\ At(s, "provider", "join")
    /\ IF sess[s].closed
       THEN /\ Goto(s, "provider", "off")
            /\ conn' = [conn EXCEPT ![s]["provider"] = "closed"]
            /\ UNCHANGED sess
       ELSE /\ Goto(s, "provider", "read")
            /\ sess' = [sess EXCEPT ![s].control = @ \cup {"provider"}]
            /\ UNCHANGED conn
    /\ UNCHANGED <<work, got, sharedVars>>

-----------------------------------------------------------------------------
(* serve: one message of a peer, or the end of its control. *)

Reading(s, r) == At(s, r, "read") /\ conn[s][r] = "open" /\ ~sess[s].closed
Stay == UNCHANGED <<work, conn, got, sharedVars>>

(* recordReport, then sendSummary when both are in. *)
Report(s, r) ==
    /\ Reading(s, r) /\ work.talk
    /\ LET reports == sess[s].reports \cup {r} IN
        /\ sess' = [sess EXCEPT ![s].reports = reports]
        /\ Goto(s, r, IF reports = Roles THEN "summary" ELSE "read")
    /\ Stay

(* Mutant: one ready peer is enough. *)
ReadyAny(s, r) ==
    /\ Reading(s, r) /\ work.talk /\ "summary" \in got[s][r]
    /\ sess' = [sess EXCEPT ![s].ready = @ \cup {r}]
    /\ Goto(s, r, IF sess[s].goSent THEN "read" ELSE "go")
    /\ Stay

(* recordReady, then sendGo when both are in; a peer is ready once it has  *)
(* its summary.                                                            *)
Ready(s, r) ==
    /\ Reading(s, r) /\ work.talk /\ "summary" \in got[s][r]
    /\ LET ready == sess[s].ready \cup {r} IN
        /\ sess' = [sess EXCEPT ![s].ready = ready]
        /\ Goto(s, r, IF ready = Roles /\ ~sess[s].goSent THEN "go" ELSE "read")
    /\ Stay

(* What the goroutine that ends a session takes out of the locked section; *)
(* telemetry keeps the first outcome (finalLogged).                        *)
Completion(s, kind) ==
    [kind |-> kind, controls |-> sess[s].control, emit |-> sess[s].outcome = "none"]

(* prepareLockedTransportEstablishedCompletion: stops the timer. *)
Established(s, t, established) ==
    /\ sess' = [sess EXCEPT ![s].established = established, ![s].closed = TRUE,
                            ![s].outcome = "established",
                            ![s].completion = Completion(s, "established"), ![s].control = {}]
    /\ pc' = [pc EXCEPT ![s][t] = "close",
                        ![s]["timer"] = IF @ = "armed" THEN "off" ELSE @]

(* maybeFinalizeSuccess, when summary and go are out. *)
MayFinalize(s, established) ==
    sess[s].summarySent /\ sess[s].goSent /\ sess[s].outcome = "none" /\ established = Roles

(* recordProgress with stage transport_established. *)
Progress(s, r) ==
    /\ Reading(s, r) /\ work.talk
    /\ LET established == sess[s].established \cup {r} IN
        IF MayFinalize(s, established)
        THEN Established(s, r, established)
        ELSE sess' = [sess EXCEPT ![s].established = established] /\ UNCHANGED pc
    /\ Stay

(* handleAbort. *)
PeerAborts(s, r) ==
    /\ Reading(s, r)
    /\ Goto(s, r, "abort")
    /\ UNCHANGED sess /\ Stay

(* The control ends or a payload cannot be decoded: abortPending leaves a  *)
(* session open whose peer has its transport.                              *)
ReadFails(s, r) ==
    /\ At(s, r, "read")
    /\ Goto(s, r, IF sess[s].closed \/ r \in sess[s].established THEN "off" ELSE "abort")
    /\ UNCHANGED sess /\ Stay

-----------------------------------------------------------------------------
(* sendSummary and sendGo, and the visitor's start. *)

PrepareSummary(s, t) ==
    /\ At(s, t, "summary")
    /\ IF sess[s].closed \/ sess[s].summarySent
       THEN Goto(s, t, "read") /\ UNCHANGED sess
       ELSE /\ sess' = [sess EXCEPT ![s].summarySent = TRUE]
            /\ Goto(s, t, "summaryVisitor")
    /\ Stay

(* completeSummaryDispatch: the timer starts afresh, so stays armed. *)
SummaryDone(s, t) ==
    /\ At(s, t, "summaryDone")
    /\ Goto(s, t, "read")
    /\ registered' = IF sess[s].closed THEN registered ELSE registered \ {s}
    /\ UNCHANGED <<work, sess, conn, got, sessions, association, emitted>>

PrepareGo(s, t) ==
    /\ At(s, t, "go")
    /\ IF sess[s].closed \/ sess[s].goSent \/ sess[s].control # Roles
       THEN Goto(s, t, "read") /\ UNCHANGED sess
       ELSE sess' = [sess EXCEPT ![s].goSent = TRUE] /\ Goto(s, t, "goVisitor")
    /\ Stay

(* tryFinalizeTransportEstablished. *)
GoDone(s, t) ==
    /\ At(s, t, "goDone")
    /\ IF ~sess[s].closed /\ MayFinalize(s, sess[s].established)
       THEN Established(s, t, sess[s].established)
       ELSE Goto(s, t, "read") /\ UNCHANGED sess
    /\ Stay

(* The places of writes: what is written, to whom, and the next place. *)
Writes ==
    [startVisitor    |-> [msg |-> "start", to |-> "visitor", next |-> "startProvider"],
     summaryVisitor  |-> [msg |-> "summary", to |-> "visitor", next |-> "summaryProvider"],
     summaryProvider |-> [msg |-> "summary", to |-> "provider", next |-> "summaryDone"],
     goVisitor       |-> [msg |-> "go", to |-> "visitor", next |-> "goProvider"],
     goProvider      |-> [msg |-> "go", to |-> "provider", next |-> "goDone"]]

Write(s, t) ==
    /\ pc[s][t] \in DOMAIN Writes
    /\ LET w == Writes[pc[s][t]] IN
        /\ conn[s][w.to] = "open"
        /\ got' = [got EXCEPT ![s][w.to] = @ \cup {w.msg}]
        /\ Goto(s, t, w.next)
    /\ UNCHANGED <<work, sess, conn, sharedVars>>

WriteFails(s, t) ==
    /\ pc[s][t] \in DOMAIN Writes
    /\ Goto(s, t, "abort")
    /\ UNCHANGED sess /\ Stay

-----------------------------------------------------------------------------
(* abort and applySessionCompletion. *)

TimerFires(s) ==
    /\ At(s, "timer", "armed")
    /\ Goto(s, "timer", "abort")
    /\ UNCHANGED sess /\ Stay

PrepareAbort(s, t) ==
    /\ At(s, t, "abort")
    /\ IF sess[s].closed
       THEN Goto(s, t, "off") /\ UNCHANGED sess
       ELSE /\ sess' = [sess EXCEPT ![s].closed = TRUE,
                                    ![s].outcome = IF @ = "none" THEN "aborted" ELSE @,
                                    ![s].completion = Completion(s, "aborted"), ![s].control = {}]
            /\ pc' = [pc EXCEPT ![s]["timer"] = IF @ = "armed" THEN "off" ELSE @, ![s][t] = "close"]
    /\ Stay

(* The abort, written under a deadline, may not arrive. *)
CloseControls(s, t) ==
    /\ At(s, t, "close")
    /\ LET c == sess[s].completion IN
        /\ \E told \in SUBSET {r \in c.controls : c.kind = "aborted" /\ conn[s][r] = "open"} :
            got' = [got EXCEPT ![s] = [r \in Roles |-> IF r \in told THEN @[r] \cup {"abort"}
                                                        ELSE @[r]]]
        /\ conn' = [conn EXCEPT ![s] = [r \in Roles |-> IF r \in c.controls THEN "closed"
                                                          ELSE @[r]]]
    /\ Goto(s, t, "unregister")
    /\ UNCHANGED <<work, sess, sharedVars>>

Unregister(s, t) ==
    /\ At(s, t, "unregister")
    /\ registered' = IF sess[s].completion.kind = "aborted" THEN registered \ {s} ELSE registered
    /\ Goto(s, t, "delete")
    /\ UNCHANGED <<work, sess, conn, got, sessions, association, emitted>>

DeleteSession(s, t) ==
    /\ At(s, t, "delete")
    /\ sessions' = sessions \ {s}
    /\ Goto(s, t, "mark")
    /\ UNCHANGED <<work, sess, conn, got, registered, association, emitted>>

(* markEstablished and markFailed both delete the entry, whichever session *)
(* is punching under it.  The goroutine then reads its closed control.     *)
Mark(s, t) ==
    /\ At(s, t, "mark")
    /\ association' = "absent"
    /\ emitted' = [emitted EXCEPT ![s] = IF sess[s].completion.emit
                                           THEN Append(@, sess[s].outcome) ELSE @]
    /\ Goto(s, t, "off")
    /\ UNCHANGED <<work, sess, conn, got, sessions, registered>>

-----------------------------------------------------------------------------
Complete(s, t) ==
    \/ PrepareAbort(s, t) \/ CloseControls(s, t) \/ Unregister(s, t)
    \/ DeleteSession(s, t) \/ Mark(s, t)

Send(s, t) ==
    \/ PrepareSummary(s, t) \/ SummaryDone(s, t)
    \/ PrepareGo(s, t) \/ GoDone(s, t)

Serve(s, r) ==
    \/ Report(s, r) \/ Ready(s, r) \/ Progress(s, r)
    \/ PeerAborts(s, r) \/ ReadFails(s, r)

Next ==
    \/ Resolve
    \/ \E s \in Sessions :
        \/ Connect(s) \/ CreateFails(s) \/ Create(s) \/ StartProvider(s)
        \/ Join(s) \/ AttachProvider(s) \/ TimerFires(s)
        \/ \E r \in Roles : Serve(s, r) \/ Send(s, r) \/ Write(s, r) \/ WriteFails(s, r)
        \/ \E t \in Threads : Complete(s, t)

Spec == Init /\ [][Next]_vars

-----------------------------------------------------------------------------
(* Every variable has its type. *)
TypeOK ==
    /\ work \in Workloads
    /\ sess \in [Sessions ->
        [made : BOOLEAN, closed : BOOLEAN, control : SUBSET Roles, reports : SUBSET Roles,
         summarySent : BOOLEAN, ready : SUBSET Roles, goSent : BOOLEAN, established : SUBSET Roles,
         outcome : {"none", "established", "aborted"},
         completion : [kind : {"none", "established", "aborted"}, controls : SUBSET Roles,
                       emit : BOOLEAN]]]
    /\ conn \in [Sessions -> [Roles -> {"none", "open", "closed"}]]
    /\ got \in [Sessions -> [Roles -> SUBSET {"start", "summary", "go", "abort"}]]
    /\ pc \in [Sessions -> [Threads -> Places]]
    /\ sessions \subseteq Sessions /\ registered \subseteq Sessions
    /\ association \in {"absent", "binding", "punching"}
    /\ emitted \in [Sessions -> {<<>>, <<"established">>, <<"aborted">>}]

(* A session has one verdict: a peer that is told to abort never belongs   *)
(* to a session reported as established, and an established session had a  *)
(* go and both transports, whichever goroutine finished it.                *)
OneVerdict ==
    \A s \in Sessions : sess[s].outcome = "established" =>
        /\ sess[s].goSent /\ sess[s].established = Roles
        /\ \A r \in Roles : "abort" \notin got[s][r]

(* The bridge lets a peer punch only when both peers hold their summaries. *)
GoNeedsBothSummaries ==
    \A s \in Sessions : (\E r \in Roles : "go" \in got[s][r]) =>
        \A r \in Roles : "summary" \in got[s][r]

Settled(s) == \A t \in Roles : pc[s][t] \in {"read", "off", "idle"}

(* When go is out and both transports are established, the session does    *)
(* not stay open once its goroutines are back at their reads: progress and *)
(* sendGo race, and one of them finishes it.                               *)
NoLostFinish ==
    \A s \in Sessions :
        Settled(s) /\ sess[s].goSent /\ sess[s].established = Roles => sess[s].closed

(* The association is punching only on behalf of a session that is yet to  *)
(* complete, so a finished session never leaves a pair marked as punching. *)
PunchingHasSession ==
    association = "punching" =>
        \E s \in Sessions : sess[s].made /\ emitted[s] = <<>>

(* After an aborted session has completed, its probes are refused and it   *)
(* cannot be joined.                                                       *)
AbortedIsForgotten ==
    \A s \in Sessions : emitted[s] = <<"aborted">> => s \notin registered \cup sessions

(* A session ends well whichever of the visitor's goroutine, the           *)
(* provider's and the timer's finishes it: it has one verdict, go follows  *)
(* both summaries, no finish is lost between progress and sendGo, the      *)
(* association is punching for a session that is not over, and an aborted  *)
(* session is forgotten.                                                   *)
SessionSound ==
    /\ OneVerdict /\ GoNeedsBothSummaries /\ NoLostFinish
    /\ PunchingHasSession /\ AbortedIsForgotten

-----------------------------------------------------------------------------
(* The proof of SessionSound, for any number of sessions.  A step of one   *)
(* session leaves the others alone, so what has to be inductive is said of *)
(* the values of one: its fields f, the places p of its threads, what its  *)
(* peers got, what telemetry has, and the tables R and S it may be in.     *)
Verdicts == {"none", "established", "aborted"}
Fields ==
    [made : BOOLEAN, closed : BOOLEAN, control : SUBSET Roles, reports : SUBSET Roles,
     summarySent : BOOLEAN, ready : SUBSET Roles, goSent : BOOLEAN, established : SUBSET Roles,
     outcome : Verdicts, completion : [kind : Verdicts, controls : SUBSET Roles, emit : BOOLEAN]]
Messages == {"start", "summary", "go", "abort"}
Outcomes == {<<>>, <<"established">>, <<"aborted">>}
Finishing == {"close", "unregister", "delete", "mark"}
Going == {"go", "goVisitor", "goProvider", "goDone"}

(* The verdict falls when the session is closed, and is the one that is    *)
(* told to the peers and to telemetry.                                     *)
VerdictSound(f, g) ==
    /\ f.closed <=> f.outcome # "none"
    /\ f.closed => f.completion.kind = f.outcome /\ f.completion.emit
    /\ f.outcome = "established" => f.goSent /\ f.established = Roles
    /\ \A r \in Roles : "abort" \in g[r] => f.outcome = "aborted"
(* Go waits for both to be ready, ready for the summary. *)
OrderSound(f, p, g) ==
    /\ \A r \in Roles : /\ r \in f.ready => "summary" \in g[r]
                        /\ "summary" \in g[r] => f.summarySent
                        /\ "go" \in g[r] => f.ready = Roles
    /\ \A t \in Threads : /\ p[t] \in Going => f.ready = Roles
                          /\ p[t] \in {"summaryVisitor", "summaryProvider", "summaryDone"} => f.summarySent
    /\ f.goSent => f.ready = Roles
(* Whoever sends go looks again for the transports, or gives up. *)
FinishAhead(f, p) ==
    f.goSent /\ f.established = Roles /\ ~f.closed =>
        \E t \in Roles : p[t] \in {"goVisitor", "goProvider", "goDone", "abort"}
(* One thread finishes a closed session, once, in the order of the steps.  *)
FinishSound(f, p, e, s, R, S) ==
    /\ \A t \in Threads : p[t] \in Finishing =>
        f.closed /\ e = <<>> /\ \A u \in Threads : p[u] \in Finishing => u = t
    /\ e # <<>> => f.closed /\ e = <<f.outcome>>
    /\ f.outcome = "aborted" /\ (e # <<>> \/ \E t \in Threads : p[t] \in {"delete", "mark"}) => s \notin R
    /\ e # <<>> \/ (\E t \in Threads : p[t] = "mark") => s \notin S
(* Nothing happens to a session before it is created. *)
FreshSound(f, p, g, e) ==
    p["visitor"] \in {"idle", "create"} =>
        /\ f = NewSession /\ p["provider"] = "idle" /\ p["timer"] = "idle" /\ e = <<>>
        /\ \A r \in Roles : g[r] = {}

Sound(f, p, g, e, s, R, S) ==
    /\ VerdictSound(f, g) /\ OrderSound(f, p, g) /\ FinishAhead(f, p)
    /\ FinishSound(f, p, e, s, R, S) /\ FreshSound(f, p, g, e)

IInv ==
    /\ TypeOK
    /\ \A s \in Sessions :
        Sound(sess[s], pc[s], got[s], emitted[s], s, registered, sessions)
    /\ PunchingHasSession

LEMMA InitIInv == Init => IInv
<1> SUFFICES ASSUME Init PROVE IInv
  BY Zenon
<1>1. NewSession \in Fields
  BY Zenon DEF NewSession, Fields, Verdicts, Roles
<1>2. TypeOK
  BY <1>1 DEF Init, TypeOK, Fields, Verdicts, Places, Threads, Roles
<1>3. ASSUME NEW s \in Sessions
      PROVE  Sound(sess[s], pc[s], got[s], emitted[s], s, registered, sessions)
  <2>1. /\ sess[s] = NewSession /\ emitted[s] = <<>> /\ s \notin registered /\ s \notin sessions
        /\ \A t \in Threads : pc[s][t] = "idle"
        /\ \A r \in Roles : got[s][r] = {}
    BY Zenon DEF Init
  <2>2. VerdictSound(sess[s], got[s]) /\ OrderSound(sess[s], pc[s], got[s]) /\ FinishAhead(sess[s], pc[s])
    BY <2>1 DEF VerdictSound, OrderSound, FinishAhead, NewSession, Going, Roles, Threads
  <2>3. FinishSound(sess[s], pc[s], emitted[s], s, registered, sessions)
    BY Zenon, <2>1 DEF FinishSound, NewSession, Finishing
  <2>4. FreshSound(sess[s], pc[s], got[s], emitted[s])
    BY Zenon, <2>1 DEF FreshSound, Threads, Roles
  <2> QED
    BY Zenon, <2>2, <2>3, <2>4 DEF Sound
<1> QED
  BY Zenon, <1>2, <1>3 DEF IInv, Init, PunchingHasSession

(* The invariant says what was to be proved. *)
LEMMA InvImplies == IInv => SessionSound
<1> SUFFICES ASSUME IInv PROVE SessionSound
  BY Zenon
<1>1. ASSUME NEW s \in Sessions
      PROVE  /\ sess[s].outcome = "established" =>
                  /\ sess[s].goSent /\ sess[s].established = Roles
                  /\ \A r \in Roles : "abort" \notin got[s][r]
             /\ (\E r \in Roles : "go" \in got[s][r]) => \A r \in Roles : "summary" \in got[s][r]
             /\ Settled(s) /\ sess[s].goSent /\ sess[s].established = Roles => sess[s].closed
             /\ emitted[s] = <<"aborted">> => s \notin registered \cup sessions
  <2>1. Sound(sess[s], pc[s], got[s], emitted[s], s, registered, sessions)
    BY Zenon DEF IInv
  <2>2. sess[s].outcome = "established" =>
          /\ sess[s].goSent /\ sess[s].established = Roles
          /\ \A r \in Roles : "abort" \notin got[s][r]
    BY Zenon, <2>1 DEF Sound, VerdictSound
  <2>3. (\E r \in Roles : "go" \in got[s][r]) => \A r \in Roles : "summary" \in got[s][r]
    BY Zenon, <2>1 DEF Sound, OrderSound
  <2>4. Settled(s) /\ sess[s].goSent /\ sess[s].established = Roles => sess[s].closed
    BY Zenon, <2>1 DEF Sound, FinishAhead, Settled
  <2>5. emitted[s] = <<"aborted">> => s \notin registered \cup sessions
    BY <2>1 DEF Sound, FinishSound
  <2> QED
    BY Zenon, <2>2, <2>3, <2>4, <2>5
<1> QED
  BY Zenon, <1>1 DEF IInv, SessionSound, OneVerdict, GoNeedsBothSummaries, NoLostFinish, AbortedIsForgotten

(* Of the tables only its own place counts. *)
LEMMA SameTables ==
  ASSUME NEW f, NEW p, NEW g, NEW e, NEW s, NEW R, NEW S, Sound(f, p, g, e, s, R, S),
         NEW R2, NEW S2, s \in R2 <=> s \in R, s \in S2 <=> s \in S
  PROVE  Sound(f, p, g, e, s, R2, S2)
BY Zenon DEF Sound, FinishSound

(* A step of session s: its values after it, the other sessions as before. *)
LEMMA StepOf ==
  ASSUME IInv, NEW s \in Sessions,
         NEW f \in Fields, NEW p \in [Threads -> Places], NEW g \in [Roles -> SUBSET Messages], NEW e \in Outcomes,
         Sound(f, p, g, e, s, registered', sessions'),
         work' = work, sess' = [sess EXCEPT ![s] = f], pc' = [pc EXCEPT ![s] = p], got' = [got EXCEPT ![s] = g],
         emitted' = [emitted EXCEPT ![s] = e], conn' \in [Sessions -> [Roles -> {"none", "open", "closed"}]],
         \A q \in Sessions : q # s => (q \in registered' <=> q \in registered) /\ (q \in sessions' <=> q \in sessions),
         registered' \subseteq Sessions, sessions' \subseteq Sessions, association' \in {"absent", "binding", "punching"},
         PunchingHasSession'
  PROVE  IInv'
<1>1. TypeOK'
  <2>1. sess' \in [Sessions -> Fields]
    BY Zenon DEF IInv, TypeOK, Fields, Verdicts
  <2>2. pc' \in [Sessions -> [Threads -> Places]] /\ got' \in [Sessions -> [Roles -> SUBSET Messages]]
        /\ emitted' \in [Sessions -> Outcomes]
    BY Zenon DEF IInv, TypeOK, Messages, Outcomes
  <2> QED
    BY Zenon, <2>1, <2>2 DEF IInv, TypeOK, Fields, Verdicts, Messages, Outcomes
<1>2. ASSUME NEW q \in Sessions
      PROVE  Sound(sess[q], pc[q], got[q], emitted[q], q, registered, sessions)'
  <2>1. CASE q = s
    <3>1. sess'[q] = f /\ pc'[q] = p /\ got'[q] = g /\ emitted'[q] = e
      BY Zenon, <2>1 DEF IInv, TypeOK
    <3> QED
      BY Zenon, <2>1, <3>1
  <2>2. CASE q # s
    <3>1. sess'[q] = sess[q] /\ pc'[q] = pc[q] /\ got'[q] = got[q] /\ emitted'[q] = emitted[q]
      BY Zenon, <2>2 DEF IInv, TypeOK
    <3>2. Sound(sess[q], pc[q], got[q], emitted[q], q, registered, sessions)
      BY Zenon DEF IInv
    <3>3. Sound(sess[q], pc[q], got[q], emitted[q], q, registered', sessions')
      BY Zenon, <2>2, <3>2, SameTables
    <3> QED
      BY Zenon, <3>1, <3>3
  <2> QED
    BY Zenon, <2>1, <2>2
<1> QED
  BY Zenon, <1>1, <1>2 DEF IInv

(* A thread that does not finish the session moves on: fields and messages *)
(* are added in the order that is asked of them.                           *)
Advances(f, p, g, f2, g2, t, place) ==
    /\ f2.closed = f.closed /\ f2.outcome = f.outcome /\ f2.completion = f.completion
    /\ (f.summarySent => f2.summarySent) /\ (f.goSent => f2.goSent)
    /\ f.ready \subseteq f2.ready /\ f.established \subseteq f2.established
    /\ \A r \in f2.ready : r \in f.ready \/ "summary" \in g[r]
    /\ f2.goSent => f2.ready = Roles
    /\ \A r \in Roles : /\ g[r] \subseteq g2[r] /\ ("abort" \in g2[r] => "abort" \in g[r])
                        /\ "summary" \in g2[r] => "summary" \in g[r] \/ f2.summarySent
                        /\ "go" \in g2[r] => "go" \in g[r] \/ f2.ready = Roles
    /\ p[t] \notin Finishing /\ place \notin Finishing /\ (place \in Going => f2.ready = Roles)
    /\ place \in {"summaryVisitor", "summaryProvider", "summaryDone"} => f2.summarySent
    /\ FinishAhead(f2, [p EXCEPT ![t] = place])
    /\ place \notin {"idle", "create"} /\ (p["visitor"] \in {"idle", "create"} => t = "visitor")

Placed(p, p2, t, place) == p2[t] = place /\ \A u \in Threads : u # t => p2[u] = p[u]
Within(s, R, S, R2, S2) == (s \in R2 => s \in R) /\ (s \in S2 => s \in S)

(* Such a step keeps a session sound. *)
LEMMA Advance ==
  ASSUME NEW f \in Fields, NEW p \in [Threads -> Places], NEW g \in [Roles -> SUBSET Messages], NEW e,
         NEW s, NEW R, NEW S, Sound(f, p, g, e, s, R, S),
         NEW f2 \in Fields, NEW g2 \in [Roles -> SUBSET Messages], NEW t \in Threads, NEW place \in Places,
         Advances(f, p, g, f2, g2, t, place), NEW R2, NEW S2, Within(s, R, S, R2, S2),
         NEW p2 \in [Threads -> Places], Placed(p, p2, t, place)
  PROVE  Sound(f2, p2, g2, e, s, R2, S2)
<1>1. p2[t] = place /\ \A u \in Threads : u # t => p2[u] = p[u]
  BY Zenon DEF Placed
<1>2. f2.ready \subseteq Roles /\ f2.established \subseteq Roles
  BY Zenon DEF Fields
<1>3. FinishAhead(f2, p2)
  <2>1. p2 = [p EXCEPT ![t] = place]
    BY Zenon, <1>1
  <2> QED
    BY Zenon, <2>1 DEF Advances
<1>4. VerdictSound(f2, g2)
  BY Zenon, <1>2 DEF Sound, VerdictSound, Advances
<1>5. OrderSound(f2, p2, g2)
  BY Zenon, <1>1, <1>2 DEF Sound, OrderSound, Advances
<1>6. FinishSound(f2, p2, e, s, R2, S2)
  BY <1>1 DEF Sound, FinishSound, Finishing, Advances, Within
<1>7. FreshSound(f2, p2, g2, e)
  BY Zenon, <1>1 DEF FreshSound, Advances, Threads, Roles
<1> QED
  BY Zenon, <1>3, <1>4, <1>5, <1>6, <1>7 DEF Sound

(* A session that is open is closed, by the thread that found it open. *)
Closing(f, p, f2, p2, t) ==
    /\ ~f.closed /\ f2.closed /\ f2.made = f.made
    /\ f2.outcome # "none" /\ f2.completion.kind = f2.outcome /\ f2.completion.emit
    /\ f2.outcome = "established" => f2.goSent /\ f2.established = Roles
    /\ f2.summarySent = f.summarySent /\ f2.goSent = f.goSent /\ f2.ready = f.ready
    /\ p2[t] = "close" /\ \A u \in Threads : u # t => p2[u] = p[u] \/ p2[u] = "off"
    /\ p["visitor"] \notin {"idle", "create"}

LEMMA Closes ==
  ASSUME NEW f \in Fields, NEW p \in [Threads -> Places], NEW g \in [Roles -> SUBSET Messages], NEW e \in Outcomes,
         NEW s, NEW R, NEW S, Sound(f, p, g, e, s, R, S),
         NEW f2 \in Fields, NEW p2 \in [Threads -> Places], NEW t \in Threads, Closing(f, p, f2, p2, t)
  PROVE  Sound(f2, p2, g, e, s, R, S)
<1>1. VerdictSound(f2, g)
  BY Zenon DEF Sound, VerdictSound, Closing
<1>2. OrderSound(f2, p2, g)
  BY Zenon DEF Sound, OrderSound, Going, Closing
<1>3. FinishAhead(f2, p2)
  BY Zenon DEF FinishAhead, Closing
<1>4. FinishSound(f2, p2, e, s, R, S)
  BY Zenon DEF Sound, FinishSound, Finishing, Closing
<1>5. FreshSound(f2, p2, g, e)
  BY Zenon DEF FreshSound, Threads, Roles, Closing
<1> QED
  BY Zenon, <1>1, <1>2, <1>3, <1>4, <1>5 DEF Sound

(* The steps of the thread that finishes the session. *)
Ending(f, p, g, e, s, R, S, t, place, g2, e2, R2, S2) ==
    /\ \/ p[t] = "close" /\ place = "unregister" /\ e2 = e /\ (s \in R2 <=> s \in R) /\ (s \in S2 <=> s \in S)
       \/ /\ p[t] = "unregister" /\ place = "delete" /\ e2 = e
          /\ s \in R2 <=> s \in R /\ f.outcome # "aborted"
          /\ s \in S2 <=> s \in S
       \/ p[t] = "delete" /\ place = "mark" /\ e2 = e /\ (s \in R2 <=> s \in R) /\ s \notin S2
       \/ p[t] = "mark" /\ place = "off" /\ e2 = <<f.outcome>> /\ (s \in R2 <=> s \in R) /\ (s \in S2 <=> s \in S)
    /\ \A r \in Roles : g2[r] = g[r] \/ (g2[r] = g[r] \cup {"abort"} /\ f.outcome = "aborted")

LEMMA Finishes ==
  ASSUME NEW f \in Fields, NEW p \in [Threads -> Places], NEW g \in [Roles -> SUBSET Messages], NEW e \in Outcomes,
         NEW s, NEW R, NEW S, Sound(f, p, g, e, s, R, S), NEW t \in Threads,
         NEW place \in Places, NEW g2 \in [Roles -> SUBSET Messages], NEW e2 \in Outcomes, NEW R2, NEW S2,
         Ending(f, p, g, e, s, R, S, t, place, g2, e2, R2, S2),
         NEW p2 \in [Threads -> Places], Placed(p, p2, t, place)
  PROVE  Sound(f, p2, g2, e2, s, R2, S2)
<1>0. p[t] \in Finishing
  BY Zenon DEF Ending, Finishing
<1>1. p2[t] = place /\ \A u \in Threads : u # t => p2[u] = p[u]
  BY Zenon DEF Placed
<1>2. f.closed /\ e = <<>> /\ \A u \in Threads : p[u] \in Finishing => u = t
  BY Zenon, <1>0 DEF Sound, FinishSound
<1>3. VerdictSound(f, g2)
  BY Zenon DEF Sound, VerdictSound, Ending
<1>4. OrderSound(f, p2, g2)
  BY <1>1 DEF Sound, OrderSound, Going, Ending
<1>5. FinishAhead(f, p2)
  BY Zenon, <1>2 DEF FinishAhead
<1>6. FinishSound(f, p2, e2, s, R2, S2)
  <2>1. \A u \in Threads : p2[u] \in Finishing => u = t /\ place # "off"
    BY Zenon, <1>1, <1>2 DEF Finishing, Ending
  <2>2. place # "off" => e2 = e
    BY Zenon DEF Ending
  <2>3. e2 # <<>> => e2 = <<f.outcome>> /\ p[t] = "mark" /\ place = "off"
    BY Zenon, <1>2 DEF Ending
  <2>4. FinishSound(f, p, e, s, R, S)
    BY Zenon DEF Sound
  <2>5. p[t] \in {"delete", "mark"} => (f.outcome = "aborted" => s \notin R)
    BY Zenon, <2>4 DEF FinishSound
  <2>6. p[t] = "mark" => s \notin S
    BY Zenon, <2>4 DEF FinishSound
  <2>7. f.outcome = "aborted" /\ (e2 # <<>> \/ \E u \in Threads : p2[u] \in {"delete", "mark"}) => s \notin R2
    <3>1. ASSUME NEW u \in Threads, p2[u] \in {"delete", "mark"} PROVE p[t] \in {"unregister", "delete"}
      BY Zenon, <1>1, <2>1, <3>1 DEF Finishing, Ending
    <3> QED
      BY Zenon, <2>3, <2>5, <3>1 DEF Ending
  <2>8. e2 # <<>> \/ (\E u \in Threads : p2[u] = "mark") => s \notin S2
    <3>1. ASSUME NEW u \in Threads, p2[u] = "mark" PROVE p[t] = "delete"
      BY Zenon, <1>1, <2>1, <3>1 DEF Finishing, Ending
    <3> QED
      BY Zenon, <2>3, <2>6, <3>1 DEF Ending
  <2> QED
    BY Zenon, <1>2, <2>1, <2>2, <2>3, <2>7, <2>8 DEF FinishSound
<1>7. FreshSound(f, p2, g2, e2)
  BY Zenon, <1>1, <1>2, <1>0 DEF Sound, FreshSound, NewSession, Finishing, Threads, Roles, Ending
<1> QED
  BY Zenon, <1>3, <1>4, <1>5, <1>6, <1>7 DEF Sound

(* The values of a session, before a step. *)
LEMMA Values ==
  ASSUME IInv, NEW s \in Sessions
  PROVE  /\ sess[s] \in Fields /\ pc[s] \in [Threads -> Places] /\ got[s] \in [Roles -> SUBSET Messages]
         /\ emitted[s] \in Outcomes
         /\ Sound(sess[s], pc[s], got[s], emitted[s], s, registered, sessions)
         /\ sess = [sess EXCEPT ![s] = sess[s]] /\ got = [got EXCEPT ![s] = got[s]]
         /\ emitted = [emitted EXCEPT ![s] = emitted[s]]
         /\ \A t \in Threads : \A place : Goto(s, t, place) => pc' = [pc EXCEPT ![s] = [pc[s] EXCEPT ![t] = place]]
<1>1. sess \in [Sessions -> Fields] /\ pc \in [Sessions -> [Threads -> Places]]
      /\ got \in [Sessions -> [Roles -> SUBSET Messages]] /\ emitted \in [Sessions -> Outcomes]
  BY Zenon DEF IInv, TypeOK, Fields, Verdicts, Messages, Outcomes
<1>2. Sound(sess[s], pc[s], got[s], emitted[s], s, registered, sessions)
  BY Zenon DEF IInv
<1>3. sess = [sess EXCEPT ![s] = sess[s]] /\ got = [got EXCEPT ![s] = got[s]] /\ emitted = [emitted EXCEPT ![s] = emitted[s]]
  BY Zenon, <1>1
<1>4. \A t \in Threads : \A place : Goto(s, t, place) => pc' = [pc EXCEPT ![s] = [pc[s] EXCEPT ![t] = place]]
  BY Zenon, <1>1 DEF Goto
<1> QED
  BY Zenon, <1>1, <1>2, <1>3, <1>4

Passing == {"goVisitor", "goProvider", "goDone", "abort"}

(* As a step of the specification. *)
LEMMA MoveKeeps ==
  ASSUME IInv, NEW s \in Sessions, NEW t \in Threads, NEW place \in Places,
         NEW f2 \in Fields, NEW g2 \in [Roles -> SUBSET Messages],
         sess' = [sess EXCEPT ![s] = f2], got' = [got EXCEPT ![s] = g2], Goto(s, t, place), UNCHANGED <<work, emitted>>,
         conn' \in [Sessions -> [Roles -> {"none", "open", "closed"}]],
         registered' \subseteq registered, registered \subseteq registered' \cup {s},
         sessions' \subseteq sessions, sessions \subseteq sessions' \cup {s},
         association' \in {"absent", "binding", "punching"}, association' = "punching" => association = "punching",
         f2.made = sess[s].made, Advances(sess[s], pc[s], got[s], f2, g2, t, place)
  PROVE  IInv'
<1>1. PICK f \in Fields, p \in [Threads -> Places], g \in [Roles -> SUBSET Messages], e \in Outcomes :
        f = sess[s] /\ p = pc[s] /\ g = got[s] /\ e = emitted[s]
  BY Values, Zenon
<1>2. Sound(f, p, g, e, s, registered, sessions) /\ Advances(f, p, g, f2, g2, t, place)
  BY Zenon, <1>1, Values
<1>3. PICK p2 \in [Threads -> Places] : p2 = [p EXCEPT ![t] = place] /\ Placed(p, p2, t, place)
  <2>1. [p EXCEPT ![t] = place] \in [Threads -> Places]
    BY Zenon
  <2> WITNESS [p EXCEPT ![t] = place] \in [Threads -> Places]
  <2> QED
    BY Zenon DEF Placed
<1>4. Within(s, registered, sessions, registered', sessions')
  BY Zenon DEF Within
<1>5. Sound(f2, p2, g2, e, s, registered', sessions')
  BY Zenon, <1>2, <1>3, <1>4, Advance
<1>6. PunchingHasSession'
  <2> SUFFICES ASSUME association' = "punching" PROVE \E q \in Sessions : sess'[q].made /\ emitted'[q] = <<>>
    BY Zenon DEF PunchingHasSession
  <2>1. PICK q \in Sessions : sess[q].made /\ emitted[q] = <<>>
    BY Zenon DEF IInv, PunchingHasSession
  <2>2. sess'[q].made
    BY Zenon, <2>1 DEF IInv, TypeOK
  <2> QED
    BY Zenon, <2>1, <2>2
<1>7. /\ pc' = [pc EXCEPT ![s] = p2] /\ emitted' = [emitted EXCEPT ![s] = e]
  BY <1>1, <1>3, Values
<1>8. /\ \A q \in Sessions : q # s => (q \in registered' <=> q \in registered) /\ (q \in sessions' <=> q \in sessions)
      /\ registered' \subseteq Sessions /\ sessions' \subseteq Sessions
  BY Zenon DEF IInv, TypeOK
<1> QED
  BY Zenon, <1>3, <1>5, <1>6, <1>7, <1>8, StepOf

(* A thread goes to a place where nothing is promised, and nothing else     *)
(* changes but connections, the tables and the association.                *)
LEMMA GotoKeeps ==
  ASSUME IInv, NEW s \in Sessions, NEW t \in Threads, NEW place \in Places, Goto(s, t, place),
         UNCHANGED <<work, sess, got, emitted>>, conn' \in [Sessions -> [Roles -> {"none", "open", "closed"}]],
         registered' \subseteq registered, registered \subseteq registered' \cup {s},
         sessions' \subseteq sessions, sessions \subseteq sessions' \cup {s},
         association' \in {"absent", "binding", "punching"}, association' = "punching" => association = "punching",
         pc[s][t] \notin Finishing,
         place \notin Finishing \cup (Going \ {"go"}) \cup {"summaryVisitor", "summaryProvider", "summaryDone"},
         place = "go" => sess[s].ready = Roles,
         \/ t = "timer" \/ pc[s][t] \notin Passing \/ place = "abort"
         \/ ~(sess[s].goSent /\ sess[s].established = Roles /\ ~sess[s].closed),
         place \notin {"idle", "create"}, pc[s]["visitor"] \in {"idle", "create"} => t = "visitor"
  PROVE  IInv'
<1>1. PICK f \in Fields, p \in [Threads -> Places], g \in [Roles -> SUBSET Messages], e \in Outcomes :
        f = sess[s] /\ p = pc[s] /\ g = got[s] /\ e = emitted[s]
  BY Values, Zenon
<1>2. Sound(f, p, g, e, s, registered, sessions)
  BY Zenon, <1>1, Values
<1>3. sess' = [sess EXCEPT ![s] = f] /\ got' = [got EXCEPT ![s] = g]
  BY Zenon, <1>1, Values
<1>4. FinishAhead(f, [p EXCEPT ![t] = place])
  BY Zenon, <1>1, <1>2 DEF Sound, FinishAhead, Passing, Roles, Threads
<1>5. Advances(f, p, g, f, g, t, place)
  BY Zenon, <1>1, <1>2, <1>4 DEF Advances, Sound, OrderSound, Going, Fields
<1> QED
  BY Zenon, <1>1, <1>3, <1>5, MoveKeeps

(* A thread that left its first place belongs to a session under way. *)
LEMMA Underway ==
  ASSUME IInv, NEW s \in Sessions, NEW t \in Threads,
         \/ pc[s][t] # "idle" \/ \E r \in Roles : got[s][r] # {}
  PROVE  pc[s]["visitor"] \in {"idle", "create"} => t = "visitor"
<1>1. FreshSound(sess[s], pc[s], got[s], emitted[s])
  BY Zenon, Values DEF Sound
<1> QED
  BY Zenon, <1>1 DEF FreshSound, Threads, Roles

(* A control connection is opened or closed. *)
LEMMA ConnStep ==
  ASSUME IInv, NEW s \in Sessions, NEW r \in Roles, NEW v \in {"none", "open", "closed"}, conn' = [conn EXCEPT ![s][r] = v]
  PROVE  conn' \in [Sessions -> [Roles -> {"none", "open", "closed"}]]
BY Zenon DEF IInv, TypeOK

Calm(s) ==
    /\ UNCHANGED <<work, sess, got, emitted, registered, sessions, association>>
    /\ conn' \in [Sessions -> [Roles -> {"none", "open", "closed"}]]

(* A thread gives up, returns to its reads or is done. *)
LEMMA Withdraws ==
  ASSUME IInv, NEW s \in Sessions, NEW t \in Threads, NEW place \in {"abort", "off", "read"}, Goto(s, t, place),
         Calm(s), pc[s][t] \notin Finishing \cup {"idle"},
         \/ pc[s][t] \notin Passing \/ place = "abort"
         \/ ~(sess[s].goSent /\ sess[s].established = Roles /\ ~sess[s].closed)
  PROVE  IInv'
<1>1. pc[s]["visitor"] \in {"idle", "create"} => t = "visitor"
  BY Zenon, Underway
<1>2. place \in Places /\ place \notin {"idle", "create", "go"}
      /\ place \notin Finishing \cup (Going \ {"go"}) \cup {"summaryVisitor", "summaryProvider", "summaryDone"}
  BY Zenon DEF Places, Finishing, Going
<1>3. association \in {"absent", "binding", "punching"}
  BY Zenon DEF IInv, TypeOK
<1> QED
  BY Zenon, <1>1, <1>2, <1>3, GotoKeeps DEF Calm

LEMMA CreateFailsKeeps ==
  ASSUME IInv, NEW s \in Sessions, CreateFails(s) PROVE IInv'
<1>1. conn' \in [Sessions -> [Roles -> {"none", "open", "closed"}]]
  BY Zenon DEF CreateFails, IInv, TypeOK
<1> QED
  BY Zenon, <1>1, Withdraws DEF CreateFails, At, Calm, sharedVars, Finishing, Passing, Threads, Roles

LEMMA AbortsKeep ==
  ASSUME IInv, NEW s \in Sessions, NEW t \in Threads, pc[s][t] \notin Finishing \cup {"idle"},
         Goto(s, t, "abort"), UNCHANGED sess, Stay
  PROVE  IInv'
<1>1. Calm(s)
  BY Zenon DEF Calm, Stay, sharedVars, IInv, TypeOK
<1> QED
  BY Zenon, <1>1, Withdraws

LEMMA ReadFailsKeeps ==
  ASSUME IInv, NEW s \in Sessions, NEW r \in Roles, ReadFails(s, r) PROVE IInv'
<1>1. Calm(s)
  BY Zenon DEF Calm, ReadFails, Stay, sharedVars, IInv, TypeOK
<1>2. PICK place \in {"abort", "off", "read"} : Goto(s, r, place)
  BY Zenon DEF ReadFails
<1>3. r \in Threads /\ pc[s][r] \notin Finishing \cup {"idle"} /\ pc[s][r] \notin Passing
  BY Zenon DEF ReadFails, At, Threads, Finishing, Passing
<1> QED
  BY Zenon, <1>1, <1>2, <1>3, Withdraws

LEMMA WriteFailsKeeps ==
  ASSUME IInv, NEW s \in Sessions, NEW r \in Roles, WriteFails(s, r) PROVE IInv'
<1>1. r \in Threads /\ pc[s][r] \notin Finishing \cup {"idle"}
  BY Zenon DEF WriteFails, Writes, Threads, Finishing
<1> QED
  BY Zenon, <1>1, AbortsKeep DEF WriteFails

LEMMA PeerAbortsKeeps ==
  ASSUME IInv, NEW s \in Sessions, NEW r \in Roles, PeerAborts(s, r) PROVE IInv'
<1>1. r \in Threads /\ pc[s][r] \notin Finishing \cup {"idle"}
  BY Zenon DEF PeerAborts, Reading, At, Threads, Finishing
<1> QED
  BY Zenon, <1>1, AbortsKeep DEF PeerAborts

LEMMA TimerFiresKeeps ==
  ASSUME IInv, NEW s \in Sessions, TimerFires(s) PROVE IInv'
<1>1. "timer" \in Threads /\ pc[s]["timer"] \notin Finishing \cup {"idle"}
  BY Zenon DEF TimerFires, At, Threads, Finishing
<1> QED
  BY Zenon, <1>1, AbortsKeep DEF TimerFires

LEMMA SummaryDoneKeeps ==
  ASSUME IInv, NEW s \in Sessions, NEW t \in Roles, SummaryDone(s, t) PROVE IInv'
<1>1. t \in Threads /\ pc[s][t] = "summaryDone" /\ Goto(s, t, "read") /\ "read" \in Places
  BY Zenon DEF SummaryDone, At, Threads, Places
<1>2. pc[s]["visitor"] \in {"idle", "create"} => t = "visitor"
  BY Zenon, <1>1, Underway
<1>3. /\ registered' \subseteq registered /\ registered \subseteq registered' \cup {s}
      /\ UNCHANGED <<work, sess, got, emitted, conn, sessions, association>>
  BY Zenon DEF SummaryDone
<1>4. conn \in [Sessions -> [Roles -> {"none", "open", "closed"}]] /\ association \in {"absent", "binding", "punching"}
  BY Zenon DEF IInv, TypeOK
<1>5. /\ "read" \notin Finishing \cup (Going \ {"go"}) \cup {"summaryVisitor", "summaryProvider", "summaryDone"}
      /\ "summaryDone" \notin Finishing \cup Passing /\ "read" \notin {"idle", "create"}
  BY Zenon DEF Finishing, Going, Passing
<1> QED
  BY Zenon, <1>1, <1>2, <1>3, <1>4, <1>5, GotoKeeps

LEMMA JoinKeeps ==
  ASSUME IInv, NEW s \in Sessions, Join(s) PROVE IInv'
<1>1. PICK place \in {"join", "off"} : Goto(s, "provider", place)
  BY Zenon DEF Join
<1>2. "provider" \in Threads /\ pc[s]["provider"] = "idle" /\ place \in Places
  BY Zenon DEF Join, At, Threads, Roles, Places
<1>3. pc[s]["visitor"] \in {"idle", "create"} => "provider" = "visitor"
  BY Zenon, <1>2, Underway DEF Join, Roles
<1>4. /\ sessions' \subseteq sessions /\ sessions \subseteq sessions' \cup {s}
      /\ UNCHANGED <<work, sess, got, emitted, registered, association>>
  BY Zenon DEF Join
<1>5. conn' \in [Sessions -> [Roles -> {"none", "open", "closed"}]] /\ association \in {"absent", "binding", "punching"}
  <2>1. PICK v \in {"none", "open", "closed"} : conn' = [conn EXCEPT ![s]["provider"] = v]
    BY Zenon DEF Join
  <2>2. "provider" \in Roles
    BY Zenon DEF Roles
  <2> QED
    BY Zenon, <2>1, <2>2, ConnStep DEF IInv, TypeOK
<1>6. /\ place \notin Finishing \cup (Going \ {"go"}) \cup {"summaryVisitor", "summaryProvider", "summaryDone"}
      /\ "idle" \notin Finishing \cup Passing /\ place \notin {"idle", "create", "go"}
  BY Zenon DEF Finishing, Going, Passing
<1> QED
  BY Zenon, <1>1, <1>2, <1>3, <1>4, <1>5, <1>6, GotoKeeps

(* A thread moves on with new fields or messages, and nothing else. *)
LEMMA StayKeeps ==
  ASSUME IInv, NEW s \in Sessions, NEW t \in Threads, NEW place \in Places, NEW f2 \in Fields,
         NEW g2 \in [Roles -> SUBSET Messages], sess' = [sess EXCEPT ![s] = f2], got' = [got EXCEPT ![s] = g2],
         Goto(s, t, place), UNCHANGED <<work, conn, sharedVars>>,
         f2.made = sess[s].made, Advances(sess[s], pc[s], got[s], f2, g2, t, place)
  PROVE  IInv'
<1>1. /\ conn' \in [Sessions -> [Roles -> {"none", "open", "closed"}]] /\ association' \in {"absent", "binding", "punching"}
      /\ registered' \subseteq registered /\ registered \subseteq registered' \cup {s}
      /\ sessions' \subseteq sessions /\ sessions \subseteq sessions' \cup {s}
      /\ association' = association /\ UNCHANGED <<work, emitted>>
  BY Zenon DEF sharedVars, IInv, TypeOK
<1> QED
  BY Zenon, <1>1, MoveKeeps

LEMMA ReportKeeps ==
  ASSUME IInv, NEW s \in Sessions, NEW r \in Roles, Report(s, r) PROVE IInv'
<1>1. PICK f \in Fields, p \in [Threads -> Places], g \in [Roles -> SUBSET Messages] :
        f = sess[s] /\ p = pc[s] /\ g = got[s]
  BY Values, Zenon
<1>2. OrderSound(f, p, g) /\ FinishAhead(f, p)
  BY Zenon, <1>1, Values DEF Sound
<1>3. PICK f2 \in Fields : f2 = [f EXCEPT !.reports = @ \cup {r}]
  <2>1. [f EXCEPT !.reports = @ \cup {r}] \in Fields
    BY Zenon DEF Fields
  <2> QED
    BY Zenon, <2>1
<1>4. PICK place \in {"summary", "read"} : Goto(s, r, place)
  BY Zenon DEF Report
<1>5. r \in Threads /\ place \in Places /\ p[r] = "read" /\ (p["visitor"] \in {"idle", "create"} => r = "visitor")
  BY Zenon, <1>1, Underway DEF Report, Reading, At, Threads, Places
<1>6. sess' = [sess EXCEPT ![s] = f2] /\ got' = [got EXCEPT ![s] = g]
  BY Zenon, <1>1, <1>3, Values DEF Report, Stay
<1>7. FinishAhead(f2, [p EXCEPT ![r] = place])
  BY Zenon, <1>2, <1>3, <1>5 DEF FinishAhead, Threads, Fields
<1>8. Advances(f, p, g, f2, g, r, place)
  BY Zenon, <1>2, <1>3, <1>5, <1>7 DEF Advances, OrderSound, Fields, Finishing, Going
<1>9. f2.made = sess[s].made /\ UNCHANGED <<work, conn, sharedVars>>
  BY Zenon, <1>1, <1>3 DEF Report, Stay, Fields
<1> QED
  BY Zenon, <1>1, <1>3, <1>4, <1>5, <1>6, <1>8, <1>9, StayKeeps

LEMMA ReadyKeeps ==
  ASSUME IInv, NEW s \in Sessions, NEW r \in Roles, Ready(s, r) PROVE IInv'
<1>1. PICK f \in Fields, p \in [Threads -> Places], g \in [Roles -> SUBSET Messages] :
        f = sess[s] /\ p = pc[s] /\ g = got[s]
  BY Values, Zenon
<1>2. VerdictSound(f, g) /\ OrderSound(f, p, g) /\ FinishAhead(f, p)
  BY Zenon, <1>1, Values DEF Sound
<1>3. PICK f2 \in Fields : f2 = [f EXCEPT !.ready = @ \cup {r}]
  <2>1. [f EXCEPT !.ready = @ \cup {r}] \in Fields
    BY Zenon DEF Fields, Roles
  <2> QED
    BY Zenon, <2>1
<1>4. PICK place \in {"go", "read"} : Goto(s, r, place) /\ (place = "go" => f2.ready = Roles)
  BY Zenon, <1>1, <1>3 DEF Ready, Fields
<1>5. /\ r \in Threads /\ place \in Places /\ p[r] = "read" /\ (p["visitor"] \in {"idle", "create"} => r = "visitor")
      /\ "summary" \in g[r]
  BY Zenon, <1>1, Underway DEF Ready, Reading, At, Threads, Places
<1>6. sess' = [sess EXCEPT ![s] = f2] /\ got' = [got EXCEPT ![s] = g]
  BY Zenon, <1>1, <1>3, Values DEF Ready, Stay
<1>7. FinishAhead(f2, [p EXCEPT ![r] = place])
  BY Zenon, <1>2, <1>3, <1>5 DEF FinishAhead, Threads, Fields
<1>8. Advances(f, p, g, f2, g, r, place)
  BY Zenon, <1>2, <1>3, <1>4, <1>5, <1>7 DEF Advances, OrderSound, Fields, Finishing, Going
<1>9. f2.made = sess[s].made /\ UNCHANGED <<work, conn, sharedVars>>
  BY Zenon, <1>1, <1>3 DEF Ready, Stay, Fields
<1> QED
  BY Zenon, <1>1, <1>3, <1>4, <1>5, <1>6, <1>8, <1>9, StayKeeps

LEMMA PrepareSummaryKeeps ==
  ASSUME IInv, NEW s \in Sessions, NEW t \in Roles, PrepareSummary(s, t) PROVE IInv'
<1>1. PICK f \in Fields, p \in [Threads -> Places], g \in [Roles -> SUBSET Messages] :
        f = sess[s] /\ p = pc[s] /\ g = got[s]
  BY Values, Zenon
<1>2. VerdictSound(f, g) /\ OrderSound(f, p, g) /\ FinishAhead(f, p)
  BY Zenon, <1>1, Values DEF Sound
<1>3. PICK f2 \in {f, [f EXCEPT !.summarySent = TRUE]}, place \in {"read", "summaryVisitor"} :
        /\ sess' = [sess EXCEPT ![s] = f2] /\ Goto(s, t, place)
        /\ place = "summaryVisitor" => f2.summarySent
  BY Zenon, <1>1, Values DEF PrepareSummary, Fields
<1>4. f2 \in Fields
  BY Zenon, <1>3 DEF Fields
<1>5. /\ t \in Threads /\ place \in Places /\ p[t] = "summary" /\ (p["visitor"] \in {"idle", "create"} => t = "visitor")
  BY Zenon, <1>1, Underway DEF PrepareSummary, At, Threads, Places
<1>6. got' = [got EXCEPT ![s] = g]
  BY Zenon, <1>1, Values DEF PrepareSummary, Stay
<1>7. FinishAhead(f2, [p EXCEPT ![t] = place])
  BY Zenon, <1>2, <1>3, <1>5 DEF FinishAhead, Threads, Fields
<1>8. Advances(f, p, g, f2, g, t, place)
  BY Zenon, <1>2, <1>3, <1>5, <1>7 DEF Advances, OrderSound, Fields, Finishing, Going
<1>9. f2.made = sess[s].made /\ UNCHANGED <<work, conn, sharedVars>>
  BY Zenon, <1>1, <1>3 DEF PrepareSummary, Stay, Fields
<1> QED
  BY Zenon, <1>1, <1>3, <1>4, <1>5, <1>6, <1>8, <1>9, StayKeeps

LEMMA PrepareGoKeeps ==
  ASSUME IInv, NEW s \in Sessions, NEW t \in Roles, PrepareGo(s, t) PROVE IInv'
<1>1. PICK f \in Fields, p \in [Threads -> Places], g \in [Roles -> SUBSET Messages] :
        f = sess[s] /\ p = pc[s] /\ g = got[s]
  BY Values, Zenon
<1>2. VerdictSound(f, g) /\ OrderSound(f, p, g) /\ FinishAhead(f, p)
  BY Zenon, <1>1, Values DEF Sound
<1>3. PICK f2 \in Fields, place \in {"read", "goVisitor"} :
        /\ sess' = [sess EXCEPT ![s] = f2] /\ Goto(s, t, place)
        /\ \/ f2 = f /\ place = "read"
           \/ f2 = [f EXCEPT !.goSent = TRUE] /\ place = "goVisitor"
  <2>1. [f EXCEPT !.goSent = TRUE] \in Fields
    BY Zenon DEF Fields
  <2>2. CASE sess' = sess /\ Goto(s, t, "read")
    BY Zenon, <1>1, <2>2, Values
  <2>3. CASE sess' = [sess EXCEPT ![s].goSent = TRUE] /\ Goto(s, t, "goVisitor")
    BY Zenon, <1>1, <2>1, <2>3, Values
  <2> QED
    BY Zenon, <2>2, <2>3 DEF PrepareGo
<1>4. f2.goSent => f2.ready = Roles
  BY Zenon, <1>1, <1>2, <1>3 DEF PrepareGo, At, OrderSound, Going, Fields, Threads
<1>5. /\ t \in Threads /\ place \in Places /\ p[t] = "go" /\ (p["visitor"] \in {"idle", "create"} => t = "visitor")
  BY Zenon, <1>1, Underway DEF PrepareGo, At, Threads, Places
<1>6. got' = [got EXCEPT ![s] = g]
  BY Zenon, <1>1, Values DEF PrepareGo, Stay
<1>7. FinishAhead(f2, [p EXCEPT ![t] = place])
  BY Zenon, <1>2, <1>3, <1>5 DEF FinishAhead, Threads, Fields
<1>8. Advances(f, p, g, f2, g, t, place)
  BY Zenon, <1>2, <1>3, <1>4, <1>5, <1>7 DEF Advances, OrderSound, Fields, Finishing, Going
<1>9. f2.made = sess[s].made /\ UNCHANGED <<work, conn, sharedVars>>
  BY Zenon, <1>1, <1>3 DEF PrepareGo, Stay, Fields
<1> QED
  BY Zenon, <1>1, <1>3, <1>4, <1>5, <1>6, <1>8, <1>9, StayKeeps

LEMMA WriteKeeps ==
  ASSUME IInv, NEW s \in Sessions, NEW t \in Roles, Write(s, t) PROVE IInv'
<1>1. PICK f \in Fields, p \in [Threads -> Places], g \in [Roles -> SUBSET Messages] :
        f = sess[s] /\ p = pc[s] /\ g = got[s]
  BY Values, Zenon
<1>2. VerdictSound(f, g) /\ OrderSound(f, p, g) /\ FinishAhead(f, p)
  BY Zenon, <1>1, Values DEF Sound
<1>3. PICK to \in Roles, msg \in {"start", "summary", "go"}, place \in Places :
        /\ got' = [got EXCEPT ![s][to] = @ \cup {msg}] /\ Goto(s, t, place)
        /\ \/ p[t] = "startVisitor" /\ msg = "start" /\ place = "startProvider"
           \/ p[t] = "summaryVisitor" /\ msg = "summary" /\ place = "summaryProvider"
           \/ p[t] = "summaryProvider" /\ msg = "summary" /\ place = "summaryDone"
           \/ p[t] = "goVisitor" /\ msg = "go" /\ place = "goProvider"
           \/ p[t] = "goProvider" /\ msg = "go" /\ place = "goDone"
  <2> DEFINE w == Writes[p[t]]
  <2>1. /\ p[t] \in {"startVisitor", "summaryVisitor", "summaryProvider", "goVisitor", "goProvider"}
        /\ got' = [got EXCEPT ![s][w.to] = @ \cup {w.msg}] /\ Goto(s, t, w.next)
    BY Zenon, <1>1 DEF Write, Writes
  <2>2. /\ w.to \in Roles /\ w.msg \in {"start", "summary", "go"} /\ w.next \in Places
        /\ \/ p[t] = "startVisitor" /\ w.msg = "start" /\ w.next = "startProvider"
           \/ p[t] = "summaryVisitor" /\ w.msg = "summary" /\ w.next = "summaryProvider"
           \/ p[t] = "summaryProvider" /\ w.msg = "summary" /\ w.next = "summaryDone"
           \/ p[t] = "goVisitor" /\ w.msg = "go" /\ w.next = "goProvider"
           \/ p[t] = "goProvider" /\ w.msg = "go" /\ w.next = "goDone"
    BY <2>1 DEF Writes, Roles, Places
  <2> HIDE DEF w
  <2> QED
    BY Zenon, <2>1, <2>2
<1>4. PICK g2 \in [Roles -> SUBSET Messages] : g2 = [g EXCEPT ![to] = @ \cup {msg}]
  <2>1. [g EXCEPT ![to] = @ \cup {msg}] \in [Roles -> SUBSET Messages]
    BY Zenon DEF Messages
  <2> QED
    BY Zenon, <2>1
<1>5. t \in Threads /\ p[t] # "idle" /\ (p["visitor"] \in {"idle", "create"} => t = "visitor")
  BY Zenon, <1>1, <1>3, Underway DEF Threads
<1>6. sess' = [sess EXCEPT ![s] = f] /\ got' = [got EXCEPT ![s] = g2]
  BY Zenon, <1>1, <1>3, <1>4, Values DEF Write
<1>7. FinishAhead(f, [p EXCEPT ![t] = place])
  BY Zenon, <1>2, <1>3, <1>5 DEF FinishAhead, Threads
<1>8. \A r \in Roles : g2[r] = IF r = to THEN g[r] \cup {msg} ELSE g[r]
  BY Zenon, <1>4
<1>9. Advances(f, p, g, f, g2, t, place)
  BY <1>2, <1>3, <1>5, <1>7, <1>8 DEF Advances, OrderSound, Finishing, Going
<1> QED
  BY Zenon, <1>1, <1>3, <1>5, <1>6, <1>9, StayKeeps DEF Write

LEMMA CloseKeeps ==
  ASSUME IInv, NEW s \in Sessions, NEW t \in Threads, NEW f2 \in Fields, NEW p2 \in [Threads -> Places],
         sess' = [sess EXCEPT ![s] = f2], pc' = [pc EXCEPT ![s] = p2], Stay, Closing(sess[s], pc[s], f2, p2, t)
  PROVE  IInv'
<1>1. PICK f \in Fields, p \in [Threads -> Places], g \in [Roles -> SUBSET Messages], e \in Outcomes :
        f = sess[s] /\ p = pc[s] /\ g = got[s] /\ e = emitted[s]
  BY Values, Zenon
<1>2. Sound(f, p, g, e, s, registered, sessions) /\ Closing(f, p, f2, p2, t)
  BY Zenon, <1>1, Values
<1>3. Sound(f2, p2, g, e, s, registered, sessions)
  BY Zenon, <1>2, Closes
<1>4. /\ work' = work /\ got' = [got EXCEPT ![s] = g] /\ emitted' = [emitted EXCEPT ![s] = e]
      /\ conn' \in [Sessions -> [Roles -> {"none", "open", "closed"}]] /\ registered' = registered /\ sessions' = sessions
      /\ registered' \subseteq Sessions /\ sessions' \subseteq Sessions /\ association' \in {"absent", "binding", "punching"}
  BY Zenon, <1>1, Values DEF Stay, sharedVars, IInv, TypeOK
<1>5. PunchingHasSession'
  <2> SUFFICES ASSUME association' = "punching" PROVE \E q \in Sessions : sess'[q].made /\ emitted'[q] = <<>>
    BY Zenon DEF PunchingHasSession
  <2>1. PICK q \in Sessions : sess[q].made /\ emitted[q] = <<>>
    BY Zenon DEF IInv, PunchingHasSession, Stay, sharedVars
  <2>2. sess'[q].made
    BY Zenon, <2>1 DEF IInv, TypeOK, Closing
  <2> QED
    BY Zenon, <2>1, <2>2 DEF Stay, sharedVars
<1> QED
  BY Zenon, <1>3, <1>4, <1>5, StepOf

LEMMA StartProviderKeeps ==
  ASSUME IInv, NEW s \in Sessions, StartProvider(s) PROVE IInv'
<1>1. PICK f \in Fields, p \in [Threads -> Places], g \in [Roles -> SUBSET Messages] :
        f = sess[s] /\ p = pc[s] /\ g = got[s]
  BY Values, Zenon
<1>2. VerdictSound(f, g) /\ OrderSound(f, p, g) /\ FinishAhead(f, p)
  BY Zenon, <1>1, Values DEF Sound
<1>3. "visitor" \in Threads /\ "provider" \in Roles /\ "read" \in Places /\ p["visitor"] = "startProvider"
  BY Zenon, <1>1 DEF StartProvider, At, Threads, Roles, Places
<1>4. CASE Goto(s, "visitor", "abort") /\ UNCHANGED got
  <2>1. pc[s]["visitor"] \notin Finishing \cup {"idle"} /\ Stay /\ UNCHANGED sess
    BY Zenon, <1>1, <1>3, <1>4 DEF Finishing, StartProvider, Stay
  <2> QED
    BY Zenon, <1>3, <1>4, <2>1, AbortsKeep
<1>5. CASE Goto(s, "visitor", "read") /\ got' = [got EXCEPT ![s]["provider"] = @ \cup {"start"}]
  <2>1. PICK g2 \in [Roles -> SUBSET Messages] : g2 = [g EXCEPT !["provider"] = @ \cup {"start"}]
    <3>1. [g EXCEPT !["provider"] = @ \cup {"start"}] \in [Roles -> SUBSET Messages]
      BY Zenon DEF Messages
    <3> QED
      BY Zenon, <3>1
  <2>2. sess' = [sess EXCEPT ![s] = f] /\ got' = [got EXCEPT ![s] = g2] /\ UNCHANGED <<work, conn, sharedVars>>
    BY Zenon, <1>1, <1>5, <2>1, Values DEF StartProvider
  <2>3. \A r \in Roles : g2[r] = IF r = "provider" THEN g[r] \cup {"start"} ELSE g[r]
    BY Zenon, <2>1
  <2>4. FinishAhead(f, [p EXCEPT !["visitor"] = "read"])
    BY Zenon, <1>2, <1>3 DEF FinishAhead, Threads
  <2>5. Advances(f, p, g, f, g2, "visitor", "read")
    BY <1>2, <1>3, <2>3, <2>4 DEF Advances, OrderSound, Finishing, Going
  <2> QED
    BY Zenon, <1>1, <1>3, <1>5, <2>2, <2>5, StayKeeps
<1> QED
  BY Zenon, <1>4, <1>5 DEF StartProvider

LEMMA AttachProviderKeeps ==
  ASSUME IInv, NEW s \in Sessions, AttachProvider(s) PROVE IInv'
<1>1. PICK f \in Fields, p \in [Threads -> Places], g \in [Roles -> SUBSET Messages] :
        f = sess[s] /\ p = pc[s] /\ g = got[s]
  BY Values, Zenon
<1>2. VerdictSound(f, g) /\ OrderSound(f, p, g) /\ FinishAhead(f, p)
  BY Zenon, <1>1, Values DEF Sound
<1>3. "provider" \in Threads /\ "provider" \in Roles /\ "read" \in Places /\ p["provider"] = "join"
  BY Zenon, <1>1 DEF AttachProvider, At, Threads, Roles, Places
<1>4. CASE sess[s].closed
  <2>1. Goto(s, "provider", "off") /\ conn' = [conn EXCEPT ![s]["provider"] = "closed"] /\ UNCHANGED sess
    BY Zenon, <1>4 DEF AttachProvider
  <2>2. Calm(s)
    BY Zenon, <1>3, <2>1, ConnStep DEF AttachProvider, Calm, sharedVars
  <2>3. pc[s]["provider"] \notin Finishing \cup {"idle"} /\ pc[s]["provider"] \notin Passing
    BY Zenon, <1>1, <1>3 DEF Finishing, Passing
  <2> QED
    BY Zenon, <1>3, <2>1, <2>2, <2>3, Withdraws
<1>5. CASE ~sess[s].closed
  <2>1. PICK f2 \in Fields : f2 = [f EXCEPT !.control = @ \cup {"provider"}]
    <3>1. [f EXCEPT !.control = @ \cup {"provider"}] \in Fields
      BY Zenon DEF Fields, Roles
    <3> QED
      BY Zenon, <3>1
  <2>2. /\ sess' = [sess EXCEPT ![s] = f2] /\ got' = [got EXCEPT ![s] = g] /\ UNCHANGED <<work, conn, sharedVars>>
        /\ f2.made = sess[s].made /\ Goto(s, "provider", "read")
    BY Zenon, <1>1, <1>5, <2>1, Values DEF AttachProvider, Fields
  <2>3. p["visitor"] \in {"idle", "create"} => "provider" = "visitor"
    BY Zenon, <1>1, <1>3, Underway
  <2>4. FinishAhead(f2, [p EXCEPT !["provider"] = "read"])
    BY Zenon, <1>2, <1>3, <2>1 DEF FinishAhead, Threads, Fields
  <2>5. Advances(f, p, g, f2, g, "provider", "read")
    BY Zenon, <1>2, <1>3, <2>1, <2>3, <2>4 DEF Advances, OrderSound, Finishing, Going, Fields
  <2> QED
    BY Zenon, <1>1, <1>3, <2>2, <2>5, StayKeeps
<1> QED
  BY Zenon, <1>4, <1>5

(* The timer is stopped, the thread closes. *)
LEMMA ClosingPlaces ==
  ASSUME IInv, NEW s \in Sessions, NEW t \in Threads, pc[s][t] \notin {"idle", "create"},
         (t # "timer" /\ Established(s, t, Roles)) \/ (PrepareAbort(s, t) /\ ~sess[s].closed)
  PROVE  \E p2 \in [Threads -> Places] :
            /\ pc' = [pc EXCEPT ![s] = p2] /\ p2[t] = "close"
            /\ \A u \in Threads : u # t => p2[u] = pc[s][u] \/ p2[u] = "off"
            /\ pc[s]["visitor"] \notin {"idle", "create"}
<1>1. pc \in [Sessions -> [Threads -> Places]] /\ pc[s] \in [Threads -> Places] /\ "timer" \in Threads
      /\ "close" \in Places /\ "off" \in Places
  BY Zenon DEF IInv, TypeOK, Threads, Places
<1> DEFINE p2 == [u \in Threads |-> IF u = t THEN "close" ELSE IF u = "timer" /\ pc[s][u] = "armed" THEN "off" ELSE pc[s][u]]
<1>2. p2 \in [Threads -> Places]
  BY Zenon, <1>1
<1>3. pc' = [pc EXCEPT ![s] = p2]
  <2>1. CASE t # "timer" /\ pc' = [pc EXCEPT ![s][t] = "close", ![s]["timer"] = IF @ = "armed" THEN "off" ELSE @]
    BY Zenon, <1>1, <2>1
  <2>2. CASE pc' = [pc EXCEPT ![s]["timer"] = IF @ = "armed" THEN "off" ELSE @, ![s][t] = "close"]
    BY Zenon, <1>1, <2>2
  <2> QED
    BY Zenon, <2>1, <2>2 DEF Established, PrepareAbort
<1>4. pc[s]["visitor"] \notin {"idle", "create"}
  BY Zenon, Underway
<1> QED
  BY Zenon, <1>2, <1>3, <1>4

LEMMA EstablishedKeeps ==
  ASSUME IInv, NEW s \in Sessions, NEW t \in Roles, Established(s, t, Roles), Stay,
         ~sess[s].closed, sess[s].goSent, pc[s][t] \notin {"idle", "create"}
  PROVE  IInv'
<1>1. PICK f \in Fields, p \in [Threads -> Places], g \in [Roles -> SUBSET Messages] :
        f = sess[s] /\ p = pc[s] /\ g = got[s]
  BY Values, Zenon
<1>2. VerdictSound(f, g) /\ OrderSound(f, p, g) /\ FinishAhead(f, p)
  BY Zenon, <1>1, Values DEF Sound
<1>3. PICK p2 \in [Threads -> Places] :
            /\ pc' = [pc EXCEPT ![s] = p2] /\ p2[t] = "close"
            /\ \A u \in Threads : u # t => p2[u] = p[u] \/ p2[u] = "off"
            /\ p["visitor"] \notin {"idle", "create"}
  BY <1>1, ClosingPlaces DEF Threads, Roles
<1>4. f.outcome = "none"
  BY Zenon, <1>1, <1>2 DEF VerdictSound
<1>5. PICK f2 \in Fields :
        /\ f2 = [f EXCEPT !.established = Roles, !.closed = TRUE, !.outcome = "established",
                          !.completion = [kind |-> "established", controls |-> f.control, emit |-> TRUE], !.control = {}]
  <2>1. [f EXCEPT !.established = Roles, !.closed = TRUE, !.outcome = "established",
                  !.completion = [kind |-> "established", controls |-> f.control, emit |-> TRUE], !.control = {}] \in Fields
    BY Zenon DEF Fields, Verdicts
  <2> QED
    BY Zenon, <2>1
<1>6. Completion(s, "established") = [kind |-> "established", controls |-> f.control, emit |-> TRUE]
  BY Zenon, <1>1, <1>4 DEF Completion
<1>7. sess' = [sess EXCEPT ![s] = f2]
  BY Zenon, <1>1, <1>5, <1>6, Values DEF Established
<1>8. Closing(f, p, f2, p2, t)
  BY <1>1, <1>3, <1>5 DEF Closing, Fields, Verdicts
<1> QED
  BY Zenon, <1>1, <1>3, <1>5, <1>7, <1>8, CloseKeeps DEF Threads

LEMMA PrepareAbortKeeps ==
  ASSUME IInv, NEW s \in Sessions, NEW t \in Threads, PrepareAbort(s, t) PROVE IInv'
<1>1. PICK f \in Fields, p \in [Threads -> Places], g \in [Roles -> SUBSET Messages] :
        f = sess[s] /\ p = pc[s] /\ g = got[s]
  BY Values, Zenon
<1>2. VerdictSound(f, g) /\ OrderSound(f, p, g) /\ FinishAhead(f, p)
  BY Zenon, <1>1, Values DEF Sound
<1>3. p[t] = "abort"
  BY Zenon, <1>1 DEF PrepareAbort, At
<1>4. CASE f.closed
  <2>1. Goto(s, t, "off") /\ UNCHANGED sess /\ Stay
    BY Zenon, <1>1, <1>4 DEF PrepareAbort
  <2>2. Calm(s)
    BY Zenon, <2>1 DEF Calm, Stay, sharedVars, IInv, TypeOK
  <2>3. pc[s][t] \notin Finishing \cup {"idle"}
    BY Zenon, <1>1, <1>3 DEF Finishing
  <2> QED
    BY Zenon, <1>1, <1>4, <2>1, <2>2, <2>3, Withdraws
<1>5. CASE ~f.closed
  <2>1. PICK p2 \in [Threads -> Places] :
            /\ pc' = [pc EXCEPT ![s] = p2] /\ p2[t] = "close"
            /\ \A u \in Threads : u # t => p2[u] = p[u] \/ p2[u] = "off"
            /\ p["visitor"] \notin {"idle", "create"}
    BY <1>1, <1>3, <1>5, ClosingPlaces
  <2>2. f.outcome = "none"
    BY Zenon, <1>2, <1>5 DEF VerdictSound
  <2>3. PICK f2 \in Fields :
          f2 = [f EXCEPT !.closed = TRUE, !.outcome = "aborted",
                         !.completion = [kind |-> "aborted", controls |-> f.control, emit |-> TRUE], !.control = {}]
    <3>1. [f EXCEPT !.closed = TRUE, !.outcome = "aborted",
                    !.completion = [kind |-> "aborted", controls |-> f.control, emit |-> TRUE], !.control = {}] \in Fields
      BY Zenon DEF Fields, Verdicts
    <3> QED
      BY Zenon, <3>1
  <2>4. Completion(s, "aborted") = [kind |-> "aborted", controls |-> f.control, emit |-> TRUE]
    BY Zenon, <1>1, <2>2 DEF Completion
  <2>5. sess' = [sess EXCEPT ![s] = f2] /\ Stay
    <3>1. sess' = [sess EXCEPT ![s].closed = TRUE, ![s].outcome = IF @ = "none" THEN "aborted" ELSE @,
                               ![s].completion = Completion(s, "aborted"), ![s].control = {}]
      BY Zenon, <1>1, <1>5 DEF PrepareAbort
    <3>2. sess' = [sess EXCEPT ![s].closed = TRUE, ![s].outcome = "aborted",
                               ![s].completion = Completion(s, "aborted"), ![s].control = {}]
      BY Zenon, <1>1, <2>2, <3>1 DEF IInv, TypeOK
    <3>3. sess' = [sess EXCEPT ![s] = f2]
      BY Zenon, <1>1, <2>3, <2>4, <3>2, Values
    <3> QED
      BY Zenon, <3>3 DEF PrepareAbort
  <2>6. Closing(f, p, f2, p2, t)
    BY Zenon, <1>5, <2>1, <2>3 DEF Closing, Fields, Verdicts
  <2> QED
    BY Zenon, <1>1, <2>1, <2>3, <2>5, <2>6, CloseKeeps
<1> QED
  BY Zenon, <1>4, <1>5

LEMMA ProgressKeeps ==
  ASSUME IInv, NEW s \in Sessions, NEW r \in Roles, Progress(s, r) PROVE IInv'
<1>1. PICK f \in Fields, p \in [Threads -> Places], g \in [Roles -> SUBSET Messages] :
        f = sess[s] /\ p = pc[s] /\ g = got[s]
  BY Values, Zenon
<1>2. VerdictSound(f, g) /\ OrderSound(f, p, g) /\ FinishAhead(f, p)
  BY Zenon, <1>1, Values DEF Sound
<1> DEFINE est == sess[s].established \cup {r}
<1>3. r \in Threads /\ p[r] = "read" /\ ~f.closed /\ (p["visitor"] \in {"idle", "create"} => r = "visitor") /\ Stay
  BY Zenon, <1>1, Underway DEF Progress, Reading, At, Threads
<1>4. CASE MayFinalize(s, est)
  BY Zenon, <1>1, <1>3, <1>4, EstablishedKeeps DEF Progress, MayFinalize
<1>5. CASE ~MayFinalize(s, est)
  <2>1. PICK f2 \in Fields : f2 = [f EXCEPT !.established = @ \cup {r}]
    <3>1. [f EXCEPT !.established = @ \cup {r}] \in Fields
      BY Zenon DEF Fields
    <3> QED
      BY Zenon, <3>1
  <2>2. sess' = [sess EXCEPT ![s] = f2] /\ got' = [got EXCEPT ![s] = g] /\ UNCHANGED pc
    BY Zenon, <1>1, <1>5, <2>1, Values DEF Progress, Stay
  <2>3. Goto(s, r, "read") /\ "read" \in Places /\ UNCHANGED <<work, conn, sharedVars>> /\ f2.made = sess[s].made
    BY <1>1, <1>3, <2>1, <2>2 DEF Goto, IInv, TypeOK, Places, Stay, Fields
  <2>4. ~(f.goSent /\ f2.established = Roles)
    BY Zenon, <1>1, <1>2, <1>3, <1>5, <2>1 DEF MayFinalize, VerdictSound, OrderSound, Fields, Roles
  <2>5. FinishAhead(f2, [p EXCEPT ![r] = "read"])
    BY Zenon, <2>1, <2>4 DEF FinishAhead, Fields
  <2>6. Advances(f, p, g, f2, g, r, "read")
    BY Zenon, <1>2, <1>3, <2>1, <2>5 DEF Advances, OrderSound, Finishing, Going, Fields
  <2> QED
    BY Zenon, <1>1, <1>3, <2>1, <2>2, <2>3, <2>6, StayKeeps
<1> QED
  BY Zenon, <1>4, <1>5

LEMMA GoDoneKeeps ==
  ASSUME IInv, NEW s \in Sessions, NEW t \in Roles, GoDone(s, t) PROVE IInv'
<1>1. PICK f \in Fields, p \in [Threads -> Places], g \in [Roles -> SUBSET Messages] :
        f = sess[s] /\ p = pc[s] /\ g = got[s]
  BY Values, Zenon
<1>2. VerdictSound(f, g) /\ OrderSound(f, p, g) /\ FinishAhead(f, p)
  BY Zenon, <1>1, Values DEF Sound
<1>3. t \in Threads /\ p[t] = "goDone" /\ Stay
  BY Zenon, <1>1 DEF GoDone, At, Threads
<1>4. CASE ~sess[s].closed /\ MayFinalize(s, sess[s].established)
  BY Zenon, <1>1, <1>3, <1>4, EstablishedKeeps DEF GoDone, MayFinalize
<1>5. CASE ~(~sess[s].closed /\ MayFinalize(s, sess[s].established))
  <2>1. Goto(s, t, "read") /\ UNCHANGED sess
    BY Zenon, <1>5 DEF GoDone
  <2>2. Calm(s)
    BY Zenon, <1>3, <2>1 DEF Calm, Stay, sharedVars, IInv, TypeOK
  <2>3. ~(sess[s].goSent /\ sess[s].established = Roles /\ ~sess[s].closed)
    BY Zenon, <1>1, <1>2, <1>5 DEF MayFinalize, VerdictSound, OrderSound, Fields, Roles
  <2>4. pc[s][t] \notin Finishing \cup {"idle"}
    BY Zenon, <1>1, <1>3 DEF Finishing
  <2> QED
    BY Zenon, <1>3, <2>1, <2>2, <2>3, <2>4, Withdraws
<1> QED
  BY Zenon, <1>4, <1>5

(* The thread that finishes a session takes its next step. *)
LEMMA FinishKeeps ==
  ASSUME IInv, NEW s \in Sessions, NEW t \in Threads, NEW place \in Places, NEW g2 \in [Roles -> SUBSET Messages],
         NEW e2 \in Outcomes, Goto(s, t, place), UNCHANGED <<work, sess>>,
         got' = [got EXCEPT ![s] = g2], emitted' = [emitted EXCEPT ![s] = e2],
         conn' \in [Sessions -> [Roles -> {"none", "open", "closed"}]],
         registered' \subseteq registered, registered \subseteq registered' \cup {s},
         sessions' \subseteq sessions, sessions \subseteq sessions' \cup {s},
         association' = "absent" \/ (association' = association /\ e2 = emitted[s]),
         Ending(sess[s], pc[s], got[s], emitted[s], s, registered, sessions, t, place, g2, e2, registered', sessions')
  PROVE  IInv'
<1>1. PICK f \in Fields, p \in [Threads -> Places], g \in [Roles -> SUBSET Messages], e \in Outcomes :
        f = sess[s] /\ p = pc[s] /\ g = got[s] /\ e = emitted[s]
  BY Values, Zenon
<1>2. /\ Sound(f, p, g, e, s, registered, sessions)
      /\ Ending(f, p, g, e, s, registered, sessions, t, place, g2, e2, registered', sessions')
  BY Zenon, <1>1, Values
<1>3. PICK p2 \in [Threads -> Places] : p2 = [p EXCEPT ![t] = place] /\ Placed(p, p2, t, place)
  <2>1. [p EXCEPT ![t] = place] \in [Threads -> Places]
    BY Zenon
  <2> WITNESS [p EXCEPT ![t] = place] \in [Threads -> Places]
  <2> QED
    BY Zenon DEF Placed
<1>4. Sound(f, p2, g2, e2, s, registered', sessions')
  BY Zenon, <1>2, <1>3, Finishes
<1>5. /\ pc' = [pc EXCEPT ![s] = p2] /\ sess' = [sess EXCEPT ![s] = f]
  BY <1>1, <1>3, Values
<1>6. PunchingHasSession'
  <2> SUFFICES ASSUME association' = "punching" PROVE \E q \in Sessions : sess'[q].made /\ emitted'[q] = <<>>
    BY Zenon DEF PunchingHasSession
  <2>1. emitted' = emitted
    BY Zenon, Values
  <2> QED
    BY Zenon, <2>1 DEF IInv, PunchingHasSession
<1>7. /\ \A q \in Sessions : q # s => (q \in registered' <=> q \in registered) /\ (q \in sessions' <=> q \in sessions)
      /\ registered' \subseteq Sessions /\ sessions' \subseteq Sessions /\ association' \in {"absent", "binding", "punching"}
  BY Zenon DEF IInv, TypeOK
<1> QED
  BY Zenon, <1>3, <1>4, <1>5, <1>6, <1>7, StepOf

(* A closed session carries its verdict to the peers. *)
LEMMA Closed ==
  ASSUME IInv, NEW s \in Sessions, NEW t \in Threads, pc[s][t] \in Finishing
  PROVE  /\ sess[s].completion.kind = sess[s].outcome /\ sess[s].completion.emit
         /\ sess[s].outcome \in {"established", "aborted"} /\ emitted[s] = <<>>
<1>1. Sound(sess[s], pc[s], got[s], emitted[s], s, registered, sessions) /\ sess[s] \in Fields
  BY Zenon, Values
<1>2. sess[s].closed /\ emitted[s] = <<>>
  BY Zenon, <1>1 DEF Sound, FinishSound
<1> QED
  BY Zenon, <1>1, <1>2 DEF Sound, VerdictSound, Fields, Verdicts

LEMMA CloseControlsKeeps ==
  ASSUME IInv, NEW s \in Sessions, NEW t \in Threads, CloseControls(s, t) PROVE IInv'
<1>1. PICK f \in Fields, g \in [Roles -> SUBSET Messages] : f = sess[s] /\ g = got[s]
  BY Values, Zenon
<1>2. pc[s][t] = "close" /\ pc[s][t] \in Finishing /\ "unregister" \in Places
  BY Zenon DEF CloseControls, At, Finishing, Places
<1>3. f.completion.kind = f.outcome
  BY Zenon, <1>1, <1>2, Closed
<1>4. PICK told \in SUBSET {r \in sess[s].completion.controls : sess[s].completion.kind = "aborted" /\ conn[s][r] = "open"} :
        got' = [got EXCEPT ![s] = [r \in Roles |-> IF r \in told THEN @[r] \cup {"abort"} ELSE @[r]]]
  BY Zenon DEF CloseControls
<1>5. PICK g2 \in [Roles -> SUBSET Messages] : g2 = [r \in Roles |-> IF r \in told THEN g[r] \cup {"abort"} ELSE g[r]]
  <2>1. [r \in Roles |-> IF r \in told THEN g[r] \cup {"abort"} ELSE g[r]] \in [Roles -> SUBSET Messages]
    BY Zenon DEF Messages
  <2> QED
    BY Zenon, <2>1
<1>6. got' = [got EXCEPT ![s] = g2]
  BY Zenon, <1>1, <1>4, <1>5
<1>7. \A r \in Roles : g2[r] = g[r] \/ (g2[r] = g[r] \cup {"abort"} /\ f.outcome = "aborted")
  BY Zenon, <1>1, <1>3, <1>4, <1>5
<1>8. conn' \in [Sessions -> [Roles -> {"none", "open", "closed"}]]
  <2>1. conn' = [conn EXCEPT ![s] = [r \in Roles |-> IF r \in sess[s].completion.controls THEN "closed" ELSE @[r]]]
    BY Zenon DEF CloseControls
  <2> QED
    BY <2>1 DEF IInv, TypeOK
<1>9. /\ Goto(s, t, "unregister") /\ UNCHANGED <<work, sess, registered, sessions, association>>
      /\ emitted' = [emitted EXCEPT ![s] = emitted[s]] /\ emitted[s] \in Outcomes
  BY Zenon, Values DEF CloseControls, sharedVars
<1>10. Ending(f, pc[s], g, emitted[s], s, registered, sessions, t, "unregister", g2, emitted[s], registered', sessions')
  BY Zenon, <1>2, <1>7, <1>9 DEF Ending
<1> QED
  BY Zenon, <1>1, <1>2, <1>5, <1>6, <1>8, <1>9, <1>10, FinishKeeps

LEMMA UnregisterKeeps ==
  ASSUME IInv, NEW s \in Sessions, NEW t \in Threads, Unregister(s, t) PROVE IInv'
<1>1. pc[s][t] = "unregister" /\ pc[s][t] \in Finishing /\ "delete" \in Places
  BY Zenon DEF Unregister, At, Finishing, Places
<1>2. sess[s].completion.kind = sess[s].outcome
  BY Zenon, <1>1, Closed
<1>3. /\ Goto(s, t, "delete") /\ UNCHANGED <<work, sess, sessions, association>>
      /\ registered' = IF sess[s].outcome = "aborted" THEN registered \ {s} ELSE registered
      /\ conn' \in [Sessions -> [Roles -> {"none", "open", "closed"}]]
      /\ got' = [got EXCEPT ![s] = got[s]] /\ got[s] \in [Roles -> SUBSET Messages]
      /\ emitted' = [emitted EXCEPT ![s] = emitted[s]] /\ emitted[s] \in Outcomes
  BY Zenon, <1>2, Values DEF Unregister, IInv, TypeOK
<1>4. Ending(sess[s], pc[s], got[s], emitted[s], s, registered, sessions, t, "delete", got[s], emitted[s], registered', sessions')
  BY Zenon, <1>1, <1>3 DEF Ending
<1>5. registered' \subseteq registered /\ registered \subseteq registered' \cup {s}
  BY Zenon, <1>3
<1> QED
  BY Zenon, <1>1, <1>3, <1>4, <1>5, FinishKeeps

LEMMA DeleteSessionKeeps ==
  ASSUME IInv, NEW s \in Sessions, NEW t \in Threads, DeleteSession(s, t) PROVE IInv'
<1>1. pc[s][t] = "delete" /\ "mark" \in Places
  BY Zenon DEF DeleteSession, At, Places
<1>2. /\ Goto(s, t, "mark") /\ UNCHANGED <<work, sess, registered, association>> /\ sessions' = sessions \ {s}
      /\ conn' \in [Sessions -> [Roles -> {"none", "open", "closed"}]]
      /\ got' = [got EXCEPT ![s] = got[s]] /\ got[s] \in [Roles -> SUBSET Messages]
      /\ emitted' = [emitted EXCEPT ![s] = emitted[s]] /\ emitted[s] \in Outcomes
  BY Zenon, Values DEF DeleteSession, IInv, TypeOK
<1>3. Ending(sess[s], pc[s], got[s], emitted[s], s, registered, sessions, t, "mark", got[s], emitted[s], registered', sessions')
  BY Zenon, <1>1, <1>2 DEF Ending
<1> QED
  BY Zenon, <1>1, <1>2, <1>3, FinishKeeps

LEMMA MarkKeeps ==
  ASSUME IInv, NEW s \in Sessions, NEW t \in Threads, Mark(s, t) PROVE IInv'
<1>1. pc[s][t] = "mark" /\ pc[s][t] \in Finishing /\ "off" \in Places
  BY Zenon DEF Mark, At, Finishing, Places
<1>2. sess[s].completion.emit /\ sess[s].outcome \in {"established", "aborted"} /\ emitted[s] = <<>>
  BY Zenon, <1>1, Closed
<1>3. PICK e2 \in Outcomes : e2 = <<sess[s].outcome>>
  BY Zenon, <1>2 DEF Outcomes
<1>4. Append(emitted[s], sess[s].outcome) = e2
  BY <1>2, <1>3
<1>5. emitted' = [emitted EXCEPT ![s] = e2]
  BY Zenon, <1>2, <1>4 DEF Mark
<1>6. /\ Goto(s, t, "off") /\ UNCHANGED <<work, sess, registered, sessions>> /\ association' = "absent"
      /\ conn' \in [Sessions -> [Roles -> {"none", "open", "closed"}]]
      /\ got' = [got EXCEPT ![s] = got[s]] /\ got[s] \in [Roles -> SUBSET Messages]
  BY Zenon, Values DEF Mark, IInv, TypeOK
<1>7. Ending(sess[s], pc[s], got[s], emitted[s], s, registered, sessions, t, "off", got[s], e2, registered', sessions')
  BY Zenon, <1>1, <1>3, <1>6 DEF Ending
<1> QED
  BY Zenon, <1>1, <1>3, <1>5, <1>6, <1>7, FinishKeeps

(* A session nobody has seen yet stays sound, in whatever tables it is. *)
LEMMA Begins ==
  ASSUME NEW f, NEW p, NEW g, NEW s, NEW R, NEW S,
         ~f.closed, f.outcome = "none", ~f.goSent, f.ready = {}, \A r \in Roles : g[r] = {},
         \A t \in Threads : p[t] \in {"idle", "create", "startVisitor", "armed"},
         p["visitor"] \in {"idle", "create"} => f = NewSession /\ p["provider"] = "idle" /\ p["timer"] = "idle"
  PROVE  Sound(f, p, g, <<>>, s, R, S)
<1>1. VerdictSound(f, g)
  BY Zenon DEF VerdictSound
<1>2. OrderSound(f, p, g) /\ FinishAhead(f, p)
  BY Zenon DEF OrderSound, FinishAhead, Going
<1>3. FinishSound(f, p, <<>>, s, R, S)
  BY Zenon DEF FinishSound, Finishing
<1>4. FreshSound(f, p, g, <<>>)
  BY Zenon DEF FreshSound
<1> QED
  BY Zenon, <1>1, <1>2, <1>3, <1>4 DEF Sound

LEMMA ConnectKeeps ==
  ASSUME IInv, NEW s \in Sessions, Connect(s) PROVE IInv'
<1>1. PICK f \in Fields, p \in [Threads -> Places], g \in [Roles -> SUBSET Messages] :
        f = sess[s] /\ p = pc[s] /\ g = got[s]
  BY Values, Zenon
<1>2. "visitor" \in Threads /\ "provider" \in Threads /\ "timer" \in Threads /\ "visitor" \in Roles /\ "create" \in Places
  BY Zenon DEF Threads, Roles, Places
<1>3. /\ f = NewSession /\ p["provider"] = "idle" /\ p["timer"] = "idle" /\ emitted[s] = <<>>
      /\ \A r \in Roles : g[r] = {}
  BY Zenon, <1>1, Values DEF Connect, At, Sound, FreshSound
<1>4. PICK p2 \in [Threads -> Places] : p2 = [p EXCEPT !["visitor"] = "create"]
  BY Zenon, <1>2
<1>5. p2["visitor"] = "create" /\ p2["provider"] = "idle" /\ p2["timer"] = "idle"
  BY Zenon, <1>2, <1>3, <1>4
<1>6. Sound(f, p2, g, <<>>, s, registered', sessions')
  BY Zenon, <1>3, <1>5, Begins DEF NewSession, Threads, Roles
<1>7. /\ work' = work /\ sess' = [sess EXCEPT ![s] = f] /\ got' = [got EXCEPT ![s] = g]
      /\ emitted' = [emitted EXCEPT ![s] = <<>>] /\ <<>> \in Outcomes /\ pc' = [pc EXCEPT ![s] = p2]
      /\ registered' = registered /\ sessions' = sessions
  <2>1. Goto(s, "visitor", "create") /\ UNCHANGED <<work, sess, got, sessions, registered, emitted>>
    BY Zenon DEF Connect
  <2>2. pc' = [pc EXCEPT ![s] = p2]
    BY <1>1, <1>2, <1>4, <2>1, Values
  <2> QED
    BY Zenon, <1>1, <1>3, <2>1, <2>2, Values DEF Outcomes
<1>8. conn' \in [Sessions -> [Roles -> {"none", "open", "closed"}]]
  BY Zenon, <1>2, ConnStep DEF Connect
<1>9. association' \in {"absent", "binding", "punching"} /\ (association' = "punching" => association = "punching")
  BY Zenon DEF Connect, AttachAssociation, IInv, TypeOK
<1>10. PunchingHasSession'
  BY Zenon, <1>9 DEF IInv, PunchingHasSession, Connect
<1> QED
  BY Zenon, <1>4, <1>6, <1>7, <1>8, <1>9, <1>10, StepOf DEF IInv, TypeOK

LEMMA CreateKeeps ==
  ASSUME IInv, NEW s \in Sessions, Create(s) PROVE IInv'
<1>1. PICK f \in Fields, p \in [Threads -> Places], g \in [Roles -> SUBSET Messages] :
        f = sess[s] /\ p = pc[s] /\ g = got[s]
  BY Values, Zenon
<1>2. /\ "visitor" \in Threads /\ "provider" \in Threads /\ "timer" \in Threads /\ "startVisitor" \in Places
      /\ "armed" \in Places
  BY Zenon DEF Threads, Roles, Places
<1>3. /\ f = NewSession /\ p["provider"] = "idle" /\ emitted[s] = <<>> /\ \A r \in Roles : g[r] = {}
  BY Zenon, <1>1, Values DEF Create, At, Sound, FreshSound
<1>4. PICK p2 \in [Threads -> Places] : p2 = [p EXCEPT !["visitor"] = "startVisitor", !["timer"] = "armed"]
  BY Zenon, <1>2
<1>5. p2["visitor"] = "startVisitor" /\ p2["provider"] = "idle" /\ p2["timer"] = "armed"
  BY Zenon, <1>2, <1>3, <1>4
<1>6. PICK f2 \in Fields : f2 = [f EXCEPT !.made = TRUE, !.control = {"visitor"}]
  <2>1. [f EXCEPT !.made = TRUE, !.control = {"visitor"}] \in Fields
    BY Zenon DEF Fields, Roles
  <2> QED
    BY Zenon, <2>1
<1>7. ~f2.closed /\ f2.outcome = "none" /\ ~f2.goSent /\ f2.ready = {} /\ f2.made
  BY Zenon, <1>3, <1>6 DEF NewSession
<1>8. Sound(f2, p2, g, <<>>, s, registered', sessions')
  BY Zenon, <1>3, <1>5, <1>7, Begins DEF Threads, Roles
<1>9. pc' = [pc EXCEPT ![s] = p2]
  BY Zenon, <1>1, <1>2, <1>4 DEF Create, IInv, TypeOK
<1>10. /\ work' = work /\ sess' = [sess EXCEPT ![s] = f2] /\ got' = [got EXCEPT ![s] = g]
       /\ emitted' = [emitted EXCEPT ![s] = <<>>] /\ <<>> \in Outcomes
       /\ registered' = registered \cup {s} /\ sessions' = sessions \cup {s}
  BY Zenon, <1>1, <1>3, <1>6, Values DEF Create, Outcomes
<1>11. /\ conn' \in [Sessions -> [Roles -> {"none", "open", "closed"}]] /\ association' \in {"absent", "binding", "punching"}
       /\ registered' \subseteq Sessions /\ sessions' \subseteq Sessions
  BY Zenon, <1>10 DEF Create, MarkPunching, IInv, TypeOK
<1>12. PunchingHasSession'
  <2>1. sess'[s].made /\ emitted'[s] = <<>>
    BY Zenon, <1>7, <1>10 DEF IInv, TypeOK
  <2> QED
    BY Zenon, <2>1 DEF PunchingHasSession
<1> QED
  BY Zenon, <1>4, <1>6, <1>8, <1>9, <1>10, <1>11, <1>12, StepOf

LEMMA ResolveKeeps == IInv /\ (Resolve \/ UNCHANGED vars) => IInv'
<1> SUFFICES ASSUME IInv, Resolve \/ UNCHANGED vars PROVE IInv'
  BY Zenon
<1>1. /\ UNCHANGED <<work, sess, pc, conn, got, sessions, registered, emitted>>
      /\ association' \in {"absent", "binding", "punching"} /\ (association' = "punching" => association = "punching")
  BY Zenon DEF Resolve, AttachAssociation, vars, sessVars, sharedVars, IInv, TypeOK
<1> QED
  BY Zenon, <1>1 DEF IInv, TypeOK, PunchingHasSession

LEMMA NextKeeps == IInv /\ [Next]_vars => IInv'
<1> SUFFICES ASSUME IInv, [Next]_vars PROVE IInv'
  BY Zenon
<1>1. CASE Resolve \/ UNCHANGED vars
  BY Zenon, <1>1, ResolveKeeps
<1>2. ASSUME NEW s \in Sessions,
             \/ Connect(s) \/ CreateFails(s) \/ Create(s) \/ StartProvider(s)
             \/ Join(s) \/ AttachProvider(s) \/ TimerFires(s)
      PROVE  IInv'
  BY Zenon, <1>2, ConnectKeeps, CreateFailsKeeps, CreateKeeps, StartProviderKeeps, JoinKeeps, AttachProviderKeeps,
     TimerFiresKeeps
<1>3. ASSUME NEW s \in Sessions, NEW r \in Roles, Serve(s, r) \/ Send(s, r) \/ Write(s, r) \/ WriteFails(s, r)
      PROVE  IInv'
  <2>1. CASE Serve(s, r)
    BY Zenon, <2>1, ReportKeeps, ReadyKeeps, ProgressKeeps, PeerAbortsKeeps, ReadFailsKeeps DEF Serve
  <2>2. CASE Send(s, r)
    BY Zenon, <2>2, PrepareSummaryKeeps, SummaryDoneKeeps, PrepareGoKeeps, GoDoneKeeps DEF Send
  <2> QED
    BY Zenon, <1>3, <2>1, <2>2, WriteKeeps, WriteFailsKeeps
<1>4. ASSUME NEW s \in Sessions, NEW t \in Threads, Complete(s, t) PROVE IInv'
  BY Zenon, <1>4, PrepareAbortKeeps, CloseControlsKeeps, UnregisterKeeps, DeleteSessionKeeps, MarkKeeps DEF Complete
<1> QED
  BY Zenon, <1>1, <1>2, <1>3, <1>4 DEF Next

(* However many sessions run, and whichever of its goroutines finishes     *)
(* one: a session has one verdict, go follows both summaries, no finish is *)
(* lost between recordProgress and sendGo, the association punches for a   *)
(* session that is not over, and an aborted session is forgotten.          *)
THEOREM SessionSoundAlways == Spec => []SessionSound
<1>1. Spec => []IInv
  BY InitIInv, NextKeeps, PTL DEF Spec
<1> QED
  BY <1>1, InvImplies, PTL

(* One goroutine completes a session, and telemetry hears of it once, with *)
(* the verdict its peers were told (finalLogged, applySessionCompletion).  *)
OneReport ==
    \A s \in Sessions :
        /\ emitted[s] \in {<<>>, <<sess[s].outcome>>} /\ (emitted[s] # <<>> => sess[s].closed)
        /\ \A t, u \in Threads : {pc[s][t], pc[s][u]} \subseteq Finishing => t = u

(* Of the visitor's goroutine, the provider's and the timer's only one     *)
(* completes a session, whatever the order, and its outcome is emitted     *)
(* once and is the session's verdict.                                      *)
THEOREM OneReportAlways == Spec => []OneReport
<1>1. Spec => []IInv
  BY InitIInv, NextKeeps, PTL DEF Spec
<1>2. IInv => OneReport
  <2> SUFFICES ASSUME IInv, NEW s \in Sessions
               PROVE  /\ emitted[s] \in {<<>>, <<sess[s].outcome>>} /\ (emitted[s] # <<>> => sess[s].closed)
                      /\ \A t, u \in Threads : {pc[s][t], pc[s][u]} \subseteq Finishing => t = u
    BY Zenon DEF OneReport
  <2>1. FinishSound(sess[s], pc[s], emitted[s], s, registered, sessions)
    BY Zenon, Values DEF Sound
  <2> QED
    BY Zenon, <2>1 DEF FinishSound
<1> QED
  BY <1>1, <1>2, PTL
=============================================================================
