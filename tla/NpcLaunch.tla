------------------------------ MODULE NpcLaunch ------------------------------
(***************************************************************************)
(* npc started from launch inputs: every input has a supervisor that       *)
(* resolves it (text, file, URL, wrapped payload), builds a bundle of      *)
(* runners from its profiles, runs the bundle until one unit of it ends,   *)
(* and begins again with a fresh look at the source, or with the last good *)
(* bundle while the source fails.                                          *)
(* (cmd/npc/launch.go, cmd/npc/bootstrap.go, client/launch.go,             *)
(* client/launch_resolve.go)                                               *)
(***************************************************************************)
EXTENDS Naturals, Sequences, FiniteSets, SequencesExt

CONSTANTS Inputs,     \* places on the command line
          Launches,   \* input -> the payload given there, or None
          Documents,  \* name -> what a file, an address or a wrapping holds
          Sources,    \* name -> the configuration document at a config.source
          Answers,    \* what a fetch may meet: "ok", "gone", "busy", "denied", "lost"
          Settings,   \* of the runtime section
          ResolveDepth, SourceDepth,  \* maxLaunchResolveDepth, maxLaunchConfigSourceDepth
          MaxFetches  \* looks at the source of one input

None == "none"
Addresses == {p \in DOMAIN Documents : Documents[p].form = "url"} \union DOMAIN Sources

VARIABLES inputs,     \* fixed: one of Launches
          looks,      \* fixed: what a look at every input may give, at the start and later
          flags,      \* fixed: the settings given on the command line
          runtime,    \* the runtime section applied when the process starts
          cancelled, stopped,  \* the process's context, and whether the operator ended it
          sup,        \* input -> its supervisor
          runner,     \* input -> the runners of its bundle: result, UUID and the state of every unit
          child,      \* input -> the context of the bundle is cancelled
          told        \* input -> profile -> the UUIDs it has connected with

vars == <<inputs, looks, flags, runtime, cancelled, stopped, sup, runner, child, told>>

(***************************************************************************)
(* Resolution. An outcome has found something, or is of a class of errors. *)
(***************************************************************************)
Good(s) == [ok |-> TRUE, found |-> <<s>>, err |-> None]
Bad(class) == [ok |-> FALSE, found |-> <<>>, err |-> class]

(* What an HTTP answer means; a nested failure is wrapped as invalid, whatever it was. *)
fetchClass(a) ==
  CASE a = "gone" -> "revoked" [] a = "busy" -> "temporary" [] a = "lost" -> "temporary" [] a = "denied" -> "paused"

(* A section is None, "good", "bad" (with values, but not enough of them) or, a configuration, "senseless". *)
SectionsOf(p) == {m \in {"direct", "config", "local"} : p[m] # None}
ValidProfile(p) == Cardinality(SectionsOf(p)) = 1 /\ \A m \in SectionsOf(p) : p[m] # "bad"
ValidSpec(s) ==
  /\ Cardinality(SectionsOf(s)) + (IF s.profiles = <<>> THEN 0 ELSE 1) = 1
  /\ \A m \in SectionsOf(s) : s[m] # "bad"
  /\ \A i \in DOMAIN s.profiles : ValidProfile(s.profiles[i])

Mode(p) ==
  CASE p.direct # None -> "direct"
    [] p.direct = None /\ p.config # None -> "config"
    [] OTHER -> "local"

(* The profiles, or the one section as a profile named default. *)
ExpandProfiles(s) ==
  IF s.profiles # <<>> THEN s.profiles
  ELSE <<[name |-> "default", direct |-> s.direct, config |-> s.config, local |-> s.local,
          nodes |-> s.nodes, source |-> s.source, reconnect |-> s.reconnect]>>

(* JSON is tried as a whole specification, a list of profiles, then a bare section. *)
parseLaunchJSON(doc) == IF ValidSpec(doc.spec) THEN Good(doc.spec) ELSE Bad("plain")

mergeLaunchRuntime(inner, outer) == [k \in Settings |-> IF outer[k] # None THEN outer[k] ELSE inner[k]]

(* Several inputs may not ask for different values. *)
mergeCompatible(a, b) == \A k \in Settings : a[k] = None \/ b[k] = None \/ a[k] = b[k]

(* What a payload resolves to when it is looked at with the given depth: files and addresses hold payloads. *)
resolveLaunchSpec(answer, depth, input) ==
  LET level[left \in 0 .. ResolveDepth + 1, p \in DOMAIN Documents] ==
        LET d == Documents[p]
            nested == level[left - 1, d.to]
        IN CASE left = 0 -> Bad("plain")
             [] left > 0 /\ d.form = "json" -> parseLaunchJSON(d)
             [] left > 0 /\ d.form = "file" -> IF d.to = None THEN Bad("plain") ELSE nested
             [] left > 0 /\ d.form = "url" ->
                  IF answer[p] # "ok" THEN Bad(fetchClass(answer[p]))
                  ELSE IF nested.ok THEN nested ELSE Bad("invalid")
             [] left > 0 /\ d.form = "npc" ->
                  IF nested.ok THEN Good([nested.found[1] EXCEPT !.runtime = mergeLaunchRuntime(@, d.runtime)]) ELSE nested
             [] OTHER -> Bad("plain")
  IN level[ResolveDepth + 1 - depth, input]

(* A configuration taken from a source, which may name a further one. *)
loadSourceConfig(answer) ==
  LET level[left \in 0 .. SourceDepth, u \in DOMAIN Sources] ==
        IF left = 0 THEN "plain"
        ELSE IF answer[u] # "ok" THEN fetchClass(answer[u])
        ELSE IF Sources[u] = None THEN "ok"
        ELSE IF level[left - 1, Sources[u]] = "ok" THEN "ok" ELSE "invalid"
  IN [u \in DOMAIN Sources |-> level[SourceDepth, u]]

(* A configuration is put together from its source, then its own items, which may not make sense. *)
BuildItems(p) == IF p.config = "senseless" THEN "plain" ELSE "ok"
BuildConfig(p, answer) ==
  LET loaded == IF p.source = None THEN "ok" ELSE loadSourceConfig(answer)[p.source]
  IN IF loaded # "ok" THEN loaded ELSE BuildItems(p)

(* The runners of a bundle, or the first failure. *)
prepareLaunchBundle(s, answer) ==
  LET ps == ExpandProfiles(s)
      class(p) == IF Mode(p) = "config" THEN BuildConfig(p, answer) ELSE "ok"
      failing == {i \in DOMAIN ps : class(ps[i]) # "ok"}
  IN IF failing = {} THEN Good([i \in DOMAIN ps |-> [id |-> ps[i].name, mode |-> Mode(ps[i]), nodes |-> ps[i].nodes, reconnect |-> ps[i].reconnect]])
     ELSE Bad(class(ps[CHOOSE i \in failing : \A j \in failing : i <= j]))

(* What a look at a payload may give, over all the ways the addresses may answer. *)
Resolutions(p, depth) == {resolveLaunchSpec(a, depth, p) : a \in [Addresses -> Answers]}
Bundles(p) ==
  {LET spec == resolveLaunchSpec(a, 0, p) IN IF spec.ok THEN prepareLaunchBundle(spec.found[1], a) ELSE spec :
     a \in [Addresses -> Answers]}

(* A source that fails is replaced by the last good bundle, unless it refused. *)
useLastGood(class, lastGood) == lastGood # <<>> /\ class \notin {"revoked", "paused"}

(***************************************************************************)
(* The process.                                                            *)
(***************************************************************************)
Names == UNION {{ExpandProfiles(Documents[p].spec)[k].name : k \in DOMAIN ExpandProfiles(Documents[p].spec)} :
                p \in {q \in DOMAIN Documents : Documents[q].form = "json"}}
NoSettings == [k \in Settings |-> None]
Setting(k) == IF flags[k] # None THEN flags[k] ELSE IF runtime[k] # None THEN runtime[k] ELSE "on"
autoReconnect == Setting("auto_reconnect") = "on"

Idle == [at |-> "begin", lastGood |-> <<>>, bundle |-> <<>>, paused |-> FALSE, uuids |-> [x \in Names |-> 0],
         primary |-> None, fetches |-> 0]

Given == {i \in Inputs : inputs[i] # None}

Init ==
  /\ inputs \in Launches
  /\ looks = [i \in Given |-> [first |-> Resolutions(inputs[i], IF Cardinality(Given) > 1 THEN 1 ELSE 0), later |-> Bundles(inputs[i])]]
  /\ flags \in [Settings -> {None, "off"}]
  /\ runtime = NoSettings /\ cancelled = FALSE /\ stopped = FALSE
  /\ sup = [i \in Inputs |-> Idle]
  /\ runner = [i \in Inputs |-> <<>>] /\ child = [i \in Inputs |-> FALSE]
  /\ told = [i \in Inputs |-> [x \in Names |-> {}]]

(* The inputs are resolved together once, and their runtime sections, which may not conflict, apply to the
   process. A single local section sets the flags of the local mode, which then runs without a supervisor. *)
resolveLaunchFlags ==
  /\ \A i \in Given : sup[i].at = "begin"
  /\ \E out \in [Given -> UNION {looks[i].first : i \in Given}] :
       LET several == Cardinality(Given) > 1
           sections == {out[i].found[1].runtime : i \in Given}
           good == (\A i \in Given : out[i].ok) /\ (\A a, b \in sections : mergeCompatible(a, b))
           asked(k) == {s[k] : s \in sections} \ {None}
           local == good /\ ~several /\ \A i \in Given : out[i].found[1].local # None
       IN /\ \A i \in Given : out[i] \in looks[i].first
          /\ runtime' = IF good THEN [k \in Settings |-> IF asked(k) = {} THEN None ELSE CHOOSE v \in asked(k) : TRUE]
                        ELSE NoSettings
          /\ sup' = [i \in Inputs |-> [sup[i] EXCEPT !.at = IF i \notin Given THEN "ended" ELSE IF local THEN "local" ELSE "source"]]
  /\ UNCHANGED <<inputs, looks, flags, cancelled, stopped, runner, child, told>>

Put(i, s) == sup' = [sup EXCEPT ![i] = s]

(* The bundle is started: every unit of every runner dials, a config runner with the UUID it had. *)
Launch(i, s, bundle) ==
  /\ Put(i, [s EXCEPT !.at = "run", !.bundle = bundle, !.primary = None])
  /\ runner' = [runner EXCEPT ![i] = [r \in DOMAIN bundle |->
       [result |-> None, uuid |-> s.uuids[bundle[r].id], nodes |-> [n \in DOMAIN bundle[r].nodes |-> "dial"]]]]
  /\ child' = [child EXCEPT ![i] = FALSE]

(* While the source is paused the last good bundle runs again; otherwise the source is asked. *)
superviseLaunchInput(i) ==
  /\ sup[i].at = "source" /\ ~cancelled
  /\ \/ sup[i].paused /\ Launch(i, sup[i], sup[i].lastGood)
     \/ /\ ~sup[i].paused /\ sup[i].fetches < MaxFetches
        /\ \E out \in looks[i].later :
             LET s == [sup[i] EXCEPT !.fetches = @ + 1]
             IN IF out.ok THEN Launch(i, [s EXCEPT !.lastGood = out.found[1]], out.found[1])
                ELSE IF useLastGood(out.err, s.lastGood) THEN Launch(i, [s EXCEPT !.paused = TRUE], s.lastGood)
                ELSE Put(i, [s EXCEPT !.at = "sleep"]) /\ UNCHANGED <<runner, child>>
  /\ UNCHANGED <<inputs, looks, flags, runtime, cancelled, stopped, told>>

(* The delay after a failure or before the next launch is over, or cut short by the end of the process. *)
sleepLaunchDelay(i) ==
  /\ \/ sup[i].at = "sleep"
     \/ sup[i].at = "source" /\ cancelled
  /\ Put(i, [sup[i] EXCEPT !.at = IF cancelled THEN "ended" ELSE "source"])
  /\ UNCHANGED <<inputs, looks, flags, runtime, cancelled, stopped, runner, child, told>>

(* The time of the next attempt comes. *)
RetryDue(i) ==
  /\ sup[i].paused /\ Put(i, [sup[i] EXCEPT !.paused = FALSE])
  /\ UNCHANGED <<inputs, looks, flags, runtime, cancelled, stopped, runner, child, told>>

(***************************************************************************)
(* A bundle: runners, each with its units, under one context.              *)
(***************************************************************************)
Over(i) == child[i] \/ cancelled
SetUnit(i, r, n, v) == [runner EXCEPT ![i][r].nodes[n] = v]

(* The context of a unit: that of the bundle, and in a group of nodes it ends with the first result. *)
GroupOver(i, r) == Over(i) \/ runner[i][r].result # None

(* A unit connects. A node of a group gives up when its context ends. A config runner without a UUID takes the one the server assigns. *)
Connects(i, r, n) ==
  /\ runner[i][r].nodes[n] = "dial"
  /\ sup[i].bundle[r].mode = "direct" => ~GroupOver(i, r)
  /\ LET id == sup[i].bundle[r].id
         fresh == Cardinality(told[i][id]) + 1
         u == IF runner[i][r].uuid # 0 THEN runner[i][r].uuid ELSE fresh
         named == sup[i].bundle[r].mode = "config" /\ sup[i].bundle[r].nodes[n] # "wait"
     IN /\ runner' = [SetUnit(i, r, n, "up") EXCEPT ![i][r].uuid = IF named THEN u ELSE @]
        /\ told' = IF named THEN [told EXCEPT ![i][id] = @ \union {u}] ELSE told
  /\ UNCHANGED <<inputs, looks, flags, runtime, cancelled, stopped, sup, child>>

(* A connection is lost or never came about; a local server failed to start. One of a configuration that fails
   to start tells nobody. *)
UnitLost(i, r, n) ==
  /\ runner[i][r].nodes[n] \in {"dial", "up"} /\ sup[i].bundle[r].nodes[n] # "wait"
  /\ runner[i][r].nodes[n] = "up" => sup[i].bundle[r].mode # "local"
  /\ runner' = SetUnit(i, r, n, "lost")
  /\ UNCHANGED <<inputs, looks, flags, runtime, cancelled, stopped, sup, child, told>>

(* Start of a client returns when its connection is lost. A context that is cancelled ends a QUIC client and a
   local server; a client on a mux goes on, for nobody closes the mux. The first unit gives the runner's result. *)
StartReturns(i, r, n) ==
  /\ \/ runner[i][r].nodes[n] = "lost"
     \/ runner[i][r].nodes[n] = "up" /\ sup[i].bundle[r].nodes[n] # "mux" /\ GroupOver(i, r)
  /\ LET p == sup[i].bundle[r]
     IN runner' = [SetUnit(i, r, n, "back") EXCEPT ![i][r].result =
          IF @ # None THEN @ ELSE IF ~Over(i) /\ autoReconnect /\ p.reconnect THEN "again" ELSE "stop"]
  /\ UNCHANGED <<inputs, looks, flags, runtime, cancelled, stopped, sup, child, told>>

Back(i, r) == \A n \in DOMAIN runner[i][r].nodes : runner[i][r].nodes[n] = "back"

(* The first runner that is back, all its units with it, decides; the others are cancelled. *)
runPreparedBundleOnce(i) ==
  /\ sup[i].at = "run" /\ sup[i].primary = None
  /\ \/ cancelled /\ Put(i, [sup[i] EXCEPT !.primary = "stop"])
     \/ \E r \in DOMAIN runner[i] : Back(i, r) /\ Put(i, [sup[i] EXCEPT !.primary = runner[i][r].result])
  /\ child' = [child EXCEPT ![i] = TRUE]
  /\ UNCHANGED <<inputs, looks, flags, runtime, cancelled, stopped, runner, told>>

(* The UUIDs all runners came back with are kept for the next launch. *)
keepUUIDs(i) ==
  [x \in Names |-> LET got == {runner[i][r].uuid : r \in {q \in DOMAIN runner[i] : sup[i].bundle[q].id = x}} \ {0}
                   IN IF got = {} THEN sup[i].uuids[x] ELSE CHOOSE u \in got : TRUE]

(* Every runner has returned: the bundle begins again after a delay, or the process ends. *)
endsProcess(i) == sup[i].primary = "stop"
bundleReturns(i) ==
  /\ sup[i].at = "run" /\ sup[i].primary # None /\ \A r \in DOMAIN runner[i] : Back(i, r)
  /\ LET s == [sup[i] EXCEPT !.uuids = keepUUIDs(i), !.bundle = <<>>] IN
     \/ cancelled /\ Put(i, [s EXCEPT !.at = "ended"]) /\ UNCHANGED cancelled
     \/ ~cancelled /\ endsProcess(i) /\ Put(i, [s EXCEPT !.at = "ended"]) /\ cancelled' = TRUE
     \/ ~cancelled /\ ~endsProcess(i) /\ Put(i, [s EXCEPT !.at = "sleep"]) /\ UNCHANGED cancelled
  /\ runner' = [runner EXCEPT ![i] = <<>>]
  /\ UNCHANGED <<inputs, looks, flags, runtime, stopped, child, told>>

(* The service is stopped. *)
Stop ==
  /\ ~stopped /\ stopped' = TRUE /\ cancelled' = TRUE
  /\ UNCHANGED <<inputs, looks, flags, runtime, sup, runner, child, told>>

UnitSteps(i) ==
  \E r \in DOMAIN runner[i] : \E n \in DOMAIN runner[i][r].nodes :
    Connects(i, r, n) \/ UnitLost(i, r, n) \/ StartReturns(i, r, n)
Supervises(i) ==
  superviseLaunchInput(i) \/ sleepLaunchDelay(i) \/ runPreparedBundleOnce(i) \/ bundleReturns(i)
Returns(i) == \E r \in DOMAIN runner[i] : \E n \in DOMAIN runner[i][r].nodes : StartReturns(i, r, n)
DialEnds(i) ==
  \E r \in DOMAIN runner[i] : \E n \in DOMAIN runner[i][r].nodes :
    runner[i][r].nodes[n] = "dial" /\ (Connects(i, r, n) \/ UnitLost(i, r, n))

Next ==
  \/ resolveLaunchFlags \/ Stop
  \/ \E i \in Inputs : RetryDue(i) \/ UnitSteps(i) \/ Supervises(i)

Fairness == \A i \in Inputs : WF_vars(Supervises(i)) /\ WF_vars(Returns(i)) /\ WF_vars(RetryDue(i)) /\ WF_vars(DialEnds(i))
Spec == Init /\ [][Next]_vars /\ Fairness

(***************************************************************************)
(* Properties.                                                             *)
(***************************************************************************)

(* A profile presents itself to the server with one UUID however often its bundle is launched again, whichever of
   the runners ended first: the server goes on seeing one node. *)
UuidKept == \A i \in Inputs, x \in Names : Cardinality(told[i][x]) <= 1

Reconnecting(i) == autoReconnect /\ \A k \in DOMAIN sup[i].lastGood : sup[i].lastGood[k].reconnect
(* While reconnecting is on, only the operator ends the process: the units of a bundle that are cancelled because
   another one ended do not count as an order to stop. *)
OnlyOperatorStops == cancelled /\ (\A i \in Inputs : Reconnecting(i)) => stopped

Lost(i) == sup[i].at = "run" /\ \E r \in DOMAIN runner[i] : \E n \in DOMAIN runner[i][r].nodes : runner[i][r].nodes[n] = "lost"
Alive(i) ==
  \E r \in DOMAIN runner[i] : \E n \in DOMAIN runner[i][r].nodes :
    \/ runner[i][r].nodes[n] = "dial"
    \/ runner[i][r].nodes[n] = "up" /\ sup[i].bundle[r].nodes[n] = "mux"

(* A unit that is lost brings the whole bundle down and the source is looked at again, unless another unit of the
   bundle still dials or has a live mux. *)
LossSeen(i) == Lost(i) /\ ~Alive(i)
LossHandled(i) == sup[i].at # "run"
=============================================================================
