----------------------------- MODULE TargetHealth -----------------------------
EXTENDS Integers, Sequences, FiniteSets

(***************************************************************************)
(* A client probes the targets of its tunnels and tells the bridge over    *)
(* its signal connection which of them fail; the bridge takes them out of  *)
(* the list from which the proxies choose in turn, and puts them back.     *)
(* The record is a stored one, or one the client published itself, whose   *)
(* list is shared between the record and the publication of the owner.     *)
(***************************************************************************)
CONSTANTS Targets,        \* the configured targets, in order
          MaxFail, MaxChecks, MaxLosses, MaxPicks, Offsets

VARIABLES
  owned,     \* the record was published by the client
  up,        \* the signal connection stands
  fails,     \* HealthMap: target -> failures in a row
  wire,      \* reports under way
  arr,       \* TargetArr, or Nil before its first use
  src,       \* targetArrSource: the list was made from the configured text
  ix,        \* nowIndex
  out,       \* HealthRemoveArr of the record
  outSnap,   \* HealthRemoveArr of the owner's publication
  checks, losses, picks,
  last,      \* the target chosen last, or None
  probed,    \* targets probed over this connection, with the result of the last probe
  missed     \* targets whose state the list forgot or kept from an earlier connection

client == <<up, fails, wire, checks, losses, probed>>
server == <<arr, src, ix, out, outSnap, picks, last>>
vars == <<owned, client, server, missed>>

Set == {Targets[i] : i \in 1..Len(Targets)}
Nil == <<"nil">>
None == "none"
Has(s, x) == \E i \in 1..Len(s) : s[i] = x
(* common.RemoveArrVal: the first occurrence. *)
RemoveArrVal(s, x) ==
  IF ~Has(s, x) THEN s
  ELSE LET k == CHOOSE i \in 1..Len(s) : s[i] = x /\ \A j \in 1..(i - 1) : s[j] # x IN
       SubSeq(s, 1, k - 1) \o SubSeq(s, k + 1, Len(s))

Offered == IF arr = Nil \/ ~src THEN Set ELSE {arr[i] : i \in 1..Len(arr)}

Init ==
  /\ owned \in BOOLEAN
  /\ up = TRUE
  /\ fails = [x \in Set |-> 0]
  /\ wire = <<>>
  /\ arr = Nil /\ src = FALSE /\ ix = -1
  /\ out = <<>> /\ outSnap = <<>>
  /\ checks = 0 /\ losses = 0 /\ picks = 0
  /\ last = None
  /\ probed = [x \in Set |-> "never"]
  /\ missed = {}

-----------------------------------------------------------------------------
(* The client.                                                             *)

(* What is told of a target over the signal connection. *)
Report(x, ok) == [target |-> x, healthy |-> ok]

(* Every MaxFail-th failure in a row is reported, and the end of such a row. *)
doCheck(x, ok) ==
  /\ up /\ checks < MaxChecks
  /\ checks' = checks + 1
  /\ fails' = [fails EXCEPT ![x] = IF ok THEN 0 ELSE @ + 1]
  /\ wire' = IF ~ok /\ fails'[x] % MaxFail = 0 THEN Append(wire, Report(x, FALSE))
             ELSE IF ok /\ fails[x] >= MaxFail THEN Append(wire, Report(x, TRUE))
             ELSE wire
  /\ probed' = [probed EXCEPT ![x] = IF ok THEN "ok" ELSE "failed"]
  /\ UNCHANGED <<owned, up, losses, server, missed>>

(* The loop of the checker, whose schedule may bring up any target next. *)
loop == \E x \in Set, ok \in BOOLEAN : doCheck(x, ok)

(* The connection breaks, and what was under way with it; the node closes. *)
Breaks ==
  /\ up /\ losses < MaxLosses
  /\ losses' = losses + 1
  /\ up' = FALSE
  /\ wire' = <<>>
  /\ UNCHANGED <<owned, fails, checks, server, probed, missed>>

(* The client connects again: its new checker counts from zero.  What it   *)
(* publishes replaces the list; a stored record keeps what was taken out.  *)
Reconnects ==
  /\ ~up
  /\ up' = TRUE
  /\ fails' = [x \in Set |-> 0]
  /\ probed' = [x \in Set |-> "never"]
  /\ IF owned
     THEN arr' = Nil /\ src' = FALSE /\ ix' = -1 /\ out' = <<>> /\ outSnap' = <<>> /\ missed' = {}
     ELSE UNCHANGED <<arr, src, ix, out, outSnap>> /\ missed' = {out[i] : i \in 1..Len(out)}
  /\ UNCHANGED <<owned, wire, checks, losses, picks, last>>

-----------------------------------------------------------------------------
(* The bridge.                                                             *)

State(a, b, i, o) == [arr |-> a, src |-> b, ix |-> i, out |-> o]

(* applyRuntimeTargetHealthLocked on a list and one of the two records of what was taken out. *)
Down(s, x) ==
  LET fresh == s.arr = Nil \/ (s.arr = <<>> /\ s.out = <<>>)
      a == IF fresh THEN Targets ELSE s.arr
      i == IF fresh THEN -1 ELSE s.ix IN
  State(RemoveArrVal(a, x), s.src \/ fresh, i, IF Has(s.out, x) THEN s.out ELSE Append(s.out, x))

Healthy(s, x) ==
  IF ~Has(s.out, x) THEN s
  ELSE LET a == IF s.arr = Nil THEN <<>> ELSE s.arr IN
       State(IF Has(a, x) THEN s.arr ELSE Append(a, x), s.src, s.ix, RemoveArrVal(s.out, x))

Apply(s, m) == IF m.healthy THEN Healthy(s, m.target) ELSE Down(s, m.target)

(* UpdateRuntimeTargetHealth: the owner's publication first, then the record that shows it. *)
UpdateRuntimeTargetHealth ==
  /\ wire # <<>>
  /\ wire' = Tail(wire)
  /\ LET m == Head(wire)
         s == IF owned THEN Apply(State(arr, src, ix, outSnap), m) ELSE State(arr, src, ix, outSnap)
         r == Apply(State(s.arr, s.src, s.ix, out), m) IN
     arr' = r.arr /\ src' = r.src /\ ix' = r.ix /\ out' = r.out /\ outSnap' = s.out
  /\ missed' = IF src' THEN missed \ {Head(wire).target} ELSE missed \union {Head(wire).target}
  /\ UNCHANGED <<owned, up, fails, checks, losses, picks, last, probed>>

(* An edit of a stored record brings a new list; what was taken out is still noted. *)
Edited ==
  /\ ~owned
  /\ arr # Nil
  /\ arr' = Nil /\ src' = FALSE /\ ix' = -1
  /\ missed' = missed \union {x \in Set : fails[x] >= MaxFail}
  /\ UNCHANGED <<owned, client, out, outSnap, picks, last>>

(* getNextTarget; the key of the route decides where the first turn begins. *)
getNextTarget(offset) ==
  LET fresh == arr = Nil \/ ~src
      a == IF fresh THEN Targets ELSE arr
      n == Len(a)
      i == IF fresh THEN -1 ELSE ix
      from == IF i < 0 THEN (offset % n) - 1 ELSE i
      at == IF from >= n - 1 THEN 0 ELSE from + 1 IN
  /\ picks < MaxPicks
  /\ picks' = picks + 1
  /\ arr' = a /\ src' = TRUE
  /\ \/ n = 0 /\ last' = None /\ ix' = i
     \/ n = 1 /\ last' = a[1] /\ ix' = i
     \/ n > 1 /\ last' = a[at + 1] /\ ix' = at
  /\ UNCHANGED <<owned, client, out, outSnap, missed>>

Next ==
  \/ loop
  \/ Breaks \/ Reconnects \/ UpdateRuntimeTargetHealth \/ Edited
  \/ \E k \in Offsets : getNextTarget(k)

Spec == Init /\ [][Next]_vars

-----------------------------------------------------------------------------
Settled == up /\ wire = <<>>

(* When every report has arrived, a target that failed often enough over   *)
(* this connection is not chosen, and one that was probed with success is  *)
(* there to be chosen; excepted are targets taken out in the time of an    *)
(* earlier connection and, until the next report, those of an edited       *)
(* record whose list is made anew.  The list never names a target twice.                           *)
ListFollowsHealth ==
  /\ Settled => \A x \in Set \ missed :
       /\ fails[x] >= MaxFail => x \notin Offered
       /\ probed[x] = "ok" => x \in Offered
  /\ arr # Nil => Cardinality({arr[i] : i \in 1..Len(arr)}) = Len(arr)

=============================================================================
