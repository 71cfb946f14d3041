---------------------------- MODULE PunchSession ----------------------------
(***************************************************************************)
(* Two peers punch through their NATs and agree on one pair of addresses.  *)
(* Every address family has a session of its own at each peer: the visitor *)
(* nominates a pair that answered (END), the provider accepts it (ACCEPT), *)
(* the visitor confirms it and says so (READY), and the provider confirms. *)
(* Nominations carry an epoch; one that is not accepted in time is given   *)
(* up for the next best pair with a higher epoch.  Packets are lost and    *)
(* overtake each other; a duplicate is dropped by the replay window, so a  *)
(* packet is read at most once.  The sessions of a peer share one channel  *)
(* of confirmed pairs, of which the first is handed over.                  *)
(*                                                                         *)
(* A path stands for the visitor's pair (local, remote) and the provider's *)
(* mirror image of it.  Every path has a reader, the goroutine of its      *)
(* socket; a handler that reads the nomination and then asks the candidate *)
(* manager takes two steps.                                                *)
(***************************************************************************)
EXTENDS Naturals, FiniteSets, WellFoundedInduction, TLAPS

CONSTANTS
  Families,     \* address families both peers have
  Paths,        \* pairs of addresses of a family, the lower the better ranked
  Sprays,       \* the peers that send punch packets of their own
  Losses,       \* whether packets may be lost
  Timeouts,     \* the peers whose handshake may time out
  MaxEpoch      \* bound on the nominations of a session

(* Path 0 stands for no pair. *)
ASSUME PathsAssumption == Paths \subseteq Nat \ {0}

Peers == {"visitor", "provider"}
Other(s) == IF s = "visitor" THEN "provider" ELSE "visitor"
Pair(x, e) == [path |-> x, epoch |-> e]
NoPair == Pair(0, 0)
Nothing == [family |-> "", path |-> 0]

VARIABLES
  net,          \* packets under way
  phase,        \* of each session
  cand,         \* the visitor's candidates, those nominated counted as succeeded
  cooling,      \* the visitor's candidates that may not be nominated yet
  nominated,    \* the nominated pair of each session, 0 if none
  confirmed,    \* the confirmed pair of each session, 0 if none
  epoch,        \* the visitor's last nomination epoch
  outbound,     \* the visitor's nomination
  inbound,      \* the proposal the provider has adopted
  scheduled,    \* whether a first nomination waits for its delay
  retrying,     \* whether a nomination waits for the cooldown
  reader,       \* what the reader of a path is about to do
  channel,      \* the confirmed pair a peer's session has signalled
  outcome       \* of each peer

cmVars == <<cand, cooling, nominated, confirmed>>
visitorVars == <<epoch, outbound, scheduled, retrying>>
endVars == <<channel, outcome>>
vars == <<net, phase, cmVars, visitorVars, inbound, reader, endVars>>

Sessions == Peers \X Families
Running(s) == outcome[s] = "running"
Idle == [at |-> "idle", epoch |-> 0]

Packet(to, f, x, t, e) == [to |-> to, family |-> f, path |-> x, type |-> t, epoch |-> e]
Send(ps) == net \union ps

(* The phases are passed in order; an event that does not lead forward is dropped. *)
Order(p) == CASE p = "created" -> 0 [] p = "ready_sent" -> 1 [] p = "punching" -> 2
              [] p = "negotiating" -> 3 [] p = "confirmed" -> 4 [] p = "handover" -> 5
transitionPhase(current, next) ==
  IF current \in {"failed", "handover"} THEN current
  ELSE IF next = "failed" THEN next
  ELSE IF Order(next) < Order(current) THEN current ELSE next
Phases(s, f, next) == [phase EXCEPT ![<<s, f>>] = transitionPhase(@, next)]

HasConfirmedOrNominated(s, f) == confirmed[<<s, f>>] # 0 \/ nominated[<<s, f>>] # 0

-----------------------------------------------------------------------------
(* The candidate manager. *)

Observed(f, x) ==
  CASE cand[f][x] = "none" -> "discovered"
    [] cand[f][x] = "closed" /\ confirmed[<<"visitor", f>>] = 0 -> "discovered"
    [] OTHER -> cand[f][x]
Observe(s, f, x) == IF s = "visitor" THEN [cand EXCEPT ![f][x] = Observed(f, x)] ELSE cand

(* A pair closed by the confirmation of another one stays closed. *)
MarkSucceeded(s, f, x) ==
  IF s # "visitor" THEN cand
  ELSE [cand EXCEPT ![f][x] = IF Observed(f, x) = "closed" \/ confirmed[<<s, f>>] = x THEN @ ELSE "succeeded"]

Nominable(f) == {x \in Paths : cand[f][x] = "succeeded" /\ x \notin cooling[f] /\ x # confirmed[<<"visitor", f>>]}
Best(S) == CHOOSE x \in S : \A y \in S : x <= y

(* The visitor no longer nominates x: it stays a success, to be nominated after the cooldown. *)
BackedOff(f, x) == nominated[<<"visitor", f>>] = x /\ confirmed[<<"visitor", f>>] = 0

(* Only the nominated pair is confirmed, once; the others are closed. *)
MayConfirm(s, f, x) == nominated[<<s, f>>] = x /\ confirmed[<<s, f>>] = 0
Confirm(s, f, x) ==
  /\ confirmed' = [confirmed EXCEPT ![<<s, f>>] = x]
  /\ nominated' = [nominated EXCEPT ![<<s, f>>] = 0]
  /\ cand' = IF s = "visitor"
             THEN [cand EXCEPT ![f] = [y \in Paths |-> IF y # x /\ @[y] # "none" THEN "closed" ELSE @[y]]]
             ELSE cand

(* Pairs that were not heard of for long are closed, then forgotten. *)
PruneStale(f, x) ==
  /\ Running("visitor") /\ nominated[<<"visitor", f>>] # x /\ confirmed[<<"visitor", f>>] # x
  /\ cand[f][x] \in {"discovered", "succeeded"}
  /\ cand' = [cand EXCEPT ![f][x] = "closed"]
  /\ UNCHANGED <<net, phase, cooling, nominated, confirmed, visitorVars, inbound, reader, endVars>>
CleanupClosed(f, x) ==
  /\ Running("visitor") /\ cand[f][x] = "closed"
  /\ cand' = [cand EXCEPT ![f][x] = "none"]
  /\ cooling' = [cooling EXCEPT ![f] = @ \ {x}]
  /\ UNCHANGED <<net, phase, nominated, confirmed, visitorVars, inbound, reader, endVars>>
CooldownEnds(f, x) ==
  /\ x \in cooling[f]
  /\ cooling' = [cooling EXCEPT ![f] = @ \ {x}]
  /\ UNCHANGED <<net, phase, cand, nominated, confirmed, visitorVars, inbound, reader, endVars>>

-----------------------------------------------------------------------------
(* Nomination by the visitor. *)

(* With nom nominated nothing happens, and out stays the nomination. *)
nominateBestCandidate(f, nom, out, cool) ==
  LET best == {x \in Nominable(f) : x \notin cool}
  IN IF nom # 0 \/ best = {}
     THEN /\ nominated' = [nominated EXCEPT ![<<"visitor", f>>] = nom]
          /\ UNCHANGED <<net, phase, epoch>>
          /\ outbound' = [outbound EXCEPT ![f] = out]
     ELSE LET x == Best(best)
              e == epoch[f] + 1
          IN /\ e <= MaxEpoch
             /\ nominated' = [nominated EXCEPT ![<<"visitor", f>>] = x]
             /\ epoch' = [epoch EXCEPT ![f] = e]
             /\ outbound' = [outbound EXCEPT ![f] = Pair(x, e)]
             /\ phase' = Phases("visitor", f, "negotiating")
             /\ net' = Send({Packet("provider", f, x, "punch", 0), Packet("provider", f, x, "end", e)})

NominationDelayEnds(f) ==
  /\ Running("visitor") /\ scheduled[f]
  /\ scheduled' = [scheduled EXCEPT ![f] = FALSE]
  /\ nominateBestCandidate(f, nominated[<<"visitor", f>>], outbound[f], {})
  /\ UNCHANGED <<cand, cooling, confirmed, retrying, inbound, reader, endVars>>

RetryDelayEnds(f) ==
  /\ Running("visitor") /\ retrying[f]
  /\ retrying' = [retrying EXCEPT ![f] = FALSE]
  /\ nominateBestCandidate(f, nominated[<<"visitor", f>>], outbound[f], {})
  /\ UNCHANGED <<cand, cooling, confirmed, scheduled, inbound, reader, endVars>>

(* The nomination loop repeats the proposal until something is confirmed. *)
NominationLoop(f) ==
  /\ Running("visitor") /\ outbound[f] # NoPair /\ confirmed[<<"visitor", f>>] = 0
  /\ net' = Send({Packet("provider", f, outbound[f].path, t, IF t = "end" THEN outbound[f].epoch ELSE 0) : t \in {"punch", "end"}})
  /\ UNCHANGED <<phase, cmVars, visitorVars, inbound, reader, endVars>>

(* A nomination not accepted in time: back off, nominate the next best, or try again after the cooldown. *)
tryRenominate(f) ==
  LET x == outbound[f].path
      back == BackedOff(f, x)
      nom == IF back THEN 0 ELSE nominated[<<"visitor", f>>]
  IN /\ Running("visitor") /\ outbound[f] # NoPair
     /\ cooling' = IF back THEN [cooling EXCEPT ![f] = @ \union {x}] ELSE cooling
     /\ nominateBestCandidate(f, nom, NoPair, IF back THEN {x} ELSE {})
     /\ retrying' = [retrying EXCEPT ![f] = @ \/ nominated'[<<"visitor", f>>] = 0]
     /\ UNCHANGED <<cand, confirmed, scheduled, inbound, reader, endVars>>

-----------------------------------------------------------------------------
(* Packets. *)

(* Spraying goes on until a pair is nominated. *)
Spray(s, f, x) ==
  /\ s \in Sprays /\ Running(s) /\ ~HasConfirmedOrNominated(s, f)
  /\ net' = Send({Packet(Other(s), f, x, "punch", 0)})
  /\ UNCHANGED <<phase, cmVars, visitorVars, inbound, reader, endVars>>

Lose(m) ==
  /\ Losses
  /\ net' = net \ {m}
  /\ UNCHANGED <<phase, cmVars, visitorVars, inbound, reader, endVars>>

Reads(m) == m \in net /\ Running(m.to) /\ reader[<<m.to, m.family, m.path>>] = Idle
Reply(m, ps) == net' = (net \ {m}) \union ps

handleProbePacket(m) ==
  /\ m.type = "punch" /\ Reads(m)
  /\ cand' = Observe(m.to, m.family, m.path)
  /\ Reply(m, {Packet(Other(m.to), m.family, m.path, "succ", 0)})
  /\ UNCHANGED <<phase, cooling, nominated, confirmed, visitorVars, inbound, reader, endVars>>

handleSuccessPacket(m) ==
  /\ m.type = "succ" /\ Reads(m)
  /\ phase' = Phases(m.to, m.family, "negotiating")
  /\ cand' = MarkSucceeded(m.to, m.family, m.path)
  /\ IF m.to = "visitor"
     THEN /\ scheduled' = [scheduled EXCEPT ![m.family] = @ \/ ~HasConfirmedOrNominated("visitor", m.family)]
          /\ Reply(m, {})
     ELSE /\ Reply(m, {Packet("visitor", m.family, m.path, "succ", 0)})
          /\ UNCHANGED scheduled
  /\ UNCHANGED <<cooling, nominated, confirmed, epoch, outbound, retrying, inbound, reader, endVars>>

(* Mutant: the epoch of a proposal is not looked at. *)
AdoptsAny(f, x, e) == TRUE
(* The provider adopts a proposal unless it has a later one, or another one of that epoch. *)
Adopts(f, x, e) == inbound[f].epoch < e \/ inbound[f] = Pair(x, e)
handleProposalPacket(m) ==
  /\ m.type = "end" /\ Reads(m)
  /\ IF Adopts(m.family, m.path, m.epoch)
     THEN /\ inbound' = [inbound EXCEPT ![m.family] = Pair(m.path, m.epoch)]
          /\ reader' = [reader EXCEPT ![<<m.to, m.family, m.path>>] = [at |-> "adopt", epoch |-> m.epoch]]
     ELSE UNCHANGED <<inbound, reader>>
  /\ Reply(m, {})
  /\ UNCHANGED <<phase, cmVars, visitorVars, endVars>>

(* Then its candidate manager does, whatever was nominated, and the proposal is accepted. *)
AdoptNomination(f, x) ==
  LET r == reader[<<"provider", f, x>>]
  IN /\ r.at = "adopt" /\ Running("provider")
     /\ reader' = [reader EXCEPT ![<<"provider", f, x>>] = Idle]
     /\ IF confirmed[<<"provider", f>>] # 0
        THEN UNCHANGED <<net, phase, nominated>>
        ELSE /\ nominated' = [nominated EXCEPT ![<<"provider", f>>] = x]
             /\ phase' = Phases("provider", f, "negotiating")
             /\ net' = Send({Packet("visitor", f, x, "succ", 0), Packet("visitor", f, x, "accept", r.epoch)})
     /\ UNCHANGED <<cand, cooling, confirmed, visitorVars, inbound, endVars>>

(* The accept loop repeats the answer until something is confirmed. *)
AcceptLoop(f) ==
  /\ Running("provider") /\ inbound[f] # NoPair /\ confirmed[<<"provider", f>>] = 0
  /\ nominated[<<"provider", f>>] # 0
  /\ net' = Send({Packet("visitor", f, inbound[f].path, t, IF t = "accept" THEN inbound[f].epoch ELSE 0) : t \in {"succ", "accept"}})
  /\ UNCHANGED <<phase, cmVars, visitorVars, inbound, reader, endVars>>

matchesOutboundNomination(f, x, e) == outbound[f] = Pair(x, e)
matchesInboundProposal(f, x, e) == inbound[f] = Pair(x, e)

(* An ACCEPT or READY is for the current nomination, or nothing happens. *)
Matches(m) ==
  /\ m.type \in {"accept", "ready"} /\ Reads(m)
  /\ cand' = Observe(m.to, m.family, m.path)
  /\ reader' = IF IF m.type = "accept" THEN matchesOutboundNomination(m.family, m.path, m.epoch)
                                       ELSE matchesInboundProposal(m.family, m.path, m.epoch)
               THEN [reader EXCEPT ![<<m.to, m.family, m.path>>] = [at |-> "confirm", epoch |-> m.epoch]]
               ELSE reader
  /\ Reply(m, {})
  /\ UNCHANGED <<phase, cooling, nominated, confirmed, visitorVars, inbound, endVars>>

(* The burst that tells the provider of the confirmation. *)
(* Mutant: it is sent for every accepted nomination. *)
readyBurstAlways(f, x, e) == {Packet("provider", f, x, "ready", e)}
readyBurst(f, x, e) == IF MayConfirm("visitor", f, x) THEN {Packet("provider", f, x, "ready", e)} ELSE {}

(* The visitor confirms and says so, four times over. *)
handleAcceptPacket(f, x) ==
  LET r == reader[<<"visitor", f, x>>]
  IN /\ r.at = "confirm" /\ Running("visitor")
     /\ IF MayConfirm("visitor", f, x)
        THEN /\ Confirm("visitor", f, x)
             /\ outbound' = [outbound EXCEPT ![f] = IF @ = Pair(x, r.epoch) THEN NoPair ELSE @]
             /\ reader' = [reader EXCEPT ![<<"visitor", f, x>>].at = "signal"]
        ELSE /\ reader' = [reader EXCEPT ![<<"visitor", f, x>>] = Idle]
             /\ UNCHANGED <<cand, nominated, confirmed, outbound>>
     /\ net' = Send(readyBurst(f, x, r.epoch))
     /\ UNCHANGED <<phase, cooling, epoch, scheduled, retrying, inbound, endVars>>

handleReadyPacket(f, x) ==
  LET r == reader[<<"provider", f, x>>]
  IN /\ r.at = "confirm" /\ Running("provider")
     /\ IF MayConfirm("provider", f, x)
        THEN /\ Confirm("provider", f, x)
             /\ reader' = [reader EXCEPT ![<<"provider", f, x>>].at = "signal"]
        ELSE /\ reader' = [reader EXCEPT ![<<"provider", f, x>>] = Idle]
             /\ UNCHANGED <<cand, nominated, confirmed>>
     /\ UNCHANGED <<net, phase, cooling, visitorVars, inbound, endVars>>

(* A second session that confirms finds the channel full. *)
signalConfirmed(s, f, x) ==
  /\ reader[<<s, f, x>>].at = "signal" /\ Running(s)
  /\ reader' = [reader EXCEPT ![<<s, f, x>>] = Idle]
  /\ phase' = Phases(s, f, "confirmed")
  /\ channel' = IF channel[s] = Nothing THEN [channel EXCEPT ![s] = [family |-> f, path |-> x]] ELSE channel
  /\ UNCHANGED <<net, cmVars, visitorVars, inbound, outcome>>

-----------------------------------------------------------------------------
(* The first confirmed pair is handed over; without one the handshake fails at its deadline. *)
finalizeRuntimeHandover(s) ==
  /\ Running(s) /\ channel[s] # Nothing
  /\ outcome' = [outcome EXCEPT ![s] = "handed"]
  /\ phase' = Phases(s, channel[s].family, "handover")
  /\ UNCHANGED <<net, cmVars, visitorVars, inbound, reader, channel>>
failRuntimeHandshake(s) ==
  /\ Running(s) /\ channel[s] = Nothing /\ s \in Timeouts
  /\ outcome' = [outcome EXCEPT ![s] = "failed"]
  /\ phase' = [q \in Sessions |-> IF q[1] = s THEN transitionPhase(phase[q], "failed") ELSE phase[q]]
  /\ UNCHANGED <<net, cmVars, visitorVars, inbound, reader, channel>>

Init ==
  /\ net = {} /\ phase = [q \in Sessions |-> "punching"]
  /\ cand = [f \in Families |-> [x \in Paths |-> "none"]]
  /\ cooling = [f \in Families |-> {}]
  /\ nominated = [q \in Sessions |-> 0] /\ confirmed = [q \in Sessions |-> 0]
  /\ epoch = [f \in Families |-> 0] /\ outbound = [f \in Families |-> NoPair] /\ inbound = [f \in Families |-> NoPair]
  /\ scheduled = [f \in Families |-> FALSE] /\ retrying = [f \in Families |-> FALSE]
  /\ reader = [q \in Peers \X Families \X Paths |-> Idle]
  /\ channel = [s \in Peers |-> Nothing] /\ outcome = [s \in Peers |-> "running"]

Receives(m) == handleProbePacket(m) \/ handleSuccessPacket(m) \/ handleProposalPacket(m) \/ Matches(m)
Continues(f, x) ==
  AdoptNomination(f, x) \/ handleAcceptPacket(f, x) \/ handleReadyPacket(f, x) \/ \E s \in Peers : signalConfirmed(s, f, x)
Delays(f) == NominationDelayEnds(f) \/ RetryDelayEnds(f)
Ages(f, x) == PruneStale(f, x) \/ CleanupClosed(f, x)

Next ==
  \/ \E m \in net : Receives(m) \/ Lose(m)
  \/ \E f \in Families :
       \/ Delays(f) \/ NominationLoop(f) \/ tryRenominate(f) \/ AcceptLoop(f)
       \/ \E x \in Paths : Continues(f, x) \/ Ages(f, x) \/ CooldownEnds(f, x) \/ \E s \in Peers : Spray(s, f, x)
  \/ \E s \in Peers : finalizeRuntimeHandover(s) \/ failRuntimeHandshake(s)

Spec == Init /\ [][Next]_vars

(* The provider confirms only what the visitor has confirmed: a pair that was given up, or *)
(* accepted under an older epoch, is never the one the peers end with. *)
PeersAgree ==
  \A f \in Families : confirmed[<<"provider", f>>] # 0 => confirmed[<<"visitor", f>>] = confirmed[<<"provider", f>>]

(* A visitor that has handed over its pair is not left alone: the provider hands over as well, *)
(* when READY is not lost and nothing times out. *)
NotStranded == (outcome["visitor"] = "handed") ~> (outcome["provider"] = "handed")

-----------------------------------------------------------------------------
(* The proof of PeersAgree.  Whatever the network does with the packets, a  *)
(* READY exists only for the pair the visitor has confirmed, and that pair  *)
(* never changes; so the two steps of the provider's handler, between which *)
(* anything may happen, still end with the visitor's pair.                  *)
Readers == Peers \X Families \X Paths
Packets ==
  [to : Peers, family : Families, path : Paths, type : {"punch", "succ", "end", "accept", "ready"}, epoch : Nat]
Proposals == {NoPair} \union [path : Paths, epoch : Nat]

TypeOK ==
  /\ net \subseteq Packets
  /\ nominated \in [Sessions -> Paths \union {0}]
  /\ confirmed \in [Sessions -> Paths \union {0}]
  /\ cand \in [Families -> [Paths -> {"none", "discovered", "succeeded", "closed"}]]
  /\ cooling \in [Families -> SUBSET Paths]
  /\ epoch \in [Families -> Nat]
  /\ outbound \in [Families -> Proposals]
  /\ inbound \in [Families -> Proposals]
  /\ reader \in [Readers -> [at : {"idle", "adopt", "confirm", "signal"}, epoch : Nat]]
  /\ channel \in [Peers -> {Nothing} \union [family : Families, path : Paths]]

AcceptedByProvider == \A m \in net : m.type = "accept" => m.to = "visitor"
ReadyIsConfirmed ==
  \A m \in net : m.type = "ready" => m.to = "provider" /\ confirmed[<<"visitor", m.family>>] = m.path
ConfirmingWhatIsConfirmed ==
  \A f \in Families, x \in Paths :
    reader[<<"provider", f, x>>].at = "confirm" => confirmed[<<"visitor", f>>] = x
SignalsWhatIsConfirmed ==
  \A s \in Peers, f \in Families, x \in Paths : reader[<<s, f, x>>].at = "signal" => confirmed[<<s, f>>] = x
ChannelIsConfirmed ==
  \A s \in Peers : channel[s] # Nothing => confirmed[<<s, channel[s].family>>] = channel[s].path

IInv == TypeOK /\ AcceptedByProvider /\ ReadyIsConfirmed /\ ConfirmingWhatIsConfirmed
          /\ SignalsWhatIsConfirmed /\ ChannelIsConfirmed /\ PeersAgree

(* A non-empty set of paths has a best one: Best is never an arbitrary value. *)
LEMMA BestIsIn ==
  ASSUME NEW S, S \subseteq Paths, S # {} PROVE Best(S) \in S
<1> DEFINE LT == {ss \in Nat \X Nat : ss[1] < ss[2]}
<1>1. IsWellFoundedOn(LT, Nat)
  BY NatLessThanWellFounded, Zenon DEF OpToRel
<1> HIDE DEF LT
<1>2. S \subseteq Nat
  BY Zenon, PathsAssumption
<1>3. PICK x \in S : \A y \in S : ~ (<<y, x>> \in LT)
  BY <1>1, <1>2, WFMin, Zenon
<1>4. ASSUME NEW y \in S PROVE x <= y
  <2>1. x \in Nat /\ y \in Nat
    BY Zenon, <1>2
  <2>2. ~ (<<y, x>> \in LT)
    BY Zenon, <1>3
  <2> QED
    BY <2>1, <2>2 DEF LT
<1> QED
  BY Zenon, <1>4 DEF Best

(* The packets a step adds, for the shape of the others. *)
LEMMA PacketType ==
  ASSUME NEW to \in Peers, NEW f \in Families, NEW x \in Paths, NEW e \in Nat,
         NEW t \in {"punch", "succ", "end", "accept", "ready"}
  PROVE  /\ Packet(to, f, x, t, e) \in Packets
         /\ Packet(to, f, x, t, e).to = to
         /\ Packet(to, f, x, t, e).type = t
         /\ Packet(to, f, x, t, e).family = f
         /\ Packet(to, f, x, t, e).path = x
  BY Zenon DEF Packet, Packets

(* Nothing is confirmed when the sessions start. *)
LEMMA InitIInv == Init => IInv
<1> SUFFICES ASSUME Init PROVE IInv
  BY Zenon
<1> USE DEF Init
<1>1. TypeOK
  BY Zenon DEF TypeOK, Sessions, Readers, Proposals, Idle, Nothing, NoPair, Pair
<1>2. AcceptedByProvider /\ ReadyIsConfirmed
  BY Zenon DEF AcceptedByProvider, ReadyIsConfirmed
<1>3. ConfirmingWhatIsConfirmed /\ SignalsWhatIsConfirmed
  BY Zenon DEF ConfirmingWhatIsConfirmed, SignalsWhatIsConfirmed, Idle, Peers
<1>4. ChannelIsConfirmed
  BY Zenon DEF ChannelIsConfirmed
<1>5. PeersAgree
  BY Zenon DEF PeersAgree, Sessions, Peers
<1> QED
  BY Zenon, <1>1, <1>2, <1>3, <1>4, <1>5 DEF IInv

(* Steps that change neither what is confirmed nor the readers, the channel and the proposals: it is enough that  *)
(* the packets they add are no ACCEPT or READY. *)
LEMMA QuietStep ==
  ASSUME IInv, TypeOK',
         \A m \in net' \ net : m.type # "accept" /\ m.type # "ready",
         UNCHANGED <<confirmed, reader, channel>>
  PROVE  IInv'
<1>1. AcceptedByProvider'
  BY Zenon DEF IInv, AcceptedByProvider
<1>2. ReadyIsConfirmed'
  BY Zenon DEF IInv, ReadyIsConfirmed
<1>3. /\ ConfirmingWhatIsConfirmed' /\ SignalsWhatIsConfirmed' /\ ChannelIsConfirmed' /\ PeersAgree'
  BY Zenon DEF IInv, ConfirmingWhatIsConfirmed, SignalsWhatIsConfirmed, ChannelIsConfirmed, PeersAgree
<1> QED
  BY Zenon, <1>1, <1>2, <1>3 DEF IInv

(* What a nomination changes, if it happens at all. *)
LEMMA Nomination ==
  ASSUME TypeOK, NEW f \in Families, NEW nom \in Paths \union {0}, NEW out \in Proposals, NEW cool,
         nominateBestCandidate(f, nom, out, cool)
  PROVE  /\ nominated' \in [Sessions -> Paths \union {0}]
         /\ epoch' \in [Families -> Nat]
         /\ outbound' \in [Families -> Proposals]
         /\ net' \subseteq Packets
         /\ \A m \in net' \ net : m.type # "accept" /\ m.type # "ready"
<1> DEFINE best == {x \in Nominable(f) : x \notin cool}
<1>1. CASE nom # 0 \/ best = {}
  BY Zenon, <1>1 DEF nominateBestCandidate, TypeOK, Sessions
<1>2. CASE ~ (nom # 0 \/ best = {})
  <2>1. Best(best) \in Paths
    BY Zenon, <1>2, BestIsIn DEF Nominable
  <2>2. epoch[f] + 1 \in Nat
    BY DEF TypeOK
  <2> DEFINE x == Best(best)
             e == epoch[f] + 1
  <2>3. /\ nominated' = [nominated EXCEPT ![<<"visitor", f>>] = x]
        /\ epoch' = [epoch EXCEPT ![f] = e]
        /\ outbound' = [outbound EXCEPT ![f] = Pair(x, e)]
        /\ net' = net \union {Packet("provider", f, x, "punch", 0), Packet("provider", f, x, "end", e)}
    BY Zenon, <1>2 DEF nominateBestCandidate, Send
  <2>4. Pair(x, e) \in Proposals
    BY Zenon, <2>1, <2>2 DEF Pair, Proposals
  <2> HIDE DEF x, e
  <2>5. /\ Packet("provider", f, x, "punch", 0) \in Packets
        /\ Packet("provider", f, x, "punch", 0).type = "punch"
        /\ Packet("provider", f, x, "end", e) \in Packets
        /\ Packet("provider", f, x, "end", e).type = "end"
    BY <2>1, <2>2, PacketType DEF Peers, x, e
  <2>6. x \in Paths /\ e \in Nat
    BY Zenon, <2>1, <2>2 DEF x, e
  <2> QED
    BY Zenon, <2>3, <2>4, <2>5, <2>6 DEF TypeOK
<1> QED
  BY Zenon, <1>1, <1>2

(* The end of the nomination delay or of the retry delay (scheduleNomination, the retry timer). *)
LEMMA DelaysKeep == ASSUME IInv, NEW f \in Families, Delays(f) PROVE IInv'
<1>1. /\ nominateBestCandidate(f, nominated[<<"visitor", f>>], outbound[f], {})
      /\ UNCHANGED <<cand, cooling, confirmed, inbound, reader, endVars>>
  BY Zenon DEF Delays, NominationDelayEnds, RetryDelayEnds
<1>2. nominated[<<"visitor", f>>] \in Paths \union {0} /\ outbound[f] \in Proposals
  BY Zenon DEF IInv, TypeOK, Sessions, Peers
<1>3. TypeOK' /\ \A m \in net' \ net : m.type # "accept" /\ m.type # "ready"
  BY Zenon, <1>1, <1>2, Nomination DEF IInv, TypeOK, endVars
<1> QED
  BY Zenon, <1>1, <1>3, QuietStep DEF endVars

(* A nomination that is given up (tryRenominate). *)
LEMMA RenominateKeeps == ASSUME IInv, NEW f \in Families, tryRenominate(f) PROVE IInv'
<1> DEFINE back == BackedOff(f, outbound[f].path)
           nom == IF back THEN 0 ELSE nominated[<<"visitor", f>>]
<1>1. /\ nominateBestCandidate(f, nom, NoPair, IF back THEN {outbound[f].path} ELSE {})
      /\ outbound[f] # NoPair
      /\ cooling' = IF back THEN [cooling EXCEPT ![f] = @ \union {outbound[f].path}] ELSE cooling
      /\ UNCHANGED <<cand, confirmed, inbound, reader, endVars>>
  BY Zenon DEF tryRenominate
<1>2. nom \in Paths \union {0} /\ NoPair \in Proposals /\ outbound[f].path \in Paths
  BY Zenon, <1>1 DEF IInv, TypeOK, Sessions, Peers, Proposals
<1>3. cooling' \in [Families -> SUBSET Paths]
  BY Zenon, <1>1, <1>2 DEF IInv, TypeOK
<1> HIDE DEF back, nom
<1>4. /\ nominated' \in [Sessions -> Paths \union {0}]
      /\ epoch' \in [Families -> Nat]
      /\ outbound' \in [Families -> Proposals]
      /\ net' \subseteq Packets
      /\ \A m \in net' \ net : m.type # "accept" /\ m.type # "ready"
  BY Zenon, <1>1, <1>2, Nomination DEF IInv
<1>5. TypeOK'
  BY Zenon, <1>1, <1>3, <1>4 DEF IInv, TypeOK, endVars
<1> QED
  BY Zenon, <1>1, <1>4, <1>5, QuietStep DEF endVars

(* What is observed or has succeeded leaves the table of candidates one. *)
LEMMA ObserveType ==
  ASSUME TypeOK, NEW s \in Peers, NEW f \in Families, NEW x \in Paths
  PROVE  /\ Observe(s, f, x) \in [Families -> [Paths -> {"none", "discovered", "succeeded", "closed"}]]
         /\ MarkSucceeded(s, f, x) \in [Families -> [Paths -> {"none", "discovered", "succeeded", "closed"}]]
  BY Zenon DEF TypeOK, Observe, Observed, MarkSucceeded

(* The fields of a packet in flight. *)
LEMMA PacketParts ==
  ASSUME TypeOK, NEW m \in net
  PROVE  m \in Packets /\ m.to \in Peers /\ m.family \in Families /\ m.path \in Paths /\ m.epoch \in Nat
  BY Zenon DEF TypeOK, Packets

(* A probe and the answer to it (handleProbePacket, handleSuccessPacket). *)
LEMMA ProbeKeeps == ASSUME IInv, NEW m \in net, handleProbePacket(m) \/ handleSuccessPacket(m) PROVE IInv'
<1>1. /\ m \in Packets /\ m.to \in Peers /\ m.family \in Families /\ m.path \in Paths /\ Other(m.to) \in Peers
  BY Zenon, PacketParts DEF IInv, Other, Peers
<1>2. PICK p \in {Other(m.to), "visitor"} :
         /\ net' \subseteq (net \ {m}) \union {Packet(p, m.family, m.path, "succ", 0)}
         /\ cand' \in {Observe(m.to, m.family, m.path), MarkSucceeded(m.to, m.family, m.path)}
         /\ UNCHANGED <<cooling, nominated, confirmed, epoch, outbound, inbound, reader, endVars>>
  BY Zenon DEF handleProbePacket, handleSuccessPacket, Reply, visitorVars
<1>3. /\ Packet(p, m.family, m.path, "succ", 0) \in Packets
      /\ Packet(p, m.family, m.path, "succ", 0).type = "succ"
  BY <1>1, PacketType DEF Peers
<1>4. cand' \in [Families -> [Paths -> {"none", "discovered", "succeeded", "closed"}]]
  BY <1>1, <1>2, ObserveType DEF IInv
<1>5. net' \subseteq Packets
  BY Zenon, <1>2, <1>3 DEF IInv, TypeOK
<1>6. TypeOK'
  BY Zenon, <1>2, <1>4, <1>5 DEF IInv, TypeOK, endVars
<1> QED
  BY Zenon, <1>2, <1>3, <1>6, QuietStep DEF endVars

(* The nomination loop, which repeats the proposal. *)
LEMMA LoopKeeps == ASSUME IInv, NEW f \in Families, NominationLoop(f) PROVE IInv'
<1>1. outbound[f].path \in Paths /\ outbound[f].epoch \in Nat
  BY Zenon DEF NominationLoop, IInv, TypeOK, Proposals
<1>2. /\ Packet("provider", f, outbound[f].path, "punch", 0) \in Packets
      /\ Packet("provider", f, outbound[f].path, "punch", 0).type = "punch"
      /\ Packet("provider", f, outbound[f].path, "end", outbound[f].epoch) \in Packets
      /\ Packet("provider", f, outbound[f].path, "end", outbound[f].epoch).type = "end"
  BY <1>1, PacketType DEF Peers
<1>3. /\ net' = net \union {Packet("provider", f, outbound[f].path, "punch", 0),
                            Packet("provider", f, outbound[f].path, "end", outbound[f].epoch)}
      /\ UNCHANGED <<cmVars, visitorVars, inbound, reader, endVars>>
  BY Zenon DEF NominationLoop, Send
<1>4. TypeOK'
  BY Zenon, <1>2, <1>3 DEF IInv, TypeOK, cmVars, visitorVars, endVars
<1> QED
  BY Zenon, <1>2, <1>3, <1>4, QuietStep DEF cmVars, endVars

(* The sprays of a peer that has nominated nothing. *)
LEMMA SprayKeeps == ASSUME IInv, NEW f \in Families, NEW x \in Paths, NEW s \in Peers, Spray(s, f, x) PROVE IInv'
<1>1. /\ Packet(Other(s), f, x, "punch", 0) \in Packets
      /\ Packet(Other(s), f, x, "punch", 0).type = "punch"
  BY PacketType DEF Peers, Other
<1>2. /\ net' = net \union {Packet(Other(s), f, x, "punch", 0)}
      /\ UNCHANGED <<cmVars, visitorVars, inbound, reader, endVars>>
  BY Zenon DEF Spray, Send
<1>3. TypeOK'
  BY Zenon, <1>1, <1>2 DEF IInv, TypeOK, cmVars, visitorVars, endVars
<1> QED
  BY Zenon, <1>1, <1>2, <1>3, QuietStep DEF cmVars, endVars

(* Candidates that age (PruneStale, CleanupClosed) and cooldowns that end. *)
LEMMA AgesKeep ==
  ASSUME IInv, NEW f \in Families, NEW x \in Paths, Ages(f, x) \/ CooldownEnds(f, x)
  PROVE  IInv'
<1>1. UNCHANGED <<net, nominated, confirmed, visitorVars, inbound, reader, endVars>>
  BY Zenon DEF Ages, PruneStale, CleanupClosed, CooldownEnds
<1>2. /\ cand' = cand \/ \E c \in {"none", "closed"} : cand' = [cand EXCEPT ![f][x] = c]
      /\ cooling' = cooling \/ cooling' = [cooling EXCEPT ![f] = @ \ {x}]
  BY Zenon DEF Ages, PruneStale, CleanupClosed, CooldownEnds
<1>3. cand' \in [Families -> [Paths -> {"none", "discovered", "succeeded", "closed"}]]
  <2>1. ASSUME NEW c \in {"none", "closed"}
        PROVE  [cand EXCEPT ![f][x] = c] \in [Families -> [Paths -> {"none", "discovered", "succeeded", "closed"}]]
    <3>1. [cand[f] EXCEPT ![x] = c] \in [Paths -> {"none", "discovered", "succeeded", "closed"}]
      BY Zenon DEF IInv, TypeOK
    <3> QED
      BY Zenon, <3>1 DEF IInv, TypeOK
  <2>2. CASE cand' = cand
    BY Zenon, <2>2 DEF IInv, TypeOK
  <2>3. CASE \E c \in {"none", "closed"} : cand' = [cand EXCEPT ![f][x] = c]
    BY <2>1, <2>3, Zenon
  <2> QED
    BY Zenon, <1>2, <2>2, <2>3
<1>4. cooling' \in [Families -> SUBSET Paths]
  BY <1>2 DEF IInv, TypeOK
<1>5. TypeOK'
  BY Zenon, <1>1, <1>3, <1>4 DEF IInv, TypeOK, visitorVars, endVars
<1> QED
  BY Zenon, <1>1, <1>5, QuietStep DEF endVars

(* A packet that is lost, and the two ends of a handshake. *)
LEMMA EndsKeep ==
  ASSUME IInv,
         \/ \E m \in net : Lose(m)
         \/ \E s \in Peers : finalizeRuntimeHandover(s) \/ failRuntimeHandshake(s)
  PROVE  IInv'
<1>1. /\ net' \subseteq net
      /\ UNCHANGED <<cmVars, visitorVars, inbound, reader, channel>>
  BY Zenon DEF Lose, finalizeRuntimeHandover, failRuntimeHandshake, endVars
<1>2. TypeOK'
  BY Zenon, <1>1 DEF IInv, TypeOK, cmVars, visitorVars
<1> QED
  BY Zenon, <1>1, <1>2, QuietStep DEF cmVars

(* The handlers whose step changes a reader. *)
LEMMA ProposalKeeps == ASSUME IInv, NEW m \in net, handleProposalPacket(m) PROVE IInv'
<1> DEFINE q0 == <<m.to, m.family, m.path>>
           r0 == [at |-> "adopt", epoch |-> m.epoch]
<1>1. /\ m.to \in Peers /\ m.family \in Families /\ m.path \in Paths /\ m.epoch \in Nat
  BY Zenon, PacketParts DEF IInv
<1>2. /\ net' = net \ {m}
      /\ UNCHANGED <<cmVars, visitorVars, endVars>>
      /\ inbound' = inbound \/ inbound' = [inbound EXCEPT ![m.family] = Pair(m.path, m.epoch)]
      /\ reader' = reader
           \/ reader' = [reader EXCEPT ![q0] = r0]
  BY Zenon DEF handleProposalPacket, Reply
<1>3. Pair(m.path, m.epoch) \in Proposals
  BY Zenon, <1>1 DEF Pair, Proposals
<1>4. q0 \in Readers /\ r0 \in [at : {"idle", "adopt", "confirm", "signal"}, epoch : Nat] /\ r0.at = "adopt"
  BY Zenon, <1>1 DEF Readers
<1> HIDE DEF q0, r0
<1>5. reader' \in [Readers -> [at : {"idle", "adopt", "confirm", "signal"}, epoch : Nat]]
  BY Zenon, <1>2, <1>4 DEF IInv, TypeOK
<1>6. inbound' \in [Families -> Proposals]
  BY Zenon, <1>1, <1>2, <1>3 DEF IInv, TypeOK
<1>7. TypeOK'
  BY Zenon, <1>2, <1>5, <1>6 DEF IInv, TypeOK, cmVars, visitorVars, endVars
<1>8. AcceptedByProvider' /\ ReadyIsConfirmed' /\ ChannelIsConfirmed' /\ PeersAgree'
  BY Zenon, <1>2 DEF IInv, AcceptedByProvider, ReadyIsConfirmed, ChannelIsConfirmed, PeersAgree, cmVars, endVars
<1>9. ASSUME NEW q \in Readers, reader'[q].at \in {"confirm", "signal"} PROVE reader'[q] = reader[q]
  BY Zenon, <1>2, <1>9, <1>4 DEF IInv, TypeOK
<1>10. ConfirmingWhatIsConfirmed' /\ SignalsWhatIsConfirmed'
  BY <1>2, <1>9 DEF IInv, ConfirmingWhatIsConfirmed, SignalsWhatIsConfirmed, cmVars, Readers, Peers
<1> QED
  BY Zenon, <1>7, <1>8, <1>10 DEF IInv

(* The second half of a proposal: the provider nominates, and accepts (AdoptNomination). *)
LEMMA AdoptKeeps == ASSUME IInv, NEW f \in Families, NEW x \in Paths, AdoptNomination(f, x) PROVE IInv'
<1> DEFINE e == reader[<<"provider", f, x>>].epoch
           ps == {Packet("visitor", f, x, "succ", 0), Packet("visitor", f, x, "accept", e)}
<1>1. /\ reader' = [reader EXCEPT ![<<"provider", f, x>>] = Idle]
      /\ net' \subseteq net \union ps
      /\ nominated' = nominated \/ nominated' = [nominated EXCEPT ![<<"provider", f>>] = x]
      /\ UNCHANGED <<cand, cooling, confirmed, visitorVars, inbound, endVars>>
  BY Zenon DEF AdoptNomination, Send
<1>2. e \in Nat
  BY Zenon DEF IInv, TypeOK, Readers, Peers
<1>3. \A p \in ps : p \in Packets /\ p.to = "visitor" /\ p.type # "ready"
  <2>1. /\ Packet("visitor", f, x, "succ", 0) \in Packets
        /\ Packet("visitor", f, x, "succ", 0).to = "visitor"
        /\ Packet("visitor", f, x, "succ", 0).type = "succ"
    BY PacketType DEF Peers
  <2>2. /\ Packet("visitor", f, x, "accept", e) \in Packets
        /\ Packet("visitor", f, x, "accept", e).to = "visitor"
        /\ Packet("visitor", f, x, "accept", e).type = "accept"
    BY <1>2, PacketType DEF Peers
  <2> QED
    BY Zenon, <2>1, <2>2
<1> HIDE DEF ps
<1>4. net' \subseteq Packets
  BY Zenon, <1>1, <1>3 DEF IInv, TypeOK
<1>5. TypeOK'
  BY Zenon, <1>1, <1>4 DEF IInv, TypeOK, Readers, Sessions, Idle, visitorVars, endVars
<1>6. AcceptedByProvider' /\ ReadyIsConfirmed'
  BY Zenon, <1>1, <1>3 DEF IInv, AcceptedByProvider, ReadyIsConfirmed
<1>7. ChannelIsConfirmed' /\ PeersAgree'
  BY Zenon, <1>1 DEF IInv, ChannelIsConfirmed, PeersAgree, endVars
<1>8. ASSUME NEW q \in Readers, reader'[q].at \in {"confirm", "signal"} PROVE reader'[q] = reader[q]
  BY Zenon, <1>1, <1>8 DEF IInv, TypeOK, Readers, Idle
<1>9. ConfirmingWhatIsConfirmed' /\ SignalsWhatIsConfirmed'
  BY <1>1, <1>8 DEF IInv, ConfirmingWhatIsConfirmed, SignalsWhatIsConfirmed, Readers, Peers
<1> QED
  BY Zenon, <1>5, <1>6, <1>7, <1>9 DEF IInv

(* The accept loop, which repeats the answer. *)
LEMMA AcceptLoopKeeps == ASSUME IInv, NEW f \in Families, AcceptLoop(f) PROVE IInv'
<1> DEFINE x == inbound[f].path
           e == inbound[f].epoch
<1>1. x \in Paths /\ e \in Nat
  BY Zenon DEF AcceptLoop, IInv, TypeOK, Proposals
<1>2. /\ Packet("visitor", f, x, "succ", 0) \in Packets
      /\ Packet("visitor", f, x, "succ", 0).to = "visitor"
      /\ Packet("visitor", f, x, "succ", 0).type = "succ"
      /\ Packet("visitor", f, x, "accept", e) \in Packets
      /\ Packet("visitor", f, x, "accept", e).to = "visitor"
      /\ Packet("visitor", f, x, "accept", e).type = "accept"
  BY <1>1, PacketType DEF Peers
<1>3. /\ net' = net \union {Packet("visitor", f, x, "succ", 0), Packet("visitor", f, x, "accept", e)}
      /\ UNCHANGED <<cmVars, visitorVars, inbound, reader, endVars>>
  BY Zenon DEF AcceptLoop, Send
<1> HIDE DEF x, e
<1>4. TypeOK'
  BY Zenon, <1>2, <1>3 DEF IInv, TypeOK, cmVars, visitorVars, endVars
<1>5. AcceptedByProvider' /\ ReadyIsConfirmed'
  BY Zenon, <1>2, <1>3 DEF IInv, AcceptedByProvider, ReadyIsConfirmed, cmVars
<1>6. ChannelIsConfirmed' /\ PeersAgree' /\ ConfirmingWhatIsConfirmed' /\ SignalsWhatIsConfirmed'
  BY Zenon, <1>3 DEF IInv, ChannelIsConfirmed, PeersAgree, ConfirmingWhatIsConfirmed, SignalsWhatIsConfirmed, cmVars, endVars
<1> QED
  BY Zenon, <1>4, <1>5, <1>6 DEF IInv

(* The first half of an ACCEPT and of a READY: a READY that matches has the pair the visitor confirmed. *)
LEMMA MatchesKeeps == ASSUME IInv, NEW m \in net, Matches(m) PROVE IInv'
<1> DEFINE q0 == <<m.to, m.family, m.path>>
           r0 == [at |-> "confirm", epoch |-> m.epoch]
<1>1. /\ m.to \in Peers /\ m.family \in Families /\ m.path \in Paths /\ m.epoch \in Nat
  BY Zenon, PacketParts DEF IInv
<1>2. /\ net' = net \ {m}
      /\ cand' = Observe(m.to, m.family, m.path)
      /\ UNCHANGED <<cooling, nominated, confirmed, visitorVars, inbound, endVars>>
      /\ reader' = reader \/ reader' = [reader EXCEPT ![q0] = r0]
      /\ m.type \in {"accept", "ready"}
  BY Zenon DEF Matches, Reply
<1>3. m.to = "provider" => confirmed[<<"visitor", m.family>>] = m.path
  BY Zenon, <1>2 DEF IInv, AcceptedByProvider, ReadyIsConfirmed
<1>4. q0 \in Readers /\ r0 \in [at : {"idle", "adopt", "confirm", "signal"}, epoch : Nat] /\ r0.at = "confirm"
  BY Zenon, <1>1 DEF Readers
<1>5. cand' \in [Families -> [Paths -> {"none", "discovered", "succeeded", "closed"}]]
  BY Zenon, <1>1, <1>2, ObserveType DEF IInv
<1>6. ASSUME NEW q \in Readers
      PROVE  \/ q = q0
             \/ reader'[q] = reader[q]
  BY Zenon, <1>2 DEF IInv, TypeOK
<1>7. ASSUME NEW q \in Readers PROVE reader'[q] # reader[q] => reader'[q].at = "confirm"
  BY Zenon, <1>2, <1>4, <1>6 DEF IInv, TypeOK
<1>8. reader' \in [Readers -> [at : {"idle", "adopt", "confirm", "signal"}, epoch : Nat]]
  <2> HIDE DEF q0, r0
  <2> QED
    BY Zenon, <1>2, <1>4 DEF IInv, TypeOK
<1>9. TypeOK'
  BY Zenon, <1>2, <1>5, <1>8 DEF IInv, TypeOK, visitorVars, endVars
<1>10. AcceptedByProvider' /\ ReadyIsConfirmed' /\ ChannelIsConfirmed' /\ PeersAgree'
  BY Zenon, <1>2 DEF IInv, AcceptedByProvider, ReadyIsConfirmed, ChannelIsConfirmed, PeersAgree, endVars
<1>11. ConfirmingWhatIsConfirmed'
  <2> SUFFICES ASSUME NEW f \in Families, NEW x \in Paths, reader'[<<"provider", f, x>>].at = "confirm"
               PROVE  confirmed[<<"visitor", f>>] = x
    BY Zenon, <1>2 DEF ConfirmingWhatIsConfirmed
  <2>1. <<"provider", f, x>> \in Readers
    BY Zenon DEF Readers, Peers
  <2>2. CASE <<"provider", f, x>> = q0
    BY Zenon, <1>3, <2>2
  <2>3. CASE reader'[<<"provider", f, x>>] = reader[<<"provider", f, x>>]
    BY Zenon, <2>3 DEF IInv, ConfirmingWhatIsConfirmed
  <2> QED
    BY Zenon, <1>6, <2>1, <2>2, <2>3
<1>12. SignalsWhatIsConfirmed'
  <2> SUFFICES ASSUME NEW s \in Peers, NEW f \in Families, NEW x \in Paths, reader'[<<s, f, x>>].at = "signal"
               PROVE  confirmed[<<s, f>>] = x
    BY Zenon, <1>2 DEF SignalsWhatIsConfirmed
  <2>1. reader'[<<s, f, x>>] = reader[<<s, f, x>>]
    BY Zenon, <1>7 DEF Readers
  <2> QED
    BY Zenon, <2>1 DEF IInv, SignalsWhatIsConfirmed
<1> QED
  BY Zenon, <1>9, <1>10, <1>11, <1>12 DEF IInv

(* The visitor confirms: before, no READY of this family exists and the provider has confirmed nothing. *)
LEMMA AcceptKeeps == ASSUME IInv, NEW f \in Families, NEW x \in Paths, handleAcceptPacket(f, x) PROVE IInv'
<1> DEFINE q0 == <<"visitor", f, x>>
           e == reader[q0].epoch
<1>0. q0 \in Readers /\ e \in Nat /\ x # 0 /\ <<"visitor", f>> \in Sessions
  BY Zenon, PathsAssumption DEF IInv, TypeOK, Readers, Peers, Sessions
<1>1. CASE ~MayConfirm("visitor", f, x)
  <2>1. /\ net' = net
        /\ reader' = [reader EXCEPT ![q0] = Idle]
        /\ UNCHANGED <<cand, nominated, confirmed, outbound, cooling, epoch, scheduled, retrying, inbound, endVars>>
    BY Zenon, <1>1 DEF handleAcceptPacket, readyBurst, Send
  <2>2. reader' \in [Readers -> [at : {"idle", "adopt", "confirm", "signal"}, epoch : Nat]]
    BY Zenon, <2>1 DEF IInv, TypeOK, Idle
  <2>3. TypeOK'
    BY Zenon, <2>1, <2>2 DEF IInv, TypeOK, endVars
  <2>4. ASSUME NEW q \in Readers, reader'[q].at \in {"confirm", "signal"} PROVE reader'[q] = reader[q]
    BY Zenon, <2>1, <2>4 DEF IInv, TypeOK, Idle
  <2>5. ConfirmingWhatIsConfirmed' /\ SignalsWhatIsConfirmed'
    BY <2>1, <2>4 DEF IInv, ConfirmingWhatIsConfirmed, SignalsWhatIsConfirmed, Readers, Peers
  <2>6. AcceptedByProvider' /\ ReadyIsConfirmed' /\ ChannelIsConfirmed' /\ PeersAgree'
    BY Zenon, <2>1 DEF IInv, AcceptedByProvider, ReadyIsConfirmed, ChannelIsConfirmed, PeersAgree, endVars
  <2> QED
    BY Zenon, <2>3, <2>5, <2>6 DEF IInv
<1>2. CASE MayConfirm("visitor", f, x)
  <2> DEFINE p == Packet("provider", f, x, "ready", e)
  <2>1. /\ net' = net \union {p}
        /\ confirmed' = [confirmed EXCEPT ![<<"visitor", f>>] = x]
        /\ nominated' = [nominated EXCEPT ![<<"visitor", f>>] = 0]
        /\ cand' = [cand EXCEPT ![f] = [y \in Paths |-> IF y # x /\ @[y] # "none" THEN "closed" ELSE @[y]]]
        /\ outbound' = [outbound EXCEPT ![f] = IF @ = Pair(x, e) THEN NoPair ELSE @]
        /\ reader' = [reader EXCEPT ![q0].at = "signal"]
        /\ UNCHANGED <<cooling, epoch, scheduled, retrying, inbound, endVars>>
    BY Zenon, <1>2 DEF handleAcceptPacket, Confirm, readyBurst, Send
  <2>2. confirmed[<<"visitor", f>>] = 0
    BY Zenon, <1>2 DEF MayConfirm
  <2>3. /\ p \in Packets /\ p.to = "provider" /\ p.type = "ready" /\ p.family = f /\ p.path = x
    BY <1>0, PacketType DEF Peers
  <2>4. /\ confirmed'[<<"visitor", f>>] = x
        /\ \A s \in Peers, g \in Families :
             <<s, g>> # <<"visitor", f>> => confirmed'[<<s, g>>] = confirmed[<<s, g>>]
    BY Zenon, <2>1 DEF IInv, TypeOK, Sessions, Peers
  <2>5. reader' \in [Readers -> [at : {"idle", "adopt", "confirm", "signal"}, epoch : Nat]]
    <3>1. [reader[q0] EXCEPT !.at = "signal"] \in [at : {"idle", "adopt", "confirm", "signal"}, epoch : Nat]
      BY Zenon, <1>0 DEF IInv, TypeOK
    <3> HIDE DEF q0
    <3> QED
      BY Zenon, <1>0, <2>1, <3>1 DEF IInv, TypeOK
  <2>6. TypeOK'
    <3>1. net' \subseteq Packets
      BY Zenon, <2>1, <2>3 DEF IInv, TypeOK
    <3>2. /\ nominated' \in [Sessions -> Paths \union {0}]
          /\ confirmed' \in [Sessions -> Paths \union {0}]
      BY Zenon, <2>1 DEF IInv, TypeOK
    <3>3. cand' \in [Families -> [Paths -> {"none", "discovered", "succeeded", "closed"}]]
      BY Zenon, <2>1 DEF IInv, TypeOK
    <3>4. outbound' \in [Families -> Proposals]
      BY Zenon, <2>1 DEF IInv, TypeOK, Proposals
    <3> QED
      BY Zenon, <2>1, <2>5, <3>1, <3>2, <3>3, <3>4 DEF IInv, TypeOK, endVars
  <2>7. AcceptedByProvider'
    BY Zenon, <2>1, <2>3 DEF IInv, AcceptedByProvider
  <2>8. ReadyIsConfirmed'
    <3> SUFFICES ASSUME NEW m \in net', m.type = "ready"
                 PROVE  m.to = "provider" /\ confirmed'[<<"visitor", m.family>>] = m.path
      BY Zenon DEF ReadyIsConfirmed
    <3>1. CASE m = p
      BY Zenon, <2>3, <2>4, <3>1
    <3>2. CASE m \in net
      <4>1. /\ m.to = "provider" /\ confirmed[<<"visitor", m.family>>] = m.path
            /\ m.family \in Families /\ m.path \in Paths
        BY Zenon, <3>2, PacketParts DEF IInv, ReadyIsConfirmed
      <4>2. m.family # f
        BY Zenon, <2>2, <4>1, PathsAssumption
      <4> QED
        BY Zenon, <2>4, <4>1, <4>2 DEF Peers
    <3> QED
      BY Zenon, <2>1, <3>1, <3>2
  <2>9. ConfirmingWhatIsConfirmed'
    <3> SUFFICES ASSUME NEW g \in Families, NEW y \in Paths, reader'[<<"provider", g, y>>].at = "confirm"
                 PROVE  confirmed'[<<"visitor", g>>] = y
      BY Zenon DEF ConfirmingWhatIsConfirmed
    <3>1. reader'[<<"provider", g, y>>] = reader[<<"provider", g, y>>]
      BY Zenon, <2>1 DEF IInv, TypeOK, Readers, Peers
    <3>2. confirmed[<<"visitor", g>>] = y
      BY Zenon, <3>1 DEF IInv, ConfirmingWhatIsConfirmed
    <3>3. g # f
      BY Zenon, <2>2, <3>2, PathsAssumption
    <3> QED
      BY Zenon, <2>4, <3>2, <3>3 DEF Peers
  <2>10. SignalsWhatIsConfirmed'
    <3> SUFFICES ASSUME NEW s \in Peers, NEW g \in Families, NEW y \in Paths, reader'[<<s, g, y>>].at = "signal"
                 PROVE  confirmed'[<<s, g>>] = y
      BY Zenon DEF SignalsWhatIsConfirmed
    <3>1. CASE <<s, g, y>> = q0
      BY Zenon, <2>4, <3>1
    <3>2. CASE <<s, g, y>> # q0
      <4>1. reader'[<<s, g, y>>] = reader[<<s, g, y>>]
        BY Zenon, <2>1, <3>2 DEF IInv, TypeOK, Readers
      <4>2. confirmed[<<s, g>>] = y
        BY Zenon, <4>1 DEF IInv, SignalsWhatIsConfirmed
      <4>3. <<s, g>> # <<"visitor", f>>
        BY Zenon, <2>2, <4>2, PathsAssumption
      <4> QED
        BY Zenon, <2>4, <4>2, <4>3
    <3> QED
      BY Zenon, <3>1, <3>2
  <2>11. ChannelIsConfirmed'
    <3> SUFFICES ASSUME NEW s \in Peers, channel[s] # Nothing
                 PROVE  confirmed'[<<s, channel[s].family>>] = channel[s].path
      BY Zenon, <2>1 DEF ChannelIsConfirmed, endVars
    <3>1. /\ confirmed[<<s, channel[s].family>>] = channel[s].path
          /\ channel[s].family \in Families /\ channel[s].path \in Paths
      BY Zenon DEF IInv, TypeOK, ChannelIsConfirmed
    <3>2. <<s, channel[s].family>> # <<"visitor", f>>
      BY Zenon, <2>2, <3>1, PathsAssumption
    <3> QED
      BY Zenon, <2>4, <3>1, <3>2
  <2>12. PeersAgree'
    <3> SUFFICES ASSUME NEW g \in Families, confirmed'[<<"provider", g>>] # 0
                 PROVE  confirmed'[<<"visitor", g>>] = confirmed'[<<"provider", g>>]
      BY Zenon DEF PeersAgree
    <3>1. confirmed'[<<"provider", g>>] = confirmed[<<"provider", g>>]
      BY Zenon, <2>4 DEF Peers
    <3>2. confirmed[<<"visitor", g>>] = confirmed[<<"provider", g>>]
      BY Zenon, <3>1 DEF IInv, PeersAgree
    <3>3. g # f
      BY Zenon, <2>2, <3>1, <3>2
    <3> QED
      BY Zenon, <2>4, <3>1, <3>2, <3>3 DEF Peers
  <2> QED
    BY Zenon, <2>6, <2>7, <2>8, <2>9, <2>10, <2>11, <2>12 DEF IInv
<1> QED
  BY Zenon, <1>1, <1>2

(* The provider confirms: its reader holds the pair the visitor has confirmed. *)
LEMMA ReadyKeeps == ASSUME IInv, NEW f \in Families, NEW x \in Paths, handleReadyPacket(f, x) PROVE IInv'
<1> DEFINE q0 == <<"provider", f, x>>
<1>0. /\ q0 \in Readers /\ x # 0 /\ <<"provider", f>> \in Sessions
      /\ confirmed[<<"visitor", f>>] = x
  BY Zenon, PathsAssumption DEF IInv, TypeOK, Readers, Peers, Sessions, handleReadyPacket, ConfirmingWhatIsConfirmed
<1>1. CASE ~MayConfirm("provider", f, x)
  <2>1. /\ reader' = [reader EXCEPT ![q0] = Idle]
        /\ UNCHANGED <<net, cmVars, visitorVars, inbound, endVars>>
    BY Zenon, <1>1 DEF handleReadyPacket, cmVars
  <2>2. reader' \in [Readers -> [at : {"idle", "adopt", "confirm", "signal"}, epoch : Nat]]
    BY Zenon, <2>1 DEF IInv, TypeOK, Idle
  <2>3. TypeOK'
    BY Zenon, <2>1, <2>2 DEF IInv, TypeOK, cmVars, visitorVars, endVars
  <2>4. ASSUME NEW q \in Readers, reader'[q].at \in {"confirm", "signal"} PROVE reader'[q] = reader[q]
    BY Zenon, <2>1, <2>4 DEF IInv, TypeOK, Idle
  <2>5. ConfirmingWhatIsConfirmed' /\ SignalsWhatIsConfirmed'
    BY <2>1, <2>4 DEF IInv, ConfirmingWhatIsConfirmed, SignalsWhatIsConfirmed, Readers, Peers, cmVars
  <2>6. AcceptedByProvider' /\ ReadyIsConfirmed' /\ ChannelIsConfirmed' /\ PeersAgree'
    BY Zenon, <2>1 DEF IInv, AcceptedByProvider, ReadyIsConfirmed, ChannelIsConfirmed, PeersAgree, endVars, cmVars
  <2> QED
    BY Zenon, <2>3, <2>5, <2>6 DEF IInv
<1>2. CASE MayConfirm("provider", f, x)
  <2>1. /\ confirmed' = [confirmed EXCEPT ![<<"provider", f>>] = x]
        /\ nominated' = [nominated EXCEPT ![<<"provider", f>>] = 0]
        /\ reader' = [reader EXCEPT ![q0].at = "signal"]
        /\ UNCHANGED <<net, cand, cooling, visitorVars, inbound, endVars>>
    BY Zenon, <1>2 DEF handleReadyPacket, Confirm
  <2>2. confirmed[<<"provider", f>>] = 0
    BY Zenon, <1>2 DEF MayConfirm
  <2>3. /\ confirmed'[<<"provider", f>>] = x
        /\ \A s \in Peers, g \in Families :
             <<s, g>> # <<"provider", f>> => confirmed'[<<s, g>>] = confirmed[<<s, g>>]
    BY Zenon, <2>1 DEF IInv, TypeOK, Sessions, Peers
  <2>4. reader' \in [Readers -> [at : {"idle", "adopt", "confirm", "signal"}, epoch : Nat]]
    <3>1. [reader[q0] EXCEPT !.at = "signal"] \in [at : {"idle", "adopt", "confirm", "signal"}, epoch : Nat]
      BY Zenon, <1>0 DEF IInv, TypeOK
    <3> HIDE DEF q0
    <3> QED
      BY Zenon, <1>0, <2>1, <3>1 DEF IInv, TypeOK
  <2>5. TypeOK'
    <3>1. /\ nominated' \in [Sessions -> Paths \union {0}]
          /\ confirmed' \in [Sessions -> Paths \union {0}]
      BY Zenon, <2>1 DEF IInv, TypeOK
    <3> QED
      BY Zenon, <2>1, <2>4, <3>1 DEF IInv, TypeOK, visitorVars, endVars
  <2>6. AcceptedByProvider'
    BY Zenon, <2>1 DEF IInv, AcceptedByProvider
  <2>7. ReadyIsConfirmed'
    BY Zenon, <2>1, <2>3, PacketParts DEF IInv, ReadyIsConfirmed, Peers
  <2>8. ConfirmingWhatIsConfirmed'
    <3> SUFFICES ASSUME NEW g \in Families, NEW y \in Paths, reader'[<<"provider", g, y>>].at = "confirm"
                 PROVE  confirmed'[<<"visitor", g>>] = y
      BY Zenon DEF ConfirmingWhatIsConfirmed
    <3>1. reader'[<<"provider", g, y>>] = reader[<<"provider", g, y>>]
      BY <2>1 DEF IInv, TypeOK, Readers, Peers
    <3>2. confirmed[<<"visitor", g>>] = y
      BY Zenon, <3>1 DEF IInv, ConfirmingWhatIsConfirmed
    <3> QED
      BY Zenon, <2>3, <3>2 DEF Peers
  <2>9. SignalsWhatIsConfirmed'
    <3> SUFFICES ASSUME NEW s \in Peers, NEW g \in Families, NEW y \in Paths, reader'[<<s, g, y>>].at = "signal"
                 PROVE  confirmed'[<<s, g>>] = y
      BY Zenon DEF SignalsWhatIsConfirmed
    <3>1. CASE <<s, g, y>> = q0
      BY Zenon, <2>3, <3>1
    <3>2. CASE <<s, g, y>> # q0
      <4>1. reader'[<<s, g, y>>] = reader[<<s, g, y>>]
        BY Zenon, <2>1, <3>2 DEF IInv, TypeOK, Readers
      <4>2. confirmed[<<s, g>>] = y
        BY Zenon, <4>1 DEF IInv, SignalsWhatIsConfirmed
      <4>3. <<s, g>> # <<"provider", f>>
        BY Zenon, <2>2, <4>2, PathsAssumption
      <4> QED
        BY Zenon, <2>3, <4>2, <4>3
    <3> QED
      BY Zenon, <3>1, <3>2
  <2>10. ChannelIsConfirmed'
    <3> SUFFICES ASSUME NEW s \in Peers, channel[s] # Nothing
                 PROVE  confirmed'[<<s, channel[s].family>>] = channel[s].path
      BY Zenon, <2>1 DEF ChannelIsConfirmed, endVars
    <3>1. /\ confirmed[<<s, channel[s].family>>] = channel[s].path
          /\ channel[s].family \in Families /\ channel[s].path \in Paths
      BY Zenon DEF IInv, TypeOK, ChannelIsConfirmed
    <3>2. <<s, channel[s].family>> # <<"provider", f>>
      BY Zenon, <2>2, <3>1, PathsAssumption
    <3> QED
      BY Zenon, <2>3, <3>1, <3>2
  <2>11. PeersAgree'
    <3> SUFFICES ASSUME NEW g \in Families, confirmed'[<<"provider", g>>] # 0
                 PROVE  confirmed'[<<"visitor", g>>] = confirmed'[<<"provider", g>>]
      BY Zenon DEF PeersAgree
    <3>1. confirmed'[<<"visitor", g>>] = confirmed[<<"visitor", g>>]
      BY Zenon, <2>3 DEF Peers
    <3>2. CASE g = f
      BY Zenon, <1>0, <2>3, <3>1, <3>2
    <3>3. CASE g # f
      <4>1. confirmed'[<<"provider", g>>] = confirmed[<<"provider", g>>]
        BY Zenon, <2>3, <3>3 DEF Peers
      <4> QED
        BY Zenon, <3>1, <4>1 DEF IInv, PeersAgree
    <3> QED
      BY Zenon, <3>2, <3>3
  <2> QED
    BY Zenon, <2>5, <2>6, <2>7, <2>8, <2>9, <2>10, <2>11 DEF IInv
<1> QED
  BY Zenon, <1>1, <1>2

(* The confirmed pair goes into the channel (signalConfirmed). *)
LEMMA SignalKeeps ==
  ASSUME IInv, NEW s \in Peers, NEW f \in Families, NEW x \in Paths, signalConfirmed(s, f, x) PROVE IInv'
<1> DEFINE q0 == <<s, f, x>>
<1>1. /\ q0 \in Readers /\ confirmed[<<s, f>>] = x
  BY Zenon DEF IInv, Readers, signalConfirmed, SignalsWhatIsConfirmed
<1>2. /\ reader' = [reader EXCEPT ![q0] = Idle]
      /\ channel' = IF channel[s] = Nothing THEN [channel EXCEPT ![s] = [family |-> f, path |-> x]] ELSE channel
      /\ UNCHANGED <<net, cmVars, visitorVars, inbound>>
  BY Zenon DEF signalConfirmed
<1>3. reader' \in [Readers -> [at : {"idle", "adopt", "confirm", "signal"}, epoch : Nat]]
  <2> HIDE DEF q0
  <2> QED
    BY Zenon, <1>1, <1>2 DEF IInv, TypeOK, Idle
<1>4. TypeOK'
  BY Zenon, <1>2, <1>3 DEF IInv, TypeOK, cmVars, visitorVars
<1>5. ASSUME NEW q \in Readers, reader'[q].at \in {"confirm", "signal"} PROVE reader'[q] = reader[q]
  <2> HIDE DEF q0
  <2> QED
    BY Zenon, <1>1, <1>2, <1>5 DEF IInv, TypeOK, Idle
<1>6. ConfirmingWhatIsConfirmed' /\ SignalsWhatIsConfirmed'
  BY <1>2, <1>5 DEF IInv, ConfirmingWhatIsConfirmed, SignalsWhatIsConfirmed, Readers, Peers, cmVars
<1>7. AcceptedByProvider' /\ ReadyIsConfirmed' /\ PeersAgree'
  BY Zenon, <1>2 DEF IInv, AcceptedByProvider, ReadyIsConfirmed, PeersAgree, cmVars
<1>8. ChannelIsConfirmed'
  BY Zenon, <1>1, <1>2 DEF IInv, TypeOK, ChannelIsConfirmed, cmVars
<1> QED
  BY Zenon, <1>4, <1>6, <1>7, <1>8 DEF IInv

(* The invariant is inductive. *)
LEMMA NextKeeps == IInv /\ [Next]_vars => IInv'
<1> SUFFICES ASSUME IInv, [Next]_vars PROVE IInv'
  BY Zenon
<1>1. CASE UNCHANGED vars
  <2>1. TypeOK'
    BY Zenon, <1>1 DEF IInv, TypeOK, vars, cmVars, visitorVars, endVars
  <2> QED
    BY Zenon, <1>1, <2>1, QuietStep DEF vars, cmVars, endVars
<1>2. CASE \E m \in net : Receives(m)
  BY Zenon, <1>2, ProbeKeeps, ProposalKeeps, MatchesKeeps DEF Receives
<1>3. CASE \E m \in net : Lose(m)
  BY Zenon, <1>3, EndsKeep
<1>4. CASE \E f \in Families : Delays(f) \/ NominationLoop(f) \/ tryRenominate(f) \/ AcceptLoop(f)
  BY Zenon, <1>4, DelaysKeep, LoopKeeps, RenominateKeeps, AcceptLoopKeeps
<1>5. CASE \E f \in Families, x \in Paths : Continues(f, x)
  BY Zenon, <1>5, AdoptKeeps, AcceptKeeps, ReadyKeeps, SignalKeeps DEF Continues
<1>6. CASE \E f \in Families, x \in Paths : Ages(f, x) \/ CooldownEnds(f, x) \/ \E s \in Peers : Spray(s, f, x)
  BY Zenon, <1>6, AgesKeep, SprayKeeps
<1>7. CASE \E s \in Peers : finalizeRuntimeHandover(s) \/ failRuntimeHandshake(s)
  BY Zenon, <1>7, EndsKeep
<1> QED
  BY <1>1, <1>2, <1>3, <1>4, <1>5, <1>6, <1>7, Zenon DEF Next

(* In every reachable state, for any number of families and of paths and whichever packets are lost, the provider  *)
(* has confirmed nothing or what the visitor has confirmed (handleReadyPacket, handleAcceptPacket). *)
THEOREM PeersAgreeAlways == Spec => []PeersAgree
<1>1. IInv => PeersAgree
  BY Zenon DEF IInv
<1> QED
  BY InitIInv, NextKeeps, <1>1, PTL DEF Spec

(* What the peers hand over, or are about to, in one family is the same pair: the channel of a   *)
(* peer holds a pair it has confirmed (signalConfirmed). *)
HandoverAgrees ==
  channel["visitor"] # Nothing /\ channel["provider"] # Nothing /\ channel["visitor"].family = channel["provider"].family
  => channel["visitor"] = channel["provider"]
(* So the two ends of a handshake that succeeds in one family talk over one pair. *)
THEOREM HandoverAgreesAlways == Spec => []HandoverAgrees
<1>1. IInv => HandoverAgrees
  <2> SUFFICES ASSUME IInv, channel["visitor"] # Nothing, channel["provider"] # Nothing,
                      channel["visitor"].family = channel["provider"].family
               PROVE  channel["visitor"] = channel["provider"]
    BY Zenon DEF HandoverAgrees
  <2>1. /\ channel["visitor"] \in [family : Families, path : Paths]
        /\ channel["provider"] \in [family : Families, path : Paths]
    BY Zenon DEF IInv, TypeOK, Peers
  <2>2. channel["visitor"].path = channel["provider"].path
    BY Zenon, <2>1, PathsAssumption DEF IInv, ChannelIsConfirmed, PeersAgree, Peers
  <2> QED
    BY <2>1, <2>2
<1> QED
  BY InitIInv, NextKeeps, <1>1, PTL DEF Spec

(* The choice of a peer is final: a pair that is confirmed is never replaced by another one (ConfirmCandidate), and *)
(* what was handed to the channel first is what the session ends with (signalConfirmed). *)
Stands ==
  /\ \A q \in Sessions : confirmed[q] # 0 => confirmed'[q] = confirmed[q]
  /\ \A s \in Peers : channel[s] # Nothing => channel'[s] = channel[s]
ChoiceIsFinal == [][Stands]_vars
(* It holds whatever arrives late: a second ACCEPT, a READY of another epoch, another family. *)
THEOREM ChoiceIsFinalAlways == Spec => ChoiceIsFinal
<1>1. IInv /\ [Next]_vars => [Stands]_vars
  <2> SUFFICES ASSUME IInv, Next PROVE Stands
    BY Zenon
  <2>1. ASSUME UNCHANGED <<confirmed, channel>> PROVE Stands
    BY Zenon, <2>1 DEF Stands
  <2>2. CASE \E m \in net : Receives(m)
    BY Zenon, <2>1, <2>2 DEF Receives, handleProbePacket, handleSuccessPacket, handleProposalPacket, Matches, endVars, cmVars
  <2>3. CASE \E m \in net : Lose(m)
    BY Zenon, <2>1, <2>3 DEF Lose, endVars, cmVars
  <2>4. CASE \E f \in Families : Delays(f) \/ NominationLoop(f) \/ tryRenominate(f) \/ AcceptLoop(f)
    BY Zenon, <2>1, <2>4 DEF Delays, NominationDelayEnds, RetryDelayEnds, NominationLoop, tryRenominate, AcceptLoop, endVars, cmVars
  <2>5. ASSUME NEW f \in Families, NEW x \in Paths, NEW s \in Peers, MayConfirm(s, f, x), Confirm(s, f, x), channel' = channel
        PROVE  Stands
    BY Zenon, <2>5 DEF Stands, MayConfirm, Confirm, IInv, TypeOK, Sessions
  <2>6. CASE \E f \in Families, x \in Paths : Continues(f, x)
    <3> SUFFICES ASSUME NEW f \in Families, NEW x \in Paths, Continues(f, x) PROVE Stands
      BY Zenon, <2>6
    <3>1. CASE AdoptNomination(f, x)
      BY Zenon, <2>1, <3>1 DEF AdoptNomination, endVars
    <3>2. CASE handleAcceptPacket(f, x)
      BY Zenon, <2>1, <2>5, <3>2 DEF handleAcceptPacket, endVars, Peers
    <3>3. CASE handleReadyPacket(f, x)
      BY Zenon, <2>1, <2>5, <3>3 DEF handleReadyPacket, endVars, Peers
    <3>4. CASE \E s \in Peers : signalConfirmed(s, f, x)
      BY Zenon, <3>4 DEF signalConfirmed, Stands, IInv, TypeOK, cmVars
    <3> QED
      BY Zenon, <3>1, <3>2, <3>3, <3>4 DEF Continues
  <2>7. CASE \E f \in Families, x \in Paths : Ages(f, x) \/ CooldownEnds(f, x) \/ \E s \in Peers : Spray(s, f, x)
    BY Zenon, <2>1, <2>7 DEF Ages, PruneStale, CleanupClosed, CooldownEnds, Spray, endVars, cmVars
  <2>8. CASE \E s \in Peers : finalizeRuntimeHandover(s) \/ failRuntimeHandshake(s)
    BY Zenon, <2>1, <2>8 DEF finalizeRuntimeHandover, failRuntimeHandshake, cmVars
  <2> QED
    BY <2>2, <2>3, <2>4, <2>6, <2>7, <2>8, Zenon DEF Next
<1> QED
  BY InitIInv, NextKeeps, <1>1, PTL DEF Spec, ChoiceIsFinal
=============================================================================
