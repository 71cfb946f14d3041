----------------------------- MODULE PunchPlan -----------------------------
(***************************************************************************)
(* What a peer makes of the probe's answers: the behaviour of the other    *)
(* peer's NAT, the plan of the punching session, and the ports to spray.   *)
(* A NAT gives a mapping per destination, per destination address, or one  *)
(* for all, in steps of its stride; answers may be lost.                   *)
(***************************************************************************)
EXTENDS Integers, Sequences, FiniteSets, SequencesExt, FiniteSetsExt

CONSTANTS
  Endpoints,      \* the probed endpoints <<address, port>>, in the order of the probe
  Nats,           \* the NATs: [mapping, stride, filters, pool]
  Bases,          \* first ports they map to
  MaxPort,        \* 65535
  MaxInterval,    \* 512, the largest interval that is predicted from
  MaxStep,        \* 64, the largest step of a likely next port
  Span,           \* ports to spray
  Policies,       \* what the server prescribes: [given, force, spray, birthday, interval, delay, retry]
  Timeouts,       \* of the handshake, in milliseconds
  Scores,         \* of the pair's earlier sessions
  Histories       \* offsets that have succeeded behind such a NAT, best first

VARIABLES step, nat, base, answered, extra, tested, offsets, obs, plan, stages
vars == <<step, nat, base, answered, extra, tested, offsets, obs, plan, stages>>

Least(S) == IF S = {} THEN 0 ELSE Min(S)

-----------------------------------------------------------------------------
(* The NAT. *)

Addresses == SetToSortSeq({Endpoints[i][1] : i \in DOMAIN Endpoints}, <)
Turn(n, i) ==
  CASE n.mapping = "independent" -> 0
    [] n.mapping = "address" -> (CHOOSE k \in DOMAIN Addresses : Addresses[k] = Endpoints[i][1]) - 1
    [] n.mapping = "endpoint" -> i - 1
MappedPort(i) == base + Turn(nat, i) * nat.stride
PublicAddress(i) == IF nat.pool = 1 THEN 1 ELSE 1 + (i % nat.pool)
Dependent == \E i, j \in DOMAIN Endpoints : Turn(nat, i) # Turn(nat, j)

-----------------------------------------------------------------------------
(* Intervals between the ports the probe has shown. *)

Ports(S) == SortSeq(SetToSeq(S), LAMBDA i, j : MappedPort(i) < MappedPort(j))
samplePortDiffs(S) ==
  LET s == Ports(S)
      all == [k \in 1..(Len(s) - 1) |-> MappedPort(s[k + 1]) - MappedPort(s[k])]
  IN IF Cardinality(S) < 2 THEN <<>> ELSE SelectSeq(all, LAMBDA d : d > 0)
Occurrences(d, v) == Cardinality({k \in DOMAIN d : d[k] = v})
dominantPositive(d) ==
  Least({v \in Range(d) : \A w \in Range(d) : Occurrences(d, w) <= Occurrences(d, v)})
minPositive(d) == Least(Range(d))
medianPositive(d) == IF d = <<>> THEN 0 ELSE SortSeq(d, <)[Len(d) \div 2 + 1]
gcdPositive(d) ==
  IF d = <<>> THEN 0 ELSE Max({n \in 1..Least(Range(d)) : \A v \in Range(d) : v % n = 0})
computeObservedInterval(d) ==
  IF d = <<>> THEN 0
  ELSE IF dominantPositive(d) > 0 THEN dominantPositive(d)
  ELSE IF gcdPositive(d) > 1 THEN gcdPositive(d) ELSE minPositive(d)

-----------------------------------------------------------------------------
(* Classification of the NAT. *)

NoObservation ==
  [samples |-> {}, restricted |-> FALSE, tested |-> FALSE, mapping |-> "unknown", filtering |-> "unknown", type |-> "unknown",
   level |-> "low", basePort |-> 0, interval |-> 0, ips |-> 0, endpoints |-> 0, low |-> TRUE, diffs |-> <<>>]

MappingBehavior(ends, ports) ==
  IF ends > 1 /\ ports = 1 THEN "independent" ELSE IF ends > 1 /\ ports > 1 THEN "dependent" ELSE "unknown"
NatType(mapping, filtering) ==
  CASE mapping = "dependent" -> "symmetric"
    [] mapping = "independent" /\ filtering = "restricted" -> "port_restricted"
    [] mapping = "independent" /\ filtering = "open" -> "restricted_cone"
    [] OTHER -> "unknown"

(* Whether the evidence leaves the mapping in doubt: one probed address never proves independence. *)
ConfidenceLow(n, ends, ips, ports, conflict, mapping, type, interval) ==
  IF ~conflict /\ type = "symmetric" /\ ends > 1 /\ ports > 1 THEN FALSE
  ELSE IF ~conflict /\ type \in {"port_restricted", "restricted_cone"} /\ mapping = "independent" /\ ends > 1 /\ ips > 1 THEN FALSE
  ELSE \/ n < 3 \/ ends <= 1 \/ conflict
       \/ mapping = "independent" /\ ips <= 1
       \/ interval = 0 /\ mapping = "unknown"
Level(low, type, ends, ips) ==
  IF low THEN IF type = "symmetric" /\ ends > 1 THEN "medium" ELSE "low"
  ELSE IF ips > 1 THEN "high"
  ELSE IF type = "unknown" THEN "low" ELSE "medium"

BuildNatObservationWithEvidence(S, seen, test) ==
  LET ports == Cardinality({MappedPort(i) : i \in S})
      ips == Cardinality({Endpoints[i][1] : i \in S})
      ends == Cardinality(S)
      conflict == Cardinality({PublicAddress(i) : i \in S}) > 1
      restricted == test /\ ~seen
      mapping == MappingBehavior(ends, ports)
      filtering == IF ~test THEN "unknown" ELSE IF restricted THEN "restricted" ELSE "open"
      type == NatType(mapping, filtering)
      diffs == samplePortDiffs(S)
      interval == computeObservedInterval(diffs)
      low == ConfidenceLow(Cardinality(S), ends, ips, ports, conflict, mapping, type, interval)
  IN IF S = {} THEN [NoObservation EXCEPT !.restricted = restricted, !.tested = test]
     ELSE [samples |-> S, restricted |-> restricted, tested |-> test, mapping |-> mapping, filtering |-> filtering, type |-> type,
           level |-> Level(low, type, ends, ips), basePort |-> Min({MappedPort(i) : i \in S}), interval |-> interval,
           ips |-> ips, endpoints |-> ends, low |-> low, diffs |-> diffs]

filteringEvidenceKnown(o) == o.tested \/ o.filtering # "unknown" \/ o.type \in {"port_restricted", "restricted_cone"}
hasProbeEvidence(o) == o.samples # {}
isHardOrUnknownNat(o) ==
  \/ o.restricted \/ o.low \/ o.type \in {"symmetric", "unknown"} \/ o.level = "low"
  \/ ~filteringEvidenceKnown(o) /\ hasProbeEvidence(o)
conservativeNPSOnlyEvidence(o) ==
  hasProbeEvidence(o) /\ (o.low \/ o.type = "unknown" \/ o.level = "low" \/ ~filteringEvidenceKnown(o))
hasStrongProbeEvidence(o) == ~isHardOrUnknownNat(o) /\ filteringEvidenceKnown(o) /\ (o.endpoints > 1 \/ o.ips > 1)

-----------------------------------------------------------------------------
(* The plan. *)

Distinct(s) ==
  LET kept == SelectSeq([k \in DOMAIN s |-> k], LAMBDA k : \A j \in 1..(k - 1) : s[j] # s[k])
  IN [i \in DOMAIN kept |-> s[kept[i]]]
FirstOf(s, n) == SubSeq(s, 1, IF Len(s) > n THEN n ELSE Len(s))
InRange(s, hi) == SelectSeq(s, LAMBDA v : 0 < v /\ v <= hi)

BuildPredictionIntervals(o, predict) ==
  LET seen == Distinct(InRange(<<o.interval, minPositive(o.diffs), medianPositive(o.diffs), gcdPositive(o.diffs)>>, MaxInterval))
      near == FlattenSeq([k \in DOMAIN seen |-> <<seen[k] - 1, seen[k] + 1>>])
      all == Distinct(InRange(seen \o near \o <<1>>, MaxInterval))
  IN IF ~predict THEN <<>> ELSE FirstOf(all, 6)

shouldAllowBirthdayFallback(self, peer) ==
  \/ self.type = "symmetric" /\ peer.type = "symmetric"
  \/ isHardOrUnknownNat(self) /\ isHardOrUnknownNat(peer)

Predicts(self, peer) ==
  \E o \in {self, peer} :
    o.restricted \/ ~filteringEvidenceKnown(o) \/ o.low \/ o.type = "symmetric" \/ conservativeNPSOnlyEvidence(o)

tunePunchPlan(p, self, peer) ==
  IF ~p.predict /\ ~isHardOrUnknownNat(self) /\ ~isHardOrUnknownNat(peer)
  THEN [p EXCEPT !.rounds = 1, !.burst = 4, !.delay = 80, !.retry = 180]
  ELSE IF shouldAllowBirthdayFallback(self, peer) THEN [p EXCEPT !.rounds = 3, !.burst = 10, !.delay = 140]
  ELSE p

SelectPunchPlan(self, peer, timeout) ==
  LET predict == Predicts(self, peer)
  IN tunePunchPlan(
       [predict |-> predict, spray |-> predict \/ peer.samples = {}, birthday |-> FALSE,
        fallback |-> shouldAllowBirthdayFallback(self, peer), intervals |-> BuildPredictionIntervals(peer, predict),
        timeout |-> IF timeout <= 0 THEN 20000 ELSE timeout, delay |-> 120, retry |-> 300, rounds |-> 2, burst |-> 8, willing |-> TRUE],
       self, peer)

(* The server's policy: whether to spray at all, the interval to assume, the delays. *)
ApplyProbePlanOptions(p, q, self, peer) ==
  LET calm == ~q.force /\ ~self.low /\ ~peer.low /\ (self.restricted \/ peer.restricted)
      interval == IF p.intervals # <<>> /\ ~calm THEN p.intervals[1] ELSE 0
      hard == shouldAllowBirthdayFallback(self, peer)
  IN IF ~q.given THEN p
     ELSE [p EXCEPT !.predict = @ /\ ~calm, !.spray = q.spray, !.willing = q.force /\ q.spray,
                    !.intervals = IF q.interval > 0 /\ interval = 1 THEN [@ EXCEPT ![1] = q.interval] ELSE @,
                    !.delay = IF q.delay > 0 THEN q.delay ELSE @, !.retry = IF q.retry > 0 THEN q.retry ELSE @,
                    !.birthday = q.birthday /\ (hard \/ @), !.fallback = q.birthday /\ (hard \/ @)]

Fewer(p, k) ==
  [p EXCEPT !.rounds = IF @ > 1 THEN @ - 1 ELSE @, !.burst = IF @ > 4 THEN IF @ - k < 4 THEN 4 ELSE @ - k ELSE @]
Sooner(p, d, r) == [p EXCEPT !.delay = IF @ > 70 THEN @ - d ELSE @, !.retry = IF @ > r THEN r ELSE @]

(* Two shared families wait a little longer, good evidence and a good record hurry. *)
ApplySummaryHintsToPlan(p, shared, score, self, peer) ==
  LET easy == ~isHardOrUnknownNat(self) /\ ~isHardOrUnknownNat(peer)
      capped == p.timeout \div 5
      longer == (IF p.delay < 100 THEN 100 ELSE p.delay) + 20
      a == IF shared > 1
           THEN [(IF easy THEN Fewer(p, 1) ELSE p) EXCEPT !.delay = IF capped > 0 /\ longer > capped THEN capped ELSE longer]
           ELSE p
      b == IF easy /\ hasStrongProbeEvidence(self) /\ hasStrongProbeEvidence(peer) THEN Sooner(Fewer(a, 2), 20, 220) ELSE a
  IN IF score >= 24 THEN Sooner(Fewer(b, 1), 15, 200)
     ELSE IF score <= -16 /\ shared > 1 THEN [Fewer(b, 2) EXCEPT !.delay = @ + 20]
     ELSE b

Capped(v, hi) == IF hi > 0 /\ v > hi THEN hi ELSE v
nominationDelay(p) == IF p.delay <= 0 THEN 0 ELSE Capped(p.delay, p.timeout \div 6)
nominationRetryInterval(p) == Capped(IF p.retry <= 0 THEN 300 ELSE p.retry, p.timeout \div 5)
renominationTimeout(p) ==
  LET t == 3 * nominationRetryInterval(p) IN Capped(IF t < 450 THEN 450 ELSE t, p.timeout \div 4)
renominationCooldown(p) ==
  LET t == 2 * nominationRetryInterval(p) IN Capped(IF t < 250 THEN 250 ELSE t, p.timeout \div 5)

-----------------------------------------------------------------------------
(* The ports. *)

predictionIntervals(p) == IF p.intervals # <<>> THEN p.intervals ELSE <<1>>
Add(ports, n, port) ==
  IF Len(ports) >= n \/ port < 1 \/ port > MaxPort \/ port \in Range(ports) THEN ports ELSE Append(ports, port)

(* The first n different ports among these. *)
Take(ports, n) == FirstOf(Distinct(InRange(ports, MaxPort)), n)

(* The two loops run until they have found enough ports, by k * interval and then by k; *)
(* no k beyond MaxPort finds another one. *)
SweepIntervals(b, intervals, n) ==
  LET half == n \div 2
      one(acc, d) == IF Len(acc[2]) >= half THEN acc
                     ELSE <<acc[1], Add(Add(acc[2], n, b + acc[1] * d), n, b - acc[1] * d)>>
      after[k \in 0..MaxPort] ==
        IF k = 0 THEN Add(<<>>, n, b)
        ELSE LET acc == after[k - 1] IN IF Len(acc) >= half THEN acc ELSE FoldLeft(one, <<k, acc>>, intervals)[2]
  IN after[MaxPort]
BuildTargetSprayPortsMulti(b, intervals, n) ==
  LET around == FlattenSeq([k \in 1..MaxPort |-> <<b - k, b + k>>])
  IN Take(SweepIntervals(b, intervals, n) \o around, n)

likelyNextPredictionSteps(o, intervals) ==
  LET own == <<o.interval, dominantPositive(o.diffs), medianPositive(o.diffs)>>
  IN Distinct(Append(FirstOf(Distinct(InRange(own \o intervals, MaxStep)), 4), 1))
(* From the last port seen: one step on, the next port, two steps on. *)
(* Mutant: the steps start from the first port seen. *)
buildLikelyNextFromBase(o, intervals, n) ==
  LET steps == likelyNextPredictionSteps(o, intervals)
  IN IF Cardinality({MappedPort(i) : i \in o.samples}) < 2 THEN <<>>
     ELSE Take(FlattenSeq([k \in DOMAIN steps |-> <<o.basePort + steps[k], o.basePort + 2 * steps[k]>>]), n)
buildLikelyNextPredictionPorts(o, intervals, n) ==
  LET seen == {MappedPort(i) : i \in o.samples}
      anchor == Max(seen)
      steps == likelyNextPredictionSteps(o, intervals)
      on(s) == <<anchor + s, IF s > 1 THEN anchor + 1 ELSE 0, anchor + 2 * s>>
  IN IF Cardinality(seen) < 2 THEN <<>> ELSE Take(FlattenSeq([k \in DOMAIN steps |-> on(steps[k])]), n)

(* What has worked before, and its neighbours. *)
buildHistoricalPredictionPorts(o, n) == Take([k \in DOMAIN offsets |-> o.basePort + offsets[k]], n)
predictionNeighborSteps(intervals) == FirstOf(Distinct(<<1>> \o InRange(intervals, MaxStep)), 4)
buildHistoricalPredictionNeighborPorts(o, intervals, n) ==
  LET steps == predictionNeighborSteps(intervals)
      best == FirstOf(offsets, 3)
      around(p) == FlattenSeq([k \in DOMAIN steps |-> <<p - steps[k], p + steps[k]>>])
  IN Take(FlattenSeq([k \in DOMAIN best |-> around(o.basePort + best[k])]), n)

(* The stages share the span; a port belongs to the first stage that has it. *)
buildPredictedPortStages(o, intervals, n) ==
  Take(buildLikelyNextPredictionPorts(o, intervals, IF n < 4 THEN n ELSE 4)
         \o buildHistoricalPredictionPorts(o, n) \o buildHistoricalPredictionNeighborPorts(o, intervals, n)
         \o BuildTargetSprayPortsMulti(o.basePort, intervals, n), n)

-----------------------------------------------------------------------------
Init ==
  /\ step = "probing" /\ nat \in Nats /\ base \in Bases /\ (\A i \in DOMAIN Endpoints : MappedPort(i) <= MaxPort) /\ answered = {} /\ extra = FALSE /\ tested \in BOOLEAN /\ offsets \in Histories
  /\ obs = NoObservation /\ plan = <<>> /\ stages = <<>>

(* An endpoint's answer arrives; the extra reply, from a port that was not addressed, passes unless it is filtered. *)
Answers(i) ==
  /\ step = "probing" /\ i \notin answered
  /\ answered' = answered \union {i}
  /\ UNCHANGED <<step, nat, base, extra, tested, offsets, obs, plan, stages>>
ExtraReply ==
  /\ step = "probing" /\ tested /\ ~extra /\ ~nat.filters
  /\ extra' = TRUE
  /\ UNCHANGED <<step, nat, base, answered, tested, offsets, obs, plan, stages>>

Observe ==
  /\ step = "probing" /\ answered # {}
  /\ step' = "observed"
  /\ obs' = BuildNatObservationWithEvidence(answered, extra, tested)
  /\ UNCHANGED <<nat, base, answered, extra, tested, offsets, plan, stages>>

(* The other peer is behind a NAT like this one, or one that answers everything. *)
Easy == [NoObservation EXCEPT !.samples = {1, 2}, !.tested = TRUE, !.mapping = "independent", !.filtering = "open",
                              !.type = "restricted_cone", !.level = "high", !.basePort = 1, !.ips = 2, !.endpoints = 2, !.low = FALSE]
Plan ==
  /\ step = "observed"
  /\ \E self \in {obs, Easy}, q \in Policies, ms \in Timeouts, shared \in {1, 2}, score \in Scores :
       plan' = ApplySummaryHintsToPlan(ApplyProbePlanOptions(SelectPunchPlan(self, obs, ms), q, self, obs), shared, score, self, obs)
  /\ step' = "planned"
  /\ UNCHANGED <<nat, base, answered, extra, tested, offsets, obs, stages>>

BuildPredictedPorts ==
  /\ step = "planned"
  /\ step' = "sprayed"
  /\ stages' = buildPredictedPortStages(obs, predictionIntervals(plan), Span)
  /\ UNCHANGED <<nat, base, answered, extra, tested, offsets, obs, plan>>

Next == (\E i \in DOMAIN Endpoints : Answers(i)) \/ ExtraReply \/ Observe \/ Plan \/ BuildPredictedPorts
Spec == Init /\ [][Next]_vars

(* A verdict that is not marked as doubtful is right: a NAT whose mapping depends on the destination *)
(* is called symmetric and no other one is, whichever answers were lost. *)
ClassifiedRight == step # "probing" /\ ~obs.low => (obs.type = "symmetric" <=> Dependent)

(* Unless the policy forbids it (willing) the ports of a peer whose NAT depends on the destination are *)
(* predicted and sprayed, and when all endpoints have answered the next one it will use is tried. *)
NextPortTried ==
  step = "sprayed" /\ Dependent =>
    /\ plan.willing => plan.predict /\ plan.spray
    /\ (answered = DOMAIN Endpoints /\ nat.mapping = "endpoint") =>
         LET next == base + Len(Endpoints) * nat.stride
         IN next <= MaxPort /\ nat.stride <= MaxStep => next \in Range(stages)

(* A nomination that is given up leaves time for another one before the handshake's deadline. *)
SecondChance ==
  step = "planned" /\ plan.timeout > 5 => nominationDelay(plan) + renominationTimeout(plan) + renominationCooldown(plan) < plan.timeout
=============================================================================
