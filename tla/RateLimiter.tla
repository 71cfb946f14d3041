----------------------------- MODULE RateLimiter -----------------------------
(***************************************************************************)
(* lib/rate: the limit on the bytes per second of a tunnel or host, of its *)
(* client and of the owning user.  A Rate keeps one number, the time tat   *)
(* up to which its bytes are paid for.  Every write or read of a           *)
(* connection adds the time its bytes cost, by a compare-and-swap that any *)
(* number of goroutines repeat, and sleeps for what lies in the future; a  *)
(* write that fails gives back what it did not send.  Meanwhile a change   *)
(* of the limit stops the Rate, which wakes the sleepers, and starts it    *)
(* again with a full burst.  The rate that is measured for display is left *)
(* out.                                                                    *)
(***************************************************************************)
EXTENDS Integers, Sequences, TLAPS

CONSTANTS
  Callers,   \* goroutines, each with a connection of its own
  Rates,     \* in the order in which a connection asks them
  Editors,   \* requests that change a limit
  Limits,    \* bytes per second, 0 for none
  Sizes,     \* bytes of one read or write
  Second, Burst, Coalesce, ShortWait,   \* in units of time
  MaxI64,    \* the largest number of units
  MaxTime, MaxCalls, MaxEdits           \* bounds

\* What the code's constants and configured values satisfy.
RateAssumption ==
  /\ Burst \in Nat /\ Coalesce \in Nat /\ ShortWait \in Nat /\ MaxI64 \in Nat /\ Second \in Nat
  /\ Limits \subseteq Nat /\ Sizes \subseteq Nat \ {0} /\ Rates \in Seq(STRING) \ {<<>>}

VARIABLES
  now,      \* the monotonic clock
  limit,    \* rate -> bytes per second
  tat,      \* rate -> theoretical arrival time
  enabled, stopped,
  signal,   \* rate -> the number of its stop signal
  closed,   \* rate -> the signals that are closed
  mu,       \* rate -> the editor that holds its lock
  call,     \* caller -> what it does
  heard,    \* caller -> the stop signal it listens to
  edit,     \* editor -> what it does
  calls, edits,
  paid,     \* rate -> the time up to which its bytes have been charged, a full burst being free (history)
  mark      \* caller -> the latest of these for its last bytes (history)

vars == <<now, limit, tat, enabled, stopped, signal, closed, mu, call, heard, edit, calls, edits, paid, mark>>

Names == {Rates[i] : i \in DOMAIN Rates}
Nobody == "nobody"
Larger(a, b) == IF a > b THEN a ELSE b

-----------------------------------------------------------------------------
(* Arithmetic with saturation.                                             *)

bytesToNsCeil(bytes, r) ==
  IF bytes <= 0 \/ r <= 0 THEN 0
  ELSE IF bytes > MaxI64 \div Second THEN MaxI64 ELSE (bytes * Second + r - 1) \div r
clampAdd(a, b) == IF b <= 0 THEN a ELSE IF a > MaxI64 - b THEN MaxI64 ELSE a + b
clampSub(a, b) == IF b <= 0 THEN a ELSE IF a < b - MaxI64 - 1 THEN -MaxI64 - 1 ELSE a - b

-----------------------------------------------------------------------------
NoCall == [pc |-> "new", op |-> "write", size |-> 0, via |-> {}, at |-> 1, seen |-> 0,
           cost |-> 0, prev |-> 0, wait |-> 0, until |-> 0, woken |-> FALSE]

\* NewRate: a limit starts with a full burst.
Init ==
  /\ now = 0
  /\ limit \in [Names -> Limits]
  /\ tat = [r \in Names |-> IF limit[r] > 0 THEN -Burst ELSE 0]
  /\ enabled = [r \in Names |-> TRUE] /\ stopped = [r \in Names |-> FALSE]
  /\ signal = [r \in Names |-> 0] /\ closed = [r \in Names |-> {}]
  /\ mu = [r \in Names |-> Nobody]
  /\ call = [c \in Callers |-> NoCall] /\ heard = [c \in Callers |-> 0]
  /\ edit = [e \in Editors |-> [pc |-> "idle", rate |-> Nobody, limit |-> 0]]
  /\ calls = 0 /\ edits = 0
  /\ paid = [r \in Names |-> 0]
  /\ mark = [c \in Callers |-> 0]

rateVars == <<now, limit, enabled, stopped, signal, closed, mu, edit, edits>>

First(via) == Rates[CHOOSE i \in DOMAIN Rates : Rates[i] \in via /\ \A j \in 1..i-1 : Rates[j] \notin via]

\* NewHierarchicalLimiter: the rates that have a limit when the connection
\* is made, and the stop signal of the first of them.
Build(c) ==
  /\ call[c].pc = "new"
  /\ LET via == {r \in Names : limit[r] > 0}
     IN /\ call' = [call EXCEPT ![c].pc = "open", ![c].via = via]
        /\ heard' = [heard EXCEPT ![c] = IF via = {} THEN 0 ELSE signal[First(via)]]
  /\ UNCHANGED <<rateVars, tat, calls, paid, mark>>

\* The caller goes on with the next of its rates, or with what follows the last.
NextRate(k, again, after) ==
  [k EXCEPT !.seen = 0, !.cost = 0, !.prev = 0,
            !.at = IF k.at < Len(Rates) THEN k.at + 1 ELSE 1, !.pc = IF k.at < Len(Rates) THEN again ELSE after]
Reserved(k) == NextRate(k, "reserve", IF k.wait <= Coalesce THEN "through" ELSE "stop")
Returned(k) == NextRate(k, "refund", "open")

\* rateConn.Read when bytes have come, and rateConn.Write.
Begin(c, op, size) ==
  /\ call[c].pc = "open" /\ calls < MaxCalls
  /\ calls' = calls + 1
  /\ call' = [call EXCEPT ![c].op = op, ![c].size = size,
                          ![c].pc = IF call[c].via = {} THEN "through" ELSE "reserve"]
  /\ mark' = [mark EXCEPT ![c] = 0]
  /\ UNCHANGED <<rateVars, heard, tat, paid>>

RateOf(c) == Rates[call[c].at]
Asks(c) == RateOf(c) \in call[c].via /\ enabled[RateOf(c)]

\* reserve: a rate that is stopped costs nothing; the clock is read before
\* the limit.
Reserve(c) ==
  /\ call[c].pc = "reserve"
  /\ call' = [call EXCEPT ![c] = IF Asks(c) THEN [@ EXCEPT !.pc = "price", !.seen = now]
                                 ELSE Reserved(@)]
  /\ UNCHANGED <<rateVars, heard, tat, calls, paid, mark>>

Price(c) ==
  /\ call[c].pc = "price"
  /\ call' = [call EXCEPT ![c] = IF limit[RateOf(c)] > 0
                                 THEN [@ EXCEPT !.pc = "load", !.cost = bytesToNsCeil(call[c].size, limit[RateOf(c)])]
                                 ELSE Reserved(@)]
  /\ UNCHANGED <<rateVars, heard, tat, calls, paid, mark>>

Load(c) ==
  /\ call[c].pc \in {"load", "load refund"}
  /\ call' = [call EXCEPT ![c].prev = tat[RateOf(c)], ![c].pc = IF @ = "load" THEN "swap" ELSE "swap refund"]
  /\ UNCHANGED <<rateVars, heard, tat, calls, paid, mark>>

Charge(c, next, base) ==
  LET r == RateOf(c)
      k == [call[c] EXCEPT !.wait = Larger(@, next - call[c].seen)]
  IN /\ tat' = [tat EXCEPT ![r] = next]
     /\ paid' = [paid EXCEPT ![r] = @ + (next - base)]
     /\ mark' = [mark EXCEPT ![c] = Larger(@, paid[r] + (next - base))]
     /\ call' = [call EXCEPT ![c] = Reserved(k)]

\* Mutant: the time is stored without a comparison.
SwapUnchecked(c) ==
  LET base == Larger(call[c].prev, call[c].seen - Burst)
  IN call[c].pc = "swap" /\ Charge(c, clampAdd(base, call[c].cost), base) /\ UNCHANGED <<rateVars, heard, calls>>

Swap(c) ==
  LET r == RateOf(c)
      base == Larger(call[c].prev, call[c].seen - Burst)
  IN /\ call[c].pc = "swap"
     /\ IF tat[r] = call[c].prev THEN Charge(c, clampAdd(base, call[c].cost), base)
        ELSE /\ call' = [call EXCEPT ![c] = IF enabled[r] THEN [@ EXCEPT !.pc = "load", !.seen = now]
                                            ELSE Reserved(@)]
             /\ UNCHANGED <<tat, paid, mark>>
     /\ UNCHANGED <<rateVars, heard, calls>>

\* sleepNs: with one rate the signal is looked up now, with several it is the
\* one of the connection's start.
Sleep(c) ==
  /\ call[c].pc = "stop"
  /\ call' = [call EXCEPT ![c].pc = "asleep", ![c].until = now + call[c].wait]
  /\ heard' = [heard EXCEPT ![c] = IF \E r \in Names : call[c].via = {r} THEN signal[First(call[c].via)] ELSE @]
  /\ UNCHANGED <<rateVars, tat, calls, paid, mark>>

Wake(c) ==
  /\ call[c].pc = "asleep"
  /\ \/ now >= call[c].until /\ call' = [call EXCEPT ![c].pc = "through"]
     \/ /\ call[c].wait > ShortWait /\ heard[c] \in closed[First(call[c].via)]
        /\ call' = [call EXCEPT ![c].pc = "through", ![c].woken = TRUE]
  /\ UNCHANGED <<rateVars, heard, tat, calls, paid, mark>>

\* The bytes are passed on; a write may fail after n of them.
Pass(c, n) ==
  /\ call[c].pc = "through" /\ n \in 0..call[c].size
  /\ call[c].op = "read" => n = call[c].size
  /\ call' = [call EXCEPT ![c].size = @ - n, ![c].wait = 0, ![c].until = 0, ![c].woken = FALSE,
                          ![c].pc = IF n < call[c].size /\ call[c].via # {} THEN "refund" ELSE "open"]
  /\ UNCHANGED <<rateVars, heard, tat, calls, paid, mark>>

\* ReturnBucket: what was not written is given back at the limit of now.
Refund(c) ==
  LET r == RateOf(c) IN
  /\ call[c].pc = "refund"
  /\ call' = [call EXCEPT ![c] = IF Asks(c) /\ limit[r] > 0
                                 THEN [@ EXCEPT !.pc = "load refund", !.seen = now, !.cost = bytesToNsCeil(call[c].size, limit[r])]
                                 ELSE Returned(@)]
  /\ UNCHANGED <<rateVars, heard, tat, calls, paid, mark>>

SwapRefund(c) ==
  LET r == RateOf(c)
      back == clampSub(call[c].prev, call[c].cost)
  IN /\ call[c].pc = "swap refund"
     /\ IF tat[r] = call[c].prev
        THEN /\ tat' = [tat EXCEPT ![r] = Larger(back, call[c].seen - Burst)]
             /\ paid' = [paid EXCEPT ![r] = @ - (call[c].prev - back)]
             /\ call' = [call EXCEPT ![c] = Returned(@)]
        ELSE /\ call' = [call EXCEPT ![c] = IF enabled[r] THEN [@ EXCEPT !.pc = "load refund"] ELSE Returned(@)]
             /\ UNCHANGED <<tat, paid>>
     /\ UNCHANGED <<rateVars, heard, calls, mark>>

-----------------------------------------------------------------------------
(* ResetLimit: Stop, SetLimit, Start.  Stop and Start hold the lock, which *)
(* the callers do not take.                                                *)
callVars == <<now, call, heard, calls, mark>>
To(e, pc) == edit' = [edit EXCEPT ![e].pc = pc]

ResetLimit(e, r, l) ==
  /\ edit[e].pc = "idle" /\ edits < MaxEdits
  /\ edits' = edits + 1
  /\ edit' = [edit EXCEPT ![e] = [pc |-> "stop", rate |-> r, limit |-> l]]
  /\ UNCHANGED <<callVars, limit, tat, enabled, stopped, signal, closed, mu, paid>>

Stop(e) ==
  LET r == edit[e].rate IN
  \/ /\ edit[e].pc = "stop" /\ mu[r] = Nobody
     /\ mu' = [mu EXCEPT ![r] = e]
     /\ enabled' = [enabled EXCEPT ![r] = FALSE]
     /\ To(e, "close")
     /\ UNCHANGED <<callVars, limit, tat, stopped, signal, closed, edits, paid>>
  \/ /\ edit[e].pc = "close"
     /\ closed' = [closed EXCEPT ![r] = IF stopped[r] THEN @ ELSE @ \cup {signal[r]}]
     /\ stopped' = [stopped EXCEPT ![r] = TRUE]
     /\ mu' = [mu EXCEPT ![r] = Nobody]
     /\ To(e, "set")
     /\ UNCHANGED <<callVars, limit, tat, enabled, signal, edits, paid>>

SetLimit(e) ==
  /\ edit[e].pc = "set"
  /\ limit' = [limit EXCEPT ![edit[e].rate] = edit[e].limit]
  /\ To(e, "start")
  /\ UNCHANGED <<callVars, tat, enabled, stopped, signal, closed, mu, edits, paid>>

Start(e) ==
  LET r == edit[e].rate IN
  \/ /\ edit[e].pc = "start" /\ mu[r] = Nobody
     /\ mu' = [mu EXCEPT ![r] = e]
     /\ signal' = [signal EXCEPT ![r] = IF stopped[r] THEN @ + 1 ELSE @]
     /\ stopped' = [stopped EXCEPT ![r] = FALSE]
     /\ To(e, IF stopped[r] \/ ~enabled[r] THEN "refill" ELSE "enable")
     /\ UNCHANGED <<callVars, limit, tat, enabled, closed, edits, paid>>
  \/ /\ edit[e].pc = "refill"
     /\ tat' = [tat EXCEPT ![r] = IF limit[r] > 0 THEN now - Burst ELSE 0]
     /\ paid' = [paid EXCEPT ![r] = IF limit[r] > 0 THEN now ELSE 0]
     /\ To(e, "enable")
     /\ UNCHANGED <<callVars, limit, enabled, stopped, signal, closed, mu, edits>>
  \/ /\ edit[e].pc = "enable"
     /\ enabled' = [enabled EXCEPT ![r] = TRUE]
     /\ mu' = [mu EXCEPT ![r] = Nobody]
     /\ To(e, "idle")
     /\ UNCHANGED <<callVars, limit, tat, stopped, signal, closed, edits, paid>>

Tick ==
  /\ now < MaxTime /\ now' = now + 1
  /\ UNCHANGED <<limit, tat, enabled, stopped, signal, closed, mu, call, heard, edit, calls, edits, paid, mark>>

Next ==
  \/ Tick
  \/ \E c \in Callers :
       \/ Build(c) \/ (\E op \in {"read", "write"}, size \in Sizes : Begin(c, op, size))
       \/ Reserve(c) \/ Price(c) \/ Load(c) \/ Swap(c) \/ Sleep(c) \/ Wake(c)
       \/ (\E n \in 0..call[c].size : Pass(c, n)) \/ Refund(c) \/ SwapRefund(c)
  \/ \E e \in Editors : (\E r \in Names, l \in Limits : ResetLimit(e, r, l)) \/ Stop(e) \/ SetLimit(e) \/ Start(e)

Spec == Init /\ [][Next]_vars

-----------------------------------------------------------------------------
\* The limit is kept: the bytes a caller is let through with, together with
\* all that were charged to one of its rates before, cost no more than the
\* time since that rate was started, one burst and the wait that is too short
\* to sleep, however the callers' swaps, refunds and the changes of the limit
\* meet; only a caller that a stop has woken is let through before (reserve,
\* Get, ReturnBucket).
PaceKept == \A c \in Callers : call[c].pc = "through" /\ ~call[c].woken => mark[c] <= now + Burst + Coalesce

-----------------------------------------------------------------------------
(* The proof.  A rate's time is never more than a burst behind what was    *)
(* charged to it (Behind), and what a call still has to wait for covers    *)
(* what was charged for it and before it (Good).                           *)
CallStates == {"new", "open", "reserve", "price", "load", "swap", "stop", "asleep", "through",
               "refund", "load refund", "swap refund"}
Calls == [pc : CallStates, op : {"read", "write"}, size : Nat, via : SUBSET Names, at : DOMAIN Rates, seen : Nat,
          cost : Int, prev : Int, wait : Nat, until : Int, woken : BOOLEAN]
EditStates == {"idle", "stop", "close", "set", "start", "refill", "enable"}
Edits == [pc : EditStates, rate : Names \cup {Nobody}, limit : Nat]

TypeOK ==
  /\ now \in Nat
  /\ limit \in [Names -> Int] /\ tat \in [Names -> Int] /\ paid \in [Names -> Int]
  /\ call \in [Callers -> Calls] /\ mark \in [Callers -> Int]
  /\ edit \in [Editors -> Edits]

\* The time k, charged up to m at time t, has left to wait covers m.
Covered(k, m, t) ==
  /\ k.seen <= t
  /\ k.pc \in {"reserve", "price", "load", "swap", "stop"} => m <= t + k.wait + Burst
  /\ k.pc = "asleep" => m <= k.until + Burst
  /\ k.pc = "through" /\ ~k.woken => m <= t + Burst + Coalesce
Good(k, m, t) == k \in Calls /\ Covered(k, m, t)

Behind == \A r \in Names : tat[r] >= paid[r] - Burst
Waited == \A c \in Callers : Covered(call[c], mark[c], now)
IInv == TypeOK /\ Behind /\ Waited

LEMMA CostIsInt ==
  ASSUME RateAssumption, NEW n \in Nat, NEW l \in Int
  PROVE bytesToNsCeil(n, l) \in Int
BY DEF RateAssumption, bytesToNsCeil

LEMMA ClampIsInt ==
  ASSUME RateAssumption, NEW a \in Int, NEW b \in Int
  PROVE clampAdd(a, b) \in Int /\ clampSub(a, b) \in Int
BY DEF RateAssumption, clampAdd, clampSub

LEMMA NamedRate ==
  ASSUME RateAssumption, NEW k \in Calls
  PROVE Rates[k.at] \in Names
BY DEF Calls, Names

LEMMA OnwardIsGood ==
  ASSUME RateAssumption, NEW k \in Calls, NEW again \in CallStates, NEW after \in CallStates
  PROVE /\ NextRate(k, again, after) \in Calls
        /\ NextRate(k, again, after).seen = 0
        /\ NextRate(k, again, after).wait = k.wait
        /\ NextRate(k, again, after).until = k.until
        /\ NextRate(k, again, after).pc \in {again, after}
        /\ (NextRate(k, again, after).pc = again \/ NextRate(k, again, after).pc = after)
<1>1. Rates \in Seq(STRING) /\ Rates # <<>>
  BY DEF RateAssumption
<1>2. DOMAIN Rates = 1..Len(Rates) /\ Len(Rates) \in Nat /\ Len(Rates) > 0
  BY <1>1
<1>3. k.at \in 1..Len(Rates)
  BY <1>2 DEF Calls
<1>4. (IF k.at < Len(Rates) THEN k.at + 1 ELSE 1) \in DOMAIN Rates
  BY <1>2, <1>3
<1> PICK i : i = IF k.at < Len(Rates) THEN k.at + 1 ELSE 1
  OBVIOUS
<1> PICK p : p = IF k.at < Len(Rates) THEN again ELSE after
  OBVIOUS
<1>5. i \in DOMAIN Rates /\ (p = again \/ p = after) /\ p \in CallStates
  BY <1>4
<1> PICK z \in Int, n \in Nat : z = 0 /\ n = 0
  OBVIOUS
<1> DEFINE j == [k EXCEPT !.seen = n, !.cost = z, !.prev = z, !.at = i, !.pc = p]
<1>6. NextRate(k, again, after) = j
  BY DEF NextRate
<1>8. j.seen = 0 /\ j.wait = k.wait /\ j.until = k.until /\ j.pc = p
  BY DEF Calls
<1>9. j \in Calls
  BY <1>5 DEF Calls
<1> HIDE DEF j
<1> QED
  BY <1>5, <1>6, <1>8, <1>9

LEMMA ReservedIsGood ==
  ASSUME RateAssumption, NEW k \in Calls, NEW m \in Int, NEW t \in Nat, m <= t + k.wait + Burst
  PROVE Good(Reserved(k), m, t)
<1> DEFINE after == IF k.wait <= Coalesce THEN "through" ELSE "stop"
<1>1. "reserve" \in CallStates /\ after \in CallStates
  BY DEF CallStates
<1> PICK j : j = NextRate(k, "reserve", after)
  OBVIOUS
<1>2. /\ j \in Calls /\ j.seen = 0 /\ j.wait = k.wait
      /\ (j.pc = "reserve" \/ j.pc = after)
  BY <1>1, OnwardIsGood
<1>3. k.wait \in Nat /\ Burst \in Nat /\ Coalesce \in Nat
  BY DEF Calls, RateAssumption
<1>4. Covered(j, m, t)
  BY <1>2, <1>3 DEF Covered
<1> QED
  BY <1>2, <1>4 DEF Good, Reserved

LEMMA ReturnedIsGood ==
  ASSUME RateAssumption, NEW k \in Calls, NEW m \in Int, NEW t \in Nat
  PROVE Good(Returned(k), m, t)
<1>1. "refund" \in CallStates /\ "open" \in CallStates
  BY DEF CallStates
<1> PICK j : j = NextRate(k, "refund", "open")
  OBVIOUS
<1>2. /\ j \in Calls /\ j.seen = 0 /\ (j.pc = "refund" \/ j.pc = "open")
  BY <1>1, OnwardIsGood
<1>3. Covered(j, m, t)
  BY <1>2 DEF Covered
<1> QED
  BY <1>2, <1>3 DEF Good, Returned

\* A step of one caller that leaves the clock and the rates alone.
LEMMA CallerStep ==
  ASSUME RateAssumption, IInv, NEW c \in Callers, NEW k, NEW m \in Int, Good(k, m, now),
         call' = [call EXCEPT ![c] = k], mark' = [mark EXCEPT ![c] = m],
         UNCHANGED <<now, limit, edit>>,
         tat' \in [Names -> Int], paid' \in [Names -> Int], Behind'
  PROVE IInv'
<1>1. TypeOK'
  BY DEF IInv, TypeOK, Good
<1>2. Waited'
  <2> SUFFICES ASSUME NEW d \in Callers PROVE Covered(call'[d], mark'[d], now')
    BY DEF Waited
  <2>1. CASE d = c
    <3>1. call'[d] = k /\ mark'[d] = m /\ now' = now
      BY <2>1 DEF IInv, TypeOK
    <3> QED BY <3>1 DEF Good
  <2>2. CASE d # c
    <3>1. call'[d] = call[d] /\ mark'[d] = mark[d] /\ now' = now
      BY <2>2 DEF IInv, TypeOK
    <3> QED BY <3>1 DEF IInv, Waited
  <2> QED BY <2>1, <2>2
<1> QED BY <1>1, <1>2 DEF IInv

\* A step of a caller that charges nothing.
LEMMA FreeStep ==
  ASSUME RateAssumption, IInv, NEW c \in Callers, NEW k, Good(k, mark[c], now),
         call' = [call EXCEPT ![c] = k], UNCHANGED <<rateVars, tat, paid, mark>>
  PROVE IInv'
<1>1. mark' = [mark EXCEPT ![c] = mark[c]] /\ mark[c] \in Int
  BY DEF IInv, TypeOK
<1>2. UNCHANGED <<now, limit, edit>>
  BY DEF rateVars
<1>3. tat' \in [Names -> Int] /\ paid' \in [Names -> Int] /\ Behind'
  BY DEF IInv, TypeOK, Behind
<1> QED
  BY <1>1, <1>2, <1>3, CallerStep

\* A step that leaves the callers alone.
LEMMA RateStep ==
  ASSUME RateAssumption, IInv, UNCHANGED <<call, mark>>, TypeOK', now <= now', Behind'
  PROVE IInv'
<1>1. ASSUME NEW d \in Callers PROVE Covered(call[d], mark[d], now')
  <2>1. Covered(call[d], mark[d], now)
    BY DEF IInv, Waited
  <2>2. /\ call[d] \in Calls /\ mark[d] \in Int /\ now \in Nat /\ now' \in Nat
        /\ Burst \in Nat /\ Coalesce \in Nat
    BY DEF IInv, TypeOK, RateAssumption
  <2>3. call[d].seen \in Nat /\ call[d].wait \in Nat /\ call[d].until \in Int
    BY <2>2 DEF Calls
  <2> QED
    BY <2>1, <2>2, <2>3 DEF Covered
<1> QED
  BY <1>1 DEF IInv, Waited

LEMMA BuildStep ==
  ASSUME RateAssumption, IInv, NEW c \in Callers, Build(c)
  PROVE IInv'
<1> PICK via : via = {r \in Names : limit[r] > 0}
  OBVIOUS
<1> PICK k : k = [call[c] EXCEPT !.pc = "open", !.via = via]
  OBVIOUS
<1>1. call[c] \in Calls /\ Covered(call[c], mark[c], now)
  BY DEF IInv, TypeOK, Waited
<1>2. call' = [call EXCEPT ![c] = k]
  BY DEF Build, IInv, TypeOK
<1>3. via \in SUBSET Names /\ "open" \in CallStates
  BY DEF CallStates
<1>4. k \in Calls /\ k.pc = "open" /\ k.seen = call[c].seen
  BY <1>1, <1>3 DEF Calls
<1>5. Good(k, mark[c], now)
  BY <1>1, <1>4 DEF Good, Covered
<1> QED
  BY <1>2, <1>5, FreeStep DEF Build

LEMMA BeginStep ==
  ASSUME RateAssumption, IInv, NEW c \in Callers, NEW op \in {"read", "write"}, NEW size \in Sizes, Begin(c, op, size)
  PROVE IInv'
<1> PICK p : p = IF call[c].via = {} THEN "through" ELSE "reserve"
  OBVIOUS
<1> PICK k : k = [call[c] EXCEPT !.op = op, !.size = size, !.pc = p]
  OBVIOUS
<1>1. call[c] \in Calls /\ Covered(call[c], mark[c], now) /\ now \in Nat
  BY DEF IInv, TypeOK, Waited
<1>2. call' = [call EXCEPT ![c] = k]
  BY DEF Begin, IInv, TypeOK
<1>3. size \in Nat /\ p \in CallStates /\ Burst \in Nat /\ Coalesce \in Nat
  BY DEF CallStates, RateAssumption
<1>4. k \in Calls /\ k.pc = p /\ k.seen = call[c].seen /\ k.wait \in Nat
  BY <1>1, <1>3 DEF Calls
<1> PICK z \in Int : z = 0
  OBVIOUS
<1>5. Good(k, z, now)
  BY <1>1, <1>3, <1>4 DEF Good, Covered
<1>6. tat' \in [Names -> Int] /\ paid' \in [Names -> Int] /\ Behind'
  BY DEF IInv, TypeOK, Begin, Behind
<1>7. mark' = [mark EXCEPT ![c] = z] /\ UNCHANGED <<now, limit, edit>>
  BY DEF Begin, rateVars
<1> QED
  BY <1>2, <1>5, <1>6, <1>7, CallerStep

LEMMA ReserveStep ==
  ASSUME RateAssumption, IInv, NEW c \in Callers, Reserve(c)
  PROVE IInv'
<1>1. /\ call[c] \in Calls /\ Covered(call[c], mark[c], now) /\ now \in Nat /\ mark[c] \in Int
      /\ call[c].pc = "reserve"
  BY DEF IInv, TypeOK, Waited, Reserve
<1>2. mark[c] <= now + call[c].wait + Burst
  BY <1>1 DEF Covered
<1>3. CASE Asks(c)
  <2> PICK k : k = [call[c] EXCEPT !.pc = "price", !.seen = now]
    OBVIOUS
  <2>1. call' = [call EXCEPT ![c] = k]
    BY <1>3 DEF Reserve, IInv, TypeOK
  <2>2. "price" \in CallStates
    BY DEF CallStates
  <2>3. k \in Calls /\ k.pc = "price" /\ k.seen = now /\ k.wait = call[c].wait
    BY <1>1, <2>2 DEF Calls
  <2>4. Good(k, mark[c], now)
    BY <1>1, <1>2, <2>3 DEF Good, Covered
  <2> QED
    BY <2>1, <2>4, FreeStep DEF Reserve
<1>4. CASE ~Asks(c)
  <2> PICK k : k = Reserved(call[c])
    OBVIOUS
  <2>1. call' = [call EXCEPT ![c] = k]
    BY <1>4 DEF Reserve, IInv, TypeOK
  <2>2. Good(k, mark[c], now)
    BY <1>1, <1>2, ReservedIsGood
  <2> QED
    BY <2>1, <2>2, FreeStep DEF Reserve
<1> QED
  BY <1>3, <1>4

LEMMA PriceStep ==
  ASSUME RateAssumption, IInv, NEW c \in Callers, Price(c)
  PROVE IInv'
<1>1. /\ call[c] \in Calls /\ Covered(call[c], mark[c], now) /\ now \in Nat /\ mark[c] \in Int
      /\ call[c].pc = "price"
  BY DEF IInv, TypeOK, Waited, Price
<1>2. mark[c] <= now + call[c].wait + Burst
  BY <1>1 DEF Covered
<1>3. CASE limit[RateOf(c)] > 0
  <2> PICK x : x = bytesToNsCeil(call[c].size, limit[RateOf(c)])
    OBVIOUS
  <2> PICK k : k = [call[c] EXCEPT !.pc = "load", !.cost = x]
    OBVIOUS
  <2>1. call' = [call EXCEPT ![c] = k]
    BY <1>3 DEF Price, IInv, TypeOK
  <2>2. x \in Int /\ "load" \in CallStates
    <3>1. limit[RateOf(c)] \in Int
      BY <1>1, NamedRate DEF RateOf, IInv, TypeOK
    <3>2. call[c].size \in Nat
      BY <1>1 DEF Calls
    <3> QED BY <3>1, <3>2, CostIsInt DEF CallStates
  <2>3. k \in Calls /\ k.pc = "load" /\ k.seen = call[c].seen /\ k.wait = call[c].wait
    BY <1>1, <2>2 DEF Calls
  <2>4. Good(k, mark[c], now)
    BY <1>1, <1>2, <2>3 DEF Good, Covered
  <2> QED
    BY <2>1, <2>4, FreeStep DEF Price
<1>4. CASE ~(limit[RateOf(c)] > 0)
  <2> PICK k : k = Reserved(call[c])
    OBVIOUS
  <2>1. call' = [call EXCEPT ![c] = k]
    BY <1>4 DEF Price, IInv, TypeOK
  <2>2. Good(k, mark[c], now)
    BY <1>1, <1>2, ReservedIsGood
  <2> QED
    BY <2>1, <2>2, FreeStep DEF Price
<1> QED
  BY <1>3, <1>4

LEMMA LoadStep ==
  ASSUME RateAssumption, IInv, NEW c \in Callers, Load(c)
  PROVE IInv'
<1>1. /\ call[c] \in Calls /\ Covered(call[c], mark[c], now) /\ now \in Nat /\ mark[c] \in Int
      /\ call[c].pc \in {"load", "load refund"}
  BY DEF IInv, TypeOK, Waited, Load
<1> PICK p : p = IF call[c].pc = "load" THEN "swap" ELSE "swap refund"
  OBVIOUS
<1> PICK x : x = tat[RateOf(c)]
  OBVIOUS
<1> PICK k : k = [call[c] EXCEPT !.prev = x, !.pc = p]
  OBVIOUS
<1>2. call' = [call EXCEPT ![c] = k]
  BY DEF Load, IInv, TypeOK
<1>3. x \in Int /\ p \in CallStates
  BY <1>1, NamedRate DEF RateOf, IInv, TypeOK, CallStates
<1>4. k \in Calls /\ k.pc = p /\ k.seen = call[c].seen /\ k.wait = call[c].wait
  BY <1>1, <1>3 DEF Calls
<1>5. Covered(k, mark[c], now)
  <2>1. CASE call[c].pc = "load"
    <3>1. k.pc = "swap" /\ mark[c] <= now + call[c].wait + Burst
      BY <1>1, <1>4, <2>1 DEF Covered
    <3> QED BY <1>1, <1>4, <3>1 DEF Covered
  <2>2. CASE call[c].pc = "load refund"
    <3>1. k.pc = "swap refund"
      BY <1>4, <2>2
    <3> QED BY <1>1, <1>4, <3>1 DEF Covered
  <2> QED BY <1>1, <2>1, <2>2
<1>6. Good(k, mark[c], now)
  BY <1>4, <1>5 DEF Good
<1> QED
  BY <1>2, <1>6, FreeStep DEF Load

LEMMA SwapStep ==
  ASSUME RateAssumption, IInv, NEW c \in Callers, Swap(c)
  PROVE IInv'
<1>1. /\ call[c] \in Calls /\ Covered(call[c], mark[c], now) /\ now \in Nat /\ mark[c] \in Int
      /\ call[c].pc = "swap"
  BY DEF IInv, TypeOK, Waited, Swap
<1>2. /\ call[c].seen \in Nat /\ call[c].seen <= now /\ call[c].prev \in Int /\ call[c].cost \in Int
      /\ call[c].wait \in Nat /\ Burst \in Nat
  BY <1>1 DEF Covered, Calls, RateAssumption
<1>3. mark[c] <= now + call[c].wait + Burst
  BY <1>1 DEF Covered
<1> PICK r : r = RateOf(c)
  OBVIOUS
<1>4. r \in Names /\ tat[r] \in Int /\ paid[r] \in Int /\ tat[r] >= paid[r] - Burst
  BY <1>1, NamedRate DEF RateOf, IInv, TypeOK, Behind
<1>5. CASE tat[r] = call[c].prev
  <2> PICK base : base = Larger(call[c].prev, call[c].seen - Burst)
    OBVIOUS
  <2>1. base \in Int /\ base >= tat[r]
    BY <1>2, <1>5 DEF Larger
  <2> PICK next : next = clampAdd(base, call[c].cost)
    OBVIOUS
  <2>2. next \in Int
    BY <1>2, <2>1, ClampIsInt
  <2> PICK w : w = Larger(call[c].wait, next - call[c].seen)
    OBVIOUS
  <2>3. w \in Nat /\ w >= call[c].wait /\ w >= next - call[c].seen
    BY <1>2, <2>2 DEF Larger
  <2> PICK m : m = Larger(mark[c], paid[r] + (next - base))
    OBVIOUS
  <2>4. m \in Int /\ m <= now + w + Burst
    BY <1>1, <1>2, <1>3, <1>4, <2>1, <2>2, <2>3 DEF Larger
  <2> PICK j : j = [call[c] EXCEPT !.wait = w]
    OBVIOUS
  <2>5. j \in Calls /\ j.wait = w
    BY <1>1, <2>3 DEF Calls
  <2> PICK k : k = Reserved(j)
    OBVIOUS
  <2>6. Good(k, m, now)
    BY <1>1, <2>4, <2>5, ReservedIsGood
  <2>7. Charge(c, next, base)
    BY <1>5 DEF Swap
  <2>8. call' = [call EXCEPT ![c] = k] /\ mark' = [mark EXCEPT ![c] = m]
    BY <2>7 DEF Charge
  <2>9. tat' = [tat EXCEPT ![r] = next] /\ paid' = [paid EXCEPT ![r] = paid[r] + (next - base)]
    BY <2>7 DEF Charge
  <2>10. tat' \in [Names -> Int] /\ paid' \in [Names -> Int]
    BY <1>4, <2>1, <2>2, <2>9 DEF IInv, TypeOK
  <2>11. Behind'
    <3> SUFFICES ASSUME NEW q \in Names PROVE tat'[q] >= paid'[q] - Burst
      BY DEF Behind
    <3>1. CASE q = r
      <4>1. tat'[q] = next /\ paid'[q] = paid[r] + (next - base)
        BY <1>4, <2>9, <3>1 DEF IInv, TypeOK
      <4> QED BY <1>2, <1>4, <2>1, <2>2, <4>1
    <3>2. CASE q # r
      <4>1. tat'[q] = tat[q] /\ paid'[q] = paid[q]
        BY <2>9, <3>2 DEF IInv, TypeOK
      <4> QED BY <4>1 DEF IInv, Behind
    <3> QED BY <3>1, <3>2
  <2>12. UNCHANGED <<now, limit, edit>>
    BY DEF Swap, rateVars
  <2> QED
    BY <2>4, <2>6, <2>8, <2>10, <2>11, <2>12, CallerStep
<1>6. CASE tat[r] # call[c].prev
  <2>1. UNCHANGED <<rateVars, tat, paid, mark>>
    BY <1>6 DEF Swap
  <2>2. CASE enabled[r]
    <3> PICK k : k = [call[c] EXCEPT !.pc = "load", !.seen = now]
      OBVIOUS
    <3>1. call' = [call EXCEPT ![c] = k]
      BY <1>6, <2>2 DEF Swap, IInv, TypeOK
    <3>2. "load" \in CallStates
      BY DEF CallStates
    <3>3. k \in Calls /\ k.pc = "load" /\ k.seen = now /\ k.wait = call[c].wait
      BY <1>1, <3>2 DEF Calls
    <3>4. Good(k, mark[c], now)
      BY <1>1, <1>3, <3>3 DEF Good, Covered
    <3> QED BY <2>1, <3>1, <3>4, FreeStep
  <2>3. CASE ~enabled[r]
    <3> PICK k : k = Reserved(call[c])
      OBVIOUS
    <3>1. call' = [call EXCEPT ![c] = k]
      BY <1>6, <2>3 DEF Swap, IInv, TypeOK
    <3>2. Good(k, mark[c], now)
      BY <1>1, <1>3, ReservedIsGood
    <3> QED BY <2>1, <3>1, <3>2, FreeStep
  <2> QED BY <2>2, <2>3
<1> QED
  BY <1>5, <1>6

LEMMA SleepStep ==
  ASSUME RateAssumption, IInv, NEW c \in Callers, Sleep(c)
  PROVE IInv'
<1>1. /\ call[c] \in Calls /\ Covered(call[c], mark[c], now) /\ now \in Nat /\ mark[c] \in Int
      /\ call[c].pc = "stop"
  BY DEF IInv, TypeOK, Waited, Sleep
<1> PICK u : u = now + call[c].wait
  OBVIOUS
<1> PICK k : k = [call[c] EXCEPT !.pc = "asleep", !.until = u]
  OBVIOUS
<1>2. call' = [call EXCEPT ![c] = k]
  BY DEF Sleep, IInv, TypeOK
<1>3. u \in Int /\ "asleep" \in CallStates /\ mark[c] <= u + Burst
  <2>1. call[c].wait \in Nat
    BY <1>1 DEF Calls
  <2>2. mark[c] <= now + call[c].wait + Burst
    BY <1>1 DEF Covered
  <2> QED BY <1>1, <2>1, <2>2 DEF CallStates
<1>4. k \in Calls /\ k.pc = "asleep" /\ k.seen = call[c].seen /\ k.until = u
  BY <1>1, <1>3 DEF Calls
<1>5. Good(k, mark[c], now)
  BY <1>1, <1>3, <1>4 DEF Good, Covered
<1> QED
  BY <1>2, <1>5, FreeStep DEF Sleep

LEMMA WakeStep ==
  ASSUME RateAssumption, IInv, NEW c \in Callers, Wake(c)
  PROVE IInv'
<1>1. /\ call[c] \in Calls /\ Covered(call[c], mark[c], now) /\ now \in Nat /\ mark[c] \in Int
      /\ call[c].pc = "asleep"
  BY DEF IInv, TypeOK, Waited, Wake
<1>2. "through" \in CallStates /\ call[c].until \in Int /\ mark[c] <= call[c].until + Burst
  BY <1>1 DEF CallStates, Calls, Covered
<1>3. Burst \in Nat /\ Coalesce \in Nat
  BY DEF RateAssumption
<1>4. CASE now >= call[c].until /\ call' = [call EXCEPT ![c].pc = "through"]
  <2> PICK k : k = [call[c] EXCEPT !.pc = "through"]
    OBVIOUS
  <2>1. call' = [call EXCEPT ![c] = k]
    BY <1>4 DEF IInv, TypeOK
  <2>2. k \in Calls /\ k.pc = "through" /\ k.seen = call[c].seen
    BY <1>1, <1>2 DEF Calls
  <2>3. Good(k, mark[c], now)
    BY <1>1, <1>2, <1>3, <1>4, <2>2 DEF Good, Covered
  <2> QED BY <2>1, <2>3, FreeStep DEF Wake
<1>5. CASE call' = [call EXCEPT ![c].pc = "through", ![c].woken = TRUE]
  <2> PICK k : k = [call[c] EXCEPT !.pc = "through", !.woken = TRUE]
    OBVIOUS
  <2>1. call' = [call EXCEPT ![c] = k]
    BY <1>5 DEF IInv, TypeOK
  <2>2. k \in Calls /\ k.pc = "through" /\ k.seen = call[c].seen /\ k.woken
    BY <1>1, <1>2 DEF Calls
  <2>3. Good(k, mark[c], now)
    BY <1>1, <2>2 DEF Good, Covered
  <2> QED BY <2>1, <2>3, FreeStep DEF Wake
<1> QED
  BY <1>4, <1>5 DEF Wake

LEMMA PassStep ==
  ASSUME RateAssumption, IInv, NEW c \in Callers, NEW n \in Int, Pass(c, n)
  PROVE IInv'
<1>1. call[c] \in Calls /\ Covered(call[c], mark[c], now) /\ now \in Nat
  BY DEF IInv, TypeOK, Waited
<1>2. call[c].size \in Nat /\ n \in 0..call[c].size
  BY <1>1 DEF Calls, Pass
<1> PICK s : s = call[c].size - n
  OBVIOUS
<1> PICK p : p = IF n < call[c].size /\ call[c].via # {} THEN "refund" ELSE "open"
  OBVIOUS
<1> PICK z \in Nat, i \in Int : z = 0 /\ i = 0
  OBVIOUS
<1> PICK k : k = [call[c] EXCEPT !.size = s, !.wait = z, !.until = i, !.woken = FALSE, !.pc = p]
  OBVIOUS
<1>3. call' = [call EXCEPT ![c] = k]
  BY DEF Pass, IInv, TypeOK
<1>4. s \in Nat /\ p \in CallStates /\ (p = "refund" \/ p = "open")
  BY <1>2 DEF CallStates
<1>5. k \in Calls
  BY <1>1, <1>4 DEF Calls
<1>6. k.pc = p /\ k.seen = call[c].seen
  BY <1>1 DEF Calls
<1>7. Good(k, mark[c], now)
  BY <1>1, <1>4, <1>5, <1>6 DEF Good, Covered
<1> QED
  BY <1>3, <1>7, FreeStep DEF Pass

LEMMA RefundStep ==
  ASSUME RateAssumption, IInv, NEW c \in Callers, Refund(c)
  PROVE IInv'
<1>1. call[c] \in Calls /\ Covered(call[c], mark[c], now) /\ now \in Nat /\ mark[c] \in Int
  BY DEF IInv, TypeOK, Waited
<1> PICK r : r = RateOf(c)
  OBVIOUS
<1>2. CASE Asks(c) /\ limit[r] > 0
  <2> PICK x : x = bytesToNsCeil(call[c].size, limit[r])
    OBVIOUS
  <2> PICK k : k = [call[c] EXCEPT !.pc = "load refund", !.seen = now, !.cost = x]
    OBVIOUS
  <2>1. call' = [call EXCEPT ![c] = k]
    BY <1>2 DEF Refund, IInv, TypeOK
  <2>2. x \in Int /\ "load refund" \in CallStates
    <3>1. limit[r] \in Int
      BY <1>1, NamedRate DEF RateOf, IInv, TypeOK
    <3>2. call[c].size \in Nat
      BY <1>1 DEF Calls
    <3> QED BY <3>1, <3>2, CostIsInt DEF CallStates
  <2>3. k \in Calls /\ k.pc = "load refund" /\ k.seen = now
    BY <1>1, <2>2 DEF Calls
  <2>4. Good(k, mark[c], now)
    BY <1>1, <2>3 DEF Good, Covered
  <2> QED
    BY <2>1, <2>4, FreeStep DEF Refund
<1>3. CASE ~(Asks(c) /\ limit[r] > 0)
  <2> PICK k : k = Returned(call[c])
    OBVIOUS
  <2>1. call' = [call EXCEPT ![c] = k]
    BY <1>3 DEF Refund, IInv, TypeOK
  <2>2. Good(k, mark[c], now)
    BY <1>1, ReturnedIsGood
  <2> QED
    BY <2>1, <2>2, FreeStep DEF Refund
<1> QED
  BY <1>2, <1>3

LEMMA SwapRefundStep ==
  ASSUME RateAssumption, IInv, NEW c \in Callers, SwapRefund(c)
  PROVE IInv'
<1>1. /\ call[c] \in Calls /\ Covered(call[c], mark[c], now) /\ now \in Nat /\ mark[c] \in Int
      /\ call[c].pc = "swap refund"
  BY DEF IInv, TypeOK, Waited, SwapRefund
<1>2. call[c].seen \in Nat /\ call[c].prev \in Int /\ call[c].cost \in Int /\ Burst \in Nat
  BY <1>1 DEF Calls, RateAssumption
<1> PICK r : r = RateOf(c)
  OBVIOUS
<1>3. r \in Names /\ tat[r] \in Int /\ paid[r] \in Int /\ tat[r] >= paid[r] - Burst
  BY <1>1, NamedRate DEF RateOf, IInv, TypeOK, Behind
<1>4. UNCHANGED <<rateVars, mark>>
  BY DEF SwapRefund
<1>5. CASE tat[r] = call[c].prev
  <2> PICK back : back = clampSub(call[c].prev, call[c].cost)
    OBVIOUS
  <2>1. back \in Int
    BY <1>2, ClampIsInt
  <2> PICK next : next = Larger(back, call[c].seen - Burst)
    OBVIOUS
  <2>2. next \in Int /\ next >= back
    BY <1>2, <2>1 DEF Larger
  <2> PICK k : k = Returned(call[c])
    OBVIOUS
  <2>3. Good(k, mark[c], now)
    BY <1>1, ReturnedIsGood
  <2>4. call' = [call EXCEPT ![c] = k]
    BY <1>5 DEF SwapRefund
  <2>5. tat' = [tat EXCEPT ![r] = next] /\ paid' = [paid EXCEPT ![r] = paid[r] - (call[c].prev - back)]
    BY <1>5 DEF SwapRefund
  <2>6. tat' \in [Names -> Int] /\ paid' \in [Names -> Int]
    BY <1>2, <1>3, <2>1, <2>2, <2>5 DEF IInv, TypeOK
  <2>7. Behind'
    <3> SUFFICES ASSUME NEW q \in Names PROVE tat'[q] >= paid'[q] - Burst
      BY DEF Behind
    <3>1. CASE q = r
      <4>1. tat'[q] = next /\ paid'[q] = paid[r] - (call[c].prev - back)
        BY <1>3, <2>5, <3>1 DEF IInv, TypeOK
      <4> QED BY <1>2, <1>3, <1>5, <2>1, <2>2, <4>1
    <3>2. CASE q # r
      <4>1. tat'[q] = tat[q] /\ paid'[q] = paid[q]
        BY <2>5, <3>2 DEF IInv, TypeOK
      <4> QED BY <4>1 DEF IInv, Behind
    <3> QED BY <3>1, <3>2
  <2>8. mark' = [mark EXCEPT ![c] = mark[c]] /\ UNCHANGED <<now, limit, edit>>
    BY <1>4 DEF IInv, TypeOK, rateVars
  <2> QED
    BY <1>1, <2>3, <2>4, <2>6, <2>7, <2>8, CallerStep
<1>6. CASE tat[r] # call[c].prev
  <2>1. UNCHANGED <<tat, paid>>
    BY <1>6 DEF SwapRefund
  <2>2. CASE enabled[r]
    <3> PICK k : k = [call[c] EXCEPT !.pc = "load refund"]
      OBVIOUS
    <3>1. call' = [call EXCEPT ![c] = k]
      BY <1>6, <2>2 DEF SwapRefund, IInv, TypeOK
    <3>2. "load refund" \in CallStates
      BY DEF CallStates
    <3>3. k \in Calls /\ k.pc = "load refund" /\ k.seen = call[c].seen
      BY <1>1, <3>2 DEF Calls
    <3>4. Good(k, mark[c], now)
      BY <1>1, <3>3 DEF Good, Covered
    <3> QED BY <1>4, <2>1, <3>1, <3>4, FreeStep
  <2>3. CASE ~enabled[r]
    <3> PICK k : k = Returned(call[c])
      OBVIOUS
    <3>1. call' = [call EXCEPT ![c] = k]
      BY <1>6, <2>3 DEF SwapRefund, IInv, TypeOK
    <3>2. Good(k, mark[c], now)
      BY <1>1, ReturnedIsGood
    <3> QED BY <1>4, <2>1, <3>1, <3>2, FreeStep
  <2> QED BY <2>2, <2>3
<1> QED
  BY <1>5, <1>6

\* A change of the limit: it starts a rate with what it has charged as late
\* as its time allows.
LEMMA EditStep ==
  ASSUME RateAssumption, IInv, NEW e \in Editors,
         \/ \E r \in Names, l \in Limits : ResetLimit(e, r, l)
         \/ Stop(e) \/ SetLimit(e) \/ Start(e)
  PROVE IInv'
<1>1. /\ UNCHANGED <<now, call, mark>> /\ now <= now' /\ now \in Nat
      /\ now' \in Nat /\ call' \in [Callers -> Calls] /\ mark' \in [Callers -> Int]
  BY DEF ResetLimit, Stop, SetLimit, Start, callVars, IInv, TypeOK
<1>2. edit' \in [Editors -> Edits]
  <2>1. ASSUME NEW r \in Names, NEW l \in Limits, ResetLimit(e, r, l)
        PROVE edit' \in [Editors -> Edits]
    <3> PICK d : d = [pc |-> "stop", rate |-> r, limit |-> l]
      OBVIOUS
    <3>1. l \in Nat /\ "stop" \in EditStates
      BY DEF RateAssumption, EditStates
    <3>2. d \in Edits
      BY <3>1 DEF Edits
    <3>3. edit' = [edit EXCEPT ![e] = d]
      BY <2>1 DEF ResetLimit
    <3> QED BY <3>2, <3>3 DEF IInv, TypeOK
  <2>2. ASSUME NEW p \in EditStates, To(e, p)
        PROVE edit' \in [Editors -> Edits]
    <3> PICK d : d = [edit[e] EXCEPT !.pc = p]
      OBVIOUS
    <3>1. edit[e] \in Edits
      BY DEF IInv, TypeOK
    <3>2. d \in Edits
      BY <3>1 DEF Edits
    <3>3. edit' = [edit EXCEPT ![e] = d]
      BY <2>2 DEF To, IInv, TypeOK
    <3> QED BY <3>2, <3>3 DEF IInv, TypeOK
  <2>3. CASE Stop(e)
    <3>1. To(e, "close") \/ To(e, "set")
      BY <2>3 DEF Stop
    <3> QED BY <2>2, <3>1 DEF EditStates
  <2>4. CASE SetLimit(e)
    <3>1. To(e, "start")
      BY <2>4 DEF SetLimit
    <3> QED BY <2>2, <3>1 DEF EditStates
  <2>5. CASE Start(e)
    <3>1. To(e, "refill") \/ To(e, "enable") \/ To(e, "idle")
      BY <2>5 DEF Start
    <3> QED BY <2>2, <3>1 DEF EditStates
  <2> QED BY <2>1, <2>3, <2>4, <2>5
<1>3. limit' \in [Names -> Int]
  <2>1. CASE SetLimit(e)
    <3>1. edit[e].limit \in Int
      BY DEF IInv, TypeOK, Edits
    <3> QED BY <2>1, <3>1 DEF SetLimit, IInv, TypeOK
  <2>2. CASE ~SetLimit(e)
    BY <2>2 DEF ResetLimit, Stop, Start, IInv, TypeOK
  <2> QED BY <2>1, <2>2
<1>4. tat' \in [Names -> Int] /\ paid' \in [Names -> Int] /\ Behind'
  <2>1. CASE UNCHANGED <<tat, paid>>
    BY <2>1 DEF IInv, TypeOK, Behind
  <2>2. ASSUME NEW r, NEW t \in Int, NEW p \in Int, t >= p - Burst,
               tat' = [tat EXCEPT ![r] = t], paid' = [paid EXCEPT ![r] = p]
        PROVE tat' \in [Names -> Int] /\ paid' \in [Names -> Int] /\ Behind'
    BY <2>2 DEF IInv, TypeOK, Behind
  <2>3. CASE Start(e) /\ edit[e].pc = "refill"
    <3> PICK t : t = IF limit[edit[e].rate] > 0 THEN now - Burst ELSE 0
      OBVIOUS
    <3> PICK p : p = IF limit[edit[e].rate] > 0 THEN now ELSE 0
      OBVIOUS
    <3>1. t \in Int /\ p \in Int /\ t >= p - Burst
      BY <1>1 DEF RateAssumption
    <3>2. tat' = [tat EXCEPT ![edit[e].rate] = t] /\ paid' = [paid EXCEPT ![edit[e].rate] = p]
      BY <2>3 DEF Start
    <3> QED BY <2>2, <3>1, <3>2
  <2> QED
    BY <2>1, <2>3 DEF ResetLimit, Stop, SetLimit, Start
<1> QED
  BY <1>1, <1>2, <1>3, <1>4, RateStep DEF TypeOK

LEMMA TickStep ==
  ASSUME RateAssumption, IInv, Tick
  PROVE IInv'
<1>1. TypeOK' /\ now <= now' /\ UNCHANGED <<call, mark>>
  BY DEF IInv, TypeOK, Tick
<1>2. Behind'
  BY DEF IInv, Behind, Tick
<1> QED
  BY <1>1, <1>2, RateStep

LEMMA InitIsGood ==
  ASSUME RateAssumption, Init
  PROVE IInv
<1>1. 1 \in DOMAIN Rates /\ Burst \in Nat
  BY DEF RateAssumption
<1>2. NoCall \in Calls
  <2> PICK z \in Int, n \in Nat : z = 0 /\ n = 0
    OBVIOUS
  <2>1. NoCall = [pc |-> "new", op |-> "write", size |-> n, via |-> {}, at |-> 1, seen |-> n,
                  cost |-> z, prev |-> z, wait |-> n, until |-> z, woken |-> FALSE]
    BY DEF NoCall
  <2>2. "new" \in CallStates
    BY DEF CallStates
  <2> QED BY <1>1, <2>1, <2>2 DEF Calls
<1>3. TypeOK
  <2>1. limit \in [Names -> Int]
    <3>1. \A l \in Limits : l \in Int
      BY DEF RateAssumption
    <3>2. limit \in [Names -> Limits]
      BY DEF Init
    <3> QED BY <3>1, <3>2
  <2>2. edit \in [Editors -> Edits]
    <3>1. [pc |-> "idle", rate |-> Nobody, limit |-> 0] \in Edits
      BY DEF Edits, EditStates
    <3> QED BY <3>1 DEF Init
  <2> QED
    BY <1>1, <1>2, <2>1, <2>2 DEF Init, TypeOK
<1>4. Behind
  BY <1>1 DEF Init, Behind
<1>5. Waited
  <2>1. Covered(NoCall, 0, 0)
    BY DEF Covered, NoCall
  <2> QED BY <2>1 DEF Init, Waited
<1> QED
  BY <1>3, <1>4, <1>5 DEF IInv

LEMMA NextIsGood ==
  ASSUME RateAssumption, IInv, [Next]_vars
  PROVE IInv'
<1>1. CASE UNCHANGED vars
  BY <1>1 DEF vars, IInv, TypeOK, Behind, Waited
<1>2. ASSUME NEW c \in Callers, NEW n \in 0..call[c].size, Pass(c, n) PROVE IInv'
  BY <1>2, PassStep
<1> QED
  BY <1>1, <1>2, TickStep, BuildStep, BeginStep, ReserveStep, PriceStep, LoadStep, SwapStep, SleepStep, WakeStep,
     RefundStep, SwapRefundStep, EditStep DEF Next

\* PaceKept holds in every run, for any number of callers, rates, limits and
\* sizes: what reserve and ReturnBucket do to tat by compare-and-swap, and
\* Start by a plain store, never lets the bytes of a caller that waited its
\* time out be ahead of the clock by more than a burst and the shortest sleep.
THEOREM PaceKeptAlways == RateAssumption /\ Spec => []PaceKept
<1> SUFFICES ASSUME RateAssumption PROVE Spec => []PaceKept
  OBVIOUS
<1>1. Init => IInv
  BY InitIsGood
<1>2. IInv /\ [Next]_vars => IInv'
  BY NextIsGood
<1>3. IInv => PaceKept
  BY DEF IInv, Waited, Covered, PaceKept
<1> QED
  BY <1>1, <1>2, <1>3, PTL DEF Spec
=============================================================================
