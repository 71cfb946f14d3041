----------------------------- MODULE LoginPolicy -----------------------------
(***************************************************************************)
(* Session logins under the failure policy (web/api/auth.go CreateSession, *)
(* web/service/login_policy.go, Authenticate of web/service/auth.go):      *)
(* several handlers check the ban records of the caller's address and of   *)
(* the name, evaluate the credentials and record the outcome.  A check and *)
(* the record that follows it are separate steps, and so are the load of a *)
(* record and its increment, and a cleanup's look at a record and its      *)
(* removal.                                                                *)
(***************************************************************************)
EXTENDS Integers, FiniteSets

CONSTANTS
  Handlers,      \* requests served at a time
  Names,         \* names that logins use: the administrator's, users', keys
  MaxFailTimes,  \* failures after which a key is banned
  BanTime,       \* no attempt within this time of a failure
  TTL,           \* how long a ban lasts (IPBanTime and UserBanTime)
  Powers,        \* configurations: "off", "captcha", PoW "secure" or "force"
  MaxTime, Logins

IP == "ip"
Keys == Names \cup {IP}

VARIABLES
  power, now, begun,
  record,     \* the records by key; gen tells a record from its successor
  h,          \* the handlers
  unpaid      \* by key: wrong guesses in a row without proof of work, the time
              \* of the last, and failures that left the record meanwhile

vars == <<power, now, begun, record, h, unpaid>>

NoRecord(g) == [live |-> FALSE, gen |-> g, fails |-> 0, last |-> 0]
Idle == [pc |-> "idle", name |-> IP, work |-> FALSE, banned |-> FALSE, judged |-> FALSE,
         todo |-> {}, doomed |-> FALSE, key |-> IP, gen |-> 0, at |-> 0]

NoRow == [count |-> 0, at |-> 0, lost |-> 0]

Init ==
  /\ power \in Powers /\ now = 0 /\ begun = 0
  /\ record = [k \in Keys |-> NoRecord(0)]
  /\ h = [i \in Handlers |-> Idle]
  /\ unpaid = [k \in Keys |-> NoRow]

Go(i, pc) == h' = [h EXCEPT ![i].pc = pc]
Delete(k) == record' = [record EXCEPT ![k] = NoRecord(@.gen + 1)]

\* A login arrives; its cleanup is done one time in a hundred.
Begin(i) ==
  /\ h[i].pc = "idle" /\ begun < Logins
  /\ begun' = begun + 1
  /\ \E n \in Names :
       \/ h' = [h EXCEPT ![i] = [Idle EXCEPT !.pc = "clean", !.name = n, !.todo = Keys]]
       \/ h' = [h EXCEPT ![i] = [Idle EXCEPT !.pc = "ip", !.name = n]]
  /\ UNCHANGED <<power, now, record, unpaid>>

InRow(k) == unpaid[k].count > 0 /\ now - unpaid[k].at < TTL

\* Failures of the row that goes on leave the record.
Losing(k, n) == IF InRow(k) THEN [unpaid EXCEPT ![k].lost = @ + n] ELSE unpaid

\* Clean: the age of a record is read under its lock ...
CleanLook(i) ==
  /\ h[i].pc = "clean" /\ h[i].todo # {}
  /\ LET k == CHOOSE x \in h[i].todo : TRUE IN
     h' = [h EXCEPT ![i].pc = "drop", ![i].key = k, ![i].doomed = record[k].live /\ now - record[k].last >= TTL]
  /\ UNCHANGED <<power, now, begun, record, unpaid>>

\* ... and the key is removed after it, whatever the record says by then.
CleanDrop(i) ==
  /\ h[i].pc = "drop"
  /\ IF h[i].doomed /\ record[h[i].key].live
     THEN Delete(h[i].key) /\ unpaid' = Losing(h[i].key, record[h[i].key].fails)
     ELSE UNCHANGED <<record, unpaid>>
  /\ h' = [h EXCEPT ![i].todo = @ \ {h[i].key},
                    ![i].pc = IF h[i].todo = {h[i].key} THEN "ip" ELSE "clean"]
  /\ UNCHANGED <<power, now, begun>>

\* isBanned: too soon after the last failure, or too many of them; an old
\* record's count starts again.
BannedLate(k) ==   \* mutant: one failure more than the limit
  /\ record[k].live
  /\ \/ now - record[k].last < BanTime
     \/ now - record[k].last < TTL /\ record[k].fails > MaxFailTimes

Banned(k) ==
  /\ record[k].live
  /\ \/ now - record[k].last < BanTime
     \/ now - record[k].last < TTL /\ record[k].fails >= MaxFailTimes

Forget(k) ==
  IF record[k].live /\ now - record[k].last >= BanTime /\ now - record[k].last >= TTL
  THEN record' = [record EXCEPT ![k].fails = 0] /\ unpaid' = Losing(k, record[k].fails)
  ELSE UNCHANGED <<record, unpaid>>

CheckIP(i) ==
  /\ h[i].pc = "ip"
  /\ h' = [h EXCEPT ![i].pc = "name", ![i].banned = Banned(IP)]
  /\ Forget(IP)
  /\ UNCHANGED <<power, now, begun>>

CheckName(i) ==
  /\ h[i].pc = "name"
  /\ h' = [h EXCEPT ![i].pc = "gate", ![i].banned = @ \/ Banned(h[i].name)]
  /\ Forget(h[i].name)
  /\ UNCHANGED <<power, now, begun>>

\* sessionLoginPoWRequired
WorkRequired(i) == power = "force" \/ (power = "secure" /\ h[i].banned)

\* A wrong captcha or a missing proof is a failure of the address; a ban
\* without a proof ends the login.
Gate(i) ==
  /\ h[i].pc = "gate"
  /\ \/ /\ power = "captcha" \/ WorkRequired(i)
        /\ h' = [h EXCEPT ![i].pc = "load", ![i].key = IP, ![i].name = IP]
     \/ /\ WorkRequired(i) \/ ~h[i].banned
        /\ h' = [h EXCEPT ![i].pc = "auth", ![i].work = WorkRequired(i)]
     \/ /\ ~WorkRequired(i) /\ h[i].banned
        /\ h' = [h EXCEPT ![i] = Idle]
  /\ UNCHANGED <<power, now, begun, record, unpaid>>

\* The administrator's or a user's password and one-time code: the next step
\* when they match and when they do not.
Verdicts == {"clear", "load"}

\* Authenticate: the administrator, then a user by name, then a client by key;
\* a storage error ends the login without a record.
Authenticate(i) ==
  /\ h[i].pc = "auth"
  /\ \/ \E pc \in Verdicts : h' = [h EXCEPT ![i].pc = pc, ![i].key = IP, ![i].judged = TRUE]
     \/ h' = [h EXCEPT ![i] = Idle]
  /\ UNCHANGED <<power, now, begun, record, unpaid>>

\* Guesses in a row: a pause of TTL or a removal by success ends a row.
Counted(row, k, guess) ==
  [row EXCEPT ![k] =
     IF ~guess THEN @
     ELSE IF InRow(k) THEN [@ EXCEPT !.count = @ + 1, !.at = now]
     ELSE [NoRow EXCEPT !.count = 1, !.at = now]]

After(i) == IF h[i].key = IP /\ h[i].name # IP THEN [h[i] EXCEPT !.key = h[i].name, !.pc = "load"] ELSE Idle

Guessed(i) == h[i].judged /\ ~h[i].work

\* RecordFailure: the time is read; a new record has one failure, or the one
\* that is there ...
RecordLoad(i) ==
  LET k == h[i].key IN
  /\ h[i].pc = "load"
  /\ IF record[k].live
     THEN /\ h' = [h EXCEPT ![i].pc = "count", ![i].gen = record[k].gen, ![i].at = now]
          /\ UNCHANGED <<record, unpaid>>
     ELSE /\ record' = [record EXCEPT ![k] = [live |-> TRUE, gen |-> @.gen, fails |-> 1, last |-> now]]
          /\ unpaid' = Counted(unpaid, k, Guessed(i))
          /\ h' = [h EXCEPT ![i] = After(i)]
  /\ UNCHANGED <<power, now, begun>>

\* ... is incremented, though it may have been removed since.
RecordCount(i) ==
  LET k == h[i].key
      there == record[k].live /\ record[k].gen = h[i].gen IN
  /\ h[i].pc = "count"
  /\ record' = IF there THEN [record EXCEPT ![k].fails = @ + 1, ![k].last = h[i].at] ELSE record
  /\ LET row == Counted(unpaid, k, Guessed(i)) IN
     unpaid' = IF there THEN row ELSE [row EXCEPT ![k].lost = @ + 1]
  /\ h' = [h EXCEPT ![i] = After(i)]
  /\ UNCHANGED <<power, now, begun>>

\* RemoveBan of the address, then of the name.
Clear(i) ==
  LET k == h[i].key IN
  /\ h[i].pc = "clear"
  /\ IF record[k].live THEN Delete(k) ELSE UNCHANGED record
  /\ unpaid' = [unpaid EXCEPT ![k] = NoRow]
  /\ h' = [h EXCEPT ![i] = IF k = IP THEN [@ EXCEPT !.key = h[i].name] ELSE Idle]
  /\ UNCHANGED <<power, now, begun>>

Tick == now < MaxTime /\ now' = now + 1 /\ UNCHANGED <<power, begun, record, h, unpaid>>

Next ==
  \/ Tick
  \/ \E i \in Handlers :
       Begin(i) \/ CleanLook(i) \/ CleanDrop(i) \/ CheckIP(i) \/ CheckName(i) \/ Gate(i)
         \/ Authenticate(i) \/ RecordLoad(i) \/ RecordCount(i) \/ Clear(i)

Spec == Init /\ [][Next]_vars

-----------------------------------------------------------------------------
\* Guessing is bounded although checks, records and cleanups interleave: in a
\* row of wrong guesses at one key, without proof of work and without a pause
\* of TTL, there are at most MaxFailTimes, one for every other login that had
\* passed its check at the time, and the failures that left the record: those
\* a cleanup removed with a record renewed after its look, and those counted
\* on a removed record or with an older time (Clean, isBanned, RecordFailure).
GuessesBounded ==
  \A k \in Keys :
    unpaid[k].count <= MaxFailTimes + Cardinality(Handlers) - 1 + unpaid[k].lost

=============================================================================
