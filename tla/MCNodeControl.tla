--------------------------- MODULE MCNodeControl ----------------------------
EXTENDS NodeAccess, TLC

(***************************************************************************)
(* Who may do what on a node, and what is done to accounts.  A behaviour is *)
(* one of a single module, which part names: NodeAccess has its own         *)
(* variables, the others share the slots.                                   *)
(***************************************************************************)
VARIABLES part, mode, s1, s2, s3, s4, s5, s6, s7, s8, s9, s10, s11, s12
slots == <<s1, s2, s3, s4, s5, s6, s7, s8, s9, s10, s11, s12>>
Off == "off"
(* The slots a part does not use. *)
OffFrom(n) ==
  /\ n <= 1 => s1 = Off /\ s2 = Off /\ s3 = Off /\ s4 = Off /\ s5 = Off /\ s6 = Off
  /\ n <= 7 => s7 = Off
  /\ n <= 8 => s8 = Off /\ s9 = Off /\ s10 = Off
  /\ n <= 11 => s11 = Off
  /\ n <= 12 => s12 = Off

-----------------------------------------------------------------------------
(* Access, logins, the enrolment of a device, accounts. *)
MCGrants ==
  { [kind |-> "admin", mode |-> "session"] } \cup
  { [kind |-> "user", mode |-> "token", uid |-> 1], [kind |-> "client", mode |-> "session", uid |-> 1] } \cup
  { [kind |-> "platform", mode |-> "platform", role |-> r, full |-> FALSE, wanted |-> {1}] : r \in {"admin", "user"} } \cup
  { [kind |-> "platform", mode |-> "platform", role |-> "admin", full |-> TRUE, wanted |-> {}] }
UE(on, m, l, r) == [on |-> on, max |-> m, limit |-> l, reset |-> r]
CE(o, ms, l, r) == [owner |-> o, managers |-> ms, limit |-> l, reset |-> r]
AllOps == {"add", "edit", "status", "kick", "clear", "delete", "user", "drop", "traffic", "sync"}
Login == INSTANCE LoginPolicy WITH power <- s1, now <- s2, begun <- s3, record <- s4, h <- s5, unpaid <- s6,
  Handlers <- {1, 2}, Names <- {"ann"}, MaxFailTimes <- 1, BanTime <- 1, TTL <- 2,
  Powers <- {"off", "captcha", "secure", "force"}, MaxTime <- 2, Logins <- 3
Device == INSTANCE DeviceEnrolment WITH now <- s1, enabled <- s2, crashes <- s3, disk <- s4,
  device <- s5, keys <- s6, requests <- s7, challenges <- s8, rate <- s9, clients <- s10,
  ChallengeTTL <- 1, RateWindow <- 1, RateLimit <- 3, MaxTime <- 1, MaxRequests <- 4, MaxCrashes <- 1
Accounts == INSTANCE NodeAccounts WITH users <- s1, clients <- s2, issued <- s3, services <- s4,
  online <- s5, running <- s6, req <- s7, behind <- s8, torn <- s9, due <- s10, requests <- s11, faults <- s12,
  Users <- {1}, Clients <- {1, 2}, Workers <- {"v", "w"},
  UserEdits <- {UE(TRUE, 1, 2, FALSE), UE(TRUE, 0, 1, TRUE)},
  ClientEdits <- {CE(-1, {1}, 3, TRUE), CE(1, {1}, 0, FALSE), CE(0, {}, 2, FALSE)},
  Reports <- {<<1>>, <<1, 2, 1>>}, Ops <- AllOps, MaxRequests <- 3, MaxFaults <- 1

-----------------------------------------------------------------------------
Quiet == Init /\ store = InitStore /\ cred.who.kind = "admin"

(* Accounts either serve reports of traffic, or requests that change       *)
(* owners; mode says which.                                                *)
Served == IF mode = "traffic" THEN {"traffic", "clear", "user", "edit", "drop"} ELSE AllOps \ {"traffic", "clear"}
AccountsInit ==
  /\ part = "accounts" /\ Quiet /\ Accounts!Init /\ mode \in {"traffic", "owners"}
  /\ s2[1] # Accounts!None
  /\ IF mode = "traffic" \/ s1[1] # Accounts!None
     THEN s1[1] # Accounts!None /\ \A c \in Accounts!Live(s2) : s2[c].owner = 1
     ELSE \A c \in Accounts!Live(s2) : s2[c].owner = 0
AccountsNext ==
  /\ part = "accounts" /\ Accounts!Next /\ UNCHANGED <<part, vars, mode>>
  /\ \A w \in {"v", "w"} : s7'[w] # Accounts!Idle => s7'[w].op \in Served
  /\ mode = "owners" => s11' <= 2
  /\ mode = "traffic" => s5' \subseteq s5 /\ DOMAIN s4' \subseteq DOMAIN s4
AccountsSpec == AccountsInit /\ [][AccountsNext]_<<part, mode, vars, slots>>

MCInit ==
  \/ AccountsInit
  \/ /\ mode = Off
     /\ \/ part = "access" /\ Init /\ OffFrom(1)
        \/ part = "login" /\ Quiet /\ Login!Init /\ OffFrom(7)
        \/ part = "device" /\ Quiet /\ Device!Init /\ OffFrom(11)
MCNext ==
  \/ AccountsNext
  \/ part = "access" /\ Next /\ UNCHANGED <<part, mode, slots>>
  \/ /\ UNCHANGED <<part, mode, vars>>
     /\ \/ part = "login" /\ Login!Next /\ UNCHANGED <<s7, s8, s9, s10, s11, s12>>
        \/ part = "device" /\ Device!Next /\ UNCHANGED <<s11, s12>>
MCSpec == MCInit /\ [][MCNext]_<<part, mode, vars, slots>>

-----------------------------------------------------------------------------
(* Logins: the guesses without proof of work are bounded (LoginPolicy), and *)
(* a device's public key is enrolled once, from its own challenge           *)
(* (DeviceEnrolment).                                                       *)
LoginsSound ==
  /\ part = "login" => Login!GuessesBounded
  /\ part = "device" => Device!EnrolledOnce
(* Accounts: traffic is counted once for client and owner, a deleted record *)
(* leaves nothing and a scope is what its actor may see (NodeAccounts).     *)
AccountsExact ==
  part = "accounts" => Accounts!TrafficAccounted /\ Accounts!DeletedLeavesNothing /\ Accounts!ScopeExact
(* Accounts: an account does not get more clients than its limit            *)
(* (ensureUserCanAttachClient).                                             *)
QuotaKept == [][part = "accounts" => Accounts!QuotaStep]_<<part, slots>>
(* Accounts: an account keeps its credentials until it is edited or         *)
(* deleted.                                                                 *)
SecretKept == part = "accounts" => Accounts!SecretKept
=============================================================================
