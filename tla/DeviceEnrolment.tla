--------------------------- MODULE DeviceEnrolment ---------------------------
(***************************************************************************)
(* Enrolment of a device: the device's identity on disk and its enrolment  *)
(* client (client/device_identity.go, device_secret_other.go,              *)
(* device_enrollment_client.go) against the server's two handlers and      *)
(* their service (web/api/device_enrollment.go,                            *)
(* web/service/device_enrollment.go).  The device may crash, or give up on *)
(* a request whose handler goes on; a handler holds the service's lock     *)
(* twice, when it takes the challenge and when it enters the device.       *)
(***************************************************************************)
EXTENDS Integers, Sequences, FiniteSets

CONSTANTS
  ChallengeTTL, RateWindow, RateLimit,
  MaxTime, MaxRequests, MaxCrashes     \* bounds

None == "none"

VARIABLES
  now, enabled, crashes,
  disk,        \* device.key and device.json
  device,      \* the running process: what it does and its identity
  keys,        \* number of key pairs generated so far
  requests,    \* every request made, as its handler sees it
  challenges, rate,
  clients      \* the stored clients, by public key

vars == <<now, enabled, crashes, disk, device, keys, requests, challenges, rate, clients>>

Off == [pc |-> "off", pub |-> 0, req |-> 0]
NoRate == [start |-> -RateWindow, count |-> 0]

Init ==
  /\ now = 0 /\ enabled = TRUE /\ crashes = 0 /\ keys = 0
  /\ disk = [key |-> FALSE, pub |-> 0, vkey |-> 0]
  /\ device = Off
  /\ requests = <<>> /\ challenges = {} /\ rate = NoRate /\ clients = <<>>

Server == <<requests, challenges, rate, clients>>

-----------------------------------------------------------------------------
\* The device.

\* writeDeviceIdentityFile: a temporary file is renamed into place.
Write(d) == disk' = d

\* loadOrCreateKey of the protector
SealingKey(d) == [d EXCEPT !.key = TRUE]

\* LoadOrCreate: a stored identity is opened; without one a key pair is made
\* and sealed, for which the file of the sealing key is written first ...
Load ==
  /\ device.pc = "off"
  /\ IF disk.pub # 0   \* sealed with the key of the file
     THEN device' = [device EXCEPT !.pc = "ready", !.pub = disk.pub] /\ UNCHANGED <<disk, keys>>
     ELSE /\ keys' = keys + 1
          /\ device' = [device EXCEPT !.pc = "save", !.pub = keys + 1]
          /\ Write(SealingKey(disk))
  /\ UNCHANGED <<now, enabled, crashes, Server>>

\* ... and the identity then.
Save ==
  /\ device.pc = "save"
  /\ device' = [device EXCEPT !.pc = "ready"]
  /\ Write([disk EXCEPT !.pub = device.pub])
  /\ UNCHANGED <<now, enabled, crashes, keys, Server>>

Request(kind, ch, sound) ==
  [kind |-> kind, ch |-> ch, pub |-> device.pub, sound |-> sound, at |-> now,
   phase |-> "sent", answer |-> 0]

Sends(r, pc) ==
  /\ Len(requests) < MaxRequests
  /\ requests' = Append(requests, r)
  /\ device' = [device EXCEPT !.pc = pc, !.req = Len(requests) + 1]
  /\ UNCHANGED <<now, enabled, crashes, disk, keys, challenges, rate, clients>>

\* createChallenge
AskChallenge == device.pc = "ready" /\ Sends(Request("challenge", 0, TRUE), "asked")

Answered(pc) == device.pc = pc /\ requests[device.req].phase = "done"
Answer == requests[device.req].answer

\* Enroll: the message is signed; what arrives may be damaged.
Sign ==
  /\ Answered("asked") /\ Answer # 0
  /\ \E sound \in BOOLEAN : Sends(Request("complete", Answer, sound), "enrolling")

\* StoreEnrollment of the credentials in the answer; the write may fail.
StoreEnrollment ==
  /\ Answered("enrolling") /\ Answer # 0
  /\ UNCHANGED disk \/ Write([disk EXCEPT !.vkey = Answer])
  /\ device' = [device EXCEPT !.pc = "ready"]
  /\ UNCHANGED <<now, enabled, crashes, keys, Server>>

\* An error, or no answer in time: the call returns and may be made again.
GiveUp ==
  /\ device.pc \in {"asked", "enrolling"}
  /\ requests[device.req].phase = "done" => Answer = 0
  /\ device' = [device EXCEPT !.pc = "ready"]
  /\ UNCHANGED <<now, enabled, crashes, disk, keys, Server>>

Crash ==
  /\ device.pc # "off" /\ crashes < MaxCrashes
  /\ crashes' = crashes + 1 /\ device' = Off
  /\ UNCHANGED <<now, enabled, disk, keys, Server>>

\* A request reaches the server twice.
Duplicate(i) ==
  /\ Len(requests) < MaxRequests
  /\ requests' = Append(requests, [requests[i] EXCEPT !.phase = "sent", !.answer = 0])
  /\ UNCHANGED <<now, enabled, crashes, disk, device, keys, challenges, rate, clients>>

-----------------------------------------------------------------------------
\* The server.  The time of a request is read before the lock is taken.

Finish(i, answer) == requests' = [requests EXCEPT ![i].phase = "done", ![i].answer = answer]
Handling(i, kind, phase) == requests[i].kind = kind /\ requests[i].phase = phase
Device == <<now, enabled, crashes, disk, device, keys>>

\* The feature is looked up when the handler begins, with the time.
BeginRequest(i) ==
  /\ requests[i].phase = "sent"
  /\ requests' = [requests EXCEPT ![i].phase = IF enabled THEN "begun" ELSE "done", ![i].at = now]
  /\ UNCHANGED <<Device, challenges, rate, clients>>

\* allowRequestLocked with cleanupRateLocked
Window(t) == IF t - rate.start >= RateWindow THEN [start |-> t, count |-> 0] ELSE rate
Allowed(t) == Window(t).count < RateLimit
Spent(t) == rate' = [Window(t) EXCEPT !.count = @ + 1]

\* cleanupChallengesLocked
Fresh(t) == {c \in challenges : ~c.used /\ c.expires > t}

CreateChallenge(i) ==
  LET t == requests[i].at IN
  /\ Handling(i, "challenge", "begun")
  /\ IF Allowed(t)
     THEN /\ Spent(t) /\ Finish(i, i)
          /\ challenges' = Fresh(t) \cup {[id |-> i, expires |-> t + ChallengeTTL, used |-> FALSE]}
     ELSE /\ Finish(i, 0) /\ UNCHANGED <<challenges, rate>>
  /\ UNCHANGED <<Device, clients>>

\* consumeChallenge, then the signature: a challenge serves one attempt.
Consume(i) ==
  LET r == requests[i]
      known == {c \in challenges : c.id = r.ch} IN
  /\ Handling(i, "complete", "begun")
  /\ IF ~Allowed(r.at) THEN UNCHANGED <<rate, challenges>> /\ Finish(i, 0)
     ELSE /\ Spent(r.at)
          /\ IF \E c \in known : ~c.used /\ c.expires > r.at
             THEN /\ challenges' = (challenges \ known) \cup {[c EXCEPT !.used = TRUE] : c \in known}
                  /\ IF r.sound THEN requests' = [requests EXCEPT ![i].phase = "verified"] ELSE Finish(i, 0)
             ELSE /\ challenges' = challenges \ {c \in known : ~c.used}
                  /\ Finish(i, 0)
  /\ UNCHANGED <<Device, clients>>

\* enrollVerifiedDevice: the client with this public key, or a new one, which
\* the store may refuse.
Enter(i) ==
  LET same == {c \in DOMAIN clients : clients[c] = requests[i].pub} IN
  /\ Handling(i, "complete", "verified")
  /\ IF same # {}
     THEN \E c \in same : Finish(i, c) /\ UNCHANGED clients
     ELSE \/ clients' = Append(clients, requests[i].pub) /\ Finish(i, Len(clients) + 1)
          \/ UNCHANGED clients /\ Finish(i, 0)
  /\ UNCHANGED <<Device, challenges, rate>>

\* The configuration is reloaded.
Switch == enabled' = ~enabled /\ UNCHANGED <<now, crashes, disk, device, keys, Server>>
Tick == now < MaxTime /\ now' = now + 1 /\ UNCHANGED <<enabled, crashes, disk, device, keys, Server>>

Next ==
  \/ Load \/ Save \/ AskChallenge \/ Sign \/ StoreEnrollment \/ GiveUp \/ Crash
  \/ Switch \/ Tick
  \/ \E i \in DOMAIN requests : BeginRequest(i) \/ CreateChallenge(i) \/ Consume(i) \/ Enter(i) \/ Duplicate(i)

Spec == Init /\ [][Next]_vars

-----------------------------------------------------------------------------
LetThrough(r) == r.kind = "complete" /\ (r.phase = "verified" \/ r.answer # 0)

\* A device is entered once: however often it crashes, gives up and asks
\* again while earlier requests are still handled, the server stores one
\* client for it, no challenge lets two requests through, and the credentials
\* on the device's disk are those of that client (enrollVerifiedDevice,
\* consumeChallenge, LoadOrCreate, StoreEnrollment).
EnrolledOnce ==
  /\ Len(clients) <= 1
  /\ \A i, j \in DOMAIN requests :
       i # j /\ LetThrough(requests[i]) /\ LetThrough(requests[j]) => requests[i].ch # requests[j].ch
  /\ disk.vkey # 0 => disk.vkey \in DOMAIN clients /\ clients[disk.vkey] = disk.pub

=============================================================================
