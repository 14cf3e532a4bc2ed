--------------------------- MODULE RealtimeGateway ---------------------------
(***************************************************************************)
(* The WebSocket gateway (telemetry.gateway.ts): connections, the rooms of *)
(* the devices, the first reading a subscriber is sent and the broadcast   *)
(* that ends the handling of a message.                                    *)
(*                                                                         *)
(* Each action is one awaited call or one event of a socket.  Readings are *)
(* cached, broadcast, lost, expired and persisted the way ReadingFlow says *)
(* (TelemetryPipeline implements it): any reading cached and not yet       *)
(* broadcast may be the next one sent.  The owner of a device and its      *)
(* points change in any way DeviceOwnership could.                         *)
(***************************************************************************)
EXTENDS Integers

CONSTANTS
  Null,
  Users,
  Devices,
  Sockets,       \* WebSocket clients
  UserOf,        \* the user of the token each one presents
  MaxReadings,   \* bound on the readings cached
  MaxFaults      \* bound on the failed calls and restarts

ASSUME GatewayAssumption ==
  /\ UserOf \in [Sockets -> Users]
  /\ Null \notin Users \union Devices
  /\ MaxReadings \in Nat /\ MaxFaults \in Nat

\* A reading, numbered in the order they are cached.
Reading == [n : 1..MaxReadings, dev : Devices]

VARIABLES
  owner,       \* user_id of each device
  last,        \* n of iot:<id>:last, 0 when absent
  influx,      \* points of InfluxDB
  conn,        \* connection of each socket; "open" once client.data.user is set
  room,        \* the sockets in device:<id>
  sub,         \* the subscription a socket has in progress for a device
  cached,      \* history: the readings that have been cached
  sending,     \* those of them whose broadcast is still to come
  received,    \* readings cached so far
  newest,      \* history: the highest reading of each device broadcast
  shown,       \* history: the highest reading of a device sent to a socket since
               \* it left last
  old,         \* history: newest, when its lookup found no reading cached
  asked,       \* history: devices each socket has asked for and not left since,
               \* or left while its owner was being looked up
  held,        \* history: users that have owned each device
  faults
sockets == <<conn, room, sub>>
stores  == <<owner, last, influx>>
history == <<cached, newest, shown, old, asked, held>>
vars    == <<stores, sockets, sending, received, history, faults>>
\* What the flow of readings has no part in.
here    == <<owner, sockets, shown, old, asked, held>>

Flow == INSTANCE ReadingFlow

Pairs == Sockets \X Devices
Pcs   == {"idle", "find", "last", "latest"}

Init ==
  /\ owner \in [Devices -> Users \union {Null}]
  /\ held = [d \in Devices |-> {owner[d]}]
  /\ last = [d \in Devices |-> 0] /\ influx = {}
  /\ conn = [s \in Sockets |-> "offline"]
  /\ room = [d \in Devices |-> {}]
  /\ sub = [p \in Pairs |-> "idle"]
  /\ cached = {} /\ sending = {} /\ received = 0
  /\ newest = [d \in Devices |-> 0]
  /\ shown = [p \in Pairs |-> 0] /\ old = [p \in Pairs |-> 0]
  /\ asked = [s \in Sockets |-> {}]
  /\ faults = 0

Goto(s, d, pc) == sub' = [sub EXCEPT ![<<s, d>>] = pc]
Higher(m, n)   == Flow!Higher(m, n)
Of(s)          == {s} \X Devices
Reset(f, S, v) == [p \in Pairs |-> IF p \in S THEN v ELSE f[p]]
Forget(S)      == shown' = Reset(shown, S, 0) /\ old' = Reset(old, S, 0)
-----------------------------------------------------------------------------
(* handleConnection *)

Connect(s) ==
  /\ conn[s] = "offline"
  /\ conn' = [conn EXCEPT ![s] = "verifying"]
  /\ UNCHANGED <<stores, room, sub, sending, received, history, faults>>

\* Variant: a socket without a valid token is only marked as refused.
Verify_Refused(s) ==
  /\ conn[s] = "verifying"
  /\ \E outcome \in {"open", "refused"} : conn' = [conn EXCEPT ![s] = outcome]
  /\ UNCHANGED <<stores, room, sub, sending, received, history, faults>>

\* verifyAccessToken, then isTokenBlacklisted: the socket gets its user, or is
\* disconnected.
Verify(s) ==
  /\ conn[s] = "verifying"
  /\ \E outcome \in {"open", "offline"} : conn' = [conn EXCEPT ![s] = outcome]
  /\ UNCHANGED <<stores, room, sub, sending, received, history, faults>>

\* The client, or the network, closes: socket.io takes it out of its rooms, and
\* what a subscription in progress would still send goes nowhere.
Disconnect(s) ==
  /\ conn[s] # "offline"
  /\ conn' = [conn EXCEPT ![s] = "offline"]
  /\ room' = [d \in Devices |-> room[d] \ {s}]
  /\ sub' = Reset(sub, Of(s), "idle") /\ Forget(Of(s))
  /\ asked' = [asked EXCEPT ![s] = {}]
  /\ UNCHANGED <<stores, cached, sending, received, newest, held, faults>>
-----------------------------------------------------------------------------
(* subscribeLogic *)

\* A socket whose token is still being verified has no user: an exception, and
\* no subscription.
Subscribe(s, d) ==
  /\ conn[s] = "open" /\ sub[<<s, d>>] = "idle"
  /\ Goto(s, d, "find")
  /\ asked' = [asked EXCEPT ![s] = @ \union {d}]
  /\ UNCHANGED <<stores, conn, room, cached, sending, received, newest, shown, old, held, faults>>

\* Variant: any owner will do.
CheckOwner_Any(s, d) ==
  /\ sub[<<s, d>>] = "find"
  /\ IF owner[d] # Null
       THEN room' = [room EXCEPT ![d] = @ \union {s}] /\ Goto(s, d, "last")
       ELSE UNCHANGED room /\ Goto(s, d, "idle")
  /\ UNCHANGED <<stores, conn, sending, received, history, faults>>

\* findUnique({user_id}): the owner joins before anything is read for it.
CheckOwner(s, d) ==
  /\ sub[<<s, d>>] = "find"
  /\ IF owner[d] = UserOf[s]
       THEN room' = [room EXCEPT ![d] = @ \union {s}] /\ Goto(s, d, "last")
       ELSE UNCHANGED room /\ Goto(s, d, "idle")
  /\ UNCHANGED <<stores, conn, sending, received, history, faults>>

Show(s, d, n) == shown' = [shown EXCEPT ![<<s, d>>] = Higher(@, n)]

\* getTelemetryLast, and the reading sent if one is cached.
SendLast(s, d) ==
  /\ sub[<<s, d>>] = "last"
  /\ IF last[d] # 0
       THEN Show(s, d, last[d]) /\ Goto(s, d, "idle") /\ UNCHANGED old
       ELSE /\ old' = [old EXCEPT ![<<s, d>>] = newest[d]]
            /\ Goto(s, d, "latest") /\ UNCHANGED shown
  /\ UNCHANGED <<stores, conn, room, cached, sending, received, newest, asked, held, faults>>

\* queryLatestTelemetry: 0 for nothing, also when the query fails; otherwise the
\* last point of one of the series of the device (its tags change with its
\* readings).
Latest(d) == {0} \union {p.n : p \in {q \in influx : q.dev = d}}

SendLatest(s, d) ==
  /\ sub[<<s, d>>] = "latest"
  /\ \E n \in Latest(d) : Show(s, d, n)
  /\ Goto(s, d, "idle")
  /\ UNCHANGED <<stores, conn, room, cached, sending, received, newest, old, asked, held, faults>>

Leaves(s, d) ==
  /\ asked' = [asked EXCEPT ![s] = IF sub[<<s, d>>] = "find" THEN @ ELSE @ \ {d}]
  /\ Forget({<<s, d>>})
  /\ UNCHANGED <<stores, conn, sub, cached, sending, received, newest, held, faults>>

\* Variant: a client with a subscription in progress is not taken out.
Unsubscribe_IfIdle(s, d) ==
  /\ conn[s] # "offline"
  /\ room' = IF sub[<<s, d>>] = "idle" THEN [room EXCEPT ![d] = @ \ {s}] ELSE room
  /\ Leaves(s, d)

\* handleUnsubscribeFromDevice, synchronous: it leaves, and a subscription whose
\* lookup is not answered yet joins later all the same.
Unsubscribe(s, d) ==
  /\ conn[s] # "offline"
  /\ room' = [room EXCEPT ![d] = @ \ {s}]
  /\ Leaves(s, d)
-----------------------------------------------------------------------------
(* Messages, persistence and owners *)

\* Variant: a reading that is already cached is not overwritten.
ReceiveReading_IfAbsent(d) ==
  LET m == [n |-> received + 1, dev |-> d]
  IN /\ received < MaxReadings
     /\ received' = m.n
     /\ last' = [last EXCEPT ![d] = IF @ = 0 THEN m.n ELSE @]
     /\ cached' = cached \union {m} /\ sending' = sending \union {m}
     /\ UNCHANGED <<influx, newest, faults, here>>

\* handleTelemetry as far as setTelemetryLast; the broadcast comes later.
ReceiveReading(d) ==
  /\ received < MaxReadings
  /\ Flow!Cache(d)
  /\ UNCHANGED here

\* broadcastTelemetry, synchronous, to whoever is in the room.
Broadcast(m) ==
  /\ Flow!Send(m)
  /\ shown' = [p \in Pairs |-> IF p[2] = m.dev /\ p[1] \in room[m.dev]
                               THEN Higher(shown[p], m.n) ELSE shown[p]]
  /\ UNCHANGED <<owner, sockets, old, asked, held>>

\* The TTL of a cached reading; a run that writes the one it had read.
ExpireOrWrite ==
  /\ (\E d \in Devices : Flow!Expire(d)) \/ (\E m \in cached : Flow!Write(m))
  /\ UNCHANGED here

\* Requests that delete the points of a device or change its owner.
ChangeDevice(d) ==
  /\ \/ /\ influx' = {p \in influx : p.dev # d}
        /\ UNCHANGED <<owner, held>>
     \/ \E u \in Users \union {Null} :
          /\ owner' = [owner EXCEPT ![d] = u]
          /\ held' = [held EXCEPT ![d] = @ \union {u}]
          /\ UNCHANGED influx
  /\ UNCHANGED <<last, sockets, cached, sending, received, newest, shown, old, asked, faults>>

\* A lookup of the subscription is rejected: an exception is sent, and a socket
\* that has joined stays in the room with nothing shown.
FailSub(s, d) ==
  /\ sub[<<s, d>>] \in {"find", "last"} /\ faults < MaxFaults
  /\ faults' = faults + 1
  /\ old' = [old EXCEPT ![<<s, d>>] = IF sub[<<s, d>>] = "last" THEN newest[d] ELSE @]
  /\ Goto(s, d, "idle")
  /\ UNCHANGED <<stores, conn, room, cached, sending, received, newest, shown, asked, held>>

\* A call between the cache and the broadcast fails: nothing is sent.
FailMessage(m) ==
  /\ faults < MaxFaults
  /\ Flow!Lose({m})
  /\ UNCHANGED here

\* The backend stops: connections, rooms and messages in progress are gone.
Restart ==
  /\ faults < MaxFaults
  /\ Flow!Lose(sending)
  /\ conn' = [s \in Sockets |-> "offline"]
  /\ room' = [d \in Devices |-> {}]
  /\ sub' = [p \in Pairs |-> "idle"]
  /\ shown' = [p \in Pairs |-> 0] /\ old' = [p \in Pairs |-> 0]
  /\ asked' = [s \in Sockets |-> {}]
  /\ UNCHANGED <<owner, held>>

SocketStep(s) == Connect(s) \/ Verify(s) \/ Disconnect(s)

SubscriptionStep(s, d) ==
  \/ Subscribe(s, d)
  \/ CheckOwner(s, d)
  \/ SendLast(s, d)
  \/ SendLatest(s, d)
  \/ Unsubscribe(s, d)
  \/ FailSub(s, d)

Next ==
  \/ \E s \in Sockets : SocketStep(s)
  \/ \E s \in Sockets, d \in Devices : SubscriptionStep(s, d)
  \/ \E d \in Devices : ReceiveReading(d)
  \/ \E m \in sending : Broadcast(m) \/ FailMessage(m)
  \/ ExpireOrWrite
  \/ \E d \in Devices : ChangeDevice(d)
  \/ Restart

Spec == Init /\ [][Next]_vars
-----------------------------------------------------------------------------
(* Properties *)

TypeOK ==
  /\ owner \in [Devices -> Users \union {Null}]
  /\ last \in [Devices -> 0..MaxReadings]
  /\ cached \subseteq Reading /\ influx \subseteq cached /\ sending \subseteq cached
  /\ conn \in [Sockets -> {"offline", "verifying", "open"}]
  /\ room \in [Devices -> SUBSET Sockets]
  /\ sub \in [Pairs -> Pcs]
  /\ received \in 0..MaxReadings
  /\ newest \in [Devices -> 0..MaxReadings]
  /\ shown \in [Pairs -> 0..MaxReadings] /\ old \in [Pairs -> 0..MaxReadings]
  /\ asked \in [Sockets -> SUBSET Devices]
  /\ held \in [Devices -> SUBSET (Users \union {Null})]
  /\ faults \in 0..MaxFaults

NothingMissed ==
  \A d \in Devices : \A s \in room[d] :
    sub[<<s, d>>] \in {"idle", "latest"}
      => shown[<<s, d>>] >= newest[d] \/ newest[d] =< old[<<s, d>>]

CachedIsNotOlder ==
  \A p \in Pairs : sub[p] = "last" /\ last[p[2]] # 0 => last[p[2]] >= shown[p]

\* A subscriber sees the newest reading: once its subscription is answered it has
\* been sent the newest one broadcast, unless that one was broadcast before its
\* lookup found nothing cached; and the cached reading it is first sent is not
\* older than one it has had.  Whatever is broadcast between the check of the
\* owner, the lookup and the answer.  (telemetry.gateway.ts:163-221)
SubscribersUpToDate == NothingMissed /\ CachedIsNotOlder

\* Whoever is in a room is connected with a verified token, has asked for it and
\* not left it since (or left while the owner was being looked up), and is a user
\* that has owned the device: nothing takes out a user whose device is linked to
\* another.  (telemetry.gateway.ts:70-100, 151-164, 230-243)
RoomsAsAsked ==
  \A d \in Devices : \A s \in room[d] :
    conn[s] = "open" /\ d \in asked[s] /\ UserOf[s] \in held[d]
=============================================================================
