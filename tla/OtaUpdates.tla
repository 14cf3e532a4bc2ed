----------------------------- MODULE OtaUpdates -----------------------------
(***************************************************************************)
(* Firmware updates: the request that creates a job per device and         *)
(* publishes its command (ota.service.ts, createOtaUpdate), the handler of *)
(* the status messages (mqtt.service.ts, handleOtaStatus), and around them *)
(* what they rely on and the repository does not contain: the MQTT client, *)
(* the broker with one retained message per command topic, the devices.    *)
(*                                                                         *)
(* The backend subscribes with QoS 0 and a clean session                   *)
(* (mqtt.service.ts:52, 99): a status published while it is away is lost.  *)
(* It publishes with QoS 1: what the broker has not acknowledged waits in  *)
(* the memory of the client and is sent again after a reconnection.        *)
(***************************************************************************)
EXTENDS Integers, Sequences, FiniteSets

CONSTANTS
  Null,          \* no row, no retained message, the empty payload
  Devices,
  Active,        \* devices whose row has status 1
  Requests,      \* administration requests that may be in progress together
  Handlers,      \* status handlers that may be in progress together
  MaxRequests,   \* bound on the requests received
  MaxFaults,     \* bound on crashes, failed calls and disconnections of the backend
  MaxDrops,      \* bound on the times a device goes down
  MaxUp          \* bound on the status messages in flight of one device

ASSUME OtaAssumption ==
  /\ Active \subseteq Devices /\ IsFiniteSet(Devices)
  /\ Requests \intersect Handlers = {}
  /\ MaxRequests \in Nat /\ MaxFaults \in Nat /\ MaxDrops \in Nat /\ MaxUp \in Nat
  /\ Null \notin Devices /\ Null \notin Nat

Jobs  == 1..(MaxRequests * Cardinality(Devices))
Final == {"COMPLETED", "FAILED"}
Reports == {"IN_PROGRESS"} \union Final
Statuses == {"PENDING"} \union Reports

ASSUME NullIsNoRow == Null \notin [dev : Devices, status : Statuses]

VARIABLES
  rows,        \* ota_updates, by job: Null or [dev, status]
  req,         \* requests: pc, devices still to visit, the job being created
  asked,       \* requests received
  outbox,      \* publications the broker has not acknowledged, oldest first
  connected,   \* whether the client is connected to the broker
  retained,    \* retained payload of the command topic of a device
  up,          \* status messages on their way to the backend, by device
  hs,          \* status handlers
  device,      \* online, commands received, job being executed
  reported,    \* history: the statuses each device has published
  faults,
  drops

backend == <<rows, req, asked, hs>>
client  == <<outbox, connected>>
field   == <<up, device, reported, drops>>
vars == <<rows, req, asked, outbox, connected, retained, up, hs, device, reported,
          faults, drops>>

IdleRequest == [pc |-> "idle", todo |-> {}, job |-> Null]
IdleHandler == [pc |-> "idle", dev |-> Null, job |-> Null, status |-> Null]
Offline     == [online |-> FALSE, inbox |-> <<>>, job |-> Null]

Init ==
  /\ rows = [j \in Jobs |-> Null]
  /\ req = [q \in Requests |-> IdleRequest]
  /\ asked = 0
  /\ outbox = <<>>
  /\ connected = TRUE
  /\ retained = [d \in Devices |-> Null]
  /\ up = [d \in Devices |-> <<>>]
  /\ hs = [i \in Handlers |-> IdleHandler]
  /\ device = [d \in Devices |-> Offline]
  /\ reported = {}
  /\ faults = 0
  /\ drops = 0

Publish(d, payload) == outbox' = Append(outbox, [dev |-> d, job |-> payload])
-----------------------------------------------------------------------------
(* createOtaUpdate *)

NextTarget(todo) ==
  IF todo = {} THEN IdleRequest ELSE [IdleRequest EXCEPT !.pc = "create", !.todo = todo]

\* The firmware file was validated; findMany keeps the active targets, and a
\* request without any answers at once.
StartRequest(q, targets) ==
  /\ req[q].pc = "idle" /\ asked < MaxRequests
  /\ asked' = asked + 1
  /\ req' = [req EXCEPT ![q] = NextTarget(targets \intersect Active)]
  /\ UNCHANGED <<rows, hs, client, retained, field, faults>>

\* Variant: the row created as already dispatched.
CreateJob_InProgress(q, d, j) ==
  /\ req[q].pc = "create" /\ d \in req[q].todo
  /\ rows[j] = Null /\ \A k \in 1..(j - 1) : rows[k] # Null
  /\ rows' = [rows EXCEPT ![j] = [dev |-> d, status |-> "IN_PROGRESS"]]
  /\ req' = [req EXCEPT ![q] = [pc |-> "publish", todo |-> @.todo \ {d}, job |-> j]]
  /\ UNCHANGED <<asked, hs, client, retained, field, faults>>

\* ota_updates.create with a fresh job id and status PENDING.
CreateJob(q, d, j) ==
  /\ req[q].pc = "create" /\ d \in req[q].todo
  /\ rows[j] = Null /\ \A k \in 1..(j - 1) : rows[k] # Null
  /\ rows' = [rows EXCEPT ![j] = [dev |-> d, status |-> "PENDING"]]
  /\ req' = [req EXCEPT ![q] = [pc |-> "publish", todo |-> @.todo \ {d}, job |-> j]]
  /\ UNCHANGED <<asked, hs, client, retained, field, faults>>

\* Variant: the command published on the topic of any of the devices.
PublishCommand_AnyTopic(q) ==
  /\ req[q].pc = "publish"
  /\ \E d \in Devices : Publish(d, req[q].job)
  /\ req' = [req EXCEPT ![q] = NextTarget(@.todo)]
  /\ UNCHANGED <<rows, asked, hs, connected, retained, field, faults>>

\* publishOtaCommand, after the row was created.
PublishCommand(q) ==
  /\ req[q].pc = "publish"
  /\ Publish(rows[req[q].job].dev, req[q].job)
  /\ req' = [req EXCEPT ![q] = NextTarget(@.todo)]
  /\ UNCHANGED <<rows, asked, hs, connected, retained, field, faults>>
-----------------------------------------------------------------------------
(* handleOtaStatus *)

\* The 'message' event of a complete status message, up to findUnique.
ReceiveStatus(i, d) ==
  /\ connected /\ hs[i].pc = "idle" /\ up[d] # <<>>
  /\ hs' = [hs EXCEPT ![i] = [pc |-> "find", dev |-> d, job |-> Head(up[d]).job,
                              status |-> Head(up[d]).status]]
  /\ up' = [up EXCEPT ![d] = Tail(@)]
  /\ UNCHANGED <<rows, req, asked, client, retained, device, reported, faults, drops>>

FindJob(i) ==
  /\ hs[i].pc = "find"
  /\ hs' = [hs EXCEPT ![i] = IF rows[@.job] = Null THEN IdleHandler
                             ELSE [@ EXCEPT !.pc = "update"]]
  /\ UNCHANGED <<rows, req, asked, client, retained, field, faults>>

\* Variants: the step of the message (DONE in mqtt.service.spec.ts:263), any string,
\* stored as the status; the update selects the rows by device; every status clears
\* the retained command.
UpdateJob_StepAsStatus(i) ==
  /\ hs[i].pc = "update"
  /\ rows' = [rows EXCEPT ![hs[i].job].status = "DONE"]
  /\ hs' = [hs EXCEPT ![i] = IF hs[i].status \in Final THEN [@ EXCEPT !.pc = "clear"]
                             ELSE IdleHandler]
  /\ UNCHANGED <<req, asked, client, retained, field, faults>>
UpdateJob_ByDevice(i) ==
  /\ hs[i].pc = "update"
  /\ rows' = [j \in Jobs |-> IF rows[j] # Null /\ rows[j].dev = hs[i].dev
                               THEN [rows[j] EXCEPT !.status = hs[i].status] ELSE rows[j]]
  /\ hs' = [hs EXCEPT ![i] = IF hs[i].status \in Final THEN [@ EXCEPT !.pc = "clear"]
                             ELSE IdleHandler]
  /\ UNCHANGED <<req, asked, client, retained, field, faults>>
UpdateJob_AlwaysClear(i) ==
  /\ hs[i].pc = "update"
  /\ rows' = [rows EXCEPT ![hs[i].job].status = hs[i].status]
  /\ hs' = [hs EXCEPT ![i].pc = "clear"]
  /\ UNCHANGED <<req, asked, client, retained, field, faults>>

\* ota_updates.update({status, step}), whatever the row says.
UpdateJob(i) ==
  /\ hs[i].pc = "update"
  /\ rows' = [rows EXCEPT ![hs[i].job].status = hs[i].status]
  /\ hs' = [hs EXCEPT ![i] = IF hs[i].status \in Final THEN [@ EXCEPT !.pc = "clear"]
                             ELSE IdleHandler]
  /\ UNCHANGED <<req, asked, client, retained, field, faults>>

\* The empty retained message on the command topic of the device.
ClearCommand(i) ==
  /\ hs[i].pc = "clear"
  /\ Publish(hs[i].dev, Null)
  /\ hs' = [hs EXCEPT ![i] = IdleHandler]
  /\ UNCHANGED <<rows, req, asked, connected, retained, field, faults>>
-----------------------------------------------------------------------------
(* The MQTT client and the broker *)

\* The broker stores the oldest publication and forwards it to the device when
\* it is subscribed; an empty payload deletes the retained message.
Arrive(p) ==
  /\ retained' = [retained EXCEPT ![p.dev] = p.job]
  /\ device' = [device EXCEPT ![p.dev].inbox =
                  IF device[p.dev].online /\ p.job # Null THEN Append(@, p.job) ELSE @]

Deliver ==
  /\ connected /\ outbox # <<>>
  /\ Arrive(Head(outbox))
  /\ outbox' = Tail(outbox)
  /\ UNCHANGED <<backend, connected, up, reported, faults, drops>>

\* Without connection there is no subscription: what was on its way is lost.
Disconnect ==
  /\ connected /\ faults < MaxFaults
  /\ faults' = faults + 1
  /\ connected' = FALSE
  /\ up' = [d \in Devices |-> <<>>]
  /\ UNCHANGED <<backend, outbox, retained, device, reported, drops>>

\* The broker got the publication and the acknowledgement was lost with the
\* connection: the client will send it again.
DeliverUnacknowledged ==
  /\ connected /\ outbox # <<>> /\ faults < MaxFaults
  /\ Arrive(Head(outbox))
  /\ faults' = faults + 1
  /\ connected' = FALSE
  /\ up' = [d \in Devices |-> <<>>]
  /\ UNCHANGED <<backend, outbox, reported, drops>>

\* reconnectPeriod: 5 s; the 'connect' event subscribes again.
Reconnect ==
  /\ ~connected
  /\ connected' = TRUE
  /\ UNCHANGED <<backend, outbox, retained, field, faults>>
-----------------------------------------------------------------------------
(* The devices *)

\* A device that connects subscribes to its command topic.
DeviceConnect(d) ==
  /\ ~device[d].online
  /\ device' = [device EXCEPT ![d].online = TRUE,
                  ![d].inbox = IF retained[d] # Null THEN <<retained[d]>> ELSE <<>>]
  /\ UNCHANGED <<backend, client, retained, up, reported, faults, drops>>

\* It loses power or the network: commands it had not started are gone.
DeviceDrop(d) ==
  /\ device[d].online /\ drops < MaxDrops
  /\ drops' = drops + 1
  /\ device' = [device EXCEPT ![d] = Offline]
  /\ UNCHANGED <<backend, client, retained, up, reported, faults>>

Report(d, j, s) ==
  /\ reported' = reported \union {<<j, s>>}
  /\ up' = [up EXCEPT ![d] = IF connected THEN Append(@, [job |-> j, status |-> s]) ELSE @]

DeviceStart(d) ==
  /\ device[d].inbox # <<>> /\ device[d].job = Null /\ Len(up[d]) < MaxUp
  /\ device' = [device EXCEPT ![d].inbox = Tail(@), ![d].job = Head(device[d].inbox)]
  /\ Report(d, Head(device[d].inbox), "IN_PROGRESS")
  /\ UNCHANGED <<backend, client, retained, faults, drops>>

DeviceFinish(d, s) ==
  /\ device[d].job # Null /\ Len(up[d]) < MaxUp
  /\ device' = [device EXCEPT ![d].job = Null]
  /\ Report(d, device[d].job, s)
  /\ UNCHANGED <<backend, client, retained, faults, drops>>
-----------------------------------------------------------------------------
\* A rejected call: the request answers an error, or the handler's catch logs.
Fail(p) ==
  /\ faults < MaxFaults
  /\ \/ p \in Requests /\ req[p].pc # "idle"
     \/ p \in Handlers /\ hs[p].pc # "idle"
  /\ faults' = faults + 1
  /\ req' = [q \in Requests |-> IF q = p THEN IdleRequest ELSE req[q]]
  /\ hs' = [i \in Handlers |-> IF i = p THEN IdleHandler ELSE hs[i]]
  /\ UNCHANGED <<rows, asked, client, retained, field>>

\* The backend dies and starts again: its memory, the client's included, is lost.
Crash ==
  /\ faults < MaxFaults
  /\ faults' = faults + 1
  /\ req' = [q \in Requests |-> IdleRequest]
  /\ hs' = [i \in Handlers |-> IdleHandler]
  /\ outbox' = <<>>
  /\ connected' = FALSE
  /\ up' = [d \in Devices |-> <<>>]
  /\ UNCHANGED <<rows, asked, retained, device, reported, drops>>

RequestStep(q) == (\E d \in Devices, j \in Jobs : CreateJob(q, d, j)) \/ PublishCommand(q)
HandlerStep(i) == FindJob(i) \/ UpdateJob(i) \/ ClearCommand(i)
ClientStep     == Deliver \/ Reconnect
DeviceStep(d)  == DeviceConnect(d) \/ DeviceStart(d) \/ \E s \in Final : DeviceFinish(d, s)
Faults == \/ Disconnect \/ DeliverUnacknowledged \/ Crash
          \/ \E d \in Devices : DeviceDrop(d)
          \/ \E p \in Requests \union Handlers : Fail(p)

Next ==
  \/ \E q \in Requests, targets \in SUBSET Devices : StartRequest(q, targets)
  \/ \E q \in Requests : RequestStep(q)
  \/ \E i \in Handlers, d \in Devices : ReceiveStatus(i, d)
  \/ \E i \in Handlers : HandlerStep(i)
  \/ ClientStep
  \/ \E d \in Devices : DeviceStep(d)
  \/ Faults

Spec == Init /\ [][Next]_vars

\* Answered calls resume, messages on a live connection are received, the client
\* reconnects; a device comes back and works through the commands it gets.
Fairness ==
  /\ \A q \in Requests : WF_vars(RequestStep(q))
  /\ \A d \in Devices : WF_vars(\E i \in Handlers : ReceiveStatus(i, d))
  /\ \A i \in Handlers : WF_vars(HandlerStep(i))
  /\ WF_vars(ClientStep)
  /\ \A d \in Devices : WF_vars(DeviceStep(d))

FairSpec == Spec /\ Fairness
-----------------------------------------------------------------------------
(* Properties *)

TypeOK ==
  /\ rows \in [Jobs -> {Null} \union [dev : Devices, status : Statuses]]
  /\ req \in [Requests -> [pc : {"idle", "create", "publish"}, todo : SUBSET Devices,
                           job : Jobs \union {Null}]]
  /\ asked \in 0..MaxRequests
  /\ outbox \in Seq([dev : Devices, job : Jobs \union {Null}])
  /\ connected \in BOOLEAN
  /\ retained \in [Devices -> Jobs \union {Null}]
  /\ up \in [Devices -> Seq([job : Jobs, status : Reports])]
  /\ hs \in [Handlers -> [pc : {"idle", "find", "update", "clear"},
                          dev : Devices \union {Null}, job : Jobs \union {Null},
                          status : Reports \union {Null}]]
  /\ device \in [Devices -> [online : BOOLEAN, inbox : Seq(Jobs), job : Jobs \union {Null}]]
  /\ reported \in SUBSET (Jobs \X Reports)
  /\ faults \in 0..MaxFaults
  /\ drops \in 0..MaxDrops

IsRowOf(j, d) == rows[j] # Null /\ rows[j].dev = d

\* A command in the client, in the broker, at a device or in a status message
\* belongs to a stored row of that same device, across crashes and resends: the
\* backend can always attribute what a device reports.  (ota.service.ts:104-126)
CommandsHaveRows ==
  /\ \A k \in 1..Len(outbox) : outbox[k].job # Null => IsRowOf(outbox[k].job, outbox[k].dev)
  /\ \A d \in Devices :
       /\ retained[d] # Null => IsRowOf(retained[d], d)
       /\ device[d].job # Null => IsRowOf(device[d].job, d)
       /\ \A k \in 1..Len(device[d].inbox) : IsRowOf(device[d].inbox[k], d)
       /\ \A k \in 1..Len(up[d]) : IsRowOf(up[d][k].job, d)

\* A row leaves PENDING only to a status its device published for that very job.
\* (mqtt.service.ts:347-364)
RowsShowReports ==
  \A j \in Jobs :
    rows[j] # Null /\ rows[j].status # "PENDING" => <<j, rows[j].status>> \in reported

\* The history shown to the users is the one OtaLedger promises: no path of
\* requests, resends, crashes or concurrent handlers creates a job twice, takes
\* one back to PENDING or shows what its device did not say.
\* (ota.service.ts:105-114, 146-210, mqtt.service.ts:358-364)
Ledger == INSTANCE OtaLedger WITH
            ledger <- [j \in Jobs |-> IF rows[j] = Null THEN "none" ELSE rows[j].status]

ImplementsLedger == Ledger!Spec

\* The backend deletes a retained command only after that device published the
\* end of some job.  (mqtt.service.ts:368-377)
ClearedAfterEnd ==
  [][\A d \in Devices :
       retained[d] # Null /\ retained'[d] = Null
         => \E j \in Jobs, s \in Final : IsRowOf(j, d) /\ <<j, s>> \in reported]_vars

\* One job and a backend that stays up: a pending job is some day recorded as
\* ended, even if its device is offline when it is created or drops while it
\* executes.  (It need not stay so: the update looks at no earlier status.)
\* (ota.service.ts:54-59)
IsPending(j) == rows[j] # Null /\ rows[j].status = "PENDING"
IsEnded(j)   == rows[j] # Null /\ rows[j].status \in Final

PendingJobsEnd == \A j \in Jobs : IsPending(j) ~> IsEnded(j)
=============================================================================
