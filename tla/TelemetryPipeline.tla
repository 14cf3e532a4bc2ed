------------------------- MODULE TelemetryPipeline -------------------------
(***************************************************************************)
(* The telemetry path of the backend: MQTT messages handled concurrently   *)
(* (mqtt.service.ts, handleTelemetry), the Redis keys they share           *)
(* (telemetry-redis.service.ts) and the scheduled runs that copy them to   *)
(* InfluxDB (telemetry.scheduler.ts, persistAllDevices).                   *)
(*                                                                         *)
(* A handler or a run is a program counter with the locals that survive an *)
(* `await`.  Each action is one awaited call: the command takes effect at  *)
(* the store, and the code after the await belongs to the same step.  The  *)
(* message listener is not awaited by the client (mqtt.service.ts:70), so  *)
(* the steps of several handlers interleave; so do two runs, since a cron  *)
(* tick does not wait for the run of the tick before.                      *)
(*                                                                         *)
(* Time is abstracted: a key with a TTL may expire at any moment.          *)
(***************************************************************************)
EXTENDS SpikeDetector, Sequences, FiniteSets

CONSTANTS
  Devices,       \* ids of the topics imox/devices/<id>/telemetry
  Samples,       \* what the devices send: the `electricas` block, Null when absent,
                 \* and whether `timestamp`, any string, is a date (or absent)
  Handlers,      \* message handlers that may be in progress together
  Runs,          \* scheduler runs that may be in progress together
  BufferCap,     \* events kept by lTrim: 100 in the code
  MaxMsgs,       \* bound on the messages received
  MaxFaults      \* bound on the failed calls and crashes

ASSUME PipelineAssumption ==
  /\ Samples \subseteq [electricas : Electricas \union {Null}, dated : BOOLEAN]
  /\ Handlers \intersect Runs = {}
  /\ BufferCap \in Nat \ {0} /\ MaxMsgs \in Nat /\ MaxFaults \in Nat
  /\ IsFiniteSet(Handlers) /\ IsFiniteSet(Runs)

\* A message, numbered in the order of arrival.  anomaly_type is the verdict of
\* the backend, assigned only to a critical one and after it was cached; a value
\* the device itself sent there is overwritten, or read by nobody on this path.
Reading == [id : 1..MaxMsgs, dev : Devices, electricas : Electricas \union {Null},
            dated : BOOLEAN, anomaly_type : Verdicts]

ASSUME NullIsNoReading == Null \notin Reading

VARIABLES
  status,       \* iot row of a device: no row, status 0, or active
  owned,        \* the devices whose row has a user_id
  online,       \* the devices whose row has is_online
  last,         \* iot:<id>:last
  baseline,     \* iot:<id>:baseline
  buffer,       \* iot:<id>:critical_buffer, newest first
  bufferTtl,    \* whether that list has a TTL
  influx,       \* the points written to InfluxDB
  h,            \* the handlers
  r,            \* the scheduler runs
  received,     \* messages received so far
  faults        \* failures so far

rows  == <<status, owned>>
redis == <<last, baseline, buffer, bufferTtl>>
vars  == <<status, owned, online, last, baseline, buffer, bufferTtl, influx,
           h, r, received, faults>>

HandlerPcs == {"idle", "lookup", "touch", "setLast", "getBaseline", "push", "trim",
               "expire", "setBaseline", "setFirst", "broadcast"}
RunPcs     == {"idle", "getLast", "getEvents", "owner", "write", "clear"}
HandlerState == [pc : HandlerPcs, msg : Reading \union {Null}, noBase : BOOLEAN]
RunState == [pc : RunPcs, todo : SUBSET Devices, dev : Devices \union {Null},
             last : Reading \union {Null}, events : Seq(Reading), left : Seq(Reading)]

IdleHandler == [pc |-> "idle", msg |-> Null, noBase |-> FALSE]
IdleRun     == [pc |-> "idle", todo |-> {}, dev |-> Null, last |-> Null,
                events |-> <<>>, left |-> <<>>]

Occurs(x, s) == \E i \in 1..Len(s) : s[i] = x

Init ==
  /\ status \in [Devices -> {"absent", "inactive", "active"}]
  /\ owned \in SUBSET {d \in Devices : status[d] # "absent"}
  /\ online = {}
  /\ last = [d \in Devices |-> Null]
  /\ baseline = [d \in Devices |-> Null]
  /\ buffer = [d \in Devices |-> <<>>]
  /\ bufferTtl = [d \in Devices |-> FALSE]
  /\ influx = {}
  /\ h = [i \in Handlers |-> IdleHandler]
  /\ r = [j \in Runs |-> IdleRun]
  /\ received = 0
  /\ faults = 0
-----------------------------------------------------------------------------
(* handleTelemetry *)

Goto(i, pc) == h' = [h EXCEPT ![i].pc = pc]
Done(i)     == h' = [h EXCEPT ![i] = IdleHandler]

\* The 'message' event: parse, transform and validate.  Only a message that is
\* valid goes on; an invalid one returns and leaves nothing, so it is no step.
Receive(i, d, s) ==
  /\ h[i].pc = "idle" /\ received < MaxMsgs
  /\ received' = received + 1
  /\ h' = [h EXCEPT ![i] = [pc |-> "lookup", noBase |-> FALSE,
             msg |-> [id |-> received + 1, dev |-> d, electricas |-> s.electricas,
                      dated |-> s.dated, anomaly_type |-> "NONE"]]]
  /\ UNCHANGED <<rows, online, redis, influx, r, faults>>

\* Variant: only a missing row ends the handler.
LookupDevice_AnyStatus(i) ==
  /\ h[i].pc = "lookup"
  /\ IF status[h[i].msg.dev] # "absent" THEN Goto(i, "touch") ELSE Done(i)
  /\ UNCHANGED <<rows, online, redis, influx, r, received, faults>>

\* iot.findUnique: an unknown or inactive device ends the handler.
LookupDevice(i) ==
  /\ h[i].pc = "lookup"
  /\ IF status[h[i].msg.dev] = "active" THEN Goto(i, "touch") ELSE Done(i)
  /\ UNCHANGED <<rows, online, redis, influx, r, received, faults>>

\* iot.update({last_connection, is_online: true}).
TouchDevice(i) ==
  /\ h[i].pc = "touch"
  /\ online' = online \union {h[i].msg.dev}
  /\ Goto(i, "setLast")
  /\ UNCHANGED <<rows, redis, influx, r, received, faults>>

SetTelemetryLast(i) ==
  /\ h[i].pc = "setLast"
  /\ last' = [last EXCEPT ![h[i].msg.dev] = h[i].msg]
  /\ Goto(i, "getBaseline")
  /\ UNCHANGED <<rows, online, baseline, buffer, bufferTtl, influx, r, received, faults>>

\* Variants: no verdict without a baseline; the detector asked even then.
Judge_Undefined(msg, base) ==
  IF base # Null /\ base.electricas # Null
    THEN DetectAnomaly(msg.electricas, base.electricas)
    ELSE Null
Judge_Always(msg, base) ==
  DetectAnomaly(msg.electricas, IF base = Null THEN Null ELSE base.electricas)

\* The detector runs only when the baseline has an `electricas` block.
Judge(msg, base) ==
  IF base # Null /\ base.electricas # Null
    THEN DetectAnomaly(msg.electricas, base.electricas)
    ELSE "NONE"

\* getBaseline, the verdict, and the branch it selects.
GetBaseline(i) ==
  LET base == baseline[h[i].msg.dev]
      v    == Judge(h[i].msg, base)
  IN /\ h[i].pc = "getBaseline"
     /\ h' = [h EXCEPT ![i].pc = IF v = "NONE" THEN "setBaseline" ELSE "push",
                       ![i].msg.anomaly_type = v,
                       ![i].noBase = (base = Null)]
     /\ UNCHANGED <<rows, online, redis, influx, r, received, faults>>

\* pushCriticalEvent: three commands, each awaited.
PushEvent(i) ==
  /\ h[i].pc = "push"
  /\ buffer' = [buffer EXCEPT ![h[i].msg.dev] = <<h[i].msg>> \o @]
  /\ Goto(i, "trim")
  /\ UNCHANGED <<rows, online, last, baseline, bufferTtl, influx, r, received, faults>>

\* Variant: lTrim(key, 0, 100), whose end is inclusive.
Trimmed_OneMore(s) == IF Len(s) > BufferCap + 1 THEN SubSeq(s, 1, BufferCap + 1) ELSE s

Trimmed(s) == IF Len(s) > BufferCap THEN SubSeq(s, 1, BufferCap) ELSE s

TrimBuffer(i) ==
  /\ h[i].pc = "trim"
  /\ buffer' = [buffer EXCEPT ![h[i].msg.dev] = Trimmed(@)]
  /\ Goto(i, "expire")
  /\ UNCHANGED <<rows, online, last, baseline, bufferTtl, influx, r, received, faults>>

\* EXPIRE does nothing on a key that no longer exists.
AfterVerdict(i) == IF h[i].noBase THEN "setFirst" ELSE "broadcast"

SetBufferTtl(i) ==
  /\ h[i].pc = "expire"
  /\ bufferTtl' = [bufferTtl EXCEPT ![h[i].msg.dev] = buffer[h[i].msg.dev] # <<>>]
  /\ Goto(i, AfterVerdict(i))
  /\ UNCHANGED <<rows, online, last, baseline, buffer, influx, r, received, faults>>

StoreBaseline(i) == baseline' = [baseline EXCEPT ![h[i].msg.dev] = h[i].msg]

SetBaseline(i) ==
  /\ h[i].pc = "setBaseline"
  /\ StoreBaseline(i)
  /\ Goto(i, AfterVerdict(i))
  /\ UNCHANGED <<rows, online, last, buffer, bufferTtl, influx, r, received, faults>>

\* Variant: the handler returns once the first baseline is stored.
SetFirstBaseline_Returns(i) ==
  /\ h[i].pc = "setFirst"
  /\ StoreBaseline(i)
  /\ Done(i)
  /\ UNCHANGED <<rows, online, last, buffer, bufferTtl, influx, r, received, faults>>

\* if (!baseline) setBaseline: the value read before the branch decides.
SetFirstBaseline(i) ==
  /\ h[i].pc = "setFirst"
  /\ StoreBaseline(i)
  /\ Goto(i, "broadcast")
  /\ UNCHANGED <<rows, online, last, buffer, bufferTtl, influx, r, received, faults>>

\* broadcastTelemetry to the device's room, synchronous; the handler ends.
Broadcast(i) ==
  /\ h[i].pc = "broadcast"
  /\ Done(i)
  /\ UNCHANGED <<rows, online, redis, influx, r, received, faults>>
-----------------------------------------------------------------------------
(* persistAllDevices *)

\* The next turn of the loop over the devices, or the end of the run.
NextDevice(todo) ==
  IF todo = {} THEN IdleRun ELSE [IdleRun EXCEPT !.pc = "getLast", !.todo = todo]

\* The cron tick: keys('iot:*:last').
StartRun(j) ==
  /\ r[j].pc = "idle"
  /\ r' = [r EXCEPT ![j] = NextDevice({d \in Devices : last[d] # Null})]
  /\ UNCHANGED <<rows, online, redis, influx, h, received, faults>>

\* The order of KEYS is arbitrary.
ReadLast(j, d) ==
  /\ r[j].pc = "getLast" /\ d \in r[j].todo
  /\ r' = [r EXCEPT ![j].pc = "getEvents", ![j].todo = @ \ {d}, ![j].dev = d,
                    ![j].last = last[d]]
  /\ UNCHANGED <<rows, online, redis, influx, h, received, faults>>

\* lRange, and the early return when there is nothing to write.
ReadEvents(j) ==
  LET events == buffer[r[j].dev]
  IN /\ r[j].pc = "getEvents"
     /\ r' = [r EXCEPT ![j] = IF r[j].last = Null /\ events = <<>>
                                THEN NextDevice(@.todo)
                                ELSE [@ EXCEPT !.pc = "owner", !.events = events]]
     /\ UNCHANGED <<rows, online, redis, influx, h, received, faults>>

\* transformToReadings: the events, then the last reading as a normal one.
Readings(run) == run.events \o (IF run.last = Null THEN <<>> ELSE <<run.last>>)

\* findUnique({user_id}): a device without owner is skipped, its buffer kept.
LookupOwner(j) ==
  /\ r[j].pc = "owner"
  /\ r' = [r EXCEPT ![j] = IF r[j].dev \in owned
                             THEN [@ EXCEPT !.pc = "write", !.left = Readings(r[j])]
                             ELSE NextDevice(@.todo)]
  /\ UNCHANGED <<rows, online, redis, influx, h, received, faults>>

\* toISOString throws for an event whose timestamp is not a date; the last reading
\* is written with the time of the run, whatever its own timestamp is.
Writable(p) == p.dated \/ p.anomaly_type = "NONE"

\* Variant: writeTelemetryPoint logs its error instead of throwing it.
WritePoint_Swallow(j) ==
  /\ r[j].pc = "write" /\ Writable(Head(r[j].left))
  /\ influx' \in {influx, influx \union {Head(r[j].left)}}
  /\ r' = [r EXCEPT ![j].left = Tail(@),
                    ![j].pc = IF Len(r[j].left) = 1 THEN "clear" ELSE "write"]
  /\ UNCHANGED <<rows, online, redis, h, received, faults>>

\* writeTelemetryPoint, one reading after the other.
WritePoint(j) ==
  /\ r[j].pc = "write" /\ Writable(Head(r[j].left))
  /\ influx' = influx \union {Head(r[j].left)}
  /\ r' = [r EXCEPT ![j].left = Tail(@),
                    ![j].pc = IF Len(r[j].left) = 1 THEN "clear" ELSE "write"]
  /\ UNCHANGED <<rows, online, redis, h, received, faults>>

\* The exception ends in the catch of persistAllDevices: the run is over, for the
\* devices it has not reached too.
RejectPoint(j) ==
  /\ r[j].pc = "write" /\ ~Writable(Head(r[j].left))
  /\ r' = [r EXCEPT ![j] = IdleRun]
  /\ UNCHANGED <<rows, online, redis, influx, h, received, faults>>

\* Variant: lTrim(key, 0, 0), which keeps the newest event.
ClearEvents_Trim(j) ==
  /\ r[j].pc = "clear"
  /\ buffer' = [buffer EXCEPT ![r[j].dev] =
                  IF @ = <<>> THEN <<>> ELSE <<Head(@)>>]
  /\ r' = [r EXCEPT ![j] = NextDevice(@.todo)]
  /\ UNCHANGED <<rows, online, last, baseline, bufferTtl, influx, h, received, faults>>

\* clearCriticalEvents deletes the whole list.
ClearEvents(j) ==
  /\ r[j].pc = "clear"
  /\ buffer' = [buffer EXCEPT ![r[j].dev] = <<>>]
  /\ bufferTtl' = [bufferTtl EXCEPT ![r[j].dev] = FALSE]
  /\ r' = [r EXCEPT ![j] = NextDevice(@.todo)]
  /\ UNCHANGED <<rows, online, last, baseline, influx, h, received, faults>>
-----------------------------------------------------------------------------
(* The environment *)

ExpireLast(d) ==
  /\ last[d] # Null
  /\ last' = [last EXCEPT ![d] = Null]
  /\ UNCHANGED <<rows, online, baseline, buffer, bufferTtl, influx, h, r, received, faults>>

ExpireBaseline(d) ==
  /\ baseline[d] # Null
  /\ baseline' = [baseline EXCEPT ![d] = Null]
  /\ UNCHANGED <<rows, online, last, buffer, bufferTtl, influx, h, r, received, faults>>

ExpireBuffer(d) ==
  /\ bufferTtl[d]
  /\ buffer' = [buffer EXCEPT ![d] = <<>>]
  /\ bufferTtl' = [bufferTtl EXCEPT ![d] = FALSE]
  /\ UNCHANGED <<rows, online, last, baseline, influx, h, r, received, faults>>

Busy == {i \in Handlers : h[i].pc # "idle"} \union {j \in Runs : r[j].pc # "idle"}

\* The processes of K stop where they are.  One of them: a call rejected, the
\* catch of the handler or of the whole run logs it and the rest is skipped (a
\* call that took effect before its answer was lost is the step and then the
\* fault).  All of them: the backend died; Redis, MariaDB and InfluxDB keep
\* their contents, and a message that was in progress is not sent again.
Fault(K) ==
  /\ K # {} /\ faults < MaxFaults
  /\ faults' = faults + 1
  /\ h' = [i \in Handlers |-> IF i \in K THEN IdleHandler ELSE h[i]]
  /\ r' = [j \in Runs |-> IF j \in K THEN IdleRun ELSE r[j]]
  /\ UNCHANGED <<rows, online, redis, influx, received>>

HandlerStep(i) ==
  \/ LookupDevice(i)
  \/ TouchDevice(i)
  \/ SetTelemetryLast(i)
  \/ GetBaseline(i)
  \/ PushEvent(i)
  \/ TrimBuffer(i)
  \/ SetBufferTtl(i)
  \/ SetBaseline(i)
  \/ SetFirstBaseline(i)
  \/ Broadcast(i)

RunStep(j) ==
  \/ \E d \in Devices : ReadLast(j, d)
  \/ ReadEvents(j)
  \/ LookupOwner(j)
  \/ WritePoint(j)
  \/ RejectPoint(j)
  \/ ClearEvents(j)

Environment ==
  \/ \E i \in Handlers, d \in Devices, s \in Samples : Receive(i, d, s)
  \/ \E d \in Devices : ExpireLast(d) \/ ExpireBaseline(d) \/ ExpireBuffer(d)
  \/ \E p \in Busy : Fault({p})
  \/ Fault(Busy)

Next ==
  \/ \E i \in Handlers : HandlerStep(i)
  \/ \E j \in Runs : StartRun(j) \/ RunStep(j)
  \/ Environment

Spec == Init /\ [][Next]_vars

\* The event loop resumes every call that was answered, and the cron keeps
\* ticking.  Messages, expiries and faults are owed by nobody.
Fairness ==
  /\ \A i \in Handlers : WF_vars(HandlerStep(i))
  /\ \A j \in Runs : WF_vars(StartRun(j)) /\ WF_vars(RunStep(j))

FairSpec == Spec /\ Fairness
-----------------------------------------------------------------------------
(* Properties *)

TypeOK ==
  /\ status \in [Devices -> {"absent", "inactive", "active"}]
  /\ owned \subseteq Devices
  /\ online \subseteq Devices
  /\ last \in [Devices -> Reading \union {Null}]
  /\ baseline \in [Devices -> Reading \union {Null}]
  /\ buffer \in [Devices -> Seq(Reading)]
  /\ bufferTtl \in [Devices -> BOOLEAN]
  /\ influx \subseteq Reading
  /\ h \in [Handlers -> HandlerState]
  /\ r \in [Runs -> RunState]
  /\ received \in 0..MaxMsgs
  /\ faults \in 0..MaxFaults

\* A reading judged critical never becomes the baseline, although the handler
\* of a device without baseline stores its reading twice, the second time
\* without looking at the verdict.  (mqtt.service.ts:178-192)
BaselineNeverCritical ==
  \A d \in Devices : baseline[d] # Null => baseline[d].anomaly_type = "NONE"

\* Nothing a device without row, or with status 0, sends is kept anywhere, and
\* InfluxDB only receives readings of devices that have an owner.
\* (mqtt.service.ts:149-157, telemetry.scheduler.ts:59-64)
OnlyKnownDevicesLeaveTraces ==
  /\ \A d \in Devices : status[d] # "active" =>
       /\ last[d] = Null /\ baseline[d] = Null /\ buffer[d] = <<>>
       /\ d \notin online
  /\ \A p \in influx : status[p.dev] = "active" /\ p.dev \in owned

\* The critical buffer exceeds its cap only by the pushes whose trim is still to
\* come, and by those whose handler died in between.
\* (telemetry-redis.service.ts:49-51)
BufferBounded ==
  \A d \in Devices :
    Len(buffer[d]) =< BufferCap
                      + Cardinality({i \in Handlers : h[i].pc = "trim" /\ h[i].msg.dev = d})
                      + faults * Cardinality(Handlers)

\* An event that is no longer in the buffer of d after a step.
AccountedLoss(d) ==
  \A k \in 1..Len(buffer[d]) :
    LET e == buffer[d][k]
    IN ~Occurs(e, buffer'[d]) =>
         \/ e \in influx
         \/ k > BufferCap /\ \E i \in Handlers : TrimBuffer(i)
         \/ ExpireBuffer(d)
         \/ \E j \in Runs : ClearEvents(j) /\ r[j].dev = d /\ ~Occurs(e, r[j].events)

\* Every way an event may leave the buffer: it is in InfluxDB, it is beyond the
\* cap when a handler trims, the list expires, or a run deletes the list and
\* the event was pushed after that run had read it.  So a run whose write
\* failed, or that met a device without owner, leaves the events for the next.
\* (telemetry.scheduler.ts:46-70)
EventsLeaveAccounted == [][\A d \in Devices : AccountedLoss(d)]_vars

InBuffer(d, n) == \E k \in 1..Len(buffer[d]) : buffer[d][k].id = n

\* An event that no run gets past: its timestamp is not a date.
Blocked == \E d \in owned : \E k \in 1..Len(buffer[d]) : ~Writable(buffer[d][k])

\* While the last reading of a device with owner stays cached, its events do
\* not stay in the buffer: some run gets past every failed call and crash and takes
\* them.  The exception is an event of some device whose timestamp is not a date:
\* until it leaves the buffer unwritten, it may end every run before the others'
\* turn.  (telemetry.scheduler.ts:24-41, 138-140)
EventsAreTaken ==
  \A d \in Devices, n \in 1..MaxMsgs :
    (d \in owned /\ InBuffer(d, n)) ~> (last[d] = Null \/ ~InBuffer(d, n) \/ Blocked)

(* Stated by a comment of the code, and not true of it *)

\* "Metodo que se encarga de persistir las lecturas en InfluxDB": the deletion
\* after a run only removes events that were persisted.
ClearedEventsPersisted ==
  [][\A j \in Runs : ClearEvents(j) =>
       \A k \in 1..Len(buffer[r[j].dev]) : buffer[r[j].dev][k] \in influx]_vars
=============================================================================
