---------------------------- MODULE DeviceHealth ----------------------------
(***************************************************************************)
(* The connection state of the devices: is_online is set by every message  *)
(* (mqtt.service.ts, handleTelemetry) and reset by a scheduled check of    *)
(* the age of the cached reading (telemetry.scheduler.ts,                  *)
(* checkDeviceHealth).  The cached reading is a key with a TTL, so time    *)
(* matters here and is counted in ticks.  A tick is long (a minute)        *)
(* compared with a call to Redis or MariaDB: a tick only passes when no    *)
(* message and no check is half way.                                       *)
(***************************************************************************)
EXTENDS Integers

CONSTANTS
  Null,
  Devices,
  LastTtl,            \* TTL of iot:<id>:last: 600 s
  Thresholds,         \* values of TELEMETRY_OFFLINE_TIMEOUT_MIN: 10 min when not set
  CronPeriod,         \* 5 min
  Stamps,             \* age of the device's timestamp on arrival, Null if absent
                      \* or not a date (the age is then NaN: never above a threshold)
  MaxMsgs,            \* bound on the messages received
  MaxFaults           \* bound on the calls that fail

ASSUME HealthAssumption ==
  /\ LastTtl \in Nat \ {0} /\ Thresholds \subseteq Nat /\ CronPeriod \in Nat \ {0}
  /\ Stamps \subseteq Int \union {Null} /\ Null \notin Int /\ Null \notin Devices
  /\ MaxMsgs \in Nat /\ MaxFaults \in Nat

\* What a key of iot:<id>:last holds while it has not expired.
CachedReading == [age : 0..(LastTtl - 1), stamp : Stamps]

ASSUME NullIsNoReading == Null \notin CachedReading

VARIABLES
  offlineThreshold,   \* the value of this deployment
  phase,     \* ticks since the cron fired
  last,      \* iot:<id>:last: ticks since it was set and stamp, or Null
  online,    \* devices whose row has is_online
  message,   \* the message of a device that was marked online, to be cached
  check,     \* the check in progress
  sent,      \* messages received so far
  faults
vars == <<offlineThreshold, phase, last, online, message, check, sent, faults>>

IdleCheck == [pc |-> "idle", todo |-> {}, dev |-> Null]
NoMessage == [pc |-> "idle", stamp |-> Null]

Init ==
  /\ offlineThreshold \in Thresholds
  /\ phase = 0
  /\ last = [d \in Devices |-> Null]
  /\ online = {}
  /\ message = [d \in Devices |-> NoMessage]
  /\ check = IdleCheck
  /\ sent = 0
  /\ faults = 0

\* iot.update({is_online: true}) and then setTelemetryLast, of one message.
TouchDevice(d, s) ==
  /\ message[d].pc = "idle" /\ sent < MaxMsgs
  /\ sent' = sent + 1
  /\ online' = online \union {d}
  /\ message' = [message EXCEPT ![d] = [pc |-> "setLast", stamp |-> s]]
  /\ UNCHANGED <<offlineThreshold, phase, last, check, faults>>

SetTelemetryLast(d) ==
  /\ message[d].pc = "setLast"
  /\ last' = [last EXCEPT ![d] = [age |-> 0, stamp |-> message[d].stamp]]
  /\ message' = [message EXCEPT ![d] = NoMessage]
  /\ UNCHANGED <<offlineThreshold, phase, online, check, sent, faults>>

NextKey(todo) == IF todo = {} THEN IdleCheck ELSE [pc |-> "get", todo |-> todo, dev |-> Null]

\* Variant: the key is set without EX.
Older_NoTtl(l) == IF l = Null THEN Null ELSE [l EXCEPT !.age = @ + 1]

Older(l) == IF l = Null \/ l.age + 1 >= LastTtl THEN Null ELSE [l EXCEPT !.age = @ + 1]

\* Time passes, keys reach their TTL, and every CronPeriod ticks the check
\* starts with the keys of that moment.
Tick ==
  /\ check.pc = "idle" /\ \A d \in Devices : message[d].pc = "idle"
  /\ phase' = (phase + 1) % CronPeriod
  /\ last' = [d \in Devices |-> Older(last[d])]
  /\ check' = IF phase' = 0 THEN NextKey({d \in Devices : last'[d] # Null}) ELSE check
  /\ UNCHANGED <<offlineThreshold, online, message, sent, faults>>

\* new Date(lastData.timestamp || Date.now()): without timestamp the age is 0, and
\* that of a timestamp that is not a date is never above a threshold.
Age(l) == IF l.stamp = Null THEN 0 ELSE l.age + l.stamp

Stale(l) == l # Null /\ Age(l) > offlineThreshold

\* Variants: an age that equals the threshold counts; a fresh device ends the loop
\* (return in the place of continue).
CheckDevice_AtThreshold(d) ==
  /\ check.pc = "get" /\ d \in check.todo
  /\ check' = IF last[d] # Null /\ Age(last[d]) >= offlineThreshold
                THEN [pc |-> "update", todo |-> check.todo \ {d}, dev |-> d]
                ELSE NextKey(check.todo \ {d})
  /\ UNCHANGED <<offlineThreshold, phase, last, online, message, sent, faults>>
CheckDevice_Return(d) ==
  /\ check.pc = "get" /\ d \in check.todo
  /\ check' = IF Stale(last[d])
                THEN [pc |-> "update", todo |-> check.todo \ {d}, dev |-> d]
                ELSE IdleCheck
  /\ UNCHANGED <<offlineThreshold, phase, last, online, message, sent, faults>>

\* getTelemetryLast, and the comparison.
CheckDevice(d) ==
  /\ check.pc = "get" /\ d \in check.todo
  /\ check' = IF Stale(last[d])
                THEN [pc |-> "update", todo |-> check.todo \ {d}, dev |-> d]
                ELSE NextKey(check.todo \ {d})
  /\ UNCHANGED <<offlineThreshold, phase, last, online, message, sent, faults>>

\* iot.update({is_online: false}).
MarkOffline ==
  /\ check.pc = "update"
  /\ online' = online \ {check.dev}
  /\ check' = NextKey(check.todo)
  /\ UNCHANGED <<offlineThreshold, phase, last, message, sent, faults>>

\* A call fails: the check, or the handler of the message, is abandoned.
FailCheck ==
  /\ check.pc # "idle" /\ faults < MaxFaults
  /\ faults' = faults + 1
  /\ check' = IdleCheck
  /\ UNCHANGED <<offlineThreshold, phase, last, online, message, sent>>

FailMessage(d) ==
  /\ message[d].pc # "idle" /\ faults < MaxFaults
  /\ faults' = faults + 1
  /\ message' = [message EXCEPT ![d] = NoMessage]
  /\ UNCHANGED <<offlineThreshold, phase, last, online, check, sent>>

CheckStep == (\E d \in Devices : CheckDevice(d)) \/ MarkOffline

Next ==
  \/ \E d \in Devices, s \in Stamps : TouchDevice(d, s)
  \/ \E d \in Devices : SetTelemetryLast(d) \/ FailMessage(d)
  \/ Tick
  \/ CheckStep
  \/ FailCheck

Spec == Init /\ [][Next]_vars

\* Time passes, and every call is answered.
FairSpec == /\ Spec
            /\ WF_vars(Tick) /\ WF_vars(CheckStep)
            /\ \A d \in Devices : WF_vars(SetTelemetryLast(d))
-----------------------------------------------------------------------------
(* Properties *)

TypeOK ==
  /\ offlineThreshold \in Thresholds
  /\ phase \in 0..(CronPeriod - 1)
  /\ last \in [Devices -> {Null} \union CachedReading]
  /\ online \subseteq Devices
  /\ message \in [Devices -> [pc : {"idle", "setLast"}, stamp : Stamps \union {Null}]]
  /\ check \in [pc : {"idle", "get", "update"}, todo : SUBSET Devices,
                dev : Devices \union {Null}]
  /\ sent \in 0..MaxMsgs
  /\ faults \in 0..MaxFaults

\* A device goes offline only because its cached reading is older than the
\* threshold.  The one exception is a message whose reading is cached between the
\* check's read and its update.  (telemetry.scheduler.ts:165-185)
OfflineIsJustified ==
  [][\A d \in online \ online' :
       \/ Stale(last[d])
       \/ last[d] # Null /\ last[d].age = 0]_vars

\* A reading that is older than the threshold for a whole period of the check
\* before it expires.  One that arrives on time (stamp 0) is so when the threshold
\* is below LastTtl - CronPeriod.  With the threshold of the code's default and of
\* .env.example, which equals the TTL, it never is: only a reading that arrives
\* more than CronPeriod late is.
StaleInTime(l) ==
  /\ l.stamp # Null
  /\ CronPeriod < LastTtl /\ offlineThreshold + CronPeriod < LastTtl + l.stamp

\* A device with such a reading is some day marked offline, unless a call fails or
\* its next message brings a reading that is not: once it stops sending, a check
\* finds the reading too old before the key expires.  (The messages are bounded, so
\* every device stops.)  It says nothing of the readings that expire first: their
\* device stays online.  (telemetry.scheduler.ts:147-190)
SilentGoesOffline ==
  \A d \in Devices :
    (d \in online /\ last[d] # Null /\ StaleInTime(last[d]))
      ~> (d \notin online \/ faults > 0 \/ (last[d] # Null /\ ~StaleInTime(last[d])))
=============================================================================
