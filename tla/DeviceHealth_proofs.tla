------------------------ MODULE DeviceHealth_proofs ------------------------
(***************************************************************************)
(* Theorems about DeviceHealth for any devices, stamps, times and bounds.  *)
(***************************************************************************)
EXTENDS DeviceHealth, TLAPS

\* A message that waits to be cached has one of the stamps messages have.
MessagesStamped == \A d \in Devices : message[d].pc = "setLast" => message[d].stamp \in Stamps

\* Why a device may be marked offline: its cached reading is stale, or it was
\* stale when the check read it and has been replaced within this tick.
Excuse(d) == Stale(last[d]) \/ (last[d] # Null /\ last[d].age = 0)

\* The check is about to mark a device that it has read, for one of those reasons.
\* A tick would change the ages, but none passes while a check is half way.
MarkExcused == check.pc = "update" => check.dev \in Devices /\ Excuse(check.dev)

HealthInv == TypeOK /\ MessagesStamped /\ MarkExcused

CheckState == [pc : {"idle", "get", "update"}, todo : SUBSET Devices,
               dev : Devices \union {Null}]

\* A check is over, or has a key to read next: it marks nobody yet.
LEMMA NextKeyType ==
  ASSUME NEW todo \in SUBSET Devices
  PROVE  NextKey(todo) \in CheckState /\ NextKey(todo).pc # "update"
BY DEF NextKey, IdleCheck, CheckState

\* A reading that grows older stays in its TTL, or is gone.
LEMMA OlderType ==
  ASSUME NEW l \in {Null} \union CachedReading
  PROVE  Older(l) \in {Null} \union CachedReading
<1>1. CASE l = Null
  BY <1>1 DEF Older
<1>2. CASE l # Null
  <2>1. l \in CachedReading
    BY <1>2
  <2>2. CASE l.age + 1 >= LastTtl
    BY <2>2 DEF Older
  <2>3. CASE ~(l.age + 1 >= LastTtl)
    <3>1. l.age + 1 \in 0..(LastTtl - 1)
      BY <2>1, <2>3, HealthAssumption DEF CachedReading
    <3>2. [l EXCEPT !.age = @ + 1] \in CachedReading
      BY <2>1, <3>1 DEF CachedReading
    <3> QED BY <1>2, <2>3, <3>2 DEF Older
  <2> QED BY <2>2, <2>3
<1> QED BY <1>1, <1>2

LEMMA HealthInit == Init => HealthInv
<1> SUFFICES ASSUME Init PROVE HealthInv
  OBVIOUS
<1> USE HealthAssumption DEF Init
<1>1. TypeOK
  BY DEF TypeOK, IdleCheck, NoMessage
<1>2. MessagesStamped /\ MarkExcused
  BY DEF MessagesStamped, MarkExcused, IdleCheck, NoMessage
<1> QED BY <1>1, <1>2 DEF HealthInv

LEMMA HealthStep == HealthInv /\ [Next]_vars => HealthInv'
<1> SUFFICES ASSUME HealthInv, [Next]_vars PROVE HealthInv'
  OBVIOUS
<1> USE HealthAssumption DEF HealthInv
<1>1. ASSUME NEW d \in Devices, NEW s \in Stamps, TouchDevice(d, s) PROVE HealthInv'
  <2> USE <1>1 DEF TouchDevice
  <2>1. TypeOK'
    BY DEF TypeOK
  <2>2. MessagesStamped'
    BY DEF MessagesStamped, TypeOK
  <2>3. MarkExcused'
    BY DEF MarkExcused, Excuse, Stale, Age
  <2> QED BY <2>1, <2>2, <2>3
<1>2. ASSUME NEW d \in Devices, SetTelemetryLast(d) PROVE HealthInv'
  <2> USE <1>2 DEF SetTelemetryLast
  <2>1. PICK l : l = [age |-> 0, stamp |-> message[d].stamp]
    OBVIOUS
  <2>2. l \in CachedReading /\ l.age = 0 /\ l # Null
    BY <2>1, NullIsNoReading DEF MessagesStamped, CachedReading
  <2>3. last' = [last EXCEPT ![d] = l]
    BY <2>1
  <2>4. TypeOK'
    BY <2>2, <2>3 DEF TypeOK, NoMessage
  <2>5. MessagesStamped'
    BY DEF MessagesStamped, TypeOK, NoMessage
  <2>6. MarkExcused'
    <3>1. last'[d] = l /\ \A e \in Devices : e # d => last'[e] = last[e]
      BY <2>3 DEF TypeOK
    <3>2. \A e \in Devices : Excuse(e) => Excuse(e)'
      BY <2>2, <3>1 DEF Excuse, Stale, Age
    <3> QED BY <3>2 DEF MarkExcused
  <2> QED BY <2>4, <2>5, <2>6
<1>3. ASSUME NEW d \in Devices, FailMessage(d) PROVE HealthInv'
  <2> USE <1>3 DEF FailMessage
  <2>1. TypeOK'
    BY DEF TypeOK, NoMessage
  <2>2. MessagesStamped'
    BY DEF MessagesStamped, TypeOK, NoMessage
  <2>3. MarkExcused'
    BY DEF MarkExcused, Excuse, Stale, Age
  <2> QED BY <2>1, <2>2, <2>3
<1>4. ASSUME Tick PROVE HealthInv'
  <2> USE <1>4 DEF Tick
  <2>1. phase' \in 0..(CronPeriod - 1)
    BY DEF TypeOK
  <2>2. last' \in [Devices -> {Null} \union CachedReading]
    BY OlderType DEF TypeOK
  <2>3. PICK keys : keys = {d \in Devices : last'[d] # Null}
    OBVIOUS
  <2>4. check' \in CheckState /\ check'.pc # "update"
    <3>1. CASE phase' = 0
      BY <2>3, <3>1, NextKeyType
    <3>2. CASE phase' # 0
      BY <3>2 DEF TypeOK, CheckState
    <3> QED BY <3>1, <3>2
  <2>5. TypeOK'
    BY <2>1, <2>2, <2>4 DEF TypeOK, CheckState
  <2>6. MessagesStamped' /\ MarkExcused'
    BY <2>4 DEF MessagesStamped, MarkExcused
  <2> QED BY <2>5, <2>6
<1>5. ASSUME NEW d \in Devices, CheckDevice(d) PROVE HealthInv'
  <2> USE <1>5 DEF CheckDevice
  <2>1. CASE Stale(last[d])
    <3>1. check' = [pc |-> "update", todo |-> check.todo \ {d}, dev |-> d]
      BY <2>1
    <3>2. TypeOK'
      <4>1. check.todo \ {d} \in SUBSET Devices
        BY DEF TypeOK
      <4>2. check' \in CheckState
        BY <3>1, <4>1 DEF CheckState
      <4> QED BY <4>2 DEF TypeOK, CheckState
    <3>3. MarkExcused'
      BY <2>1, <3>1 DEF MarkExcused, Excuse, Stale, Age
    <3> QED BY <3>2, <3>3 DEF MessagesStamped
  <2>2. CASE ~Stale(last[d])
    <3>1. check' \in CheckState /\ check'.pc # "update"
      BY <2>2, NextKeyType DEF TypeOK
    <3>2. TypeOK'
      BY <3>1 DEF TypeOK, CheckState
    <3> QED BY <3>1, <3>2 DEF MessagesStamped, MarkExcused
  <2> QED BY <2>1, <2>2
<1>6. ASSUME MarkOffline \/ FailCheck PROVE HealthInv'
  <2>1. check' \in CheckState /\ check'.pc # "update"
    BY <1>6, NextKeyType DEF MarkOffline, FailCheck, IdleCheck, CheckState, TypeOK
  <2>2. TypeOK'
    BY <1>6, <2>1 DEF MarkOffline, FailCheck, TypeOK, CheckState
  <2>3. MessagesStamped' /\ MarkExcused'
    BY <1>6, <2>1 DEF MarkOffline, FailCheck, MessagesStamped, MarkExcused
  <2> QED BY <2>2, <2>3
<1>7. CASE UNCHANGED vars
  BY <1>7 DEF vars, TypeOK, MessagesStamped, MarkExcused, Excuse, Stale, Age
<1> QED BY <1>1, <1>2, <1>3, <1>4, <1>5, <1>6, <1>7 DEF Next, CheckStep

\* The health check keeps its types: a cached reading never outlives its TTL.
\* (telemetry.scheduler.ts:147-190, redis.service.ts:18-26)
THEOREM TypeCorrect == Spec => []TypeOK
<1>1. HealthInv => TypeOK
  BY DEF HealthInv
<1> QED BY HealthInit, HealthStep, <1>1, PTL DEF Spec

\* Whatever the threshold, the TTL, the period and the clocks of the devices: only
\* a device whose cached reading is older than the threshold is marked offline,
\* or one whose reading was until the message that just replaced it.
\* (telemetry.scheduler.ts:165-185)
THEOREM OfflineAlwaysJustified == Spec => OfflineIsJustified
<1>1. HealthInv /\ [Next]_vars =>
        [\A d \in online \ online' :
           \/ Stale(last[d])
           \/ last[d] # Null /\ last[d].age = 0]_vars
  <2> SUFFICES ASSUME HealthInv, Next, NEW d \in online \ online' PROVE Excuse(d)
    BY DEF Excuse
  <2>1. CASE MarkOffline
    <3>1. d = check.dev
      BY <2>1 DEF MarkOffline
    <3> QED BY <2>1, <3>1 DEF MarkOffline, HealthInv, MarkExcused
  <2>2. CASE ~MarkOffline
    BY <2>2 DEF Next, CheckStep, TouchDevice, SetTelemetryLast, FailMessage, Tick,
                CheckDevice, FailCheck
  <2> QED BY <2>1, <2>2
<1> QED BY HealthInit, HealthStep, <1>1, PTL DEF Spec, OfflineIsJustified
=============================================================================
