---------------------- MODULE TelemetryPipeline_proofs ----------------------
(***************************************************************************)
(* Theorems about TelemetryPipeline, the flow it implements and the        *)
(* detector, for any devices, samples, processes, limits and bounds.       *)
(***************************************************************************)
EXTENDS PipelineFlow, DetectorRun, SequenceTheorems, FiniteSetTheorems, TLAPS

\* detectAnomaly answers one of the three verdicts.
LEMMA JudgeType ==
  ASSUME NEW msg, NEW base
  PROVE  Judge(msg, base) \in Verdicts
BY DEF Judge, DetectAnomaly, Verdicts

\* Keeping the newest events of a list leaves a list of the same kind.
LEMMA TrimmedType ==
  ASSUME NEW S, NEW s \in Seq(S)
  PROVE  Trimmed(s) \in Seq(S)
<1>1. CASE Len(s) > BufferCap
  <2>1. 1 \in 1..Len(s) + 1 /\ BufferCap \in 0..Len(s)
    BY <1>1, PipelineAssumption
  <2>2. SubSeq(s, 1, BufferCap) \in Seq(S)
    BY <2>1, SubSeqProperties, PipelineAssumption
  <2> QED BY <1>1, <2>2 DEF Trimmed
<1>2. CASE ~(Len(s) > BufferCap)
  BY <1>2 DEF Trimmed
<1> QED BY <1>1, <1>2

-----------------------------------------------------------------------------
(* Type correctness *)

LEMMA IdleTypes == IdleHandler \in HandlerState /\ IdleRun \in RunState
BY DEF IdleHandler, IdleRun, HandlerState, RunState, HandlerPcs, RunPcs

LEMMA NextDeviceType ==
  ASSUME NEW todo \in SUBSET Devices
  PROVE  NextDevice(todo) \in RunState
BY IdleTypes DEF NextDevice, IdleRun, RunState, RunPcs

LEMMA TypeInit == Init => TypeOK
<1> SUFFICES ASSUME Init PROVE TypeOK
  OBVIOUS
<1> USE PipelineAssumption DEF Init
<1>1. h \in [Handlers -> HandlerState] /\ r \in [Runs -> RunState]
  BY IdleTypes
<1>2. buffer \in [Devices -> Seq(Reading)]
  OBVIOUS
<1> QED BY <1>1, <1>2 DEF TypeOK

\* The handler's record stays well formed when only its pc moves.
LEMMA GotoType ==
  ASSUME TypeOK, NEW k \in Handlers, NEW pc \in HandlerPcs, Goto(k, pc)
  PROVE  h' \in [Handlers -> HandlerState]
BY DEF TypeOK, Goto, HandlerState

LEMMA DoneType ==
  ASSUME TypeOK, NEW k \in Handlers, Done(k)
  PROVE  h' \in [Handlers -> HandlerState]
BY IdleTypes DEF TypeOK, Done

\* A handler at work holds a reading.
BusyHandlersHoldReadings ==
  \A k \in Handlers : h[k].pc # "idle" => h[k].msg \in Reading

\* A run at work on a device knows it; there is something left while it writes.
RunsKnowTheirDevice ==
  \A j \in Runs :
    /\ r[j].pc \in {"getEvents", "owner", "write", "clear"} => r[j].dev \in Devices
    /\ r[j].pc = "owner" => r[j].last # Null \/ r[j].events # <<>>
    /\ r[j].pc = "write" => r[j].left # <<>>

TypeInv == TypeOK /\ BusyHandlersHoldReadings /\ RunsKnowTheirDevice

LEMMA HandlerStepType ==
  ASSUME TypeInv, NEW k \in Handlers, HandlerStep(k)
  PROVE  TypeInv'
<1> USE DEF TypeInv
<1>r. r' = r /\ RunsKnowTheirDevice'
  BY DEF HandlerStep, LookupDevice, TouchDevice, SetTelemetryLast, GetBaseline, PushEvent,
         TrimBuffer, SetBufferTtl, SetBaseline, SetFirstBaseline, Broadcast, redis,
         RunsKnowTheirDevice
<1>m. h[k].pc # "idle" => h[k].msg \in Reading /\ h[k].msg.dev \in Devices
  BY DEF BusyHandlersHoldReadings, Reading
<1>g. ASSUME NEW pc \in HandlerPcs, Goto(k, pc), h[k].pc # "idle"
      PROVE  BusyHandlersHoldReadings'
  BY <1>g DEF BusyHandlersHoldReadings, Goto, TypeOK, HandlerState
<1>d. ASSUME Done(k) PROVE BusyHandlersHoldReadings'
  BY <1>d DEF BusyHandlersHoldReadings, Done, TypeOK, IdleHandler
<1>1. CASE LookupDevice(k)
  <2>1. h' \in [Handlers -> HandlerState]
    BY <1>1, GotoType, DoneType DEF LookupDevice, HandlerPcs
  <2>2. BusyHandlersHoldReadings'
    BY <1>1, <1>g, <1>d DEF LookupDevice, HandlerPcs
  <2> QED BY <1>1, <1>r, <2>1, <2>2 DEF TypeOK, LookupDevice, rows, redis
<1>2. CASE TouchDevice(k)
  <2>1. h' \in [Handlers -> HandlerState] /\ BusyHandlersHoldReadings'
    BY <1>2, <1>g, GotoType DEF TouchDevice, HandlerPcs
  <2> QED BY <1>2, <1>r, <1>m, <2>1 DEF TypeOK, TouchDevice, rows, redis
<1>3. CASE SetTelemetryLast(k)
  <2>1. h' \in [Handlers -> HandlerState] /\ BusyHandlersHoldReadings'
    BY <1>3, <1>g, GotoType DEF SetTelemetryLast, HandlerPcs
  <2> QED BY <1>3, <1>r, <1>m, <2>1 DEF TypeOK, SetTelemetryLast, rows, redis
<1>4. CASE GetBaseline(k)
  <2> DEFINE v == Judge(h[k].msg, baseline[h[k].msg.dev])
  <2>1. v \in Verdicts
    BY JudgeType
  <2>2. h' = [h EXCEPT ![k].pc = IF v = "NONE" THEN "setBaseline" ELSE "push",
                       ![k].msg.anomaly_type = v,
                       ![k].noBase = (baseline[h[k].msg.dev] = Null)]
    BY <1>4 DEF GetBaseline
  <2>3. [h[k].msg EXCEPT !.anomaly_type = v] \in Reading
    BY <1>4, <1>m, <2>1 DEF GetBaseline, Reading
  <2> HIDE DEF v
  <2>4. h'[k] = [pc |-> IF v = "NONE" THEN "setBaseline" ELSE "push",
                 msg |-> [h[k].msg EXCEPT !.anomaly_type = v],
                 noBase |-> (baseline[h[k].msg.dev] = Null)]
    BY <2>2 DEF TypeOK, HandlerState
  <2>5. h'[k] \in HandlerState
    BY <2>3, <2>4 DEF HandlerState, HandlerPcs
  <2>6. h' = [h EXCEPT ![k] = h'[k]]
    BY <2>2 DEF TypeOK
  <2>7. h' \in [Handlers -> HandlerState]
    BY <2>5, <2>6 DEF TypeOK
  <2>8. BusyHandlersHoldReadings'
    <3>1. h'[k].msg \in Reading
      BY <2>3, <2>4
    <3>2. ASSUME NEW n \in Handlers, n # k PROVE h'[n] = h[n]
      BY <2>2, <3>2 DEF TypeOK
    <3> QED BY <3>1, <3>2 DEF BusyHandlersHoldReadings
  <2> QED BY <1>4, <1>r, <2>7, <2>8 DEF TypeOK, GetBaseline, rows, redis
<1>5. CASE PushEvent(k)
  <2>1. h' \in [Handlers -> HandlerState] /\ BusyHandlersHoldReadings'
    BY <1>5, <1>g, GotoType DEF PushEvent, HandlerPcs
  <2>2. <<h[k].msg>> \o buffer[h[k].msg.dev] \in Seq(Reading)
    BY <1>5, <1>m, ConcatProperties DEF PushEvent, TypeOK
  <2>3. buffer' \in [Devices -> Seq(Reading)]
    BY <1>5, <2>2 DEF PushEvent, TypeOK
  <2> QED BY <1>5, <1>r, <2>1, <2>3 DEF TypeOK, PushEvent, rows
<1>6. CASE TrimBuffer(k)
  <2>1. h' \in [Handlers -> HandlerState] /\ BusyHandlersHoldReadings'
    BY <1>6, <1>g, GotoType DEF TrimBuffer, HandlerPcs
  <2>2. Trimmed(buffer[h[k].msg.dev]) \in Seq(Reading)
    BY <1>6, <1>m, TrimmedType DEF TrimBuffer, TypeOK
  <2>3. buffer' \in [Devices -> Seq(Reading)]
    BY <1>6, <2>2 DEF TrimBuffer, TypeOK
  <2> QED BY <1>6, <1>r, <2>1, <2>3 DEF TypeOK, TrimBuffer, rows
<1>7. CASE SetBufferTtl(k)
  <2>1. h' \in [Handlers -> HandlerState] /\ BusyHandlersHoldReadings'
    BY <1>7, <1>g, GotoType DEF SetBufferTtl, HandlerPcs, AfterVerdict
  <2> QED BY <1>7, <1>r, <1>m, <2>1 DEF TypeOK, SetBufferTtl, rows
<1>8. CASE SetBaseline(k)
  <2>1. h' \in [Handlers -> HandlerState] /\ BusyHandlersHoldReadings'
    BY <1>8, <1>g, GotoType DEF SetBaseline, HandlerPcs, AfterVerdict
  <2> QED BY <1>8, <1>r, <1>m, <2>1 DEF TypeOK, SetBaseline, StoreBaseline, rows
<1>9. CASE SetFirstBaseline(k)
  <2>1. h' \in [Handlers -> HandlerState] /\ BusyHandlersHoldReadings'
    BY <1>9, <1>g, GotoType DEF SetFirstBaseline, HandlerPcs
  <2> QED BY <1>9, <1>r, <1>m, <2>1 DEF TypeOK, SetFirstBaseline, StoreBaseline, rows
<1>10. CASE Broadcast(k)
  <2>1. h' \in [Handlers -> HandlerState] /\ BusyHandlersHoldReadings'
    BY <1>10, <1>d, DoneType DEF Broadcast
  <2> QED BY <1>10, <1>r, <2>1 DEF TypeOK, Broadcast, rows, redis
<1> QED BY <1>1, <1>2, <1>3, <1>4, <1>5, <1>6, <1>7, <1>8, <1>9, <1>10 DEF HandlerStep

LEMMA RunStepType ==
  ASSUME TypeInv, NEW j \in Runs, StartRun(j) \/ RunStep(j)
  PROVE  TypeInv'
<1> USE DEF TypeInv
<1>h. h' = h /\ BusyHandlersHoldReadings'
  BY DEF RunStep, StartRun, ReadLast, ReadEvents, LookupOwner, WritePoint, RejectPoint, ClearEvents,
         BusyHandlersHoldReadings
<1>t. r[j] \in RunState /\ r[j].todo \in SUBSET Devices
  BY DEF TypeOK, RunState
<1>n. NextDevice(r[j].todo) \in RunState /\ NextDevice(r[j].todo).pc \in {"idle", "getLast"}
  BY <1>t, NextDeviceType DEF NextDevice, IdleRun
\* It is enough to look at the record of the run that moves.
<1>k. ASSUME NEW new \in RunState, r' = [r EXCEPT ![j] = new],
             new.pc \in {"getEvents", "owner", "write", "clear"} => new.dev \in Devices,
             new.pc = "owner" => new.last # Null \/ new.events # <<>>,
             new.pc = "write" => new.left # <<>>
      PROVE  r' \in [Runs -> RunState] /\ RunsKnowTheirDevice'
  <2>1. r' \in [Runs -> RunState] /\ r'[j] = new
    BY <1>k DEF TypeOK
  <2>2. ASSUME NEW m \in Runs, m # j PROVE r'[m] = r[m]
    BY <1>k, <2>2 DEF TypeOK
  <2> QED BY <1>k, <2>1, <2>2 DEF RunsKnowTheirDevice
<1>1. CASE StartRun(j)
  <2> DEFINE new == NextDevice({d \in Devices : last[d] # Null})
  <2>1. new \in RunState /\ new.pc \in {"idle", "getLast"}
    BY NextDeviceType DEF NextDevice, IdleRun
  <2>2. r' = [r EXCEPT ![j] = new]
    BY <1>1 DEF StartRun
  <2> HIDE DEF new
  <2>3. r' \in [Runs -> RunState] /\ RunsKnowTheirDevice'
    BY <1>k, <2>1, <2>2
  <2> QED BY <1>1, <1>h, <2>3 DEF TypeOK, StartRun, rows, redis
<1>2. ASSUME NEW d \in Devices, ReadLast(j, d) PROVE TypeInv'
  <2> DEFINE new == [r[j] EXCEPT !.pc = "getEvents", !.todo = @ \ {d}, !.dev = d,
                                 !.last = last[d]]
  <2>1. new \in RunState /\ new.pc = "getEvents" /\ new.dev \in Devices
    BY <1>t DEF RunState, RunPcs, TypeOK
  <2>2. r' = [r EXCEPT ![j] = new]
    BY <1>2 DEF ReadLast, TypeOK, RunState
  <2> HIDE DEF new
  <2>3. r' \in [Runs -> RunState] /\ RunsKnowTheirDevice'
    BY <1>k, <2>1, <2>2
  <2> QED BY <1>2, <1>h, <2>3 DEF TypeOK, ReadLast, rows, redis
<1>3. CASE ReadEvents(j)
  <2> DEFINE events == buffer[r[j].dev]
             skip   == r[j].last = Null /\ events = <<>>
             new    == IF skip THEN NextDevice(r[j].todo)
                       ELSE [r[j] EXCEPT !.pc = "owner", !.events = events]
  <2>1. r[j].dev \in Devices /\ events \in Seq(Reading)
    BY <1>3 DEF ReadEvents, RunsKnowTheirDevice, TypeOK
  <2>2. r' = [r EXCEPT ![j] = new]
    BY <1>3 DEF ReadEvents, TypeOK
  <2>3. CASE skip
    <3>1. new \in RunState /\ new.pc \in {"idle", "getLast"}
      BY <1>n, <2>3
    <3> HIDE DEF new
    <3> QED BY <1>3, <1>h, <1>k, <2>2, <3>1 DEF TypeOK, ReadEvents, rows, redis
  <2>4. CASE ~skip
    <3>1. new \in RunState /\ new.pc = "owner" /\ new.dev \in Devices
          /\ (new.last # Null \/ new.events # <<>>)
      BY <1>t, <2>1, <2>4 DEF RunState, RunPcs
    <3> HIDE DEF new
    <3> QED BY <1>3, <1>h, <1>k, <2>2, <3>1 DEF TypeOK, ReadEvents, rows, redis
  <2> QED BY <2>3, <2>4
<1>4. CASE LookupOwner(j)
  <2> DEFINE new == IF r[j].dev \in owned
                      THEN [r[j] EXCEPT !.pc = "write", !.left = Readings(r[j])]
                      ELSE NextDevice(r[j].todo)
  <2>1. Readings(r[j]) \in Seq(Reading) /\ Readings(r[j]) # <<>>
    <3>1. r[j].events \in Seq(Reading) /\ r[j].last \in Reading \union {Null}
          /\ (r[j].last # Null \/ r[j].events # <<>>)
      BY <1>4, <1>t DEF RunState, LookupOwner, RunsKnowTheirDevice
    <3>2. CASE r[j].last = Null
      BY <3>1, <3>2, ConcatEmptySeq DEF Readings
    <3>3. CASE r[j].last # Null
      <4>1. <<r[j].last>> \in Seq(Reading) /\ Len(<<r[j].last>>) = 1
        BY <3>1, <3>3
      <4>2. Len(Readings(r[j])) = Len(r[j].events) + 1 /\ Readings(r[j]) \in Seq(Reading)
        BY <3>1, <3>3, <4>1, ConcatProperties DEF Readings
      <4> QED BY <3>1, <4>2, LenProperties, EmptySeq
    <3> QED BY <3>2, <3>3
  <2>2. r' = [r EXCEPT ![j] = new]
    BY <1>4 DEF LookupOwner
  <2>3. /\ new \in RunState
        /\ new.pc \in {"idle", "getLast"} \/ (new.pc = "write" /\ new.left # <<>>)
        /\ new.pc = "write" => new.dev \in Devices
    <3>1. CASE r[j].dev \in owned
      <4>1. new = [r[j] EXCEPT !.pc = "write", !.left = Readings(r[j])]
        BY <3>1
      <4>2. r[j].dev \in Devices
        BY <3>1 DEF TypeOK
      <4> QED BY <1>t, <2>1, <4>1, <4>2 DEF RunState, RunPcs
    <3>2. CASE r[j].dev \notin owned
      BY <1>n, <3>2
    <3> QED BY <3>1, <3>2
  <2> HIDE DEF new
  <2> QED BY <1>4, <1>h, <1>k, <2>2, <2>3 DEF TypeOK, LookupOwner, rows, redis
<1>5. CASE WritePoint(j)
  <2> DEFINE new == [r[j] EXCEPT !.left = Tail(@),
                       !.pc = IF Len(r[j].left) = 1 THEN "clear" ELSE "write"]
  <2>1. r[j].left \in Seq(Reading) /\ r[j].left # <<>> /\ r[j].dev \in Devices
    BY <1>5, <1>t DEF WritePoint, RunState, RunsKnowTheirDevice
  <2>2. /\ Head(r[j].left) \in Reading /\ Tail(r[j].left) \in Seq(Reading)
        /\ Len(Tail(r[j].left)) = Len(r[j].left) - 1
    BY <2>1, HeadTailProperties
  <2>3. Len(r[j].left) # 1 => Tail(r[j].left) # <<>>
    <3> DEFINE t == Tail(r[j].left)
    <3>1. t = <<>> => Len(t) = 0
      BY EmptySeq
    <3>2. Len(t) = Len(r[j].left) - 1 /\ Len(r[j].left) \in Nat
      BY <2>1, <2>2, LenProperties
    <3> HIDE DEF t
    <3>3. Len(r[j].left) # 1 => t # <<>>
      BY <3>1, <3>2
    <3> QED BY <3>3 DEF t
  <2>4. /\ new \in RunState /\ new.dev \in Devices
        /\ new.pc = "clear" \/ (new.pc = "write" /\ new.left # <<>>)
    BY <1>t, <2>1, <2>2, <2>3 DEF RunState, RunPcs
  <2>5. r' = [r EXCEPT ![j] = new]
    BY <1>5 DEF WritePoint, TypeOK, RunState
  <2> HIDE DEF new
  <2> QED BY <1>5, <1>h, <1>k, <2>2, <2>4, <2>5 DEF TypeOK, WritePoint, rows, redis
<1>6. CASE ClearEvents(j)
  <2> DEFINE new == NextDevice(r[j].todo)
  <2>1. r' = [r EXCEPT ![j] = new]
    BY <1>6 DEF ClearEvents
  <2>2. new \in RunState /\ new.pc \in {"idle", "getLast"}
    BY <1>n
  <2> HIDE DEF new
  <2>e. <<>> \in Seq(Reading)
    BY EmptySeq
  <2>3. buffer' \in [Devices -> Seq(Reading)] /\ bufferTtl' \in [Devices -> BOOLEAN]
    BY <1>6, <2>e DEF ClearEvents, TypeOK
  <2> QED BY <1>6, <1>h, <1>k, <2>1, <2>2, <2>3 DEF TypeOK, ClearEvents, rows
<1>7. CASE RejectPoint(j)
  <2>1. r' = [r EXCEPT ![j] = IdleRun] /\ IdleRun \in RunState /\ IdleRun.pc = "idle"
    BY <1>7, IdleTypes DEF RejectPoint, IdleRun
  <2> QED BY <1>7, <1>h, <1>k, <2>1 DEF TypeOK, RejectPoint, rows, redis
<1> QED BY <1>1, <1>2, <1>3, <1>4, <1>5, <1>6, <1>7 DEF RunStep

LEMMA EnvironmentType ==
  ASSUME TypeInv, Environment
  PROVE  TypeInv'
<1> USE DEF TypeInv
<1>1. ASSUME NEW k \in Handlers, NEW d \in Devices, NEW s \in Samples, Receive(k, d, s)
      PROVE  TypeInv'
  <2> DEFINE new == [pc |-> "lookup", noBase |-> FALSE,
                     msg |-> [id |-> received + 1, dev |-> d, electricas |-> s.electricas,
                              dated |-> s.dated, anomaly_type |-> "NONE"]]
  <2>1. received + 1 \in 1..MaxMsgs
    BY <1>1, PipelineAssumption DEF Receive, TypeOK
  <2>2. new.msg \in Reading
    BY <2>1, PipelineAssumption DEF Reading, Verdicts
  <2>3. new \in HandlerState
    BY <2>2 DEF HandlerState, HandlerPcs
  <2>4. h' = [h EXCEPT ![k] = new]
    BY <1>1 DEF Receive
  <2> HIDE DEF new
  <2>5. h' \in [Handlers -> HandlerState] /\ h'[k] = new
    BY <2>3, <2>4 DEF TypeOK
  <2>6. ASSUME NEW n \in Handlers, n # k PROVE h'[n] = h[n]
    BY <2>4, <2>6 DEF TypeOK
  <2>7. BusyHandlersHoldReadings'
    BY <2>2, <2>5, <2>6 DEF BusyHandlersHoldReadings
  <2>8. received' \in 0..MaxMsgs
    BY <1>1, <2>1 DEF Receive
  <2> QED BY <1>1, <2>5, <2>7, <2>8 DEF Receive, TypeOK, RunsKnowTheirDevice, rows, redis
<1>2. ASSUME NEW d \in Devices, ExpireLast(d) \/ ExpireBaseline(d) \/ ExpireBuffer(d)
      PROVE  TypeInv'
  <2>1. /\ last' \in [Devices -> Reading \union {Null}]
        /\ baseline' \in [Devices -> Reading \union {Null}]
        /\ buffer' \in [Devices -> Seq(Reading)]
        /\ bufferTtl' \in [Devices -> BOOLEAN]
    <3>1. CASE ExpireLast(d)
      BY <3>1 DEF ExpireLast, TypeOK
    <3>2. CASE ExpireBaseline(d)
      BY <3>2 DEF ExpireBaseline, TypeOK
    <3>3. CASE ExpireBuffer(d)
      <4>1. <<>> \in Seq(Reading)
        BY EmptySeq
      <4> QED BY <3>3, <4>1 DEF ExpireBuffer, TypeOK
    <3> QED BY <1>2, <3>1, <3>2, <3>3
  <2> QED BY <1>2, <2>1 DEF ExpireLast, ExpireBaseline, ExpireBuffer, TypeOK,
             BusyHandlersHoldReadings, RunsKnowTheirDevice, rows
<1>3. ASSUME NEW K, Fault(K) PROVE TypeInv'
  <2>1. h' \in [Handlers -> HandlerState] /\ r' \in [Runs -> RunState]
    BY <1>3, IdleTypes DEF Fault, TypeOK
  <2>2. BusyHandlersHoldReadings'
    BY <1>3 DEF Fault, BusyHandlersHoldReadings, IdleHandler
  <2>3. RunsKnowTheirDevice'
    <3> SUFFICES ASSUME NEW j \in Runs, r'[j] # r[j]
                 PROVE  r'[j].pc = "idle"
      BY DEF RunsKnowTheirDevice
    <3> QED BY <1>3 DEF Fault, IdleRun
  <2>4. faults' \in 0..MaxFaults
    BY <1>3, PipelineAssumption DEF Fault, TypeOK
  <2> QED BY <1>3, <2>1, <2>2, <2>3, <2>4 DEF Fault, TypeOK, rows, redis
<1> QED BY <1>1, <1>2, <1>3 DEF Environment

LEMMA TypeStep == TypeInv /\ [Next]_vars => TypeInv'
<1> SUFFICES ASSUME TypeInv, [Next]_vars PROVE TypeInv'
  OBVIOUS
<1>1. ASSUME NEW k \in Handlers, HandlerStep(k) PROVE TypeInv'
  BY <1>1, HandlerStepType
<1>2. ASSUME NEW j \in Runs, StartRun(j) \/ RunStep(j) PROVE TypeInv'
  BY <1>2, RunStepType
<1>3. CASE Environment
  BY <1>3, EnvironmentType
<1>4. CASE UNCHANGED vars
  BY <1>4 DEF vars, TypeInv, TypeOK, BusyHandlersHoldReadings, RunsKnowTheirDevice
<1> QED BY <1>1, <1>2, <1>3, <1>4 DEF Next

\* The strengthened type invariant holds in every reachable state.
LEMMA TypeInvariant == Spec => []TypeInv
<1>1. Init => TypeInv
  BY TypeInit DEF Init, TypeInv, BusyHandlersHoldReadings, RunsKnowTheirDevice,
                  IdleHandler, IdleRun
<1> QED BY <1>1, TypeStep, PTL DEF Spec

\* Every variable has its type in every reachable state: the handlers, runs and
\* Redis keys of mqtt.service.ts, telemetry-redis.service.ts and
\* telemetry.scheduler.ts.
THEOREM TypeCorrect == Spec => []TypeOK
<1>1. TypeInv => TypeOK
  BY DEF TypeInv
<1> QED BY <1>1, TypeInvariant, PTL
-----------------------------------------------------------------------------
(* A critical reading never becomes the baseline *)

\* A handler that is to store its reading judged it quiet; so did one that found
\* no baseline, whatever it does next.
QuietReadingsAreStored ==
  \A k \in Handlers :
    /\ h[k].pc = "setBaseline" \/ h[k].noBase => h[k].msg.anomaly_type = "NONE"
    /\ h[k].pc = "setFirst" => h[k].noBase

BaselineInv == BaselineNeverCritical /\ QuietReadingsAreStored

LEMMA BaselineHandlerStep ==
  ASSUME TypeInv, BaselineInv, NEW k \in Handlers, HandlerStep(k)
  PROVE  BaselineInv'
<1> USE DEF TypeInv, BaselineInv
<1>t. h \in [Handlers -> HandlerState] /\ (h[k].pc # "idle" => h[k].msg.dev \in Devices)
  BY DEF TypeOK, BusyHandlersHoldReadings, Reading
\* A step that only moves the pc, not to a store the reading is not fit for.
<1>g. ASSUME NEW pc \in HandlerPcs \ {"setBaseline"}, Goto(k, pc),
             pc = "setFirst" => h[k].noBase
      PROVE  QuietReadingsAreStored'
  <2>1. h'[k].pc = pc /\ h'[k].msg = h[k].msg /\ h'[k].noBase = h[k].noBase
    BY <1>g, <1>t DEF Goto, HandlerState
  <2>2. ASSUME NEW n \in Handlers, n # k PROVE h'[n] = h[n]
    BY <1>g, <1>t, <2>2 DEF Goto
  <2> QED BY <1>g, <2>1, <2>2 DEF QuietReadingsAreStored
<1>d. ASSUME Done(k) PROVE QuietReadingsAreStored'
  <2>1. h'[k] = IdleHandler
    BY <1>d, <1>t DEF Done
  <2>2. ASSUME NEW n \in Handlers, n # k PROVE h'[n] = h[n]
    BY <1>d, <1>t, <2>2 DEF Done
  <2> QED BY <2>1, <2>2 DEF QuietReadingsAreStored, IdleHandler
<1>1. CASE LookupDevice(k)
  BY <1>1, <1>g, <1>d DEF LookupDevice, HandlerPcs, redis, BaselineNeverCritical
<1>2. CASE TouchDevice(k)
  BY <1>2, <1>g DEF TouchDevice, HandlerPcs, redis, BaselineNeverCritical
<1>3. CASE SetTelemetryLast(k)
  BY <1>3, <1>g DEF SetTelemetryLast, HandlerPcs, BaselineNeverCritical
<1>4. CASE GetBaseline(k)
  <2> DEFINE base == baseline[h[k].msg.dev]
             v    == Judge(h[k].msg, base)
  <2>1. base = Null => v = "NONE"
    BY DEF Judge
  <2>2. h' = [h EXCEPT ![k].pc = IF v = "NONE" THEN "setBaseline" ELSE "push",
                       ![k].msg.anomaly_type = v,
                       ![k].noBase = (base = Null)]
    BY <1>4 DEF GetBaseline
  <2>m. h[k].msg \in Reading
    BY <1>4 DEF GetBaseline, BusyHandlersHoldReadings
  <2> HIDE DEF v, base
  <2>3. /\ h'[k].pc = IF v = "NONE" THEN "setBaseline" ELSE "push"
        /\ h'[k].noBase = (base = Null)
        /\ h'[k].msg = [h[k].msg EXCEPT !.anomaly_type = v]
    BY <1>t, <2>2 DEF HandlerState
  <2>4. h'[k].msg.anomaly_type = v
    BY <2>3, <2>m DEF Reading
  <2>5. ASSUME NEW n \in Handlers, n # k PROVE h'[n] = h[n]
    BY <1>t, <2>2, <2>5
  <2>6. /\ h'[k].pc = "setBaseline" \/ h'[k].noBase => h'[k].msg.anomaly_type = "NONE"
        /\ h'[k].pc # "setFirst"
    BY <2>1, <2>3, <2>4
  <2>7. QuietReadingsAreStored'
    BY <2>5, <2>6 DEF QuietReadingsAreStored
  <2> QED BY <1>4, <2>7 DEF GetBaseline, redis, BaselineNeverCritical
<1>5. CASE PushEvent(k)
  BY <1>5, <1>g DEF PushEvent, HandlerPcs, BaselineNeverCritical
<1>6. CASE TrimBuffer(k)
  BY <1>6, <1>g DEF TrimBuffer, HandlerPcs, BaselineNeverCritical
<1>7. CASE SetBufferTtl(k)
  BY <1>7, <1>g DEF SetBufferTtl, AfterVerdict, HandlerPcs, BaselineNeverCritical
<1>s. ASSUME StoreBaseline(k), h[k].pc # "idle", h[k].msg.anomaly_type = "NONE"
      PROVE  BaselineNeverCritical'
  BY <1>s, <1>t DEF StoreBaseline, BaselineNeverCritical, TypeOK
<1>8. CASE SetBaseline(k)
  <2>1. h[k].msg.anomaly_type = "NONE"
    BY <1>8 DEF SetBaseline, QuietReadingsAreStored
  <2> QED BY <1>8, <1>g, <1>s, <2>1 DEF SetBaseline, AfterVerdict, HandlerPcs
<1>9. CASE SetFirstBaseline(k)
  <2>1. h[k].msg.anomaly_type = "NONE"
    BY <1>9 DEF SetFirstBaseline, QuietReadingsAreStored
  <2> QED BY <1>9, <1>g, <1>s, <2>1 DEF SetFirstBaseline, HandlerPcs
<1>10. CASE Broadcast(k)
  BY <1>10, <1>d DEF Broadcast, redis, BaselineNeverCritical
<1> QED BY <1>1, <1>2, <1>3, <1>4, <1>5, <1>6, <1>7, <1>8, <1>9, <1>10 DEF HandlerStep

LEMMA BaselineStep == TypeInv /\ BaselineInv /\ [Next]_vars => BaselineInv'
<1> SUFFICES ASSUME TypeInv, BaselineInv, [Next]_vars PROVE BaselineInv'
  OBVIOUS
<1> USE DEF BaselineInv
<1>1. ASSUME NEW k \in Handlers, HandlerStep(k) PROVE BaselineInv'
  BY <1>1, BaselineHandlerStep
<1>2. ASSUME NEW j \in Runs, StartRun(j) \/ RunStep(j) PROVE BaselineInv'
  BY <1>2 DEF StartRun, RunStep, ReadLast, ReadEvents, LookupOwner, WritePoint, RejectPoint, ClearEvents,
              redis, BaselineNeverCritical, QuietReadingsAreStored
<1>3. ASSUME NEW k \in Handlers, NEW d \in Devices, NEW s \in Samples, Receive(k, d, s)
      PROVE  BaselineInv'
  <2>1. /\ h'[k].pc = "lookup" /\ h'[k].noBase = FALSE
        /\ \A n \in Handlers : n # k => h'[n] = h[n]
    BY <1>3 DEF Receive, TypeInv, TypeOK
  <2>2. QuietReadingsAreStored'
    BY <2>1 DEF QuietReadingsAreStored
  <2> QED BY <1>3, <2>2 DEF Receive, redis, BaselineNeverCritical
<1>4. ASSUME NEW d \in Devices, ExpireLast(d) \/ ExpireBaseline(d) \/ ExpireBuffer(d)
      PROVE  BaselineInv'
  BY <1>4 DEF ExpireLast, ExpireBaseline, ExpireBuffer, TypeInv, TypeOK,
              BaselineNeverCritical, QuietReadingsAreStored
<1>5. ASSUME NEW K, Fault(K) PROVE BaselineInv'
  BY <1>5 DEF Fault, IdleHandler, redis, BaselineNeverCritical, QuietReadingsAreStored
<1>6. CASE UNCHANGED vars
  BY <1>6 DEF vars, BaselineNeverCritical, QuietReadingsAreStored
<1> QED BY <1>1, <1>2, <1>3, <1>4, <1>5, <1>6 DEF Next, Environment

\* The reading a baseline holds was judged quiet, for any number of concurrent
\* handlers, expiries and faults.  (mqtt.service.ts:178-192)
THEOREM BaselineSafe == Spec => []BaselineNeverCritical
<1>1. Init => BaselineInv
  BY DEF Init, BaselineInv, BaselineNeverCritical, QuietReadingsAreStored, IdleHandler
<1>2. BaselineInv => BaselineNeverCritical
  BY DEF BaselineInv
<1> QED BY <1>1, <1>2, BaselineStep, TypeInvariant, PTL DEF Spec
-----------------------------------------------------------------------------
(* Where the events of the buffer go *)

\* While a run writes, each event it read is in InfluxDB or still to be written;
\* when it is about to delete the list, all of them are in InfluxDB.
SnapshotsAccounted ==
  \A j \in Runs : \A e \in Reading : Occurs(e, r[j].events) =>
    /\ r[j].pc = "write" => e \in influx \/ Occurs(e, r[j].left)
    /\ r[j].pc = "clear" => e \in influx

LEMMA SnapshotRunStep ==
  ASSUME TypeInv, SnapshotsAccounted, NEW j \in Runs, RunStep(j)
  PROVE  SnapshotsAccounted'
<1> USE DEF TypeInv
<1>t. r \in [Runs -> RunState]
  BY DEF TypeOK
<1>i. influx \subseteq influx'
  BY DEF RunStep, ReadLast, ReadEvents, LookupOwner, WritePoint, RejectPoint, ClearEvents
\* Only the run that moves has to be looked at, and only when it may write.
<1>k. ASSUME \A m \in Runs : m # j => r'[m] = r[m],
             \A e \in Reading : Occurs(e, r'[j].events) =>
                /\ r'[j].pc = "write" => e \in influx' \/ Occurs(e, r'[j].left)
                /\ r'[j].pc = "clear" => e \in influx'
      PROVE  SnapshotsAccounted'
  BY <1>k, <1>i DEF SnapshotsAccounted, Occurs
<1>1. ASSUME NEW d \in Devices, ReadLast(j, d) PROVE SnapshotsAccounted'
  <2>1. r'[j].pc = "getEvents" /\ \A m \in Runs : m # j => r'[m] = r[m]
    BY <1>1, <1>t DEF ReadLast, RunState
  <2> QED BY <1>k, <2>1
<1>2. CASE ReadEvents(j)
  <2>1. r'[j].pc \in {"idle", "getLast", "owner"} /\ \A m \in Runs : m # j => r'[m] = r[m]
    BY <1>2, <1>t DEF ReadEvents, RunState, NextDevice, IdleRun
  <2> QED BY <1>k, <2>1
<1>3. CASE LookupOwner(j)
  <2>1. \A m \in Runs : m # j => r'[m] = r[m]
    BY <1>3, <1>t DEF LookupOwner
  <2>2. CASE r[j].dev \notin owned
    <3>1. r'[j].pc \in {"idle", "getLast"}
      BY <1>3, <1>t, <2>2 DEF LookupOwner, NextDevice, IdleRun
    <3> QED BY <1>k, <2>1, <3>1
  <2>3. CASE r[j].dev \in owned
    <3> DEFINE tail == IF r[j].last = Null THEN <<>> ELSE <<r[j].last>>
    <3>1. r'[j] = [r[j] EXCEPT !.pc = "write", !.left = Readings(r[j])]
      BY <1>3, <1>t, <2>3 DEF LookupOwner
    <3>2. r'[j].pc = "write" /\ r'[j].events = r[j].events /\ r'[j].left = r[j].events \o tail
      BY <1>t, <3>1 DEF RunState, Readings
    <3>3. r[j].events \in Seq(Reading) /\ tail \in Seq(Reading)
      BY <1>t, EmptySeq DEF RunState
    <3> HIDE DEF tail
    <3>4. ASSUME NEW e \in Reading, Occurs(e, r[j].events)
          PROVE  Occurs(e, r[j].events \o tail)
      <4>1. PICK n \in 1..Len(r[j].events) : r[j].events[n] = e
        BY <3>4 DEF Occurs
      <4>2. n \in 1..Len(r[j].events \o tail) /\ (r[j].events \o tail)[n] = e
        BY <3>3, <4>1, ConcatProperties, LenProperties
      <4> QED BY <4>2 DEF Occurs
    <3> QED BY <1>k, <2>1, <3>2, <3>4
  <2> QED BY <2>2, <2>3
<1>4. CASE WritePoint(j)
  <2> DEFINE left == r[j].left
  <2>1. left \in Seq(Reading) /\ left # <<>> /\ r[j].pc = "write"
    BY <1>4, <1>t DEF WritePoint, RunState, RunsKnowTheirDevice
  <2>2. /\ \A m \in Runs : m # j => r'[m] = r[m]
        /\ r'[j].events = r[j].events /\ r'[j].left = Tail(left)
        /\ r'[j].pc = IF Len(left) = 1 THEN "clear" ELSE "write"
    BY <1>4, <1>t DEF WritePoint, RunState
  <2>3. influx' = influx \union {Head(left)}
    BY <1>4 DEF WritePoint
  <2> HIDE DEF left
  <2>4. /\ Len(left) \in Nat \ {0} /\ Head(left) = left[1] /\ Len(Tail(left)) = Len(left) - 1
        /\ \A n \in 1..Len(Tail(left)) : Tail(left)[n] = left[n + 1]
    BY <2>1, HeadTailProperties, EmptySeq, LenProperties
  <2>5. ASSUME NEW e \in Reading, Occurs(e, r[j].events)
        PROVE  e \in influx' \/ (Occurs(e, Tail(left)) /\ Len(left) # 1)
    <3>1. CASE e \in influx
      BY <2>3, <3>1
    <3>2. CASE Occurs(e, left)
      <4>1. PICK n \in 1..Len(left) : left[n] = e
        BY <3>2 DEF Occurs
      <4>2. CASE n = 1
        BY <2>3, <2>4, <4>1, <4>2
      <4>3. CASE n # 1
        <5>1. n - 1 \in 1..Len(Tail(left)) /\ Tail(left)[n - 1] = e /\ Len(left) # 1
          BY <2>4, <4>1, <4>3
        <5> QED BY <5>1 DEF Occurs
      <4> QED BY <4>2, <4>3
    <3> QED BY <2>1, <2>5, <3>1, <3>2 DEF SnapshotsAccounted, left
  <2> QED BY <1>k, <2>2, <2>5
<1>5. CASE ClearEvents(j)
  <2>1. r'[j].pc \in {"idle", "getLast"} /\ \A m \in Runs : m # j => r'[m] = r[m]
    BY <1>5, <1>t DEF ClearEvents, NextDevice, IdleRun
  <2> QED BY <1>k, <2>1
<1>6. CASE RejectPoint(j)
  <2>1. r'[j].pc = "idle" /\ \A m \in Runs : m # j => r'[m] = r[m]
    BY <1>6, <1>t DEF RejectPoint, IdleRun
  <2> QED BY <1>k, <2>1
<1> QED BY <1>1, <1>2, <1>3, <1>4, <1>5, <1>6 DEF RunStep

LEMMA SnapshotStep == TypeInv /\ SnapshotsAccounted /\ [Next]_vars => SnapshotsAccounted'
<1> SUFFICES ASSUME TypeInv, SnapshotsAccounted, [Next]_vars PROVE SnapshotsAccounted'
  OBVIOUS
<1>1. ASSUME NEW k \in Handlers, HandlerStep(k) PROVE SnapshotsAccounted'
  BY <1>1 DEF HandlerStep, LookupDevice, TouchDevice, SetTelemetryLast, GetBaseline, PushEvent,
              TrimBuffer, SetBufferTtl, SetBaseline, SetFirstBaseline, Broadcast,
              SnapshotsAccounted
<1>2. ASSUME NEW j \in Runs, StartRun(j) PROVE SnapshotsAccounted'
  <2>1. /\ r'[j].pc \in {"idle", "getLast"} /\ influx' = influx
        /\ \A m \in Runs : m # j => r'[m] = r[m]
    BY <1>2 DEF StartRun, NextDevice, IdleRun, TypeInv, TypeOK
  <2> QED BY <2>1 DEF SnapshotsAccounted
<1>3. ASSUME NEW j \in Runs, RunStep(j) PROVE SnapshotsAccounted'
  BY <1>3, SnapshotRunStep
<1>4. ASSUME NEW k \in Handlers, NEW d \in Devices, NEW s \in Samples, Receive(k, d, s)
      PROVE  SnapshotsAccounted'
  BY <1>4 DEF Receive, SnapshotsAccounted
<1>5. ASSUME NEW d \in Devices, ExpireLast(d) \/ ExpireBaseline(d) \/ ExpireBuffer(d)
      PROVE  SnapshotsAccounted'
  BY <1>5 DEF ExpireLast, ExpireBaseline, ExpireBuffer, SnapshotsAccounted
<1>6. ASSUME NEW K, Fault(K) PROVE SnapshotsAccounted'
  BY <1>6 DEF Fault, IdleRun, SnapshotsAccounted
<1>7. CASE UNCHANGED vars
  BY <1>7 DEF vars, SnapshotsAccounted
<1> QED BY <1>1, <1>2, <1>3, <1>4, <1>5, <1>6, <1>7 DEF Next, Environment

\* What a run has read and not yet deleted is in InfluxDB or about to be written.
THEOREM SnapshotsSafe == Spec => []SnapshotsAccounted
<1>1. Init => SnapshotsAccounted
  BY DEF Init, IdleRun, SnapshotsAccounted
<1> QED BY <1>1, SnapshotStep, TypeInvariant, PTL DEF Spec

\* No event is lost when the list of its device stays or grows in front.
LEMMA KeptEvents ==
  ASSUME TypeOK, NEW d \in Devices, NEW s \in Seq(Reading), buffer'[d] = s \o buffer[d]
  PROVE  AccountedLoss(d)
<1> SUFFICES ASSUME NEW k \in 1..Len(buffer[d]) PROVE Occurs(buffer[d][k], buffer'[d])
  BY DEF AccountedLoss
<1> DEFINE n == Len(s) + k
<1>1. buffer[d] \in Seq(Reading)
  BY DEF TypeOK
<1>2. n \in 1..Len(s \o buffer[d]) /\ (s \o buffer[d])[n] = buffer[d][k]
  BY <1>1, ConcatProperties, LenProperties
<1> QED BY <1>2 DEF Occurs

LEMMA UntouchedEvents ==
  ASSUME TypeOK, NEW d \in Devices, buffer'[d] = buffer[d]
  PROVE  AccountedLoss(d)
BY DEF AccountedLoss, Occurs, TypeOK

LEMMA LossStep ==
  ASSUME TypeInv, SnapshotsAccounted, [Next]_vars, NEW d \in Devices
  PROVE  AccountedLoss(d)
<1>t. TypeOK /\ buffer \in [Devices -> Seq(Reading)]
  BY DEF TypeInv, TypeOK
\* The steps that leave the buffers alone.
<1>1. ASSUME buffer' = buffer PROVE AccountedLoss(d)
  BY <1>1, <1>t, UntouchedEvents
<1>2. ASSUME NEW i \in Handlers, PushEvent(i) PROVE AccountedLoss(d)
  <2>1. h[i].msg \in Reading
    BY <1>2 DEF TypeInv, BusyHandlersHoldReadings, PushEvent
  <2>2. CASE h[i].msg.dev = d
    <3>1. buffer'[d] = <<h[i].msg>> \o buffer[d]
      BY <1>2, <1>t, <2>2 DEF PushEvent
    <3>2. <<h[i].msg>> \in Seq(Reading)
      BY <2>1
    <3> QED BY <1>t, <3>1, <3>2, KeptEvents
  <2>3. CASE h[i].msg.dev # d
    <3>1. buffer'[d] = buffer[d]
      BY <1>2, <1>t, <2>3 DEF PushEvent
    <3> QED BY <1>t, <3>1, UntouchedEvents
  <2> QED BY <2>2, <2>3
<1>3. ASSUME NEW i \in Handlers, TrimBuffer(i) PROVE AccountedLoss(d)
  <2>1. buffer'[d] = Trimmed(buffer[d]) \/ buffer'[d] = buffer[d]
    BY <1>3, <1>t DEF TrimBuffer
  <2>2. CASE buffer'[d] = buffer[d]
    BY <1>t, <2>2, UntouchedEvents
  <2>3. CASE buffer'[d] = Trimmed(buffer[d])
    <3>1. SUFFICES ASSUME NEW k \in 1..Len(buffer[d]), k =< BufferCap
                   PROVE  Occurs(buffer[d][k], buffer'[d])
      BY <1>3, <1>t, PipelineAssumption DEF AccountedLoss
    <3>2. CASE Len(buffer[d]) =< BufferCap
      BY <1>t, <2>3, <3>2, PipelineAssumption DEF Trimmed, Occurs
    <3>3. CASE Len(buffer[d]) > BufferCap
      <4>1. 1 \in 1..Len(buffer[d]) + 1 /\ BufferCap \in 0..Len(buffer[d])
        BY <3>3, <1>t, PipelineAssumption
      <4>2. /\ Len(SubSeq(buffer[d], 1, BufferCap)) = BufferCap
            /\ SubSeq(buffer[d], 1, BufferCap)[k] = buffer[d][k]
        BY <1>t, <3>1, <4>1, SubSeqProperties, PipelineAssumption
      <4>3. buffer'[d] = SubSeq(buffer[d], 1, BufferCap) /\ k \in 1..BufferCap
        BY <2>3, <3>1, <3>3, PipelineAssumption DEF Trimmed
      <4> QED BY <4>2, <4>3 DEF Occurs
    <3> QED BY <1>t, <3>2, <3>3, PipelineAssumption
  <2> QED BY <2>1, <2>2, <2>3
\* The deletion by a run: what it had read is in InfluxDB by then.
<1>4. ASSUME NEW j \in Runs, ClearEvents(j) PROVE AccountedLoss(d)
  <2>1. CASE r[j].dev # d
    <3>1. buffer'[d] = buffer[d]
      BY <1>4, <1>t, <2>1 DEF ClearEvents
    <3> QED BY <1>t, <3>1, UntouchedEvents
  <2>2. CASE r[j].dev = d
    <3>1. \A e \in Reading : Occurs(e, r[j].events) => e \in influx
      BY <1>4 DEF ClearEvents, SnapshotsAccounted
    <3>2. \A k \in 1..Len(buffer[d]) : buffer[d][k] \in Reading
      BY <1>t
    <3> QED BY <1>4, <2>2, <3>1, <3>2 DEF AccountedLoss
  <2> QED BY <2>1, <2>2
<1>5. ASSUME NEW c \in Devices, ExpireBuffer(c) PROVE AccountedLoss(d)
  <2>1. CASE c = d
    BY <1>5, <2>1 DEF AccountedLoss
  <2>2. CASE c # d
    <3>1. buffer'[d] = buffer[d]
      BY <1>5, <1>t, <2>2 DEF ExpireBuffer
    <3> QED BY <1>t, <3>1, UntouchedEvents
  <2> QED BY <2>1, <2>2
<1>6. \/ buffer' = buffer
      \/ \E i \in Handlers : PushEvent(i) \/ TrimBuffer(i)
      \/ \E j \in Runs : ClearEvents(j)
      \/ \E c \in Devices : ExpireBuffer(c)
  <2>1. ASSUME NEW i \in Handlers, HandlerStep(i)
        PROVE  buffer' = buffer \/ PushEvent(i) \/ TrimBuffer(i)
    BY <2>1 DEF HandlerStep, LookupDevice, TouchDevice, SetTelemetryLast, GetBaseline,
                SetBufferTtl, SetBaseline, SetFirstBaseline, Broadcast, redis
  <2>2. ASSUME NEW j \in Runs, StartRun(j) \/ RunStep(j)
        PROVE  buffer' = buffer \/ ClearEvents(j)
    BY <2>2 DEF StartRun, RunStep, ReadLast, ReadEvents, LookupOwner, WritePoint, RejectPoint, redis
  <2>3. ASSUME Environment PROVE buffer' = buffer \/ \E c \in Devices : ExpireBuffer(c)
    BY <2>3 DEF Environment, Receive, ExpireLast, ExpireBaseline, Fault, redis
  <2>4. CASE UNCHANGED vars
    BY <2>4 DEF vars
  <2> QED BY <2>1, <2>2, <2>3, <2>4 DEF Next
<1> QED BY <1>1, <1>2, <1>3, <1>4, <1>5, <1>6

\* A critical event leaves the buffer only by the four ways listed there.
THEOREM EventsAccounted == Spec => EventsLeaveAccounted
<1>1. TypeInv /\ SnapshotsAccounted /\ [Next]_vars
        => [\A d \in Devices : AccountedLoss(d)]_vars
  BY LossStep
<1> QED BY <1>1, TypeInvariant, SnapshotsSafe, PTL DEF Spec, EventsLeaveAccounted
-----------------------------------------------------------------------------
(* Only known devices leave traces *)

\* The readings of d that may be kept: none of a device that is not active.
KnownOf(d) == {p \in Reading : p.dev = d /\ status[d] = "active"}

KeptKnown ==
  /\ \A d \in Devices :
       /\ last[d] \in KnownOf(d) \union {Null} /\ baseline[d] \in KnownOf(d) \union {Null}
       /\ buffer[d] \in Seq(KnownOf(d))
       /\ d \in online => status[d] = "active"
  /\ \A p \in influx : status[p.dev] = "active" /\ p.dev \in owned

\* What a run holds is of the device it is at, and it writes for an owner only.
RunKnown(run) ==
  /\ run.last \in KnownOf(run.dev) \union {Null}
  /\ run.events \in Seq(KnownOf(run.dev)) /\ run.left \in Seq(KnownOf(run.dev))
  /\ run.pc = "getLast" => run.events = <<>> /\ run.left = <<>>
  /\ run.pc = "write" => run.dev \in owned

ProcessesKnown ==
  /\ \A k \in Handlers : h[k].pc \notin {"idle", "lookup"} => status[h[k].msg.dev] = "active"
  /\ \A j \in Runs : RunKnown(r[j])

TraceInv == KeptKnown /\ ProcessesKnown

LEMMA IdleRunKnown ==
  ASSUME NEW todo
  PROVE  RunKnown(IdleRun) /\ RunKnown(NextDevice(todo))
<1>1. <<>> \in Seq(KnownOf(Null))
  BY EmptySeq
<1> QED BY <1>1 DEF RunKnown, NextDevice, IdleRun

LEMMA TraceHandlerStep ==
  ASSUME TypeInv, TraceInv, NEW k \in Handlers, HandlerStep(k)
  PROVE  TraceInv'
<1> USE DEF TypeInv, TraceInv
<1>u. UNCHANGED <<status, owned, influx, r>>
  BY DEF HandlerStep, LookupDevice, TouchDevice, SetTelemetryLast, GetBaseline, PushEvent,
         TrimBuffer, SetBufferTtl, SetBaseline, SetFirstBaseline, Broadcast, rows
<1>t. h \in [Handlers -> HandlerState]
  BY DEF TypeOK
\* Past the lookup the handler holds a reading of an active device.
<1>m. ASSUME h[k].pc \notin {"idle", "lookup"}
      PROVE  /\ h[k].msg \in KnownOf(h[k].msg.dev) /\ h[k].msg.dev \in Devices
             /\ status[h[k].msg.dev] = "active"
  <2>1. h[k].msg \in Reading /\ h[k].msg.dev \in Devices
    BY <1>m DEF BusyHandlersHoldReadings, Reading
  <2> QED BY <1>m, <2>1 DEF ProcessesKnown, KnownOf
\* Runs stay as they are, and so do the other handlers.
<1>p. ASSUME h'[k].pc \notin {"idle", "lookup"} => status[h'[k].msg.dev] = "active",
             \A n \in Handlers \ {k} : h'[n] = h[n]
      PROVE  ProcessesKnown'
  BY <1>p, <1>u DEF ProcessesKnown, RunKnown, KnownOf
<1>g. ASSUME NEW pc \in HandlerPcs, Goto(k, pc), status[h[k].msg.dev] = "active"
      PROVE  ProcessesKnown'
  <2>1. h'[k].msg = h[k].msg /\ \A n \in Handlers \ {k} : h'[n] = h[n]
    BY <1>g, <1>t DEF Goto, HandlerState
  <2> QED BY <1>g, <1>p, <2>1
<1>d. ASSUME Done(k) PROVE ProcessesKnown'
  <2>1. h'[k].pc = "idle" /\ \A n \in Handlers \ {k} : h'[n] = h[n]
    BY <1>d, <1>t DEF Done, IdleHandler
  <2> QED BY <1>p, <2>1
<1>s. ASSUME UNCHANGED <<online, last, baseline, buffer>> PROVE KeptKnown'
  BY <1>s, <1>u DEF KeptKnown, KnownOf
<1>1. CASE LookupDevice(k)
  BY <1>1, <1>g, <1>d, <1>s DEF LookupDevice, HandlerPcs, redis
<1>2. CASE TouchDevice(k)
  <2>1. KeptKnown'
    BY <1>2, <1>m, <1>u DEF TouchDevice, KeptKnown, KnownOf, redis
  <2> QED BY <1>2, <1>g, <1>m, <2>1 DEF TouchDevice, HandlerPcs
<1>3. CASE SetTelemetryLast(k)
  <2>1. \A d \in Devices : last'[d] \in KnownOf(d) \union {Null}
    BY <1>3, <1>m DEF SetTelemetryLast, KeptKnown, TypeOK
  <2>2. KeptKnown'
    BY <1>3, <1>u, <2>1 DEF SetTelemetryLast, KeptKnown, KnownOf
  <2> QED BY <1>3, <1>g, <1>m, <2>2 DEF SetTelemetryLast, HandlerPcs
<1>4. CASE GetBaseline(k)
  <2>1. PICK v, pc, base : h' = [h EXCEPT ![k].pc = pc, ![k].msg.anomaly_type = v, ![k].noBase = base]
    BY <1>4 DEF GetBaseline
  <2>2. h'[k].msg = [h[k].msg EXCEPT !.anomaly_type = v] /\ \A n \in Handlers \ {k} : h'[n] = h[n]
    BY <1>t, <2>1 DEF HandlerState
  <2>3. h[k].msg \in Reading
    BY <1>4, <1>m DEF GetBaseline, KnownOf
  <2>4. h'[k].msg.dev = h[k].msg.dev
    BY <2>2, <2>3 DEF Reading
  <2> QED BY <1>4, <1>m, <1>p, <1>s, <2>2, <2>4 DEF GetBaseline, redis
\* The two steps that rewrite one buffer.
<1>b. ASSUME NEW list \in Seq(KnownOf(h[k].msg.dev)), h[k].pc \notin {"idle", "lookup"},
             buffer' = [buffer EXCEPT ![h[k].msg.dev] = list],
             UNCHANGED <<online, last, baseline>>
      PROVE  KeptKnown'
  <2>1. \A d \in Devices : buffer'[d] \in Seq(KnownOf(d))
    BY <1>b, <1>m DEF KeptKnown, TypeOK
  <2> QED BY <1>b, <1>u, <2>1 DEF KeptKnown, KnownOf
<1>5. CASE PushEvent(k)
  <2>1. h[k].msg \in KnownOf(h[k].msg.dev) /\ buffer[h[k].msg.dev] \in Seq(KnownOf(h[k].msg.dev))
    BY <1>5, <1>m DEF PushEvent, KeptKnown
  <2>2. <<h[k].msg>> \o buffer[h[k].msg.dev] \in Seq(KnownOf(h[k].msg.dev))
    BY <2>1, ConcatProperties
  <2>3. KeptKnown'
    BY <1>5, <1>b, <2>2 DEF PushEvent
  <2> QED BY <1>5, <1>g, <1>m, <2>3 DEF PushEvent, HandlerPcs
<1>6. CASE TrimBuffer(k)
  <2>1. buffer[h[k].msg.dev] \in Seq(KnownOf(h[k].msg.dev))
    BY <1>6, <1>m DEF TrimBuffer, KeptKnown
  <2>2. Trimmed(buffer[h[k].msg.dev]) \in Seq(KnownOf(h[k].msg.dev))
    BY <2>1, TrimmedType
  <2>3. KeptKnown'
    BY <1>6, <1>b, <2>2 DEF TrimBuffer
  <2> QED BY <1>6, <1>g, <1>m, <2>3 DEF TrimBuffer, HandlerPcs
<1>7. CASE SetBufferTtl(k)
  <2>1. AfterVerdict(k) \in HandlerPcs
    BY DEF AfterVerdict, HandlerPcs
  <2> QED BY <1>7, <1>g, <1>m, <1>s, <2>1 DEF SetBufferTtl
<1>8. CASE SetBaseline(k) \/ SetFirstBaseline(k)
  <2>1. \A d \in Devices : baseline'[d] \in KnownOf(d) \union {Null}
    BY <1>8, <1>m DEF SetBaseline, SetFirstBaseline, StoreBaseline, KeptKnown, TypeOK
  <2>2. KeptKnown'
    BY <1>8, <1>u, <2>1 DEF SetBaseline, SetFirstBaseline, KeptKnown, KnownOf
  <2>3. AfterVerdict(k) \in HandlerPcs /\ "broadcast" \in HandlerPcs
    BY DEF AfterVerdict, HandlerPcs
  <2> QED BY <1>8, <1>g, <1>m, <2>2, <2>3 DEF SetBaseline, SetFirstBaseline
<1>9. CASE Broadcast(k)
  BY <1>9, <1>d, <1>s DEF Broadcast, redis
<1> QED BY <1>1, <1>2, <1>3, <1>4, <1>5, <1>6, <1>7, <1>8, <1>9 DEF HandlerStep

LEMMA TraceRunStep ==
  ASSUME TypeInv, TraceInv, NEW j \in Runs, StartRun(j) \/ RunStep(j)
  PROVE  TraceInv'
<1> USE DEF TypeInv, TraceInv
<1>u. UNCHANGED <<status, owned, online, last, baseline, h>>
  BY DEF StartRun, RunStep, ReadLast, ReadEvents, LookupOwner, WritePoint, RejectPoint, ClearEvents,
         rows, redis
<1>t. r \in [Runs -> RunState] /\ r[j] \in RunState /\ RunKnown(r[j])
  BY DEF TypeOK, ProcessesKnown
<1>p. ASSUME NEW new, RunKnown(new), r' = [r EXCEPT ![j] = new]
      PROVE  ProcessesKnown'
  <2>1. r'[j] = new /\ \A n \in Runs \ {j} : r'[n] = r[n]
    BY <1>p, <1>t
  <2> QED BY <1>p, <1>u, <2>1 DEF ProcessesKnown, RunKnown, KnownOf
<1>s. ASSUME UNCHANGED <<buffer, influx>> PROVE KeptKnown'
  BY <1>s, <1>u DEF KeptKnown, KnownOf
<1>1. CASE StartRun(j)
  <2>1. PICK new : new = NextDevice({d \in Devices : last[d] # Null})
    OBVIOUS
  <2>2. RunKnown(new)
    BY <2>1, IdleRunKnown
  <2> QED BY <1>1, <1>p, <1>s, <2>1, <2>2 DEF StartRun, redis
<1>2. ASSUME NEW d \in Devices, ReadLast(j, d) PROVE TraceInv'
  <2>1. PICK new : new = [r[j] EXCEPT !.pc = "getEvents", !.todo = r[j].todo \ {d}, !.dev = d,
                                      !.last = last[d]]
    OBVIOUS
  <2>2. r' = [r EXCEPT ![j] = new]
    BY <1>2, <1>t, <2>1 DEF ReadLast, RunState
  <2>3. new.pc = "getEvents" /\ new.dev = d /\ new.last = last[d] /\ new.events = <<>> /\ new.left = <<>>
    BY <1>2, <1>t, <2>1 DEF ReadLast, RunState, RunKnown
  <2>4. <<>> \in Seq(KnownOf(d)) /\ last[d] \in KnownOf(d) \union {Null}
    BY EmptySeq DEF KeptKnown
  <2>5. RunKnown(new)
    BY <2>3, <2>4 DEF RunKnown
  <2> QED BY <1>2, <1>p, <1>s, <2>2, <2>5 DEF ReadLast, redis
<1>3. CASE ReadEvents(j)
  <2>1. PICK next, on : next = NextDevice(r[j].todo)
                        /\ on = [r[j] EXCEPT !.pc = "owner", !.events = buffer[r[j].dev]]
    OBVIOUS
  <2>2. r' = [r EXCEPT ![j] = next] \/ r' = [r EXCEPT ![j] = on]
    BY <1>3, <1>t, <2>1 DEF ReadEvents
  <2>3. buffer[r[j].dev] \in Seq(KnownOf(r[j].dev))
    BY <1>3 DEF ReadEvents, RunsKnowTheirDevice, KeptKnown
  <2>4. on.pc = "owner" /\ on.dev = r[j].dev /\ on.last = r[j].last /\ on.left = r[j].left
        /\ on.events = buffer[r[j].dev]
    BY <1>t, <2>1 DEF RunState
  <2>5. RunKnown(on)
    BY <1>t, <2>3, <2>4 DEF RunKnown
  <2>6. RunKnown(next)
    BY <2>1, IdleRunKnown
  <2> QED BY <1>3, <1>p, <1>s, <2>2, <2>5, <2>6 DEF ReadEvents, redis
<1>4. CASE LookupOwner(j)
  <2>1. PICK next, on : next = NextDevice(r[j].todo)
                        /\ on = [r[j] EXCEPT !.pc = "write", !.left = Readings(r[j])]
    OBVIOUS
  <2>2. IF r[j].dev \in owned THEN r' = [r EXCEPT ![j] = on] ELSE r' = [r EXCEPT ![j] = next]
    BY <1>4, <1>t, <2>1 DEF LookupOwner
  <2>3. Readings(r[j]) \in Seq(KnownOf(r[j].dev))
    <3>1. r[j].events \in Seq(KnownOf(r[j].dev)) /\ <<>> \in Seq(KnownOf(r[j].dev))
      BY <1>t, EmptySeq DEF RunKnown
    <3>2. CASE r[j].last = Null
      BY <3>1, <3>2, ConcatProperties DEF Readings
    <3>3. CASE r[j].last # Null
      <4>1. <<r[j].last>> \in Seq(KnownOf(r[j].dev))
        BY <1>t, <3>3 DEF RunKnown
      <4> QED BY <3>1, <3>3, <4>1, ConcatProperties DEF Readings
    <3> QED BY <3>2, <3>3
  <2>4. on.pc = "write" /\ on.dev = r[j].dev /\ on.last = r[j].last /\ on.left = Readings(r[j])
        /\ on.events = r[j].events
    BY <1>t, <2>1 DEF RunState
  <2>5. r[j].dev \in owned => RunKnown(on)
    BY <1>t, <2>3, <2>4 DEF RunKnown
  <2>6. RunKnown(next)
    BY <2>1, IdleRunKnown
  <2> QED BY <1>4, <1>p, <1>s, <2>2, <2>5, <2>6 DEF LookupOwner, redis
<1>5. CASE WritePoint(j)
  <2>1. r[j].left \in Seq(KnownOf(r[j].dev)) /\ r[j].left # <<>> /\ r[j].dev \in owned
    BY <1>5, <1>t DEF WritePoint, RunKnown, RunsKnowTheirDevice
  <2>2. Head(r[j].left) \in KnownOf(r[j].dev) /\ Tail(r[j].left) \in Seq(KnownOf(r[j].dev))
    BY <2>1, HeadTailProperties
  <2>3. PICK pc : pc = IF Len(r[j].left) = 1 THEN "clear" ELSE "write"
    OBVIOUS
  <2>4. PICK new : new = [r[j] EXCEPT !.left = Tail(r[j].left), !.pc = pc]
    OBVIOUS
  <2>5. r' = [r EXCEPT ![j] = new]
    BY <1>5, <1>t, <2>3, <2>4 DEF WritePoint, RunState
  <2>6. new.pc = pc /\ new.dev = r[j].dev /\ new.last = r[j].last /\ new.left = Tail(r[j].left)
        /\ new.events = r[j].events
    BY <1>t, <2>4 DEF RunState
  <2>7. RunKnown(new)
    BY <1>t, <2>1, <2>2, <2>3, <2>6 DEF RunKnown
  <2>8. KeptKnown'
    BY <1>5, <1>u, <2>1, <2>2 DEF WritePoint, KeptKnown, KnownOf, redis
  <2> QED BY <1>p, <2>5, <2>7, <2>8
<1>6. CASE ClearEvents(j)
  <2>1. PICK next : next = NextDevice(r[j].todo)
    OBVIOUS
  <2>2. r' = [r EXCEPT ![j] = next] /\ RunKnown(next)
    BY <1>6, <2>1, IdleRunKnown DEF ClearEvents
  <2>3. \A d \in Devices : buffer'[d] = buffer[d] \/ buffer'[d] = <<>>
    BY <1>6 DEF ClearEvents, TypeOK
  <2>4. KeptKnown'
    BY <1>6, <1>u, <2>3, EmptySeq DEF ClearEvents, KeptKnown, KnownOf
  <2> QED BY <1>p, <2>2, <2>4
<1>7. CASE RejectPoint(j)
  <2>1. PICK next : next = IdleRun
    OBVIOUS
  <2>2. r' = [r EXCEPT ![j] = next] /\ RunKnown(next)
    BY <1>7, <2>1, IdleRunKnown DEF RejectPoint
  <2> QED BY <1>7, <1>p, <1>s, <2>2 DEF RejectPoint, redis
<1> QED BY <1>1, <1>2, <1>3, <1>4, <1>5, <1>6, <1>7 DEF RunStep

LEMMA TraceEnvironment ==
  ASSUME TypeInv, TraceInv, Environment
  PROVE  TraceInv'
<1> USE DEF TypeInv, TraceInv
<1>u. UNCHANGED <<status, owned, online, influx>>
  BY DEF Environment, Receive, ExpireLast, ExpireBaseline, ExpireBuffer, Fault, rows
<1>1. KeptKnown'
  <2>1. ASSUME NEW d \in Devices
        PROVE  /\ last'[d] = last[d] \/ last'[d] = Null
               /\ baseline'[d] = baseline[d] \/ baseline'[d] = Null
               /\ buffer'[d] = buffer[d] \/ buffer'[d] = <<>>
    BY DEF Environment, Receive, ExpireLast, ExpireBaseline, ExpireBuffer, Fault, redis, TypeOK
  <2> QED BY <1>u, <2>1, EmptySeq DEF KeptKnown, KnownOf
<1>2. ProcessesKnown'
  <2>1. ASSUME NEW n \in Handlers
        PROVE  h'[n] = h[n] \/ h'[n].pc \in {"idle", "lookup"}
    BY DEF Environment, Receive, ExpireLast, ExpireBaseline, ExpireBuffer, Fault, IdleHandler, TypeOK
  <2>2. ASSUME NEW n \in Runs
        PROVE  r'[n] = r[n] \/ r'[n] = IdleRun
    BY DEF Environment, Receive, ExpireLast, ExpireBaseline, ExpireBuffer, Fault, TypeOK
  <2>3. ASSUME NEW n \in Runs PROVE RunKnown(r[n])'
    <3>1. PICK new : new = r'[n]
      OBVIOUS
    <3>2. RunKnown(new)
      BY <2>2, <3>1, IdleRunKnown DEF ProcessesKnown
    <3> QED BY <1>u, <3>1, <3>2 DEF RunKnown, KnownOf
  <2> QED BY <1>u, <2>1, <2>3 DEF ProcessesKnown
<1> QED BY <1>1, <1>2

LEMMA TraceInit == Init => TraceInv
<1> SUFFICES ASSUME Init PROVE TraceInv
  OBVIOUS
<1>1. \A d \in Devices : <<>> \in Seq(KnownOf(d))
  BY EmptySeq
<1>2. KeptKnown
  BY <1>1 DEF Init, KeptKnown
<1>3. ProcessesKnown
  BY IdleRunKnown DEF Init, ProcessesKnown, IdleHandler
<1> QED BY <1>2, <1>3 DEF TraceInv

LEMMA TraceStep == TypeInv /\ TraceInv /\ [Next]_vars => TraceInv'
<1> SUFFICES ASSUME TypeInv, TraceInv, [Next]_vars PROVE TraceInv'
  OBVIOUS
<1>1. CASE UNCHANGED vars
  BY <1>1 DEF vars, TraceInv, KeptKnown, ProcessesKnown, RunKnown, KnownOf
<1> QED BY <1>1, TraceHandlerStep, TraceRunStep, TraceEnvironment DEF Next

\* Nothing a device without row, or with status 0, sends is kept anywhere, and
\* InfluxDB only receives readings of devices that have an owner.
\* (mqtt.service.ts:149-157, telemetry.scheduler.ts:59-64)
THEOREM UnknownDevicesLeaveNoTrace == Spec => []OnlyKnownDevicesLeaveTraces
<1>1. TraceInv => OnlyKnownDevicesLeaveTraces
  <2> SUFFICES ASSUME TraceInv PROVE OnlyKnownDevicesLeaveTraces
    OBVIOUS
  <2>1. ASSUME NEW d \in Devices, status[d] # "active"
        PROVE  last[d] = Null /\ baseline[d] = Null /\ buffer[d] = <<>> /\ d \notin online
    <3>1. KnownOf(d) = {}
      BY <2>1 DEF KnownOf
    <3>2. buffer[d] \in Seq({})
      BY <3>1 DEF TraceInv, KeptKnown
    <3>3. buffer[d] = <<>>
      BY <3>2, HeadTailProperties
    <3> QED BY <2>1, <3>1, <3>3 DEF TraceInv, KeptKnown
  <2> QED BY <2>1 DEF OnlyKnownDevicesLeaveTraces, TraceInv, KeptKnown
<1> QED BY <1>1, TraceInit, TraceStep, TypeInvariant, PTL DEF Spec
-----------------------------------------------------------------------------
(* The buffer is bounded *)

N == Cardinality(Handlers)
Trimming(d) == {i \in Handlers : h[i].pc = "trim" /\ h[i].msg.dev = d}
Untrimmed(d) == Cardinality(Trimming(d))

LEMMA UntrimmedSize ==
  ASSUME NEW d
  PROVE  N \in Nat /\ Untrimmed(d) \in 0..N /\ IsFiniteSet(Trimming(d))
<1>1. Trimming(d) \subseteq Handlers
  BY DEF Trimming
<1>2. /\ IsFiniteSet(Trimming(d)) /\ Cardinality(Trimming(d)) =< Cardinality(Handlers)
      /\ Cardinality(Trimming(d)) \in Nat /\ Cardinality(Handlers) \in Nat
  BY <1>1, PipelineAssumption, FS_Subset, FS_CardinalityType
<1> QED BY <1>2 DEF Untrimmed, N

LEMMA UntrimmedNext ==
  ASSUME NEW d
  PROVE  Untrimmed(d)' \in 0..N
<1>1. PICK T : T = Trimming(d)'
  OBVIOUS
<1>2. T \subseteq Handlers
  BY <1>1 DEF Trimming
<1>3. Cardinality(T) =< Cardinality(Handlers) /\ Cardinality(T) \in Nat
  BY <1>2, PipelineAssumption, FS_Subset, FS_CardinalityType
<1>4. Cardinality(T) \in 0..N
  BY <1>3, PipelineAssumption, FS_CardinalityType DEF N
<1> QED BY <1>1, <1>4 DEF Untrimmed

\* What may happen to the list of one device in a step.
LEMMA OneBufferBounded ==
  ASSUME TypeInv, BufferBounded, NEW d \in Devices,
         faults' = faults \/ faults' = faults + 1,
         \/ Len(buffer'[d]) =< BufferCap
         \/ buffer'[d] = buffer[d] /\ Trimming(d)' = Trimming(d)
         \/ buffer'[d] = buffer[d] /\ faults' = faults + 1
         \/ Len(buffer'[d]) = Len(buffer[d]) + 1 /\ Untrimmed(d)' = Untrimmed(d) + 1,
         Len(buffer'[d]) \in Nat
  PROVE  Len(buffer'[d]) =< BufferCap + Untrimmed(d)' + faults' * N
<1>1. Len(buffer[d]) =< BufferCap + Untrimmed(d) + faults * N
  BY DEF BufferBounded, Untrimmed, Trimming, N
<1>2. PICK before, after, len, len2 :
        /\ before = Untrimmed(d) /\ after = Untrimmed(d)'
        /\ len = Len(buffer[d]) /\ len2 = Len(buffer'[d])
  OBVIOUS
<1>3. before \in 0..N /\ after \in 0..N /\ N \in Nat /\ faults \in Nat /\ BufferCap \in Nat
      /\ len \in Nat /\ len2 \in Nat
  BY <1>2, UntrimmedSize, UntrimmedNext, PipelineAssumption, LenProperties DEF TypeInv, TypeOK
<1>4. PICK lost, lost2 : lost = faults * N /\ lost2 = faults' * N
  OBVIOUS
<1>5. lost \in Nat /\ (lost2 = lost \/ lost2 = lost + N) /\ (faults' = faults + 1 => lost2 = lost + N)
  <2>1. faults * N \in Nat /\ (faults + 1) * N = faults * N + N
    BY <1>3
  <2>2. faults' = faults \/ faults' = faults + 1
    OBVIOUS
  <2>3. CASE faults' = faults
    BY <1>3, <1>4, <2>1, <2>3
  <2>4. CASE faults' = faults + 1
    BY <1>4, <2>1, <2>4
  <2> QED BY <2>2, <2>3, <2>4
<1>6. \/ len2 =< BufferCap
      \/ len2 = len /\ after = before
      \/ len2 = len /\ lost2 = lost + N
      \/ len2 = len + 1 /\ after = before + 1
  BY <1>2, <1>5 DEF Untrimmed
<1>7. len =< BufferCap + before + lost
  BY <1>1, <1>2, <1>4
<1>8. len2 =< BufferCap + after + lost2
  BY <1>3, <1>5, <1>6, <1>7
<1> QED BY <1>2, <1>4, <1>8

\* A handler that neither was about to trim this list nor is now counts as before.
LEMMA TrimmingKept ==
  ASSUME NEW d \in Devices,
         \A n \in Handlers : (h'[n].pc = "trim" /\ h'[n].msg.dev = d) <=> (h[n].pc = "trim" /\ h[n].msg.dev = d)
  PROVE  Trimming(d)' = Trimming(d)
BY DEF Trimming

LEMMA BoundedStep == TypeInv /\ BufferBounded /\ [Next]_vars => BufferBounded'
<1> SUFFICES ASSUME TypeInv, BufferBounded, [Next]_vars PROVE BufferBounded'
  OBVIOUS
<1>t. /\ h \in [Handlers -> HandlerState] /\ r \in [Runs -> RunState]
      /\ buffer \in [Devices -> Seq(Reading)] /\ BufferCap \in Nat
      /\ \A d \in Devices : Len(buffer'[d]) \in Nat
  <2>1. TypeInv'
    BY TypeStep
  <2>2. \A d \in Devices : buffer'[d] \in Seq(Reading)
    BY <2>1 DEF TypeInv, TypeOK
  <2> QED BY <2>2, PipelineAssumption, LenProperties DEF TypeInv, TypeOK
<1>k. ASSUME faults' = faults \/ faults' = faults + 1,
             \A d \in Devices :
               \/ Len(buffer'[d]) =< BufferCap
               \/ buffer'[d] = buffer[d] /\ Trimming(d)' = Trimming(d)
               \/ buffer'[d] = buffer[d] /\ faults' = faults + 1
               \/ Len(buffer'[d]) = Len(buffer[d]) + 1 /\ Untrimmed(d)' = Untrimmed(d) + 1
      PROVE  BufferBounded'
  BY <1>k, <1>t, OneBufferBounded DEF BufferBounded, Untrimmed, Trimming, N
<1>e. Len(<<>>) =< BufferCap
  BY <1>t
<1>1. ASSUME NEW k \in Handlers, HandlerStep(k) PROVE BufferBounded'
  <2>f. faults' = faults
    BY <1>1 DEF HandlerStep, LookupDevice, TouchDevice, SetTelemetryLast, GetBaseline, PushEvent,
         TrimBuffer, SetBufferTtl, SetBaseline, SetFirstBaseline, Broadcast
  <2>1. CASE PushEvent(k)
    <3>1. /\ h'[k].pc = "trim" /\ h'[k].msg = h[k].msg /\ h[k].pc = "push"
          /\ \A n \in Handlers \ {k} : h'[n] = h[n]
          /\ buffer' = [buffer EXCEPT ![h[k].msg.dev] = <<h[k].msg>> \o buffer[h[k].msg.dev]]
      BY <1>t, <2>1 DEF PushEvent, Goto, HandlerState
    <3>2. ASSUME NEW d \in Devices, d = h[k].msg.dev
          PROVE  Len(buffer'[d]) = Len(buffer[d]) + 1 /\ Untrimmed(d)' = Untrimmed(d) + 1
      <4>1. PICK T : T = Trimming(d)'
        OBVIOUS
      <4>2. T = Trimming(d) \union {k} /\ k \notin Trimming(d)
        BY <3>1, <3>2, <4>1 DEF Trimming
      <4>3. Cardinality(T) = Cardinality(Trimming(d)) + 1
        BY <4>2, UntrimmedSize, FS_AddElement
      <4>4. h[k].msg \in Reading
        BY <3>1 DEF TypeInv, BusyHandlersHoldReadings
      <4>5. Len(<<h[k].msg>> \o buffer[d]) = Len(buffer[d]) + 1
        BY <1>t, <4>4, ConcatProperties, LenProperties
      <4> QED BY <1>t, <3>1, <3>2, <4>1, <4>3, <4>5 DEF Untrimmed
    <3>3. ASSUME NEW d \in Devices, d # h[k].msg.dev
          PROVE  buffer'[d] = buffer[d] /\ Trimming(d)' = Trimming(d)
      BY <1>t, <3>1, <3>3, TrimmingKept
    <3> QED BY <1>k, <2>f, <3>2, <3>3
  <2>2. CASE TrimBuffer(k)
    <3>1. /\ h'[k].pc = "expire" /\ h[k].pc = "trim" /\ \A n \in Handlers \ {k} : h'[n] = h[n]
          /\ buffer' = [buffer EXCEPT ![h[k].msg.dev] = Trimmed(buffer[h[k].msg.dev])]
      BY <1>t, <2>2 DEF TrimBuffer, Goto, HandlerState
    <3>2. ASSUME NEW d \in Devices, d = h[k].msg.dev PROVE Len(buffer'[d]) =< BufferCap
      <4>1. buffer'[d] = Trimmed(buffer[d]) /\ buffer[d] \in Seq(Reading)
        BY <1>t, <3>1, <3>2
      <4>2. CASE Len(buffer[d]) > BufferCap
        <5>1. 1 \in 1..Len(buffer[d]) + 1 /\ BufferCap \in 0..Len(buffer[d])
          BY <1>t, <4>2, <4>1, LenProperties
        <5>2. Len(SubSeq(buffer[d], 1, BufferCap)) = BufferCap
          BY <1>t, <4>1, <5>1, SubSeqProperties
        <5> QED BY <1>t, <4>1, <4>2, <5>2 DEF Trimmed
      <4>3. CASE ~(Len(buffer[d]) > BufferCap)
        BY <1>t, <4>1, <4>3, LenProperties DEF Trimmed
      <4> QED BY <4>2, <4>3
    <3>3. ASSUME NEW d \in Devices, d # h[k].msg.dev
          PROVE  buffer'[d] = buffer[d] /\ Trimming(d)' = Trimming(d)
      BY <1>t, <3>1, <3>3, TrimmingKept
    <3> QED BY <1>k, <2>f, <3>2, <3>3
  <2>3. CASE h[k].pc # "trim" /\ h'[k].pc # "trim" /\ buffer' = buffer
             /\ \A n \in Handlers \ {k} : h'[n] = h[n]
    BY <1>k, <2>f, <2>3, TrimmingKept
  <2>4. ASSUME ~PushEvent(k), ~TrimBuffer(k)
        PROVE  h[k].pc # "trim" /\ h'[k].pc # "trim" /\ buffer' = buffer
               /\ \A n \in Handlers \ {k} : h'[n] = h[n]
    <3>1. CASE GetBaseline(k)
      <4>1. PICK v, base : v = Judge(h[k].msg, baseline[h[k].msg.dev])
                           /\ base = (baseline[h[k].msg.dev] = Null)
        OBVIOUS
      <4>2. PICK pc : pc = IF v = "NONE" THEN "setBaseline" ELSE "push"
        OBVIOUS
      <4>3. h' = [h EXCEPT ![k].pc = pc, ![k].msg.anomaly_type = v, ![k].noBase = base]
        BY <3>1, <4>1, <4>2 DEF GetBaseline
      <4> QED BY <1>t, <3>1, <4>2, <4>3 DEF GetBaseline, redis, HandlerState
    <3>2. CASE ~GetBaseline(k)
      BY <1>1, <1>t, <2>4, <3>2 DEF HandlerStep, LookupDevice, TouchDevice, SetTelemetryLast,
         SetBufferTtl, SetBaseline, SetFirstBaseline, Broadcast, Goto, Done, AfterVerdict,
         IdleHandler, redis, HandlerState
    <3> QED BY <3>1, <3>2
  <2> QED BY <2>1, <2>2, <2>3, <2>4
<1>2. ASSUME NEW j \in Runs, StartRun(j) \/ RunStep(j) PROVE BufferBounded'
  <2>1. /\ UNCHANGED <<h, faults>>
        /\ \A d \in Devices : buffer'[d] = buffer[d] \/ buffer'[d] = <<>>
    BY <1>2, <1>t DEF StartRun, RunStep, ReadLast, ReadEvents, LookupOwner, WritePoint,
       RejectPoint, ClearEvents, redis
  <2> QED BY <1>e, <1>k, <2>1, TrimmingKept
<1>3. ASSUME NEW i \in Handlers, NEW c \in Devices, NEW s \in Samples, Receive(i, c, s)
      PROVE  BufferBounded'
  <2>1. /\ UNCHANGED <<buffer, faults>> /\ h[i].pc = "idle" /\ h'[i].pc = "lookup"
        /\ \A n \in Handlers \ {i} : h'[n] = h[n]
    BY <1>3, <1>t DEF Receive, redis
  <2> QED BY <1>k, <2>1, TrimmingKept
<1>4. ASSUME NEW c \in Devices, ExpireLast(c) \/ ExpireBaseline(c) \/ ExpireBuffer(c)
      PROVE  BufferBounded'
  <2>1. /\ UNCHANGED <<h, faults>>
        /\ \A d \in Devices : buffer'[d] = buffer[d] \/ buffer'[d] = <<>>
    BY <1>4, <1>t DEF ExpireLast, ExpireBaseline, ExpireBuffer
  <2> QED BY <1>e, <1>k, <2>1, TrimmingKept
<1>5. ASSUME NEW K, Fault(K) PROVE BufferBounded'
  BY <1>5, <1>k DEF Fault, redis
<1>6. CASE UNCHANGED vars
  BY <1>6 DEF vars, BufferBounded
<1> QED BY <1>1, <1>2, <1>3, <1>4, <1>5, <1>6 DEF Next, Environment

\* The list of critical events exceeds its cap only by the pushes whose trim is
\* still to come and by those whose handler died in between.
\* (telemetry-redis.service.ts:49-51)
THEOREM BufferAlwaysBounded == Spec => []BufferBounded
<1>1. Init => BufferBounded
  <2> SUFFICES ASSUME Init, NEW d \in Devices
               PROVE  Len(buffer[d]) =< BufferCap + Untrimmed(d) + faults * N
    BY DEF BufferBounded, Untrimmed, Trimming, N
  <2>1. Len(buffer[d]) = 0 /\ faults = 0
    BY DEF Init
  <2>2. Untrimmed(d) \in Nat /\ N \in Nat /\ BufferCap \in Nat
    BY UntrimmedSize, PipelineAssumption
  <2>3. faults * N = 0
    BY <2>1, <2>2
  <2> QED BY <2>1, <2>2, <2>3
<1> QED BY <1>1, BoundedStep, TypeInvariant, PTL DEF Spec
-----------------------------------------------------------------------------
(* The arithmetic of the detector *)

\* One magnitude: comparing the quotient with the threshold is leaving the band.
LEMMA ChangeLeavesBand ==
  ASSUME NEW c \in Magnitude, NEW b \in Magnitude, NEW m \in Nat \ {0}
  PROVE  ChangesTooMuch(c, b, m) <=> ~Quiet(c, b, m)
<1>1. CASE c = Null \/ b = Null
  BY <1>1 DEF ChangesTooMuch, Quiet
<1>2. CASE c # Null /\ b # Null
  <2>1. c \in Int /\ b \in Int /\ c - b \in Int
    BY <1>2 DEF Magnitude
  <2>2. PICK a \in Nat : a = Abs(c - b) /\ a = IF c >= b THEN c - b ELSE b - c
    BY <2>1 DEF Abs
  <2>3. a >= m <=> ~(b - m < c /\ c < b + m)
    BY <2>1, <2>2
  <2>4. CASE b > 0
    <3>1. PICK den \in Nat, num \in Nat : den = ThresholdDen /\ num = ThresholdNum
      BY DetectorAssumption
    <3>2. PICK cd \in Int, bd \in Int, bn \in Int : cd = c * den /\ bd = b * den /\ bn = b * num
      BY <2>1, <3>1
    <3>3. /\ (c - b) * den = cd - bd /\ (b - c) * den = bd - cd /\ num * b = bn
          /\ b * (den + num) = bd + bn /\ b * (den - num) = bd - bn
      BY <2>1, <3>1, <3>2
    <3>4. a * den = IF c >= b THEN cd - bd ELSE bd - cd
      BY <2>2, <3>3
    <3>5. bn >= 0 /\ (c >= b => cd >= bd) /\ (c < b => cd =< bd)
      BY <2>1, <2>4, <3>1, <3>2
    <3>6. a * den > bn <=> ~(cd =< bd + bn /\ cd >= bd - bn)
      BY <2>1, <3>2, <3>4, <3>5
    <3>7. ChangesTooMuch(c, b, m) <=> a >= m /\ a * den > bn
      BY <1>2, <2>1, <2>2, <2>4, <3>1, <3>3 DEF ChangesTooMuch
    <3>8. Quiet(c, b, m) <=> (b - m < c /\ c < b + m) \/ (cd =< bd + bn /\ cd >= bd - bn)
      BY <1>2, <2>1, <2>4, <3>1, <3>2, <3>3 DEF Quiet
    <3> QED BY <2>3, <3>6, <3>7, <3>8
  <2>5. CASE b =< 0
    BY <1>2, <2>1, <2>2, <2>3, <2>5 DEF ChangesTooMuch, Quiet
  <2> QED BY <2>1, <2>4, <2>5
<1> QED BY <1>1, <1>2

\* For every reading and baseline, every limit, band and threshold, the verdict is
\* that of the bands: LIMIT outside the absolute limits, otherwise SPIKE exactly
\* when some magnitude leaves its band, a magnitude that is absent, zero or negative
\* included.  (spike-detector.service.ts:33-122)
THEOREM VerdictIsThatOfTheBands ==
  \A cur \in Electricas, base \in Electricas :
    DetectAnomaly(cur, base) =
      IF OutOfLimits(cur) THEN "LIMIT" ELSE IF AllQuiet(cur, base) THEN "NONE" ELSE "SPIKE"
<1> SUFFICES ASSUME NEW cur \in Electricas, NEW base \in Electricas
             PROVE  IsSpike(cur, base) <=> ~AllQuiet(cur, base)
  BY NullIsNoElectricas DEF DetectAnomaly
<1>1. /\ {cur.voltaje_v, cur.corriente_a, cur.potencia_w} \subseteq Magnitude
      /\ {base.voltaje_v, base.corriente_a, base.potencia_w} \subseteq Magnitude
  BY DEF Electricas
<1>2. VoltBand \in Nat \ {0} /\ AmpBand \in Nat \ {0} /\ WattBand \in Nat \ {0}
  BY DetectorAssumption
<1> QED BY <1>1, <1>2, ChangeLeavesBand DEF IsSpike, AllQuiet
-----------------------------------------------------------------------------
(* A stream of readings and the baseline it leaves *)

\* The verdict is that of the reading against the baseline it was compared with.
StreamInv == StreamTypeOK /\ verdict = JudgeBlock(sample, reference)

LEMMA StreamInvariant == StreamSpec => []StreamInv
<1>1. ASSUME NEW cur, NEW base PROVE JudgeBlock(cur, base) \in Verdicts
  BY DEF JudgeBlock, DetectAnomaly, Verdicts
<1>2. StreamInit => StreamInv
  BY <1>1 DEF StreamInit, StreamInv, StreamTypeOK
<1>3. StreamInv /\ [StreamNext]_stream => StreamInv'
  <2> SUFFICES ASSUME StreamInv, [StreamNext]_stream PROVE StreamInv'
    OBVIOUS
  <2>1. ASSUME NEW b \in Blocks, NextReading(b) PROVE StreamInv'
    <3>1. /\ sample' \in Blocks /\ reference' \in Blocks \union {Null}
          /\ verdict' = JudgeBlock(sample', reference')
      BY <2>1 DEF NextReading, Adopted, StreamInv, StreamTypeOK
    <3>2. verdict' \in Verdicts
      BY <1>1, <3>1
    <3> QED BY <3>1, <3>2 DEF StreamInv, StreamTypeOK, JudgeBlock
  <2>2. CASE UNCHANGED stream
    BY <2>2 DEF stream, StreamInv, StreamTypeOK, JudgeBlock
  <2> QED BY <2>1, <2>2 DEF StreamNext
<1> QED BY <1>2, <1>3, PTL DEF StreamSpec

\* The reading and the baseline are what the devices sent or nothing, and the verdict
\* is one of the three every consumer knows.  (spike-detector.service.ts:33-66)
THEOREM StreamTypeCorrect == StreamSpec => []StreamTypeOK
<1>1. StreamInv => StreamTypeOK
  BY DEF StreamInv
<1> QED BY <1>1, StreamInvariant, PTL

\* For every stream of readings, every limit, band and threshold, the verdict on a
\* reading with a block against a baseline with a block is the one the bands give.
\* (spike-detector.service.ts:33-122)
THEOREM StreamVerdicts == StreamSpec => []VerdictMatchesBands
<1>1. StreamInv => VerdictMatchesBands
  <2> SUFFICES ASSUME StreamInv, sample # Null, reference # Null PROVE VerdictMatchesBands
    BY DEF VerdictMatchesBands
  <2>1. sample \in Electricas /\ reference \in Electricas
    BY BlocksAssumption DEF StreamInv, StreamTypeOK
  <2>2. verdict = IF OutOfLimits(sample) THEN "LIMIT"
                  ELSE IF AllQuiet(sample, reference) THEN "NONE" ELSE "SPIKE"
    BY <2>1, VerdictIsThatOfTheBands DEF StreamInv, JudgeBlock
  <2> QED BY <2>2 DEF VerdictMatchesBands
<1> QED BY <1>1, StreamInvariant, PTL

\* For every stream of readings, blocks or none, and every limit, band and threshold:
\* a reading outside the limits becomes the baseline only where there was no baseline
\* with a block to judge it against, so no drift gets there while one is kept.
\* (mqtt.service.ts:172-192, spike-detector.service.ts:43-59)
THEOREM StreamBaseline == StreamSpec => DriftStaysInLimits
<1> DEFINE Drift == reference' \notin {reference, Null} /\ OutOfLimits(reference')
                      => reference = Null
<1>1. StreamInv /\ [StreamNext]_stream => [Drift]_stream
  <2> SUFFICES ASSUME StreamInv, NEW b \in Blocks, NextReading(b),
                      reference' \notin {reference, Null}, OutOfLimits(reference')
               PROVE  reference = Null
    BY DEF StreamNext
  \* The new baseline is the reading, and the handler made NONE of it ...
  <2>1. verdict = "NONE" /\ reference' = sample /\ sample # Null
    BY DEF NextReading, Adopted
  \* ... although it is outside the limits: it was not judged.
  <2>2. OutOfLimits(sample)
    BY <2>1
  <2>3. DetectAnomaly(sample, reference) = "LIMIT"
    BY <2>1, <2>2 DEF DetectAnomaly
  <2> QED BY <2>1, <2>3 DEF StreamInv, JudgeBlock
<1> QED BY <1>1, StreamInvariant, PTL DEF StreamSpec, DriftStaysInLimits
-----------------------------------------------------------------------------
(* The path of the telemetry is the flow the realtime gateway relies on *)

\* The readings that have been cached, whatever verdict they carry.
Filed == {p \in Reading : Point(p) \in cached}

\* The messages cached are numbered, each with a number of its own.
OrderInv ==
  /\ count \in Nat /\ order \in [1..MaxMsgs -> 0..count]
  /\ cached \subseteq [n : 1..count, dev : Devices]
  /\ \A a, b \in 1..MaxMsgs : order[a] = order[b] /\ order[a] # 0 => a = b
  /\ \A a \in 1..MaxMsgs : a > received => order[a] = 0

\* No two handlers work on one message, and a message is numbered exactly when
\* its handler has cached it.
HandlersNumbered ==
  /\ \A i \in Handlers : h[i].pc # "idle" =>
       /\ h[i].msg.id =< received
       /\ IF i \in ToSend THEN Point(h[i].msg) \in cached ELSE order[h[i].msg.id] = 0
  /\ \A i, j \in Handlers :
       h[i].pc # "idle" /\ h[j].pc # "idle" /\ i # j => h[i].msg.id # h[j].msg.id

\* Redis, InfluxDB and the runs hold readings of S only.
HeldIn(run, S) ==
  run.last \in S \union {Null} /\ run.events \in Seq(S) /\ run.left \in Seq(S)
KeptIn(S) ==
  /\ \A d \in Devices : last[d] \in S \union {Null} /\ buffer[d] \in Seq(S)
  /\ influx \subseteq S
  /\ \A j \in Runs : HeldIn(r[j], S)

FlowInv == OrderInv /\ HandlersNumbered /\ KeptIn(Filed)

LEMMA LongerKept ==
  ASSUME NEW S, NEW T, S \subseteq T, KeptIn(S)
  PROVE  KeptIn(T)
<1>1. ASSUME NEW s \in Seq(S) PROVE s \in Seq(T)
  OBVIOUS
<1> QED BY <1>1 DEF KeptIn, HeldIn

LEMMA IdleRunHeld ==
  ASSUME NEW S, NEW todo
  PROVE  HeldIn(IdleRun, S) /\ HeldIn(NextDevice(todo), S)
<1>1. <<>> \in Seq(S)
  BY EmptySeq
<1> QED BY <1>1 DEF HeldIn, NextDevice, IdleRun

\* A handler adds nothing but its own message.
LEMMA KeptHandlerStep ==
  ASSUME NEW S, TypeInv, KeptIn(S), NEW k \in Handlers, HandlerStep(k),
         SetTelemetryLast(k) \/ PushEvent(k) => h[k].msg \in S
  PROVE  KeptIn(S)'
<1> USE DEF TypeInv
<1>u. UNCHANGED <<influx, r>>
  BY DEF HandlerStep, LookupDevice, TouchDevice, SetTelemetryLast, GetBaseline, PushEvent,
         TrimBuffer, SetBufferTtl, SetBaseline, SetFirstBaseline, Broadcast
<1>t. last \in [Devices -> Reading \union {Null}] /\ buffer \in [Devices -> Seq(Reading)]
  BY DEF TypeOK
<1>m. h[k].pc # "idle" => h[k].msg.dev \in Devices
  BY DEF BusyHandlersHoldReadings, Reading
<1>1. CASE SetTelemetryLast(k)
  BY <1>1, <1>t, <1>u DEF SetTelemetryLast, KeptIn
<1>2. ASSUME NEW list \in Seq(S), buffer' = [buffer EXCEPT ![h[k].msg.dev] = list], last' = last
      PROVE  KeptIn(S)'
  <2>1. \A d \in Devices : buffer'[d] \in Seq(S)
    BY <1>2, <1>t DEF KeptIn
  <2> QED BY <1>2, <1>u, <2>1 DEF KeptIn
<1>3. CASE PushEvent(k)
  <2>1. buffer[h[k].msg.dev] \in Seq(S) /\ <<h[k].msg>> \in Seq(S)
    BY <1>3, <1>m DEF PushEvent, KeptIn
  <2>2. <<h[k].msg>> \o buffer[h[k].msg.dev] \in Seq(S)
    BY <2>1, ConcatProperties
  <2> QED BY <1>2, <1>3, <2>2 DEF PushEvent
<1>4. CASE TrimBuffer(k)
  <2>1. Trimmed(buffer[h[k].msg.dev]) \in Seq(S)
    BY <1>4, <1>m, TrimmedType DEF TrimBuffer, KeptIn
  <2> QED BY <1>2, <1>4, <2>1 DEF TrimBuffer
<1>5. CASE UNCHANGED <<last, buffer>>
  BY <1>5, <1>u DEF KeptIn
<1> QED BY <1>1, <1>3, <1>4, <1>5 DEF HandlerStep, LookupDevice, TouchDevice, GetBaseline,
           SetBufferTtl, SetBaseline, SetFirstBaseline, Broadcast, redis

\* A run holds what it reads, and writes what it holds.
LEMMA KeptRunStep ==
  ASSUME NEW S, TypeInv, KeptIn(S), NEW j \in Runs, StartRun(j) \/ RunStep(j)
  PROVE  KeptIn(S)'
<1> USE DEF TypeInv
<1>u. UNCHANGED last
  BY DEF StartRun, RunStep, ReadLast, ReadEvents, LookupOwner, WritePoint, RejectPoint, ClearEvents, redis
<1>t. r \in [Runs -> RunState] /\ r[j] \in RunState /\ HeldIn(r[j], S)
  BY DEF TypeOK, KeptIn
<1>p. ASSUME NEW new, HeldIn(new, S), r' = [r EXCEPT ![j] = new],
             influx' \subseteq influx \union S,
             \A d \in Devices : buffer'[d] = buffer[d] \/ buffer'[d] = <<>>
      PROVE  KeptIn(S)'
  <2>1. r'[j] = new /\ \A n \in Runs \ {j} : r'[n] = r[n]
    BY <1>p, <1>t
  <2>2. \A n \in Runs : HeldIn(r[n], S)'
    <3> SUFFICES ASSUME NEW n \in Runs, NEW now, now = r'[n] PROVE HeldIn(now, S)
      BY DEF HeldIn
    <3> QED BY <1>p, <2>1 DEF KeptIn
  <2>3. \A d \in Devices : buffer'[d] \in Seq(S)
    BY <1>p, EmptySeq DEF KeptIn
  <2> QED BY <1>p, <1>u, <2>2, <2>3 DEF KeptIn
<1>1. CASE StartRun(j)
  <2>1. PICK new : new = NextDevice({d \in Devices : last[d] # Null})
    OBVIOUS
  <2>2. HeldIn(new, S)
    BY <2>1, IdleRunHeld
  <2>3. r' = [r EXCEPT ![j] = new] /\ influx' = influx /\ buffer' = buffer
    BY <1>1, <2>1 DEF StartRun, redis
  <2> QED BY <1>p, <2>2, <2>3
<1>2. ASSUME NEW d \in Devices, ReadLast(j, d) PROVE KeptIn(S)'
  <2>1. PICK new : new = [r[j] EXCEPT !.pc = "getEvents", !.todo = r[j].todo \ {d}, !.dev = d,
                                      !.last = last[d]]
    OBVIOUS
  <2>2. r' = [r EXCEPT ![j] = new]
    BY <1>2, <1>t, <2>1 DEF ReadLast, RunState
  <2>3. new.last = last[d] /\ new.events = r[j].events /\ new.left = r[j].left
    BY <1>t, <2>1 DEF RunState
  <2>4. HeldIn(new, S)
    BY <1>t, <2>3 DEF HeldIn, KeptIn
  <2>5. influx' = influx /\ buffer' = buffer
    BY <1>2 DEF ReadLast, redis
  <2> QED BY <1>p, <2>2, <2>4, <2>5
<1>3. CASE ReadEvents(j)
  <2>1. PICK next, on : next = NextDevice(r[j].todo)
                        /\ on = [r[j] EXCEPT !.pc = "owner", !.events = buffer[r[j].dev]]
    OBVIOUS
  <2>2. r' = [r EXCEPT ![j] = next] \/ r' = [r EXCEPT ![j] = on]
    BY <1>3, <1>t, <2>1 DEF ReadEvents
  <2>3. buffer[r[j].dev] \in Seq(S)
    BY <1>3 DEF ReadEvents, RunsKnowTheirDevice, KeptIn
  <2>4. on.last = r[j].last /\ on.left = r[j].left /\ on.events = buffer[r[j].dev]
    BY <1>t, <2>1 DEF RunState
  <2>5. HeldIn(on, S) /\ HeldIn(next, S)
    BY <1>t, <2>1, <2>3, <2>4, IdleRunHeld DEF HeldIn
  <2>6. influx' = influx /\ buffer' = buffer
    BY <1>3 DEF ReadEvents, redis
  <2> QED BY <1>p, <2>2, <2>5, <2>6
<1>4. CASE LookupOwner(j)
  <2>1. PICK next, on : next = NextDevice(r[j].todo)
                        /\ on = [r[j] EXCEPT !.pc = "write", !.left = Readings(r[j])]
    OBVIOUS
  <2>2. r' = [r EXCEPT ![j] = on] \/ r' = [r EXCEPT ![j] = next]
    BY <1>4, <1>t, <2>1 DEF LookupOwner
  <2>3. Readings(r[j]) \in Seq(S)
    <3>1. r[j].events \in Seq(S) /\ <<>> \in Seq(S)
      BY <1>t, EmptySeq DEF HeldIn
    <3>2. r[j].last # Null => <<r[j].last>> \in Seq(S)
      BY <1>t DEF HeldIn
    <3> QED BY <3>1, <3>2, ConcatProperties DEF Readings
  <2>4. on.last = r[j].last /\ on.left = Readings(r[j]) /\ on.events = r[j].events
    BY <1>t, <2>1 DEF RunState
  <2>5. HeldIn(on, S) /\ HeldIn(next, S)
    BY <1>t, <2>1, <2>3, <2>4, IdleRunHeld DEF HeldIn
  <2>6. influx' = influx /\ buffer' = buffer
    BY <1>4 DEF LookupOwner, redis
  <2> QED BY <1>p, <2>2, <2>5, <2>6
<1>5. CASE WritePoint(j)
  <2>1. r[j].left \in Seq(S) /\ r[j].left # <<>>
    BY <1>5, <1>t DEF WritePoint, HeldIn, RunsKnowTheirDevice
  <2>2. Head(r[j].left) \in S /\ Tail(r[j].left) \in Seq(S)
    BY <2>1, HeadTailProperties
  <2>3. PICK pc : pc = IF Len(r[j].left) = 1 THEN "clear" ELSE "write"
    OBVIOUS
  <2>4. PICK new : new = [r[j] EXCEPT !.left = Tail(r[j].left), !.pc = pc]
    OBVIOUS
  <2>5. r' = [r EXCEPT ![j] = new]
    BY <1>5, <1>t, <2>3, <2>4 DEF WritePoint, RunState
  <2>6. new.last = r[j].last /\ new.left = Tail(r[j].left) /\ new.events = r[j].events
    BY <1>t, <2>4 DEF RunState
  <2>7. HeldIn(new, S)
    BY <1>t, <2>2, <2>6 DEF HeldIn
  <2>8. influx' \subseteq influx \union S /\ buffer' = buffer
    BY <1>5, <2>2 DEF WritePoint, redis
  <2> QED BY <1>p, <2>5, <2>7, <2>8
<1>6. CASE ClearEvents(j)
  <2>1. PICK next : next = NextDevice(r[j].todo)
    OBVIOUS
  <2>2. r' = [r EXCEPT ![j] = next] /\ HeldIn(next, S)
    BY <1>6, <2>1, IdleRunHeld DEF ClearEvents
  <2>3. influx' = influx /\ \A d \in Devices : buffer'[d] = buffer[d] \/ buffer'[d] = <<>>
    BY <1>6 DEF ClearEvents, TypeOK
  <2> QED BY <1>p, <2>2, <2>3
<1>7. CASE RejectPoint(j)
  <2>1. PICK next : next = IdleRun
    OBVIOUS
  <2>2. r' = [r EXCEPT ![j] = next] /\ HeldIn(next, S)
    BY <1>7, <2>1, IdleRunHeld DEF RejectPoint
  <2>3. influx' = influx /\ buffer' = buffer
    BY <1>7 DEF RejectPoint, redis
  <2> QED BY <1>p, <2>2, <2>3
<1> QED BY <1>1, <1>2, <1>3, <1>4, <1>5, <1>6, <1>7 DEF RunStep

LEMMA KeptEnvironment ==
  ASSUME NEW S, TypeInv, KeptIn(S), Environment
  PROVE  KeptIn(S)'
<1> USE DEF TypeInv
<1>1. ASSUME NEW d \in Devices
      PROVE  /\ last'[d] = last[d] \/ last'[d] = Null
             /\ buffer'[d] = buffer[d] \/ buffer'[d] = <<>>
  BY DEF Environment, Receive, ExpireLast, ExpireBaseline, ExpireBuffer, Fault, redis, TypeOK
<1>2. ASSUME NEW n \in Runs
      PROVE  HeldIn(r[n], S)'
  <2>1. PICK now : now = r'[n]
    OBVIOUS
  <2>2. r'[n] = r[n] \/ r'[n] = IdleRun
    BY DEF Environment, Receive, ExpireLast, ExpireBaseline, ExpireBuffer, Fault, TypeOK
  <2>3. HeldIn(now, S)
    BY <2>1, <2>2, IdleRunHeld DEF KeptIn
  <2> QED BY <2>1, <2>3 DEF HeldIn
<1>3. influx' = influx
  BY DEF Environment, Receive, ExpireLast, ExpireBaseline, ExpireBuffer, Fault
<1> QED BY <1>1, <1>2, <1>3, EmptySeq DEF KeptIn

\* What a step of a handler is to the flow: it caches, it broadcasts, or neither.
MovesQuietly(k) ==
  /\ h[k].pc \notin {"idle", "setLast", "broadcast"} /\ last' = last
  /\ (k \in ToSend)' <=> k \in ToSend

LEMMA HandlerMoves ==
  ASSUME TypeInv, NEW k \in Handlers, HandlerStep(k)
  PROVE  /\ \A n \in Handlers \ {k} : h'[n] = h[n]
         /\ h[k].pc # "idle" /\ UNCHANGED <<influx, r, received, faults>>
         /\ h'[k].pc # "idle" => h'[k].msg.id = h[k].msg.id /\ h'[k].msg.dev = h[k].msg.dev
         /\ \/ SetTelemetryLast(k) /\ h[k].pc = "setLast" /\ h'[k].pc = "getBaseline"
            \/ Broadcast(k) /\ h[k].pc = "broadcast" /\ h'[k].pc = "idle" /\ last' = last
            \/ MovesQuietly(k)
<1> USE DEF TypeInv
<1>t. h \in [Handlers -> HandlerState] /\ h[k] \in HandlerState
  BY DEF TypeOK
<1>u. UNCHANGED <<influx, r, received, faults>>
  BY DEF HandlerStep, LookupDevice, TouchDevice, SetTelemetryLast, GetBaseline, PushEvent,
         TrimBuffer, SetBufferTtl, SetBaseline, SetFirstBaseline, Broadcast
<1>g. ASSUME NEW pc, Goto(k, pc)
      PROVE  /\ h'[k].pc = pc /\ h'[k].msg = h[k].msg
             /\ \A n \in Handlers \ {k} : h'[n] = h[n]
  BY <1>g, <1>t DEF Goto, HandlerState
<1>d. ASSUME Done(k)
      PROVE  h'[k].pc = "idle" /\ \A n \in Handlers \ {k} : h'[n] = h[n]
  BY <1>d, <1>t DEF Done, IdleHandler
<1>1. CASE LookupDevice(k)
  BY <1>1, <1>g, <1>d, <1>u DEF LookupDevice, MovesQuietly, ToSend, redis
<1>2. CASE TouchDevice(k)
  BY <1>2, <1>g, <1>u DEF TouchDevice, MovesQuietly, ToSend, redis
<1>3. CASE SetTelemetryLast(k)
  BY <1>3, <1>g, <1>u DEF SetTelemetryLast
<1>4. CASE GetBaseline(k)
  <2>1. PICK v, pc, base : /\ h' = [h EXCEPT ![k].pc = pc, ![k].msg.anomaly_type = v, ![k].noBase = base]
                           /\ pc = "setBaseline" \/ pc = "push"
    BY <1>4 DEF GetBaseline
  <2>2. /\ h'[k].msg = [h[k].msg EXCEPT !.anomaly_type = v] /\ h'[k].pc = pc
        /\ \A n \in Handlers \ {k} : h'[n] = h[n]
    BY <1>t, <2>1 DEF HandlerState
  <2>3. h[k].msg \in Reading
    BY <1>4 DEF GetBaseline, BusyHandlersHoldReadings
  <2>4. h'[k].msg.id = h[k].msg.id /\ h'[k].msg.dev = h[k].msg.dev
    BY <2>2, <2>3 DEF Reading
  <2> QED BY <1>4, <1>u, <2>1, <2>2, <2>4 DEF GetBaseline, MovesQuietly, ToSend, redis
<1>5. CASE PushEvent(k)
  BY <1>5, <1>g, <1>u DEF PushEvent, MovesQuietly, ToSend
<1>6. CASE TrimBuffer(k)
  BY <1>6, <1>g, <1>u DEF TrimBuffer, MovesQuietly, ToSend
<1>a. AfterVerdict(k) \in {"setFirst", "broadcast"}
  BY DEF AfterVerdict
<1>7. CASE SetBufferTtl(k)
  BY <1>7, <1>a, <1>g, <1>u DEF SetBufferTtl, MovesQuietly, ToSend
<1>8. CASE SetBaseline(k)
  BY <1>8, <1>a, <1>g, <1>u DEF SetBaseline, MovesQuietly, ToSend
<1>9. CASE SetFirstBaseline(k)
  BY <1>9, <1>g, <1>u DEF SetFirstBaseline, MovesQuietly, ToSend
<1>10. CASE Broadcast(k)
  BY <1>10, <1>d, <1>u DEF Broadcast, redis
<1> QED BY <1>1, <1>2, <1>3, <1>4, <1>5, <1>6, <1>7, <1>8, <1>9, <1>10 DEF HandlerStep

\* The history moves with the two steps of a handler that the flow sees, and with
\* no other.
LEMMA FlowCases ==
  ASSUME TypeInv, Next, Record
  PROVE  \/ \E k \in Handlers : SetTelemetryLast(k) /\ RecordCached(k)
         \/ \E k \in Handlers : Broadcast(k) /\ RecordSent(k)
         \/ /\ UNCHANGED flow
            /\ \/ \E k \in Handlers : HandlerStep(k) /\ MovesQuietly(k)
               \/ \E j \in Runs : StartRun(j) \/ RunStep(j)
               \/ Environment
<1>1. ASSUME NEW k \in Handlers, HandlerStep(k)
      PROVE  \/ SetTelemetryLast(k) /\ RecordCached(k)
             \/ Broadcast(k) /\ RecordSent(k)
             \/ UNCHANGED flow /\ MovesQuietly(k)
  <2>1. ASSUME NEW i \in Handlers, Caches(i) \/ Sends(i) PROVE i = k
    BY <1>1, <2>1, HandlerMoves DEF Caches, Sends
  <2>2. CASE SetTelemetryLast(k) /\ h[k].pc = "setLast" /\ h'[k].pc = "getBaseline"
    BY <2>1, <2>2 DEF Record, Caches, Sends
  <2>3. CASE Broadcast(k) /\ h[k].pc = "broadcast" /\ h'[k].pc = "idle"
    <3>1. Sends(k) /\ ~Caches(k)
      BY <1>1, <2>3, HandlerMoves DEF Caches, Sends
    <3> QED BY <2>1, <2>3, <3>1 DEF Record
  <2>4. CASE MovesQuietly(k)
    BY <2>1, <2>4 DEF Record, Caches, Sends, MovesQuietly
  <2> QED BY <1>1, <2>2, <2>3, <2>4, HandlerMoves
<1>2. ASSUME NEW j \in Runs, StartRun(j) \/ RunStep(j) PROVE UNCHANGED flow
  <2>1. h' = h
    BY <1>2 DEF StartRun, RunStep, ReadLast, ReadEvents, LookupOwner, WritePoint, RejectPoint, ClearEvents
  <2> QED BY <2>1 DEF Record, Caches, Sends
<1>3. ASSUME Environment PROVE UNCHANGED flow
  <2> SUFFICES ASSUME NEW i \in Handlers PROVE ~Caches(i) /\ ~Sends(i)
    BY DEF Record
  <2>1. ASSUME NEW k \in Handlers, NEW d \in Devices, NEW s \in Samples, Receive(k, d, s)
        PROVE  ~Caches(i) /\ ~Sends(i)
    <3>1. i # k => h'[i] = h[i]
      BY <2>1 DEF Receive, TypeInv, TypeOK
    <3> QED BY <2>1, <3>1 DEF Receive, Caches, Sends
  <2>2. ASSUME NEW d \in Devices, ExpireLast(d) \/ ExpireBaseline(d) \/ ExpireBuffer(d)
        PROVE  ~Caches(i) /\ ~Sends(i)
    BY <2>2 DEF ExpireLast, ExpireBaseline, ExpireBuffer, Caches, Sends
  <2>3. ASSUME NEW K, Fault(K) PROVE ~Caches(i) /\ ~Sends(i)
    <3>1. faults' # faults
      BY <2>3 DEF Fault, TypeInv, TypeOK
    <3> QED BY <2>3, <3>1 DEF Fault, IdleHandler, Caches, Sends
  <2> QED BY <1>3, <2>1, <2>2, <2>3 DEF Environment
<1> QED BY <1>1, <1>2, <1>3 DEF Next

LEMMA ReadingParts ==
  ASSUME NEW p \in Reading
  PROVE  p.id \in 1..MaxMsgs /\ p.dev \in Devices
BY DEF Reading

\* Caching gives the next number to the message of the handler and keeps the others.
LEMMA CacheNumbers ==
  ASSUME TypeInv, OrderInv, HandlersNumbered, NEW k \in Handlers,
         SetTelemetryLast(k), RecordCached(k)
  PROVE  /\ OrderInv'
         /\ h[k].msg \in Reading /\ order'[h[k].msg.id] = count + 1
         /\ \A a \in 1..MaxMsgs : a # h[k].msg.id => order'[a] = order[a]
         /\ order[h[k].msg.id] = 0
<1> DEFINE id == h[k].msg.id
<1>1. h[k].pc = "setLast" /\ h[k].msg \in Reading /\ id \in 1..MaxMsgs /\ h[k].msg.dev \in Devices
  BY ReadingParts DEF SetTelemetryLast, TypeInv, BusyHandlersHoldReadings
<1>2. order[id] = 0 /\ id =< received
  BY <1>1 DEF HandlersNumbered, ToSend
<1>3. /\ count' = count + 1 /\ order' = [order EXCEPT ![id] = count + 1]
      /\ cached' = cached \union {[n |-> count + 1, dev |-> h[k].msg.dev]} /\ received' = received
  BY DEF RecordCached, SetTelemetryLast
<1> HIDE DEF id
<1>4. order'[id] = count + 1 /\ \A a \in 1..MaxMsgs : a # id => order'[a] = order[a]
  BY <1>1, <1>3 DEF OrderInv
<1>5. count \in Nat /\ \A a \in 1..MaxMsgs : order[a] \in 0..count
  BY DEF OrderInv
<1>6. order' \in [1..MaxMsgs -> 0..count']
  BY <1>1, <1>3, <1>5 DEF OrderInv
<1>7. cached' \subseteq [n : 1..count', dev : Devices]
  BY <1>1, <1>3, <1>5 DEF OrderInv
<1>8. \A a, b \in 1..MaxMsgs : order'[a] = order'[b] /\ order'[a] # 0 => a = b
  BY <1>4, <1>5 DEF OrderInv
<1>9. \A a \in 1..MaxMsgs : a > received' => order'[a] = 0
  BY <1>1, <1>2, <1>3, <1>4 DEF OrderInv, TypeInv, TypeOK
<1>10. OrderInv'
  BY <1>3, <1>5, <1>6, <1>7, <1>8, <1>9 DEF OrderInv
<1> QED BY <1>1, <1>2, <1>4, <1>10 DEF id

\* What has been cached keeps its number.
LEMMA FiledStays ==
  ASSUME TypeInv, OrderInv, HandlersNumbered, Next, Record
  PROVE  Filed \subseteq Filed' /\ \A p \in Filed : Point(p)' = Point(p)
<1> SUFFICES ASSUME NEW p \in Filed PROVE p \in Filed' /\ Point(p)' = Point(p)
  OBVIOUS
<1>1. p \in Reading /\ p.id \in 1..MaxMsgs /\ Point(p) \in cached
  BY ReadingParts DEF Filed
<1>2. order[p.id] # 0
  BY <1>1 DEF OrderInv, Point
<1>3. order'[p.id] = order[p.id] /\ cached \subseteq cached'
  <2>1. ASSUME NEW k \in Handlers, SetTelemetryLast(k), RecordCached(k)
        PROVE  order'[p.id] = order[p.id] /\ cached \subseteq cached'
    BY <1>1, <1>2, <2>1, CacheNumbers DEF RecordCached
  <2>2. ASSUME NEW k \in Handlers, RecordSent(k)
        PROVE  order'[p.id] = order[p.id] /\ cached \subseteq cached'
    BY <2>2 DEF RecordSent
  <2>3. CASE UNCHANGED flow
    BY <2>3 DEF flow
  <2> QED BY <2>1, <2>2, <2>3, FlowCases
<1> QED BY <1>1, <1>3 DEF Filed, Point

LEMMA OrderStep ==
  ASSUME TypeInv, OrderInv, HandlersNumbered, Next, Record
  PROVE  OrderInv'
<1>1. ASSUME UNCHANGED <<order, cached, count>>, received' \in Nat, received' >= received
      PROVE  OrderInv'
  BY <1>1 DEF OrderInv, TypeInv, TypeOK
<1>2. received \in Nat
  BY PipelineAssumption DEF TypeInv, TypeOK
<1>3. received' \in Nat /\ received' >= received
  <2>1. ASSUME NEW k \in Handlers, HandlerStep(k) PROVE received' = received
    BY <2>1, HandlerMoves
  <2>2. ASSUME NEW j \in Runs, StartRun(j) \/ RunStep(j) PROVE received' = received
    BY <2>2 DEF StartRun, RunStep, ReadLast, ReadEvents, LookupOwner, WritePoint, RejectPoint, ClearEvents
  <2>3. ASSUME Environment PROVE received' = received \/ received' = received + 1
    BY <2>3 DEF Environment, Receive, ExpireLast, ExpireBaseline, ExpireBuffer, Fault
  <2> QED BY <1>2, <2>1, <2>2, <2>3 DEF Next
<1>4. ASSUME NEW k \in Handlers, RecordSent(k) PROVE OrderInv'
  BY <1>1, <1>3, <1>4 DEF RecordSent
<1>5. CASE UNCHANGED flow
  BY <1>1, <1>3, <1>5 DEF flow
<1> QED BY <1>4, <1>5, CacheNumbers, FlowCases

LEMMA NumberedStep ==
  ASSUME TypeInv, OrderInv, HandlersNumbered, Next, Record
  PROVE  HandlersNumbered'
<1>i. received \in Nat
  BY PipelineAssumption DEF TypeInv, TypeOK
<1>m. ASSUME NEW n \in Handlers, h[n].pc # "idle"
      PROVE  h[n].msg \in Reading /\ h[n].msg.id \in 1..MaxMsgs /\ h[n].msg.dev \in Devices
  BY <1>m, ReadingParts DEF TypeInv, BusyHandlersHoldReadings
\* Handlers that stay, or end, keep what they have.
<1>s. ASSUME received' = received, UNCHANGED <<order, cached>>,
             \A n \in Handlers : h'[n] = h[n] \/ h'[n].pc = "idle"
      PROVE  HandlersNumbered'
  BY <1>s DEF HandlersNumbered, ToSend, Point
<1>1. ASSUME NEW k \in Handlers, SetTelemetryLast(k), RecordCached(k) PROVE HandlersNumbered'
  <2>1. HandlerStep(k)
    BY <1>1 DEF HandlerStep
  <2>2. /\ \A n \in Handlers \ {k} : h'[n] = h[n]
        /\ received' = received /\ h[k].pc = "setLast"
    BY <1>1, <2>1, HandlerMoves DEF SetTelemetryLast
  <2>3. h'[k].pc = "getBaseline" /\ h'[k].msg.id = h[k].msg.id /\ h'[k].msg.dev = h[k].msg.dev
    BY <1>1, <2>1, <2>2, HandlerMoves DEF Broadcast, MovesQuietly
  <2>4. [n |-> count + 1, dev |-> h[k].msg.dev] \in cached' /\ cached \subseteq cached'
    BY <1>1 DEF RecordCached
  <2>5. order'[h'[k].msg.id] = count + 1
    BY <1>1, <2>3, CacheNumbers
  <2>6. ASSUME NEW n \in Handlers \ {k}, h[n].pc # "idle" PROVE order'[h[n].msg.id] = order[h[n].msg.id]
    BY <1>1, <1>m, <2>2, <2>6, CacheNumbers DEF HandlersNumbered
  <2>7. \A n \in Handlers : h'[n].pc # "idle" => h'[n].msg.id =< received'
    BY <2>2, <2>3 DEF HandlersNumbered
  <2>8. ASSUME NEW n \in Handlers, h'[n].pc # "idle"
        PROVE  IF (n \in ToSend)' THEN (Point(h[n].msg) \in cached)' ELSE order'[h'[n].msg.id] = 0
    <3>1. CASE n = k
      BY <2>3, <2>4, <2>5, <3>1 DEF ToSend, Point
    <3>2. CASE n # k
      <4>1. h'[n] = h[n] /\ order'[h[n].msg.id] = order[h[n].msg.id]
        BY <2>2, <2>6, <2>8, <3>2
      <4> QED BY <2>4, <2>8, <4>1 DEF HandlersNumbered, ToSend, Point
    <3> QED BY <3>1, <3>2
  <2>9. \A i, n \in Handlers :
          h'[i].pc # "idle" /\ h'[n].pc # "idle" /\ i # n => h'[i].msg.id # h'[n].msg.id
    BY <2>2, <2>3 DEF HandlersNumbered
  <2> QED BY <2>7, <2>8, <2>9 DEF HandlersNumbered
<1>2. ASSUME NEW k \in Handlers, Broadcast(k), RecordSent(k) PROVE HandlersNumbered'
  <2>1. HandlerStep(k)
    BY <1>2 DEF HandlerStep
  <2>2. h'[k].pc = "idle"
    BY <1>2 DEF Broadcast, Done, IdleHandler, TypeInv, TypeOK
  <2> QED BY <1>2, <1>s, <2>1, <2>2, HandlerMoves DEF RecordSent
<1>3. ASSUME NEW k \in Handlers, HandlerStep(k), MovesQuietly(k), UNCHANGED flow
      PROVE  HandlersNumbered'
  <2>1. /\ \A n \in Handlers \ {k} : h'[n] = h[n]
        /\ received' = received /\ h[k].pc # "idle"
        /\ h'[k].pc # "idle" => h'[k].msg.id = h[k].msg.id /\ h'[k].msg.dev = h[k].msg.dev
        /\ (k \in ToSend)' <=> k \in ToSend
    BY <1>3, HandlerMoves DEF MovesQuietly
  <2>2. order' = order /\ cached' = cached
    BY <1>3 DEF flow
  <2>3. \A n \in Handlers : h'[n].pc # "idle" =>
          /\ h[n].pc # "idle" /\ h'[n].msg.id = h[n].msg.id /\ h'[n].msg.dev = h[n].msg.dev
          /\ (n \in ToSend)' <=> n \in ToSend
    BY <2>1 DEF ToSend
  <2> HIDE DEF ToSend
  <2>4. \A n \in Handlers : h'[n].pc # "idle" => Point(h[n].msg)' = Point(h[n].msg)
    BY <2>2, <2>3 DEF Point
  <2> QED BY <2>1, <2>2, <2>3, <2>4 DEF HandlersNumbered
<1>4. ASSUME NEW j \in Runs, StartRun(j) \/ RunStep(j), UNCHANGED flow PROVE HandlersNumbered'
  <2>1. UNCHANGED <<h, received, order, cached>>
    BY <1>4 DEF StartRun, RunStep, ReadLast, ReadEvents, LookupOwner, WritePoint, RejectPoint, ClearEvents, flow
  <2> QED BY <1>s, <2>1
<1>5. ASSUME Environment, UNCHANGED flow PROVE HandlersNumbered'
  <2>1. order' = order /\ cached' = cached
    BY <1>5 DEF flow
  <2>2. ASSUME NEW k \in Handlers, NEW d \in Devices, NEW s \in Samples, Receive(k, d, s)
        PROVE  HandlersNumbered'
    <3>1. /\ h'[k].pc = "lookup" /\ h'[k].msg.id = received + 1
          /\ \A n \in Handlers \ {k} : h'[n] = h[n]
      BY <2>2 DEF Receive, TypeInv, TypeOK
    <3>2. received' = received + 1 /\ received + 1 \in 1..MaxMsgs
      BY <1>i, <2>2, PipelineAssumption DEF Receive
    <3>3. order[received + 1] = 0
      BY <1>i, <3>2 DEF OrderInv
    <3>4. ASSUME NEW n \in Handlers \ {k}, h[n].pc # "idle"
          PROVE  h[n].msg.id \in Int /\ h[n].msg.id =< received
      BY <1>m, <3>4 DEF HandlersNumbered
    <3>5. \A n \in Handlers : h'[n].pc # "idle" => h'[n].msg.id =< received'
      BY <1>i, <3>1, <3>2, <3>4
    <3>6. ASSUME NEW n \in Handlers, h'[n].pc # "idle"
          PROVE  IF (n \in ToSend)' THEN (Point(h[n].msg) \in cached)' ELSE order'[h'[n].msg.id] = 0
      <4>1. CASE n = k
        BY <2>1, <3>1, <3>3, <4>1 DEF ToSend
      <4>2. CASE n # k
        BY <2>1, <3>1, <3>6, <4>2 DEF HandlersNumbered, ToSend, Point
      <4> QED BY <4>1, <4>2
    <3>7. \A i, n \in Handlers :
            h'[i].pc # "idle" /\ h'[n].pc # "idle" /\ i # n => h'[i].msg.id # h'[n].msg.id
      BY <1>i, <3>1, <3>4 DEF HandlersNumbered
    <3> QED BY <3>5, <3>6, <3>7 DEF HandlersNumbered
  <2>3. ASSUME NEW d \in Devices, ExpireLast(d) \/ ExpireBaseline(d) \/ ExpireBuffer(d)
        PROVE  HandlersNumbered'
    <3>1. h' = h /\ received' = received
      BY <2>3 DEF ExpireLast, ExpireBaseline, ExpireBuffer
    <3> QED BY <1>s, <2>1, <3>1
  <2>4. ASSUME NEW K, Fault(K) PROVE HandlersNumbered'
    <3>1. received' = received /\ \A n \in Handlers : h'[n] = h[n] \/ h'[n].pc = "idle"
      BY <2>4 DEF Fault, IdleHandler
    <3> QED BY <1>s, <2>1, <3>1
  <2> QED BY <1>5, <2>2, <2>3, <2>4 DEF Environment
<1> QED BY <1>1, <1>2, <1>3, <1>4, <1>5, FlowCases

\* Only cached readings are kept, in Redis, in InfluxDB and by the runs.
LEMMA FiledStep ==
  ASSUME TypeInv, FlowInv, Next, Record
  PROVE  KeptIn(Filed)'
<1> USE DEF FlowInv
<1>1. PICK S : S = Filed'
  OBVIOUS
<1>2. KeptIn(S)
  <2>1. PICK F : F = Filed
    OBVIOUS
  <2>2. F \subseteq S /\ KeptIn(F)
    BY <1>1, <2>1, FiledStays
  <2> QED BY <2>2, LongerKept
<1>3. KeptIn(S)'
  <2>1. ASSUME NEW k \in Handlers, HandlerStep(k) PROVE KeptIn(S)'
    <3>1. ASSUME SetTelemetryLast(k) PROVE h[k].msg \in S
      <4>1. RecordCached(k)
        <5>1. Caches(k)
          BY <2>1, <3>1, HandlerMoves DEF SetTelemetryLast, Broadcast, MovesQuietly, Caches
        <5>2. ASSUME NEW i \in Handlers, Caches(i) \/ Sends(i) PROVE i = k
          BY <2>1, <5>2, HandlerMoves DEF Caches, Sends
        <5>3. ~Sends(k)
          BY <5>1 DEF Caches, Sends
        <5> QED BY <5>1, <5>2, <5>3 DEF Record
      <4>2. h[k].msg \in Reading /\ order'[h[k].msg.id] = count + 1
        BY <3>1, <4>1, CacheNumbers
      <4>3. [n |-> count + 1, dev |-> h[k].msg.dev] \in cached'
        BY <4>1 DEF RecordCached
      <4>4. \A p \in Reading : [n |-> order'[p.id], dev |-> p.dev] \in cached' => p \in S
        BY <1>1 DEF Filed, Point
      <4> QED BY <4>2, <4>3, <4>4
    <3>2. ASSUME PushEvent(k) PROVE h[k].msg \in S
      <4>1. k \in ToSend /\ h[k].pc # "idle"
        BY <3>2 DEF PushEvent, ToSend
      <4>2. h[k].msg \in Filed
        BY <4>1 DEF HandlersNumbered, Filed, TypeInv, BusyHandlersHoldReadings
      <4> QED BY <1>1, <4>2, FiledStays
    <3> QED BY <1>2, <2>1, <3>1, <3>2, KeptHandlerStep
  <2>2. ASSUME NEW j \in Runs, StartRun(j) \/ RunStep(j) PROVE KeptIn(S)'
    BY <1>2, <2>2, KeptRunStep
  <2>3. ASSUME Environment PROVE KeptIn(S)'
    BY <1>2, <2>3, KeptEnvironment
  <2> QED BY <2>1, <2>2, <2>3 DEF Next
<1> QED BY <1>1, <1>3 DEF KeptIn, HeldIn

\* The abstract values, where the state they are made of stays.
LEMMA FlowValues ==
  ASSUME TypeInv, FlowInv, Next, Record
  PROVE  /\ \A d \in Devices : last'[d] = last[d] => FlowLast'[d] = FlowLast[d]
         /\ \A p \in influx : Point(p)' = Point(p)
         /\ last' = last => FlowLast' = FlowLast
         /\ influx' = influx => FlowInflux' = FlowInflux
<1>1. \A p \in Filed : Point(p)' = Point(p)
  BY FiledStays DEF FlowInv
<1>2. \A p \in Filed : order'[p.id] = order[p.id]
  BY <1>1 DEF Point
<1>3. ASSUME NEW d \in Devices, last'[d] = last[d]
      PROVE  (IF last[d] = Null THEN 0 ELSE order[last[d].id])'
             = IF last[d] = Null THEN 0 ELSE order[last[d].id]
  BY <1>2, <1>3 DEF FlowInv, KeptIn
<1>4. \A p \in influx : Point(p)' = Point(p)
  BY <1>1 DEF FlowInv, KeptIn
<1>5. influx' = influx => FlowInflux' = FlowInflux
  BY <1>4 DEF FlowInflux
<1> QED BY <1>3, <1>4, <1>5 DEF FlowLast

LEMMA SendingValues ==
  ASSUME \A n \in Handlers : (n \in ToSend)' <=> n \in ToSend,
         \A n \in ToSend : h'[n].msg.id = h[n].msg.id /\ h'[n].msg.dev = h[n].msg.dev,
         order' = order
  PROVE  FlowSending' = FlowSending
<1>1. ToSend \subseteq Handlers /\ ToSend' = ToSend
  BY DEF ToSend
<1>2. \A n \in ToSend : Point(h[n].msg)' = Point(h[n].msg)
  BY DEF Point
<1> QED BY <1>1, <1>2 DEF FlowSending

\* A handler that caches is a reading cached and to be sent.
LEMMA CacheMaps ==
  ASSUME TypeInv, FlowInv, Next, Record, NEW k \in Handlers,
         SetTelemetryLast(k), RecordCached(k)
  PROVE  Flow!Next
<1> DEFINE dev == h[k].msg.dev
           m   == [n |-> count + 1, dev |-> dev]
<1> USE DEF FlowInv
<1>1. /\ h[k].msg \in Reading /\ dev \in Devices /\ h[k].msg.id \in 1..MaxMsgs
      /\ order'[h[k].msg.id] = count + 1
      /\ \A a \in 1..MaxMsgs : a # h[k].msg.id => order'[a] = order[a]
      /\ order[h[k].msg.id] = 0
  BY CacheNumbers, ReadingParts
<1>2. HandlerStep(k)
  BY DEF HandlerStep
<1>3. /\ count' = count + 1 /\ cached' = cached \union {m}
      /\ newest' = newest /\ faults' = faults /\ influx' = influx
  BY <1>2, HandlerMoves DEF RecordCached
<1>4. FlowInflux' = FlowInflux
  BY <1>3, FlowValues
<1>5. FlowLast' = [FlowLast EXCEPT ![dev] = count + 1]
  <2>1. ASSUME NEW d \in Devices, d # dev PROVE FlowLast'[d] = FlowLast[d]
    <3>1. last'[d] = last[d]
      BY <2>1 DEF SetTelemetryLast, TypeInv, TypeOK
    <3> QED BY <3>1, FlowValues
  <2>2. last'[dev] = h[k].msg
    BY <1>1 DEF SetTelemetryLast, TypeInv, TypeOK
  <2>3. FlowLast'[dev] = count + 1
    BY <1>1, <2>2, NullIsNoReading DEF FlowLast
  <2>4. FlowLast = [d \in Devices |-> FlowLast[d]] /\ FlowLast' = [d \in Devices |-> FlowLast'[d]]
    BY DEF FlowLast
  <2> HIDE DEF dev
  <2> QED BY <1>1, <2>1, <2>3, <2>4
<1>6. FlowSending' = FlowSending \union {m}
  <2>1. /\ \A n \in Handlers \ {k} : h'[n] = h[n]
        /\ h[k].pc = "setLast" /\ h'[k].pc = "getBaseline"
        /\ h'[k].msg.id = h[k].msg.id /\ h'[k].msg.dev = dev
    BY <1>2, HandlerMoves DEF SetTelemetryLast, Broadcast, MovesQuietly
  <2>2. ToSend' = ToSend \union {k} /\ k \notin ToSend /\ ToSend \subseteq Handlers
    BY <2>1 DEF ToSend
  <2>3. Point(h[k].msg)' = m
    BY <1>1, <2>1 DEF Point
  <2>4. ASSUME NEW n \in ToSend PROVE Point(h[n].msg)' = Point(h[n].msg)
    <3>1. n \in Handlers \ {k} /\ h[n].pc # "idle" /\ h'[n] = h[n]
      BY <2>1, <2>2 DEF ToSend
    <3>2. h[n].msg \in Reading /\ h[n].msg.id \in 1..MaxMsgs /\ h[n].msg.id # h[k].msg.id
      BY <2>1, <3>1, ReadingParts DEF HandlersNumbered, TypeInv, BusyHandlersHoldReadings
    <3> QED BY <1>1, <3>1, <3>2 DEF Point
  <2> QED BY <2>2, <2>3, <2>4 DEF FlowSending
<1>7. Flow!Cache(dev)
  BY <1>3, <1>4, <1>5, <1>6 DEF Flow!Cache
<1> QED BY <1>1, <1>7 DEF Flow!Next

\* A handler that broadcasts is its reading sent, and no other.
LEMMA SendMaps ==
  ASSUME TypeInv, FlowInv, Next, Record, NEW k \in Handlers,
         Broadcast(k), RecordSent(k)
  PROVE  Flow!Next
<1> DEFINE m == Point(h[k].msg)
<1> USE DEF FlowInv
<1>1. HandlerStep(k)
  BY DEF HandlerStep
<1>2. /\ \A n \in Handlers \ {k} : h'[n] = h[n]
      /\ h[k].pc = "broadcast" /\ h'[k].pc = "idle" /\ last' = last
      /\ influx' = influx /\ faults' = faults
  BY <1>1, HandlerMoves DEF Broadcast, SetTelemetryLast, MovesQuietly
<1>3. /\ newest' = [newest EXCEPT ![m.dev] = Flow!Higher(@, m.n)]
      /\ cached' = cached /\ count' = count /\ order' = order
  BY DEF RecordSent, Flow!Higher
<1>4. FlowLast' = FlowLast /\ FlowInflux' = FlowInflux
  BY <1>2, FlowValues
<1>5. k \in ToSend /\ ToSend' = ToSend \ {k} /\ ToSend \subseteq Handlers
  BY <1>2 DEF ToSend
<1>6. ASSUME NEW n \in ToSend
      PROVE  /\ h[n].pc # "idle" /\ h[n].msg \in Reading /\ h[n].msg.id \in 1..MaxMsgs
             /\ Point(h[n].msg) \in cached /\ order[h[n].msg.id] # 0
  <2>1. n \in Handlers /\ h[n].pc # "idle"
    BY DEF ToSend
  <2>2. h[n].msg \in Reading /\ h[n].msg.id \in 1..MaxMsgs /\ Point(h[n].msg) \in cached
    BY <2>1, ReadingParts DEF HandlersNumbered, TypeInv, BusyHandlersHoldReadings
  <2> QED BY <2>1, <2>2 DEF OrderInv, Point
<1>7. ASSUME NEW n \in ToSend \ {k} PROVE Point(h[n].msg) # m /\ Point(h[n].msg)' = Point(h[n].msg)
  <2>1. h[n].msg.id # h[k].msg.id /\ h'[n] = h[n]
    BY <1>2, <1>5, <1>6 DEF HandlersNumbered
  <2>2. order[h[n].msg.id] # order[h[k].msg.id]
    BY <1>5, <1>6, <2>1 DEF OrderInv
  <2> QED BY <1>3, <2>1, <2>2 DEF Point
<1>8. FlowSending' = FlowSending \ {m} /\ m \in FlowSending
  BY <1>5, <1>7 DEF FlowSending
<1>9. Flow!Send(m)
  BY <1>2, <1>3, <1>4, <1>8 DEF Flow!Send
<1> QED BY <1>8, <1>9 DEF Flow!Next

\* The other steps of a handler are none of the flow.
LEMMA QuietMaps ==
  ASSUME TypeInv, FlowInv, Next, Record, NEW k \in Handlers,
         HandlerStep(k), MovesQuietly(k), UNCHANGED flow
  PROVE  UNCHANGED <<FlowLast, FlowInflux, cached, FlowSending, newest, count, faults>>
<1>1. /\ \A n \in Handlers \ {k} : h'[n] = h[n]
      /\ UNCHANGED <<influx, faults>> /\ last' = last
      /\ h'[k].pc # "idle" => h'[k].msg.id = h[k].msg.id /\ h'[k].msg.dev = h[k].msg.dev
      /\ (k \in ToSend)' <=> k \in ToSend
  BY HandlerMoves DEF MovesQuietly
<1>2. \A n \in Handlers : (n \in ToSend)' <=> n \in ToSend
  BY <1>1 DEF ToSend
<1>3. ASSUME NEW n \in ToSend PROVE h'[n].msg.id = h[n].msg.id /\ h'[n].msg.dev = h[n].msg.dev
  <2>1. n \in Handlers /\ (n \in ToSend)'
    BY <1>2 DEF ToSend
  <2> QED BY <1>1, <2>1 DEF ToSend
<1>4. UNCHANGED <<order, cached, count, newest>>
  BY DEF flow
<1> QED BY <1>1, <1>2, <1>3, <1>4, FlowValues, SendingValues

\* A run only adds what it holds to InfluxDB.
LEMMA RunMaps ==
  ASSUME TypeInv, FlowInv, Next, Record, NEW j \in Runs, StartRun(j) \/ RunStep(j),
         UNCHANGED flow
  PROVE  \/ Flow!Next
         \/ UNCHANGED <<FlowLast, FlowInflux, cached, FlowSending, newest, count, faults>>
<1>1. UNCHANGED <<last, h, faults>> /\ (influx' = influx \/ WritePoint(j))
  BY DEF StartRun, RunStep, ReadLast, ReadEvents, LookupOwner, WritePoint, RejectPoint, ClearEvents, redis
<1>2. UNCHANGED <<order, cached, count, newest>>
  BY DEF flow
<1>3. FlowSending' = FlowSending
  BY <1>1, <1>2 DEF FlowSending, ToSend, Point
<1>4. FlowLast' = FlowLast
  BY <1>1, FlowValues
<1>5. CASE influx' = influx
  BY <1>1, <1>2, <1>3, <1>4, <1>5, FlowValues
<1>6. CASE WritePoint(j)
  <2>1. r[j].left \in Seq(Filed) /\ r[j].left # <<>>
    BY <1>6 DEF WritePoint, TypeInv, RunsKnowTheirDevice, FlowInv, KeptIn, HeldIn
  <2>2. PICK p \in Filed : p = Head(r[j].left)
    BY <2>1, HeadTailProperties
  <2>3. influx' = influx \union {p}
    BY <1>6, <2>2 DEF WritePoint
  <2>4. Point(p) \in cached
    BY <2>2 DEF Filed
  <2>5. \A q \in influx' : Point(q)' = Point(q)
    BY <1>2 DEF Point
  <2>6. FlowInflux' = FlowInflux \union {Point(p)}
    BY <2>3, <2>5 DEF FlowInflux
  <2>7. Flow!Write(Point(p))
    BY <1>1, <1>2, <1>3, <1>4, <2>6 DEF Flow!Write
  <2> QED BY <2>4, <2>7 DEF Flow!Next
<1> QED BY <1>1, <1>5, <1>6

\* A fault loses what its processes had to send; a key may expire.
LEMMA EnvironmentMaps ==
  ASSUME TypeInv, FlowInv, Next, Record, Environment, UNCHANGED flow
  PROVE  \/ Flow!Next
         \/ UNCHANGED <<FlowLast, FlowInflux, cached, FlowSending, newest, count, faults>>
<1>1. UNCHANGED <<order, cached, count, newest>>
  BY DEF flow
<1>2. influx' = influx
  BY DEF Environment, Receive, ExpireLast, ExpireBaseline, ExpireBuffer, Fault
<1>3. FlowInflux' = FlowInflux
  BY <1>2, FlowValues
<1>4. ASSUME NEW k \in Handlers, NEW d \in Devices, NEW s \in Samples, Receive(k, d, s)
      PROVE  UNCHANGED <<FlowLast, FlowSending, faults>>
  <2>1. /\ h[k].pc = "idle" /\ h'[k].pc = "lookup" /\ last' = last /\ faults' = faults
        /\ \A n \in Handlers \ {k} : h'[n] = h[n]
    BY <1>4 DEF Receive, TypeInv, TypeOK, redis
  <2>2. \A n \in Handlers : (n \in ToSend)' <=> n \in ToSend
    BY <2>1 DEF ToSend
  <2>3. \A n \in ToSend : h'[n] = h[n]
    BY <2>1 DEF ToSend
  <2> QED BY <1>1, <2>1, <2>2, <2>3, FlowValues, SendingValues
<1>5. ASSUME NEW d \in Devices, ExpireLast(d)
      PROVE  Flow!Expire(d)
  <2>1. h' = h /\ faults' = faults /\ last[d] # Null /\ last' = [last EXCEPT ![d] = Null]
    BY <1>5 DEF ExpireLast
  <2>2. FlowSending' = FlowSending
    BY <1>1, <2>1 DEF FlowSending, ToSend, Point
  <2>3. FlowLast[d] # 0
    <3>1. last[d] \in Filed
      BY <2>1 DEF FlowInv, KeptIn
    <3>2. last[d] \in Reading /\ order[last[d].id] # 0
      BY <3>1, ReadingParts DEF Filed, Point, FlowInv, OrderInv
    <3> QED BY <2>1, <3>2 DEF FlowLast
  <2>4. FlowLast'[d] = 0 /\ \A e \in Devices : e # d => FlowLast'[e] = FlowLast[e]
    <3>1. last'[d] = Null /\ \A e \in Devices : e # d => last'[e] = last[e]
      BY <2>1 DEF TypeInv, TypeOK
    <3>2. FlowLast'[d] = 0
      BY <3>1 DEF FlowLast
    <3> QED BY <3>1, <3>2, FlowValues
  <2>5. FlowLast = [e \in Devices |-> FlowLast[e]] /\ FlowLast' = [e \in Devices |-> FlowLast'[e]]
    BY DEF FlowLast
  <2>6. FlowLast' = [FlowLast EXCEPT ![d] = 0]
    BY <2>4, <2>5
  <2> QED BY <1>1, <1>3, <2>1, <2>2, <2>3, <2>6 DEF Flow!Expire
<1>6. ASSUME NEW d \in Devices, ExpireBaseline(d) \/ ExpireBuffer(d)
      PROVE  UNCHANGED <<FlowLast, FlowSending, faults>>
  <2>1. UNCHANGED <<h, last, faults>>
    BY <1>6 DEF ExpireBaseline, ExpireBuffer
  <2> QED BY <1>1, <2>1, FlowValues DEF FlowSending, ToSend, Point
<1>7. ASSUME NEW K, Fault(K)
      PROVE  Flow!Next
  <2>1. /\ last' = last /\ faults' = faults + 1
        /\ \A n \in Handlers : IF n \in K THEN h'[n].pc = "idle" ELSE h'[n] = h[n]
    BY <1>7 DEF Fault, IdleHandler, redis
  <2>2. ToSend' = ToSend \ K /\ \A n \in ToSend \ K : h'[n] = h[n]
    BY <2>1 DEF ToSend
  <2>3. PICK M : M = {Point(h[n].msg) : n \in ToSend \intersect K}
    OBVIOUS
  <2>4. ASSUME NEW n \in ToSend \ K
        PROVE  Point(h[n].msg)' = Point(h[n].msg) /\ Point(h[n].msg) \notin M
    <3>1. ASSUME NEW i \in ToSend
          PROVE  h[i].pc # "idle" /\ h[i].msg.id \in 1..MaxMsgs /\ order[h[i].msg.id] # 0
      <4>1. i \in Handlers /\ h[i].pc # "idle"
        BY DEF ToSend
      <4>2. h[i].msg \in Reading /\ h[i].msg.id \in 1..MaxMsgs /\ Point(h[i].msg) \in cached
        BY <4>1, ReadingParts DEF FlowInv, HandlersNumbered, TypeInv, BusyHandlersHoldReadings
      <4> QED BY <4>1, <4>2 DEF FlowInv, OrderInv, Point
    <3>2. ASSUME NEW i \in ToSend \intersect K PROVE Point(h[i].msg) # Point(h[n].msg)
      <4>1. h[i].msg.id # h[n].msg.id
        BY <3>1, <3>2 DEF FlowInv, HandlersNumbered, ToSend
      <4> QED BY <3>1, <4>1 DEF FlowInv, OrderInv, Point
    <3> QED BY <1>1, <2>2, <2>3, <3>2 DEF Point
  <2>5. FlowSending' = FlowSending \ M /\ M \subseteq FlowSending
    BY <2>2, <2>3, <2>4 DEF FlowSending
  <2>6. Flow!Lose(M)
    BY <1>1, <1>3, <2>1, <2>5, FlowValues DEF Flow!Lose
  <2> QED BY <2>5, <2>6 DEF Flow!Next
<1>8. ASSUME NEW d \in Devices, ExpireLast(d) PROVE Flow!Next
  BY <1>5, <1>8 DEF Flow!Next
<1> QED BY <1>1, <1>3, <1>4, <1>6, <1>7, <1>8 DEF Environment

\* Handlers, scheduler runs, expiries and faults do to the readings what the flow
\* says and nothing else, for any devices, samples, processes and bounds: what the
\* realtime gateway is built on.  (mqtt.service.ts:145-201,
\* telemetry.scheduler.ts:46-70)
THEOREM PipelineImplementsFlow == FlowSpec => ImplementsFlow
<1>1. FlowInit => TypeInv /\ FlowInv /\ Flow!Init
  <2> SUFFICES ASSUME FlowInit PROVE TypeInv /\ FlowInv /\ Flow!Init
    OBVIOUS
  <2>1. TypeInv
    BY TypeInit DEF FlowInit, Init, TypeInv, BusyHandlersHoldReadings, RunsKnowTheirDevice,
                    IdleHandler, IdleRun
  <2>2. OrderInv /\ HandlersNumbered
    BY PipelineAssumption DEF FlowInit, Init, OrderInv, HandlersNumbered, IdleHandler
  <2>3. KeptIn(Filed)
    <3>1. PICK S : S = Filed
      OBVIOUS
    <3>2. HeldIn(IdleRun, S) /\ <<>> \in Seq(S)
      BY IdleRunHeld, EmptySeq
    <3>3. KeptIn(S)
      BY <3>2 DEF FlowInit, Init, KeptIn
    <3> QED BY <3>1, <3>3
  <2>4. FlowLast = [d \in Devices |-> 0] /\ FlowInflux = {} /\ FlowSending = {}
    BY DEF FlowInit, Init, FlowLast, FlowInflux, FlowSending, ToSend, IdleHandler
  <2> QED BY <2>1, <2>2, <2>3, <2>4 DEF FlowInv, FlowInit, Init, Flow!Init
<1>2. TypeInv /\ FlowInv /\ [Next /\ Record]_<<vars, flow>> => (TypeInv /\ FlowInv)'
  <2> SUFFICES ASSUME TypeInv, FlowInv, [Next /\ Record]_<<vars, flow>>
               PROVE  TypeInv' /\ FlowInv'
    OBVIOUS
  <2>1. CASE Next /\ Record
    BY <2>1, TypeStep, OrderStep, NumberedStep, FiledStep DEF FlowInv
  <2>2. CASE UNCHANGED <<vars, flow>>
    <3>1. TypeInv'
      BY <2>2, TypeStep
    <3>2. OrderInv' /\ HandlersNumbered'
      BY <2>2 DEF vars, flow, FlowInv, OrderInv, HandlersNumbered, ToSend, Point
    <3>3. KeptIn(Filed)'
      BY <2>2 DEF vars, flow, FlowInv, KeptIn, HeldIn, Filed, Point
    <3> QED BY <3>1, <3>2, <3>3 DEF FlowInv
  <2> QED BY <2>1, <2>2
<1>3. TypeInv /\ FlowInv /\ [Next /\ Record]_<<vars, flow>>
        => [Flow!Next]_<<FlowLast, FlowInflux, cached, FlowSending, newest, count, faults>>
  <2> SUFFICES ASSUME TypeInv, FlowInv, [Next /\ Record]_<<vars, flow>>
               PROVE  \/ Flow!Next
                      \/ UNCHANGED <<FlowLast, FlowInflux, cached, FlowSending, newest, count, faults>>
    OBVIOUS
  <2>1. CASE Next /\ Record
    BY <2>1, FlowCases, CacheMaps, SendMaps, QuietMaps, RunMaps, EnvironmentMaps
  <2>2. CASE UNCHANGED <<vars, flow>>
    BY <2>2 DEF vars, flow, FlowLast, FlowInflux, FlowSending, ToSend, Point
  <2> QED BY <2>1, <2>2
<1> QED BY <1>1, <1>2, <1>3, PTL DEF FlowSpec, ImplementsFlow, Flow!Spec
=============================================================================
