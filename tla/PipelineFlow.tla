---------------------------- MODULE PipelineFlow ----------------------------
(***************************************************************************)
(* TelemetryPipeline as the flow of readings that the realtime gateway     *)
(* relies on (ReadingFlow).  The history variables number the readings in  *)
(* the order they are cached, which is not the one they arrive in, and     *)
(* remember what has been cached and broadcast; no step depends on them.   *)
(***************************************************************************)
EXTENDS TelemetryPipeline

VARIABLES
  order,     \* history: the number of each message in the order of caching, 0 before
  cached,    \* history: the readings that have been cached
  count,     \* history: how many
  newest     \* history: the highest number broadcast of each device
flow == <<order, cached, count, newest>>

\* The reading of a message, as the flow knows it.
Point(m) == [n |-> order[m.id], dev |-> m.dev]

FlowInit ==
  /\ Init
  /\ order = [id \in 1..MaxMsgs |-> 0]
  /\ cached = {} /\ count = 0
  /\ newest = [d \in Devices |-> 0]

\* Handler i has cached its reading; it has broadcast it.
Caches(i) == h[i].pc = "setLast" /\ h'[i].pc = "getBaseline"
Sends(i)  == h[i].pc = "broadcast" /\ h'[i].pc = "idle" /\ faults' = faults

RecordCached(i) ==
  /\ count' = count + 1
  /\ order' = [order EXCEPT ![h[i].msg.id] = count + 1]
  /\ cached' = cached \union {[n |-> count + 1, dev |-> h[i].msg.dev]}
  /\ UNCHANGED newest

RecordSent(i) ==
  LET m == Point(h[i].msg)
  IN /\ newest' = [newest EXCEPT ![m.dev] = IF @ > m.n THEN @ ELSE m.n]
     /\ UNCHANGED <<order, cached, count>>

Record ==
  \/ \E i \in Handlers : Caches(i) /\ RecordCached(i)
  \/ \E i \in Handlers : Sends(i) /\ RecordSent(i)
  \/ (~\E i \in Handlers : Caches(i) \/ Sends(i)) /\ UNCHANGED flow

FlowSpec == FlowInit /\ [][Next /\ Record]_<<vars, flow>>
-----------------------------------------------------------------------------
(* Properties *)

\* The handlers that have cached their reading and not broadcast it yet.
ToSend == {i \in Handlers : h[i].pc \notin {"idle", "lookup", "touch", "setLast"}}

FlowLast    == [d \in Devices |-> IF last[d] = Null THEN 0 ELSE order[last[d].id]]
FlowInflux  == {Point(p) : p \in influx}
FlowSending == {Point(h[i].msg) : i \in ToSend}

Flow == INSTANCE ReadingFlow WITH
          last <- FlowLast, influx <- FlowInflux, sending <- FlowSending, received <- count

\* Whatever handlers, runs, expiries and faults interleave: a reading is cached
\* before it is broadcast, broadcast once unless a fault ends its handler, on every
\* path of the verdict and of the baseline, and InfluxDB, also out of the buffer of
\* events or out of a snapshot older than the cache, only receives what was cached.
\* (mqtt.service.ts:145-201, telemetry.scheduler.ts:46-70)
ImplementsFlow == Flow!Spec
=============================================================================
