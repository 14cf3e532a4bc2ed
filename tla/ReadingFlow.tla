----------------------------- MODULE ReadingFlow -----------------------------
(***************************************************************************)
(* What the path of the telemetry promises to whoever shows it, without    *)
(* handlers, scheduler runs or buffers.  A reading is cached as the last   *)
(* of its device and broadcast later, once, and only a fault keeps it from *)
(* being broadcast; InfluxDB only receives readings that were cached.      *)
(* Readings are numbered in the order they are cached: those of a device   *)
(* may be broadcast and written in any other.                              *)
(*                                                                         *)
(* TelemetryPipeline implements it (PipelineFlow), and RealtimeGateway is  *)
(* built on it.                                                            *)
(***************************************************************************)
EXTENDS Integers

CONSTANT Devices

VARIABLES
  last,       \* number of the reading cached for each device, 0 when there is none
  influx,     \* the points of InfluxDB
  cached,     \* the readings that have been cached
  sending,    \* those of them still to be broadcast
  newest,     \* the highest number broadcast of each device
  received,   \* how many have been cached
  faults      \* failures so far

Higher(m, n) == IF m > n THEN m ELSE n

Init ==
  /\ last = [d \in Devices |-> 0]
  /\ influx = {} /\ cached = {} /\ sending = {}
  /\ newest = [d \in Devices |-> 0]
  /\ received = 0 /\ faults = 0

Cache(d) ==
  LET m == [n |-> received + 1, dev |-> d]
  IN /\ received' = m.n
     /\ last' = [last EXCEPT ![d] = m.n]
     /\ cached' = cached \union {m} /\ sending' = sending \union {m}
     /\ UNCHANGED <<influx, newest, faults>>

Send(m) ==
  /\ sending' = sending \ {m}
  /\ newest' = [newest EXCEPT ![m.dev] = Higher(@, m.n)]
  /\ UNCHANGED <<last, influx, cached, received, faults>>

Lose(M) ==
  /\ faults' = faults + 1
  /\ sending' = sending \ M
  /\ UNCHANGED <<last, influx, cached, newest, received>>

Expire(d) ==
  /\ last[d] # 0
  /\ last' = [last EXCEPT ![d] = 0]
  /\ UNCHANGED <<influx, cached, sending, newest, received, faults>>

Write(m) ==
  /\ influx' = influx \union {m}
  /\ UNCHANGED <<last, cached, sending, newest, received, faults>>

Next ==
  \/ \E d \in Devices : Cache(d) \/ Expire(d)
  \/ \E m \in sending : Send(m)
  \/ \E M \in SUBSET sending : Lose(M)
  \/ \E m \in cached : Write(m)

Spec == Init /\ [][Next]_<<last, influx, cached, sending, newest, received, faults>>
=============================================================================
