----------------------- MODULE DeviceOwnership_proofs -----------------------
(***************************************************************************)
(* Theorems about DeviceOwnership for any accounts, devices, requests and  *)
(* bounds.                                                                 *)
(***************************************************************************)
EXTENDS DeviceOwnership, TLAPS

\* A request names what its pc works on, and an unlink waits for the whole list.
RequestsWellFormed ==
  \A c \in Calls :
    /\ calls[c].pc \in {"wipe", "assign"} =>
         calls[c].dev \in Devices /\ calls[c].user \in Users
    /\ calls[c].pc \in {"list", "wipeAll", "unlink", "delete"} => calls[c].user \in Users
    /\ calls[c].pc \in {"unlink", "delete"} => calls[c].todo = {}

TypeInv == TypeOK /\ RequestsWellFormed

LEMMA NoCallType == NoCall \in CallState /\ NoRun \in RunState
BY DEF NoCall, NoRun, CallState, RunState, CallPcs

LEMMA TypeInit == Init => TypeInv
<1> SUFFICES ASSUME Init PROVE TypeInv
  OBVIOUS
<1> USE OwnershipAssumption, NoCallType DEF Init
<1>1. TypeOK
  BY DEF TypeOK
<1>2. RequestsWellFormed
  BY DEF RequestsWellFormed, NoCall
<1> QED BY <1>1, <1>2 DEF TypeInv

\* The requests stay well formed when one of them takes on a state that is.
LEMMA CallsType ==
  ASSUME TypeInv, NEW c \in Calls, NEW call \in CallState,
         calls' = [calls EXCEPT ![c] = call],
         call.pc \in {"wipe", "assign"} => call.dev \in Devices /\ call.user \in Users,
         call.pc \in {"list", "wipeAll", "unlink", "delete"} => call.user \in Users,
         call.pc \in {"unlink", "delete"} => call.todo = {}
  PROVE  calls' \in [Calls -> CallState] /\ RequestsWellFormed'
<1>1. calls' \in [Calls -> CallState]
  BY DEF TypeInv, TypeOK
<1>2. calls'[c] = call /\ \A b \in Calls : b # c => calls'[b] = calls[b]
  BY DEF TypeInv, TypeOK
<1>3. RequestsWellFormed'
  BY <1>2 DEF TypeInv, RequestsWellFormed
<1> QED BY <1>1, <1>3

LEMMA DoneType ==
  ASSUME TypeInv, NEW c \in Calls, Done(c)
  PROVE  calls' \in [Calls -> CallState] /\ RequestsWellFormed'
<1>1. NoCall.pc = "idle"
  BY DEF NoCall
<1> QED BY <1>1, NoCallType, CallsType DEF Done

\* The link of a device ends its request and only marks the others.
LEMMA AssignEffect ==
  ASSUME TypeInv, NEW c \in Calls, AssignDone(c)
  PROVE  /\ calls'[c] = NoCall
         /\ \A b \in Calls \ {c} :
              /\ calls'[b].pc = calls[b].pc /\ calls'[b].dev = calls[b].dev
              /\ calls'[b].user = calls[b].user /\ calls'[b].todo = calls[b].todo
              /\ calls[b].late \subseteq calls'[b].late
              /\ owner'[calls[c].dev] # owner[calls[c].dev] /\ Wiping(b, calls[c].dev)
                   => calls[c].dev \in calls'[b].late
<1>1. calls'[c] = NoCall
  BY DEF AssignDone
<1>2. ASSUME NEW b \in Calls \ {c}
      PROVE  /\ calls'[b].pc = calls[b].pc /\ calls'[b].dev = calls[b].dev
             /\ calls'[b].user = calls[b].user /\ calls'[b].todo = calls[b].todo
             /\ calls[b].late \subseteq calls'[b].late
             /\ owner'[calls[c].dev] # owner[calls[c].dev] /\ Wiping(b, calls[c].dev)
                  => calls[c].dev \in calls'[b].late
  <2>1. calls[b] \in CallState
    BY DEF TypeInv, TypeOK
  <2>2. PICK d : d = calls[c].dev
    OBVIOUS
  <2>3. calls'[b] = IF owner'[d] # owner[d] /\ Wiping(b, d)
                      THEN [calls[b] EXCEPT !.late = @ \union {d}] ELSE calls[b]
    BY <2>2 DEF AssignDone
  <2> QED BY <2>1, <2>2, <2>3 DEF CallState
<1> QED BY <1>1, <1>2

LEMMA AssignType ==
  ASSUME TypeInv, NEW c \in Calls, AssignDone(c), calls[c].dev \in Devices
  PROVE  calls' \in [Calls -> CallState] /\ RequestsWellFormed'
<1> DEFINE marked(b) == [calls[b] EXCEPT !.late = @ \union {calls[c].dev}]
<1>1. ASSUME NEW b \in Calls
      PROVE  calls[b] \in CallState /\ marked(b) \in CallState
  BY DEF TypeInv, TypeOK, CallState
<1>2. calls' \in [Calls -> CallState]
  BY <1>1, NoCallType DEF AssignDone
<1>3. RequestsWellFormed'
  BY AssignEffect DEF TypeInv, RequestsWellFormed, NoCall
<1> QED BY <1>2, <1>3

\* The deletion of telemetry leaves readings only, excused or not.
LEMMA WipeType ==
  ASSUME TypeOK, NEW d, Wipe(d)
  PROVE  influx' \subseteq Reading /\ excused' \subseteq Reading
BY DEF TypeOK, Wipe, DeletePoints, PointsOf

LEMMA CallStepType ==
  ASSUME TypeInv, NEW c \in Calls, CallStep(c)
  PROVE  TypeInv'
<1> USE DEF TypeInv
<1>r. UNCHANGED <<run, stored, received, faults>>
  BY DEF CallStep, CreateDevice, WipeLinked, AssignOwner, ListDevices, WipeListed,
         UnlinkDevices, DeleteUser
<1>0. calls[c] \in CallState
  BY DEF TypeOK
<1>1. CASE CreateDevice(c)
  <2>1. status' \in [Devices -> {"absent", "inactive", "active"}]
    BY <1>1 DEF CreateDevice, TypeOK
  <2> QED BY <1>1, <1>r, <2>1, DoneType DEF TypeOK, CreateDevice
<1>2. CASE WipeLinked(c)
  <2> DEFINE call == [calls[c] EXCEPT !.pc = "assign", !.late = {}]
  <2>1. calls' = [calls EXCEPT ![c] = call]
    BY <1>2 DEF WipeLinked, TypeOK
  <2>2. call \in CallState /\ call.pc = "assign"
    BY <1>0 DEF CallState, CallPcs
  <2>3. call.dev \in Devices /\ call.user \in Users
    BY <1>0, <1>2 DEF CallState, WipeLinked, RequestsWellFormed
  <2> HIDE DEF call
  <2>4. calls' \in [Calls -> CallState] /\ RequestsWellFormed'
    BY <2>1, <2>2, <2>3, CallsType
  <2> QED BY <1>2, <1>r, <2>4, WipeType DEF TypeOK, WipeLinked, tables
<1>3. CASE AssignOwner(c)
  <2>1. owner' \in [Devices -> Users \union {Null}]
    BY <1>3 DEF AssignOwner, TypeOK
  <2>2. calls' \in [Calls -> CallState] /\ RequestsWellFormed'
    BY <1>3, AssignType DEF AssignOwner, RequestsWellFormed
  <2> QED BY <1>3, <1>r, <2>1, <2>2 DEF TypeOK, AssignOwner
<1>4. CASE ListDevices(c)
  <2> DEFINE mine == {d \in Devices : owner[d] = calls[c].user}
             call == [calls[c] EXCEPT !.todo = mine,
                                      !.pc = IF mine = {} THEN "unlink" ELSE "wipeAll"]
  <2>1. calls' = [calls EXCEPT ![c] = call]
    BY <1>4 DEF ListDevices, TypeOK
  <2>2. call \in CallState
    BY <1>0 DEF CallState, CallPcs
  <2>3. call.user \in Users /\ call.pc \in {"unlink", "wipeAll"}
        /\ (call.pc = "unlink" => call.todo = {})
    BY <1>0, <1>4 DEF CallState, ListDevices, RequestsWellFormed
  <2> HIDE DEF call
  <2>4. calls' \in [Calls -> CallState] /\ RequestsWellFormed'
    BY <2>1, <2>2, <2>3, CallsType
  <2> QED BY <1>4, <1>r, <2>4 DEF TypeOK, ListDevices, tables
<1>5. ASSUME NEW d \in Devices, WipeListed(c, d) PROVE TypeInv'
  <2> DEFINE call == [calls[c] EXCEPT !.todo = @ \ {d}, !.late = @ \ {d},
                        !.pc = IF calls[c].todo = {d} THEN "unlink" ELSE "wipeAll"]
  <2>1. calls' = [calls EXCEPT ![c] = call]
    BY <1>5 DEF WipeListed, TypeOK
  <2>2. call \in CallState
    BY <1>0 DEF CallState, CallPcs
  <2>3. call.user \in Users /\ call.pc \in {"unlink", "wipeAll"}
        /\ (call.pc = "unlink" => call.todo = {})
    BY <1>0, <1>5 DEF CallState, WipeListed, RequestsWellFormed
  <2> HIDE DEF call
  <2>4. calls' \in [Calls -> CallState] /\ RequestsWellFormed'
    BY <2>1, <2>2, <2>3, CallsType
  <2> QED BY <1>5, <1>r, <2>4, WipeType DEF TypeOK, WipeListed, tables
<1>6. CASE UnlinkDevices(c)
  <2> DEFINE call == [calls[c] EXCEPT !.pc = "delete"]
  <2>1. calls' = [calls EXCEPT ![c] = call]
    BY <1>6 DEF UnlinkDevices, Goto, TypeOK
  <2>2. call \in CallState /\ call.pc = "delete"
    BY <1>0 DEF CallState, CallPcs
  <2>3. call.user \in Users /\ call.todo = {}
    BY <1>0, <1>6 DEF CallState, UnlinkDevices, RequestsWellFormed
  <2> HIDE DEF call
  <2>4. calls' \in [Calls -> CallState] /\ RequestsWellFormed'
    BY <2>1, <2>2, <2>3, CallsType
  <2> QED BY <1>6, <1>r, <2>4 DEF TypeOK, UnlinkDevices, Unlinked
<1>7. CASE DeleteUser(c)
  BY <1>7, <1>r, DoneType DEF TypeOK, DeleteUser, Unlinked
<1> QED BY <1>1, <1>2, <1>3, <1>4, <1>5, <1>6, <1>7 DEF CallStep

LEMMA RequestType ==
  ASSUME TypeInv, NEW c \in Calls, Request(c) \/ Fail(c)
  PROVE  TypeInv'
<1> USE DEF TypeInv
<1>r. UNCHANGED <<users, status, owner, stored, influx, run, received, excused>>
  BY DEF Request, FindNewDevice, FindLinked, FindUser, Fail, tables
<1>1. ASSUME NEW d \in Devices, FindNewDevice(c, d) PROVE TypeInv'
  <2> DEFINE call == [NoCall EXCEPT !.pc = "create", !.dev = d]
  <2>1. call \in CallState /\ call.pc = "create" /\ calls' = [calls EXCEPT ![c] = call]
    BY <1>1 DEF FindNewDevice, Start, NoCall, CallState, CallPcs
  <2> HIDE DEF call
  <2>2. calls' \in [Calls -> CallState] /\ RequestsWellFormed'
    BY <2>1, CallsType
  <2> QED BY <1>1, <1>r, <2>2 DEF TypeOK, FindNewDevice
<1>2. ASSUME NEW d \in Devices, NEW u \in Users, FindLinked(c, d, u) PROVE TypeInv'
  <2> DEFINE call == [NoCall EXCEPT !.dev = d, !.user = u,
                        !.pc = IF owner[d] \notin {Null, u} THEN "wipe" ELSE "assign"]
  <2>1. calls' = [calls EXCEPT ![c] = call]
    BY <1>2 DEF FindLinked, Start
  <2>2. call \in CallState
    BY DEF NoCall, CallState, CallPcs, TypeOK
  <2>3. call.dev \in Devices /\ call.user \in Users /\ call.pc \in {"wipe", "assign"}
    BY DEF NoCall
  <2> HIDE DEF call
  <2>4. calls' \in [Calls -> CallState] /\ RequestsWellFormed'
    BY <2>1, <2>2, <2>3, CallsType
  <2> QED BY <1>2, <1>r, <2>4 DEF TypeOK, FindLinked
<1>3. ASSUME NEW u \in Users, FindUser(c, u) PROVE TypeInv'
  <2> DEFINE call == [NoCall EXCEPT !.pc = "list", !.user = u]
  <2>1. /\ call \in CallState /\ call.pc = "list" /\ call.user \in Users
        /\ calls' = [calls EXCEPT ![c] = call]
    BY <1>3 DEF FindUser, Start, NoCall, CallState, CallPcs
  <2> HIDE DEF call
  <2>2. calls' \in [Calls -> CallState] /\ RequestsWellFormed'
    BY <2>1, CallsType
  <2> QED BY <1>3, <1>r, <2>2 DEF TypeOK, FindUser
<1>4. CASE Fail(c)
  <2>1. faults' \in 0..MaxFaults
    BY <1>4, OwnershipAssumption DEF Fail, TypeOK
  <2> QED BY <1>4, <1>r, <2>1, DoneType DEF TypeOK, Fail
<1> QED BY <1>1, <1>2, <1>3, <1>4 DEF Request

LEMMA RedisStepType ==
  ASSUME TypeInv,
         \/ \E d \in Devices : CacheReading(d) \/ ReadStored(d)
         \/ \E p \in stored : DropReading(p)
  PROVE  TypeInv'
<1> USE DEF TypeInv
<1>1. UNCHANGED <<users, status, owner, influx, calls, excused, faults>> /\ RequestsWellFormed'
  BY DEF CacheReading, DropReading, ReadStored, tables, RequestsWellFormed
<1>2. ASSUME NEW d \in Devices, CacheReading(d) PROVE TypeInv'
  <2>1. received' \in 0..MaxReadings /\ received + 1 \in 1..MaxReadings
    BY <1>2, OwnershipAssumption DEF CacheReading, TypeOK
  <2>2. NewReading(d) \in Reading
    BY <2>1 DEF NewReading, Reading, TypeOK
  <2> QED BY <1>1, <1>2, <2>1, <2>2 DEF TypeOK, CacheReading
<1>3. ASSUME NEW p \in stored, DropReading(p) PROVE TypeInv'
  BY <1>1, <1>3 DEF TypeOK, DropReading
<1>4. ASSUME NEW d \in Devices, ReadStored(d) PROVE TypeInv'
  <2>1. PICK left \in SUBSET {p \in stored : p.dev = d} :
          run' = [pc |-> "owner", dev |-> d, left |-> left]
    BY <1>4 DEF ReadStored
  <2>2. run' \in RunState
    BY <2>1 DEF RunState, TypeOK
  <2> QED BY <1>1, <1>4, <2>2 DEF TypeOK, ReadStored
<1> QED BY <1>2, <1>3, <1>4

LEMMA RunStepType ==
  ASSUME TypeInv, RunStep \/ FailRun
  PROVE  TypeInv'
<1> USE DEF TypeInv
<1>1. UNCHANGED <<users, status, owner, stored, calls, received>> /\ RequestsWellFormed'
  BY DEF RunStep, LookupOwner, WritePoint, FailRun, tables, RequestsWellFormed
<1>2. CASE LookupOwner
  <2>1. run' \in RunState
    BY <1>2, NoCallType DEF LookupOwner, TypeOK, RunState
  <2> QED BY <1>1, <1>2, <2>1 DEF TypeOK, LookupOwner
<1>3. ASSUME NEW p \in run.left, WritePoint(p) PROVE TypeInv'
  <2>1. p \in Reading
    BY <1>3 DEF TypeOK, RunState
  <2>2. run' \in RunState
    BY <1>3, NoCallType DEF WritePoint, TypeOK, RunState
  <2> QED BY <1>1, <1>3, <2>1, <2>2 DEF TypeOK, WritePoint
<1>4. CASE FailRun
  <2>1. faults' \in 0..MaxFaults
    BY <1>4, OwnershipAssumption DEF FailRun, TypeOK
  <2> QED BY <1>1, <1>4, <2>1, NoCallType DEF TypeOK, FailRun
<1> QED BY <1>2, <1>3, <1>4 DEF RunStep

LEMMA CrashType ==
  ASSUME TypeInv, Crash
  PROVE  TypeInv'
<1> USE DEF TypeInv
<1>1. faults' \in 0..MaxFaults
  BY OwnershipAssumption DEF Crash, TypeOK
<1>2. TypeOK'
  BY <1>1, NoCallType DEF TypeOK, Crash, tables
<1>3. RequestsWellFormed'
  BY DEF Crash, NoCall, RequestsWellFormed
<1> QED BY <1>2, <1>3

LEMMA TypeNext == TypeInv /\ [Next]_ovars => TypeInv'
<1> SUFFICES ASSUME TypeInv, [Next]_ovars PROVE TypeInv'
  OBVIOUS
<1>1. CASE UNCHANGED ovars
  BY <1>1 DEF ovars, TypeInv, TypeOK, RequestsWellFormed
<1> QED
  BY <1>1, CallStepType, RequestType, RedisStepType, RunStepType, CrashType DEF Next

LEMMA TypeInvariant == Spec => []TypeInv
BY TypeInit, TypeNext, PTL DEF Spec

\* Whatever requests, messages and runs come between the awaited calls, the
\* tables, what Redis holds, InfluxDB and the locals of the requests stay well formed.
\* (iot.service.ts:70-110, user.service.ts:60-95)
THEOREM TypeCorrect == Spec => []TypeOK
<1>1. TypeInv => TypeOK
  BY DEF TypeInv
<1> QED BY <1>1, TypeInvariant, PTL

-----------------------------------------------------------------------------
(* Owners *)

LEMMA OwnersNext == TypeInv /\ OwnersExist /\ [Next]_ovars => OwnersExist'
<1> SUFFICES ASSUME TypeInv, OwnersExist, [Next]_ovars PROVE OwnersExist'
  OBVIOUS
<1> USE DEF OwnersExist, TypeInv, TypeOK
<1>1. CASE UNCHANGED tables
  BY <1>1 DEF tables
<1>2. ASSUME NEW c \in Calls, CreateDevice(c) PROVE OwnersExist'
  BY <1>2 DEF CreateDevice
<1>3. ASSUME NEW c \in Calls, AssignOwner(c) PROVE OwnersExist'
  BY <1>3 DEF AssignOwner
<1>4. ASSUME NEW c \in Calls, UnlinkDevices(c) PROVE OwnersExist'
  BY <1>4 DEF UnlinkDevices, Unlinked
<1>5. ASSUME NEW c \in Calls, DeleteUser(c) PROVE OwnersExist'
  BY <1>5 DEF DeleteUser, Unlinked
<1>6. ASSUME NEW c \in Calls, CallStep(c) PROVE OwnersExist'
  <2>1. CASE ListDevices(c) \/ WipeLinked(c) \/ \E d \in Devices : WipeListed(c, d)
    BY <1>1, <2>1 DEF ListDevices, WipeLinked, WipeListed
  <2> QED BY <1>6, <1>2, <1>3, <1>4, <1>5, <2>1 DEF CallStep
<1>7. CASE UNCHANGED ovars
  BY <1>1, <1>7 DEF ovars, tables
<1>8. ASSUME NEW c \in Calls, Request(c) \/ Fail(c) PROVE OwnersExist'
  BY <1>1, <1>8 DEF Request, FindNewDevice, FindLinked, FindUser, Fail
<1>9. CASE RunStep \/ FailRun \/ Crash
  BY <1>1, <1>9 DEF RunStep, LookupOwner, WritePoint, FailRun, Crash
<1>10. CASE \/ \E d \in Devices : CacheReading(d) \/ ReadStored(d)
            \/ \E p \in stored : DropReading(p)
  BY <1>1, <1>10 DEF CacheReading, ReadStored, DropReading
<1> QED BY <1>6, <1>7, <1>8, <1>9, <1>10 DEF Next

\* No device is ever left with the id of an account that is gone, whatever links
\* come between the updateMany and the delete of deleteAccount.
\* (user.service.ts:88-94, iot.service.ts:101-107)
THEOREM OwnersAlwaysExist == Spec => []OwnersExist
<1>1. Init => OwnersExist
  BY DEF Init, OwnersExist
<1> QED BY <1>1, TypeInvariant, OwnersNext, PTL DEF Spec

-----------------------------------------------------------------------------
(* What is kept of former owners *)

Unexcused == influx \ excused

\* What a request knows while it waits: a link about to be saved, that of other
\* users no point of its device is left without a reason; a deletion, that its
\* user has none left but on the devices still to be wiped.
KnowsOldData(call) ==
  /\ call.pc = "assign" =>
       \A p \in Unexcused : p.dev = call.dev => p.of \in {Null, call.user}
  /\ call.pc \in {"wipeAll", "unlink", "delete"} =>
       \A p \in Unexcused : p.of = call.user => p.dev \in call.todo

HistoryInv == OldDataExcused /\ \A c \in Calls : KnowsOldData(calls[c])

LEMMA OldDataKept ==
  ASSUME HistoryInv, UNCHANGED owner, Unexcused' \subseteq Unexcused,
         NEW c \in Calls, \A b \in Calls \ {c} : calls'[b] = calls[b],
         KnowsOldData(calls[c])'
  PROVE  HistoryInv'
<1>1. OldDataExcused'
  BY DEF OldDataExcused, HistoryInv, Unexcused
<1>2. ASSUME NEW b \in Calls PROVE KnowsOldData(calls[b])'
  BY <1>2 DEF HistoryInv, KnowsOldData
<1> QED BY <1>1, <1>2 DEF HistoryInv

LEMMA WipeExcuses ==
  ASSUME NEW d, Wipe(d)
  PROVE  Unexcused' \subseteq Unexcused /\ \A p \in Unexcused' : p.dev # d
BY DEF Wipe, DeletePoints, PointsOf, Unexcused

\* A request that ends, or starts anything but a link, has nothing to know.
LEMMA CallsKept ==
  ASSUME TypeInv, HistoryInv, UNCHANGED <<owner, influx, excused>>,
         NEW c \in Calls, NEW call, calls' = [calls EXCEPT ![c] = call],
         call.pc \notin {"assign", "wipeAll", "unlink", "delete"}
  PROVE  HistoryInv'
<1>1. calls'[c] = call /\ \A b \in Calls \ {c} : calls'[b] = calls[b]
  BY DEF TypeInv, TypeOK
<1>2. Unexcused' = Unexcused
  BY DEF Unexcused
<1> QED BY <1>1, <1>2, OldDataKept DEF KnowsOldData

LEMMA DoneHistory ==
  ASSUME TypeInv, HistoryInv, UNCHANGED <<owner, influx, excused>>, NEW c \in Calls, Done(c)
  PROVE  HistoryInv'
BY CallsKept DEF Done, NoCall

LEMMA LinkHistory ==
  ASSUME TypeInv, HistoryInv, NEW c \in Calls, WipeLinked(c) \/ AssignOwner(c)
  PROVE  HistoryInv'
<1> USE DEF TypeInv, TypeOK
<1>1. CASE WipeLinked(c)
  <2>1. calls'[c].dev = calls[c].dev /\ calls'[c].pc = "assign"
        /\ \A b \in Calls \ {c} : calls'[b] = calls[b]
    BY <1>1 DEF WipeLinked, CallState
  <2>2. Unexcused' \subseteq Unexcused /\ \A p \in Unexcused' : p.dev # calls[c].dev
    BY <1>1, WipeExcuses DEF WipeLinked
  <2>3. KnowsOldData(calls[c])'
    BY <2>1, <2>2 DEF KnowsOldData
  <2> QED BY <1>1, <2>1, <2>2, <2>3, OldDataKept DEF WipeLinked, tables
<1>2. CASE AssignOwner(c)
  <2> DEFINE d == calls[c].dev
             u == calls[c].user
  <2>1. /\ d \in Devices /\ calls[c].pc = "assign"
        /\ Unexcused' = Unexcused /\ influx' = influx /\ excused' = excused
    BY <1>2 DEF AssignOwner, RequestsWellFormed, Unexcused
  <2>2. \A p \in Unexcused : p.dev = d => p.of \in {Null, u}
    BY <2>1 DEF HistoryInv, KnowsOldData
  <2>3. owner'[d] \in {u, owner[d]} /\ \A e \in Devices \ {d} : owner'[e] = owner[e]
    BY <1>2, <2>1 DEF AssignOwner
  <2>4. OldDataExcused'
    <3> SUFFICES ASSUME NEW p \in influx, p.of \notin {Null, owner'[p.dev]}, p \notin excused
                 PROVE  FALSE
      BY <2>1 DEF OldDataExcused
    <3>1. p \in Unexcused /\ p.dev \in Devices
      BY DEF Unexcused, Reading
    <3>2. p.of \in {Null, owner[p.dev]}
      BY DEF HistoryInv, OldDataExcused
    <3> QED BY <2>2, <2>3, <3>1, <3>2
  <2>5. ASSUME NEW b \in Calls PROVE KnowsOldData(calls[b])'
    <3>1. CASE b = c
      BY <1>2, <3>1, AssignEffect DEF AssignOwner, KnowsOldData, NoCall
    <3>2. CASE b # c
      <4>1. /\ calls'[b].pc = calls[b].pc /\ calls'[b].dev = calls[b].dev
            /\ calls'[b].user = calls[b].user /\ calls'[b].todo = calls[b].todo
        BY <1>2, <3>2, AssignEffect DEF AssignOwner
      <4>2. KnowsOldData(calls[b])
        BY DEF HistoryInv
      <4> QED BY <2>1, <4>1, <4>2 DEF KnowsOldData
    <3> QED BY <3>1, <3>2
  <2> QED BY <2>4, <2>5 DEF HistoryInv
<1> QED BY <1>1, <1>2

LEMMA ListHistory ==
  ASSUME TypeInv, HistoryInv, NEW c \in Calls,
         ListDevices(c) \/ \E d \in Devices : WipeListed(c, d)
  PROVE  HistoryInv'
<1> USE DEF TypeInv, TypeOK
<1>1. CASE ListDevices(c)
  <2> DEFINE u == calls[c].user
             mine == {d \in Devices : owner[d] = u}
  <2>1. /\ calls'[c].user = u /\ calls'[c].todo = mine /\ calls'[c].pc \in {"unlink", "wipeAll"}
        /\ \A b \in Calls \ {c} : calls'[b] = calls[b]
        /\ UNCHANGED <<owner, influx, excused>>
    BY <1>1 DEF ListDevices, CallState, tables
  <2>2. Unexcused' = Unexcused
    BY <2>1 DEF Unexcused
  <2>3. ASSUME NEW p \in Unexcused, p.of = u PROVE p.dev \in mine
    <3>1. u \in Users /\ p.dev \in Devices
      BY <1>1 DEF ListDevices, RequestsWellFormed, Unexcused, Reading
    <3>2. p.of \in {Null, owner[p.dev]} /\ u # Null
      BY <3>1, OwnershipAssumption DEF HistoryInv, OldDataExcused, Unexcused
    <3> QED BY <2>3, <3>1, <3>2
  <2> HIDE DEF mine
  <2>4. KnowsOldData(calls[c])'
    BY <2>1, <2>2, <2>3 DEF KnowsOldData
  <2> QED BY <2>1, <2>2, <2>4, OldDataKept
<1>2. ASSUME NEW d \in Devices, WipeListed(c, d) PROVE HistoryInv'
  <2> DEFINE call == [calls[c] EXCEPT !.todo = @ \ {d}, !.late = @ \ {d},
                        !.pc = IF calls[c].todo = {d} THEN "unlink" ELSE "wipeAll"]
  <2>0. calls' = [calls EXCEPT ![c] = call]
    BY <1>2 DEF WipeListed
  <2>c. /\ call.user = calls[c].user /\ call.todo = calls[c].todo \ {d}
        /\ call.pc \in {"unlink", "wipeAll"}
    BY DEF CallState
  <2> HIDE DEF call
  <2>1. /\ calls[c].pc = "wipeAll" /\ UNCHANGED owner
        /\ calls'[c].user = calls[c].user /\ calls'[c].todo = calls[c].todo \ {d}
        /\ calls'[c].pc \in {"unlink", "wipeAll"}
        /\ \A b \in Calls \ {c} : calls'[b] = calls[b]
    BY <1>2, <2>0, <2>c DEF WipeListed, tables
  <2>2. Unexcused' \subseteq Unexcused /\ \A p \in Unexcused' : p.dev # d
    BY <1>2, WipeExcuses DEF WipeListed
  <2>3. KnowsOldData(calls[c])
    BY DEF HistoryInv
  <2>4. KnowsOldData(calls[c])'
    BY <2>1, <2>2, <2>3 DEF KnowsOldData
  <2> QED BY <2>1, <2>2, <2>4, OldDataKept
<1> QED BY <1>1, <1>2

\* The owner goes from the devices of a user who has no unexcused point left.
LEMMA UnlinkHistory ==
  ASSUME TypeInv, HistoryInv, NEW c \in Calls, UnlinkDevices(c) \/ DeleteUser(c)
  PROVE  HistoryInv'
<1> USE DEF TypeInv, TypeOK
<1> DEFINE u == calls[c].user
<1>1. /\ calls[c].pc \in {"unlink", "delete"} /\ calls[c].todo = {}
      /\ owner' = Unlinked(u) /\ UNCHANGED <<influx, excused>> /\ Unexcused' = Unexcused
  BY DEF UnlinkDevices, DeleteUser, RequestsWellFormed, Unexcused
<1>2. \A p \in Unexcused : p.of # u
  BY <1>1 DEF HistoryInv, KnowsOldData
<1>3. OldDataExcused'
  <2> SUFFICES ASSUME NEW p \in influx, p.of \notin {Null, owner'[p.dev]}, p \notin excused
               PROVE  FALSE
    BY <1>1 DEF OldDataExcused
  <2>1. p \in Unexcused /\ p.dev \in Devices
    BY DEF Unexcused, Reading
  <2>2. p.of \in {Null, owner[p.dev]}
    BY DEF HistoryInv, OldDataExcused
  <2> QED BY <1>1, <1>2, <2>1, <2>2 DEF Unlinked
<1>4. \/ calls' = [calls EXCEPT ![c] = NoCall]
      \/ calls' = [calls EXCEPT ![c].pc = "delete"]
  BY DEF UnlinkDevices, DeleteUser, Done, Goto
<1>5. \A b \in Calls \ {c} : calls'[b] = calls[b]
  BY <1>4
<1>6. calls'[c].pc = "idle" \/ (calls'[c].pc = "delete" /\ calls'[c].user = u)
  BY <1>4 DEF NoCall, CallState
<1>7. ASSUME NEW b \in Calls PROVE KnowsOldData(calls[b])'
  BY <1>1, <1>2, <1>5, <1>6, <1>7 DEF HistoryInv, KnowsOldData
<1> QED BY <1>3, <1>7 DEF HistoryInv

\* A point is written either for the present owner, with no request about, or
\* with a reason.
LEMMA WriteHistory ==
  ASSUME TypeInv, HistoryInv, NEW p \in run.left, WritePoint(p)
  PROVE  HistoryInv'
<1> USE DEF TypeInv, TypeOK
<1>1. UNCHANGED <<owner, calls>> /\ influx' = influx \union {p}
  BY DEF WritePoint, tables
<1>2. CASE owner[p.dev] # p.of \/ \E c \in Calls : Changing(c, p.dev)
  <2>1. excused' = excused \union {p}
    BY <1>2 DEF WritePoint
  <2>2. Unexcused' \subseteq Unexcused
    BY <1>1, <2>1 DEF Unexcused
  <2> QED BY <1>1, <2>1, <2>2 DEF HistoryInv, OldDataExcused, KnowsOldData
<1>3. CASE owner[p.dev] = p.of /\ \A c \in Calls : ~Changing(c, p.dev)
  <2>1. excused' = excused
    BY <1>3 DEF WritePoint
  <2>2. Unexcused' \subseteq Unexcused \union {p}
    BY <1>1, <2>1 DEF Unexcused
  <2>3. OldDataExcused'
    BY <1>1, <1>3, <2>1 DEF HistoryInv, OldDataExcused
  <2>4. ASSUME NEW c \in Calls PROVE KnowsOldData(calls[c])'
    <3>1. calls[c].pc \notin {"wipeAll", "unlink", "delete"}
          /\ (calls[c].pc = "assign" => p.dev # calls[c].dev)
      BY <1>3 DEF Changing
    <3> QED BY <1>1, <2>2, <3>1 DEF HistoryInv, KnowsOldData
  <2> QED BY <2>3, <2>4 DEF HistoryInv
<1> QED BY <1>2, <1>3

LEMMA RequestHistory ==
  ASSUME TypeInv, HistoryInv, NEW c \in Calls, Request(c)
  PROVE  HistoryInv'
<1> USE DEF TypeInv, TypeOK
<1>1. UNCHANGED <<owner, influx, excused>> /\ Unexcused' = Unexcused
  BY DEF Request, FindNewDevice, FindLinked, FindUser, tables, Unexcused
<1>2. ASSUME NEW d \in Devices, FindNewDevice(c, d) PROVE HistoryInv'
  BY <1>1, <1>2, CallsKept DEF FindNewDevice, Start, NoCall
<1>3. ASSUME NEW u \in Users, FindUser(c, u) PROVE HistoryInv'
  BY <1>1, <1>3, CallsKept DEF FindUser, Start, NoCall
<1>4. ASSUME NEW d \in Devices, NEW u \in Users, FindLinked(c, d, u) PROVE HistoryInv'
  <2> DEFINE call == [NoCall EXCEPT !.dev = d, !.user = u,
                        !.pc = IF owner[d] \notin {Null, u} THEN "wipe" ELSE "assign"]
  <2>1. calls' = [calls EXCEPT ![c] = call]
    BY <1>4 DEF FindLinked, Start
  <2>2. /\ call.dev = d /\ call.user = u /\ call.pc \in {"wipe", "assign"}
        /\ call.pc = "assign" => owner[d] \in {Null, u}
    BY DEF NoCall
  <2> HIDE DEF call
  <2>3. calls'[c] = call /\ \A b \in Calls \ {c} : calls'[b] = calls[b]
    BY <2>1
  <2>4. KnowsOldData(calls[c])'
    BY <1>1, <2>2, <2>3 DEF HistoryInv, OldDataExcused, KnowsOldData, Unexcused
  <2> QED BY <1>1, <2>3, <2>4, OldDataKept
<1> QED BY <1>2, <1>3, <1>4 DEF Request

LEMMA HistoryNext == TypeInv /\ HistoryInv /\ [Next]_ovars => HistoryInv'
<1> SUFFICES ASSUME TypeInv, HistoryInv, [Next]_ovars PROVE HistoryInv'
  OBVIOUS
<1>1. ASSUME UNCHANGED <<owner, influx, excused, calls>> PROVE HistoryInv'
  BY <1>1 DEF HistoryInv, OldDataExcused, KnowsOldData, Unexcused
<1>2. ASSUME NEW c \in Calls, CallStep(c) PROVE HistoryInv'
  <2>1. CASE CreateDevice(c)
    BY <2>1, DoneHistory DEF CreateDevice
  <2> QED BY <1>2, <2>1, LinkHistory, ListHistory, UnlinkHistory DEF CallStep
<1>3. ASSUME NEW c \in Calls, Fail(c) PROVE HistoryInv'
  BY <1>3, DoneHistory DEF Fail, tables
<1>4. CASE \/ \E d \in Devices : CacheReading(d) \/ ReadStored(d)
           \/ \E p \in stored : DropReading(p)
  BY <1>1, <1>4 DEF CacheReading, ReadStored, DropReading, tables
<1>5. CASE LookupOwner \/ FailRun
  BY <1>1, <1>5 DEF LookupOwner, FailRun, tables
<1>6. CASE Crash
  BY <1>6 DEF Crash, tables, HistoryInv, OldDataExcused, KnowsOldData, NoCall
<1>7. CASE UNCHANGED ovars
  BY <1>1, <1>7 DEF ovars
<1> QED
  BY <1>2, <1>3, <1>4, <1>5, <1>6, <1>7, WriteHistory, RequestHistory DEF Next, RunStep

\* What was measured for a user outlives their ownership only where InfluxDB
\* refused a deletion, or a run wrote it while a request was changing the owner,
\* or afterwards, out of Redis: the order wipe before assign, and list, wipe
\* and unlink, leaves nothing else behind, for any number of requests together.
\* (iot.service.ts:97-107, user.service.ts:72-94)
THEOREM OldDataAlwaysExcused == Spec => []OldDataExcused
<1>1. Init => HistoryInv
  BY DEF Init, HistoryInv, OldDataExcused, KnowsOldData, NoCall
<1>2. HistoryInv => OldDataExcused
  BY DEF HistoryInv
<1> QED BY <1>1, <1>2, TypeInvariant, HistoryNext, PTL DEF Spec

-----------------------------------------------------------------------------
(* What the present owner may lose *)

\* A request about to wipe a device does it for the owner it saw, unless the device
\* got another one since: a link wipes what is somebody else's, a deletion what is
\* its own user's.
WipesForOwner(call) ==
  /\ call.pc = "wipe" => owner[call.dev] # call.user \/ call.dev \in call.late
  /\ call.pc = "wipeAll" =>
       \A d \in call.todo : owner[d] \in {Null, call.user} \/ d \in call.late

WipesInv == \A c \in Calls : WipesForOwner(calls[c])

\* Only the requests that move, or see an owner change, have to be looked at.
LEMMA WipesKept ==
  ASSUME TypeInv, WipesInv,
         \A d \in Devices : owner'[d] \in {owner[d], Null},
         NEW c \in Calls, \A b \in Calls \ {c} : calls'[b] = calls[b],
         WipesForOwner(calls[c])'
  PROVE  WipesInv'
<1> SUFFICES ASSUME NEW b \in Calls, b # c PROVE WipesForOwner(calls[b])'
  BY DEF WipesInv
<1>1. WipesForOwner(calls[b]) /\ calls'[b] = calls[b]
  BY DEF WipesInv
<1>2. calls[b].todo \subseteq Devices
  BY DEF TypeInv, TypeOK, CallState
<1>3. calls[b].pc = "wipe" => calls[b].dev \in Devices /\ calls[b].user # Null
  BY OwnershipAssumption DEF TypeInv, RequestsWellFormed
<1> QED BY <1>1, <1>2, <1>3 DEF WipesForOwner

LEMMA WipesCallStep ==
  ASSUME TypeInv, WipesInv, NEW c \in Calls, CallStep(c)
  PROVE  WipesInv'
<1> USE DEF TypeInv, TypeOK
<1>1. CASE CreateDevice(c) \/ UnlinkDevices(c) \/ DeleteUser(c)
  <2>1. \A d \in Devices : owner'[d] \in {owner[d], Null}
    BY <1>1 DEF CreateDevice, UnlinkDevices, DeleteUser, Unlinked
  <2>2. calls'[c].pc \in {"idle", "delete"} /\ \A b \in Calls \ {c} : calls'[b] = calls[b]
    BY <1>1 DEF CreateDevice, UnlinkDevices, DeleteUser, Done, Goto, NoCall, CallState
  <2> QED BY <2>1, <2>2, WipesKept DEF WipesForOwner
<1>2. CASE WipeLinked(c)
  <2>1. UNCHANGED owner /\ calls'[c].pc = "assign" /\ \A b \in Calls \ {c} : calls'[b] = calls[b]
    BY <1>2 DEF WipeLinked, CallState, tables
  <2> QED BY <2>1, WipesKept DEF WipesForOwner
<1>3. CASE AssignOwner(c)
  <2>1. PICK d \in Devices : d = calls[c].dev
    BY <1>3 DEF AssignOwner, RequestsWellFormed
  <2>2. \A e \in Devices \ {d} : owner'[e] = owner[e]
    BY <1>3, <2>1 DEF AssignOwner
  <2> SUFFICES ASSUME NEW b \in Calls PROVE WipesForOwner(calls[b])'
    BY DEF WipesInv
  <2>3. CASE b = c
    BY <1>3, <2>3, AssignEffect DEF AssignOwner, WipesForOwner, NoCall
  <2>4. CASE b # c
    <3>1. /\ calls'[b].pc = calls[b].pc /\ calls'[b].dev = calls[b].dev
          /\ calls'[b].user = calls[b].user /\ calls'[b].todo = calls[b].todo
          /\ calls[b].late \subseteq calls'[b].late
          /\ owner'[d] # owner[d] /\ Wiping(b, d) => d \in calls'[b].late
      BY <1>3, <2>1, <2>4, AssignEffect DEF AssignOwner
    <3>2. WipesForOwner(calls[b]) /\ calls[b].todo \subseteq Devices
          /\ (calls[b].pc = "wipe" => calls[b].dev \in Devices)
      BY DEF WipesInv, CallState, RequestsWellFormed
    <3> QED BY <2>2, <3>1, <3>2 DEF WipesForOwner, Wiping
  <2> QED BY <2>3, <2>4
<1>4. CASE ListDevices(c)
  <2> DEFINE u == calls[c].user
             mine == {d \in Devices : owner[d] = u}
  <2>1. /\ UNCHANGED owner /\ \A b \in Calls \ {c} : calls'[b] = calls[b]
        /\ calls'[c].todo = mine /\ calls'[c].user = u /\ calls'[c].pc # "wipe"
    BY <1>4 DEF ListDevices, CallState, tables
  <2>2. WipesForOwner(calls[c])'
    BY <2>1 DEF WipesForOwner
  <2> QED BY <2>1, <2>2, WipesKept
<1>5. ASSUME NEW d \in Devices, WipeListed(c, d) PROVE WipesInv'
  <2> DEFINE call == [calls[c] EXCEPT !.todo = @ \ {d}, !.late = @ \ {d},
                        !.pc = IF calls[c].todo = {d} THEN "unlink" ELSE "wipeAll"]
  <2>1. calls' = [calls EXCEPT ![c] = call] /\ UNCHANGED owner /\ calls[c].pc = "wipeAll"
    BY <1>5 DEF WipeListed, tables
  <2>2. /\ call.user = calls[c].user /\ call.todo = calls[c].todo \ {d}
        /\ call.late = calls[c].late \ {d} /\ call.pc # "wipe"
    BY DEF CallState
  <2> HIDE DEF call
  <2>3. calls'[c] = call /\ \A b \in Calls \ {c} : calls'[b] = calls[b]
    BY <2>1
  <2>4. WipesForOwner(calls[c])
    BY DEF WipesInv
  <2>5. WipesForOwner(calls[c])'
    BY <2>1, <2>2, <2>3, <2>4 DEF WipesForOwner
  <2> QED BY <2>1, <2>3, <2>5, WipesKept
<1> QED BY <1>1, <1>2, <1>3, <1>4, <1>5 DEF CallStep

LEMMA WipesRequest ==
  ASSUME TypeInv, WipesInv, NEW c \in Calls, Request(c) \/ Fail(c)
  PROVE  WipesInv'
<1> USE DEF TypeInv, TypeOK
<1>1. UNCHANGED owner
  BY DEF Request, FindNewDevice, FindLinked, FindUser, Fail, tables
<1>2. ASSUME NEW call, calls' = [calls EXCEPT ![c] = call], call.pc # "wipeAll",
             call.pc = "wipe" => owner[call.dev] # call.user
      PROVE  WipesInv'
  <2>1. calls'[c] = call /\ \A b \in Calls \ {c} : calls'[b] = calls[b]
    BY <1>2
  <2> QED BY <1>1, <1>2, <2>1, WipesKept DEF WipesForOwner
<1>3. ASSUME NEW d \in Devices, FindNewDevice(c, d) PROVE WipesInv'
  <2> DEFINE call == [NoCall EXCEPT !.pc = "create", !.dev = d]
  <2>1. calls' = [calls EXCEPT ![c] = call]
    BY <1>3 DEF FindNewDevice, Start
  <2>2. call.pc = "create"
    BY DEF NoCall
  <2> HIDE DEF call
  <2> QED BY <1>2, <2>1, <2>2
<1>4. ASSUME NEW u \in Users, FindUser(c, u) PROVE WipesInv'
  <2> DEFINE call == [NoCall EXCEPT !.pc = "list", !.user = u]
  <2>1. calls' = [calls EXCEPT ![c] = call]
    BY <1>4 DEF FindUser, Start
  <2>2. call.pc = "list"
    BY DEF NoCall
  <2> HIDE DEF call
  <2> QED BY <1>2, <2>1, <2>2
<1>5. ASSUME NEW d \in Devices, NEW u \in Users, FindLinked(c, d, u) PROVE WipesInv'
  <2> DEFINE call == [NoCall EXCEPT !.dev = d, !.user = u,
                        !.pc = IF owner[d] \notin {Null, u} THEN "wipe" ELSE "assign"]
  <2>1. calls' = [calls EXCEPT ![c] = call]
    BY <1>5 DEF FindLinked, Start
  <2>2. /\ call.dev = d /\ call.user = u /\ call.pc \in {"wipe", "assign"}
        /\ call.pc = "wipe" => owner[d] # u
    BY DEF NoCall
  <2> HIDE DEF call
  <2> QED BY <1>2, <2>1, <2>2
<1>6. CASE Fail(c)
  <2>1. NoCall.pc = "idle"
    BY DEF NoCall
  <2> QED BY <1>2, <1>6, <2>1 DEF Fail, Done
<1> QED BY <1>3, <1>4, <1>5, <1>6 DEF Request

LEMMA WipesNext == TypeInv /\ WipesInv /\ [Next]_ovars => WipesInv'
<1> SUFFICES ASSUME TypeInv, WipesInv, [Next]_ovars PROVE WipesInv'
  OBVIOUS
<1>1. ASSUME UNCHANGED <<owner, calls>> PROVE WipesInv'
  BY <1>1 DEF WipesInv, WipesForOwner
<1>2. CASE RunStep \/ FailRun
  BY <1>1, <1>2 DEF RunStep, LookupOwner, WritePoint, FailRun, tables
<1>3. CASE \/ \E d \in Devices : CacheReading(d) \/ ReadStored(d)
           \/ \E p \in stored : DropReading(p)
  BY <1>1, <1>3 DEF CacheReading, ReadStored, DropReading, tables
<1>4. CASE Crash
  BY <1>4 DEF Crash, WipesInv, WipesForOwner, NoCall
<1>5. CASE UNCHANGED ovars
  BY <1>1, <1>5 DEF ovars
<1> QED BY <1>2, <1>3, <1>4, <1>5, WipesCallStep, WipesRequest DEF Next

LEMMA WipesInvariant == Spec => []WipesInv
<1>1. Init => WipesInv
  BY DEF Init, WipesInv, WipesForOwner, NoCall
<1> QED BY <1>1, WipesNext, TypeInvariant, PTL DEF Spec

\* Only the two deletions of telemetry take points out of InfluxDB.
LEMMA OnlyWipesDelete ==
  ASSUME [Next]_ovars, ~(influx \subseteq influx')
  PROVE  \E c \in Calls : WipeLinked(c) \/ \E e \in Devices : WipeListed(c, e)
<1>1. ASSUME NEW c \in Calls, CallStep(c)
      PROVE  WipeLinked(c) \/ \E e \in Devices : WipeListed(c, e)
  BY <1>1 DEF CallStep, CreateDevice, AssignOwner, ListDevices, UnlinkDevices, DeleteUser
<1>2. ~\E c \in Calls : Request(c) \/ Fail(c)
  BY DEF Request, FindNewDevice, FindLinked, FindUser, Fail
<1>3. /\ ~\E d \in Devices : CacheReading(d) \/ ReadStored(d)
      /\ ~\E p \in stored : DropReading(p)
  BY DEF CacheReading, ReadStored, DropReading
<1>4. ~RunStep /\ ~FailRun /\ ~Crash /\ ~UNCHANGED ovars
  BY DEF RunStep, LookupOwner, WritePoint, FailRun, Crash, ovars
<1> QED BY <1>1, <1>2, <1>3, <1>4 DEF Next

\* For any number of links and deletions in progress together: points of the present
\* owner are deleted by a link for somebody else, by the deletion of their own
\* account, or by a request that had looked at the owner before them and was about to
\* wipe when the device became theirs.  So a link that begins afterwards and repeats
\* it deletes nothing.  (iot.service.ts:85-107, user.service.ts:72-86)
THEOREM PresentOwnerKeepsPoints == Spec => RelinkKeepsHistory
<1> DEFINE Kept ==
      \A d \in Devices :
        (owner[d] # Null /\ \E p \in influx \ influx' : p.dev = d /\ p.of = owner[d]) =>
          \E c \in Calls :
            \/ /\ WipeLinked(c) /\ calls[c].dev = d
               /\ calls[c].user # owner[d] \/ d \in calls[c].late
            \/ /\ WipeListed(c, d)
               /\ calls[c].user = owner[d] \/ d \in calls[c].late
<1>1. ASSUME WipesInv, [Next]_ovars, NEW d \in Devices, owner[d] # Null,
             NEW p \in influx \ influx', p.dev = d
      PROVE  \E c \in Calls :
               \/ /\ WipeLinked(c) /\ calls[c].dev = d
                  /\ calls[c].user # owner[d] \/ d \in calls[c].late
               \/ /\ WipeListed(c, d)
                  /\ calls[c].user = owner[d] \/ d \in calls[c].late
  <2>1. PICK c \in Calls : WipeLinked(c) \/ \E e \in Devices : WipeListed(c, e)
    BY <1>1, OnlyWipesDelete
  <2>2. WipesForOwner(calls[c])
    BY <1>1 DEF WipesInv
  <2>3. CASE WipeLinked(c)
    <3>1. calls[c].dev = d /\ calls[c].pc = "wipe"
      BY <1>1, <2>3 DEF WipeLinked, Wipe, DeletePoints, PointsOf
    <3> QED BY <2>2, <2>3, <3>1 DEF WipesForOwner
  <2>4. ASSUME NEW e \in Devices, WipeListed(c, e)
        PROVE  /\ WipeListed(c, d)
               /\ calls[c].user = owner[d] \/ d \in calls[c].late
    <3>1. e = d /\ calls[c].pc = "wipeAll" /\ d \in calls[c].todo
      BY <1>1, <2>4 DEF WipeListed, Wipe, DeletePoints, PointsOf
    <3> QED BY <1>1, <2>2, <2>4, <3>1 DEF WipesForOwner
  <2> QED BY <2>1, <2>3, <2>4
<1>2. WipesInv /\ [Next]_ovars => [Kept]_ovars
  BY <1>1
<1>3. [][Kept]_ovars => RelinkKeepsHistory
  BY PTL DEF RelinkKeepsHistory
<1> HIDE DEF Kept
<1> QED BY <1>2, <1>3, WipesInvariant, PTL DEF Spec
=============================================================================
