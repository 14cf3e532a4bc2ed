--------------------------- MODULE DeviceOwnership ---------------------------
(***************************************************************************)
(* Who owns a device and what is kept of its telemetry: createIot,         *)
(* linkIotUser and deleteTelemetryData (iot.service.ts), deleteAccount     *)
(* (user.service.ts), with the readings in Redis and the points of         *)
(* InfluxDB that messages and the scheduler write meanwhile                *)
(* (TelemetryPipeline has those in detail; here a message is the reading   *)
(* it leaves in Redis, as the cached one or in the buffer of critical      *)
(* events, and a run takes any of those of one device to InfluxDB, where   *)
(* the next run may write them again).                                     *)
(*                                                                         *)
(* A request is a program counter with its locals; each action is one      *)
(* awaited call.  A deletion that InfluxDB refuses is logged and swallowed *)
(* (deleteTelemetryData), so it may happen at any time and is no fault.    *)
(***************************************************************************)
EXTENDS Integers, FiniteSets

CONSTANTS
  Null,          \* no owner, no reading
  Users,         \* ids of the accounts, never given twice
  Devices,       \* MAC addresses
  Calls,         \* HTTP requests that may be in progress together
  MaxReadings,   \* bound on the messages received
  MaxFaults      \* bound on the rejected calls and crashes

ASSUME OwnershipAssumption ==
  /\ Null \notin Users \union Devices
  /\ MaxReadings \in Nat /\ MaxFaults \in Nat
  /\ IsFiniteSet(Users) /\ IsFiniteSet(Devices) /\ IsFiniteSet(Calls)

\* A reading, numbered in the order they are cached, with the owner its device
\* had then.
Reading == [n : 1..MaxReadings, dev : Devices, of : Users \union {Null}]

ASSUME NullIsNoReading == Null \notin Reading

VARIABLES
  users,       \* rows of users
  status,      \* iot row of a device: no row, status 0, or active
  owner,       \* its user_id
  stored,      \* readings in Redis: iot:<id>:last and iot:<id>:critical_buffer
  influx,      \* points of InfluxDB
  run,         \* the readings of a device that a scheduler run is about to write
  calls,       \* the requests
  received,    \* readings cached so far
  excused,     \* history: points that outlive their owner with a reason
  faults
tables == <<users, status, owner>>
ovars  == <<users, status, owner, stored, influx, run, calls, received, excused,
            faults>>

CallPcs == {"idle", "create", "wipe", "assign", "list", "wipeAll", "unlink", "delete"}
CallState == [pc : CallPcs, dev : Devices \union {Null}, user : Users \union {Null},
              todo : SUBSET Devices,
              late : SUBSET Devices]    \* history: to be wiped for the owner before
RunState == [pc : {"idle", "owner", "write"}, dev : Devices \union {Null},
             left : SUBSET Reading]

NoCall == [pc |-> "idle", dev |-> Null, user |-> Null, todo |-> {}, late |-> {}]
NoRun  == [pc |-> "idle", dev |-> Null, left |-> {}]

Init ==
  /\ users = Users
  /\ status \in [Devices -> {"absent", "inactive", "active"}]
  /\ owner = [d \in Devices |-> Null]
  /\ stored = {}
  /\ influx = {} /\ excused = {}
  /\ run = NoRun
  /\ calls = [c \in Calls |-> NoCall]
  /\ received = 0 /\ faults = 0

Goto(c, pc) == calls' = [calls EXCEPT ![c].pc = pc]
Done(c)     == calls' = [calls EXCEPT ![c] = NoCall]
Start(c, call) == calls[c].pc = "idle" /\ calls' = [calls EXCEPT ![c] = call]

PointsOf(d) == {p \in influx : p.dev = d}
-----------------------------------------------------------------------------
(* createIot *)

\* findUnique by MAC: a device that is there ends the request.
FindNewDevice(c, d) ==
  /\ status[d] = "absent"
  /\ Start(c, [NoCall EXCEPT !.pc = "create", !.dev = d])
  /\ UNCHANGED <<tables, stored, influx, run, received, excused, faults>>

\* Variant: created with a status that the rest does not know.
CreateDevice_OwnStatus(c) ==
  LET d == calls[c].dev
  IN /\ calls[c].pc = "create"
     /\ status' = [status EXCEPT ![d] = IF @ = "absent" THEN "unlinked" ELSE @]
     /\ Done(c)
     /\ UNCHANGED <<users, owner, stored, influx, run, received, excused, faults>>

\* iot.create: the unique MAC rejects the second of two.
CreateDevice(c) ==
  LET d == calls[c].dev
  IN /\ calls[c].pc = "create"
     /\ status' = [status EXCEPT ![d] = IF @ = "absent" THEN "active" ELSE @]
     /\ Done(c)
     /\ UNCHANGED <<users, owner, stored, influx, run, received, excused, faults>>
-----------------------------------------------------------------------------
(* linkIotUser *)

\* Variant: any owner found has the data wiped, the same user's too.
FindLinked_AnyOwner(c, d, u) ==
  /\ status[d] = "active"
  /\ Start(c, [NoCall EXCEPT !.dev = d, !.user = u,
        !.pc = IF owner[d] # Null THEN "wipe" ELSE "assign"])
  /\ UNCHANGED <<tables, stored, influx, run, received, excused, faults>>

\* findUnique by MAC, status and secret; the telemetry goes only if the device
\* has another owner.  The id of the user comes from the device and may be
\* that of an account that is gone.
FindLinked(c, d, u) ==
  /\ status[d] = "active"
  /\ Start(c, [NoCall EXCEPT !.dev = d, !.user = u,
        !.pc = IF owner[d] \notin {Null, u} THEN "wipe" ELSE "assign"])
  /\ UNCHANGED <<tables, stored, influx, run, received, excused, faults>>

\* deleteData, when InfluxDB accepts it: every point of the device up to now.
DeletePoints(d) ==
  /\ influx' = influx \ PointsOf(d)
  /\ excused' = excused \ PointsOf(d)

\* Variant: the deletion is not called.
Wipe_Skipped(d) == UNCHANGED <<influx, excused>>

\* deleteTelemetryData: every point of the device, or none and a line in the log.
Wipe(d) ==
  \/ DeletePoints(d)
  \/ excused' = excused \union PointsOf(d) /\ UNCHANGED influx

WipeLinked(c) ==
  /\ calls[c].pc = "wipe"
  /\ Wipe(calls[c].dev)
  /\ calls' = [calls EXCEPT ![c].pc = "assign", ![c].late = {}]
  /\ UNCHANGED <<tables, stored, run, received, faults>>

\* The requests that are about to wipe d, because of the owner they saw.
Wiping(b, d) ==
  \/ calls[b].pc = "wipe" /\ calls[b].dev = d
  \/ calls[b].pc = "wipeAll" /\ d \in calls[b].todo

\* The request ends; for those others the owner is now another one.
AssignDone(c) ==
  LET d == calls[c].dev
  IN calls' = [b \in Calls |->
       IF b = c THEN NoCall
       ELSE IF owner'[d] # owner[d] /\ Wiping(b, d)
         THEN [calls[b] EXCEPT !.late = @ \union {d}] ELSE calls[b]]

\* Variant: no foreign key to users.
AssignOwner_NoKey(c) ==
  /\ calls[c].pc = "assign"
  /\ owner' = [owner EXCEPT ![calls[c].dev] = calls[c].user]
  /\ AssignDone(c)
  /\ UNCHANGED <<users, status, stored, influx, run, received, excused, faults>>

\* iot.update: the foreign key rejects a user that is gone.
AssignOwner(c) ==
  /\ calls[c].pc = "assign"
  /\ owner' = [owner EXCEPT ![calls[c].dev] =
                 IF calls[c].user \in users THEN calls[c].user ELSE @]
  /\ AssignDone(c)
  /\ UNCHANGED <<users, status, stored, influx, run, received, excused, faults>>
-----------------------------------------------------------------------------
(* deleteAccount *)

FindUser(c, u) ==
  /\ u \in users
  /\ Start(c, [NoCall EXCEPT !.pc = "list", !.user = u])
  /\ UNCHANGED <<tables, stored, influx, run, received, excused, faults>>

\* findMany: the devices of the user, as they are now.
ListDevices(c) ==
  LET mine == {d \in Devices : owner[d] = calls[c].user}
  IN /\ calls[c].pc = "list"
     /\ calls' = [calls EXCEPT ![c].todo = mine,
                    ![c].pc = IF mine = {} THEN "unlink" ELSE "wipeAll"]
     /\ UNCHANGED <<tables, stored, influx, run, received, excused, faults>>

\* Variant: a rejected deletion rejects Promise.all, and with it the request.
WipeListed_Rejects(c, d) ==
  /\ calls[c].pc = "wipeAll" /\ d \in calls[c].todo
  /\ \/ /\ DeletePoints(d)
        /\ calls' = [calls EXCEPT ![c].todo = @ \ {d}, ![c].late = @ \ {d},
                       ![c].pc = IF calls[c].todo = {d} THEN "unlink" ELSE "wipeAll"]
     \/ UNCHANGED <<influx, excused>> /\ Done(c)
  /\ UNCHANGED <<tables, stored, run, received, faults>>

\* Promise.all: the deletions end in any order, and none of them rejects.
WipeListed(c, d) ==
  /\ calls[c].pc = "wipeAll" /\ d \in calls[c].todo
  /\ Wipe(d)
  /\ calls' = [calls EXCEPT ![c].todo = @ \ {d}, ![c].late = @ \ {d},
                 ![c].pc = IF calls[c].todo = {d} THEN "unlink" ELSE "wipeAll"]
  /\ UNCHANGED <<tables, stored, run, received, faults>>

Unlinked(u) == [d \in Devices |-> IF owner[d] = u THEN Null ELSE owner[d]]

\* iot.updateMany({user_id: null}).
UnlinkDevices(c) ==
  /\ calls[c].pc = "unlink"
  /\ owner' = Unlinked(calls[c].user)
  /\ Goto(c, "delete")
  /\ UNCHANGED <<users, status, stored, influx, run, received, excused, faults>>

\* Variant: the foreign key does nothing to the devices that are left.
DeleteUser_NoAction(c) ==
  /\ calls[c].pc = "delete"
  /\ users' = users \ {calls[c].user}
  /\ Done(c)
  /\ UNCHANGED <<status, owner, stored, influx, run, received, excused, faults>>

\* users.delete: rejected if the row is gone; a device linked since the
\* updateMany is unlinked by the foreign key (onDelete: SetNull).
DeleteUser(c) ==
  /\ calls[c].pc = "delete"
  /\ users' = users \ {calls[c].user}
  /\ owner' = Unlinked(calls[c].user)
  /\ Done(c)
  /\ UNCHANGED <<status, stored, influx, run, received, excused, faults>>
-----------------------------------------------------------------------------
(* Messages and persistence *)

NewReading(d) == [n |-> received + 1, dev |-> d, of |-> owner[d]]

\* handleTelemetry, as far as the reading is in Redis.
CacheReading(d) ==
  /\ status[d] = "active" /\ received < MaxReadings
  /\ received' = received + 1
  /\ stored' = stored \union {NewReading(d)}
  /\ UNCHANGED <<tables, influx, run, calls, excused, faults>>

\* The next reading takes its place, the buffer is trimmed or cleared, or the key
\* expires.
DropReading(p) ==
  /\ stored' = stored \ {p}
  /\ UNCHANGED <<tables, influx, run, calls, received, excused, faults>>

\* getTelemetryLast and getCriticalEvents in processDevice: what is in Redis now.
ReadStored(d) ==
  /\ run.pc = "idle"
  /\ \E left \in SUBSET {p \in stored : p.dev = d} \ {{}} :
       run' = [pc |-> "owner", dev |-> d, left |-> left]
  /\ UNCHANGED <<tables, stored, influx, calls, received, excused, faults>>

\* findUnique({user_id}): whose it is now, not when the readings were taken.
LookupOwner ==
  /\ run.pc = "owner"
  /\ run' = IF owner[run.dev] = Null THEN NoRun ELSE [run EXCEPT !.pc = "write"]
  /\ UNCHANGED <<tables, stored, influx, calls, received, excused, faults>>

\* A request that is changing the owner of d, or about to.
Changing(c, d) ==
  \/ calls[c].pc \in {"wipe", "assign"} /\ calls[c].dev = d
  \/ calls[c].pc \in {"list", "wipeAll", "unlink", "delete"}

\* writeTelemetryPoint, one reading after the other.
WritePoint(p) ==
  /\ run.pc = "write" /\ p \in run.left
  /\ influx' = influx \union {p}
  /\ excused' = IF owner[p.dev] # p.of \/ \E c \in Calls : Changing(c, p.dev)
                  THEN excused \union {p} ELSE excused
  /\ run' = IF run.left = {p} THEN NoRun ELSE [run EXCEPT !.left = @ \ {p}]
  /\ UNCHANGED <<tables, stored, calls, received, faults>>
-----------------------------------------------------------------------------
\* A rejected call ends its request; the deletions of telemetry reject nothing.
Fail(c) ==
  /\ calls[c].pc \notin {"idle", "wipe", "wipeAll"} /\ faults < MaxFaults
  /\ faults' = faults + 1
  /\ Done(c)
  /\ UNCHANGED <<tables, stored, influx, run, received, excused>>

FailRun ==
  /\ run.pc # "idle" /\ faults < MaxFaults
  /\ faults' = faults + 1
  /\ run' = NoRun
  /\ UNCHANGED <<tables, stored, influx, calls, received, excused>>

Crash ==
  /\ faults < MaxFaults
  /\ faults' = faults + 1
  /\ run' = NoRun
  /\ calls' = [c \in Calls |-> NoCall]
  /\ UNCHANGED <<tables, stored, influx, received, excused>>

CallStep(c) ==
  \/ CreateDevice(c)
  \/ WipeLinked(c)
  \/ AssignOwner(c)
  \/ ListDevices(c)
  \/ \E d \in Devices : WipeListed(c, d)
  \/ UnlinkDevices(c)
  \/ DeleteUser(c)

Request(c) ==
  \/ \E d \in Devices : FindNewDevice(c, d)
  \/ \E d \in Devices, u \in Users : FindLinked(c, d, u)
  \/ \E u \in Users : FindUser(c, u)

RunStep == LookupOwner \/ \E p \in run.left : WritePoint(p)

Next ==
  \/ \E c \in Calls : CallStep(c) \/ Request(c) \/ Fail(c)
  \/ \E d \in Devices : CacheReading(d) \/ ReadStored(d)
  \/ \E p \in stored : DropReading(p)
  \/ RunStep
  \/ FailRun
  \/ Crash

Spec == Init /\ [][Next]_ovars

\* Every call is answered and the event loop resumes what waited for it.
Fairness == \A c \in Calls : WF_ovars(CallStep(c))

FairSpec == Spec /\ Fairness
-----------------------------------------------------------------------------
(* Properties *)

TypeOK ==
  /\ users \subseteq Users
  /\ status \in [Devices -> {"absent", "inactive", "active"}]
  /\ owner \in [Devices -> Users \union {Null}]
  /\ stored \subseteq Reading /\ influx \subseteq Reading /\ excused \subseteq Reading
  /\ run \in RunState
  /\ calls \in [Calls -> CallState]
  /\ received \in 0..MaxReadings
  /\ faults \in 0..MaxFaults

\* The owner of a device is an account that exists, whatever links come between
\* the steps of a deletion.  (user.service.ts:88-94, schemaMaria.prisma:26)
OwnersExist == \A d \in Devices : owner[d] \in users \union {Null}

\* What was measured for a user is still in InfluxDB when the device is no
\* longer theirs only if a deletion failed, or if it was written while a request
\* was changing the owner, or afterwards, out of Redis: the cached reading of a
\* former owner, or the critical events still in the buffer.
\* (iot.service.ts:97-99, user.service.ts:79-86, telemetry.scheduler.ts:46-70)
OldDataExcused ==
  \A p \in influx : p.of \notin {Null, owner[p.dev]} => p \in excused

\* The points of the present owner are lost only to a link for somebody else, to
\* the deletion of their own account, or to a request that had looked at the owner
\* before them and was about to wipe when the device became theirs: a link that
\* begins afterwards and repeats it wipes nothing, whatever it overlaps.
\* (Of two overlapping links for the same new user, the second does wipe what
\* was written since the first.)  (iot.service.ts:85-107, user.service.ts:72-86)
RelinkKeepsHistory ==
  [][\A d \in Devices :
       (owner[d] # Null /\ \E p \in influx \ influx' : p.dev = d /\ p.of = owner[d]) =>
         \E c \in Calls :
           \/ /\ WipeLinked(c) /\ calls[c].dev = d
              /\ calls[c].user # owner[d] \/ d \in calls[c].late
           \/ /\ WipeListed(c, d)
              /\ calls[c].user = owner[d] \/ d \in calls[c].late]_ovars

\* Unless MariaDB rejects a call or the backend stops, the deletion of an account
\* ends with the account gone and no device of it, whether or not InfluxDB
\* deletes.  (user.service.ts:68-95, iot.service.ts:238-250)
DeletionCompletes ==
  \A u \in Users :
    (\E c \in Calls : calls[c].user = u /\ calls[c].pc \in {"list", "wipeAll"})
      ~> (faults > 0 \/ (u \notin users /\ \A d \in Devices : owner[d] # u))
=============================================================================
