# Verification of the IMOX Cloud backend

TLA+ modules, TLC configurations and TLAPS proofs for the NestJS backend in
`src/src`. Paths below are relative to `src/src/modules/` unless they start
with `src/`. A module's comments and `PROJECT.json` (`map`) give, for every
definition, the lines it models.

    tlc -workers 2 -config MCOtaUpdates.cfg MCOtaUpdates
    tlapm TelemetryPipeline_proofs.tla

## 1. Inventory

The backend is one Node.js process. It is concurrent at every `await`: MQTT
messages (`client.on('message')` does not wait for its async listener), HTTP and
WebSocket requests and cron ticks interleave between two calls to a store, and
no lock or transaction spans two calls. The state lives in four places: MariaDB
(users, iot, ota_updates), Redis (cached readings, baselines, event buffers,
sessions, blacklist, counters; almost every key has a TTL), InfluxDB (readings)
and the MQTT broker (one retained command per device).

| Component | State | Operations | Hard behaviours | Correct when |
|---|---|---|---|---|
| Telemetry message handling (`mqtt/mqtt.service.ts`, `database/telemetry/telemetry-redis.service.ts`) | `iot.is_online`; Redis `last`, `baseline`, `critical_buffer` of a device | `handleTelemetry` | handlers of one device overlap; push, trim and expire are three commands; keys expire; a call fails half way | the baseline is never a critical reading; the buffer stays bounded; unknown devices leave no trace |
| Scheduled persistence (`telemetry/telemetry.scheduler.ts`) | the points of InfluxDB; deletes the buffer | `persistAllDevices`, `processDevice` | read, write call by call, delete: pushes in between, failed writes, overlapping runs, crashes; an event without a valid date throws | an event leaves the buffer only persisted or for a reason one can name; events are eventually taken |
| Spike detector (`telemetry/spike-detector.service.ts`) | none | `detectAnomaly` | dead bands, zero, negative and null magnitudes, slow drift | the verdict is what the bands say; a drift carries the baseline out of the limits only where nothing is judged |
| Device health (`telemetry/telemetry.scheduler.ts`) | `iot.is_online`, TTL of `last` | `checkDeviceHealth` | TTL against threshold, clocks of devices, message against check | offline only with a reason; a device whose reading gets too old before it expires goes offline |
| OTA updates (`ota/ota.service.ts`, `mqtt/mqtt.service.ts`) | `ota_updates`, outbox of the client, retained command | `createOtaUpdate`, `publishOtaCommand`, `handleOtaStatus` | resends, lost statuses, crashes between row and command, one retained message for many jobs | the history never shows what no device said; commands can be attributed; pending jobs end |
| Sessions (`auth/auth.service.ts`, `auth/jwt.strategy.ts`, `database/auth/auth-redis.service.ts`) | Redis `session`, `blacklist` | `login`, `refreshToken`, `logout`, `validate` | concurrent refresh, logout, login of one client; crash between blacklist and save; expiry | retired tokens stay refused; no session with a refused token |
| History smoothing (`telemetry/utils/deadband.util.ts`) | none | `calculateAggregationWindow`, `applyDeadband` | anomalies among smoothed rows, look-behind, slow drift | anomalies kept; order kept, no repetition; what is hidden would not have been visible |
| History requests (`mqtt/mqtt.service.ts`, `iot/iot.service.ts`) | none | `handleHistoryRequest`, `getDeviceHistory` | two parallel queries, either of which fails, also after the answer; a refusal that must end the handler | one answer per request; an answer with data is the whole history in order of time |
| Device registry and ownership (`iot/iot.service.ts`, `user/user.service.ts`) | `users`, `iot.user_id`, the points of InfluxDB | `createIot`, `linkIotUser`, `deleteTelemetryData`, `deleteAccount` | refused deletions are swallowed; links against deletions; overlapping links; readings of the former owner still in Redis or on their way | no dangling owner; deletion ends; what is left of a former owner has a reason; what is lost of the present owner too |
| Realtime gateway (`telemetry/telemetry.gateway.ts`) | rooms of the sockets | `handleConnection`, `handleSubscribeToDevice`, `handleUnsubscribeFromDevice`, `broadcastTelemetry` | join, lookup and answer against broadcasts; leaving before the owner is known; owner read once | an answered subscriber has the newest reading broadcast; only who owned the device gets in |
| Password reset (`auth/auth.service.ts`) | Redis code, counter | `sendVerificacionCode`, `verifyCode`, `resetPassword` | check and increment apart, increment and expire apart | limit of three a day; a code serves once |
| Guards, filters, controllers, DTOs, store connections, Flux queries | none of their own | - | - | - |

Interactions: a message writes Redis, which both crons read; `processDevice`
reads the owner that the registry writes; broadcasts reach the rooms the gateway
manages; `createOtaUpdate` inserts rows and publishes commands, and the status
handler updates the same rows and clears the same topic; `deleteAccount` removes
the row every session check looks for.

`PROJECT.json` (`hazards`) lists each hard spot at its line with the properties
that would catch it, or why none does yet.

## 2. Modules

| Module | Models |
|---|---|
| `SpikeDetector` | `detectAnomaly` as operators on integers, and an independent definition by bands as reference. The relative threshold is a fraction, compared by cross multiplication. |
| `DetectorRun` | the detector fed with a stream of readings with or without `electricas` block, with the rules of the baseline and its expiry. |
| `TelemetryPipeline` | `handleTelemetry` and `persistAllDevices`, EXTENDS `SpikeDetector`. |
| `ReadingFlow` | abstract specification of what the path of the telemetry does to the readings: cache, broadcast, lose, expire, write. Implemented by the pipeline; the gateway is built on it. |
| `PipelineFlow` | `TelemetryPipeline` with the history (order of caching, readings cached and broadcast) that the refinement of `ReadingFlow` needs. |
| `OtaUpdates` | `createOtaUpdate`, `handleOtaStatus`, MQTT client, broker, devices. |
| `OtaLedger` | abstract specification of the history of updates, implemented by `OtaUpdates`. |
| `DeviceHealth` | `checkDeviceHealth` against messages and TTLs, with time in ticks. |
| `AuthSession` | `login`, `refreshToken`, `logout`, `validate`. |
| `PasswordReset` | `sendVerificacionCode`, `resetPassword`. |
| `HistoryFilter` | the loop of `applyDeadband`, one step per row. |
| `HistoryRequest` | `handleHistoryRequest` and `getDeviceHistory`, EXTENDS `HistoryFilter`. |
| `OneReply` | abstract specification of what a request is owed, implemented by `HistoryRequest`. |
| `DeviceOwnership` | `createIot`, `linkIotUser`, `deleteAccount`, with what Redis and InfluxDB hold of a device. |
| `RealtimeGateway` | connections, rooms, first reading and broadcast of the gateway, over `ReadingFlow`. |
| `TelemetryPipeline_proofs`, `OtaUpdates_proofs`, `DeviceOwnership_proofs`, `AuthSession_proofs`, `PasswordReset_proofs`, `RealtimeGateway_proofs`, `DeviceHealth_proofs`, `HistoryRequest_proofs` | the theorems about each, section 5. That of the pipeline also has those of `PipelineFlow` and `DetectorRun`. |
| `MC*` | values of the constants and symmetries, for TLC only. |

**State and actions.** A request, handler or cron run is a record with a program
counter and the locals that live across an `await`. One action is one awaited
call: the command takes effect at its store, and the code up to the next `await`
is part of the same step. A rejected call is a `Fault` (or `Fail`) of the process
that was waiting: the `catch` logs and what was left is not done. A call that
took effect although its answer was lost is the step followed by the fault. A
crash stops all processes and keeps what MariaDB, Redis and InfluxDB hold; in
`OtaUpdates` it also empties the outbox of the MQTT client.

**Abstractions.**
- A reading is its number, device, `electricas` block, verdict and whether its
  `timestamp`, which may be any string (`mqtt/dto/mqtt.dto.ts:84`), is a date: the
  scheduler parses that of an event and throws if it is not (`RejectPoint`), and
  writes the last reading with the time of the run. The other fields are copied and
  never looked at on these paths. Messages that fail validation leave nothing and
  are not steps.
- In `TelemetryPipeline`, `AuthSession` and `PasswordReset` a key with a TTL may
  vanish at any moment the TTL allows, so the properties hold for every TTL.
  `DeviceHealth` counts ticks, because there the length of the TTL is the question; a
  tick is long compared with a call to a store and only passes between them.
- A client library may retry a write in the background; that a write takes effect
  late is not modelled. A list that loses its last element and a missing list are
  the same, as in Redis.
- A signed pair of tokens is one number, since both carry the same sessionId.
  Users share no key, so `AuthSession` has one user with several clients, and
  `PasswordReset` one account. Two codes drawn at random are taken to differ.
- In `DeviceOwnership` a message is the reading it leaves in Redis (`stored`: the
  cached one or a critical event, which `DropReading` may take away at any time), and
  a scheduler run takes any of those of one device to InfluxDB, where the next run may
  write them again; `TelemetryPipeline` has both in detail. A deletion takes every
  point written before it: the timestamps of devices are taken not to be ahead of the
  backend's clock. A user id is never given twice (auto-increment), so the users that
  register later are like those of `Init` that no device belongs to yet. The status of
  a device changes only in the database, by hand, and is chosen in `Init`.
- `ReadingFlow` numbers the readings in the order they are cached and knows no
  handlers, runs or buffers: a reading cached and not broadcast yet may be the next
  one broadcast, be lost in a fault, and like any reading cached be written to
  InfluxDB at any time. `PipelineFlow` maps the pipeline to it: `FlowLast` and
  `FlowInflux` are the contents of the stores without the verdicts, `FlowSending` the
  messages of the handlers past the cache (`ToSend`). The history variables only
  follow the steps; no step waits for them.
- `RealtimeGateway` takes the readings from `ReadingFlow` (`ReceiveReading`,
  `Broadcast`, `FailMessage`, `ExpireOrWrite` and `Restart` are its steps), so that
  what it assumes of the pipeline is what the pipeline is proved to do. It does not
  repeat the registry: the points of a device may vanish and its owner may change to
  any user at any time (`ChangeDevice`), for no reason that the registry would need. A
  socket has one subscription per device in progress, and a closed one joins nothing
  (socket.io). `queryLatestTelemetry` may return the last row of any series of the
  device, since each value of a tag (`anomaly_type`, `ip`) makes a series of its own.
- History requests share nothing, so `HistoryRequest` has one. What InfluxDB
  returns is any of a set of row sequences, tables one after the other.
- `HistoryFilter` has magnitudes in thousandths and no inputs whose rounding
  depends on the binary form of a half.

**Variants.** Operators such as `Trimmed_OneMore` are wrong versions of the
definition they precede: a plausible slip in that code. No specification uses
them. Each property was checked to fail when the definition is replaced by one
of them (`mutants` in `PROJECT.json`).

## 3. Runs

Bounds are constants and named in the modules: `MaxMsgs`, `MaxFaults`,
`MaxRequests`, `MaxDrops`, `MaxUp`, `MaxTokens`, `MaxCodes`, `MaxReadings`.

| Run | Bounds | Shows |
|---|---|---|
| `detector` | limits 90..140, blocks on both sides of every boundary, 0, null, readings without block, baselines that expire | `VerdictMatchesBands`: between two blocks the verdict equals the independent definition. `DriftStaysInLimits` (action property): a reading outside the limits becomes the baseline only where there was none with a block. |
| `handlers` | 1 device, 2 handlers, 1 run, buffer of 1, 3 messages, any expiry | `BaselineNeverCritical` (the first baseline is stored twice, the second time without looking at the verdict), `BufferBounded` (what push-then-trim allows), `EventsLeaveAccounted`, and `ImplementsFlow` (refinement of `ReadingFlow`). |
| `devices` | 2 devices in every combination of row, status and owner, 2 messages, one sample whose timestamp is not a date, 1 fault | `OnlyKnownDevicesLeaveTraces` with failed calls and crashes, `EventsAreTaken` (liveness). |
| `lost_event` | 1 device, 1 handler, 1 run, 2 messages | violated, see findings. |
| `ota` | 2 devices (1 active), 2 requests, 2 status handlers, 1 fault, 1 power loss | `RowsShowReports`, `CommandsHaveRows`, `ClearedAfterEnd`, and `ImplementsLedger` (refinement). |
| `ota_live` | 1 job, device drops, no backend fault | `PendingJobsEnd` (liveness): the retained message takes the command to a device that was away. |
| `health` | 2 devices, clocks ahead, exact, late and without date, thresholds 4 and 10, TTL 10, period 5, 1 fault | `OfflineIsJustified`, `SilentGoesOffline` (liveness). |
| `sessions` | 2 clients, 2 requests at a time, 3 tokens, 1 fault or crash | `CurrentTokenUsable`, `RetiredTokensRefused`. |
| `password_reset` | 2 requests at a time, the limit of 3, 5 codes, 1 fault or crash | `MailsBounded`, `LockoutEnds`, `UsedCodesRefused`. |
| `history_filter` | answers of up to 3 aggregated rows out of 5 readings around the voltage band, 5 ways to space them (two out of order), up to 2 anomalies, either query failing, both sides of every window's bound, crash | `AnswersOnce` (refinement of `OneReply`, liveness included), `AnswersWhole`, `AnomaliesKept`, `OutputInOrder`, `EveryRowRepresented`. |
| `ownership` | 2 users, 2 devices in each status, 2 requests, 1 reading, 1 fault or crash, any number of refused deletions | `OwnersExist`, `OldDataExcused`, `RelinkKeepsHistory` (action property), `DeletionCompletes` (liveness). |
| `gateway` | 2 sockets of 2 users, 1 device, 2 readings, 1 fault or restart | `SubscribersUpToDate`, `RoomsAsAsked`. |

Why the bounds are enough to be interesting. The races are between two processes over
one key, so two handlers (and a run) meet all of them; a buffer of one event makes the
trim bite at the second push; three messages give a first reading, a critical one that
fills the buffer and one that overflows it; one fault can fall at every step. With
three tokens a login and two rotations, or a login, a rotation and another login,
overlap in every order. Two overlapping scheduler runs, and faults together with three
messages, are beyond TLC here and are covered by the proofs of `EventsLeaveAccounted`
and `ImplementsFlow`, which are for any number of runs and faults. `devices` has two
messages only, so an ownerless device and another one with an event are not cached
together in it; the faults are what that run is for. In `ownership` two users make a
former and a present owner, two requests are a link against a link, a link against a
deletion, or a deletion against itself, and two devices let the deletions of
`Promise.all` end in any order or be refused one by one. Each property is about one
point at a time and points do not affect each other, so one reading, taken at any
moment, is enough. In `health` the thresholds are the two sides of `StaleInTime`:
below `LastTtl - CronPeriod`, and the default, equal to the TTL. In `gateway` two
readings are the least that can be broadcast out of order, and the second socket is
the user the device belonged to.

Deadlock is checked except where the system really may stop: in `sessions` the
user may be deleted before any login, and in `password_reset` before any code,
and then nobody has anything to do (nor once `MaxCodes` are drawn); the OTA runs
end when the bounded requests are done, `history_filter` ends with its answer,
and in `ownership` nothing is left to do once the devices are inactive and both
accounts are gone.

**Fairness.** Weak fairness on each process's own steps: the event loop resumes
every answered call, each call is answered (an error is an answer), the cron
keeps ticking, the client reconnects by itself (`reconnectPeriod`), and in
`ota_live` a device that lost power comes back and works through its commands.
In `ownership` the steps of each request are fair, and in `history_filter` each
query is answered or fails (the client of InfluxDB has a timeout) and the loop
goes on. Nothing is assumed of messages, requests, expiries or faults.

## 4. Findings

A statement of the repository that the code does not keep, with its run:

- `lost_event`: `processDevice` deletes the whole buffer after having written
  what it read earlier; an event pushed in between never reaches InfluxDB.

Seen as well while modelling; the properties are stated so as to allow them:

- OTA: the end of any job clears the retained command of the device, a newer
  job's included, which an offline device then never gets, although
  `mqtt.service.ts:296` says it will (`ClearedAfterEnd` says what is kept); the
  status update is unconditional, so a slower handler of IN_PROGRESS or a resent
  command takes a finished job back; a final status lost while the backend is
  away leaves the retained command, and the job is executed again; a crash
  between row and command leaves a job PENDING.
- Health: with the default threshold (10 min) and the TTL of the cached reading
  (600 s) a reading that arrived on time expires before it is too old, and a silent
  device stays online for ever. `SilentGoesOffline` says what is left of the promise:
  for a reading that is older than the threshold during a whole period of the check
  before it expires (`StaleInTime`), which needs a threshold below 5 minutes or, with
  the default, a timestamp more than 5 minutes in the past. `health` has both thresholds;
  the bound is tight (with `=<` in the place of `<` TLC finds a counterexample).
- Registry: the telemetry of a former owner is not always gone after a link or a
  deleted account (`iot.controller.ts:65`, `user.controller.ts:73`): a refused
  deletion is only logged, and a cached reading or a critical event still in the
  buffer is written afterwards (`OldDataExcused` names these cases). A link for a user
  that does not exist wipes the telemetry before the foreign key rejects it. Of two
  overlapping links for the same new user, both of which saw the former owner, the
  second wipes what was measured for the new one since the first
  (`RelinkKeepsHistory` allows that and nothing more).
- Persistence: an event whose timestamp is not a date makes `toISOString` throw
  (`telemetry.scheduler.ts:138`). Until it leaves the buffer by the cap or by expiry
  (a TTL of an hour that every further event renews), each run ends at its device: its
  events are not deleted, those before it in the list are written again every time, and
  the devices after it are not persisted at all (`EventsAreTaken` excepts that time).
- Gateway: a client that leaves while the owner is being looked up is put into
  the room afterwards; a former owner stays in the room; without a cached reading
  the point taken from InfluxDB may be older than a broadcast that came before it.
- History: over HTTP a failed query looks like an empty history, over MQTT not.
- Others: a crash between the two commands of the counter of resets leaves it
  without TTL, and the account locked when it reaches the limit; concurrent
  handlers may leave the older reading cached; no limit is judged for a reading
  that finds no baseline, or one without `electricas` block, and it becomes the
  baseline whatever its values; a refresh that has passed its checks re-opens the session a
  logout of the same token closes (`auth.service.ts:163`; one that arrives later does
  not, `RetiredTokensRefused`).

## 5. Proofs

TLAPS checks the theorems below for every value of the constants: any number of
devices, handlers, requests, sockets, clients and rows, any caps, TTLs and bounds.
They assume what the `ASSUME`s of the modules say, and TLC evaluates those in the
runs: that counters and limits are naturals, sets of processes finite where they
are counted, and that `Null` is none of the values it stands beside
(`NullIsNoElectricas`, `NullIsNoReading`, `NullIsNoRow`). `RequestAssumption` adds
that the second query of a history returns only rows tagged as anomalies.

Every module has `TypeCorrect`, and few type invariants are inductive: an action
uses the reading, token, device or job that its process holds, so each proof first
strengthens the type invariant with what a process at a given `pc` holds. The
inductive invariants were checked by TLC on the runs' instances before they were
proved.

**`TelemetryPipeline`** (`TypeInv`: `BusyHandlersHoldReadings`,
`RunsKnowTheirDevice`)

- `BaselineSafe`, `[]BaselineNeverCritical`. The second store of a first baseline
  does not look at the verdict. `QuietReadingsAreStored` says that a handler at one
  of the two stores holds a reading whose verdict is NONE, and that a handler
  without baseline was not given another.
- `SnapshotsSafe`: each event in a run's snapshot is in InfluxDB or still to be
  written, and nothing is left when the run deletes the list. `EventsAccounted`
  (action property `EventsLeaveAccounted`) needs it for the deletion; every other
  step keeps the events, leaves the buffer alone, or is an accounted loss.
- `UnknownDevicesLeaveNoTrace`. `TraceInv`: what is cached, stored or held belongs
  to an active device (`KeptKnown`), a handler past its lookup works for one, and a
  run that writes found an owner (`ProcessesKnown`).
- `BufferAlwaysBounded`. `BufferBounded` is inductive: a push adds one event and one
  handler that has yet to trim; a fault turns at most all of those into `faults`.
- `VerdictIsThatOfTheBands`: for all magnitudes `detectAnomaly` answers what the
  definition by bands answers. The run `detector` checks it around each boundary, and
  `StreamVerdicts`, `StreamBaseline` and `StreamTypeCorrect` state the three
  properties of that run for every stream, limit, band and threshold (`StreamInv`:
  the verdict is that of the pair last judged, so a block that was judged quiet and
  adopted is inside the limits, and any other adopted block met no reference).
- `PipelineImplementsFlow`: `FlowSpec` implements `ReadingFlow`, for any devices,
  samples, handlers, runs and bounds. `FlowInv` says that the messages are numbered
  one by one in the order they are cached, each with a number of its own
  (`OrderInv`); that no two handlers work on one message, and one is numbered exactly
  when its handler has cached it (`HandlersNumbered`), so that a broadcast or a fault
  takes away its own readings and no other; and that Redis, InfluxDB and what each run
  has read or is about to write hold only readings that were cached (`KeptIn(Filed)`),
  whose numbers no later step changes (`FiledStays`). Each step is then mapped:
  `CacheMaps`, `SendMaps`, `RunMaps` (a write), `EnvironmentMaps` (an expiry, a
  fault), and `QuietMaps` for the steps of a handler the flow does not see.

**`OtaUpdates`** (`OtaInv`): whatever is in the outbox, retained, on its way or at a
device is about a row of that device, and every status in flight was published by it
(`InFlightTraced`, `ProcessesTraced`); rows and statuses only grow, which carries
both across the steps of others. From it `CommandsAlwaysHaveRows`,
`RowsAlwaysShowReports`, `ClearsFollowAnEnd` (an empty payload in flight means an end
was published) and `HistoryImplementsLedger`, the refinement of `OtaLedger`: creating
a row, recording a status and publishing one are its three steps, the rest stutters.

**`DeviceOwnership`**: `OwnersAlwaysExist` is inductive with the types.
`OldDataAlwaysExcused` needs `HistoryInv`: a link about to assign leaves no unexcused
point of another owner on its device, and an account deletion none of its user
outside the devices it still has to wipe. `PresentOwnerKeepsPoints` is an action
property: points are only deleted by the two wipes (`OnlyWipesDelete`), and by
`WipesInv` a request that is about to wipe a device does so for somebody else than its
present owner, or for the owner whose account it deletes, or else has seen the owner
change after it looked (the history field `late`, set by every link that gives the
device to another).

**`AuthSession`** (`SessionInv`): where a token can be (`TokensTraced`), that a session
holds a token of its client that was never retired (`SessionsCurrent`), and that the
token a request is about to save has reached nobody yet and is no other request's
(`CallWellFormed`, `SavesApart`). From it `RetiredTokensAlwaysRefused` and
`CurrentTokenAlwaysUsable`; the latter follows each step that blacklists.

**`PasswordReset`** (`ResetInv`): a code not mailed yet is one request's alone and the
code of a finished reset is not in its key (`CodesInv`), which gives
`UsedCodesAlwaysRefused`; every mail has a code and every increment a mail, and what
the counter has not seen is pending or lost in a fault (`MailsCounted`), which gives
`MailsAlwaysBounded` by counting requests. `LockoutAlwaysEnds`.

**`RealtimeGateway`** (`GatewayInv`): the cached reading of a device is the newest of
all its readings that were cached, broadcast, shown or stored (`CacheIsNewest`), and
a member of a room has missed nothing also while its next subscription is not
answered (`MembersUpToDate`).
`RoomsAlwaysAsAsked` needs that a lookup in progress is of a device asked for.

**`DeviceHealth`** (`HealthInv`): a check about to mark a device has read that it is
stale, and the cached reading is still that one or was just replaced (`MarkExcused`);
it holds because no tick passes while a check is half way. From it
`OfflineAlwaysJustified`, an action property.

**`HistoryRequest`** (`RequestInv`): the sort returns every row, once and in order of
time (`SortProperties`: ranks are injective, hence onto, a pigeonhole argument over
`FiniteSetTheorems`); the loop's last saved point is the end of its output
(`SavedIsEnd`), so what a row adds comes after it. From it `AnomaliesAlwaysKept`,
`OutputAlwaysInOrder` and `RowsAlwaysRepresented` for histories of any length;
`AnswersAlwaysWhole`, since the loop works on all the rows of both queries
(`LoopHasAll`); and `NeverAnswersTwice`, the safety part of the refinement of
`OneReply`.

**Only model-checked.** Liveness (`EventsAreTaken`, `PendingJobsEnd`,
`SilentGoesOffline`, `DeletionCompletes`, and that the answer of `AnswersOnce` comes):
it is out of the prover's reach, as is ENABLED. Every other property of the passing
runs is a theorem. `ClearedEventsPersisted` is false (section 4).

## 6. Not modelled

Flux texts and HTTP to InfluxDB, the life cycle of the store clients, DTO
validation, controllers, configuration, exception filters and guards: wiring,
pure I/O or stateless decisions. Uploading and listing firmware: file system
only. The registration of users: one insert that a unique key guards. Listed
with their reason in `PROJECT.json` (`components`).

## 7. Plan

1. *Done*: the modules and runs above.
2. *Done*: a theorem for every safety property of the runs.
3. *Done*: the pipeline and the gateway share one abstract specification,
   `ReadingFlow`, which the former is proved to implement and the latter is built on.
4. Left: the same for `DeviceHealth`, whose clocks `TelemetryPipeline` does not have,
   and liveness, should a prover for it be at hand.
