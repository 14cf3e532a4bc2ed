-------------------------- MODULE OtaUpdates_proofs --------------------------
(***************************************************************************)
(* Theorems about OtaUpdates for any devices, requests, handlers and       *)
(* bounds: type correctness, where every command and every status comes    *)
(* from, and the safety part of OtaLedger.                                 *)
(***************************************************************************)
EXTENDS OtaUpdates, SequenceTheorems, TLAPS

JobsOf(d)  == {j \in Jobs : IsRowOf(j, d)}
SaidOf(d)  == {m \in [job : Jobs, status : Reports] :
                 IsRowOf(m.job, d) /\ <<m.job, m.status>> \in reported}
EndSaid(d) == \E j \in Jobs, s \in Final : IsRowOf(j, d) /\ <<j, s>> \in reported

\* A publication: a job on the topic of its device, or the empty payload after
\* that device announced the end of one.
Command == {p \in [dev : Devices, job : Jobs \union {Null}] :
              IF p.job = Null THEN EndSaid(p.dev) ELSE IsRowOf(p.job, p.dev)}

\* Everything in flight is about a stored row of the device it concerns, and
\* every status in flight was published by that device.
InFlightTraced ==
  /\ outbox \in Seq(Command)
  /\ \A d \in Devices :
       /\ retained[d] \in JobsOf(d) \union {Null}
       /\ up[d] \in Seq(SaidOf(d))
       /\ device[d].inbox \in Seq(JobsOf(d))
       /\ device[d].job \in JobsOf(d) \union {Null}
       /\ device[d].job # Null => <<device[d].job, "IN_PROGRESS">> \in reported

\* So is what the handlers and the requests hold.
HandlerTraced(h) == h.pc # "idle" =>
  /\ h.dev \in Devices /\ h.job \in JobsOf(h.dev)
  /\ h.status \in Reports /\ <<h.job, h.status>> \in reported
  /\ h.pc = "clear" => h.status \in Final
RequestTraced(r) == r.pc = "publish" => r.job \in Jobs /\ rows[r.job] # Null

ProcessesTraced ==
  /\ \A i \in Handlers : HandlerTraced(hs[i])
  /\ \A q \in Requests : RequestTraced(req[q])

OtaInv == TypeOK /\ InFlightTraced /\ ProcessesTraced /\ RowsShowReports

-----------------------------------------------------------------------------
(* What grows *)

\* Rows are added and change their status, and statuses are only added.
Grows ==
  /\ \A j \in Jobs, d \in Devices : IsRowOf(j, d) => IsRowOf(j, d)'
  /\ reported \subseteq reported'

LEMMA SetsGrow ==
  ASSUME Grows
  PROVE  /\ \A d \in Devices : /\ JobsOf(d) \subseteq JobsOf(d)' /\ SaidOf(d) \subseteq SaidOf(d)'
                               /\ EndSaid(d) => EndSaid(d)'
         /\ Command \subseteq Command'
<1>1. ASSUME NEW d \in Devices
      PROVE  JobsOf(d) \subseteq JobsOf(d)' /\ SaidOf(d) \subseteq SaidOf(d)' /\ (EndSaid(d) => EndSaid(d)')
  BY <1>1 DEF Grows, JobsOf, SaidOf, EndSaid
<1>2. ASSUME NEW p \in Command PROVE p \in Command'
  <2>1. p \in [dev : Devices, job : Jobs \union {Null}] /\ p.dev \in Devices
    BY DEF Command
  <2>2. IF p.job = Null THEN EndSaid(p.dev) ELSE IsRowOf(p.job, p.dev)
    BY DEF Command
  <2>3. CASE p.job = Null
    BY <1>1, <2>1, <2>2, <2>3 DEF Command
  <2>4. CASE p.job # Null
    <3>1. IsRowOf(p.job, p.dev)'
      BY <2>1, <2>2, <2>4 DEF Grows
    <3> QED BY <2>1, <2>4, <3>1 DEF Command
  <2> QED BY <2>3, <2>4
<1> QED BY <1>1, <1>2

LEMMA SeqGrows ==
  ASSUME NEW S, NEW T, S \subseteq T
  PROVE  Seq(S) \subseteq Seq(T)
BY SeqMonotonic

\* What is in flight stays traced while the rows and the reports grow.
LEMMA InFlightGrows ==
  ASSUME InFlightTraced, Grows
  PROVE  /\ outbox \in Seq(Command')
         /\ \A d \in Devices :
              /\ retained[d] \in JobsOf(d)' \union {Null}
              /\ up[d] \in Seq(SaidOf(d)')
              /\ device[d].inbox \in Seq(JobsOf(d)')
              /\ device[d].job \in JobsOf(d)' \union {Null}
              /\ device[d].job # Null => <<device[d].job, "IN_PROGRESS">> \in reported'
<1>1. outbox \in Seq(Command')
  BY SetsGrow, SeqGrows DEF InFlightTraced
<1>2. ASSUME NEW d \in Devices
      PROVE  /\ retained[d] \in JobsOf(d)' \union {Null}
             /\ up[d] \in Seq(SaidOf(d)')
             /\ device[d].inbox \in Seq(JobsOf(d)')
             /\ device[d].job \in JobsOf(d)' \union {Null}
             /\ device[d].job # Null => <<device[d].job, "IN_PROGRESS">> \in reported'
  <2>1. JobsOf(d) \subseteq JobsOf(d)' /\ SaidOf(d) \subseteq SaidOf(d)'
    BY SetsGrow
  <2>2. up[d] \in Seq(SaidOf(d)') /\ device[d].inbox \in Seq(JobsOf(d)')
    BY <2>1, SeqGrows DEF InFlightTraced
  <2> QED BY <2>1, <2>2 DEF InFlightTraced, Grows
<1> QED BY <1>1, <1>2

\* The element types of what is in flight.
LEMMA InFlightTypes ==
  ASSUME NEW d \in Devices
  PROVE  /\ Seq(Command) \subseteq Seq([dev : Devices, job : Jobs \union {Null}])
         /\ Seq(SaidOf(d)) \subseteq Seq([job : Jobs, status : Reports])
         /\ Seq(JobsOf(d)) \subseteq Seq(Jobs)
<1>1. Command \subseteq [dev : Devices, job : Jobs \union {Null}]
      /\ SaidOf(d) \subseteq [job : Jobs, status : Reports] /\ JobsOf(d) \subseteq Jobs
  BY DEF Command, SaidOf, JobsOf
<1> QED BY <1>1, SeqGrows

\* A request or a handler moves on and the others keep what they hold.
LEMMA ProcessesKept ==
  ASSUME OtaInv, Grows,
         \A i \in Handlers : hs'[i] = hs[i] \/ HandlerTraced(hs[i])',
         \A q \in Requests : req'[q] = req[q] \/ RequestTraced(req[q])'
  PROVE  ProcessesTraced'
<1>1. ASSUME NEW i \in Handlers PROVE HandlerTraced(hs[i])'
  <2>1. CASE hs'[i] = hs[i]
    <3>1. HandlerTraced(hs[i])
      BY DEF OtaInv, ProcessesTraced
    <3> QED BY <2>1, <3>1, SetsGrow DEF HandlerTraced, Grows
  <2> QED BY <1>1, <2>1
<1>2. ASSUME NEW q \in Requests PROVE RequestTraced(req[q])'
  <2>1. CASE req'[q] = req[q] /\ req[q].pc = "publish"
    <3>1. req[q].job \in Jobs /\ rows[req[q].job] # Null
      BY <2>1 DEF OtaInv, ProcessesTraced, RequestTraced
    <3>2. PICK j \in Jobs, d \in Devices : j = req[q].job /\ IsRowOf(j, d)
      BY <3>1 DEF OtaInv, TypeOK, IsRowOf
    <3>3. IsRowOf(j, d)'
      BY <3>2 DEF Grows
    <3> QED BY <2>1, <3>2, <3>3 DEF RequestTraced, IsRowOf
  <2>2. CASE req'[q] = req[q] /\ req[q].pc # "publish"
    BY <2>2 DEF RequestTraced
  <2> QED BY <1>2, <2>1, <2>2
<1> QED BY <1>1, <1>2 DEF ProcessesTraced

LEMMA IdleTypes ==
  /\ IdleRequest \in [pc : {"idle", "create", "publish"}, todo : SUBSET Devices, job : Jobs \union {Null}]
  /\ IdleHandler \in [pc : {"idle", "find", "update", "clear"}, dev : Devices \union {Null},
                      job : Jobs \union {Null}, status : Reports \union {Null}]
  /\ Offline \in [online : BOOLEAN, inbox : Seq(Jobs), job : Jobs \union {Null}]
  /\ IdleHandler.pc = "idle" /\ IdleRequest.pc = "idle"
<1>1. <<>> \in Seq(Jobs)
  BY EmptySeq
<1> QED BY <1>1 DEF IdleRequest, IdleHandler, Offline

LEMMA OtaInit == Init => OtaInv
<1> SUFFICES ASSUME Init PROVE OtaInv
  OBVIOUS
<1> USE OtaAssumption, IdleTypes DEF Init
<1>1. TypeOK
  <2>1. outbox \in Seq([dev : Devices, job : Jobs \union {Null}])
    BY EmptySeq
  <2>2. up \in [Devices -> Seq([job : Jobs, status : Reports])]
    BY EmptySeq
  <2>3. rows \in [Jobs -> {Null} \union [dev : Devices, status : Statuses]]
    OBVIOUS
  <2> QED BY <2>1, <2>2, <2>3 DEF TypeOK
<1>2. InFlightTraced
  <2>1. <<>> \in Seq(Command) /\ \A d \in Devices : <<>> \in Seq(SaidOf(d)) /\ <<>> \in Seq(JobsOf(d))
    BY EmptySeq
  <2> QED BY <2>1 DEF InFlightTraced, Offline
<1>3. ProcessesTraced /\ RowsShowReports
  BY DEF ProcessesTraced, HandlerTraced, RequestTraced, RowsShowReports
<1> QED BY <1>1, <1>2, <1>3 DEF OtaInv

-----------------------------------------------------------------------------
(* Requests *)

LEMMA NextTargetType ==
  ASSUME NEW todo \in SUBSET Devices
  PROVE  /\ NextTarget(todo) \in [pc : {"idle", "create", "publish"}, todo : SUBSET Devices,
                                  job : Jobs \union {Null}]
         /\ NextTarget(todo).pc # "publish"
BY IdleTypes DEF NextTarget, IdleRequest

LEMMA StartRequestInv ==
  ASSUME OtaInv, NEW q \in Requests, NEW targets \in SUBSET Devices, StartRequest(q, targets)
  PROVE  OtaInv'
<1>1. UNCHANGED <<rows, outbox, connected, retained, up, hs, device, reported, drops, faults>>
  BY DEF StartRequest, client, field
<1>2. Grows
  BY <1>1 DEF Grows, IsRowOf
<1>3. /\ req' = [req EXCEPT ![q] = NextTarget(targets \intersect Active)]
      /\ asked' = asked + 1 /\ asked < MaxRequests
  BY DEF StartRequest
<1>4. asked' \in 0..MaxRequests
  BY <1>3, OtaAssumption DEF OtaInv, TypeOK
<1>5. TypeOK'
  <2>1. req' \in [Requests -> [pc : {"idle", "create", "publish"}, todo : SUBSET Devices,
                                job : Jobs \union {Null}]]
    BY <1>3, NextTargetType DEF OtaInv, TypeOK
  <2> QED BY <1>1, <1>4, <2>1 DEF OtaInv, TypeOK
<1>6. ProcessesTraced'
  <2>1. \A p \in Requests : req'[p] = req[p] \/ RequestTraced(req[p])'
    BY <1>3, NextTargetType DEF OtaInv, TypeOK, RequestTraced
  <2> QED BY <1>1, <1>2, <2>1, ProcessesKept
<1>7. InFlightTraced'
  BY <1>1, <1>2, InFlightGrows DEF OtaInv, InFlightTraced
<1>8. RowsShowReports'
  BY <1>1 DEF OtaInv, RowsShowReports
<1> QED BY <1>5, <1>6, <1>7, <1>8 DEF OtaInv

LEMMA CreateJobInv ==
  ASSUME OtaInv, NEW q \in Requests, NEW d \in Devices, NEW j \in Jobs, CreateJob(q, d, j)
  PROVE  OtaInv'
<1>1. /\ UNCHANGED <<asked, outbox, connected, retained, up, hs, device, reported, drops, faults>>
      /\ rows[j] = Null /\ d \in req[q].todo
      /\ rows' = [rows EXCEPT ![j] = [dev |-> d, status |-> "PENDING"]]
      /\ req' = [req EXCEPT ![q] = [pc |-> "publish", todo |-> req[q].todo \ {d}, job |-> j]]
  BY DEF CreateJob, client, field
<1>2. [dev |-> d, status |-> "PENDING"] \in [dev : Devices, status : Statuses]
  BY DEF Statuses
<1>3. rows'[j] # Null /\ rows'[j].dev = d /\ rows'[j].status = "PENDING"
      /\ \A k \in Jobs \ {j} : rows'[k] = rows[k]
  BY <1>1, <1>2, NullIsNoRow DEF OtaInv, TypeOK
<1>4. Grows
  BY <1>1, <1>3 DEF Grows, IsRowOf
<1>5. TypeOK'
  <2>1. rows' \in [Jobs -> {Null} \union [dev : Devices, status : Statuses]]
    BY <1>1, <1>2 DEF OtaInv, TypeOK
  <2>2. req' \in [Requests -> [pc : {"idle", "create", "publish"}, todo : SUBSET Devices,
                                job : Jobs \union {Null}]]
    BY <1>1 DEF OtaInv, TypeOK
  <2> QED BY <1>1, <2>1, <2>2 DEF OtaInv, TypeOK
<1>6. ProcessesTraced'
  <2>1. \A p \in Requests : req'[p] = req[p] \/ RequestTraced(req[p])'
    BY <1>1, <1>3 DEF OtaInv, TypeOK, RequestTraced
  <2> QED BY <1>1, <1>4, <2>1, ProcessesKept
<1>7. InFlightTraced'
  BY <1>1, <1>4, InFlightGrows DEF OtaInv, InFlightTraced
<1>8. RowsShowReports'
  BY <1>1, <1>3 DEF OtaInv, RowsShowReports
<1> QED BY <1>5, <1>6, <1>7, <1>8 DEF OtaInv

\* The outbox takes a publication that is traced.
LEMMA PublishInv ==
  ASSUME OtaInv, NEW d \in Devices, NEW payload \in Jobs \union {Null}, Publish(d, payload),
         IF payload = Null THEN EndSaid(d) ELSE IsRowOf(payload, d),
         UNCHANGED <<rows, asked, connected, retained, up, device, reported, drops, faults>>,
         \A i \in Handlers : hs'[i] = hs[i] \/ HandlerTraced(hs[i])',
         \A q \in Requests : req'[q] = req[q] \/ RequestTraced(req[q])',
         hs' \in [Handlers -> [pc : {"idle", "find", "update", "clear"},
                          dev : Devices \union {Null}, job : Jobs \union {Null},
                          status : Reports \union {Null}]],
         req' \in [Requests -> [pc : {"idle", "create", "publish"}, todo : SUBSET Devices,
                           job : Jobs \union {Null}]]
  PROVE  OtaInv'
<1>1. Grows
  BY DEF Grows, IsRowOf
<1>2. [dev |-> d, job |-> payload] \in Command
  BY DEF Command
<1>3. outbox' \in Seq(Command)
  BY <1>2, AppendProperties DEF Publish, OtaInv, InFlightTraced
<1>4. outbox' \in Seq(Command') /\ outbox' \in Seq([dev : Devices, job : Jobs \union {Null}])
  BY <1>1, <1>3, SetsGrow, SeqGrows, InFlightTypes
<1>5. TypeOK'
  BY <1>4 DEF OtaInv, TypeOK
<1>6. InFlightTraced'
  BY <1>1, <1>4, InFlightGrows DEF OtaInv, InFlightTraced
<1>7. ProcessesTraced'
  BY <1>1, ProcessesKept
<1>8. RowsShowReports'
  BY DEF OtaInv, RowsShowReports
<1> QED BY <1>5, <1>6, <1>7, <1>8 DEF OtaInv

LEMMA PublishCommandInv ==
  ASSUME OtaInv, NEW q \in Requests, PublishCommand(q)
  PROVE  OtaInv'
<1>1. /\ UNCHANGED <<rows, asked, hs, connected, retained, up, device, reported, drops, faults>>
      /\ Publish(rows[req[q].job].dev, req[q].job) /\ req[q].pc = "publish"
      /\ req' = [req EXCEPT ![q] = NextTarget(req[q].todo)]
  BY DEF PublishCommand, field
<1>2. req[q].job \in Jobs /\ rows[req[q].job] # Null
  BY <1>1 DEF OtaInv, ProcessesTraced, RequestTraced
<1>3. rows[req[q].job].dev \in Devices /\ IsRowOf(req[q].job, rows[req[q].job].dev)
  BY <1>2 DEF OtaInv, TypeOK, IsRowOf
<1>4. req[q].job # Null
  BY <1>2, OtaAssumption DEF Jobs
<1>5. req' \in [Requests -> [pc : {"idle", "create", "publish"}, todo : SUBSET Devices,
                             job : Jobs \union {Null}]]
      /\ \A p \in Requests : req'[p] = req[p] \/ RequestTraced(req[p])'
  BY <1>1, NextTargetType DEF OtaInv, TypeOK, RequestTraced
<1>6. hs' \in [Handlers -> [pc : {"idle", "find", "update", "clear"},
                          dev : Devices \union {Null}, job : Jobs \union {Null},
                          status : Reports \union {Null}]]
  BY <1>1 DEF OtaInv, TypeOK
<1> QED BY <1>1, <1>2, <1>3, <1>4, <1>5, <1>6, PublishInv

-----------------------------------------------------------------------------
(* Status handlers *)

LEMMA ReceiveStatusInv ==
  ASSUME OtaInv, NEW i \in Handlers, NEW d \in Devices, ReceiveStatus(i, d)
  PROVE  OtaInv'
<1>1. /\ UNCHANGED <<rows, req, asked, outbox, connected, retained, device, reported, faults, drops>>
      /\ up[d] # <<>> /\ up' = [up EXCEPT ![d] = Tail(up[d])]
      /\ hs' = [hs EXCEPT ![i] = [pc |-> "find", dev |-> d, job |-> Head(up[d]).job,
                                  status |-> Head(up[d]).status]]
  BY DEF ReceiveStatus, client
<1>2. Grows
  BY <1>1 DEF Grows, IsRowOf
<1>3. up[d] \in Seq(SaidOf(d))
  BY DEF OtaInv, InFlightTraced
<1>4. Head(up[d]) \in SaidOf(d) /\ Tail(up[d]) \in Seq(SaidOf(d))
  BY <1>1, <1>3, HeadTailProperties
<1>5. /\ Head(up[d]).job \in JobsOf(d) /\ Head(up[d]).job \in Jobs /\ Head(up[d]).status \in Reports
      /\ <<Head(up[d]).job, Head(up[d]).status>> \in reported
  BY <1>4 DEF SaidOf, JobsOf
<1>6. hs' \in [Handlers -> [pc : {"idle", "find", "update", "clear"},
                          dev : Devices \union {Null}, job : Jobs \union {Null},
                          status : Reports \union {Null}]]
  BY <1>1, <1>5 DEF OtaInv, TypeOK
<1>7. HandlerTraced(hs[i])'
  <2>1. hs'[i] = [pc |-> "find", dev |-> d, job |-> Head(up[d]).job, status |-> Head(up[d]).status]
    BY <1>1 DEF OtaInv, TypeOK
  <2>2. Head(up[d]).job \in JobsOf(d)'
    BY <1>2, <1>5, SetsGrow
  <2> QED BY <1>1, <1>5, <2>1, <2>2 DEF HandlerTraced
<1>8. \A k \in Handlers : hs'[k] = hs[k] \/ HandlerTraced(hs[k])'
  BY <1>1, <1>7 DEF OtaInv, TypeOK
<1>9. ProcessesTraced'
  BY <1>1, <1>2, <1>8, ProcessesKept
<1>10. Tail(up[d]) \in Seq([job : Jobs, status : Reports])
  BY <1>4, InFlightTypes
<1>11. TypeOK'
  BY <1>1, <1>6, <1>10 DEF OtaInv, TypeOK
<1>12. InFlightTraced'
  <2>1. \A e \in Devices : up'[e] \in Seq(SaidOf(e)')
    <3>1. Tail(up[d]) \in Seq(SaidOf(d)')
      BY <1>2, <1>4, SetsGrow, SeqGrows
    <3>2. \A e \in Devices \ {d} : up'[e] = up[e]
      BY <1>1 DEF OtaInv, TypeOK
    <3>3. up'[d] = Tail(up[d])
      BY <1>1 DEF OtaInv, TypeOK
    <3> QED BY <1>2, <3>1, <3>2, <3>3, InFlightGrows DEF OtaInv
  <2> QED BY <1>1, <1>2, <2>1, InFlightGrows DEF OtaInv, InFlightTraced
<1>13. RowsShowReports'
  BY <1>1 DEF OtaInv, RowsShowReports
<1> QED BY <1>9, <1>11, <1>12, <1>13 DEF OtaInv

\* A handler moves on and nothing else changes but the status of its row.
LEMMA HandlerMoves ==
  ASSUME OtaInv, Grows, NEW i \in Handlers, NEW x,
         hs' = [hs EXCEPT ![i] = x],
         x \in [pc : {"idle", "find", "update", "clear"}, dev : Devices \union {Null},
                job : Jobs \union {Null}, status : Reports \union {Null}],
         HandlerTraced(x)',
         UNCHANGED <<req, asked, outbox, connected, retained, up, device, reported, faults, drops>>,
         rows' \in [Jobs -> {Null} \union [dev : Devices, status : Statuses]], RowsShowReports'
  PROVE  OtaInv'
<1>1. hs'[i] = x /\ \A k \in Handlers \ {i} : hs'[k] = hs[k]
  BY DEF OtaInv, TypeOK
<1>2. HandlerTraced(hs[i])'
  BY <1>1 DEF HandlerTraced
<1>3. ProcessesTraced'
  BY <1>1, <1>2, ProcessesKept
<1>4. TypeOK'
  BY DEF OtaInv, TypeOK
<1>5. InFlightTraced'
  BY InFlightGrows DEF OtaInv, InFlightTraced
<1> QED BY <1>3, <1>4, <1>5 DEF OtaInv

LEMMA FindJobInv ==
  ASSUME OtaInv, NEW i \in Handlers, FindJob(i)
  PROVE  OtaInv'
<1>1. /\ UNCHANGED <<rows, req, asked, outbox, connected, retained, up, device, reported, faults, drops>>
      /\ hs[i].pc = "find"
  BY DEF FindJob, client, field
<1>2. PICK x : x = IF rows[hs[i].job] = Null THEN IdleHandler ELSE [hs[i] EXCEPT !.pc = "update"]
  OBVIOUS
<1>3. hs' = [hs EXCEPT ![i] = x]
  BY <1>2 DEF FindJob, OtaInv, TypeOK
<1>4. Grows
  BY <1>1 DEF Grows, IsRowOf
<1>5. HandlerTraced(hs[i]) /\ hs[i] \in [pc : {"idle", "find", "update", "clear"},
        dev : Devices \union {Null}, job : Jobs \union {Null}, status : Reports \union {Null}]
  BY DEF OtaInv, TypeOK, ProcessesTraced
<1>6. x \in [pc : {"idle", "find", "update", "clear"}, dev : Devices \union {Null},
             job : Jobs \union {Null}, status : Reports \union {Null}]
      /\ (x.pc = "idle" \/ (x.pc = "update" /\ x.dev = hs[i].dev /\ x.job = hs[i].job
                            /\ x.status = hs[i].status))
  BY <1>2, <1>5, IdleTypes
<1>7. HandlerTraced(x)
  BY <1>1, <1>5, <1>6 DEF HandlerTraced
<1>8. HandlerTraced(x)'
  BY <1>1, <1>4, <1>7, SetsGrow DEF HandlerTraced
<1>9. rows' \in [Jobs -> {Null} \union [dev : Devices, status : Statuses]] /\ RowsShowReports'
  BY <1>1 DEF OtaInv, TypeOK, RowsShowReports
<1> QED BY <1>1, <1>3, <1>4, <1>6, <1>8, <1>9, HandlerMoves

LEMMA UpdateJobInv ==
  ASSUME OtaInv, NEW i \in Handlers, UpdateJob(i)
  PROVE  OtaInv'
<1>1. /\ UNCHANGED <<req, asked, outbox, connected, retained, up, device, reported, faults, drops>>
      /\ hs[i].pc = "update" /\ rows' = [rows EXCEPT ![hs[i].job].status = hs[i].status]
  BY DEF UpdateJob, client, field
<1>2. PICK x : x = IF hs[i].status \in Final THEN [hs[i] EXCEPT !.pc = "clear"] ELSE IdleHandler
  OBVIOUS
<1>3. hs' = [hs EXCEPT ![i] = x]
  BY <1>2 DEF UpdateJob, OtaInv, TypeOK
<1>5. HandlerTraced(hs[i]) /\ hs[i] \in [pc : {"idle", "find", "update", "clear"},
        dev : Devices \union {Null}, job : Jobs \union {Null}, status : Reports \union {Null}]
  BY DEF OtaInv, TypeOK, ProcessesTraced
<1>6. /\ hs[i].dev \in Devices /\ hs[i].job \in Jobs /\ IsRowOf(hs[i].job, hs[i].dev)
      /\ hs[i].job \in JobsOf(hs[i].dev)
      /\ hs[i].status \in Reports /\ <<hs[i].job, hs[i].status>> \in reported
  BY <1>1, <1>5 DEF HandlerTraced, JobsOf
<1>r. PICK r : r = [rows[hs[i].job] EXCEPT !.status = hs[i].status]
  OBVIOUS
<1>7. /\ r \in [dev : Devices, status : Statuses]
      /\ r.dev = hs[i].dev /\ r.status = hs[i].status
  <2>1. rows[hs[i].job] \in [dev : Devices, status : Statuses] /\ rows[hs[i].job].dev = hs[i].dev
    BY <1>6 DEF OtaInv, TypeOK, IsRowOf
  <2>2. hs[i].status \in Statuses
    BY <1>6 DEF Statuses
  <2> QED BY <1>r, <2>1, <2>2
<1>8. rows' = [rows EXCEPT ![hs[i].job] = r] /\ rows' \in [Jobs -> {Null} \union [dev : Devices, status : Statuses]]
  BY <1>1, <1>6, <1>r, <1>7 DEF OtaInv, TypeOK
<1>9. rows'[hs[i].job] = r /\ r # Null /\ \A j \in Jobs : j # hs[i].job => rows'[j] = rows[j]
  BY <1>6, <1>7, <1>8, NullIsNoRow DEF OtaInv, TypeOK
<1>4. Grows
  BY <1>1, <1>6, <1>7, <1>9 DEF Grows, IsRowOf
<1>10. x \in [pc : {"idle", "find", "update", "clear"}, dev : Devices \union {Null},
             job : Jobs \union {Null}, status : Reports \union {Null}]
      /\ (x.pc = "idle" \/ (x.pc = "clear" /\ x.dev = hs[i].dev /\ x.job = hs[i].job
                            /\ x.status = hs[i].status /\ x.status \in Final))
  BY <1>2, <1>5, IdleTypes
<1>11. HandlerTraced(x)
  BY <1>6, <1>10 DEF HandlerTraced
<1>12. HandlerTraced(x)'
  BY <1>1, <1>4, <1>11, SetsGrow DEF HandlerTraced
<1>13. RowsShowReports'
  BY <1>1, <1>6, <1>7, <1>9 DEF OtaInv, RowsShowReports
<1> QED BY <1>1, <1>3, <1>4, <1>8, <1>10, <1>12, <1>13, HandlerMoves

LEMMA ClearCommandInv ==
  ASSUME OtaInv, NEW i \in Handlers, ClearCommand(i)
  PROVE  OtaInv'
<1>1. /\ UNCHANGED <<rows, req, asked, connected, retained, up, device, reported, drops, faults>>
      /\ Publish(hs[i].dev, Null) /\ hs[i].pc = "clear"
      /\ hs' = [hs EXCEPT ![i] = IdleHandler]
  BY DEF ClearCommand, field
<1>2. hs[i].dev \in Devices /\ EndSaid(hs[i].dev)
  BY <1>1 DEF OtaInv, ProcessesTraced, HandlerTraced, EndSaid, JobsOf
<1>3. hs' \in [Handlers -> [pc : {"idle", "find", "update", "clear"},
                          dev : Devices \union {Null}, job : Jobs \union {Null},
                          status : Reports \union {Null}]]
      /\ \A k \in Handlers : hs'[k] = hs[k] \/ HandlerTraced(hs[k])'
  BY <1>1, IdleTypes DEF OtaInv, TypeOK, HandlerTraced
<1>4. req' \in [Requests -> [pc : {"idle", "create", "publish"}, todo : SUBSET Devices,
                             job : Jobs \union {Null}]]
      /\ \A q \in Requests : req'[q] = req[q]
  BY <1>1 DEF OtaInv, TypeOK
<1> QED BY <1>1, <1>2, <1>3, <1>4, PublishInv

-----------------------------------------------------------------------------
(* The client, the broker and the devices *)

\* Rows, requests, handlers and reports as they were: what is in flight may be
\* delivered, lost or taken.
LEMMA FlightInv ==
  ASSUME OtaInv, UNCHANGED <<rows, asked, reported>>,
         \A i \in Handlers : hs'[i] = hs[i] \/ HandlerTraced(hs[i])',
         \A q \in Requests : req'[q] = req[q] \/ RequestTraced(req[q])',
         hs' \in [Handlers -> [pc : {"idle", "find", "update", "clear"},
                          dev : Devices \union {Null}, job : Jobs \union {Null},
                          status : Reports \union {Null}]],
         req' \in [Requests -> [pc : {"idle", "create", "publish"}, todo : SUBSET Devices,
                           job : Jobs \union {Null}]],
         connected' \in BOOLEAN, faults' \in 0..MaxFaults, drops' \in 0..MaxDrops,
         outbox' \in Seq(Command),
         retained' \in [Devices -> Jobs \union {Null}],
         \A d \in Devices : retained'[d] \in JobsOf(d) \union {Null},
         up' \in [Devices -> Seq([job : Jobs, status : Reports])],
         \A d \in Devices : up'[d] \in Seq(SaidOf(d)),
         device' \in [Devices -> [online : BOOLEAN, inbox : Seq(Jobs), job : Jobs \union {Null}]],
         \A d \in Devices :
           /\ device'[d].inbox \in Seq(JobsOf(d))
           /\ device'[d].job \in JobsOf(d) \union {Null}
           /\ device'[d].job # Null => <<device'[d].job, "IN_PROGRESS">> \in reported
  PROVE  OtaInv'
<1>1. Grows
  BY DEF Grows, IsRowOf
<1>2. ProcessesTraced'
  BY <1>1, ProcessesKept
<1>3. outbox' \in Seq(Command') /\ outbox' \in Seq([dev : Devices, job : Jobs \union {Null}])
  <2>1. Command \subseteq Command' /\ Command \subseteq [dev : Devices, job : Jobs \union {Null}]
    BY <1>1, SetsGrow DEF Command
  <2> QED BY <2>1, SeqGrows
<1>4. InFlightTraced'
  <2>1. ASSUME NEW d \in Devices
        PROVE  up'[d] \in Seq(SaidOf(d)') /\ device'[d].inbox \in Seq(JobsOf(d)')
               /\ JobsOf(d) \subseteq JobsOf(d)'
    <3>1. JobsOf(d) \subseteq JobsOf(d)' /\ SaidOf(d) \subseteq SaidOf(d)'
      BY <1>1, SetsGrow
    <3>2. Seq(JobsOf(d)) \subseteq Seq(JobsOf(d)') /\ Seq(SaidOf(d)) \subseteq Seq(SaidOf(d)')
      BY <3>1, SeqGrows
    <3>3. up'[d] \in Seq(SaidOf(d)) /\ device'[d].inbox \in Seq(JobsOf(d))
      OBVIOUS
    <3> QED BY <3>1, <3>2, <3>3
  <2> QED BY <1>3, <2>1 DEF InFlightTraced
<1>5. TypeOK'
  BY <1>3 DEF OtaInv, TypeOK
<1>6. RowsShowReports'
  BY DEF OtaInv, RowsShowReports
<1> QED BY <1>2, <1>4, <1>5, <1>6 DEF OtaInv

\* An invariant state is one of these.
LEMMA FlightTyped ==
  ASSUME OtaInv
  PROVE  /\ hs \in [Handlers -> [pc : {"idle", "find", "update", "clear"},
                          dev : Devices \union {Null}, job : Jobs \union {Null},
                          status : Reports \union {Null}]]
         /\ req \in [Requests -> [pc : {"idle", "create", "publish"}, todo : SUBSET Devices,
                           job : Jobs \union {Null}]]
         /\ connected \in BOOLEAN /\ faults \in 0..MaxFaults /\ drops \in 0..MaxDrops
         /\ outbox \in Seq(Command)
         /\ retained \in [Devices -> Jobs \union {Null}]
         /\ \A d \in Devices : retained[d] \in JobsOf(d) \union {Null}
         /\ up \in [Devices -> Seq([job : Jobs, status : Reports])]
         /\ \A d \in Devices : up[d] \in Seq(SaidOf(d))
         /\ device \in [Devices -> [online : BOOLEAN, inbox : Seq(Jobs), job : Jobs \union {Null}]]
         /\ \A d \in Devices :
              /\ device[d].inbox \in Seq(JobsOf(d))
              /\ device[d].job \in JobsOf(d) \union {Null}
              /\ device[d].job # Null => <<device[d].job, "IN_PROGRESS">> \in reported
BY DEF OtaInv, TypeOK, InFlightTraced

LEMMA NothingUp ==
  ASSUME up' = [d \in Devices |-> <<>>]
  PROVE  /\ up' \in [Devices -> Seq([job : Jobs, status : Reports])]
         /\ \A d \in Devices : up'[d] \in Seq(SaidOf(d))
<1>1. <<>> \in Seq([job : Jobs, status : Reports]) /\ \A d \in Devices : <<>> \in Seq(SaidOf(d))
  BY EmptySeq
<1> QED BY <1>1

\* The broker stores the oldest publication under the topic of its device, and
\* may forward it.
LEMMA ArriveTraced ==
  ASSUME OtaInv, outbox # <<>>, Arrive(Head(outbox))
  PROVE  /\ Tail(outbox) \in Seq(Command)
         /\ retained' \in [Devices -> Jobs \union {Null}]
         /\ \A d \in Devices : retained'[d] \in JobsOf(d) \union {Null}
         /\ device' \in [Devices -> [online : BOOLEAN, inbox : Seq(Jobs), job : Jobs \union {Null}]]
         /\ \A d \in Devices :
              /\ device'[d].inbox \in Seq(JobsOf(d))
              /\ device'[d].job \in JobsOf(d) \union {Null}
              /\ device'[d].job # Null => <<device'[d].job, "IN_PROGRESS">> \in reported
<1>1. PICK p \in Command : p = Head(outbox) /\ Tail(outbox) \in Seq(Command)
  BY HeadTailProperties, FlightTyped
<1>2. PICK d \in Devices, j \in Jobs \union {Null} :
        d = p.dev /\ j = p.job /\ (j # Null => j \in JobsOf(d))
  BY DEF Command, JobsOf
<1>3. PICK inbox : inbox = IF device[d].online /\ j # Null THEN Append(device[d].inbox, j) ELSE device[d].inbox
  OBVIOUS
<1>4. inbox \in Seq(JobsOf(d)) /\ inbox \in Seq(Jobs)
  <2>1. device[d].inbox \in Seq(JobsOf(d))
    BY FlightTyped
  <2>2. j # Null => Append(device[d].inbox, j) \in Seq(JobsOf(d))
    BY <1>2, <2>1, AppendProperties
  <2>3. inbox \in Seq(JobsOf(d))
    BY <1>3, <2>1, <2>2
  <2> QED BY <2>3, InFlightTypes
<1>5. retained' = [retained EXCEPT ![d] = j]
  BY <1>1, <1>2 DEF Arrive
<1>6. PICK x : x = [device[d] EXCEPT !.inbox = inbox]
  OBVIOUS
<1>7. device' = [device EXCEPT ![d] = x]
  BY <1>1, <1>2, <1>3, <1>6, FlightTyped DEF Arrive
<1>8. /\ x \in [online : BOOLEAN, inbox : Seq(Jobs), job : Jobs \union {Null}]
      /\ x.inbox = inbox /\ x.job = device[d].job
  BY <1>4, <1>6, FlightTyped
<1>9. device'[d] = x /\ \A e \in Devices \ {d} : device'[e] = device[e]
  BY <1>7, FlightTyped
<1>10. retained'[d] = j /\ \A e \in Devices \ {d} : retained'[e] = retained[e]
  BY <1>5, FlightTyped
<1>11. device' \in [Devices -> [online : BOOLEAN, inbox : Seq(Jobs), job : Jobs \union {Null}]]
       /\ retained' \in [Devices -> Jobs \union {Null}]
  BY <1>5, <1>7, <1>8, FlightTyped
<1>12. ASSUME NEW e \in Devices
       PROVE  /\ retained'[e] \in JobsOf(e) \union {Null} /\ device'[e].inbox \in Seq(JobsOf(e))
              /\ device'[e].job \in JobsOf(e) \union {Null}
              /\ device'[e].job # Null => <<device'[e].job, "IN_PROGRESS">> \in reported
  <2>1. CASE e = d
    <3>1. device[d].job \in JobsOf(d) \union {Null}
          /\ (device[d].job # Null => <<device[d].job, "IN_PROGRESS">> \in reported)
      BY FlightTyped
    <3> QED BY <1>2, <1>4, <1>8, <1>9, <1>10, <2>1, <3>1
  <2>2. CASE e # d
    BY <1>9, <1>10, <2>2, FlightTyped
  <2> QED BY <2>1, <2>2
<1> QED BY <1>1, <1>11, <1>12

LEMMA ClientInv ==
  ASSUME OtaInv, Deliver \/ Disconnect \/ DeliverUnacknowledged \/ Reconnect
  PROVE  OtaInv'
<1>1. UNCHANGED <<rows, req, asked, hs, reported, drops>>
  BY DEF Deliver, Disconnect, DeliverUnacknowledged, Reconnect, backend, field
<1>2. faults' \in 0..MaxFaults /\ connected' \in BOOLEAN
  <2>1. connected' \in BOOLEAN
    BY FlightTyped DEF Deliver, Disconnect, DeliverUnacknowledged, Reconnect
  <2>2. faults' \in 0..MaxFaults
    BY OtaAssumption DEF Deliver, Disconnect, DeliverUnacknowledged, Reconnect, OtaInv, TypeOK
  <2> QED BY <2>1, <2>2
<1>3. CASE Deliver
  BY <1>1, <1>2, <1>3, FlightTyped, ArriveTraced, FlightInv DEF Deliver
<1>4. CASE Disconnect
  BY <1>1, <1>2, <1>4, FlightTyped, NothingUp, FlightInv DEF Disconnect
<1>5. CASE DeliverUnacknowledged
  BY <1>1, <1>2, <1>5, FlightTyped, NothingUp, ArriveTraced, FlightInv DEF DeliverUnacknowledged
<1>6. CASE Reconnect
  BY <1>1, <1>2, <1>6, FlightTyped, FlightInv DEF Reconnect, field
<1> QED BY <1>3, <1>4, <1>5, <1>6

LEMMA FailCrashInv ==
  ASSUME OtaInv, Crash \/ \E p \in Requests \union Handlers : Fail(p)
  PROVE  OtaInv'
<1>1. UNCHANGED <<rows, asked, retained, device, reported, drops>>
  BY DEF Crash, Fail, client, field
<1>2. faults' \in 0..MaxFaults
  BY OtaAssumption, FlightTyped DEF Crash, Fail
<1>3. /\ hs' \in [Handlers -> [pc : {"idle", "find", "update", "clear"},
                          dev : Devices \union {Null}, job : Jobs \union {Null},
                          status : Reports \union {Null}]]
      /\ req' \in [Requests -> [pc : {"idle", "create", "publish"}, todo : SUBSET Devices,
                           job : Jobs \union {Null}]]
      /\ \A i \in Handlers : hs'[i] = hs[i] \/ hs'[i] = IdleHandler
      /\ \A q \in Requests : req'[q] = req[q] \/ req'[q] = IdleRequest
  <2>1. /\ hs \in [Handlers -> [pc : {"idle", "find", "update", "clear"},
                          dev : Devices \union {Null}, job : Jobs \union {Null},
                          status : Reports \union {Null}]]
        /\ req \in [Requests -> [pc : {"idle", "create", "publish"}, todo : SUBSET Devices,
                           job : Jobs \union {Null}]]
    BY FlightTyped
  <2>2. /\ \A i \in Handlers : hs'[i] = hs[i] \/ hs'[i] = IdleHandler
        /\ \A q \in Requests : req'[q] = req[q] \/ req'[q] = IdleRequest
    BY DEF Crash, Fail
  <2>3. hs' = [i \in Handlers |-> hs'[i]] /\ req' = [q \in Requests |-> req'[q]]
    BY DEF Crash, Fail
  <2>4. \A i \in Handlers : hs'[i] \in [pc : {"idle", "find", "update", "clear"},
          dev : Devices \union {Null}, job : Jobs \union {Null}, status : Reports \union {Null}]
    BY <2>1, <2>2, IdleTypes
  <2>5. \A q \in Requests : req'[q] \in [pc : {"idle", "create", "publish"},
          todo : SUBSET Devices, job : Jobs \union {Null}]
    BY <2>1, <2>2, IdleTypes
  <2>6. hs' \in [Handlers -> [pc : {"idle", "find", "update", "clear"},
          dev : Devices \union {Null}, job : Jobs \union {Null}, status : Reports \union {Null}]]
    BY <2>3, <2>4
  <2>7. req' \in [Requests -> [pc : {"idle", "create", "publish"},
          todo : SUBSET Devices, job : Jobs \union {Null}]]
    BY <2>3, <2>5
  <2> QED BY <2>2, <2>6, <2>7
<1>4. /\ \A i \in Handlers : hs'[i] = hs[i] \/ HandlerTraced(hs[i])'
      /\ \A q \in Requests : req'[q] = req[q] \/ RequestTraced(req[q])'
  BY <1>3, IdleTypes DEF HandlerTraced, RequestTraced
<1>5. CASE Crash
  <2>1. outbox' \in Seq(Command)
    BY <1>5, EmptySeq DEF Crash
  <2> QED BY <1>1, <1>2, <1>3, <1>4, <1>5, <2>1, FlightTyped, NothingUp, FlightInv DEF Crash
<1>6. CASE \E p \in Requests \union Handlers : Fail(p)
  BY <1>1, <1>2, <1>3, <1>4, <1>6, FlightTyped, FlightInv DEF Fail, client, field
<1> QED BY <1>5, <1>6

\* What one device takes from its inbox, loses or gets back.
LEMMA DeviceMoves ==
  ASSUME OtaInv, NEW d \in Devices, NEW x,
         x \in [online : BOOLEAN, inbox : Seq(Jobs), job : Jobs \union {Null}],
         device' = [device EXCEPT ![d] = x],
         x.inbox \in Seq(JobsOf(d)), x.job \in JobsOf(d) \union {Null},
         x.job # Null => <<x.job, "IN_PROGRESS">> \in reported
  PROVE  /\ device' \in [Devices -> [online : BOOLEAN, inbox : Seq(Jobs), job : Jobs \union {Null}]]
         /\ \A e \in Devices :
              /\ device'[e].inbox \in Seq(JobsOf(e))
              /\ device'[e].job \in JobsOf(e) \union {Null}
              /\ device'[e].job # Null => <<device'[e].job, "IN_PROGRESS">> \in reported
<1>1. device'[d] = x /\ \A e \in Devices \ {d} : device'[e] = device[e]
  BY FlightTyped
<1>2. device' \in [Devices -> [online : BOOLEAN, inbox : Seq(Jobs), job : Jobs \union {Null}]]
  BY FlightTyped
<1>3. ASSUME NEW e \in Devices
      PROVE  /\ device'[e].inbox \in Seq(JobsOf(e))
             /\ device'[e].job \in JobsOf(e) \union {Null}
             /\ device'[e].job # Null => <<device'[e].job, "IN_PROGRESS">> \in reported
  <2>1. CASE e = d
    BY <1>1, <2>1
  <2>2. CASE e # d
    BY <1>1, <2>2, FlightTyped
  <2> QED BY <2>1, <2>2
<1> QED BY <1>2, <1>3

LEMMA DeviceConnectInv ==
  ASSUME OtaInv, NEW d \in Devices, DeviceConnect(d)
  PROVE  OtaInv'
<1>1. UNCHANGED <<rows, req, asked, hs, outbox, connected, retained, up, reported, faults, drops>>
  BY DEF DeviceConnect, backend, client
<1>2. PICK inbox : inbox = IF retained[d] # Null THEN <<retained[d]>> ELSE <<>>
  OBVIOUS
<1>3. inbox \in Seq(JobsOf(d)) /\ inbox \in Seq(Jobs)
  <2>1. CASE retained[d] = Null
    BY <1>2, <2>1, EmptySeq
  <2>2. CASE retained[d] # Null
    <3>1. retained[d] \in JobsOf(d) /\ retained[d] \in Jobs
      BY <2>2, FlightTyped DEF JobsOf
    <3> QED BY <1>2, <2>2, <3>1
  <2> QED BY <2>1, <2>2
<1>4. PICK x : x = [device[d] EXCEPT !.online = TRUE, !.inbox = inbox]
  OBVIOUS
<1>5. device' = [device EXCEPT ![d] = x]
  BY <1>2, <1>4, FlightTyped DEF DeviceConnect
<1>6. /\ x \in [online : BOOLEAN, inbox : Seq(Jobs), job : Jobs \union {Null}]
      /\ x.inbox = inbox /\ x.job = device[d].job
  BY <1>3, <1>4, FlightTyped
<1>7. x.job \in JobsOf(d) \union {Null} /\ (x.job # Null => <<x.job, "IN_PROGRESS">> \in reported)
  BY <1>6, FlightTyped
<1> QED BY <1>1, <1>3, <1>5, <1>6, <1>7, DeviceMoves, FlightTyped, FlightInv

LEMMA DeviceDropInv ==
  ASSUME OtaInv, NEW d \in Devices, DeviceDrop(d)
  PROVE  OtaInv'
<1>1. /\ UNCHANGED <<rows, req, asked, hs, outbox, connected, retained, up, reported, faults>>
      /\ device' = [device EXCEPT ![d] = Offline]
  BY DEF DeviceDrop, backend, client
<1>2. drops' \in 0..MaxDrops
  BY OtaAssumption, FlightTyped DEF DeviceDrop
<1>3. Offline.inbox \in Seq(JobsOf(d)) /\ Offline.job = Null
  BY EmptySeq DEF Offline
<1> QED BY <1>1, <1>2, <1>3, IdleTypes, DeviceMoves, FlightTyped, FlightInv

\* A device publishes a status of a job of its own.
LEMMA ReportInv ==
  ASSUME OtaInv, NEW d \in Devices, NEW j \in JobsOf(d), NEW s \in Reports, Report(d, j, s),
         UNCHANGED <<rows, req, asked, hs, outbox, connected, retained, faults, drops>>,
         NEW x, x \in [online : BOOLEAN, inbox : Seq(Jobs), job : Jobs \union {Null}],
         device' = [device EXCEPT ![d] = x],
         x.inbox \in Seq(JobsOf(d)), x.job \in JobsOf(d) \union {Null},
         x.job # Null => <<x.job, "IN_PROGRESS">> \in reported'
  PROVE  OtaInv'
<1>1. j \in Jobs /\ IsRowOf(j, d)
  BY DEF JobsOf
<1>2. reported' = reported \union {<<j, s>>} /\ reported' \in SUBSET (Jobs \X Reports)
  BY <1>1 DEF Report, OtaInv, TypeOK
<1>3. Grows
  BY <1>2 DEF Grows, IsRowOf
<1>4. SaidOf(d) \subseteq SaidOf(d)' /\ JobsOf(d) \subseteq JobsOf(d)'
  BY <1>3, SetsGrow
<1>5. [job |-> j, status |-> s] \in SaidOf(d)'
  BY <1>1, <1>2, <1>3 DEF SaidOf, Grows
<1>6. up[d] \in Seq(SaidOf(d)')
  BY <1>4, SeqGrows, FlightTyped
<1>7. PICK u : u = IF connected THEN Append(up[d], [job |-> j, status |-> s]) ELSE up[d]
  OBVIOUS
<1>8. up' = [up EXCEPT ![d] = u]
  BY <1>7 DEF Report
<1>9. u \in Seq(SaidOf(d)')
  BY <1>5, <1>6, <1>7, AppendProperties
<1>10. u \in Seq([job : Jobs, status : Reports])
  <2>1. up[d] \in Seq([job : Jobs, status : Reports]) /\ [job |-> j, status |-> s] \in [job : Jobs, status : Reports]
    BY <1>1, FlightTyped
  <2> QED BY <1>7, <2>1, AppendProperties
<1>11. /\ up'[d] = u /\ device'[d] = x
       /\ \A e \in Devices \ {d} : up'[e] = up[e] /\ device'[e] = device[e]
  BY <1>8, FlightTyped
<1>12. up' \in [Devices -> Seq([job : Jobs, status : Reports])]
  BY <1>8, <1>10, FlightTyped
<1>13. device' \in [Devices -> [online : BOOLEAN, inbox : Seq(Jobs), job : Jobs \union {Null}]]
  BY FlightTyped
<1>14. TypeOK'
  BY <1>2, <1>12, <1>13 DEF OtaInv, TypeOK
<1>15. ASSUME NEW e \in Devices
       PROVE  /\ retained'[e] \in JobsOf(e)' \union {Null}
              /\ up'[e] \in Seq(SaidOf(e)')
              /\ device'[e].inbox \in Seq(JobsOf(e)')
              /\ device'[e].job \in JobsOf(e)' \union {Null}
              /\ device'[e].job # Null => <<device'[e].job, "IN_PROGRESS">> \in reported'
  <2>1. CASE e = d
    <3>1. x.inbox \in Seq(JobsOf(d)') /\ x.job \in JobsOf(d)' \union {Null}
      BY <1>4, SeqGrows
    <3>2. retained[d] \in JobsOf(d)' \union {Null}
      BY <1>4, FlightTyped
    <3> QED BY <1>9, <1>11, <2>1, <3>1, <3>2
  <2>2. CASE e # d
    BY <1>3, <1>11, <2>2, InFlightGrows DEF OtaInv
  <2> QED BY <2>1, <2>2
<1>16. InFlightTraced'
  <2>1. outbox' \in Seq(Command')
    BY <1>3, InFlightGrows DEF OtaInv
  <2> QED BY <1>15, <2>1 DEF InFlightTraced
<1>17. ProcessesTraced'
  BY <1>3, ProcessesKept
<1>18. RowsShowReports'
  BY <1>2 DEF OtaInv, RowsShowReports
<1> QED BY <1>14, <1>16, <1>17, <1>18 DEF OtaInv

LEMMA DeviceStartInv ==
  ASSUME OtaInv, NEW d \in Devices, DeviceStart(d)
  PROVE  OtaInv'
<1>1. /\ UNCHANGED <<rows, req, asked, hs, outbox, connected, retained, faults, drops>>
      /\ device[d].inbox # <<>>
      /\ Report(d, Head(device[d].inbox), "IN_PROGRESS")
  BY DEF DeviceStart, backend, client
<1>2. PICK j, rest : j = Head(device[d].inbox) /\ rest = Tail(device[d].inbox)
  OBVIOUS
<1>3. j \in JobsOf(d) /\ rest \in Seq(JobsOf(d)) /\ j \in Jobs /\ rest \in Seq(Jobs)
  <2>1. device[d].inbox \in Seq(JobsOf(d))
    BY FlightTyped
  <2>2. j \in JobsOf(d) /\ rest \in Seq(JobsOf(d))
    BY <1>1, <1>2, <2>1, HeadTailProperties
  <2> QED BY <2>2, InFlightTypes DEF JobsOf
<1>4. PICK x : x = [device[d] EXCEPT !.inbox = rest, !.job = j]
  OBVIOUS
<1>5. device' = [device EXCEPT ![d] = x]
  BY <1>2, <1>4, FlightTyped DEF DeviceStart
<1>6. /\ x \in [online : BOOLEAN, inbox : Seq(Jobs), job : Jobs \union {Null}]
      /\ x.inbox = rest /\ x.job = j
  BY <1>3, <1>4, FlightTyped
<1>7. <<j, "IN_PROGRESS">> \in reported' /\ Report(d, j, "IN_PROGRESS")
  BY <1>1, <1>2 DEF Report
<1>8. "IN_PROGRESS" \in Reports
  BY DEF Reports
<1> QED BY <1>1, <1>3, <1>5, <1>6, <1>7, <1>8, ReportInv

LEMMA DeviceFinishInv ==
  ASSUME OtaInv, NEW d \in Devices, NEW s \in Final, DeviceFinish(d, s)
  PROVE  OtaInv'
<1>1. /\ UNCHANGED <<rows, req, asked, hs, outbox, connected, retained, faults, drops>>
      /\ device[d].job # Null /\ device' = [device EXCEPT ![d].job = Null]
      /\ Report(d, device[d].job, s)
  BY DEF DeviceFinish, backend, client
<1>2. device[d].job \in JobsOf(d)
  BY <1>1, FlightTyped
<1>3. PICK x : x = [device[d] EXCEPT !.job = Null]
  OBVIOUS
<1>4. device' = [device EXCEPT ![d] = x]
  BY <1>1, <1>3, FlightTyped
<1>5. /\ x \in [online : BOOLEAN, inbox : Seq(Jobs), job : Jobs \union {Null}]
      /\ x.inbox = device[d].inbox /\ x.job = Null
  BY <1>3, FlightTyped
<1>6. x.inbox \in Seq(JobsOf(d)) /\ s \in Reports
  BY <1>5, FlightTyped DEF Reports
<1> QED BY <1>1, <1>2, <1>4, <1>5, <1>6, ReportInv

-----------------------------------------------------------------------------
(* The specification *)

LEMMA OtaNext == OtaInv /\ [Next]_vars => OtaInv'
<1> SUFFICES ASSUME OtaInv, [Next]_vars PROVE OtaInv'
  OBVIOUS
<1>1. CASE \E q \in Requests, targets \in SUBSET Devices : StartRequest(q, targets)
  BY <1>1, StartRequestInv
<1>2. CASE \E q \in Requests : RequestStep(q)
  BY <1>2, CreateJobInv, PublishCommandInv DEF RequestStep
<1>3. CASE \E i \in Handlers, d \in Devices : ReceiveStatus(i, d)
  BY <1>3, ReceiveStatusInv
<1>4. CASE \E i \in Handlers : HandlerStep(i)
  BY <1>4, FindJobInv, UpdateJobInv, ClearCommandInv DEF HandlerStep
<1>5. CASE ClientStep
  BY <1>5, ClientInv DEF ClientStep
<1>6. CASE \E d \in Devices : DeviceStep(d)
  BY <1>6, DeviceConnectInv, DeviceStartInv, DeviceFinishInv DEF DeviceStep
<1>7. CASE Faults
  BY <1>7, ClientInv, FailCrashInv, DeviceDropInv DEF Faults
<1>8. CASE UNCHANGED vars
  BY <1>8 DEF vars, OtaInv, TypeOK, InFlightTraced, ProcessesTraced, HandlerTraced,
     RequestTraced, RowsShowReports, JobsOf, SaidOf, EndSaid, Command, IsRowOf
<1> QED BY <1>1, <1>2, <1>3, <1>4, <1>5, <1>6, <1>7, <1>8 DEF Next

LEMMA OtaInvariant == Spec => []OtaInv
BY OtaInit, OtaNext, PTL DEF Spec

\* Every variable keeps its type: jobs, commands and statuses in flight, the
\* processes' locals.
THEOREM TypeCorrect == Spec => []TypeOK
<1>1. OtaInv => TypeOK
  BY DEF OtaInv
<1> QED BY <1>1, OtaInvariant, PTL

\* Every command, wherever it is, belongs to a stored row of that device: what a
\* device reports can be attributed.  (ota.service.ts:104-126)
THEOREM CommandsAlwaysHaveRows == Spec => []CommandsHaveRows
<1>1. OtaInv => CommandsHaveRows
  <2> SUFFICES ASSUME OtaInv PROVE CommandsHaveRows
    OBVIOUS
  <2>1. ASSUME NEW k \in 1..Len(outbox), outbox[k].job # Null
        PROVE  IsRowOf(outbox[k].job, outbox[k].dev)
    <3>1. outbox[k] \in Command
      BY FlightTyped, ElementOfSeq
    <3> QED BY <2>1, <3>1 DEF Command
  <2>2. ASSUME NEW d \in Devices
        PROVE  /\ retained[d] # Null => IsRowOf(retained[d], d)
               /\ device[d].job # Null => IsRowOf(device[d].job, d)
    BY FlightTyped DEF JobsOf
  <2>3. ASSUME NEW d \in Devices, NEW k \in 1..Len(device[d].inbox)
        PROVE  IsRowOf(device[d].inbox[k], d)
    <3>1. device[d].inbox \in Seq(JobsOf(d))
      BY FlightTyped
    <3>2. device[d].inbox[k] \in JobsOf(d)
      BY <3>1, ElementOfSeq
    <3> QED BY <3>2 DEF JobsOf
  <2>4. ASSUME NEW d \in Devices, NEW k \in 1..Len(up[d])
        PROVE  IsRowOf(up[d][k].job, d)
    <3>1. up[d] \in Seq(SaidOf(d))
      BY FlightTyped
    <3>2. up[d][k] \in SaidOf(d)
      BY <3>1, ElementOfSeq
    <3> QED BY <3>2 DEF SaidOf
  <2> QED BY <2>1, <2>2, <2>3, <2>4 DEF CommandsHaveRows
<1> QED BY <1>1, OtaInvariant, PTL

\* A row leaves PENDING only to a status its device published for that job.
\* (mqtt.service.ts:347-364)
THEOREM RowsAlwaysShowReports == Spec => []RowsShowReports
<1>1. OtaInv => RowsShowReports
  BY DEF OtaInv
<1> QED BY <1>1, OtaInvariant, PTL

\* Only the delivery of an empty payload deletes a retained command.
LEMMA RetainedClearedByArrival ==
  ASSUME OtaInv, [Next]_vars, NEW d \in Devices, retained[d] # Null, retained'[d] = Null
  PROVE  EndSaid(d)
<1>1. CASE UNCHANGED retained
  BY <1>1
<1>2. CASE outbox # <<>> /\ Arrive(Head(outbox))
  <2>1. PICK p \in Command : p = Head(outbox)
    BY <1>2, HeadTailProperties, FlightTyped
  <2>2. p.dev = d /\ p.job = Null
    BY <1>2, <2>1, FlightTyped DEF Arrive
  <2> QED BY <2>1, <2>2 DEF Command
<1>3. UNCHANGED retained \/ (outbox # <<>> /\ Arrive(Head(outbox)))
  BY DEF Next, vars, StartRequest, RequestStep, CreateJob, PublishCommand, ReceiveStatus,
     HandlerStep, FindJob, UpdateJob, ClearCommand, ClientStep, Deliver, Reconnect, DeviceStep,
     DeviceConnect, DeviceStart, DeviceFinish, Faults, Disconnect, DeliverUnacknowledged, Crash,
     DeviceDrop, Fail
<1> QED BY <1>1, <1>2, <1>3

\* A retained command is deleted only after its device published the end of some
\* job of its own.  (mqtt.service.ts:368-377)
THEOREM ClearsFollowAnEnd == Spec => ClearedAfterEnd
<1>1. OtaInv /\ [Next]_vars =>
        [\A d \in Devices : retained[d] # Null /\ retained'[d] = Null
           => \E j \in Jobs, s \in Final : IsRowOf(j, d) /\ <<j, s>> \in reported]_vars
  BY RetainedClearedByArrival DEF EndSaid
<1> QED BY <1>1, OtaInvariant, PTL DEF Spec, ClearedAfterEnd

-----------------------------------------------------------------------------
(* The history implements OtaLedger *)

Shown(r) == IF r = Null THEN "none" ELSE r.status

\* One row changes and the history shows it.
LEMMA ShownMoves ==
  ASSUME NEW j \in Jobs, \A k \in Jobs \ {j} : rows'[k] = rows[k]
  PROVE  [k \in Jobs |-> Shown(rows'[k])]
           = [[k \in Jobs |-> Shown(rows[k])] EXCEPT ![j] = Shown(rows'[j])]
BY DEF Shown

LEMMA CreateIsLedgerStep ==
  ASSUME OtaInv, NEW q \in Requests, NEW d \in Devices, NEW j \in Jobs, CreateJob(q, d, j)
  PROVE  Ledger!Create(j)
<1>1. rows[j] = Null /\ rows' = [rows EXCEPT ![j] = [dev |-> d, status |-> "PENDING"]]
      /\ UNCHANGED reported
  BY DEF CreateJob, field
<1>2. [dev |-> d, status |-> "PENDING"] \in [dev : Devices, status : Statuses]
  BY DEF Statuses
<1>3. rows'[j] # Null /\ rows'[j].status = "PENDING" /\ \A k \in Jobs \ {j} : rows'[k] = rows[k]
  BY <1>1, <1>2, NullIsNoRow DEF OtaInv, TypeOK
<1>4. Shown(rows[j]) = "none" /\ Shown(rows'[j]) = "PENDING"
  BY <1>1, <1>3 DEF Shown
<1> QED BY <1>1, <1>3, <1>4, ShownMoves DEF Ledger!Create, Shown

LEMMA UpdateIsLedgerStep ==
  ASSUME OtaInv, NEW i \in Handlers, UpdateJob(i)
  PROVE  \E j \in Jobs, s \in Reports : Ledger!Record(j, s)
<1>1. /\ UNCHANGED reported /\ hs[i].pc = "update"
      /\ rows' = [rows EXCEPT ![hs[i].job].status = hs[i].status]
  BY DEF UpdateJob, field
<1>2. PICK j, s : j = hs[i].job /\ s = hs[i].status
  OBVIOUS
<1>3. j \in Jobs /\ s \in Reports /\ s \in Statuses /\ <<j, s>> \in reported /\ rows[j] # Null
  BY <1>1, <1>2 DEF OtaInv, ProcessesTraced, HandlerTraced, JobsOf, IsRowOf, Statuses
<1>4. PICK r : r = [rows[j] EXCEPT !.status = s]
  OBVIOUS
<1>5. rows[j] \in [dev : Devices, status : Statuses]
  BY <1>3 DEF OtaInv, TypeOK
<1>6. r \in [dev : Devices, status : Statuses] /\ r.status = s /\ rows[j].status \in Statuses
  BY <1>3, <1>4, <1>5
<1>7. rows'[j] = r /\ r # Null /\ \A k \in Jobs \ {j} : rows'[k] = rows[k]
  BY <1>1, <1>2, <1>3, <1>4, <1>6, NullIsNoRow DEF OtaInv, TypeOK
<1>8. Shown(rows[j]) # "none" /\ Shown(rows'[j]) = s
  BY <1>3, <1>6, <1>7 DEF Shown, Statuses, Reports, Final
<1>9. Ledger!Record(j, s)
  BY <1>1, <1>3, <1>7, <1>8, ShownMoves DEF Ledger!Record, Shown
<1> QED BY <1>3, <1>9

LEMMA ReportIsLedgerStep ==
  ASSUME OtaInv, NEW d \in Devices, NEW j \in JobsOf(d), NEW s \in Reports, Report(d, j, s),
         UNCHANGED rows, s \in Final => <<j, "IN_PROGRESS">> \in reported
  PROVE  Ledger!Say(j, s) /\ j \in Jobs
<1>1. j \in Jobs /\ rows[j] # Null /\ rows[j] \in [dev : Devices, status : Statuses]
  BY DEF JobsOf, IsRowOf, OtaInv, TypeOK
<1>2. Shown(rows[j]) # "none"
  BY <1>1 DEF Shown, Statuses, Reports, Final
<1> QED BY <1>1, <1>2 DEF Ledger!Say, Shown, Report

\* Every step is a step of OtaLedger or leaves the history alone.
LEMMA LedgerStep ==
  ASSUME OtaInv, [Next]_vars
  PROVE  [Ledger!Next]_(Ledger!vars)
<1>1. ASSUME NEW q \in Requests, NEW d \in Devices, NEW j \in Jobs, CreateJob(q, d, j)
      PROVE  Ledger!Next
  BY <1>1, CreateIsLedgerStep DEF Ledger!Next
<1>2. ASSUME NEW i \in Handlers, UpdateJob(i)
      PROVE  Ledger!Next
  BY <1>2, UpdateIsLedgerStep DEF Ledger!Next, Reports
<1>3. ASSUME NEW d \in Devices, DeviceStart(d)
      PROVE  Ledger!Next
  <2>1. PICK j : j = Head(device[d].inbox)
    OBVIOUS
  <2>2. device[d].inbox \in Seq(JobsOf(d)) /\ device[d].inbox # <<>>
    BY <1>3, FlightTyped DEF DeviceStart
  <2>3. j \in JobsOf(d)
    BY <2>1, <2>2, HeadTailProperties
  <2>4. Report(d, j, "IN_PROGRESS") /\ UNCHANGED rows
    BY <1>3, <2>1 DEF DeviceStart, backend
  <2>5. "IN_PROGRESS" \in Reports /\ "IN_PROGRESS" \notin Final
    BY DEF Reports, Final
  <2>6. Ledger!Say(j, "IN_PROGRESS") /\ j \in Jobs
    BY <2>3, <2>4, <2>5, ReportIsLedgerStep
  <2> QED BY <2>6 DEF Ledger!Next
<1>4. ASSUME NEW d \in Devices, NEW s \in Final, DeviceFinish(d, s)
      PROVE  Ledger!Next
  <2>1. PICK j : j = device[d].job
    OBVIOUS
  <2>2. j \in JobsOf(d) /\ <<j, "IN_PROGRESS">> \in reported
    BY <1>4, <2>1, FlightTyped DEF DeviceFinish
  <2>3. Report(d, j, s) /\ UNCHANGED rows /\ s \in Reports
    BY <1>4, <2>1 DEF DeviceFinish, backend, Reports
  <2>4. Ledger!Say(j, s) /\ j \in Jobs
    BY <2>2, <2>3, ReportIsLedgerStep
  <2> QED BY <2>4 DEF Ledger!Next
<1>5. CASE UNCHANGED <<rows, reported>>
  BY <1>5 DEF Ledger!vars
<1>6. \/ \E q \in Requests, d \in Devices, j \in Jobs : CreateJob(q, d, j)
      \/ \E i \in Handlers : UpdateJob(i)
      \/ \E d \in Devices : DeviceStart(d)
      \/ \E d \in Devices, s \in Final : DeviceFinish(d, s)
      \/ UNCHANGED <<rows, reported>>
  BY DEF Next, vars, backend, field, StartRequest, RequestStep, PublishCommand, ReceiveStatus,
     HandlerStep, FindJob, ClearCommand, ClientStep, Deliver, Reconnect, DeviceStep,
     DeviceConnect, Faults, Disconnect, DeliverUnacknowledged, Crash, DeviceDrop, Fail
<1> QED BY <1>1, <1>2, <1>3, <1>4, <1>5, <1>6

\* No path of requests, resends, crashes or concurrent handlers creates a job
\* twice, takes one back to PENDING or shows what its device did not say.
\* (ota.service.ts:105-114, 146-210, mqtt.service.ts:358-364)
THEOREM HistoryImplementsLedger == Spec => ImplementsLedger
<1>1. Init => Ledger!Init
  BY DEF Init, Ledger!Init
<1>2. OtaInv /\ [Next]_vars => [Ledger!Next]_(Ledger!vars)
  BY LedgerStep
<1> QED BY <1>1, <1>2, OtaInvariant, PTL DEF Spec, ImplementsLedger, Ledger!Spec

=============================================================================
