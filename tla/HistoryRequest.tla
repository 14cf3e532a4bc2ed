--------------------------- MODULE HistoryRequest ---------------------------
(***************************************************************************)
(* A request for the history of a device, over MQTT (handleHistoryRequest, *)
(* mqtt.service.ts) or HTTP (getDeviceHistory, iot.service.ts): the checks,*)
(* two queries to InfluxDB in parallel, their rows sorted and smoothed by  *)
(* the loop of HistoryFilter, and the answer.                              *)
(*                                                                         *)
(* Requests share nothing, so there is one.  Promise.all rejects with the  *)
(* first query that fails; the answer of the other one comes later, and to *)
(* nobody.                                                                 *)
(***************************************************************************)
EXTENDS HistoryFilter, FiniteSets

CONSTANTS
  AggregatedRows,    \* what queryAggregatedTelemetry may return
  AnomalyRows        \* what queryAnomaliesRange may return

ASSUME RequestAssumption ==
  /\ AggregatedRows \subseteq Seq(Row) /\ AnomalyRows \subseteq Seq(Row)
  /\ \A rows \in AnomalyRows : \A k \in 1..Len(rows) : rows[k].anomaly_type # "NONE"

VARIABLES
  via,       \* "mqtt" or "http"
  pc,        \* where the request is
  result,    \* of each query: "none" asked yet, "pending", "failed" or "answered"
  rows,      \* what each query finds, if it succeeds
  replies    \* the answers given
rvars == <<filter, via, pc, result, rows, replies>>

Queries == {"aggregated", "anomalies"}
Answered(q) == result[q] = "answered"

Error      == [kind |-> "error", rows |-> <<>>]
Data(points) == [kind |-> "data", rows |-> points]

Init ==
  /\ FilterInit
  /\ via \in {"mqtt", "http"}
  /\ pc = "idle"
  /\ result = [q \in Queries |-> "none"]
  /\ rows = [q \in Queries |-> <<>>]
  /\ replies = <<>>

Reply(r) == replies' = Append(replies, r) /\ pc' = "done"

\* The request arrives and is checked: dto validation over MQTT, the row of the
\* device over HTTP.
Receive ==
  /\ pc = "idle"
  /\ pc' = "check"
  /\ UNCHANGED <<filter, via, result, rows, replies>>

\* Both queries start.
AskInflux ==
  /\ pc' = "query"
  /\ result' = [q \in Queries |-> "pending"]
  /\ \E found \in AggregatedRows, odd \in AnomalyRows :
       rows' = [q \in Queries |-> IF q = "aggregated" THEN found ELSE odd]

\* Variant: the answer to an invalid request does not end the handler.
Check_NoReturn ==
  /\ pc = "check"
  /\ AskInflux
  /\ UNCHANGED replies \/ replies' = Append(replies, Error)
  /\ UNCHANGED <<filter, via>>

\* A request that is refused (over MQTT one that does not parse or validate; over
\* HTTP one for an unknown device or that of another user, or a lookup that
\* fails) is answered at once; the other ones start both queries.
Check ==
  /\ pc = "check"
  /\ \/ AskInflux /\ UNCHANGED replies
     \/ Reply(Error) /\ UNCHANGED <<result, rows>>
  /\ UNCHANGED <<filter, via>>

\* The rows of both queries by time; sort is stable.
Rank(s, k) ==
  Cardinality({j \in 1..Len(s) : s[j].time < s[k].time \/ (s[j].time = s[k].time /\ j =< k)})
SortedByTime(s) == [p \in 1..Len(s) |-> s[CHOOSE k \in 1..Len(s) : Rank(s, k) = p]]

\* Variant: the rows in the order the queries returned them.
Combine_Unsorted(new) ==
  IF new["aggregated"] \o new["anomalies"] = <<>>
    THEN Reply(Data(<<>>)) /\ UNCHANGED filter
    ELSE /\ combined' = new["aggregated"] \o new["anomalies"]
         /\ pc' = "filter"
         /\ UNCHANGED <<span, i, data, last, replies>>

\* Promise.all resolves: an answer without points, or the rows to be smoothed.
Combine(new) ==
  LET both == new["aggregated"] \o new["anomalies"]
  IN IF both = <<>>
       THEN Reply(Data(<<>>)) /\ UNCHANGED filter
       ELSE /\ combined' = SortedByTime(both)
            /\ pc' = "filter"
            /\ UNCHANGED <<span, i, data, last, replies>>

\* Query q is answered with these points; the second one resolves Promise.all.
Resolve(q, points) ==
  LET new == [rows EXCEPT ![q] = points]
  IN /\ result[q] = "pending"
     /\ result' = [result EXCEPT ![q] = "answered"]
     /\ IF pc = "query" /\ \A p \in Queries \ {q} : Answered(p)
          THEN Combine(new) ELSE UNCHANGED <<filter, pc, replies>>
     /\ UNCHANGED <<via, rows>>

AnswerQuery(q) == Resolve(q, rows[q])

\* Variant: a query that fails counts as one without rows.
FailQuery_AsEmpty(q) == Resolve(q, <<>>)

\* A query fails.  The first one answers: an error over MQTT, over HTTP a history
\* without points.
FailQuery(q) ==
  /\ result[q] = "pending"
  /\ result' = [result EXCEPT ![q] = "failed"]
  /\ IF pc = "query" THEN Reply(IF via = "mqtt" THEN Error ELSE Data(<<>>))
     ELSE UNCHANGED <<pc, replies>>
  /\ UNCHANGED <<filter, via, rows>>

Smooth == pc = "filter" /\ VisitRow /\ UNCHANGED <<via, pc, result, rows, replies>>

\* The loop is over: the points are the answer.
Publish ==
  /\ pc = "filter" /\ i = Len(combined)
  /\ Reply(Data([p \in 1..Len(data) |-> combined[data[p]]]))
  /\ UNCHANGED <<filter, via, result, rows>>

\* The backend stops: the request was QoS 0, or its connection is closed.
Crash ==
  /\ pc \in {"check", "query", "filter"}
  /\ pc' = "lost"
  /\ result' = [q \in Queries |-> "failed"]
  /\ UNCHANGED <<filter, via, rows, replies>>

Next ==
  \/ Receive
  \/ Check
  \/ \E q \in Queries : AnswerQuery(q) \/ FailQuery(q)
  \/ Smooth
  \/ Publish
  \/ Crash

\* InfluxDB answers or the client's timeout does, and the loop ends.
Fairness ==
  /\ \A q \in Queries : WF_rvars(AnswerQuery(q) \/ FailQuery(q))
  /\ WF_rvars(Check) /\ WF_rvars(Smooth \/ Publish)

Spec == Init /\ [][Next]_rvars /\ Fairness
-----------------------------------------------------------------------------
(* Properties *)

RequestTypeOK ==
  /\ TypeOK
  /\ via \in {"mqtt", "http"}
  /\ pc \in {"idle", "check", "query", "filter", "done", "lost"}
  /\ result \in [Queries -> {"none", "pending", "failed", "answered"}]
  /\ rows \in [Queries -> Seq(Row)]

\* One answer and no more, whatever the two queries answer and in whatever order,
\* late ones included, unless the backend stops.
\* (mqtt.service.ts:219-276, iot.service.ts:155-230)
Ledger == INSTANCE OneReply WITH
  state <- IF replies = <<>>
             THEN IF pc = "idle" THEN "none" ELSE IF pc = "lost" THEN "lost" ELSE "open"
             ELSE IF Len(replies) = 1 THEN "replied" ELSE "twice"
AnswersOnce == Ledger!Spec

InTimeOrder(s) ==
  \A p \in 1..Len(s), q \in 1..Len(s) : p < q => s[p].time =< s[q].time

\* An answer with data is the whole history: every anomaly the query returned is
\* in it, in order of time, and it is without points only when nothing measured
\* was returned.  Only over HTTP does a query that failed look like that.
\* (mqtt.service.ts:231-276, iot.service.ts:180-230)
AnswersWhole ==
  \A k \in 1..Len(replies) :
    LET r == replies[k]
    IN r.kind = "data" =>
         \/ via = "http" /\ r.rows = <<>> /\ \E q \in Queries : result[q] = "failed"
         \/ /\ \A q \in Queries : Answered(q)
            /\ InTimeOrder(r.rows)
            /\ \A a \in 1..Len(rows["anomalies"]) :
                 ~IsEmpty(rows["anomalies"][a]) =>
                   \E p \in 1..Len(r.rows) : r.rows[p] = rows["anomalies"][a]
            /\ r.rows = <<>> =>
                 \A q \in Queries : \A a \in 1..Len(rows[q]) : IsEmpty(rows[q][a])
=============================================================================
