-------------------------- MODULE MCHistoryFilter --------------------------
EXTENDS HistoryRequest

\* Voltages on both sides of the band of 0.5 V around 120 V, a missing one, a
\* spike; rows at the same time, five minutes and more than an hour apart.
Readings ==
  {[v |-> 120000, a |-> "NONE"], [v |-> 120504, a |-> "NONE"], [v |-> 120506, a |-> "NONE"],
   [v |-> Null, a |-> "NONE"], [v |-> 120100, a |-> "SPIKE"]}

\* The last two: tables of a query come one after the other, each by time.
Times == {<<0, 0, 5>>, <<0, 5, 10>>, <<0, 60, 61>>, <<5, 10, 0>>, <<61, 0, 61>>}

RowsAt(t, s) == [k \in DOMAIN s |->
  [time |-> t[k], voltaje_v |-> s[k].v, corriente_a |-> Null, potencia_w |-> Null,
   anomaly_type |-> s[k].a]]

MCAggregated == {RowsAt(t, s) : t \in Times, s \in UNION {[1..n -> Readings] : n \in 0..3}}

Anomaly(t, v) == [time |-> t, voltaje_v |-> v, corriente_a |-> Null, potencia_w |-> Null,
                  anomaly_type |-> "LIMIT"]
MCAnomalies == {<<>>, <<Anomaly(5, 120300)>>, <<Anomaly(5, Null)>>,
                <<Anomaly(0, 130000), Anomaly(122, 120504)>>}
=============================================================================
