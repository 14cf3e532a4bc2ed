---------------------------- MODULE HistoryFilter ----------------------------
(***************************************************************************)
(* The smoothing of a device's history before it is drawn                  *)
(* (src/src/modules/telemetry/utils/deadband.util.ts): the loop of         *)
(* applyDeadband as a state machine, one step per row.  A point of the     *)
(* output is the index of the row it formats.  HistoryRequest gives it the *)
(* rows that two queries returned, sorted by time.                         *)
(*                                                                         *)
(* Magnitudes are in thousandths of their unit, times in minutes.          *)
(***************************************************************************)
EXTENDS Integers, Sequences

CONSTANT
  Null         \* an undefined field

Row == [time : Nat, voltaje_v : Nat \union {Null}, corriente_a : Nat \union {Null},
        potencia_w : Nat \union {Null}, anomaly_type : {"NONE", "SPIKE", "LIMIT"}]

ASSUME HistoryAssumption == Null \notin Nat

VARIABLES
  combined,    \* the rows
  span,        \* hours between the dates asked for
  i,           \* rows visited
  data,        \* the output
  last         \* lastSavedPoint, 0 for null
filter == <<combined, span, i, data, last>>

\* calculateAggregationWindow.
Window(hours) ==
  IF hours > 7 * 24 THEN "6h"
  ELSE IF hours > 2 * 24 THEN "1h"
  ELSE IF hours > 12 THEN "15m" ELSE "5m"

\* toDataPoint: missing magnitudes are 0, the others keep two decimals.  (Which
\* way toFixed rounds an exact half depends on its binary form: the inputs of the
\* runs have none.)
Fixed(x) == IF x = Null THEN 0 ELSE 10 * ((x + 5) \div 10)

Abs(n) == IF n < 0 THEN -n ELSE n
Diff(x, y) == Abs(Fixed(x) - Fixed(y))

\* checkFluctuation: more than 0.5 V, 0.1 A, 5 W, or more than an hour.
Fluctuates(cur, saved) ==
  \/ Diff(cur.voltaje_v, saved.voltaje_v) > 500
  \/ Diff(cur.corriente_a, saved.corriente_a) > 100
  \/ Diff(cur.potencia_w, saved.potencia_w) > 5000
  \/ cur.time - saved.time > 60

\* A row whose aggregation has neither voltage nor current is ignored.
IsEmpty(row) == row.voltaje_v = Null /\ row.corriente_a = Null

\* Variant: only the ends of the series are essential.
IsEssential_EndsOnly(k) == k = 1 \/ k = Len(combined)

IsEssential(k) == combined[k].anomaly_type # "NONE" \/ k = 1 \/ k = Len(combined)

Fine == Window(span) \in {"5m", "15m"}

\* Variants: the row before a fluctuation always emitted; only the fluctuation of
\* the row against the one before it, so that a slow drift is never seen.
Included_AlwaysBefore(k) ==
  IF last = 0 THEN <<k>>
  ELSE IF ~Fine
    THEN IF combined[last].time # combined[k].time THEN <<k>> ELSE <<>>
  ELSE IF Fluctuates(combined[k], combined[last]) THEN <<k - 1, k>> ELSE <<>>
Included_AgainstBefore(k) ==
  IF last = 0 THEN <<k>>
  ELSE IF ~Fine
    THEN IF combined[last].time # combined[k].time THEN <<k>> ELSE <<>>
  ELSE IF Fluctuates(combined[k], combined[k - 1]) THEN <<k>> ELSE <<>>

\* evaluatePointInclusion: the rows that row k adds to the output.  With a fine
\* window a fluctuation also brings the row before it, unless that one has the
\* time of the last point saved.
Included(k) ==
  IF last = 0 THEN <<k>>
  ELSE IF ~Fine
    THEN IF combined[last].time # combined[k].time THEN <<k>> ELSE <<>>
  ELSE IF ~Fluctuates(combined[k], combined[last]) THEN <<>>
  ELSE IF combined[last].time # combined[k - 1].time THEN <<k - 1, k>> ELSE <<k>>

\* Variant: the counter of the loop used as it is, from 0.
Added_FromZero(k) ==
  IF IsEmpty(combined[k]) THEN <<>>
  ELSE IF IsEssential(k) THEN <<k - 1>> ELSE Included(k)

\* What the body of the loop does with row k.
Added(k) ==
  IF IsEmpty(combined[k]) THEN <<>>
  ELSE IF IsEssential(k) THEN <<k>> ELSE Included(k)

FilterInit ==
  /\ combined = <<>>
  /\ span \in {12, 48, 49, 169}
  /\ i = 0 /\ data = <<>> /\ last = 0

VisitRow ==
  /\ i < Len(combined)
  /\ i' = i + 1
  /\ data' = data \o Added(i + 1)
  /\ last' = IF Added(i + 1) = <<>> THEN last ELSE i + 1
  /\ UNCHANGED <<combined, span>>
-----------------------------------------------------------------------------
(* Properties *)

TypeOK ==
  /\ combined \in Seq(Row)
  /\ span \in Nat
  /\ i \in 0..Len(combined)
  /\ data \in Seq(1..Len(combined))
  /\ last \in 0..i

Kept(k) == \E p \in 1..Len(data) : data[p] = k

\* "Siempre incluir puntos de anomalias": no anomaly that carries a voltage or a
\* current is smoothed away.  (deadband.util.ts:40-45)
AnomaliesKept ==
  \A k \in 1..i :
    combined[k].anomaly_type # "NONE" /\ ~IsEmpty(combined[k]) => Kept(k)

\* The points come out in the order of the rows, none of them twice, although a
\* fluctuation also emits the row before.  (deadband.util.ts:47-58, 112-121)
OutputInOrder ==
  \A p \in 1..Len(data), q \in 1..Len(data) : p < q => data[p] < data[q]

\* Nothing that is left out would have been visible: every row visited has a
\* point of the output, not later, from which it does not fluctuate; in a coarse
\* window, one with its time.  (deadband.util.ts:112-141)
EveryRowRepresented ==
  \A k \in 1..i : ~IsEmpty(combined[k]) =>
    \E p \in 1..Len(data) :
      /\ data[p] =< k
      /\ IF Fine THEN ~Fluctuates(combined[k], combined[data[p]])
         ELSE combined[data[p]].time = combined[k].time
=============================================================================
