----------------------- MODULE HistoryRequest_proofs -----------------------
(***************************************************************************)
(* Theorems about HistoryRequest and its loop, HistoryFilter, for any rows *)
(* the two queries may return, in any order of their answers.              *)
(***************************************************************************)
EXTENDS HistoryRequest, FiniteSetTheorems, SequenceTheorems, TLAPS

(* The order of the rows *)

\* The rows of s that come no later than row k: by time, and of two rows of the
\* same time the first.
UpTo(s, k) ==
  {j \in 1..Len(s) : s[j].time < s[k].time \/ (s[j].time = s[k].time /\ j =< k)}

Precedes(s, j, k) == s[j].time < s[k].time \/ (s[j].time = s[k].time /\ j < k)

LEMMA UpToFinite ==
  ASSUME NEW s \in Seq(Row), NEW k \in 1..Len(s)
  PROVE  /\ IsFiniteSet(UpTo(s, k)) /\ UpTo(s, k) \subseteq 1..Len(s) /\ k \in UpTo(s, k)
         /\ Rank(s, k) = Cardinality(UpTo(s, k))
         /\ Rank(s, k) \in 1..Len(s)
<1>1. Len(s) \in Nat
  OBVIOUS
<1>2. IsFiniteSet(1..Len(s)) /\ Cardinality(1..Len(s)) = Len(s)
  <2>1. PICK n \in Nat : n = Len(s)
    BY <1>1
  <2>2. IsFiniteSet(1..n) /\ Cardinality(1..n) = (IF 1 > n THEN 0 ELSE n - 1 + 1)
    BY FS_Interval
  <2> QED BY <2>1, <2>2
<1>3. UpTo(s, k) \subseteq 1..Len(s) /\ k \in UpTo(s, k)
  BY DEF UpTo
<1>4. Rank(s, k) = Cardinality(UpTo(s, k))
  BY DEF Rank, UpTo
<1>5. IsFiniteSet(UpTo(s, k)) /\ Cardinality(UpTo(s, k)) =< Len(s)
  BY <1>2, <1>3, FS_Subset
<1>6. Cardinality(UpTo(s, k)) \in Nat /\ Cardinality(UpTo(s, k)) # 0
  BY <1>3, <1>5, FS_CardinalityType, FS_EmptySet
<1> QED BY <1>1, <1>3, <1>4, <1>5, <1>6

LEMMA RowTimes ==
  ASSUME NEW s \in Seq(Row), NEW k \in 1..Len(s)
  PROVE  s[k] \in Row /\ s[k].time \in Nat
<1>1. s[k] \in Row
  BY ElementOfSeq
<1> QED BY <1>1 DEF Row

\* Ranks grow with the order.
LEMMA RankMonotone ==
  ASSUME NEW s \in Seq(Row), NEW j \in 1..Len(s), NEW k \in 1..Len(s), Precedes(s, j, k)
  PROVE  Rank(s, j) < Rank(s, k)
<1>1. \A m \in 1..Len(s) : s[m].time \in Nat
  BY RowTimes
<1>2. UpTo(s, j) \subseteq UpTo(s, k)
  BY <1>1 DEF UpTo, Precedes
<1>3. k \notin UpTo(s, j) /\ k \in UpTo(s, k)
  BY <1>1 DEF UpTo, Precedes
<1>4. Cardinality(UpTo(s, j)) =< Cardinality(UpTo(s, k))
      /\ Cardinality(UpTo(s, j)) # Cardinality(UpTo(s, k))
  BY <1>2, <1>3, UpToFinite, FS_Subset
<1> QED BY <1>4, UpToFinite

LEMMA RowsOrdered ==
  ASSUME NEW s \in Seq(Row), NEW j \in 1..Len(s), NEW k \in 1..Len(s), j # k
  PROVE  Precedes(s, j, k) \/ Precedes(s, k, j)
BY RowTimes DEF Precedes

\* Two rows never have the same rank, and so every rank is the rank of a row.
LEMMA RankInjective ==
  ASSUME NEW s \in Seq(Row), NEW j \in 1..Len(s), NEW k \in 1..Len(s),
         Rank(s, j) = Rank(s, k)
  PROVE  j = k
<1> SUFFICES ASSUME j # k PROVE FALSE
  OBVIOUS
<1>1. Rank(s, j) < Rank(s, k) \/ Rank(s, k) < Rank(s, j)
  BY RowsOrdered, RankMonotone
<1> QED BY <1>1, UpToFinite

LEMMA RankOnto ==
  ASSUME NEW s \in Seq(Row), NEW p \in 1..Len(s)
  PROVE  \E k \in 1..Len(s) : Rank(s, k) = p
<1> DEFINE S == 1..Len(s)
           f == [k \in S |-> Rank(s, k)]
<1>1. IsFiniteSet(S)
  BY FS_Interval
<1>2. f \in Injection(S, S)
  BY UpToFinite, RankInjective DEF Injection, IsInjective
<1>3. f \in Surjection(S, S)
  BY <1>1, <1>2, FS_Injection
<1> QED BY <1>3 DEF Surjection

\* The sort returns the rows it was given, all of them, in order of time.
LEMMA SortProperties ==
  ASSUME NEW s \in Seq(Row)
  PROVE  /\ SortedByTime(s) \in Seq(Row)
         /\ Len(SortedByTime(s)) = Len(s)
         /\ InTimeOrder(SortedByTime(s))
         /\ \A p \in 1..Len(s) : \E k \in 1..Len(s) : SortedByTime(s)[p] = s[k]
         /\ \A k \in 1..Len(s) : \E p \in 1..Len(s) : SortedByTime(s)[p] = s[k]
<1> DEFINE At(p) == CHOOSE k \in 1..Len(s) : Rank(s, k) = p
<1>1. \A p \in 1..Len(s) : At(p) \in 1..Len(s) /\ Rank(s, At(p)) = p
  BY RankOnto
<1>2. Len(s) \in Nat
  OBVIOUS
<1>3. SortedByTime(s) = [p \in 1..Len(s) |-> s[At(p)]]
  BY DEF SortedByTime
<1> HIDE DEF At
<1>4. \A p \in 1..Len(s) : s[At(p)] \in Row
  BY <1>1, RowTimes
<1>5. SortedByTime(s) \in Seq(Row) /\ Len(SortedByTime(s)) = Len(s)
  BY <1>2, <1>3, <1>4
<1>6. \A p \in 1..Len(s) : SortedByTime(s)[p] = s[At(p)]
  BY <1>3
<1>7. InTimeOrder(SortedByTime(s))
  <2> SUFFICES ASSUME NEW p \in 1..Len(s), NEW q \in 1..Len(s), p < q
               PROVE  s[At(p)].time =< s[At(q)].time
    BY <1>5, <1>6 DEF InTimeOrder
  <2>1. PICK j \in 1..Len(s), k \in 1..Len(s) : j = At(p) /\ k = At(q)
    BY <1>1
  <2>2. Rank(s, j) = p /\ Rank(s, k) = q
    BY <1>1, <2>1
  <2>3. ~Precedes(s, k, j)
    BY <2>2, RankMonotone
  <2> QED BY <2>1, <2>3, RowTimes DEF Precedes
<1>8. \A p \in 1..Len(s) : \E k \in 1..Len(s) : SortedByTime(s)[p] = s[k]
  BY <1>1, <1>6
<1>9. \A k \in 1..Len(s) : \E p \in 1..Len(s) : SortedByTime(s)[p] = s[k]
  <2> SUFFICES ASSUME NEW k \in 1..Len(s)
               PROVE  \E p \in 1..Len(s) : SortedByTime(s)[p] = s[k]
    OBVIOUS
  <2>1. PICK p \in 1..Len(s) : p = Rank(s, k)
    BY UpToFinite
  <2>2. At(p) = k
    BY <1>1, <2>1, RankInjective
  <2> QED BY <1>6, <2>2
<1> QED BY <1>5, <1>7, <1>8, <1>9
-----------------------------------------------------------------------------
(* The loop *)

\* lastSavedPoint is the end of the output.
SavedIsEnd ==
  \/ last = 0 /\ data = <<>>
  \/ last > 0 /\ data # <<>> /\ data[Len(data)] = last

FilterInv == TypeOK /\ SavedIsEnd /\ AnomaliesKept /\ OutputInOrder /\ EveryRowRepresented

\* Row r of the output stands for row k.
StandsFor(r, k) ==
  IF Fine THEN ~Fluctuates(combined[k], combined[r])
  ELSE combined[r].time = combined[k].time

LEMMA FixedIsInt == \A x \in Nat \union {Null} : Fixed(x) \in Int
BY HistoryAssumption DEF Fixed

\* A row does not fluctuate from itself.
LEMMA RowStandsForItself ==
  ASSUME TypeOK, NEW k \in 1..Len(combined)
  PROVE  StandsFor(k, k)
<1>1. PICK r : r = combined[k]
  OBVIOUS
<1>2. r \in Row
  BY <1>1, RowTimes DEF TypeOK
<1>3. /\ r.time - r.time = 0
      /\ {r.voltaje_v, r.corriente_a, r.potencia_w} \subseteq Nat \union {Null}
  BY <1>2 DEF Row
<1>4. \A x \in Nat \union {Null} : Diff(x, x) = 0
  <2>1. \A n \in Int : Abs(n - n) = 0
    BY DEF Abs
  <2> QED BY <2>1, FixedIsInt DEF Diff
<1>5. /\ Diff(r.voltaje_v, r.voltaje_v) = 0 /\ Diff(r.corriente_a, r.corriente_a) = 0
      /\ Diff(r.potencia_w, r.potencia_w) = 0
  BY <1>3, <1>4
<1>6. ~Fluctuates(r, r)
  BY <1>3, <1>5 DEF Fluctuates
<1> QED BY <1>1, <1>6 DEF StandsFor

\* What a row adds is nothing, itself, or the row before and itself; the row before
\* comes after everything that is there, and a row that adds nothing is an empty
\* one, or one that the last point stands for.
LEMMA AddedCases ==
  ASSUME TypeOK, i < Len(combined), NEW k, k = i + 1
  PROVE  \/ /\ Added(k) = <<>>
            /\ \/ IsEmpty(combined[k])
               \/ combined[k].anomaly_type = "NONE" /\ last # 0 /\ StandsFor(last, k)
         \/ Added(k) = <<k>>
         \/ Added(k) = <<k - 1, k>> /\ last < k - 1 /\ last # 0
<1>1. i \in Nat /\ k \in 1..Len(combined) /\ last \in 0..(k - 1)
  BY DEF TypeOK
<1>2. CASE IsEmpty(combined[k])
  BY <1>2 DEF Added
<1>3. CASE ~IsEmpty(combined[k]) /\ IsEssential(k)
  BY <1>3 DEF Added
<1>4. CASE ~IsEmpty(combined[k]) /\ ~IsEssential(k)
  <2>1. Added(k) = Included(k) /\ combined[k].anomaly_type = "NONE"
    BY <1>4 DEF Added, IsEssential
  <2>2. CASE last = 0
    BY <2>1, <2>2 DEF Included
  <2>3. CASE last # 0 /\ ~Fine
    BY <2>1, <2>3 DEF Included, StandsFor
  <2>4. CASE last # 0 /\ Fine /\ ~Fluctuates(combined[k], combined[last])
    BY <2>1, <2>4 DEF Included, StandsFor
  <2>5. CASE last # 0 /\ Fine /\ Fluctuates(combined[k], combined[last])
    <3>1. CASE combined[last].time # combined[k - 1].time
      <4>1. last # k - 1
        BY <3>1
      <4>2. last < k - 1
        BY <1>1, <4>1
      <4> QED BY <2>1, <2>5, <3>1, <4>2 DEF Included
    <3>2. CASE combined[last].time = combined[k - 1].time
      BY <2>1, <2>5, <3>2 DEF Included
    <3> QED BY <3>1, <3>2
  <2> QED BY <2>2, <2>3, <2>4, <2>5
<1> QED BY <1>2, <1>3, <1>4

Increasing(s) == \A p \in 1..Len(s), q \in 1..Len(s) : p < q => s[p] < s[q]
Below(s, t) == \A p \in 1..Len(s), q \in 1..Len(t) : s[p] < t[q]
StartsWith(d, s) == \A p \in 1..Len(s) : p \in 1..Len(d) /\ d[p] = s[p]
EndsIn(d, k) == d # <<>> /\ d[Len(d)] = k /\ Len(d) \in 1..Len(d)

\* Two increasing sequences, the second above the first, make one.
LEMMA ConcatIncreasing ==
  ASSUME NEW m \in Nat, NEW s \in Seq(1..m), NEW t \in Seq(1..m), NEW d, d = s \o t,
         Increasing(s), Increasing(t), Below(s, t)
  PROVE  /\ d \in Seq(1..m) /\ Increasing(d) /\ StartsWith(d, s)
         /\ t # <<>> => EndsIn(d, t[Len(t)])
<1>1. PICK n \in Nat, e \in Nat : n = Len(s) /\ e = Len(t)
  OBVIOUS
<1>2. /\ d \in Seq(1..m) /\ Len(d) = n + e
      /\ \A p \in 1..(n + e) : d[p] = IF p =< n THEN s[p] ELSE t[p - n]
  BY <1>1, ConcatProperties
<1>4. \A p \in 1..n : p \in 1..(n + e) /\ d[p] = s[p]
  BY <1>2
<1>5. \A p \in (n + 1)..(n + e) : p - n \in 1..e /\ d[p] = t[p - n]
  BY <1>2
<1>6. ASSUME NEW p \in 1..(n + e), NEW q \in 1..(n + e), p < q
      PROVE  d[p] < d[q]
  <2>1. CASE q =< n
    <3>1. p \in 1..n /\ q \in 1..n
      BY <1>6, <2>1
    <3>2. s[p] < s[q]
      BY <1>1, <1>6, <3>1 DEF Increasing
    <3> QED BY <1>4, <3>1, <3>2
  <2>2. CASE p =< n /\ q > n
    <3>1. p \in 1..n /\ q \in (n + 1)..(n + e)
      BY <2>2
    <3>2. d[p] = s[p] /\ d[q] = t[q - n] /\ q - n \in 1..e
      BY <1>4, <1>5, <3>1
    <3>3. s[p] < t[q - n]
      BY <1>1, <3>1, <3>2 DEF Below
    <3> QED BY <3>2, <3>3
  <2>3. CASE p > n
    <3>1. p \in (n + 1)..(n + e) /\ q \in (n + 1)..(n + e) /\ p - n < q - n
      BY <1>6, <2>3
    <3>2. d[p] = t[p - n] /\ d[q] = t[q - n] /\ p - n \in 1..e /\ q - n \in 1..e
      BY <1>5, <3>1
    <3>3. t[p - n] < t[q - n]
      BY <1>1, <3>1, <3>2 DEF Increasing
    <3> QED BY <3>2, <3>3
  <2>4. q =< n \/ (p =< n /\ q > n) \/ p > n
    <3>1. p \in Int /\ q \in Int
      OBVIOUS
    <3> QED BY <3>1
  <2> QED BY <2>1, <2>2, <2>3, <2>4
<1>7. ASSUME t # <<>>
      PROVE  d # <<>> /\ d[n + e] = t[e] /\ n + e \in 1..(n + e)
  <2>1. e > 0
    BY <1>1, <1>7
  <2>2. n + e \in (n + 1)..(n + e) /\ (n + e) - n = e
    BY <2>1
  <2>3. d[n + e] = t[e]
    BY <1>5, <2>2
  <2>4. n + e \in 1..(n + e) /\ n + e # 0
    BY <2>1
  <2> QED BY <1>2, <2>3, <2>4, EmptySeq
<1>8. Increasing(d) /\ StartsWith(d, s)
  BY <1>1, <1>2, <1>4, <1>6 DEF Increasing, StartsWith
<1>9. t # <<>> => EndsIn(d, t[Len(t)])
  BY <1>1, <1>2, <1>7 DEF EndsIn
<1> QED BY <1>2, <1>8, <1>9

\* The output stays in order, ends in the row that was added, and keeps what it had.
LEMMA OutputGrows ==
  ASSUME TypeOK, SavedIsEnd, OutputInOrder, i < Len(combined), NEW k, k = i + 1,
         NEW d, d = data \o Added(k)
  PROVE  /\ d \in Seq(1..Len(combined)) /\ Increasing(d) /\ StartsWith(d, data)
         /\ Added(k) = <<>> => d = data
         /\ Added(k) # <<>> => EndsIn(d, k)
<1>1. i \in Nat /\ k \in 1..Len(combined) /\ last \in 0..(k - 1) /\ Len(combined) \in Nat
  BY DEF TypeOK
<1>2. PICK n \in Nat : n = Len(data)
  BY DEF TypeOK
<1>3. data \in Seq(1..Len(combined)) /\ \A p \in 1..n : data[p] \in 1..Len(combined)
  BY <1>2, ElementOfSeq DEF TypeOK
<1>4. \A p \in 1..n : data[p] =< last
  <2> SUFFICES ASSUME NEW p \in 1..n PROVE data[p] =< last
    OBVIOUS
  <2>1. n > 0 /\ data # <<>>
    BY <1>2
  <2>2. data[n] = last
    BY <1>2, <2>1 DEF SavedIsEnd
  <2>3. CASE p = n
    BY <1>3, <2>2, <2>3
  <2>4. CASE p # n
    <3>1. p < n /\ n \in 1..n
      BY <2>4
    <3>2. data[p] < data[n]
      BY <1>2, <3>1 DEF OutputInOrder
    <3> QED BY <1>1, <1>3, <2>2, <3>2
  <2> QED BY <2>3, <2>4
<1>5. Increasing(data)
  BY DEF OutputInOrder, Increasing
<1>6. CASE Added(k) = <<>>
  <2>1. d = data
    BY <1>3, <1>6, ConcatEmptySeq
  <2> QED BY <1>3, <1>5, <1>6, <2>1 DEF StartsWith
<1>7. ASSUME NEW e, e = Added(k), e \in Seq(1..Len(combined)), e # <<>>, e[Len(e)] = k,
             Increasing(e), \A q \in 1..Len(e) : last < e[q]
      PROVE  /\ d \in Seq(1..Len(combined)) /\ Increasing(d) /\ StartsWith(d, data)
             /\ EndsIn(d, k)
  <2>1. PICK m \in Nat : m = Len(combined)
    BY <1>1
  <2>2. d = data \o e /\ data \in Seq(1..m) /\ e \in Seq(1..m)
    BY <1>3, <1>7, <2>1
  <2>3. Below(data, e)
    <3> SUFFICES ASSUME NEW p \in 1..Len(data), NEW q \in 1..Len(e) PROVE data[p] < e[q]
      BY DEF Below
    <3>1. e[q] \in 1..m /\ data[p] \in 1..m
      BY <2>2, ElementOfSeq
    <3>2. data[p] =< last /\ last < e[q]
      BY <1>2, <1>4, <1>7
    <3> QED BY <1>1, <3>1, <3>2
  <2>4. d \in Seq(1..m) /\ Increasing(d) /\ StartsWith(d, data) /\ EndsIn(d, e[Len(e)])
    BY <1>5, <1>7, <2>2, <2>3, ConcatIncreasing
  <2> QED BY <1>7, <2>1, <2>4
<1>8. CASE Added(k) = <<k>>
  <2>1. PICK e : e = <<k>>
    OBVIOUS
  <2>2. e \in Seq(1..Len(combined)) /\ Len(e) = 1 /\ e[1] = k /\ e # <<>>
    BY <1>1, <2>1
  <2>3. (\A q \in 1..Len(e) : last < e[q]) /\ Increasing(e)
    BY <1>1, <2>2 DEF Increasing
  <2> QED BY <1>7, <1>8, <2>1, <2>2, <2>3
<1>9. CASE Added(k) = <<k - 1, k>> /\ last < k - 1 /\ last # 0
  <2>1. PICK e : e = <<k - 1, k>>
    OBVIOUS
  <2>2. k - 1 \in 1..Len(combined) /\ k \in 1..Len(combined)
    BY <1>1, <1>9
  <2>3. e \in Seq(1..Len(combined)) /\ Len(e) = 2 /\ e[1] = k - 1 /\ e[2] = k /\ e # <<>>
    BY <2>1, <2>2
  <2>4. (\A q \in 1..Len(e) : last < e[q]) /\ Increasing(e)
    BY <1>1, <1>9, <2>3 DEF Increasing
  <2> QED BY <1>7, <1>9, <2>1, <2>3, <2>4
<1> QED BY <1>6, <1>8, <1>9, AddedCases

\* One step of the loop keeps what the smoothing promises.
LEMMA VisitStep ==
  ASSUME FilterInv, VisitRow
  PROVE  FilterInv'
<1>1. PICK k : k = i + 1
  OBVIOUS
<1>2. PICK d : d = data \o Added(k)
  OBVIOUS
<1>3. PICK l : l = IF Added(k) = <<>> THEN last ELSE k
  OBVIOUS
<1>4. i < Len(combined) /\ i' = k /\ data' = d /\ last' = l /\ UNCHANGED <<combined, span>>
  BY <1>1, <1>2, <1>3 DEF VisitRow
<1>5. /\ i \in Nat /\ k \in 1..Len(combined) /\ last \in 0..(k - 1)
      /\ \A p \in 1..k : p \in 1..Len(combined) /\ (p \in 1..i \/ p = k)
  BY <1>1, <1>4 DEF FilterInv, TypeOK
<1>6. /\ d \in Seq(1..Len(combined)) /\ Increasing(d) /\ StartsWith(d, data)
      /\ Added(k) = <<>> => d = data
      /\ Added(k) # <<>> => EndsIn(d, k)
  BY <1>1, <1>2, <1>4, OutputGrows DEF FilterInv
<1>7. TypeOK'
  BY <1>3, <1>4, <1>5, <1>6 DEF FilterInv, TypeOK
<1>8. SavedIsEnd'
  <2>1. \/ l = 0 /\ d = <<>>
        \/ l > 0 /\ d # <<>> /\ d[Len(d)] = l
    BY <1>3, <1>5, <1>6 DEF FilterInv, SavedIsEnd, EndsIn
  <2> QED BY <1>4, <2>1 DEF SavedIsEnd
<1>9. OutputInOrder'
  BY <1>4, <1>6 DEF OutputInOrder, Increasing
<1>10. Added(k) = <<>> /\ ~IsEmpty(combined[k])
         => combined[k].anomaly_type = "NONE" /\ last # 0 /\ StandsFor(last, k)
  BY <1>1, <1>4, AddedCases DEF FilterInv
<1>11. AnomaliesKept'
  <2>1. \A m \in 1..k : combined[m].anomaly_type # "NONE" /\ ~IsEmpty(combined[m])
                        => \E p \in 1..Len(d) : d[p] = m
    BY <1>5, <1>6, <1>10 DEF FilterInv, AnomaliesKept, Kept, StartsWith, EndsIn
  <2> QED BY <1>4, <2>1 DEF AnomaliesKept, Kept
<1>12. EveryRowRepresented'
  <2>1. \A m \in 1..k : ~IsEmpty(combined[m]) =>
          \E p \in 1..Len(d) : d[p] =< m /\ StandsFor(d[p], m)
    <3> SUFFICES ASSUME NEW m \in 1..k, ~IsEmpty(combined[m])
                 PROVE  \E p \in 1..Len(d) : d[p] =< m /\ StandsFor(d[p], m)
      OBVIOUS
    <3>1. CASE m \in 1..i
      <4>1. PICK p \in 1..Len(data) : data[p] =< m /\ StandsFor(data[p], m)
        BY <3>1 DEF FilterInv, EveryRowRepresented, StandsFor
      <4> QED BY <1>6, <4>1 DEF StartsWith
    <3>2. CASE m = k /\ Added(k) # <<>>
      <4>1. StandsFor(k, k)
        BY <1>5, RowStandsForItself DEF FilterInv
      <4>2. d[Len(d)] = k /\ Len(d) \in 1..Len(d) /\ k =< m
        BY <1>5, <1>6, <3>2 DEF EndsIn
      <4> QED BY <3>2, <4>1, <4>2
    <3>3. CASE m = k /\ Added(k) = <<>>
      <4>1. last # 0 /\ StandsFor(last, k)
        BY <1>10, <3>3
      <4>2. d = data /\ data # <<>> /\ data[Len(data)] = last
        BY <1>6, <3>3, <4>1 DEF FilterInv, SavedIsEnd
      <4>3. Len(data) \in 1..Len(data)
        BY <4>2, EmptySeq DEF FilterInv, TypeOK
      <4> QED BY <1>5, <3>3, <4>1, <4>2, <4>3
    <3> QED BY <1>5, <3>1, <3>2, <3>3
  <2> QED BY <1>4, <2>1 DEF EveryRowRepresented, StandsFor, Fine
<1> QED BY <1>7, <1>8, <1>9, <1>11, <1>12 DEF FilterInv
-----------------------------------------------------------------------------
(* The request *)

\* Until both queries are answered the loop has nothing to do.
LoopUntouched ==
  pc \in {"idle", "check", "query"} => combined = <<>> /\ i = 0 /\ data = <<>> /\ last = 0

AnomaliesTagged ==
  \A k \in 1..Len(rows["anomalies"]) : rows["anomalies"][k].anomaly_type # "NONE"

\* The loop works on all the rows that both queries returned.
LoopHasAll ==
  pc = "filter" =>
    /\ \A q \in Queries : Answered(q)
    /\ combined = SortedByTime(rows["aggregated"] \o rows["anomalies"])

\* A request that is done has its answer, another has none yet.
DoneIsAnswered ==
  /\ pc = "done" => \E r : replies = <<r>>
  /\ pc # "done" => replies = <<>>

RequestInv ==
  /\ RequestTypeOK /\ FilterInv
  /\ LoopUntouched /\ AnomaliesTagged /\ LoopHasAll /\ DoneIsAnswered
  /\ AnswersWhole

LEMMA RequestInit == Init => RequestInv
<1> SUFFICES ASSUME Init PROVE RequestInv
  OBVIOUS
<1> USE DEF Init, FilterInit
<1>1. TypeOK
  BY DEF TypeOK
<1>2. FilterInv
  BY <1>1 DEF FilterInv, SavedIsEnd, AnomaliesKept, OutputInOrder, EveryRowRepresented
<1>3. RequestTypeOK
  BY <1>1 DEF RequestTypeOK
<1>4. LoopUntouched /\ LoopHasAll /\ DoneIsAnswered
  BY DEF LoopUntouched, LoopHasAll, DoneIsAnswered
<1>5. AnomaliesTagged
  BY DEF AnomaliesTagged, Queries
<1>6. AnswersWhole
  BY DEF AnswersWhole
<1> QED BY <1>2, <1>3, <1>4, <1>5, <1>6 DEF RequestInv

\* A step that leaves the loop alone keeps what the loop has.
LEMMA LoopRests ==
  ASSUME FilterInv, UNCHANGED filter
  PROVE  FilterInv'
<1> USE DEF filter
<1>1. TypeOK' /\ SavedIsEnd'
  BY DEF FilterInv, TypeOK, SavedIsEnd
<1>2. AnomaliesKept' /\ OutputInOrder'
  BY DEF FilterInv, AnomaliesKept, Kept, IsEmpty, OutputInOrder
<1>3. EveryRowRepresented'
  BY DEF FilterInv, EveryRowRepresented, IsEmpty, Fine, Fluctuates
<1> QED BY <1>1, <1>2, <1>3 DEF FilterInv

\* An answer stays whole: a query that is over stays as it ended.
LEMMA AnswersStayWhole ==
  ASSUME AnswersWhole, UNCHANGED <<via, rows, replies>>,
         \A q \in Queries : result[q] \in {"failed", "answered"} => result'[q] = result[q]
  PROVE  AnswersWhole'
BY DEF AnswersWhole, Answered

\* The rows that the loop gets are those of both queries.
LEMMA CombineStep ==
  ASSUME RequestInv, pc = "query", Combine(rows), UNCHANGED <<via, rows>>,
         \A q \in Queries : result'[q] = "answered"
  PROVE  /\ FilterInv' /\ LoopHasAll' /\ AnswersWhole' /\ LoopUntouched' /\ DoneIsAnswered'
         /\ pc' \in {"filter", "done"}
<1>1. PICK both : both = rows["aggregated"] \o rows["anomalies"]
  OBVIOUS
<1>2. rows["aggregated"] \in Seq(Row) /\ rows["anomalies"] \in Seq(Row)
  BY DEF RequestInv, RequestTypeOK, Queries
<1>3. both \in Seq(Row)
  BY <1>1, <1>2, ConcatProperties
<1>4. combined = <<>> /\ i = 0 /\ data = <<>> /\ last = 0 /\ span \in Nat /\ replies = <<>>
  BY DEF RequestInv, LoopUntouched, FilterInv, TypeOK, DoneIsAnswered
<1>5. CASE both = <<>>
  <2>1. Reply(Data(<<>>)) /\ UNCHANGED filter
    BY <1>1, <1>5 DEF Combine
  <2>2. pc' = "done" /\ replies' = <<Data(<<>>)>>
    BY <1>4, <2>1 DEF Reply
  <2>3. rows["aggregated"] = <<>> /\ rows["anomalies"] = <<>>
    <3>1. Len(rows["aggregated"]) + Len(rows["anomalies"]) = Len(both)
      BY <1>1, <1>2, ConcatProperties
    <3>2. Len(both) = 0
      BY <1>5
    <3>3. PICK m \in Nat, n \in Nat : m = Len(rows["aggregated"]) /\ n = Len(rows["anomalies"])
      BY <1>2, LenProperties
    <3>4. m + n = 0
      BY <3>1, <3>2, <3>3
    <3>5. m = 0 /\ n = 0
      BY <3>4
    <3>6. Len(rows["aggregated"]) = 0 /\ Len(rows["anomalies"]) = 0
      BY <3>3, <3>5
    <3> QED BY <1>2, <3>6, EmptySeq
  <2>4. AnswersWhole'
    <3>1. \A q \in Queries : rows[q] = <<>>
      BY <2>3 DEF Queries
    <3>2. Len(<<>>) = 0 /\ Data(<<>>).rows = <<>>
      BY DEF Data
    <3> QED BY <2>2, <2>3, <3>1, <3>2 DEF AnswersWhole, Answered, InTimeOrder
  <2>5. FilterInv'
    BY <2>1, LoopRests DEF RequestInv
  <2> QED BY <2>2, <2>4, <2>5 DEF LoopHasAll, LoopUntouched, DoneIsAnswered
<1>6. CASE both # <<>>
  <2>1. combined' = SortedByTime(both) /\ pc' = "filter" /\ UNCHANGED <<span, i, data, last, replies>>
    BY <1>1, <1>6 DEF Combine
  <2>2. PICK s \in Seq(Row) : s = SortedByTime(both)
    BY <1>3, SortProperties
  <2>3. TypeOK'
    <3>1. <<>> \in Seq(1..Len(s)) /\ 0 \in 0..Len(s) /\ 0 \in 0..0
      BY <2>2, EmptySeq
    <3> QED BY <1>4, <2>1, <2>2, <3>1 DEF TypeOK
  <2>4. FilterInv'
    BY <1>4, <2>1, <2>3 DEF FilterInv, SavedIsEnd, AnomaliesKept, OutputInOrder,
                            EveryRowRepresented
  <2>5. LoopHasAll'
    BY <1>1, <2>1 DEF LoopHasAll, Answered
  <2>6. AnswersWhole' /\ LoopUntouched' /\ DoneIsAnswered'
    BY <1>4, <2>1 DEF AnswersWhole, LoopUntouched, DoneIsAnswered
  <2> QED BY <2>1, <2>4, <2>5, <2>6
<1> QED BY <1>5, <1>6

\* What the loop leaves of all the rows is the whole history.
LEMMA PublishedIsWhole ==
  ASSUME RequestInv, Publish
  PROVE  AnswersWhole' /\ DoneIsAnswered'
<1>1. PICK points : points = [p \in 1..Len(data) |-> combined[data[p]]]
  OBVIOUS
<1>2. PICK both : both = rows["aggregated"] \o rows["anomalies"]
  OBVIOUS
<1>3. /\ i = Len(combined) /\ \A q \in Queries : Answered(q)
      /\ combined = SortedByTime(both) /\ replies = <<>>
  BY <1>2 DEF Publish, RequestInv, LoopHasAll, DoneIsAnswered
<1>4. replies' = <<Data(points)>> /\ pc' = "done" /\ UNCHANGED <<via, result, rows>>
  BY <1>1, <1>3 DEF Publish, Reply
<1>5. PICK agg, odd : agg = rows["aggregated"] /\ odd = rows["anomalies"]
  OBVIOUS
<1>6. agg \in Seq(Row) /\ odd \in Seq(Row) /\ both = agg \o odd
  BY <1>2, <1>5 DEF RequestInv, RequestTypeOK, Queries
<1>7. both \in Seq(Row) /\ Len(both) = Len(agg) + Len(odd)
  BY <1>6, ConcatProperties
<1>8. /\ combined \in Seq(Row) /\ Len(combined) = Len(both) /\ InTimeOrder(combined)
      /\ \A k \in 1..Len(both) : \E p \in 1..Len(both) : combined[p] = both[k]
  BY <1>3, <1>7, SortProperties
<1>9. /\ data \in Seq(1..Len(combined)) /\ Len(data) \in Nat
      /\ \A p \in 1..Len(data) : data[p] \in 1..Len(combined)
  <2>1. data \in Seq(1..Len(combined))
    BY DEF RequestInv, FilterInv, TypeOK
  <2> QED BY <2>1, ElementOfSeq
<1>10. Len(points) = Len(data) /\ \A p \in 1..Len(data) : points[p] = combined[data[p]]
  BY <1>1, <1>9
<1>11. InTimeOrder(points)
  <2> SUFFICES ASSUME NEW p \in 1..Len(data), NEW q \in 1..Len(data), p < q
               PROVE  points[p].time =< points[q].time
    BY <1>10 DEF InTimeOrder
  <2>1. data[p] < data[q]
    BY DEF RequestInv, FilterInv, OutputInOrder
  <2> QED BY <1>8, <1>9, <1>10, <2>1 DEF InTimeOrder
<1>12. ASSUME NEW a \in 1..Len(odd), ~IsEmpty(odd[a])
       PROVE  \E p \in 1..Len(points) : points[p] = odd[a]
  <2>1. odd[a].anomaly_type # "NONE"
    BY <1>5 DEF RequestInv, AnomaliesTagged
  <2>2. Len(agg) + a \in 1..Len(both) /\ both[Len(agg) + a] = odd[a]
    BY <1>6, <1>7, ConcatProperties
  <2>3. PICK k \in 1..Len(combined) : combined[k] = odd[a]
    BY <1>8, <2>2
  <2>4. Kept(k)
    BY <1>3, <1>12, <2>1, <2>3 DEF RequestInv, FilterInv, AnomaliesKept
  <2> QED BY <1>10, <2>3, <2>4 DEF Kept
<1>13. ASSUME points = <<>>
       PROVE  (\A a \in 1..Len(agg) : IsEmpty(agg[a])) /\ (\A a \in 1..Len(odd) : IsEmpty(odd[a]))
  <2>1. Len(data) = 0
    BY <1>10, <1>13
  <2>2. \A k \in 1..Len(combined) : IsEmpty(combined[k])
    BY <1>3, <2>1 DEF RequestInv, FilterInv, EveryRowRepresented
  <2>3. \A k \in 1..Len(both) : IsEmpty(both[k])
    BY <1>8, <2>2
  <2>4. \A a \in 1..Len(agg) : a \in 1..Len(both) /\ both[a] = agg[a]
    BY <1>6, <1>7, ConcatProperties
  <2>5. \A a \in 1..Len(odd) : Len(agg) + a \in 1..Len(both) /\ both[Len(agg) + a] = odd[a]
    BY <1>6, <1>7, ConcatProperties
  <2> QED BY <2>3, <2>4, <2>5
<1>14. DoneIsAnswered'
  BY <1>4 DEF DoneIsAnswered
<1>15. AnswersWhole'
  <2>1. Data(points).rows = points /\ \A q \in Queries : result'[q] = "answered"
    BY <1>3, <1>4 DEF Data, Answered
  <2>2. points = <<>> => \A q \in Queries : \A a \in 1..Len(rows[q]) : IsEmpty(rows[q][a])
    BY <1>5, <1>13 DEF Queries
  <2> QED BY <1>4, <1>5, <1>11, <1>12, <2>1, <2>2 DEF AnswersWhole, Answered, IsEmpty
<1> QED BY <1>14, <1>15

LEMMA RequestStep == RequestInv /\ [Next]_rvars => RequestInv'
<1> SUFFICES ASSUME RequestInv, [Next]_rvars PROVE RequestInv'
  OBVIOUS
<1> USE DEF RequestInv
<1>1. ASSUME Receive PROVE RequestInv'
  <2> USE <1>1 DEF Receive
  <2>1. FilterInv' /\ AnswersWhole'
    BY LoopRests, AnswersStayWhole
  <2>2. RequestTypeOK'
    BY <2>1 DEF RequestTypeOK, FilterInv
  <2>3. LoopUntouched' /\ AnomaliesTagged' /\ LoopHasAll' /\ DoneIsAnswered'
    BY DEF LoopUntouched, AnomaliesTagged, LoopHasAll, DoneIsAnswered, filter
  <2> QED BY <2>1, <2>2, <2>3
<1>2. ASSUME pc = "check", AskInflux, UNCHANGED <<filter, via, replies>> PROVE RequestInv'
  <2> USE <1>2 DEF AskInflux
  <2>1. PICK found \in AggregatedRows, odd \in AnomalyRows :
          rows' = [q \in Queries |-> IF q = "aggregated" THEN found ELSE odd]
    OBVIOUS
  <2>2. /\ found \in Seq(Row) /\ odd \in Seq(Row)
        /\ \A k \in 1..Len(odd) : odd[k].anomaly_type # "NONE"
    BY RequestAssumption
  <2>3. rows' \in [Queries -> Seq(Row)] /\ rows'["anomalies"] = odd
    BY <2>1, <2>2 DEF Queries
  <2>4. FilterInv'
    BY LoopRests
  <2>5. RequestTypeOK'
    BY <2>3, <2>4 DEF RequestTypeOK, FilterInv
  <2>6. AnomaliesTagged'
    BY <2>2, <2>3 DEF AnomaliesTagged
  <2>7. LoopUntouched' /\ LoopHasAll' /\ DoneIsAnswered' /\ AnswersWhole'
    BY DEF LoopUntouched, LoopHasAll, DoneIsAnswered, AnswersWhole, filter
  <2> QED BY <2>4, <2>5, <2>6, <2>7
<1>3. ASSUME pc \in {"check", "query"}, NEW r, Reply(r),
             r.kind = "data" => /\ via = "http" /\ r.rows = <<>>
                                /\ \E q \in Queries : result'[q] = "failed",
             result' \in [Queries -> {"none", "pending", "failed", "answered"}],
             UNCHANGED <<filter, via, rows>>
      PROVE  RequestInv'
  <2>1. replies' = <<r>> /\ pc' = "done"
    <3>1. replies = <<>>
      BY <1>3 DEF DoneIsAnswered
    <3>2. Append(<<>>, r) = <<r>>
      OBVIOUS
    <3> QED BY <1>3, <3>1, <3>2 DEF Reply
  <2>2. FilterInv'
    BY <1>3, LoopRests
  <2>3. RequestTypeOK'
    BY <1>3, <2>1, <2>2 DEF RequestTypeOK, FilterInv
  <2>4. LoopUntouched' /\ AnomaliesTagged' /\ LoopHasAll' /\ DoneIsAnswered'
    BY <1>3, <2>1 DEF LoopUntouched, AnomaliesTagged, LoopHasAll, DoneIsAnswered
  <2>5. AnswersWhole'
    BY <1>3, <2>1 DEF AnswersWhole
  <2> QED BY <2>2, <2>3, <2>4, <2>5
<1>4. ASSUME Check PROVE RequestInv'
  <2>1. CASE AskInflux /\ UNCHANGED replies
    BY <1>2, <1>4, <2>1 DEF Check
  <2>2. CASE Reply(Error) /\ UNCHANGED <<result, rows>>
    <3>1. PICK r : r = Error
      OBVIOUS
    <3>2. r.kind # "data" /\ Reply(r)
      BY <2>2, <3>1 DEF Error
    <3> QED BY <1>3, <1>4, <2>2, <3>2 DEF Check, RequestTypeOK
  <2> QED BY <1>4, <2>1, <2>2 DEF Check
<1>5. ASSUME NEW q \in Queries, AnswerQuery(q) PROVE RequestInv'
  <2> USE <1>5 DEF AnswerQuery, Resolve
  <2>1. [rows EXCEPT ![q] = rows[q]] = rows
    BY DEF RequestTypeOK
  <2>2. /\ result[q] = "pending" /\ result' = [result EXCEPT ![q] = "answered"]
        /\ UNCHANGED <<via, rows>>
        /\ result' \in [Queries -> {"none", "pending", "failed", "answered"}]
    BY DEF RequestTypeOK
  <2>3. AnomaliesTagged'
    BY <2>2 DEF AnomaliesTagged
  <2>4. CASE pc = "query" /\ \A p \in Queries \ {q} : Answered(p)
    <3>1. Combine(rows)
      BY <2>1, <2>4
    <3>2. \A p \in Queries : result'[p] = "answered"
      BY <2>2, <2>4 DEF Answered, RequestTypeOK
    <3>3. /\ FilterInv' /\ LoopHasAll' /\ AnswersWhole' /\ LoopUntouched' /\ DoneIsAnswered'
          /\ pc' \in {"filter", "done"}
      BY <2>2, <2>4, <3>1, <3>2, CombineStep
    <3>4. RequestTypeOK'
      BY <2>2, <3>3 DEF RequestTypeOK, FilterInv
    <3> QED BY <2>3, <3>3, <3>4
  <2>5. CASE ~(pc = "query" /\ \A p \in Queries \ {q} : Answered(p))
    <3>1. UNCHANGED <<filter, pc, replies>>
      BY <2>5
    <3>2. \A p \in Queries : result[p] \in {"failed", "answered"} => result'[p] = result[p]
      BY <2>2 DEF RequestTypeOK
    <3>3. FilterInv' /\ AnswersWhole'
      BY <2>2, <3>1, <3>2, LoopRests, AnswersStayWhole
    <3>4. RequestTypeOK'
      BY <2>2, <3>1, <3>3 DEF RequestTypeOK, FilterInv
    <3>5. LoopUntouched' /\ LoopHasAll' /\ DoneIsAnswered'
      BY <2>2, <3>1, <3>2 DEF LoopUntouched, LoopHasAll, DoneIsAnswered, Answered, filter
    <3> QED BY <2>3, <3>3, <3>4, <3>5
  <2> QED BY <2>4, <2>5
<1>6. ASSUME NEW q \in Queries, FailQuery(q) PROVE RequestInv'
  <2> USE <1>6 DEF FailQuery
  <2>1. /\ result[q] = "pending" /\ result' = [result EXCEPT ![q] = "failed"]
        /\ UNCHANGED <<filter, via, rows>> /\ result'[q] = "failed"
        /\ result' \in [Queries -> {"none", "pending", "failed", "answered"}]
    BY DEF RequestTypeOK
  <2>2. CASE pc = "query"
    <3>1. PICK r : r = IF via = "mqtt" THEN Error ELSE Data(<<>>)
      OBVIOUS
    <3>2. Reply(r)
      BY <2>2, <3>1
    <3>3. r.kind = "data" => via = "http" /\ r.rows = <<>>
      BY <3>1 DEF Error, Data, RequestTypeOK
    <3> QED BY <1>3, <2>1, <2>2, <3>2, <3>3
  <2>3. CASE pc # "query"
    <3>1. UNCHANGED <<pc, replies>>
      BY <2>3
    <3>2. \A p \in Queries : result[p] \in {"failed", "answered"} => result'[p] = result[p]
      BY <2>1 DEF RequestTypeOK
    <3>3. FilterInv' /\ AnswersWhole'
      BY <2>1, <3>1, <3>2, LoopRests, AnswersStayWhole
    <3>4. RequestTypeOK'
      BY <2>1, <3>1, <3>3 DEF RequestTypeOK, FilterInv
    <3>5. LoopUntouched' /\ LoopHasAll' /\ DoneIsAnswered' /\ AnomaliesTagged'
      BY <2>1, <3>1, <3>2 DEF LoopUntouched, LoopHasAll, DoneIsAnswered, AnomaliesTagged,
                              Answered, filter
    <3> QED BY <3>3, <3>4, <3>5
  <2> QED BY <2>2, <2>3
<1>7. ASSUME Smooth PROVE RequestInv'
  <2> USE <1>7 DEF Smooth
  <2>1. FilterInv' /\ AnswersWhole'
    BY VisitStep, AnswersStayWhole
  <2>2. RequestTypeOK'
    BY <2>1 DEF RequestTypeOK, FilterInv
  <2>3. UNCHANGED combined
    BY DEF VisitRow
  <2>4. LoopUntouched' /\ LoopHasAll' /\ DoneIsAnswered' /\ AnomaliesTagged'
    BY <2>3 DEF LoopUntouched, LoopHasAll, DoneIsAnswered, AnomaliesTagged, Answered
  <2> QED BY <2>1, <2>2, <2>4
<1>8. ASSUME Publish PROVE RequestInv'
  <2> USE <1>8 DEF Publish, Reply
  <2>1. AnswersWhole' /\ DoneIsAnswered'
    BY PublishedIsWhole
  <2>2. FilterInv'
    BY LoopRests
  <2>3. RequestTypeOK'
    BY <2>2 DEF RequestTypeOK, FilterInv
  <2>4. LoopUntouched' /\ LoopHasAll' /\ AnomaliesTagged'
    BY DEF LoopUntouched, LoopHasAll, AnomaliesTagged
  <2> QED BY <2>1, <2>2, <2>3, <2>4
<1>9. ASSUME Crash PROVE RequestInv'
  <2> USE <1>9 DEF Crash
  <2>1. FilterInv'
    BY LoopRests
  <2>2. RequestTypeOK'
    BY <2>1 DEF RequestTypeOK, FilterInv
  <2>3. replies' = <<>>
    BY DEF DoneIsAnswered
  <2>4. LoopUntouched' /\ LoopHasAll' /\ AnomaliesTagged' /\ DoneIsAnswered' /\ AnswersWhole'
    BY <2>3 DEF LoopUntouched, LoopHasAll, AnomaliesTagged, DoneIsAnswered, AnswersWhole
  <2> QED BY <2>1, <2>2, <2>4
<1>10. ASSUME UNCHANGED rvars PROVE RequestInv'
  <2> USE <1>10 DEF rvars
  <2>1. FilterInv' /\ AnswersWhole'
    BY LoopRests, AnswersStayWhole
  <2>2. RequestTypeOK'
    BY <2>1 DEF RequestTypeOK, FilterInv
  <2>3. LoopUntouched' /\ AnomaliesTagged' /\ LoopHasAll' /\ DoneIsAnswered'
    BY DEF LoopUntouched, AnomaliesTagged, LoopHasAll, DoneIsAnswered, Answered, filter
  <2> QED BY <2>1, <2>2, <2>3
<1> QED BY <1>1, <1>4, <1>5, <1>6, <1>7, <1>8, <1>9, <1>10 DEF Next

LEMMA RequestInvariant == Spec => []RequestInv
BY RequestInit, RequestStep, PTL DEF Spec

\* A request keeps its types, and its loop never leaves the rows that the sort
\* returned.  (mqtt.service.ts:219-276, deadband.util.ts:26-141)
THEOREM TypeCorrect == Spec => []RequestTypeOK
<1>1. RequestInv => RequestTypeOK
  BY DEF RequestInv
<1> QED BY RequestInvariant, <1>1, PTL

\* In histories of any length: no anomaly with a voltage or a current is smoothed
\* away.  (deadband.util.ts:40-45)
THEOREM AnomaliesAlwaysKept == Spec => []AnomaliesKept
<1>1. RequestInv => AnomaliesKept
  BY DEF RequestInv, FilterInv
<1> QED BY RequestInvariant, <1>1, PTL

\* In histories of any length: the points come out in the order of the rows, none
\* twice.  (deadband.util.ts:47-58, 112-121)
THEOREM OutputAlwaysInOrder == Spec => []OutputInOrder
<1>1. RequestInv => OutputInOrder
  BY DEF RequestInv, FilterInv
<1> QED BY RequestInvariant, <1>1, PTL

\* In histories of any length: every row left out has a point, not later, from
\* which it does not differ visibly.  (deadband.util.ts:112-141)
THEOREM RowsAlwaysRepresented == Spec => []EveryRowRepresented
<1>1. RequestInv => EveryRowRepresented
  BY DEF RequestInv, FilterInv
<1> QED BY RequestInvariant, <1>1, PTL

\* Whatever rows the queries return and in whatever order they answer or fail: an
\* answer with data is the whole history.
\* (mqtt.service.ts:231-276, iot.service.ts:180-230)
THEOREM AnswersAlwaysWhole == Spec => []AnswersWhole
<1>1. RequestInv => AnswersWhole
  BY DEF RequestInv
<1> QED BY RequestInvariant, <1>1, PTL

\* What a step does to the answers: nothing, or it is one of the events of OneReply.
LEMMA ReplySteps ==
  ASSUME RequestInv, [Next]_rvars
  PROVE  \/ UNCHANGED <<pc, replies>>
         \/ pc = "idle" /\ pc' = "check" /\ UNCHANGED replies
         \/ pc \in {"check", "query"} /\ pc' \in {"query", "filter"} /\ UNCHANGED replies
         \/ pc \in {"check", "query", "filter"} /\ pc' = "lost" /\ UNCHANGED replies
         \/ pc \in {"check", "query", "filter"} /\ pc' = "done"
            /\ \E r : replies' = Append(replies, r)
<1>1. CASE Receive \/ Crash \/ UNCHANGED rvars
  BY <1>1 DEF Receive, Crash, rvars
<1>2. CASE Check \/ Smooth \/ Publish
  BY <1>2 DEF Check, AskInflux, Smooth, Publish, Reply
<1>3. ASSUME NEW q \in Queries, AnswerQuery(q) \/ FailQuery(q)
      PROVE  \/ UNCHANGED <<pc, replies>>
             \/ pc = "query" /\ pc' = "filter" /\ UNCHANGED replies
             \/ pc = "query" /\ pc' = "done" /\ \E r : replies' = Append(replies, r)
  BY <1>3 DEF AnswerQuery, Resolve, Combine, FailQuery, Reply
<1> QED BY <1>1, <1>2, <1>3 DEF Next

\* A request has one answer at most, and none once the backend has stopped: every
\* step is a step of OneReply, or no step of it.  (That the answer comes is the
\* part of AnswersOnce that the run checks.)
\* (mqtt.service.ts:219-276, iot.service.ts:155-230)
THEOREM NeverAnswersTwice == Spec => Ledger!Safety
<1>1. Init => Ledger!Init
  BY DEF Init, Ledger!Init
<1>2. RequestInv /\ [Next]_rvars =>
        \/ Ledger!Next
        \/ UNCHANGED (IF replies = <<>>
                        THEN IF pc = "idle" THEN "none"
                             ELSE IF pc = "lost" THEN "lost" ELSE "open"
                        ELSE IF Len(replies) = 1 THEN "replied" ELSE "twice")
  <2> SUFFICES ASSUME RequestInv, [Next]_rvars
               PROVE  \/ Ledger!Next
                      \/ UNCHANGED (IF replies = <<>>
                                      THEN IF pc = "idle" THEN "none"
                                           ELSE IF pc = "lost" THEN "lost" ELSE "open"
                                      ELSE IF Len(replies) = 1 THEN "replied" ELSE "twice")
    OBVIOUS
  <2>1. pc # "done" => replies = <<>>
    BY DEF RequestInv, DoneIsAnswered
  <2>2. \A r : Append(<<>>, r) # <<>> /\ Len(Append(<<>>, r)) = 1
    OBVIOUS
  <2> QED BY <2>1, <2>2, ReplySteps
          DEF Ledger!Next, Ledger!Ask, Ledger!Reply, Ledger!Lose
<1> QED BY <1>1, <1>2, RequestInvariant, PTL DEF Spec, Ledger!Safety
=============================================================================
