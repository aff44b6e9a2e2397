--------------------------- MODULE ChartDataProofs ---------------------------
(***************************************************************************)
(* Proofs about ChartData, for any number of entities and dates and any    *)
(* natural values: what the pie says of each entity, that it is mirrored   *)
(* when time is, that the line follows the data, and that the buckets of   *)
(* positions add up.                                                       *)
(***************************************************************************)
EXTENDS ChartData, FoldProofs, SequenceTheorems

Slices == {"growth", "no_change", "fall"}

\* A value of an entity at a date, or its absence.
Optional == {Null} \cup {{v} : v \in Nat}

\* What processing an item's datasets has to yield.
Result(D, rev, r) ==
  [series |-> MetricSeries(D, SummaryAggregation(r)), pie |-> Pie(D, rev),
   histogram |-> Histogram(D), positions |-> PositionDistribution(D)]

\* The inductive invariant: the input stays what the service sent, and a chart
\* is the one that belongs to it.
IInv ==
  /\ \E n \in 0 .. MaxPoints : datasets \in BoundedSeq(Dataset(n), MaxDatasets)
  /\ reverse \in BOOLEAN
  /\ Built => /\ datasets # <<>>
              /\ chart = Result(datasets, reverse, rules)

-----------------------------------------------------------------------------
(***************************************************************************)
(* The input                                                               *)
(***************************************************************************)
\* Each dataset holds values of its own, as many as the common grid has dates or
\* fewer.
LEMMA Input ==
  ASSUME NEW n \in 0 .. MaxPoints, NEW D \in BoundedSeq(Dataset(n), MaxDatasets)
  PROVE  /\ D \in Seq(Dataset(n)) /\ n \in Nat
         /\ \A k \in DOMAIN D : /\ D[k] \in [dates : {Grid(n)}, values : Seq(Optional)]
                                /\ Len(D[k].values) <= n
<1>1. n \in Nat /\ Value[n] \subseteq Nat
  BY ChartAssumption
<1>2. PICK m \in 0 .. MaxDatasets : D \in [1 .. m -> Dataset(n)]
  BY ChartAssumption DEF BoundedSeq, SeqOf
<1>3. m \in Nat /\ D \in Seq(Dataset(n)) /\ DOMAIN D = 1 .. m
  BY <1>2, ChartAssumption
<1>4. Point(n) \subseteq Optional
  BY <1>1 DEF Point, Optional
<1>5. ASSUME NEW k \in DOMAIN D
      PROVE  /\ D[k] \in [dates : {Grid(n)}, values : Seq(Optional)]
             /\ Len(D[k].values) <= n
  <2>1. D[k] \in [dates : {Grid(n)}, values : BoundedSeq(Point(n), n)]
    BY <1>2, <1>3 DEF Dataset
  <2>2. PICK l \in 0 .. n : D[k].values \in [1 .. l -> Point(n)]
    BY <1>1, <2>1 DEF BoundedSeq, SeqOf
  <2>3. D[k].values \in [1 .. l -> Optional] /\ l \in Nat /\ l <= n
    BY <1>1, <1>4, <2>2
  <2> HIDE DEF Optional
  <2>4. D[k].values \in Seq(Optional) /\ Len(D[k].values) = l
    BY <2>3
  <2> QED
    BY <2>1, <2>3, <2>4
<1> QED
  BY <1>1, <1>3, <1>5

-----------------------------------------------------------------------------
(***************************************************************************)
(* The first and the last value of a row                                   *)
(***************************************************************************)
\* A row has a first value just when it has a last one, and both are values.
LEMMA EndsOfRow ==
  ASSUME NEW v \in Seq(Optional)
  PROVE  /\ Known(v) \subseteq 1 .. Len(v)
         /\ FirstValue(v) # Null <=> Known(v) # {}
         /\ LastValue(v) # Null <=> Known(v) # {}
         /\ Known(v) # {} => /\ \E i \in Known(v) : FirstValue(v) = v[i]
                             /\ \E i \in Known(v) : LastValue(v) = v[i]
                             /\ The(FirstValue(v)) \in Nat
                             /\ The(LastValue(v)) \in Nat
<1>1. Known(v) \subseteq 1 .. Len(v) /\ Len(v) \in Nat
  BY LenProperties DEF Known
<1>2. Known(v) # {} => Min(Known(v)) \in Known(v) /\ Max(Known(v)) \in Known(v)
  <2>1. Known(v) \in SUBSET Nat /\ Known(v) \in SUBSET (0 .. Len(v))
    BY <1>1
  <2> QED
    BY <1>1, <2>1, Smallest, Largest
<1>3. \A i \in Known(v) : v[i] # Null /\ The(v[i]) \in Nat
  <2> TAKE i \in Known(v)
  <2>1. v[i] \in Optional /\ v[i] # Null
    BY <1>1, ElementOfSeq DEF Known
  <2>2. PICK x \in Nat : v[i] = {x}
    BY <2>1 DEF Optional
  <2> QED
    BY <2>1, <2>2 DEF The
<1> QED
  BY <1>1, <1>2, <1>3 DEF FirstValue, LastValue

\* Read backwards, a row ends where it began and begins where it ended.
LEMMA RowBackwards ==
  ASSUME NEW v \in Seq(Optional)
  PROVE  /\ Reverse(v) \in Seq(Optional)
         /\ Reverse(v) = <<>> <=> v = <<>>
         /\ FirstValue(Reverse(v)) = LastValue(v)
         /\ LastValue(Reverse(v)) = FirstValue(v)
<1> DEFINE n == Len(v)
           w == Reverse(v)
<1>1. n \in Nat /\ v \in [1 .. n -> Optional]
  BY LenProperties
<1> HIDE DEF n, Optional
<1>2. /\ w \in [1 .. n -> Optional]
      /\ \A i \in 1 .. n : w[i] = v[n + 1 - i]
  <2>1. w = [i \in 1 .. n |-> v[(n - i) + 1]]
    BY DEF Reverse, n
  <2>2. \A i \in 1 .. n : (n - i) + 1 \in 1 .. n /\ (n - i) + 1 = n + 1 - i
    BY <1>1
  <2> QED
    BY <1>1, <2>1, <2>2
<1> HIDE DEF w
<1>3. w \in Seq(Optional) /\ Len(w) = n
  BY <1>1, <1>2
<1>4. w = <<>> <=> v = <<>>
  BY <1>1, <1>3, EmptySeq DEF n
<1>5. /\ Known(v) \in SUBSET (0 .. n) /\ Known(w) \in SUBSET (0 .. n)
      /\ \A i \in 1 .. n : i \in Known(v) <=> n + 1 - i \in Known(w)
      /\ Known(v) \subseteq 1 .. n /\ Known(w) \subseteq 1 .. n
  <2>1. Known(v) = {i \in 1 .. n : v[i] # Null}
    BY <1>1 DEF Known
  <2>2. Known(w) = {i \in 1 .. n : w[i] # Null}
    BY <1>2 DEF Known
  <2>3. \A i \in 1 .. n : n + 1 - i \in 1 .. n /\ w[n + 1 - i] = v[i]
    <3> TAKE i \in 1 .. n
    <3>1. n + 1 - i \in 1 .. n /\ n + 1 - (n + 1 - i) = i
      BY <1>1
    <3> QED
      BY <1>2, <3>1
  <2> QED
    BY <1>1, <2>1, <2>2, <2>3
<1>6. CASE Known(v) = {}
  <2>1. Known(w) = {}
    <3> SUFFICES ASSUME NEW k \in Known(w) PROVE FALSE
      OBVIOUS
    <3>1. k \in 1 .. n /\ n + 1 - k \in 1 .. n /\ n + 1 - (n + 1 - k) = k
      BY <1>1, <1>5
    <3> QED
      BY <1>5, <1>6, <3>1
  <2> QED
    BY <1>3, <1>4, <1>6, <2>1 DEF FirstValue, LastValue, w
<1>7. CASE Known(v) # {}
  <2> DEFINE a == Min(Known(v))
             b == Max(Known(v))
  <2>1. /\ a \in Known(v) /\ \A l \in Known(v) : a <= l
        /\ b \in Known(v) /\ \A l \in Known(v) : b >= l
    <3>1. Known(v) \in SUBSET Nat
      BY <1>5
    <3> QED
      BY <1>1, <1>5, <1>7, <3>1, Smallest, Largest
  <2> HIDE DEF a, b
  <2>2. a \in 1 .. n /\ b \in 1 .. n
    BY <1>5, <2>1
  <2>3. n + 1 - a \in Known(w) /\ n + 1 - b \in Known(w)
    BY <1>5, <2>1, <2>2
  <2>4. \A l \in Known(w) : n + 1 - a >= l /\ n + 1 - b <= l
    <3> TAKE l \in Known(w)
    <3>1. l \in 1 .. n /\ n + 1 - l \in 1 .. n /\ n + 1 - (n + 1 - l) = l
      BY <1>1, <1>5
    <3>2. n + 1 - l \in Known(v)
      BY <1>5, <3>1
    <3>3. a <= n + 1 - l /\ b >= n + 1 - l
      BY <2>1, <3>2
    <3> QED
      BY <1>1, <2>2, <3>1, <3>3
  <2>5. Max(Known(w)) = n + 1 - a /\ Min(Known(w)) = n + 1 - b
    <3>1. Known(w) \in SUBSET Nat
      BY <1>5
    <3> QED
      BY <2>3, <2>4, <3>1, Unique
  <2>6. w[n + 1 - a] = v[a] /\ w[n + 1 - b] = v[b]
    <3>1. /\ n + 1 - a \in 1 .. n /\ n + 1 - (n + 1 - a) = a
          /\ n + 1 - b \in 1 .. n /\ n + 1 - (n + 1 - b) = b
      BY <1>1, <2>2
    <3> QED
      BY <1>2, <3>1
  <2>7. FirstValue(w) = LastValue(v) /\ LastValue(w) = FirstValue(v)
    <3>1. Known(w) # {}
      BY <2>3
    <3> QED
      BY <1>7, <2>5, <2>6, <3>1 DEF FirstValue, LastValue, a, b
  <2> QED
    BY <1>3, <1>4, <2>7 DEF w
<1> QED
  BY <1>6, <1>7

-----------------------------------------------------------------------------
(***************************************************************************)
(* The pie                                                                 *)
(***************************************************************************)
Rows(D) == \A k \in DOMAIN D : D[k].values \in Seq(Optional)

\* The slice of an entity with the row v.
Slice(v, rev) ==
  IF Known(v) = {} THEN "no_change"
  ELSE Trend(The(FirstValue(v)), The(LastValue(v)), rev)

\* What grew forwards fell backwards, and what stood still stands still, zero
\* and reverse_trend included.
LEMMA TrendMirrored ==
  ASSUME NEW s \in Nat, NEW e \in Nat, NEW rev \in BOOLEAN
  PROVE  /\ Trend(s, e, rev) \in Slices
         /\ Trend(e, s, rev) = "growth" <=> Trend(s, e, rev) = "fall"
         /\ Trend(e, s, rev) = "no_change" <=> Trend(s, e, rev) = "no_change"
<1>1. ASSUME NEW x \in Nat, NEW y \in Nat, rev
      PROVE  Trend(x, y, rev) = IF y = x THEN "no_change"
                                ELSE IF x = 0 THEN "growth"
                                ELSE IF y = 0 THEN "fall"
                                ELSE IF y < x THEN "growth" ELSE "fall"
  <2>1. CASE x = 0 \/ y = 0
    BY <1>1, <2>1 DEF Trend
  <2>2. CASE x # 0 /\ y # 0
    <3>1. Trend(x, y, rev) = IF x - y > 0 THEN "growth"
                             ELSE IF x - y < 0 THEN "fall" ELSE "no_change"
      BY <1>1, <2>2 DEF Trend
    <3>2. CASE x = y
      BY <2>2, <3>1, <3>2
    <3>3. CASE y < x
      <4>1. x - y > 0 /\ y # x
        BY <3>3
      <4> QED
        BY <2>2, <3>1, <3>3, <4>1
    <3>4. CASE x < y
      <4>1. ~(x - y > 0) /\ x - y < 0 /\ y # x /\ ~(y < x)
        BY <3>4
      <4> QED
        BY <2>2, <3>1, <4>1
    <3> QED
      BY <3>2, <3>3, <3>4
  <2> QED
    BY <2>1, <2>2
<1>2. ASSUME NEW x \in Nat, NEW y \in Nat, ~rev
      PROVE  Trend(x, y, rev) = IF y = x THEN "no_change"
                                ELSE IF y > x THEN "growth" ELSE "fall"
  <2>1. Trend(x, y, rev) = IF y - x > 0 THEN "growth"
                           ELSE IF y - x < 0 THEN "fall" ELSE "no_change"
    BY <1>2 DEF Trend
  <2> QED
    BY <1>2, <2>1
<1>3. CASE rev
  <2>1. /\ Trend(s, e, rev) = IF e = s THEN "no_change"
                              ELSE IF s = 0 THEN "growth"
                              ELSE IF e = 0 THEN "fall"
                              ELSE IF e < s THEN "growth" ELSE "fall"
        /\ Trend(e, s, rev) = IF s = e THEN "no_change"
                              ELSE IF e = 0 THEN "growth"
                              ELSE IF s = 0 THEN "fall"
                              ELSE IF s < e THEN "growth" ELSE "fall"
    BY <1>1, <1>3
  <2> QED
    BY <2>1 DEF Slices
<1>4. CASE ~rev
  <2>1. /\ Trend(s, e, rev) = IF e = s THEN "no_change"
                              ELSE IF e > s THEN "growth" ELSE "fall"
        /\ Trend(e, s, rev) = IF s = e THEN "no_change"
                              ELSE IF s > e THEN "growth" ELSE "fall"
    BY <1>2, <1>4
  <2> QED
    BY <2>1 DEF Slices
<1> QED
  BY <1>3, <1>4

\* The same of a row and its reverse.
LEMMA SliceMirrored ==
  ASSUME NEW v \in Seq(Optional), NEW rev \in BOOLEAN
  PROVE  /\ Slice(v, rev) \in Slices
         /\ Slice(Reverse(v), rev) = "growth" <=> Slice(v, rev) = "fall"
         /\ Slice(Reverse(v), rev) = "no_change" <=> Slice(v, rev) = "no_change"
<1> DEFINE w == Reverse(v)
<1>1. /\ w \in Seq(Optional) /\ FirstValue(w) = LastValue(v)
      /\ LastValue(w) = FirstValue(v)
  BY RowBackwards
<1> HIDE DEF w
<1>2. Known(w) = {} <=> Known(v) = {}
  BY <1>1, EndsOfRow
<1>3. CASE Known(v) = {}
  BY <1>2, <1>3 DEF Slice, Slices, w
<1>4. CASE Known(v) # {}
  <2> DEFINE s == The(FirstValue(v))
             e == The(LastValue(v))
  <2>1. s \in Nat /\ e \in Nat
    BY <1>4, EndsOfRow
  <2>2. Slice(v, rev) = Trend(s, e, rev) /\ Slice(w, rev) = Trend(e, s, rev)
    BY <1>1, <1>2, <1>4 DEF Slice
  <2> HIDE DEF s, e
  <2> QED
    BY <2>1, <2>2, TrendMirrored DEF w
<1> QED
  BY <1>3, <1>4

\* A slice of the pie has the entities with a row that belongs there.
LEMMA PieIs ==
  ASSUME NEW D, Rows(D), NEW rev, NEW c \in Slices
  PROVE  Pie(D, rev)[c] = {k \in DOMAIN D : /\ D[k].values # <<>>
                                            /\ c = Slice(D[k].values, rev)}
<1>1. ASSUME NEW k \in DOMAIN D
      PROVE  Slice(D[k].values, rev) =
               IF k \notin DOMAIN Starts(D) THEN "no_change"
               ELSE Trend(Starts(D)[k], Ends(D)[k], rev)
  <2>1. /\ FirstValue(D[k].values) # Null <=> Known(D[k].values) # {}
        /\ LastValue(D[k].values) # Null <=> Known(D[k].values) # {}
    BY EndsOfRow DEF Rows
  <2>2. k \in DOMAIN Starts(D) <=> Known(D[k].values) # {}
    BY <2>1 DEF Starts
  <2>3. Known(D[k].values) # {} =>
          /\ Starts(D)[k] = The(FirstValue(D[k].values))
          /\ Ends(D)[k] = The(LastValue(D[k].values))
    BY <2>1 DEF Starts, Ends
  <2> QED
    BY <2>2, <2>3 DEF Slice
<1>2. Pie(D, rev)[c] =
        {k \in DOMAIN D :
           /\ D[k].values # <<>>
           /\ c = IF k \notin DOMAIN Starts(D) THEN "no_change"
                  ELSE Trend(Starts(D)[k], Ends(D)[k], rev)}
  BY DEF Pie, Slices
<1> QED
  BY <1>1, <1>2

-----------------------------------------------------------------------------
(***************************************************************************)
(* The inductive invariant, and what follows from it                       *)
(***************************************************************************)
\* It holds at the start and over every step: building changes the chart only.
THEOREM Invariant == Spec => []IInv
<1>1. Init => IInv
  BY DEF Init, IInv, Built
<1>2. IInv /\ [Next]_vars => IInv'
  <2> SUFFICES ASSUME IInv, [Next]_vars PROVE IInv'
    OBVIOUS
  <2>1. CASE BuildItem
    <3>1. /\ datasets' = datasets /\ reverse' = reverse /\ rules' = rules
          /\ datasets # <<>> /\ chart' = Result(datasets, reverse, rules)
      BY <2>1 DEF BuildItem, Result
    <3> QED
      BY <3>1 DEF IInv, Built
  <2>2. CASE UNCHANGED vars
    BY <2>2 DEF IInv, Built, vars
  <2> QED
    BY <2>1, <2>2 DEF Next
<1> QED
  BY <1>1, <1>2, PTL DEF Spec

\* The rows of a state are rows, and a chart's pie is that of its datasets.
LEMMA State ==
  ASSUME IInv
  PROVE  /\ Rows(datasets) /\ reverse \in BOOLEAN
         /\ Built => chart.pie = Pie(datasets, reverse)
<1>1. PICK n \in 0 .. MaxPoints : datasets \in BoundedSeq(Dataset(n), MaxDatasets)
  BY DEF IInv
<1>2. Rows(datasets)
  BY <1>1, Input DEF Rows
<1> QED
  BY <1>2 DEF IInv, Result

\* Every entity with a row of values is in exactly one slice of the pie.
THEOREM InOneSlice == Spec => []PiePartition
<1>1. IInv => PiePartition
  <2> SUFFICES ASSUME IInv, Built, NEW k \in DOMAIN datasets
               PROVE  Cardinality({c \in DOMAIN chart.pie : k \in chart.pie[c]}) =
                        IF datasets[k].values = <<>> THEN 0 ELSE 1
    BY DEF PiePartition
  <2> DEFINE In == {c \in DOMAIN chart.pie : k \in chart.pie[c]}
  <2>1. Rows(datasets) /\ reverse \in BOOLEAN /\ chart.pie = Pie(datasets, reverse)
    BY State
  <2>2. DOMAIN chart.pie = Slices
    BY <2>1 DEF Pie, Slices
  <2>3. In = {c \in Slices : /\ datasets[k].values # <<>>
                             /\ c = Slice(datasets[k].values, reverse)}
    BY <2>1, <2>2, PieIs
  <2>4. Slice(datasets[k].values, reverse) \in Slices
    BY <2>1, SliceMirrored DEF Rows
  <2>5. CASE datasets[k].values = <<>>
    BY <2>3, <2>5, FS_EmptySet
  <2>6. CASE datasets[k].values # <<>>
    <3>1. In = {Slice(datasets[k].values, reverse)}
      BY <2>3, <2>4, <2>6
    <3> QED
      BY <2>6, <3>1, FS_Singleton
  <2> QED
    BY <2>5, <2>6
<1> QED
  BY <1>1, Invariant, PTL

\* Read backwards, what grew has fallen and what fell has grown.
THEOREM Mirrored == Spec => []PieMirrored
<1>1. IInv => PieMirrored
  <2> SUFFICES ASSUME IInv, Built
               PROVE  LET back == Pie(Backwards(datasets), reverse)
                      IN /\ back["growth"] = chart.pie["fall"]
                         /\ back["no_change"] = chart.pie["no_change"]
    BY DEF PieMirrored
  <2> DEFINE B == Backwards(datasets)
  <2>1. Rows(datasets) /\ reverse \in BOOLEAN /\ chart.pie = Pie(datasets, reverse)
    BY State
  <2>2. /\ DOMAIN B = DOMAIN datasets
        /\ \A k \in DOMAIN datasets : B[k].values = Reverse(datasets[k].values)
    <3>1. PICK n \in 0 .. MaxPoints :
                 datasets \in BoundedSeq(Dataset(n), MaxDatasets)
      BY DEF IInv
    <3>2. \A k \in DOMAIN datasets :
            datasets[k] \in [dates : {Grid(n)}, values : Seq(Optional)]
      BY <3>1, Input
    <3> QED
      BY <3>2 DEF Backwards
  <2> HIDE DEF B
  <2>3. ASSUME NEW k \in DOMAIN datasets
        PROVE  /\ B[k].values \in Seq(Optional)
               /\ B[k].values = <<>> <=> datasets[k].values = <<>>
               /\ Slice(B[k].values, reverse) = "growth" <=>
                    Slice(datasets[k].values, reverse) = "fall"
               /\ Slice(B[k].values, reverse) = "no_change" <=>
                    Slice(datasets[k].values, reverse) = "no_change"
    BY <2>1, <2>2, RowBackwards, SliceMirrored DEF Rows
  <2>4. Rows(B)
    BY <2>2, <2>3 DEF Rows
  <2>5. "growth" \in Slices /\ "no_change" \in Slices /\ "fall" \in Slices
    BY DEF Slices
  <2>6. /\ Pie(B, reverse)["growth"] = Pie(datasets, reverse)["fall"]
        /\ Pie(B, reverse)["no_change"] = Pie(datasets, reverse)["no_change"]
    <3>1. \A c \in Slices :
            /\ Pie(B, reverse)[c] =
                 {k \in DOMAIN B : /\ B[k].values # <<>>
                                   /\ c = Slice(B[k].values, reverse)}
            /\ Pie(datasets, reverse)[c] =
                 {k \in DOMAIN datasets :
                    /\ datasets[k].values # <<>>
                    /\ c = Slice(datasets[k].values, reverse)}
      BY <2>1, <2>4, PieIs
    <3>2. {k \in DOMAIN B : /\ B[k].values # <<>>
                            /\ "growth" = Slice(B[k].values, reverse)}
            = {k \in DOMAIN datasets :
                 /\ datasets[k].values # <<>>
                 /\ "fall" = Slice(datasets[k].values, reverse)}
      BY <2>2, <2>3
    <3>3. {k \in DOMAIN B : /\ B[k].values # <<>>
                            /\ "no_change" = Slice(B[k].values, reverse)}
            = {k \in DOMAIN datasets :
                 /\ datasets[k].values # <<>>
                 /\ "no_change" = Slice(datasets[k].values, reverse)}
      BY <2>2, <2>3
    <3> QED
      BY <2>5, <3>1, <3>2, <3>3
  <2> QED
    BY <2>1, <2>6 DEF B
<1> QED
  BY <1>1, Invariant, PTL

-----------------------------------------------------------------------------
(***************************************************************************)
(* The line                                                                *)
(***************************************************************************)
\* The library's fold over a function's domain is the sum over the whole of it.
LEMMA SumIs ==
  ASSUME NEW f
  PROVE  Sum(f) = SumOver(f, DOMAIN f)
  BY Zenon DEF Sum, FoldFunction, FoldFunctionOnSet, MapThenFoldSet, SumOver,
               Sums, Some

\* The datasets of an item, on a grid of n dates.
Inputs(D, n) ==
  n \in 0 .. MaxPoints /\ D \in BoundedSeq(Dataset(n), MaxDatasets) /\ D # <<>>

\* The line has a point per date of the grid, with what the entities' values at
\* that date amount to.
LEMMA SeriesIs ==
  ASSUME NEW n, NEW D, Inputs(D, n), NEW a
  PROVE  /\ DOMAIN MetricSeries(D, a) = 1 .. n
         /\ \A i \in 1 .. n :
              /\ MetricSeries(D, a)[i].x = i
              /\ MetricSeries(D, a)[i].y = AggregateAt(D, i, a)
              /\ MetricSeries(D, a)[i].missing <=> AggregateAt(D, i, a) = Null
<1>1. /\ D \in Seq(Dataset(n)) /\ n \in Nat
      /\ \A k \in DOMAIN D : D[k] \in [dates : {Grid(n)}, values : Seq(Optional)]
  BY Input DEF Inputs
<1>2. 1 \in DOMAIN D
  <2>1. Len(D) \in Nat /\ Len(D) # 0 /\ DOMAIN D = 1 .. Len(D)
    BY <1>1, EmptySeq, LenProperties DEF Inputs
  <2> QED
    BY <2>1
<1>3. D[1].dates = [i \in 1 .. n |-> i]
  BY <1>1, <1>2 DEF Grid
<1>4. Len(D[1].dates) = n /\ \A i \in 1 .. n : D[1].dates[i] = i
  BY <1>1, <1>3
<1> DEFINE values == [i \in 1 .. n |-> AggregateAt(D, i, a)]
<1>5. AggregateDatasets(D, a) = values
  BY <1>4 DEF AggregateDatasets
<1>6. Len(values) = n
  BY <1>1
<1>7. Min({n, n}) = n
  BY <1>1 DEF Min
<1> DEFINE series == [i \in 1 .. n |-> [x |-> D[1].dates[i], y |-> values[i],
                                        missing |-> values[i] = Null]]
<1>8. MetricSeries(D, a) = series
  BY <1>4, <1>5, <1>6, <1>7, Zenon DEF MetricSeries
<1>9. /\ DOMAIN series = 1 .. n
      /\ \A i \in 1 .. n : /\ series[i].x = D[1].dates[i]
                           /\ series[i].y = AggregateAt(D, i, a)
  OBVIOUS
<1>10. \A i \in 1 .. n : series[i].missing <=> AggregateAt(D, i, a) = Null
  OBVIOUS
<1> HIDE DEF series
<1> QED
  BY <1>4, <1>8, <1>9, <1>10

\* At a date, finitely many entities have a value, each a natural number.
LEMMA ValuesAtAre ==
  ASSUME NEW n, NEW D, Inputs(D, n), NEW i \in 1 .. n
  PROVE  LET f == ValuesAt(D, i)
         IN IsFiniteSet(DOMAIN f) /\ \A k \in DOMAIN f : f[k] \in Nat
<1>1. /\ D \in Seq(Dataset(n)) /\ n \in Nat
      /\ \A k \in DOMAIN D : D[k] \in [dates : {Grid(n)}, values : Seq(Optional)]
  BY Input DEF Inputs
<1>2. IsFiniteSet(DOMAIN D)
  <2>1. Len(D) \in Nat /\ DOMAIN D = 1 .. Len(D) /\ 1 \in Int /\ Len(D) \in Int
    BY <1>1, LenProperties
  <2> QED
    BY <2>1, FS_Interval
<1> DEFINE S == {k \in DOMAIN D : i <= Len(D[k].values) /\ D[k].values[i] # Null}
<1>3. IsFiniteSet(S)
  BY <1>2, FS_Subset
<1>4. ASSUME NEW k \in S PROVE The(D[k].values[i]) \in Nat
  <2>1. D[k].values \in Seq(Optional) /\ i \in 1 .. Len(D[k].values)
        /\ D[k].values[i] # Null
    BY <1>1
  <2>2. D[k].values[i] \in Optional
    BY <2>1, ElementOfSeq
  <2>3. PICK x \in Nat : D[k].values[i] = {x}
    BY <2>1, <2>2 DEF Optional
  <2> QED
    BY <2>3 DEF The
<1>5. ValuesAt(D, i) = [k \in S |-> The(D[k].values[i])]
  BY DEF ValuesAt
<1> HIDE DEF S
<1> QED
  BY <1>3, <1>4, <1>5

\* What the entities' values at a date amount to: nothing if there are none, else
\* a fraction that is not below the smallest, nor above the largest if it is not
\* their sum.
LEMMA Aggregate ==
  ASSUME NEW n, NEW D, Inputs(D, n), NEW i \in 1 .. n, NEW a
  PROVE  LET y == AggregateAt(D, i, a)
         IN /\ y = Null <=> DOMAIN ValuesAt(D, i) = {}
            /\ y # Null => /\ Below(The(AggregateAt(D, i, "min")), The(y))
                           /\ a # "total" =>
                                Below(The(y), The(AggregateAt(D, i, "max")))
<1> DEFINE f == ValuesAt(D, i)
           V == {f[k] : k \in DOMAIN f}
           fraction(b) == CASE b = "total" -> [num |-> Sum(f), den |-> 1]
                            [] b = "max"   -> [num |-> Max(V), den |-> 1]
                            [] b = "min"   -> [num |-> Min(V), den |-> 1]
                            [] OTHER -> [num |-> Sum(f), den |-> Cardinality(DOMAIN f)]
<1>1. IsFiniteSet(DOMAIN f) /\ \A k \in DOMAIN f : f[k] \in Nat
  BY ValuesAtAre
<1>2. \A b : AggregateAt(D, i, b) = IF V = {} THEN Null ELSE {fraction(b)}
  BY DEF AggregateAt
<1>3. V = {} <=> DOMAIN f = {}
  OBVIOUS
<1>4. CASE DOMAIN f = {}
  BY <1>2, <1>3, <1>4
<1>5. CASE DOMAIN f # {}
  <2> DEFINE lo == Min(V)
             hi == Max(V)
             s == Sum(f)
             c == Cardinality(DOMAIN f)
  <2> HIDE DEF f
  <2>1. /\ s \in Nat /\ \A k \in DOMAIN f : f[k] <= s
    BY <1>1, SumIs, SumAtLeast
  <2>2. /\ lo \in V /\ \A v \in V : lo <= v
        /\ hi \in V /\ \A v \in V : hi >= v
    <3>1. V \in SUBSET Nat /\ V \in SUBSET (0 .. s) /\ V # {}
      BY <1>1, <1>5, <2>1
    <3> HIDE DEF V
    <3> QED
      BY <2>1, <3>1, Smallest, Largest
  <2>3. lo \in Nat /\ hi \in Nat /\ \A k \in DOMAIN f : lo <= f[k] /\ f[k] <= hi
    BY <1>1, <2>2
  <2>4. c \in Nat /\ c * lo <= s /\ s <= c * hi
    BY <1>1, <2>3, SumIs, SumBounds, FS_CardinalityType
  <2>5. lo <= s /\ lo <= hi
    BY <1>1, <1>5, <2>1, <2>3
  <2>6. /\ lo * 1 <= s * 1 /\ lo * 1 <= hi * 1 /\ lo * 1 <= lo * 1
        /\ hi * 1 <= hi * 1 /\ lo * c <= s * 1 /\ s * 1 <= hi * c
    BY <2>1, <2>3, <2>4, <2>5
  <2>7. fraction("min") = [num |-> lo, den |-> 1] /\ fraction("max") = [num |-> hi, den |-> 1]
    OBVIOUS
  <2>8. \/ a = "total" /\ fraction(a) = [num |-> s, den |-> 1]
        \/ a = "max" /\ fraction(a) = [num |-> hi, den |-> 1]
        \/ a = "min" /\ fraction(a) = [num |-> lo, den |-> 1]
        \/ a # "total" /\ fraction(a) = [num |-> s, den |-> c]
    OBVIOUS
  <2> HIDE DEF lo, hi, s, c, V, fraction
  <2>9. /\ Below(fraction("min"), fraction(a))
        /\ a # "total" => Below(fraction(a), fraction("max"))
    BY <2>6, <2>7, <2>8 DEF Below
  <2>10. \A b : AggregateAt(D, i, b) # Null /\ The(AggregateAt(D, i, b)) = fraction(b)
    <3>1. \A v : {v} # Null /\ The({v}) = v
      BY DEF The, Null
    <3>2. \A b : AggregateAt(D, i, b) = {fraction(b)}
      BY <1>2, <1>3, <1>5
    <3> QED
      BY <3>1, <3>2
  <2> QED
    BY <1>5, <2>9, <2>10 DEF f
<1> QED
  BY <1>4, <1>5

\* A chart's line follows its data, for every number of entities and of dates:
\* it stays between the smallest and the largest entity (a total only above the
\* smallest), its gaps are where no entity has a value, and no value is off it.
THEOREM LineFollows == Spec => []LineFollowsData
<1>1. IInv => LineFollowsData
  <2> SUFFICES ASSUME IInv, Built PROVE LineFollowsData
    BY DEF LineFollowsData
  <2> DEFINE a == SummaryAggregation(rules)
  <2>1. PICK n \in 0 .. MaxPoints : datasets \in BoundedSeq(Dataset(n), MaxDatasets)
    BY DEF IInv
  <2>2. Inputs(datasets, n)
    BY <2>1 DEF Inputs, IInv
  <2>3. chart.series = MetricSeries(datasets, a)
    BY DEF IInv, Result
  <2> HIDE DEF a
  <2>4. /\ DOMAIN chart.series = 1 .. n
        /\ \A i \in 1 .. n :
             /\ chart.series[i].x = i
             /\ chart.series[i].y = AggregateAt(datasets, i, a)
             /\ chart.series[i].missing <=> AggregateAt(datasets, i, a) = Null
    BY <2>2, <2>3, SeriesIs
  <2>5. ASSUME NEW i \in DOMAIN chart.series
        PROVE  LET y == chart.series[i].y
                   lowest == AggregateAt(datasets, i, "min")
                   highest == AggregateAt(datasets, i, "max")
               IN /\ chart.series[i].missing <=> DOMAIN ValuesAt(datasets, i) = {}
                  /\ y # Null => /\ Below(The(lowest), The(y))
                                 /\ a # "total" => Below(The(y), The(highest))
    BY <2>2, <2>4, Aggregate
  <2>6. ASSUME NEW k \in DOMAIN datasets, NEW i \in DOMAIN datasets[k].values,
               datasets[k].values[i] # Null
        PROVE  \E m \in DOMAIN chart.series :
                 /\ chart.series[m].x = datasets[k].dates[i]
                 /\ ~chart.series[m].missing
    <3>1. /\ datasets[k] \in [dates : {Grid(n)}, values : Seq(Optional)]
          /\ Len(datasets[k].values) <= n /\ n \in Nat
      BY <2>1, Input
    <3>2. i \in 1 .. n /\ i <= Len(datasets[k].values)
      BY <3>1, LenProperties
    <3>3. datasets[k].dates[i] = i
      BY <3>1, <3>2 DEF Grid
    <3>4. k \in DOMAIN ValuesAt(datasets, i)
      BY <2>6, <3>2 DEF ValuesAt
    <3>5. ~chart.series[i].missing
      BY <2>2, <2>4, <3>2, <3>4, Aggregate
    <3> QED
      BY <2>4, <3>2, <3>3, <3>5
  <2> HIDE DEF IInv
  <2>7. /\ \A i \in DOMAIN chart.series :
              LET y == chart.series[i].y
                  lowest == AggregateAt(datasets, i, "min")
                  highest == AggregateAt(datasets, i, "max")
              IN /\ chart.series[i].missing <=> DOMAIN ValuesAt(datasets, i) = {}
                 /\ y # Null => /\ Below(The(lowest), The(y))
                                /\ a # "total" => Below(The(y), The(highest))
        /\ \A k \in DOMAIN datasets : \A i \in DOMAIN datasets[k].values :
             datasets[k].values[i] # Null =>
               \E m \in DOMAIN chart.series :
                 /\ chart.series[m].x = datasets[k].dates[i]
                 /\ ~chart.series[m].missing
    BY <2>5, <2>6, Zenon
  <2> QED
    BY <2>7, Zenon DEF LineFollowsData, a
<1> QED
  BY <1>1, Invariant, PTL

-----------------------------------------------------------------------------
(***************************************************************************)
(* The positions                                                           *)
(***************************************************************************)
InBuckets(f, n) == {k \in DOMAIN f : InBucket(f[k], n)}

\* The buckets, written out.
LEMMA BucketsAre ==
  ASSUME NEW v \in Nat
  PROVE  /\ InBucket(v, 1) <=> v >= 2 /\ v <= 6
         /\ InBucket(v, 2) <=> v >= 2 /\ v <= 20
         /\ InBucket(v, 3) <=> v >= 22 /\ v <= 60
         /\ InBucket(v, 4) <=> v >= 62 /\ v <= 100
         /\ InBucket(v, 5) <=> v >= 102 /\ v <= 200
         /\ InBucket(v, 6) <=> v >= 202
<1>1. /\ Buckets[1] = <<2, 6>> /\ Buckets[2] = <<2, 20>>
      /\ Buckets[3] = <<22, 60>> /\ Buckets[4] = <<62, 100>>
      /\ Buckets[5] = <<102, 200>> /\ Buckets[6] = <<202>>
  BY DEF Buckets
<1>2. \A x, y : Len(<<x, y>>) = 2 /\ <<x, y>>[1] = x /\ <<x, y>>[2] = y
  OBVIOUS
<1>3. Len(<<202>>) # 2 /\ <<202>>[1] = 202
  OBVIOUS
<1> QED
  BY <1>1, <1>2, <1>3 DEF InBucket

\* A whole position is in just one of the buckets 2 to 6.
LEMMA OneBucket ==
  ASSUME NEW v \in Nat, v % 2 = 0, v >= 2
  PROVE  /\ (InBucket(v, 2) \/ InBucket(v, 3) \/ InBucket(v, 4)
              \/ InBucket(v, 5) \/ InBucket(v, 6))
         /\ InBucket(v, 2) => /\ ~InBucket(v, 3) /\ ~InBucket(v, 4)
                              /\ ~InBucket(v, 5) /\ ~InBucket(v, 6)
         /\ InBucket(v, 3) => ~InBucket(v, 4) /\ ~InBucket(v, 5) /\ ~InBucket(v, 6)
         /\ InBucket(v, 4) => ~InBucket(v, 5) /\ ~InBucket(v, 6)
         /\ InBucket(v, 5) => ~InBucket(v, 6)
<1>1. v # 21 /\ v # 61 /\ v # 101 /\ v # 201
  OBVIOUS
<1>2. \/ v <= 20
      \/ v >= 22 /\ v <= 60
      \/ v >= 62 /\ v <= 100
      \/ v >= 102 /\ v <= 200
      \/ v >= 202
  BY <1>1
<1> QED
  BY <1>2, BucketsAre

\* Disjoint finite sets have as many elements together as one by one.
LEMMA Disjoint ==
  ASSUME NEW S, NEW T, IsFiniteSet(S), IsFiniteSet(T), S \cap T = {}
  PROVE  /\ IsFiniteSet(S \cup T)
         /\ Cardinality(S \cup T) = Cardinality(S) + Cardinality(T)
  BY FS_Union, FS_EmptySet, FS_CardinalityType

\* Whole positions are counted once each, and the top three among the top ten.
LEMMA CountsAre ==
  ASSUME NEW f, IsFiniteSet(DOMAIN f), \A k \in DOMAIN f : f[k] \in Nat
  PROVE  /\ \A n : Count(f, n) \in Nat
         /\ Count(f, 1) <= Count(f, 2)
         /\ Ranked(f) => Count(f, 2) + Count(f, 3) + Count(f, 4) + Count(f, 5)
                           + Count(f, 6) = Cardinality(DOMAIN f)
<1>1. \A n : /\ IsFiniteSet(InBuckets(f, n))
             /\ Count(f, n) = Cardinality(InBuckets(f, n))
             /\ Count(f, n) \in Nat
  <2> TAKE n
  <2>1. InBuckets(f, n) \in SUBSET DOMAIN f
    BY DEF InBuckets
  <2> QED
    BY <2>1, FS_Subset, FS_CardinalityType DEF Count, InBuckets
<1>2. Count(f, 1) <= Count(f, 2)
  <2>1. InBuckets(f, 1) \in SUBSET InBuckets(f, 2)
    BY BucketsAre DEF InBuckets
  <2> QED
    BY <1>1, <2>1, FS_Subset
<1>3. ASSUME Ranked(f)
      PROVE  Count(f, 2) + Count(f, 3) + Count(f, 4) + Count(f, 5) + Count(f, 6)
               = Cardinality(DOMAIN f)
  <2> DEFINE b2 == InBuckets(f, 2)
             b3 == InBuckets(f, 3)
             b4 == InBuckets(f, 4)
             b5 == InBuckets(f, 5)
             b6 == InBuckets(f, 6)
  <2>1. \A k \in DOMAIN f : f[k] \in Nat /\ f[k] % 2 = 0 /\ f[k] >= 2
    BY <1>3 DEF Ranked
  <2>2. /\ DOMAIN f = (((b2 \cup b3) \cup b4) \cup b5) \cup b6
        /\ b2 \cap b3 = {} /\ (b2 \cup b3) \cap b4 = {}
        /\ ((b2 \cup b3) \cup b4) \cap b5 = {}
        /\ (((b2 \cup b3) \cup b4) \cup b5) \cap b6 = {}
    BY <2>1, OneBucket DEF InBuckets
  <2>3. /\ IsFiniteSet(b2) /\ IsFiniteSet(b3) /\ IsFiniteSet(b4)
        /\ IsFiniteSet(b5) /\ IsFiniteSet(b6)
        /\ Cardinality(b2) = Count(f, 2) /\ Cardinality(b3) = Count(f, 3)
        /\ Cardinality(b4) = Count(f, 4) /\ Cardinality(b5) = Count(f, 5)
        /\ Cardinality(b6) = Count(f, 6)
    BY <1>1
  <2> HIDE DEF b2, b3, b4, b5, b6
  <2>4. /\ IsFiniteSet(b2 \cup b3)
        /\ Cardinality(b2 \cup b3) = Count(f, 2) + Count(f, 3)
    BY <2>2, <2>3, Disjoint
  <2>5. /\ IsFiniteSet((b2 \cup b3) \cup b4)
        /\ Cardinality((b2 \cup b3) \cup b4)
             = Count(f, 2) + Count(f, 3) + Count(f, 4)
    BY <2>2, <2>3, <2>4, Disjoint
  <2>6. /\ IsFiniteSet(((b2 \cup b3) \cup b4) \cup b5)
        /\ Cardinality(((b2 \cup b3) \cup b4) \cup b5)
             = Count(f, 2) + Count(f, 3) + Count(f, 4) + Count(f, 5)
    BY <2>2, <2>3, <2>5, Disjoint
  <2>7. Cardinality((((b2 \cup b3) \cup b4) \cup b5) \cup b6)
          = Count(f, 2) + Count(f, 3) + Count(f, 4) + Count(f, 5) + Count(f, 6)
    BY <2>2, <2>3, <2>6, Disjoint
  <2> QED
    BY <2>2, <2>7
<1> QED
  BY <1>1, <1>2, <1>3

\* The same finitely many entities have a position at either end of the period.
LEMMA StartsAndEnds ==
  ASSUME NEW D, Rows(D), IsFiniteSet(DOMAIN D)
  PROVE  /\ DOMAIN Starts(D) = DOMAIN Ends(D) /\ IsFiniteSet(DOMAIN Ends(D))
         /\ \A k \in DOMAIN Ends(D) : Starts(D)[k] \in Nat /\ Ends(D)[k] \in Nat
<1> DEFINE S == {k \in DOMAIN D : Known(D[k].values) # {}}
<1>1. \A k \in DOMAIN D :
        /\ FirstValue(D[k].values) # Null <=> Known(D[k].values) # {}
        /\ LastValue(D[k].values) # Null <=> Known(D[k].values) # {}
  BY EndsOfRow DEF Rows
<1>2. \A k \in S : /\ The(FirstValue(D[k].values)) \in Nat
                   /\ The(LastValue(D[k].values)) \in Nat
  BY EndsOfRow DEF Rows
<1>3. /\ Starts(D) = [k \in S |-> The(FirstValue(D[k].values))]
      /\ Ends(D) = [k \in S |-> The(LastValue(D[k].values))]
  <2>1. {k \in DOMAIN D : FirstValue(D[k].values) # Null} = S
    BY <1>1
  <2>2. {k \in DOMAIN D : LastValue(D[k].values) # Null} = S
    BY <1>1
  <2> HIDE DEF S
  <2> QED
    BY <2>1, <2>2 DEF Starts, Ends
<1>4. IsFiniteSet(S)
  BY FS_Subset
<1> HIDE DEF S
<1> QED
  BY <1>2, <1>3, <1>4

\* Entities at whole positions, at both ends of the period, are each in one of
\* the five buckets: the shares add up, what one bucket loses another gains, and
\* the top three are among the top ten, however many entities there are.
THEOREM PositionsPartitioned == Spec => []PositionsPartition
<1>1. IInv => PositionsPartition
  <2> DEFINE S == Starts(datasets)
             E == Ends(datasets)
             B == chart.positions.buckets
  <2> SUFFICES ASSUME IInv, Built, Ranked(S), Ranked(E), DOMAIN E # {}
               PROVE  /\ Sum([n \in 2 .. 6 |-> B[n].count]) = chart.positions.total
                      /\ Sum([n \in 2 .. 6 |-> B[n].delta]) = 0
                      /\ B[1].count <= B[2].count
    BY Zenon DEF PositionsPartition
  <2>1. Rows(datasets) /\ chart.positions = PositionDistribution(datasets)
    BY State DEF IInv, Result
  <2>2. IsFiniteSet(DOMAIN datasets)
    <3>1. PICK n \in 0 .. MaxPoints :
                 datasets \in BoundedSeq(Dataset(n), MaxDatasets)
      BY DEF IInv
    <3>2. datasets \in Seq(Dataset(n))
      BY <3>1, Input
    <3>3. Len(datasets) \in Int /\ 1 \in Int /\ DOMAIN datasets = 1 .. Len(datasets)
      BY <3>2, LenProperties
    <3> QED
      BY <3>3, FS_Interval
  <2>3. /\ DOMAIN S = DOMAIN E /\ IsFiniteSet(DOMAIN E)
        /\ \A k \in DOMAIN E : S[k] \in Nat /\ E[k] \in Nat
    BY <2>1, <2>2, StartsAndEnds
  <2>4. /\ chart.positions.total = Max({1, Cardinality(DOMAIN E)})
        /\ \A n \in 1 .. 6 : /\ B[n].count = Count(E, n)
                             /\ B[n].delta = Count(E, n) - Count(S, n)
    <3>1. DOMAIN Buckets = 1 .. 6
      BY DEF Buckets
    <3> QED
      BY <2>1, <3>1 DEF PositionDistribution
  <2> DEFINE c == [n \in 2 .. 6 |-> B[n].count]
             d == [n \in 2 .. 6 |-> B[n].delta]
             t == chart.positions.total
  <2> HIDE DEF S, E, B
  <2>5. /\ \A n : Count(E, n) \in Nat /\ Count(S, n) \in Nat
        /\ Count(E, 1) <= Count(E, 2)
        /\ Count(E, 2) + Count(E, 3) + Count(E, 4) + Count(E, 5) + Count(E, 6)
             = Cardinality(DOMAIN E)
        /\ Count(S, 2) + Count(S, 3) + Count(S, 4) + Count(S, 5) + Count(S, 6)
             = Cardinality(DOMAIN E)
    BY <2>3, CountsAre
  <2>6. t = Cardinality(DOMAIN E)
    <3>1. Cardinality(DOMAIN E) \in Nat /\ Cardinality(DOMAIN E) # 0
      BY <2>3, FS_CardinalityType, FS_EmptySet
    <3>2. Max({1, Cardinality(DOMAIN E)}) = Cardinality(DOMAIN E)
      <4>1. {1, Cardinality(DOMAIN E)} \in SUBSET Nat
        BY <3>1
      <4>2. \A l \in {1, Cardinality(DOMAIN E)} : Cardinality(DOMAIN E) >= l
        BY <3>1
      <4> QED
        BY <4>1, <4>2, Unique
    <3> QED
      BY <2>4, <3>2
  <2>7. Sum(c) = Cardinality(DOMAIN E)
    <3>1. /\ DOMAIN c = 2 .. 6 /\ \A n \in 2 .. 6 : c[n] = Count(E, n)
      BY <2>4
    <3> HIDE DEF c
    <3>2. Sum(c) = c[2] + c[3] + c[4] + c[5] + c[6]
      BY <2>5, <3>1, SumIs, SumOfFive
    <3> QED
      BY <2>5, <3>1, <3>2
  <2>8. Sum(d) = 0
    <3>1. /\ DOMAIN d = 2 .. 6
          /\ \A n \in 2 .. 6 : d[n] = Count(E, n) - Count(S, n)
      BY <2>4
    <3> HIDE DEF d
    <3>2. \A n \in 2 .. 6 : d[n] \in Int
      BY <2>5, <3>1
    <3>3. Sum(d) = d[2] + d[3] + d[4] + d[5] + d[6]
      BY <3>1, <3>2, SumIs, SumOfFive
    <3>4. Sum(d) = (Count(E, 2) - Count(S, 2)) + (Count(E, 3) - Count(S, 3))
                     + (Count(E, 4) - Count(S, 4)) + (Count(E, 5) - Count(S, 5))
                     + (Count(E, 6) - Count(S, 6))
      BY <3>1, <3>3
    <3> QED
      BY <2>5, <3>4
  <2>9. B[1].count <= B[2].count
    BY <2>4, <2>5
  <2> QED
    BY <2>6, <2>7, <2>8, <2>9 DEF B
<1> QED
  BY <1>1, Invariant, PTL
=============================================================================
