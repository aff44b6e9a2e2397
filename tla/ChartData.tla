------------------------------ MODULE ChartData ------------------------------
(***************************************************************************)
(* What one item of a build makes of its datasets, one per entity, between *)
(* two calls (strategy.py:78-107): DataProcessor, MetricSeriesBuilder and  *)
(* the visualization builders, as operators over bounded inputs.           *)
(*                                                                         *)
(* Numbers: a value is a natural number of halves, so that positions and   *)
(* values between them occur; a null is the empty set and a value v the    *)
(* set {v}; averages are fractions, their rounding to four decimals is     *)
(* left out.  The bounds of a histogram are binary64 floats.  The deltas   *)
(* that DataProcessor computes first are left out too: every series is     *)
(* built from an aggregated dataset, which has none.                       *)
(* External: the statistics service sends all datasets on one date grid    *)
(* (data_processor.py:37-38).                                              *)
(***************************************************************************)
EXTENDS Binary64, FiniteSets, SequencesExt, FiniteSetsExt

CONSTANTS MaxPoints,      \* bound: dates of the grid
          Value,          \* bound: n -> values tried on a grid of n dates
          MaxDatasets,    \* bound: entities
          Rules,          \* MetricField.aggregation: entity type -> function
          BucketCount     \* bucket_count of the histogram

ASSUME ChartAssumption ==
  /\ MaxPoints \in Nat /\ MaxDatasets \in Nat
  /\ DOMAIN Value = 0 .. MaxPoints
  /\ \A n \in 0 .. MaxPoints : Value[n] \subseteq Nat
  /\ BucketCount \in Nat \ {0}

VARIABLES datasets, reverse, rules,   \* the input; reverse is reverse_trend
          chart                       \* the result

vars == <<datasets, reverse, rules, chart>>

Null  == {}
The(o) == CHOOSE v \in o : TRUE
Point(n) == {Null} \cup {{v} : v \in Value[n]}

Grid(n) == [i \in 1 .. n |-> i]
Dataset(n) == [dates : {Grid(n)}, values : BoundedSeq(Point(n), n)]

Sum(f) == FoldFunction(+, 0, f)

-----------------------------------------------------------------------------
(***************************************************************************)
(* data_processor.py                                                       *)
(***************************************************************************)
\* The values of all entities at index i of the grid, as entity -> value.
ValuesAt(D, i) ==
  [k \in {k \in DOMAIN D : i <= Len(D[k].values) /\ D[k].values[i] # Null} |->
     The(D[k].values[i])]

\* Mutant: the average is taken over all entities, with or without a value.
AggregateAtAll(D, i, agg) ==
  LET vals == ValuesAt(D, i)
      ofAll == {vals[k] : k \in DOMAIN vals}
  IN IF ofAll = {} THEN Null
     ELSE {CASE agg = "total" -> [num |-> Sum(vals), den |-> 1]
             [] agg = "max"   -> [num |-> Max(ofAll), den |-> 1]
             [] agg = "min"   -> [num |-> Min(ofAll), den |-> 1]
             [] OTHER -> [num |-> Sum(vals), den |-> Len(D)]}

AggregateAt(D, i, agg) ==
  LET vals == ValuesAt(D, i)
      ofAll == {vals[k] : k \in DOMAIN vals}
  IN IF ofAll = {} THEN Null
     ELSE {CASE agg = "total" -> [num |-> Sum(vals), den |-> 1]
             [] agg = "max"   -> [num |-> Max(ofAll), den |-> 1]
             [] agg = "min"   -> [num |-> Min(ofAll), den |-> 1]
             [] OTHER -> [num |-> Sum(vals), den |-> Cardinality(DOMAIN vals)]}

AggregateDatasets(D, agg) ==
  [i \in 1 .. Len(D[1].dates) |-> AggregateAt(D, i, agg)]

\* MetricsStrategy._resolve_summary_aggregation
RealAggs == {"total", "average", "max", "min"}

SummaryAggregation(r) ==
  LET real(e) == e \in DOMAIN r /\ r[e] \in RealAggs
      found == SelectSeq(<<"project", "page", "cluster", "query">>, real)
  IN IF found = <<>> THEN "average" ELSE r[Head(found)]

-----------------------------------------------------------------------------
(***************************************************************************)
(* series_builder.py                                                       *)
(***************************************************************************)
MetricSeries(D, agg) ==
  LET values == AggregateDatasets(D, agg)
      dates == D[1].dates
  IN [i \in 1 .. Min({Len(dates), Len(values)}) |->
        [x |-> dates[i], y |-> values[i], missing |-> values[i] = Null]]

-----------------------------------------------------------------------------
(***************************************************************************)
(* visualization_builder.py                                                *)
(***************************************************************************)
\* Where vals, an entity's values in the order of their dates, has one.
Known(vals) == {i \in DOMAIN vals : vals[i] # Null}

FirstValue(vals) == IF Known(vals) = {} THEN Null ELSE vals[Min(Known(vals))]
LastValue(vals)  == IF Known(vals) = {} THEN Null ELSE vals[Max(Known(vals))]

Starts(D) == [k \in {k \in DOMAIN D : FirstValue(D[k].values) # Null} |->
                The(FirstValue(D[k].values))]
Ends(D)   == [k \in {k \in DOMAIN D : LastValue(D[k].values) # Null} |->
                The(LastValue(D[k].values))]

\* Mutant: a position of zero is not told apart.
TrendIgnoresZero(s, e, rev) ==
  LET delta == IF rev THEN s - e ELSE e - s
  IN IF delta > 0 /\ e # 0 THEN "growth" ELSE IF delta < 0 THEN "fall" ELSE "no_change"

\* With reverse_trend a smaller value is better, and zero is no position.
Trend(s, e, rev) ==
  CASE rev /\ s = 0 /\ e = 0 -> "no_change"
    [] rev /\ s = 0 /\ e # 0 -> "growth"
    [] rev /\ s # 0 /\ e = 0 -> "fall"
    [] OTHER -> LET delta == IF rev THEN s - e ELSE e - s
                IN IF delta > 0 THEN "growth"
                   ELSE IF delta < 0 THEN "fall" ELSE "no_change"

\* Mutant: an entity without a value is left out.
PieDropsNulls(D, rev) ==
  [c \in {"growth", "no_change", "fall"} |->
     {k \in DOMAIN Starts(D) : Trend(Starts(D)[k], Ends(D)[k], rev) = c}]

Pie(D, rev) ==
  [c \in {"growth", "no_change", "fall"} |->
     {k \in DOMAIN D :
        /\ D[k].values # <<>>
        /\ c = IF k \notin DOMAIN Starts(D) THEN "no_change"
               ELSE Trend(Starts(D)[k], Ends(D)[k], rev)}]

Histogram(D) ==
  LET last  == Ends(D)
      all   == {last[k] : k \in DOMAIN last}
      step  == Over(Halves(Max(all) - Min(all)), BucketCount)
      lo    == [i \in 0 .. BucketCount - 1 |->
                  Plus(Halves(Min(all)), Times(i, step))]
      hi    == [i \in 0 .. BucketCount - 1 |-> Plus(lo[i], step)]
      In(v, i) == \/ ~Less(v, lo[i]) /\ Less(v, hi[i])
                  \/ i = BucketCount - 1 /\ v = hi[i]
  IN IF all = {} THEN <<>>
     ELSE IF Cardinality(all) = 1 THEN <<Cardinality(DOMAIN last)>>
     ELSE [n \in 1 .. BucketCount |->
             Cardinality({k \in DOMAIN last : In(Halves(last[k]), n - 1)})]

\* BUCKETS, in halves; the upper end of the last one is infinite.
Buckets  == <<<<2, 6>>, <<2, 20>>, <<22, 60>>, <<62, 100>>, <<102, 200>>, <<202>>>>

\* Mutant: the buckets are half open.
InBucketHalfOpen(v, n) ==
  v >= Buckets[n][1] /\ (Len(Buckets[n]) = 2 => v < Buckets[n][2])

InBucket(v, n) == v >= Buckets[n][1] /\ (Len(Buckets[n]) = 2 => v <= Buckets[n][2])

Count(f, n) == Cardinality({k \in DOMAIN f : InBucket(f[k], n)})

PositionDistribution(D) ==
  [total   |-> Max({1, Cardinality(DOMAIN Ends(D))}),
   buckets |-> [n \in DOMAIN Buckets |->
                  [count |-> Count(Ends(D), n),
                   delta |-> Count(Ends(D), n) - Count(Starts(D), n)]]]

-----------------------------------------------------------------------------
NoChart == <<>>

\* Everything the strategy and the builders derive from one item's datasets.
BuildItem ==
  /\ chart = NoChart
  /\ datasets # <<>>
  /\ chart' = [series |-> MetricSeries(datasets, SummaryAggregation(rules)),
               pie |-> Pie(datasets, reverse),
               histogram |-> Histogram(datasets),
               positions |-> PositionDistribution(datasets)]
  /\ UNCHANGED <<datasets, reverse, rules>>

Init ==
  /\ \E n \in 0 .. MaxPoints : datasets \in BoundedSeq(Dataset(n), MaxDatasets)
  /\ reverse \in BOOLEAN
  /\ rules \in Rules
  /\ chart = NoChart

Next == BuildItem
Spec == Init /\ [][Next]_vars

-----------------------------------------------------------------------------
(***************************************************************************)
(* Properties.  Built: the item's data has been processed.                 *)
(***************************************************************************)
Built == chart # NoChart

\* Every entity that has a row of values is in exactly one slice of the pie,
\* one whose values are all null included (visualization_builder.py:45-47).
PiePartition ==
  Built => \A k \in DOMAIN datasets :
    Cardinality({c \in DOMAIN chart.pie : k \in chart.pie[c]}) =
      IF datasets[k].values = <<>> THEN 0 ELSE 1

\* Read backwards, what grew has fallen: also for positions, where smaller is
\* better and zero means not ranked.
Backwards(D) == [k \in DOMAIN D |-> [D[k] EXCEPT !.values = Reverse(@)]]

PieMirrored ==
  Built => LET back == Pie(Backwards(datasets), reverse)
           IN /\ back["growth"] = chart.pie["fall"]
              /\ back["no_change"] = chart.pie["no_change"]

\* The chart's line follows the data: it never leaves the band between the
\* smallest and the largest entity at a date, unless it is their total, it has a
\* gap exactly where no entity has a value, and no value of any entity is off it.
Below(p, q) == p.num * q.den <= q.num * p.den

LineFollowsData ==
  Built =>
    /\ \A i \in DOMAIN chart.series :
         LET y == chart.series[i].y
             lowest == AggregateAt(datasets, i, "min")
             highest == AggregateAt(datasets, i, "max")
         IN /\ chart.series[i].missing <=> DOMAIN ValuesAt(datasets, i) = {}
            /\ y # Null => /\ Below(The(lowest), The(y))
                           /\ SummaryAggregation(rules) # "total" =>
                                Below(The(y), The(highest))
    /\ \A k \in DOMAIN datasets : \A i \in DOMAIN datasets[k].values :
         datasets[k].values[i] # Null =>
           \E n \in DOMAIN chart.series :
             chart.series[n].x = datasets[k].dates[i] /\ ~chart.series[n].missing

\* Entities at whole positions, at both ends of the period, are each in one of
\* the buckets 1-10, 11-30, 31-50, 51-100, 100+, so their shares add up and
\* what one bucket loses another one gains.
Ranked(f) == \A k \in DOMAIN f : f[k] % 2 = 0 /\ f[k] >= 2

PositionsPartition ==
  Built /\ Ranked(Starts(datasets)) /\ Ranked(Ends(datasets))
        /\ DOMAIN Ends(datasets) # {} =>
    LET B == chart.positions.buckets
    IN /\ Sum([n \in 2 .. 6 |-> B[n].count]) = chart.positions.total
       /\ Sum([n \in 2 .. 6 |-> B[n].delta]) = 0
       /\ B[1].count <= B[2].count

\* visualization_builder.py:89: "Builds a histogram of latest values
\* distribution."  Refuted: the largest value may be in no bucket, because the
\* rounded upper bound of the last bucket can be below it.
HistogramCountsAll ==
  Built => Sum(chart.histogram) = Cardinality(DOMAIN Ends(datasets))
=============================================================================
