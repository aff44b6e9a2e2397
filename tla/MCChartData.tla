----------------------------- MODULE MCChartData -----------------------------
(***************************************************************************)
(* ChartData.cfg: two entities, three dates with few values, nulls in      *)
(* every place; two dates with the values at the edges of the position     *)
(* buckets.  ChartHistogram.cfg: whole values from 0 to 7.                 *)
(***************************************************************************)
EXTENDS ChartData

SomeValues == [n \in 0 .. MaxPoints |->
                 IF n = 3 THEN {0, 2, 5}
                 ELSE {0, 2, 6, 8, 20, 22, 60, 102, 200, 202}]
WholeValues == [n \in 0 .. MaxPoints |-> {2 * v : v \in 0 .. 7}]

SomeRules == {[project |-> "total", query |-> "average"],
              [page |-> "use_cluster", cluster |-> "max", query |-> "min"],
              [query |-> "single_value"]}
OneRule   == {[query |-> "average"]}
=============================================================================
