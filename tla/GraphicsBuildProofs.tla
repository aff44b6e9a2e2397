------------------------ MODULE GraphicsBuildProofs ------------------------
(***************************************************************************)
(* Proofs about GraphicsBuild, for any handlers, metrics, products,        *)
(* entities, length of requested_series and number of changes of the       *)
(* catalogue.  The state of a build is a record; what is proved of one     *)
(* record by one run of its coroutine carries over to all.                 *)
(***************************************************************************)
EXTENDS GraphicsBuild, FoldProofs, SequenceTheorems

Entry == [item : 0 .. MaxItems, epoch : 0 .. MaxEpoch]

Diagram == [item : 0 .. MaxItems, type : STRING]

\* Where d is among the diagrams ds, and where v is among those asked for.
Of(ds, d) == {n \in 1 .. Len(ds) : ds[n] = d}
AskedUpto(c, v, m) == {n \in 1 .. m : c.visuals[n] = v}
Asked(c, v) == AskedUpto(c, v, Len(c.visuals))

\* Diagrams are of items with a series, as many as were asked for, and fit the
\* item's metric.
DiagramsGood(ds, series, c) ==
  /\ ds \in Seq(Diagram)
  /\ \A n \in 1 .. Len(ds) :
       /\ \E m \in 1 .. Len(series) : series[m].item = ds[n].item
       /\ Cardinality(Of(ds, ds[n])) = Cardinality(Asked(c, ds[n].type))
       /\ ds[n].type = "position_distribution" =>
            c.series[ds[n].item] \in PositionMetrics

\* A build has these fields, whatever they hold.
Shape(j) ==
  j \in [pc : {j.pc}, cmd : {j.cmd}, item : {j.item}, cache : {j.cache},
         series : {j.series}, diagrams : {j.diagrams}, reply : {j.reply},
         began : {j.began}, calls : {j.calls}, nodata : {j.nodata}]

Upto(c, i) == {k \in MetricItems(c) : k <= i}

\* The series answer the metric items up to i that had data, in their order.
Answered(j, i) ==
  /\ j.nodata \subseteq Upto(j.cmd, i)
  /\ {j.series[n].item : n \in 1 .. Len(j.series)} = Upto(j.cmd, i) \ j.nodata
  /\ \A n, m \in 1 .. Len(j.series) :
       n < m => j.series[n].item < j.series[m].item

\* The fields are in the resolver's cache, and all series come from there.
Cached(j) ==
  /\ j.cache \in Catalogue /\ j.cache.epoch >= j.began
  /\ \A n \in 1 .. Len(j.series) : j.series[n].epoch = j.cache.epoch

\* What holds of every build at any time, E being the current epoch.
Common(j, E) ==
  /\ Shape(j)
  /\ j.pc \in {"idle", "done"} \cup Awaiting
  /\ j.item \in 0 .. MaxItems
  /\ j.cache \in Catalogue \cup {NoCatalogue}
  /\ j.reply \in {"none"} \cup DOMAIN Status
  /\ j.series \in Seq(Entry)
  /\ DiagramsGood(j.diagrams, j.series, j.cmd)
  /\ j.began \in 0 .. E
  /\ j.calls \in Nat

\* A build between two items: the metric items up to i are dealt with.
Between(j, i, E) ==
  /\ Common(j, E)
  /\ j.cmd \in Command /\ j.reply = "none"
  /\ i \in 0 .. MaxItems /\ Len(j.series) <= i
  /\ Answered(j, i)
  /\ \/ /\ j.cache = NoCatalogue /\ j.series = <<>> /\ j.calls = 0
        /\ Upto(j.cmd, i) = {}
     \/ Cached(j) /\ j.calls <= 1 + Cardinality(Upto(j.cmd, i))

\* A build at a metric item, about to ask for its data or waiting for it.
AtItem(j, E) ==
  /\ Common(j, E)
  /\ j.cmd \in Command
  /\ j.item \in MetricItems(j.cmd)
  /\ Len(j.series) < j.item
  /\ Answered(j, j.item - 1)

\* What a build is like where it stands: the inductive invariant of a job.
JobInv(j, E) ==
  /\ Common(j, E)
  /\ j.cmd \in Command \cup {NoCommand}
  /\ j.pc = "done" <=> j.reply # "none"
  /\ Len(j.series) <= MaxItems
  /\ \A n, m \in 1 .. Len(j.series) : /\ j.series[n].epoch = j.series[m].epoch
                                      /\ j.series[n].epoch >= j.began
  /\ j.calls <= 1 + Cardinality(MetricItems(j.cmd))
  /\ j.pc = "listing" => AtItem(j, E) /\ j.series = <<>> /\ j.calls <= 1
  /\ j.pc = "fetching" => /\ AtItem(j, E) /\ Cached(j)
                          /\ j.calls <= 1 + Cardinality(Upto(j.cmd, j.item))
  /\ j.pc \in {"alerts", "metrics", "reading"} => j.series = <<>>
  /\ j.pc = "alerts" => j.cmd.product = "alerts"
  /\ j.pc \in {"metrics", "reading"} => j.cmd = NoCommand
  /\ OfMetrics(j) => Answered(j, MaxItems)

IInv == /\ catalogue \in Catalogue
        /\ job = [b \in Build |-> job[b]]
        /\ \A b \in Build : JobInv(job[b], catalogue.epoch)

-----------------------------------------------------------------------------
(***************************************************************************)
(* The items of a request                                                  *)
(***************************************************************************)
\* The metric items of a command are finitely many positions of the list.
LEMMA Items ==
  ASSUME NEW c \in Command
  PROVE  /\ MetricItems(c) \subseteq 1 .. MaxItems
         /\ IsFiniteSet(MetricItems(c))
         /\ Cardinality(MetricItems(c)) \in Nat
<1>1. MetricItems(c) \subseteq 1 .. MaxItems
  <2>1. c.series \in BoundedSeq(Code \cup {Skip}, MaxItems)
    BY DEF Command
  <2>2. PICK m \in 0 .. MaxItems : c.series \in [1 .. m -> Code \cup {Skip}]
    BY <2>1 DEF BoundedSeq, SeqOf
  <2> QED
    BY <2>2, BuildAssumption DEF MetricItems
<1>2. IsFiniteSet(1 .. MaxItems)
  BY BuildAssumption, FS_Interval
<1> QED
  BY <1>1, <1>2, FS_Subset, FS_CardinalityType

\* So are those up to a position, and there are no more of them.
LEMMA ItemsUpto ==
  ASSUME NEW c \in Command, NEW i
  PROVE  /\ IsFiniteSet(Upto(c, i))
         /\ Cardinality(Upto(c, i)) \in Nat
         /\ Cardinality(Upto(c, i)) <= Cardinality(MetricItems(c))
<1>1. Upto(c, i) \in SUBSET MetricItems(c)
  BY DEF Upto
<1> QED
  BY <1>1, Items, FS_Subset, FS_CardinalityType

\* The last position has all of them below it.
LEMMA ItemsAll ==
  ASSUME NEW c \in Command
  PROVE  Upto(c, MaxItems) = MetricItems(c)
  BY Items, BuildAssumption DEF Upto

\* The next item adds itself to those up to here.
LEMMA ItemsNext ==
  ASSUME NEW c \in Command, NEW i \in 0 .. MaxItems, NEW k \in MetricItems(c),
         i < k, \A l \in MetricItems(c) : l > i => k <= l
  PROVE  /\ Upto(c, k - 1) = Upto(c, i)
         /\ Upto(c, k) = Upto(c, i) \cup {k}
         /\ Cardinality(Upto(c, k)) = Cardinality(Upto(c, i)) + 1
<1>1. MetricItems(c) \subseteq Nat /\ k \in 1 .. MaxItems /\ i \in Nat
  BY Items, BuildAssumption
<1>2. Upto(c, k - 1) = Upto(c, i) /\ Upto(c, k) = Upto(c, i) \cup {k}
  BY <1>1 DEF Upto
<1>3. k \notin Upto(c, i)
  BY <1>1 DEF Upto
<1> QED
  BY <1>2, <1>3, ItemsUpto, FS_AddElement

-----------------------------------------------------------------------------
(***************************************************************************)
(* One run of the coroutine between two calls                              *)
(***************************************************************************)
\* An answer is "ok" or one of the exceptions, and "none" is none of them.
LEMMA Outcomes ==
  /\ DOMAIN Status = {"ok"} \cup UpstreamError \cup RequestError
  /\ "ok" \in DOMAIN Status /\ "Exception" \in DOMAIN Status
  /\ \A e \in UpstreamError \cup RequestError : e \in DOMAIN Status /\ e # "ok"
  /\ "none" \notin DOMAIN Status
<1>1. DOMAIN Status = {"ok"} \cup UpstreamError \cup RequestError
  BY Zenon DEF Status
<1> QED
  BY <1>1 DEF UpstreamError, RequestError

\* Answering changes where the build stands and its reply.
LEMMA AnswerIs ==
  ASSUME NEW j, NEW r, Shape(j)
  PROVE  LET a == Answer(j, r)
         IN /\ Shape(a) /\ a.pc = "done" /\ a.reply = r
            /\ a.cmd = j.cmd /\ a.item = j.item /\ a.cache = j.cache
            /\ a.series = j.series /\ a.began = j.began /\ a.calls = j.calls
            /\ a.nodata = j.nodata /\ a.diagrams = j.diagrams
<1>1. Answer(j, r) \in [pc : {"done"}, cmd : {j.cmd}, item : {j.item},
                        cache : {j.cache}, series : {j.series},
                        diagrams : {j.diagrams}, reply : {r}, began : {j.began},
                        calls : {j.calls}, nodata : {j.nodata}]
  BY DEF Answer, Shape
<1> QED
  BY <1>1 DEF Shape

\* A request changes where the build stands, and counts one call at most.
LEMMA RequestIs ==
  ASSUME NEW j, NEW p, Shape(j), j.calls \in Nat
  PROVE  LET a == Request(j, p)
         IN /\ Shape(a) /\ a.pc = p /\ a.calls \in Nat /\ a.calls <= j.calls + 1
            /\ a.cmd = j.cmd /\ a.item = j.item /\ a.cache = j.cache
            /\ a.series = j.series /\ a.began = j.began /\ a.reply = j.reply
            /\ a.nodata = j.nodata /\ a.diagrams = j.diagrams
<1> DEFINE n == IF j.calls < CallCap THEN j.calls + 1 ELSE j.calls
<1>1. n \in Nat /\ n <= j.calls + 1
  OBVIOUS
<1>2. Request(j, p) \in [pc : {p}, cmd : {j.cmd}, item : {j.item},
                         cache : {j.cache}, series : {j.series},
                         diagrams : {j.diagrams}, reply : {j.reply},
                         began : {j.began}, calls : {n}, nodata : {j.nodata}]
  BY DEF Request, Shape
<1> HIDE DEF n
<1> QED
  BY <1>1, <1>2 DEF Shape

\* A build that answers is done, with the bounds and the epochs it has.
LEMMA AnswerGood ==
  ASSUME NEW j, NEW E, NEW r \in DOMAIN Status,
         Common(j, E), j.cmd \in Command \cup {NoCommand},
         Len(j.series) <= MaxItems,
         \A n, m \in 1 .. Len(j.series) : /\ j.series[n].epoch = j.series[m].epoch
                                          /\ j.series[n].epoch >= j.began,
         j.calls <= 1 + Cardinality(MetricItems(j.cmd)),
         r = "ok" /\ j.cmd.product \in {"metrics", "projects"}
           => Answered(j, MaxItems)
  PROVE  JobInv(Answer(j, r), E)
<1> DEFINE a == Answer(j, r)
<1>1. /\ Shape(a) /\ a.pc = "done" /\ a.reply = r
      /\ a.cmd = j.cmd /\ a.item = j.item /\ a.cache = j.cache
      /\ a.series = j.series /\ a.began = j.began /\ a.calls = j.calls
      /\ a.nodata = j.nodata /\ a.diagrams = j.diagrams
  BY AnswerIs DEF Common
<1> HIDE DEF a
<1>2. Common(a, E)
  BY <1>1 DEF Common, Status
<1>3. r # "none"
  BY DEF Status, UpstreamError, RequestError
<1>4. OfMetrics(a) => Answered(a, MaxItems)
  BY <1>1 DEF OfMetrics, Answered
<1>5. JobInv(a, E)
  BY <1>1, <1>2, <1>3, <1>4 DEF JobInv
<1> QED
  BY <1>5 DEF a

\* MetricResolver.resolve: the fields are there, and one more call is within the
\* bound.
LEMMA ResolveGood ==
  ASSUME NEW j, NEW E, AtItem(j, E), Cached(j), j.reply = "none",
         j.calls <= Cardinality(Upto(j.cmd, j.item))
  PROVE  JobInv(Resolve(j), E)
<1>1. /\ Common(j, E) /\ Shape(j) /\ j.cmd \in Command
      /\ j.item \in MetricItems(j.cmd) /\ j.item \in 1 .. MaxItems
      /\ Len(j.series) < j.item /\ j.calls \in Nat
      /\ j.series \in Seq(Entry) /\ Len(j.series) \in Nat
  BY Items, LenProperties DEF AtItem, Common
<1>2. /\ Len(j.series) <= MaxItems
      /\ \A n, m \in 1 .. Len(j.series) : /\ j.series[n].epoch = j.series[m].epoch
                                          /\ j.series[n].epoch >= j.began
      /\ j.calls <= 1 + Cardinality(MetricItems(j.cmd))
  <2>1. /\ Cardinality(Upto(j.cmd, j.item)) \in Nat
        /\ Cardinality(MetricItems(j.cmd)) \in Nat
        /\ Cardinality(Upto(j.cmd, j.item)) <= Cardinality(MetricItems(j.cmd))
    BY <1>1, ItemsUpto, Items
  <2>2. Len(j.series) <= MaxItems /\ j.calls <= 1 + Cardinality(MetricItems(j.cmd))
    BY <1>1, <2>1, BuildAssumption
  <2> QED
    BY <2>2 DEF Cached
<1>3. ASSUME NEW r \in RequestError PROVE JobInv(Answer(j, r), E)
  <2>1. r \in DOMAIN Status /\ r # "ok"
    BY <1>3 DEF Status, RequestError
  <2> QED
    BY <1>1, <1>2, <2>1, AnswerGood
<1>4. JobInv(Request(j, "fetching"), E)
  <2> DEFINE a == Request(j, "fetching")
  <2>1. /\ Shape(a) /\ a.pc = "fetching" /\ a.reply = "none"
        /\ a.calls \in Nat /\ a.calls <= j.calls + 1
        /\ a.cmd = j.cmd /\ a.item = j.item /\ a.cache = j.cache
        /\ a.series = j.series /\ a.began = j.began /\ a.nodata = j.nodata
        /\ a.diagrams = j.diagrams
    BY <1>1, RequestIs
  <2> HIDE DEF a
  <2>2. Common(a, E)
    BY <1>1, <2>1 DEF Common, Awaiting
  <2>3. AtItem(a, E) /\ Cached(a)
    BY <2>1, <2>2 DEF AtItem, Answered, Cached
  <2>4. /\ a.calls <= 1 + Cardinality(Upto(a.cmd, a.item))
        /\ a.calls <= 1 + Cardinality(MetricItems(a.cmd))
    <3>1. /\ Cardinality(Upto(j.cmd, j.item)) \in Nat
          /\ Cardinality(MetricItems(j.cmd)) \in Nat
          /\ Cardinality(Upto(j.cmd, j.item)) <= Cardinality(MetricItems(j.cmd))
      BY <1>1, ItemsUpto, Items
    <3> QED
      BY <1>1, <2>1, <3>1
  <2>5. JobInv(a, E)
    BY <1>1, <1>2, <2>1, <2>2, <2>3, <2>4 DEF JobInv, OfMetrics
  <2> QED
    BY <2>5 DEF a
<1> QED
  BY <1>3, <1>4 DEF Resolve, RequestError

\* The loop over requested_series: it ends when no metric item is left, having
\* answered all, or goes on to the next one.
LEMMA ProceedGood ==
  ASSUME NEW j, NEW i, NEW E, Between(j, i, E)
  PROVE  JobInv(Proceed(j, i), E)
<1> DEFINE rest == {k \in MetricItems(j.cmd) : k > i}
<1>1. /\ Common(j, E) /\ Shape(j) /\ j.cmd \in Command /\ j.reply = "none"
      /\ i \in 0 .. MaxItems /\ Len(j.series) <= i /\ Answered(j, i)
      /\ MetricItems(j.cmd) \subseteq 1 .. MaxItems
      /\ j.series \in Seq(Entry) /\ Len(j.series) \in Nat /\ j.calls \in Nat
  BY Items, LenProperties DEF Between, Common
<1>2. CASE rest = {}
  <2>1. Upto(j.cmd, i) = MetricItems(j.cmd) /\ Upto(j.cmd, MaxItems) = MetricItems(j.cmd)
    BY <1>1, <1>2, ItemsAll, BuildAssumption DEF Upto
  <2>2. /\ Len(j.series) <= MaxItems
        /\ \A n, m \in 1 .. Len(j.series) : /\ j.series[n].epoch = j.series[m].epoch
                                            /\ j.series[n].epoch >= j.began
        /\ j.calls <= 1 + Cardinality(MetricItems(j.cmd))
    <3>1. CASE j.series = <<>> /\ j.calls = 0
      BY <1>1, <3>1, Items, BuildAssumption
    <3>2. CASE Cached(j) /\ j.calls <= 1 + Cardinality(Upto(j.cmd, i))
      BY <1>1, <2>1, <3>2, BuildAssumption DEF Cached
    <3> QED
      BY <3>1, <3>2 DEF Between
  <2>3. Answered(j, MaxItems)
    BY <1>1, <2>1 DEF Answered
  <2>4. JobInv(Answer(j, "ok"), E)
    BY <1>1, <2>2, <2>3, AnswerGood DEF Status
  <2> QED
    BY <1>2, <2>4 DEF Proceed
<1>3. CASE rest # {}
  <2> DEFINE k == CHOOSE k \in rest : \A l \in rest : k <= l
             n == [j EXCEPT !.item = k]
  <2>1. k \in rest /\ \A l \in rest : k <= l
    <3>1. rest \in SUBSET Nat
      BY <1>1
    <3> QED
      BY <1>3, <3>1, Smallest
  <2>2. /\ k \in MetricItems(j.cmd) /\ i < k /\ k \in 1 .. MaxItems
        /\ \A l \in MetricItems(j.cmd) : l > i => k <= l
    BY <1>1, <2>1
  <2>3. Proceed(j, i) = IF j.cache = NoCatalogue THEN Request(n, "listing")
                        ELSE Resolve(n)
    BY <1>3 DEF Proceed
  <2> HIDE DEF k, rest
  <2>4. /\ Upto(j.cmd, k - 1) = Upto(j.cmd, i)
        /\ Cardinality(Upto(j.cmd, k)) = Cardinality(Upto(j.cmd, i)) + 1
        /\ Cardinality(Upto(j.cmd, i)) \in Nat
    BY <1>1, <2>2, ItemsNext, ItemsUpto
  <2>5. /\ Shape(n) /\ n.item = k /\ n.pc = j.pc /\ n.reply = j.reply
        /\ n.cmd = j.cmd /\ n.cache = j.cache /\ n.series = j.series
        /\ n.began = j.began /\ n.calls = j.calls /\ n.nodata = j.nodata
        /\ n.diagrams = j.diagrams
    <3>1. n \in [pc : {j.pc}, cmd : {j.cmd}, item : {k}, cache : {j.cache},
                 series : {j.series}, diagrams : {j.diagrams}, reply : {j.reply},
                 began : {j.began}, calls : {j.calls}, nodata : {j.nodata}]
      BY <1>1 DEF Shape
    <3> HIDE DEF n
    <3> QED
      BY <3>1 DEF Shape
  <2> HIDE DEF n
  <2>6. AtItem(n, E)
    <3>1. Common(n, E)
      BY <1>1, <2>2, <2>5 DEF Common
    <3>2. Len(n.series) < n.item
      BY <1>1, <2>2, <2>5
    <3>3. Answered(n, n.item - 1)
      BY <1>1, <2>4, <2>5 DEF Answered
    <3> QED
      BY <1>1, <2>2, <2>5, <3>1, <3>2, <3>3 DEF AtItem
  <2>7. CASE j.cache = NoCatalogue
    <3> DEFINE a == Request(n, "listing")
    <3>0. j.series = <<>> /\ j.calls <= 0
      <4>1. ~Cached(j)
        BY <2>7, BuildAssumption DEF Cached, Catalogue, NoCatalogue
      <4> QED
        BY <4>1 DEF Between
    <3>1. /\ Shape(a) /\ a.pc = "listing" /\ a.reply = "none"
          /\ a.calls \in Nat /\ a.calls <= 1
          /\ a.cmd = n.cmd /\ a.item = n.item /\ a.cache = n.cache
          /\ a.series = <<>> /\ a.began = n.began /\ a.nodata = n.nodata
          /\ a.diagrams = n.diagrams
      BY <1>1, <2>5, <3>0, RequestIs
    <3> HIDE DEF a
    <3>2. Common(a, E)
      BY <2>6, <3>1, <2>5, <3>0 DEF AtItem, Common, Awaiting
    <3>3. AtItem(a, E)
      BY <2>6, <3>1, <3>2, <2>5, <3>0 DEF AtItem, Answered
    <3>4. a.calls <= 1 + Cardinality(MetricItems(a.cmd))
      BY <1>1, <2>5, <3>1, Items
    <3>5. Len(a.series) <= MaxItems /\ 1 .. Len(a.series) = {}
      BY <3>1, BuildAssumption
    <3>6. JobInv(a, E)
      BY <1>1, <2>5, <3>1, <3>2, <3>3, <3>4, <3>5 DEF JobInv, OfMetrics
    <3> QED
      BY <2>3, <2>7, <3>6 DEF a
  <2>8. CASE j.cache # NoCatalogue
    <3>1. Cached(j) /\ j.calls <= 1 + Cardinality(Upto(j.cmd, i))
      BY <2>8 DEF Between
    <3>2. Cached(n)
      BY <2>5, <3>1 DEF Cached
    <3>3. n.calls <= Cardinality(Upto(n.cmd, n.item))
      BY <1>1, <2>4, <2>5, <3>1
    <3> QED
      BY <1>1, <2>3, <2>5, <2>6, <2>8, <3>2, <3>3, ResolveGood
  <2> QED
    BY <2>7, <2>8
<1> QED
  BY <1>2, <1>3

-----------------------------------------------------------------------------
(***************************************************************************)
(* The loop over requested_visualizations: what the library's FoldLeft     *)
(* makes of it                                                             *)
(***************************************************************************)
Show(j, shown, v) == IF Drawn(j.cmd.series[j.item], v)
                     THEN Append(shown, [item |-> j.item, type |-> v])
                     ELSE shown

\* What the fold computes on a family S of sets of positions, and on the first m.
Shows(j, S, it) ==
  it = [s \in S |-> IF s = {} THEN j.diagrams
                    ELSE Show(j, it[s \ {Max(s)}], j.cmd.visuals[Max(s)])]

ShownUpto(j, m) == (CHOOSE it : Shows(j, SUBSET DOMAIN j.cmd.visuals, it))[1 .. m]

\* What it has made of the first m: the diagrams of other items are left as they
\* are, and the item has those asked for that can be drawn.
Shown(j, ds, m) ==
  /\ ds \in Seq(Diagram)
  /\ \A n \in 1 .. Len(ds) :
       \/ n \in 1 .. Len(j.diagrams) /\ ds[n] = j.diagrams[n]
       \/ ds[n].item = j.item /\ Drawn(j.cmd.series[j.item], ds[n].type)
  /\ \A d \in Diagram : d.item # j.item => Of(ds, d) = Of(j.diagrams, d)
  /\ \A v \in STRING : Drawn(j.cmd.series[j.item], v) =>
       Cardinality(Of(ds, [item |-> j.item, type |-> v]))
         = Cardinality(AskedUpto(j.cmd, v, m))

\* The recursion of the fold has a solution.
LEMMA ShowsExist ==
  ASSUME NEW j, NEW l \in Nat, DOMAIN j.cmd.visuals = 1 .. l
  PROVE  \E it : Shows(j, SUBSET (1 .. l), it)
<1> DEFINE D == 1 .. l
           Open == {n \in Nat : ~ \E it : Shows(j, Small(D, n), it)}
<1>0. IsFiniteSet(D)
  <2>1. l \in Int /\ 1 \in Int
    OBVIOUS
  <2> QED
    BY <2>1, FS_Interval
<1>1. \A s \in SUBSET D : IsFiniteSet(s) /\ Cardinality(s) \in Nat
  BY <1>0, FS_Subset, FS_CardinalityType
<1>2. \A s \in SUBSET D : s # {} => Max(s) \in s
  <2> TAKE s \in SUBSET D
  <2>1. s \in SUBSET (0 .. l)
    OBVIOUS
  <2> QED
    BY <2>1, Largest
<1> HIDE DEF D
<1>3. Open = {}
  <2> SUFFICES ASSUME Open # {} PROVE FALSE
    OBVIOUS
  <2> DEFINE k == Min(Open)
  <2>1. k \in Open /\ \A o \in Open : k <= o
    <3>1. Open \in SUBSET Nat
      OBVIOUS
    <3> HIDE DEF Open
    <3> QED
      BY <3>1, Smallest
  <2> HIDE DEF k
  <2>2. CASE k = 0
    <3> DEFINE it == [s \in Small(D, 0) |-> j.diagrams]
    <3>1. \A s \in Small(D, 0) : s = {}
      BY <1>1, FS_EmptySet DEF Small
    <3>2. it = [s \in Small(D, 0) |->
                  IF s = {} THEN j.diagrams
                  ELSE Show(j, it[s \ {Max(s)}], j.cmd.visuals[Max(s)])]
      BY <3>1
    <3> QED
      BY <2>1, <2>2, <3>2 DEF Shows
  <2>3. CASE k # 0
    <3>1. k - 1 \in Nat /\ k - 1 \notin Open
      BY <2>1, <2>3
    <3>2. PICK jt : Shows(j, Small(D, k - 1), jt)
      BY <3>1
    <3> DEFINE it == [s \in Small(D, k) |->
                        IF s = {} THEN j.diagrams
                        ELSE Show(j, jt[s \ {Max(s)}], j.cmd.visuals[Max(s)])]
    <3>3. ASSUME NEW s \in Small(D, k), s # {}
          PROVE  it[s \ {Max(s)}] = jt[s \ {Max(s)}]
      <4> DEFINE t == s \ {Max(s)}
      <4>1. s \in SUBSET D /\ IsFiniteSet(s) /\ Cardinality(s) <= k
        BY <1>1 DEF Small
      <4>2. Max(s) \in s
        BY <1>2, <3>3, <4>1
      <4>3. /\ Cardinality(t) = Cardinality(s) - 1 /\ Cardinality(s) \in Nat
            /\ t \in SUBSET D
        BY <3>3, <4>1, <4>2, OneLess
      <4> HIDE DEF t
      <4>4. t \in Small(D, k - 1) /\ t \in Small(D, k)
        BY <2>1, <4>1, <4>3 DEF Small
      <4>5. jt[t] = IF t = {} THEN j.diagrams
                    ELSE Show(j, jt[t \ {Max(t)}], j.cmd.visuals[Max(t)])
        BY <3>2, <4>4 DEF Shows
      <4> QED
        BY <4>4, <4>5 DEF t
    <3>4. it = [s \in Small(D, k) |->
                  IF s = {} THEN j.diagrams
                  ELSE Show(j, it[s \ {Max(s)}], j.cmd.visuals[Max(s)])]
      BY <3>3
    <3> QED
      BY <2>1, <3>4 DEF Shows
  <2> QED
    BY <2>2, <2>3
<1>4. \A s \in SUBSET D : Cardinality(s) <= Cardinality(D)
  BY <1>0, FS_Subset
<1>5. Small(D, Cardinality(D)) = SUBSET D
  BY <1>4 DEF Small
<1>6. Cardinality(D) \in Nat
  BY <1>0, FS_CardinalityType
<1>7. \E it : Shows(j, Small(D, Cardinality(D)), it)
  BY <1>3, <1>6
<1>8. \E it : Shows(j, SUBSET D, it)
  BY <1>5, <1>7
<1> QED
  BY <1>8 DEF D

\* So it goes through the visualizations one after the other.
LEMMA ShownSteps ==
  ASSUME NEW j, NEW l \in Nat, DOMAIN j.cmd.visuals = 1 .. l
  PROVE  /\ ShownUpto(j, 0) = j.diagrams
         /\ \A m \in 1 .. l : ShownUpto(j, m) =
                                Show(j, ShownUpto(j, m - 1), j.cmd.visuals[m])
<1> DEFINE it == CHOOSE it : Shows(j, SUBSET DOMAIN j.cmd.visuals, it)
<1>1. Shows(j, SUBSET (1 .. l), it)
  BY ShowsExist
<1> HIDE DEF it
<1>2. \A m : ShownUpto(j, m) = it[1 .. m]
  BY DEF ShownUpto, it
<1>3. ShownUpto(j, 0) = j.diagrams
  <2>1. 1 .. 0 = {} /\ {} \in SUBSET (1 .. l)
    OBVIOUS
  <2> QED
    BY <1>1, <1>2, <2>1 DEF Shows
<1>4. ASSUME NEW m \in 1 .. l
      PROVE  ShownUpto(j, m) = Show(j, ShownUpto(j, m - 1), j.cmd.visuals[m])
  <2>1. /\ 1 .. m \in SUBSET (1 .. l) /\ 1 .. m # {}
        /\ (1 .. m) \ {m} = 1 .. (m - 1)
    OBVIOUS
  <2>2. Max(1 .. m) = m
    <3>1. 1 .. m \in SUBSET Nat /\ m \in 1 .. m /\ \A i \in 1 .. m : m >= i
      OBVIOUS
    <3> QED
      BY <3>1, Unique
  <2>3. it[1 .. m] = Show(j, it[(1 .. m) \ {Max(1 .. m)}], j.cmd.visuals[Max(1 .. m)])
    BY <1>1, <2>1 DEF Shows
  <2> QED
    BY <1>2, <2>1, <2>2, <2>3
<1> QED
  BY <1>3, <1>4

\* A diagram that is appended is one more of its kind, and of no other.
LEMMA OneMoreDiagram ==
  ASSUME NEW ds \in Seq(Diagram), NEW e \in Diagram, NEW d \in Diagram
  PROVE  /\ Append(ds, e) \in Seq(Diagram)
         /\ IsFiniteSet(Of(ds, d)) /\ Cardinality(Of(ds, d)) \in Nat
         /\ d # e => Of(Append(ds, e), d) = Of(ds, d)
         /\ d = e => Cardinality(Of(Append(ds, e), d)) = Cardinality(Of(ds, d)) + 1
<1> DEFINE a == Append(ds, e)
           n == Len(ds)
<1>1. /\ a \in Seq(Diagram) /\ Len(a) = n + 1 /\ n \in Nat
      /\ \A i \in 1 .. n : a[i] = ds[i]
      /\ a[n + 1] = e
  BY LenProperties
<1> HIDE DEF a, n
<1>2. 1 .. n + 1 = 1 .. n \cup {n + 1} /\ n + 1 \notin 1 .. n
  BY <1>1
<1>3. Of(ds, d) \subseteq 1 .. n /\ Of(ds, d) = {i \in 1 .. n : ds[i] = d}
  BY DEF Of, n
<1>4. IsFiniteSet(Of(ds, d)) /\ Cardinality(Of(ds, d)) \in Nat
  <2>1. 1 \in Int /\ n \in Int
    BY <1>1
  <2>2. IsFiniteSet(1 .. n)
    BY <2>1, FS_Interval
  <2> QED
    BY <1>3, <2>2, FS_Subset, FS_CardinalityType
<1>5. Of(a, d) = {i \in 1 .. n + 1 : a[i] = d}
  BY <1>1 DEF Of
<1>6. CASE d # e
  <2>1. Of(a, d) = Of(ds, d)
    BY <1>1, <1>2, <1>3, <1>5, <1>6
  <2> QED
    BY <1>1, <1>4, <1>6, <2>1 DEF a
<1>7. CASE d = e
  <2>1. Of(a, d) = Of(ds, d) \cup {n + 1} /\ n + 1 \notin Of(ds, d)
    BY <1>1, <1>2, <1>3, <1>5, <1>7
  <2>2. Cardinality(Of(a, d)) = Cardinality(Of(ds, d)) + 1
    BY <1>4, <2>1, FS_AddElement
  <2> QED
    BY <1>1, <1>4, <1>7, <2>2 DEF a
<1> QED
  BY <1>6, <1>7

\* One more position is one that v is asked for at, or not.
LEMMA OneMoreAsked ==
  ASSUME NEW c, NEW v, NEW m \in Nat, m # 0
  PROVE  /\ c.visuals[m] # v => AskedUpto(c, v, m) = AskedUpto(c, v, m - 1)
         /\ c.visuals[m] = v => Cardinality(AskedUpto(c, v, m))
                                  = Cardinality(AskedUpto(c, v, m - 1)) + 1
<1>1. 1 .. m = 1 .. (m - 1) \cup {m} /\ m \notin 1 .. (m - 1)
  OBVIOUS
<1>2. ASSUME c.visuals[m] # v
      PROVE  AskedUpto(c, v, m) = AskedUpto(c, v, m - 1)
  BY <1>1, <1>2 DEF AskedUpto
<1>3. ASSUME c.visuals[m] = v
      PROVE  Cardinality(AskedUpto(c, v, m))
               = Cardinality(AskedUpto(c, v, m - 1)) + 1
  <2>1. /\ AskedUpto(c, v, m) = AskedUpto(c, v, m - 1) \cup {m}
        /\ m \notin AskedUpto(c, v, m - 1)
    BY <1>1, <1>3 DEF AskedUpto
  <2>2. AskedUpto(c, v, m - 1) \in SUBSET (1 .. (m - 1))
    BY DEF AskedUpto
  <2>3. 1 \in Int /\ m - 1 \in Int
    OBVIOUS
  <2>4. IsFiniteSet(AskedUpto(c, v, m - 1))
    BY <2>2, <2>3, FS_Interval, FS_Subset
  <2> QED
    BY <2>1, <2>4, FS_AddElement
<1> QED
  BY <1>2, <1>3

\* One iteration draws what it should.
LEMMA ShowOne ==
  ASSUME NEW j, j.item \in 0 .. MaxItems, NEW m \in Nat, m # 0,
         j.cmd.visuals[m] \in STRING, NEW ds, Shown(j, ds, m - 1)
  PROVE  Shown(j, Show(j, ds, j.cmd.visuals[m]), m)
<1> DEFINE code == j.cmd.series[j.item]
           v == j.cmd.visuals[m]
           e == [item |-> j.item, type |-> v]
           w == Show(j, ds, v)
<1>1. e \in Diagram /\ e.item = j.item /\ e.type = v
  BY DEF Diagram
<1>2. /\ ds \in Seq(Diagram)
      /\ \A n \in 1 .. Len(ds) :
           \/ n \in 1 .. Len(j.diagrams) /\ ds[n] = j.diagrams[n]
           \/ ds[n].item = j.item /\ Drawn(code, ds[n].type)
      /\ \A d \in Diagram : d.item # j.item => Of(ds, d) = Of(j.diagrams, d)
      /\ \A u \in STRING : Drawn(code, u) =>
           Cardinality(Of(ds, [item |-> j.item, type |-> u]))
             = Cardinality(AskedUpto(j.cmd, u, m - 1))
  BY DEF Shown
<1>3. CASE ~ Drawn(code, v)
  <2>1. w = ds
    BY <1>3 DEF Show
  <2>2. ASSUME NEW u \in STRING, Drawn(code, u)
        PROVE  AskedUpto(j.cmd, u, m) = AskedUpto(j.cmd, u, m - 1)
    BY <1>3, <2>2, OneMoreAsked
  <2> HIDE DEF w
  <2>3. Shown(j, w, m)
    BY <1>2, <2>1, <2>2 DEF Shown
  <2> QED
    BY <2>3 DEF w
<1>4. CASE Drawn(code, v)
  <2>1. w = Append(ds, e)
    BY <1>4 DEF Show
  <2>2. w \in Seq(Diagram)
    BY <1>1, <1>2, <2>1, OneMoreDiagram
  <2>3. /\ Len(w) = Len(ds) + 1 /\ Len(ds) \in Nat /\ w[Len(ds) + 1] = e
        /\ \A n \in 1 .. Len(ds) : w[n] = ds[n]
    BY <1>1, <1>2, <2>1, LenProperties
  <2> HIDE DEF e, w
  <2>4. ASSUME NEW n \in 1 .. Len(w)
        PROVE  \/ n \in 1 .. Len(j.diagrams) /\ w[n] = j.diagrams[n]
               \/ w[n].item = j.item /\ Drawn(code, w[n].type)
    <3>1. n \in 1 .. Len(ds) \/ n = Len(ds) + 1
      BY <2>3
    <3> QED
      BY <1>1, <1>2, <1>4, <2>3, <3>1
  <2>5. ASSUME NEW d \in Diagram, d.item # j.item
        PROVE  Of(w, d) = Of(j.diagrams, d)
    <3>1. d # e
      BY <1>1, <2>5
    <3> QED
      BY <1>1, <1>2, <2>1, <2>5, <3>1, OneMoreDiagram
  <2>6. ASSUME NEW u \in STRING, Drawn(code, u)
        PROVE  Cardinality(Of(w, [item |-> j.item, type |-> u]))
                 = Cardinality(AskedUpto(j.cmd, u, m))
    <3> DEFINE d == [item |-> j.item, type |-> u]
    <3>1. d \in Diagram /\ (d = e <=> u = v)
      BY DEF Diagram, e
    <3>2. Cardinality(Of(ds, d)) = Cardinality(AskedUpto(j.cmd, u, m - 1))
      BY <1>2, <2>6
    <3> HIDE DEF d
    <3>3. CASE u = v
      <4>1. Cardinality(Of(w, d)) = Cardinality(Of(ds, d)) + 1
        BY <1>1, <1>2, <2>1, <3>1, <3>3, OneMoreDiagram
      <4> QED
        BY <3>2, <3>3, <4>1, OneMoreAsked DEF d
    <3>4. CASE u # v
      <4>1. Of(w, d) = Of(ds, d)
        BY <1>1, <1>2, <2>1, <3>1, <3>4, OneMoreDiagram
      <4> QED
        BY <3>2, <3>4, <4>1, OneMoreAsked DEF d
    <3> QED
      BY <3>3, <3>4
  <2>7. Shown(j, w, m)
    BY <2>2, <2>4, <2>5, <2>6 DEF Shown
  <2> QED
    BY <2>7 DEF w
<1> QED
  BY <1>3, <1>4

\* And so does the loop, for an item that had no diagrams.
LEMMA ShownIs ==
  ASSUME NEW j, j.item \in 0 .. MaxItems, j.cmd.visuals \in Seq(STRING),
         j.diagrams \in Seq(Diagram),
         \A n \in 1 .. Len(j.diagrams) : j.diagrams[n].item # j.item
  PROVE  Shown(j, ShownUpto(j, Len(j.cmd.visuals)), Len(j.cmd.visuals))
<1> DEFINE l == Len(j.cmd.visuals)
           Open == {m \in 0 .. l : ~ Shown(j, ShownUpto(j, m), m)}
<1>1. /\ l \in Nat /\ DOMAIN j.cmd.visuals = 1 .. l
      /\ \A m \in 1 .. l : j.cmd.visuals[m] \in STRING
  BY LenProperties, ElementOfSeq
<1> HIDE DEF l
<1>2. Shown(j, ShownUpto(j, 0), 0)
  <2>1. ShownUpto(j, 0) = j.diagrams
    BY <1>1, ShownSteps
  <2>2. \A v : AskedUpto(j.cmd, v, 0) = {}
    BY DEF AskedUpto
  <2>3. \A v : Of(j.diagrams, [item |-> j.item, type |-> v]) = {}
    BY DEF Of
  <2> QED
    BY <2>1, <2>2, <2>3 DEF Shown
<1>3. Open = {}
  <2> SUFFICES ASSUME Open # {} PROVE FALSE
    OBVIOUS
  <2> DEFINE m == Min(Open)
  <2>1. Open \in SUBSET Nat
    BY <1>1
  <2>2. m \in Open /\ \A o \in Open : m <= o
    <3> HIDE DEF Open
    <3> QED
      BY <2>1, Smallest
  <2> HIDE DEF m
  <2>3. m \in 1 .. l /\ m - 1 \in 0 .. l /\ m - 1 \notin Open
    BY <1>1, <1>2, <2>2
  <2>4. Shown(j, ShownUpto(j, m - 1), m - 1)
    BY <2>3
  <2>5. ShownUpto(j, m) = Show(j, ShownUpto(j, m - 1), j.cmd.visuals[m])
    BY <1>1, <2>3, ShownSteps
  <2>6. m \in Nat /\ m # 0 /\ j.cmd.visuals[m] \in STRING
    BY <1>1, <2>3
  <2>7. Shown(j, ShownUpto(j, m), m)
    BY <2>4, <2>5, <2>6, ShowOne
  <2> QED
    BY <2>2, <2>7
<1>4. Shown(j, ShownUpto(j, l), l)
  BY <1>1, <1>3
<1> QED
  BY <1>4 DEF l

\* What WithData makes of a build: a series more, and what the loop has drawn.
LEMMA WithDataIs ==
  ASSUME NEW j, NEW l \in Nat, DOMAIN j.cmd.visuals = 1 .. l
  PROVE  WithData(j) =
           [j EXCEPT
              !.series = Append(@, [item |-> j.item, epoch |-> j.cache.epoch]),
              !.diagrams = ShownUpto(j, l)]
<1>1. WithData(j) =
        [j EXCEPT
           !.series = Append(@, [item |-> j.item, epoch |-> j.cache.epoch]),
           !.diagrams = (CHOOSE it : Shows(j, SUBSET DOMAIN j.cmd.visuals, it))
                          [DOMAIN j.cmd.visuals]]
  BY Zenon DEF WithData, FoldLeft, MapThenFoldSet, Shows, Show
<1> QED
  BY <1>1, Zenon DEF ShownUpto

\* The data of an item has come, or there is none: the item is dealt with.
LEMMA FetchedGood ==
  ASSUME NEW j, NEW E \in 0 .. MaxEpoch, NEW some \in BOOLEAN,
         JobInv(j, E), j.pc = "fetching"
  PROVE  Between(IF some THEN WithData(j) ELSE WithoutData(j), j.item, E)
<1> DEFINE x == [item |-> j.item, epoch |-> j.cache.epoch]
           w == IF some THEN WithData(j) ELSE WithoutData(j)
<1>1. /\ Shape(j) /\ Common(j, E) /\ j.cmd \in Command /\ j.reply = "none"
      /\ AtItem(j, E) /\ Cached(j)
      /\ j.item \in MetricItems(j.cmd) /\ j.item \in 1 .. MaxItems
      /\ MetricItems(j.cmd) \subseteq 1 .. MaxItems
      /\ j.calls <= 1 + Cardinality(Upto(j.cmd, j.item))
  <2>1. AtItem(j, E) /\ Cached(j) /\ j.reply = "none"
        /\ j.calls <= 1 + Cardinality(Upto(j.cmd, j.item))
    BY DEF JobInv
  <2>2. Common(j, E) /\ j.cmd \in Command /\ j.item \in MetricItems(j.cmd)
    BY <2>1 DEF AtItem
  <2> QED
    BY <2>1, <2>2, Items DEF Common
<1>2. /\ j.series \in Seq(Entry) /\ Len(j.series) \in Nat
      /\ \A n \in 1 .. Len(j.series) : j.series[n] \in Entry
      /\ Len(j.series) < j.item
  BY <1>1, LenProperties, ElementOfSeq DEF Common, AtItem
<1>3. x \in Entry
  BY <1>1 DEF Cached, Catalogue, Entry
<1>4. /\ Upto(j.cmd, j.item) = Upto(j.cmd, j.item - 1) \cup {j.item}
      /\ j.item \notin Upto(j.cmd, j.item - 1)
  BY <1>1 DEF Upto
<1>5. CASE some
  <2> DEFINE l == Len(j.cmd.visuals)
             ds == ShownUpto(j, l)
  <2>1. /\ j.cmd.visuals \in Seq(STRING) /\ l \in Nat
        /\ DOMAIN j.cmd.visuals = 1 .. l
    <3>1. j.cmd.visuals \in Seq(STRING)
      BY <1>1, BuildAssumption DEF Command
    <3> QED
      BY <3>1, LenProperties
  <2>2. w = [j EXCEPT !.series = Append(@, x), !.diagrams = ds]
    BY <1>5, <2>1, WithDataIs
  <2> HIDE DEF w, x, ds, l
  <2>3. w \in [pc : {j.pc}, cmd : {j.cmd}, item : {j.item}, cache : {j.cache},
               series : {Append(j.series, x)}, diagrams : {ds},
               reply : {j.reply}, began : {j.began}, calls : {j.calls},
               nodata : {j.nodata}]
    BY <1>1, <2>2 DEF Shape
  <2>4. /\ Shape(w) /\ w.pc = j.pc /\ w.cmd = j.cmd /\ w.item = j.item
        /\ w.cache = j.cache /\ w.series = Append(j.series, x)
        /\ w.reply = j.reply /\ w.began = j.began /\ w.calls = j.calls
        /\ w.nodata = j.nodata /\ w.diagrams = ds
    BY <2>3 DEF Shape
  <2>5. /\ Append(j.series, x) \in Seq(Entry)
        /\ Len(Append(j.series, x)) = Len(j.series) + 1
        /\ \A n \in 1 .. Len(j.series) : Append(j.series, x)[n] = j.series[n]
        /\ Append(j.series, x)[Len(j.series) + 1] = x
    BY <1>2, <1>3
  <2>6. \A n \in 1 .. Len(j.series) : j.series[n].item < j.item
    <3>1. \A n \in 1 .. Len(j.series) : j.series[n].item \in Upto(j.cmd, j.item - 1)
      BY <1>1 DEF AtItem, Answered
    <3> QED
      BY <1>1, <3>1 DEF Upto
  <2> USE DEF x
  <2>7. DiagramsGood(ds, Append(j.series, x), j.cmd)
    <3> DEFINE s == Append(j.series, x)
    <3>1. DiagramsGood(j.diagrams, j.series, j.cmd) /\ j.item \in 0 .. MaxItems
      BY <1>1 DEF Common
    <3>2. /\ j.diagrams \in Seq(Diagram)
          /\ \A n \in 1 .. Len(j.diagrams) : j.diagrams[n].item # j.item
      BY <1>1, <2>6, <3>1 DEF DiagramsGood
    <3>3. Shown(j, ds, l)
      BY <2>1, <3>1, <3>2, ShownIs DEF ds, l
    <3>4. \A n \in 1 .. Len(j.series) : n \in 1 .. Len(s) /\ s[n] = j.series[n]
      BY <1>2, <2>5
    <3>5. Len(j.series) + 1 \in 1 .. Len(s) /\ s[Len(j.series) + 1].item = j.item
      BY <1>2, <2>5
    <3>6. ds \in Seq(Diagram)
      BY <3>3 DEF Shown
    <3> HIDE DEF s
    <3>7. ASSUME NEW n \in 1 .. Len(ds)
          PROVE  /\ \E m \in 1 .. Len(s) : s[m].item = ds[n].item
                 /\ Cardinality(Of(ds, ds[n]))
                      = Cardinality(Asked(j.cmd, ds[n].type))
                 /\ ds[n].type = "position_distribution" =>
                      j.cmd.series[ds[n].item] \in PositionMetrics
      <4>1. ds[n] \in Diagram
        BY <3>6, ElementOfSeq
      <4>2. CASE n \in 1 .. Len(j.diagrams) /\ ds[n] = j.diagrams[n]
        <5>1. ds[n].item # j.item
          BY <3>2, <4>2
        <5>2. Of(ds, ds[n]) = Of(j.diagrams, ds[n])
          BY <3>3, <4>1, <5>1 DEF Shown
        <5> QED
          BY <3>1, <3>4, <4>2, <5>2 DEF DiagramsGood
      <4>3. CASE ds[n].item = j.item /\ Drawn(j.cmd.series[j.item], ds[n].type)
        <5>1. /\ ds[n] = [item |-> j.item, type |-> ds[n].type]
              /\ ds[n].type \in STRING
          BY <4>1, <4>3 DEF Diagram
        <5>2. Cardinality(Of(ds, ds[n]))
                = Cardinality(AskedUpto(j.cmd, ds[n].type, l))
          BY <3>3, <4>3, <5>1 DEF Shown
        <5>3. ds[n].type = "position_distribution" =>
                j.cmd.series[ds[n].item] \in PositionMetrics
          BY <4>3 DEF Drawn
        <5> QED
          BY <3>5, <4>3, <5>2, <5>3 DEF Asked, l
      <4> QED
        BY <3>3, <4>2, <4>3 DEF Shown
    <3>8. DiagramsGood(ds, s, j.cmd)
      BY <3>6, <3>7 DEF DiagramsGood
    <3> QED
      BY <3>8 DEF s
  <2>8. Common(w, E)
    BY <1>1, <2>4, <2>5, <2>7 DEF Common
  <2>9. \A n \in 1 .. Len(w.series) :
          \/ n \in 1 .. Len(j.series) /\ w.series[n] = j.series[n]
          \/ n = Len(j.series) + 1 /\ w.series[n] = x
    BY <1>2, <2>4, <2>5
  <2>10. Cached(w)
    BY <1>1, <2>4, <2>9 DEF Cached
  <2>11. {w.series[n].item : n \in 1 .. Len(w.series)} =
          {j.series[n].item : n \in 1 .. Len(j.series)} \cup {j.item}
    <3>1. 1 .. Len(w.series) = 1 .. Len(j.series) \cup {Len(j.series) + 1}
      BY <1>2, <2>4, <2>5
    <3> QED
      BY <2>4, <2>5, <3>1
  <2>12. Answered(w, w.item)
    <3>1. w.nodata \subseteq Upto(w.cmd, w.item)
      BY <1>1, <1>4, <2>4 DEF AtItem, Answered
    <3>2. {w.series[n].item : n \in 1 .. Len(w.series)} =
            Upto(w.cmd, w.item) \ w.nodata
      BY <1>1, <1>4, <2>4, <2>11 DEF AtItem, Answered
    <3>3. ASSUME NEW n \in 1 .. Len(w.series), NEW m \in 1 .. Len(w.series), n < m
          PROVE  w.series[n].item < w.series[m].item
      <4>1. n \in 1 .. Len(j.series) /\ w.series[n] = j.series[n]
        BY <1>2, <2>4, <2>5, <3>3
      <4>2. CASE m \in 1 .. Len(j.series) /\ w.series[m] = j.series[m]
        BY <1>1, <3>3, <4>1, <4>2 DEF AtItem, Answered
      <4>3. CASE w.series[m] = x
        BY <2>6, <4>1, <4>3
      <4> QED
        BY <2>9, <4>2, <4>3
    <3> QED
      BY <3>1, <3>2, <3>3 DEF Answered
  <2>13. Len(w.series) <= w.item
    BY <1>1, <1>2, <2>4, <2>5
  <2>14. Between(w, j.item, E)
    BY <1>1, <2>4, <2>8, <2>10, <2>12, <2>13 DEF Between
  <2> QED
    BY <2>14 DEF w
<1>6. CASE ~some
  <2>1. w \in [pc : {j.pc}, cmd : {j.cmd}, item : {j.item}, cache : {j.cache},
               series : {j.series}, diagrams : {j.diagrams}, reply : {j.reply},
               began : {j.began}, calls : {j.calls},
               nodata : {j.nodata \cup {j.item}}]
    BY <1>1, <1>6 DEF Shape, WithoutData
  <2>2. /\ Shape(w) /\ w.pc = j.pc /\ w.cmd = j.cmd /\ w.item = j.item
        /\ w.cache = j.cache /\ w.series = j.series
        /\ w.reply = j.reply /\ w.began = j.began /\ w.calls = j.calls
        /\ w.nodata = j.nodata \cup {j.item} /\ w.diagrams = j.diagrams
    BY <2>1 DEF Shape
  <2> HIDE DEF w
  <2>3. Common(w, E) /\ Cached(w)
    BY <1>1, <2>2 DEF Common, Cached
  <2>4. Answered(w, w.item)
    BY <1>1, <1>4, <2>2 DEF AtItem, Answered
  <2>5. Len(w.series) <= w.item
    BY <1>1, <1>2, <2>2
  <2>6. Between(w, j.item, E)
    BY <1>1, <2>2, <2>3, <2>4, <2>5 DEF Between
  <2> QED
    BY <2>6 DEF w
<1> QED
  BY <1>5, <1>6

\* A build that has just begun on c, at epoch E.
Fresh(c, E) ==
  [pc : {"idle"}, cmd : {c}, item : {0}, cache : {NoCatalogue}, series : {<<>>},
   diagrams : {<<>>}, reply : {"none"}, began : {E}, calls : {0}, nodata : {{}}]

\* A request that comes in finds nothing left of the one before.
LEMMA FreshIs ==
  ASSUME NEW c, NEW E \in 0 .. MaxEpoch, NEW j \in Fresh(c, E)
  PROVE  /\ Common(j, E) /\ j.cmd = c /\ j.pc = "idle" /\ j.reply = "none"
         /\ j.cache = NoCatalogue /\ j.series = <<>> /\ j.calls = 0
         /\ j.nodata = {} /\ j.began = E
<1>1. j \in [pc : {"idle"}, cmd : {c}, item : {0}, cache : {NoCatalogue},
             series : {<<>>}, diagrams : {<<>>}, reply : {"none"},
             began : {E}, calls : {0}, nodata : {{}}]
  BY DEF Fresh
<1>2. <<>> \in Seq(Entry)
  BY EmptySeq
<1>3. /\ j.cmd = c /\ j.pc = "idle" /\ j.reply = "none" /\ j.item = 0
      /\ j.cache = NoCatalogue /\ j.series = <<>> /\ j.calls = 0
      /\ j.nodata = {} /\ j.began = E /\ j.diagrams = <<>>
  BY <1>1
<1>4. Shape(j)
  BY <1>1 DEF Shape
<1>5. 0 \in 0 .. MaxItems /\ E \in 0 .. E /\ 0 \in Nat
  BY BuildAssumption
<1>6. DiagramsGood(<<>>, <<>>, c)
  <2>1. <<>> \in Seq(Diagram) /\ 1 .. Len(<<>>) = {}
    BY EmptySeq
  <2> QED
    BY <2>1 DEF DiagramsGood
<1>7. Common(j, E)
  BY <1>2, <1>3, <1>4, <1>5, <1>6 DEF Common
<1> QED
  BY <1>3, <1>7

\* Without series there are no diagrams, so they go with any series.
LEMMA NoDiagrams ==
  ASSUME NEW ds, NEW c, DiagramsGood(ds, <<>>, c), NEW s
  PROVE  DiagramsGood(ds, s, c)
<1>1. ds \in Seq(Diagram) /\ Len(ds) \in Nat /\ 1 .. Len(<<>>) = {}
  BY LenProperties DEF DiagramsGood
<1>2. 1 .. Len(ds) = {}
  BY <1>1 DEF DiagramsGood
<1> QED
  BY <1>1, <1>2 DEF DiagramsGood

\* The command of a GET route has no metric items.
LEMMA ItemsNone ==
  /\ MetricItems(NoCommand) = {} /\ Cardinality(MetricItems(NoCommand)) = 0
  /\ NoCommand.product = "none" /\ NoCommand.series = <<>>
<1>1. MetricItems(NoCommand) = {}
  BY DEF MetricItems, NoCommand
<1> QED
  BY <1>1, FS_EmptySet DEF NoCommand

\* The number of metric items is a number for every command a build can have.
LEMMA ItemsNumber ==
  ASSUME NEW c \in Command \cup {NoCommand}
  PROVE  Cardinality(MetricItems(c)) \in Nat
<1>1. CASE c \in Command
  BY <1>1, Items
<1>2. CASE c = NoCommand
  BY <1>2, ItemsNone
<1> QED
  BY <1>1, <1>2

\* A build that answers without any series and without having listed the fields.
LEMMA AnswerEmpty ==
  ASSUME NEW j, NEW E, NEW r \in DOMAIN Status,
         Common(j, E), j.cmd \in Command \cup {NoCommand}, j.series = <<>>,
         j.calls <= 1 + Cardinality(MetricItems(j.cmd)),
         r = "ok" => j.cmd.product \notin {"metrics", "projects"}
  PROVE  JobInv(Answer(j, r), E)
<1>1. Len(j.series) <= MaxItems /\ 1 .. Len(j.series) = {}
  BY BuildAssumption
<1>2. \A n, m \in 1 .. Len(j.series) : /\ j.series[n].epoch = j.series[m].epoch
                                        /\ j.series[n].epoch >= j.began
  BY <1>1
<1> QED
  BY <1>1, <1>2, AnswerGood

\* A call that is the first of its request is within the bound.
LEMMA FirstCall ==
  ASSUME NEW j, NEW E, NEW p \in {"alerts", "metrics", "reading"},
         Common(j, E), j.cmd \in Command \cup {NoCommand}, j.series = <<>>,
         j.calls = 0, j.reply = "none",
         p = "alerts" => j.cmd.product = "alerts",
         p # "alerts" => j.cmd = NoCommand
  PROVE  JobInv(Request(j, p), E)
<1> DEFINE a == Request(j, p)
<1>1. /\ Shape(a) /\ a.pc = p /\ a.calls \in Nat /\ a.calls <= 1
      /\ a.cmd = j.cmd /\ a.item = j.item /\ a.cache = j.cache
      /\ a.series = <<>> /\ a.began = j.began /\ a.reply = "none"
      /\ a.diagrams = j.diagrams
  BY RequestIs DEF Common
<1> HIDE DEF a
<1>2. Common(a, E)
  BY <1>1 DEF Common, Awaiting
<1>3. Len(a.series) <= MaxItems /\ 1 .. Len(a.series) = {}
  BY <1>1, BuildAssumption
<1>4. a.calls <= 1 + Cardinality(MetricItems(a.cmd))
  BY <1>1, ItemsNumber
<1>5. JobInv(a, E)
  BY <1>1, <1>2, <1>3, <1>4 DEF JobInv, OfMetrics
<1> QED
  BY <1>5 DEF a

\* GraphicsService.build up to its first call.
LEMMA BeginGood ==
  ASSUME NEW c \in Command, NEW E \in 0 .. MaxEpoch
  PROVE  JobInv(Begin([Idle EXCEPT !.cmd = c, !.began = E]), E)
<1> DEFINE j == [Idle EXCEPT !.cmd = c, !.began = E]
<1>1. /\ Common(j, E) /\ j.cmd = c /\ j.pc = "idle" /\ j.reply = "none"
      /\ j.cache = NoCatalogue /\ j.series = <<>> /\ j.calls = 0
      /\ j.nodata = {} /\ j.began = E
  <2>1. j \in Fresh(c, E)
    BY DEF Idle, Fresh
  <2> HIDE DEF j
  <2> QED
    BY <2>1, FreshIs
<1> HIDE DEF j
<1>2. ASSUME NEW r \in RequestError PROVE JobInv(Answer(j, r), E)
  <2>1. r \in DOMAIN Status /\ r # "ok"
    BY Outcomes
  <2> QED
    BY <1>1, <2>1, Items, AnswerEmpty
<1>3. c.product = "alerts" => JobInv(Request(j, "alerts"), E)
  BY <1>1, FirstCall
<1>4. JobInv(Proceed(j, 0), E)
  <2>1. Upto(c, 0) = {}
    BY Items DEF Upto
  <2>2. Len(j.series) = 0 /\ 0 \in 0 .. MaxItems
    BY <1>1, BuildAssumption
  <2>3. Answered(j, 0)
    BY <1>1, <2>1, <2>2 DEF Answered
  <2>4. Between(j, 0, E)
    BY <1>1, <2>1, <2>2, <2>3 DEF Between
  <2> QED
    BY <2>4, ProceedGood
<1>5. JobInv(Begin(j), E)
  BY <1>1, <1>2, <1>3, <1>4 DEF Begin, RequestError
<1> QED
  BY <1>5 DEF j

\* A later version of the catalogue takes nothing from what a build knows.
LEMMA LaterGood ==
  ASSUME NEW j, NEW E \in Nat, NEW F \in Nat, E <= F, JobInv(j, E)
  PROVE  JobInv(j, F)
<1>1. Common(j, E) => Common(j, F)
  BY DEF Common
<1>2. AtItem(j, E) => AtItem(j, F)
  BY <1>1 DEF AtItem
<1> QED
  BY <1>1, <1>2 DEF JobInv

-----------------------------------------------------------------------------
(***************************************************************************)
(* The inductive invariant, and what follows from it                       *)
(***************************************************************************)
\* What a build becomes by a step of its own.
LEMMA BecomesGood ==
  ASSUME IInv, NEW b \in Build, NEW j, Becomes(b, j), JobInv(j, catalogue.epoch)
  PROVE  IInv'
<1>1. /\ catalogue' = catalogue
      /\ job' = [d \in Build |-> IF d = b THEN j ELSE job[d]]
  BY DEF IInv, Becomes
<1> QED
  BY <1>1 DEF IInv

\* No request has come in yet.
LEMMA InitIInv == Init => IInv
<1> SUFFICES ASSUME Init PROVE IInv
  OBVIOUS
<1>1. catalogue \in Catalogue /\ catalogue.epoch = 0
  BY BuildAssumption DEF Init, Catalogue
<1>2. Idle \in Fresh(NoCommand, 0)
  BY DEF Idle, Fresh
<1>3. 0 \in 0 .. MaxEpoch
  BY BuildAssumption
<1>4. /\ Common(Idle, 0) /\ Idle.cmd = NoCommand /\ Idle.pc = "idle"
      /\ Idle.reply = "none" /\ Idle.series = <<>> /\ Idle.calls = 0
  BY <1>2, <1>3, FreshIs
<1>5. Len(Idle.series) <= MaxItems /\ 1 .. Len(Idle.series) = {}
  BY <1>4, BuildAssumption
<1>6. JobInv(Idle, 0)
  BY <1>4, <1>5, ItemsNone DEF JobInv, OfMetrics
<1>7. job = [b \in Build |-> Idle]
  BY DEF Init
<1> HIDE DEF Init
<1> QED
  BY <1>1, <1>6, <1>7 DEF IInv

\* Every step of every build, and every change of the catalogue, keeps it.
LEMMA StepIInv == IInv /\ [Next]_vars => IInv'
<1> SUFFICES ASSUME IInv, [Next]_vars PROVE IInv'
  OBVIOUS
<1> DEFINE E == catalogue.epoch
<1>1. catalogue \in Catalogue /\ E \in 0 .. MaxEpoch /\ E \in Nat
  BY BuildAssumption DEF IInv, Catalogue
<1>2. ASSUME NEW b \in Build PROVE JobInv(job[b], E)
  BY <1>2 DEF IInv
<1> HIDE DEF E
<1>3. ASSUME NEW b \in Build, NEW c \in Command, Arrive(b, c) PROVE IInv'
  BY <1>1, <1>3, BeginGood, BecomesGood DEF Arrive, E
<1>4. ASSUME NEW b \in Build, Read(b) PROVE IInv'
  <2> DEFINE j == [Idle EXCEPT !.began = E]
  <2>0. j \in Fresh(NoCommand, E)
    BY DEF Idle, Fresh
  <2>1. PICK n \in {Request(j, "metrics"), Request(j, "reading"),
                    Answer(j, "ok"), Answer(j, "Exception")} : Becomes(b, n)
    BY <1>4 DEF Read, E
  <2> HIDE DEF j
  <2>2. /\ Common(j, E) /\ j.cmd = NoCommand /\ j.reply = "none"
        /\ j.series = <<>> /\ j.calls = 0
    BY <1>1, <2>0, FreshIs
  <2>3. JobInv(Request(j, "metrics"), E) /\ JobInv(Request(j, "reading"), E)
    BY <2>2, FirstCall
  <2>4. JobInv(Answer(j, "ok"), E) /\ JobInv(Answer(j, "Exception"), E)
    <3>1. "none" \notin {"metrics", "projects"}
      OBVIOUS
    <3> QED
      BY <2>2, <3>1, ItemsNone, ItemsNumber, AnswerEmpty, Outcomes
  <2> QED
    BY <2>1, <2>3, <2>4, BecomesGood DEF E
<1>5. ASSUME NEW b \in Build, MetricsListed(b) PROVE IInv'
  <2> DEFINE s == <<[item |-> 0, epoch |-> E]>>
             j == [job[b] EXCEPT !.series = s]
  <2>1. /\ Common(job[b], E) /\ job[b].cmd = NoCommand /\ job[b].series = <<>>
        /\ job[b].calls <= 1 + Cardinality(MetricItems(job[b].cmd))
        /\ job[b].began \in 0 .. E
    BY <1>2, <1>5 DEF MetricsListed, JobInv, Common
  <2>2. /\ Shape(j) /\ j.pc = job[b].pc /\ j.cmd = job[b].cmd
        /\ j.item = job[b].item /\ j.cache = job[b].cache /\ j.series = s
        /\ j.reply = job[b].reply /\ j.began = job[b].began
        /\ j.calls = job[b].calls /\ j.nodata = job[b].nodata
        /\ j.diagrams = job[b].diagrams
    <3>1. j \in [pc : {job[b].pc}, cmd : {job[b].cmd}, item : {job[b].item},
                 cache : {job[b].cache}, series : {s},
                 diagrams : {job[b].diagrams}, reply : {job[b].reply},
                 began : {job[b].began}, calls : {job[b].calls},
                 nodata : {job[b].nodata}]
      BY <2>1 DEF Common, Shape
    <3> HIDE DEF j, s
    <3> QED
      BY <3>1 DEF Shape
  <2>3. /\ s \in Seq(Entry) /\ Len(s) = 1 /\ s[1].epoch = E
    <3>1. [item |-> 0, epoch |-> E] \in Entry
      BY <1>1, BuildAssumption DEF Entry
    <3> QED
      BY <3>1
  <2>4. Becomes(b, Answer(j, "ok"))
    BY <1>5 DEF MetricsListed, E
  <2> HIDE DEF j, s
  <2>5. Common(j, E)
    <3>1. DiagramsGood(j.diagrams, s, j.cmd)
      BY <2>1, <2>2, NoDiagrams DEF Common
    <3> QED
      BY <2>1, <2>2, <2>3, <3>1 DEF Common
  <2>6. /\ Len(j.series) <= MaxItems
        /\ \A n, m \in 1 .. Len(j.series) : /\ j.series[n].epoch = j.series[m].epoch
                                            /\ j.series[n].epoch >= j.began
    BY <1>1, <2>1, <2>2, <2>3, BuildAssumption
  <2>7. JobInv(Answer(j, "ok"), E)
    BY <2>1, <2>2, <2>5, <2>6, ItemsNone, AnswerGood, Outcomes
  <2> QED
    BY <2>4, <2>7, BecomesGood DEF E
<1>6. ASSUME NEW b \in Build, ReadReturns(b) PROVE IInv'
  <2>1. /\ Common(job[b], E) /\ job[b].cmd = NoCommand /\ job[b].series = <<>>
        /\ job[b].calls <= 1 + Cardinality(MetricItems(job[b].cmd))
    BY <1>2, <1>6 DEF ReadReturns, JobInv
  <2>2. JobInv(Answer(job[b], "ok"), E)
    BY <2>1, ItemsNone, AnswerEmpty, Outcomes
  <2> QED
    BY <1>6, <2>2, BecomesGood DEF ReadReturns, E
<1>7. ASSUME NEW b \in Build, FieldsListed(b) PROVE IInv'
  <2> DEFINE j == [job[b] EXCEPT !.cache = catalogue]
  <2>1. /\ AtItem(job[b], E) /\ job[b].series = <<>> /\ job[b].calls <= 1
        /\ job[b].reply = "none" /\ Common(job[b], E)
        /\ job[b].began \in 0 .. E
    BY <1>2, <1>7 DEF FieldsListed, JobInv, Common
  <2>2. /\ Shape(j) /\ j.pc = job[b].pc /\ j.cmd = job[b].cmd
        /\ j.item = job[b].item /\ j.cache = catalogue
        /\ j.series = job[b].series
        /\ j.reply = job[b].reply /\ j.began = job[b].began
        /\ j.calls = job[b].calls /\ j.nodata = job[b].nodata
        /\ j.diagrams = job[b].diagrams
    <3>1. j \in [pc : {job[b].pc}, cmd : {job[b].cmd}, item : {job[b].item},
                 cache : {catalogue}, series : {job[b].series},
                 diagrams : {job[b].diagrams}, reply : {job[b].reply},
                 began : {job[b].began}, calls : {job[b].calls},
                 nodata : {job[b].nodata}]
      BY <2>1 DEF Common, Shape
    <3> HIDE DEF j
    <3> QED
      BY <3>1 DEF Shape
  <2>3. Becomes(b, Resolve(j))
    BY <1>7 DEF FieldsListed
  <2> HIDE DEF j
  <2>4. Common(j, E)
    BY <1>1, <2>1, <2>2 DEF Common
  <2>5. AtItem(j, E)
    BY <2>1, <2>2, <2>4 DEF AtItem, Answered
  <2>6. Cached(j)
    <3>1. E >= j.began /\ 1 .. Len(j.series) = {}
      BY <1>1, <2>1, <2>2
    <3> QED
      BY <1>1, <2>2, <3>1 DEF Cached, E
  <2>7. j.calls <= Cardinality(Upto(j.cmd, j.item))
    <3>1. j.cmd \in Command /\ j.item \in MetricItems(j.cmd) /\ j.calls \in Nat
      BY <2>4, <2>5 DEF AtItem, Common
    <3>2. j.item \in Upto(j.cmd, j.item) /\ Upto(j.cmd, j.item) # {}
      BY <3>1, Items DEF Upto
    <3>3. Cardinality(Upto(j.cmd, j.item)) # 0
      BY <3>1, <3>2, ItemsUpto, FS_EmptySet
    <3> QED
      BY <2>1, <2>2, <3>1, <3>3, ItemsUpto
  <2>8. JobInv(Resolve(j), E)
    BY <2>1, <2>2, <2>5, <2>6, <2>7, ResolveGood
  <2> QED
    BY <2>3, <2>8, BecomesGood DEF E
<1>8. ASSUME NEW b \in Build, NEW some \in BOOLEAN, DatasetsFetched(b, some)
      PROVE  IInv'
  <2> DEFINE w == IF some THEN WithData(job[b]) ELSE WithoutData(job[b])
  <2>1. Between(w, job[b].item, E)
    BY <1>1, <1>2, <1>8, FetchedGood DEF DatasetsFetched
  <2>2. w.item = job[b].item
    <3>1. Shape(job[b])
      BY <1>2 DEF JobInv, Common
    <3>2. CASE some
      BY <3>1, <3>2 DEF WithData, Shape
    <3>3. CASE ~some
      BY <3>1, <3>3 DEF WithoutData, Shape
    <3> QED
      BY <3>2, <3>3
  <2>3. Becomes(b, Proceed(w, w.item))
    BY <1>8 DEF DatasetsFetched
  <2> HIDE DEF w
  <2>4. JobInv(Proceed(w, w.item), E)
    BY <2>1, <2>2, ProceedGood
  <2> QED
    BY <2>3, <2>4, BecomesGood DEF E
<1>9. ASSUME NEW b \in Build, NEW some \in BOOLEAN, EventsFetched(b, some)
      PROVE  IInv'
  <2> DEFINE s == <<[item |-> 0, epoch |-> job[b].began]>>
             j == [job[b] EXCEPT !.series = s]
  <2>1. /\ Common(job[b], E) /\ job[b].cmd \in Command \cup {NoCommand}
        /\ job[b].cmd.product = "alerts" /\ job[b].series = <<>>
        /\ job[b].calls <= 1 + Cardinality(MetricItems(job[b].cmd))
        /\ job[b].began \in 0 .. E
    BY <1>2, <1>9 DEF EventsFetched, JobInv, Common
  <2>2. CASE ~some
    <3>1. JobInv(Answer(job[b], "ok"), E)
      BY <2>1, AnswerEmpty, Outcomes
    <3> QED
      BY <1>9, <2>2, <3>1, BecomesGood DEF EventsFetched, E
  <2>3. CASE some
    <3>1. /\ Shape(j) /\ j.pc = job[b].pc /\ j.cmd = job[b].cmd
          /\ j.item = job[b].item /\ j.cache = job[b].cache /\ j.series = s
          /\ j.reply = job[b].reply /\ j.began = job[b].began
          /\ j.calls = job[b].calls /\ j.nodata = job[b].nodata
        /\ j.diagrams = job[b].diagrams
      <4>1. j \in [pc : {job[b].pc}, cmd : {job[b].cmd}, item : {job[b].item},
                   cache : {job[b].cache}, series : {s},
                   diagrams : {job[b].diagrams}, reply : {job[b].reply},
                   began : {job[b].began}, calls : {job[b].calls},
                   nodata : {job[b].nodata}]
        BY <2>1 DEF Common, Shape
      <4> HIDE DEF j, s
      <4> QED
        BY <4>1 DEF Shape
    <3>2. /\ s \in Seq(Entry) /\ Len(s) = 1 /\ s[1].epoch = job[b].began
      <4>1. [item |-> 0, epoch |-> job[b].began] \in Entry
        BY <1>1, <2>1, BuildAssumption DEF Entry
      <4> QED
        BY <4>1
    <3>3. Becomes(b, Answer(j, "ok"))
      BY <1>9, <2>3 DEF EventsFetched
    <3> HIDE DEF j, s
    <3>4. Common(j, E)
      <4>1. DiagramsGood(j.diagrams, s, j.cmd)
        BY <2>1, <3>1, NoDiagrams DEF Common
      <4> QED
        BY <2>1, <3>1, <3>2, <4>1 DEF Common
    <3>5. /\ Len(j.series) <= MaxItems
          /\ \A n, m \in 1 .. Len(j.series) :
               /\ j.series[n].epoch = j.series[m].epoch
               /\ j.series[n].epoch >= j.began
      BY <1>1, <2>1, <3>1, <3>2, BuildAssumption
    <3>6. JobInv(Answer(j, "ok"), E)
      BY <2>1, <3>1, <3>4, <3>5, AnswerGood, Outcomes
    <3> QED
      BY <3>3, <3>6, BecomesGood DEF E
  <2> QED
    BY <2>2, <2>3
<1>10. ASSUME NEW b \in Build, NEW e \in UpstreamError, CallRaises(b, e)
       PROVE  IInv'
  <2>1. e \in DOMAIN Status /\ e # "ok"
    BY Outcomes
  <2>2. JobInv(job[b], E)
    BY <1>2
  <2>3. JobInv(Answer(job[b], e), E)
    BY <2>1, <2>2, AnswerGood DEF JobInv
  <2> QED
    BY <1>10, <2>3, BecomesGood DEF CallRaises, E
<1>11. ASSUME CatalogueChanges PROVE IInv'
  <2>1. /\ catalogue' \in Catalogue /\ catalogue'.epoch = E + 1 /\ job' = job
    BY <1>1, <1>11, BuildAssumption DEF CatalogueChanges, Catalogue, E
  <2>2. \A b \in Build : JobInv(job[b], E + 1)
    BY <1>1, <1>2, LaterGood
  <2> QED
    BY <2>1, <2>2 DEF IInv
<1>12. ASSUME UNCHANGED vars PROVE IInv'
  BY <1>12 DEF vars, IInv
<1> QED
  BY <1>3, <1>4, <1>5, <1>6, <1>7, <1>8, <1>9, <1>10, <1>11, <1>12
  DEF Next, Resume

\* The inductive invariant holds in every state of every behaviour.
THEOREM Invariant == Spec => []IInv
<1>1. IInv /\ [Next]_vars => IInv'
  BY StepIInv
<1> QED
  BY InitIInv, <1>1, PTL DEF Spec

\* TypeOK: a request is done just when it has an answer, has no more series than
\* items, and its resolver holds either no catalogue or one of the service's.
THEOREM BuildTypes == Spec => []TypeOK
<1>1. IInv => TypeOK
  BY DEF IInv, TypeOK, JobInv, Common
<1> QED
  BY <1>1, Invariant, PTL

\* All or nothing: a 200 for metrics or projects answers every metric item it
\* had data for exactly once and in order, whatever failed, changed or ran
\* between the calls, for any number of items and of requests.
THEOREM AnswersAll == Spec => []AnswersEveryItem
<1>1. IInv => AnswersEveryItem
  <2> SUFFICES ASSUME IInv, NEW b \in Build, OfMetrics(job[b])
               PROVE  LET j == job[b]
                          answered == [n \in DOMAIN j.series |-> j.series[n].item]
                      IN /\ {answered[n] : n \in DOMAIN answered}
                              = MetricItems(j.cmd) \ j.nodata
                         /\ \A n, m \in DOMAIN answered :
                              n < m => answered[n] < answered[m]
    BY DEF AnswersEveryItem
  <2> DEFINE j == job[b]
             answered == [n \in DOMAIN j.series |-> j.series[n].item]
  <2>1. /\ Answered(j, MaxItems) /\ j.series \in Seq(Entry)
        /\ j.cmd \in Command \cup {NoCommand}
        /\ j.cmd.product \in {"metrics", "projects"}
    BY DEF IInv, JobInv, Common, OfMetrics
  <2>2. j.cmd \in Command
    BY <2>1, ItemsNone
  <2>3. DOMAIN j.series = 1 .. Len(j.series) /\ DOMAIN answered = 1 .. Len(j.series)
    BY <2>1, LenProperties
  <2>4. {answered[n] : n \in DOMAIN answered}
          = {j.series[n].item : n \in 1 .. Len(j.series)}
    BY <2>3
  <2>5. {answered[n] : n \in DOMAIN answered} = MetricItems(j.cmd) \ j.nodata
    BY <2>1, <2>2, <2>4, ItemsAll DEF Answered
  <2>6. \A n, m \in DOMAIN answered : n < m => answered[n] < answered[m]
    BY <2>1, <2>3 DEF Answered
  <2> QED
    BY <2>5, <2>6
<1> QED
  BY <1>1, Invariant, PTL

\* The series of one response come from one version of the catalogue, and not
\* from one older than the request, however often the service changes it.
THEOREM FreshCatalogue == Spec => []OneFreshCatalogue
<1>1. IInv => OneFreshCatalogue
  <2> SUFFICES ASSUME IInv, NEW b \in Build
               PROVE  \A n, m \in DOMAIN job[b].series :
                        /\ job[b].series[n].epoch = job[b].series[m].epoch
                        /\ job[b].series[n].epoch >= job[b].began
    BY DEF OneFreshCatalogue
  <2>1. JobInv(job[b], catalogue.epoch) /\ job[b].series \in Seq(Entry)
    BY DEF IInv, JobInv, Common
  <2>2. DOMAIN job[b].series = 1 .. Len(job[b].series)
    BY <2>1, LenProperties
  <2> QED
    BY <2>1, <2>2 DEF JobInv
<1> QED
  BY <1>1, Invariant, PTL

\* A request costs no more calls than one per metric item and one to list the
\* fields, however many items it has.
THEOREM FewCalls == Spec => []CallsBounded
<1>1. IInv => CallsBounded
  BY DEF IInv, JobInv, CallsBounded
<1> QED
  BY <1>1, Invariant, PTL

\* The diagrams of a response are of series in it, each type once for each time
\* it was asked for, and position_distribution only with a position metric, for
\* any list of requested_visualizations, with repetitions and unknown types.
THEOREM DiagramsMatch == Spec => []DiagramsMatchSeries
<1>1. IInv => DiagramsMatchSeries
  <2> SUFFICES ASSUME IInv, NEW b \in Build, NEW n \in DOMAIN job[b].diagrams
               PROVE  LET j == job[b]
                          d == j.diagrams[n]
                      IN /\ \E m \in DOMAIN j.series : j.series[m].item = d.item
                         /\ Cardinality({m \in DOMAIN j.diagrams :
                                           j.diagrams[m] = d})
                              = Cardinality({m \in DOMAIN j.cmd.visuals :
                                              j.cmd.visuals[m] = d.type})
                         /\ d.type = "position_distribution" =>
                              j.cmd.series[d.item] \in PositionMetrics
    BY DEF DiagramsMatchSeries
  <2> DEFINE j == job[b]
             d == j.diagrams[n]
  <2>1. /\ j.series \in Seq(Entry) /\ j.cmd \in Command \cup {NoCommand}
        /\ DiagramsGood(j.diagrams, j.series, j.cmd)
    BY DEF IInv, JobInv, Common
  <2>2. j.cmd.visuals \in Seq(STRING)
    <3>1. NoCommand.visuals \in Seq(STRING)
      BY EmptySeq DEF NoCommand
    <3>2. \A c \in Command : c.visuals \in Seq(STRING)
      BY BuildAssumption DEF Command
    <3> QED
      BY <2>1, <3>1, <3>2
  <2>3. j.diagrams \in Seq(Diagram)
    BY <2>1 DEF DiagramsGood
  <2>4. /\ DOMAIN j.series = 1 .. Len(j.series)
        /\ DOMAIN j.diagrams = 1 .. Len(j.diagrams)
        /\ DOMAIN j.cmd.visuals = 1 .. Len(j.cmd.visuals)
    BY <2>1, <2>2, <2>3, LenProperties
  <2>5. /\ Of(j.diagrams, d) = {m \in DOMAIN j.diagrams : j.diagrams[m] = d}
        /\ Asked(j.cmd, d.type)
             = {m \in DOMAIN j.cmd.visuals : j.cmd.visuals[m] = d.type}
    BY <2>4 DEF Of, Asked, AskedUpto
  <2> QED
    BY <2>1, <2>4, <2>5 DEF DiagramsGood
<1> QED
  BY <1>1, Invariant, PTL
=============================================================================
