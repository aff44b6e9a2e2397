---------------------------- MODULE GraphicsBuild ----------------------------
(***************************************************************************)
(* POST /graphics/build: GraphicsService.build validates the request,      *)
(* picks a product strategy, and the strategy collects its data from the   *)
(* statistics service one call after the other (application/graphics,      *)
(* infrastructure/providers).  The GET routes of the same router make at   *)
(* most one such call each.  Requests run concurrently.                    *)
(*                                                                         *)
(* One step is one run of the coroutine between two calls of               *)
(* NatsStatisticsClient.request(); by RpcPromise each call ends once, with *)
(* an answer to that call or an exception.  External: the catalogue of     *)
(* metrics, which the statistics service may change between two calls.     *)
(* What the builders compute from the data is in ChartData.                *)
(***************************************************************************)
EXTENDS Naturals, FiniteSets, Sequences, SequencesExt

CONSTANTS
  Build,               \* handlers: each serves one request after the other
  Code,                \* metric codes
  PositionMetrics,     \* POSITION_METRICS
  Product,             \* values of the field product, known or not
  Entity,              \* values of the field entity, known or not
  SupportedProducts,   \* ProjectConfig.supported_products
  SupportedEntities,   \* ProjectConfig.supported_entities
  Visuals,             \* values of requested_visualizations
  MaxItems,            \* bound: length of requested_series
  MaxEpoch             \* bound: changes of the catalogue

ASSUME BuildAssumption ==
  /\ PositionMetrics \subseteq Code
  /\ Code # {} /\ MaxItems \in Nat \ {0} /\ MaxEpoch \in Nat
  /\ \A v \in Visuals : v \in Seq(STRING)

VARIABLES catalogue,   \* the service's metrics and their aggregation rules
          job          \* Build -> what its request knows and has produced

vars == <<catalogue, job>>

Skip   == "skip"       \* an item that is no metric or has no metric_code
Absent == {"absent"}   \* a metric the catalogue lacks
Field  == {Absent} \cup SUBSET (Entity \cap SupportedEntities)

Catalogue   == [epoch : 0 .. MaxEpoch, fields : [Code -> Field]]
NoCatalogue == [epoch |-> 0, fields |-> <<>>]

Command == [product : Product, entity : Entity, visuals : Visuals,
            series : BoundedSeq(Code \cup {Skip}, MaxItems)]
NoCommand == [product |-> "none", entity |-> "none", visuals |-> <<>>,
              series |-> <<>>]

\* The exceptions that reach the handlers, and the status they turn into.
UpstreamError == {"GraphicsDataError", "ValidationError", "Exception"}
RequestError  == {"UNKNOWN_PRODUCT", "UNKNOWN_ENTITY", "UNKNOWN_METRIC"}

Status == [e \in {"ok"} \cup UpstreamError \cup RequestError |->
             CASE e = "ok" -> 200
               [] e = "GraphicsDataError" -> 502
               [] e = "Exception" -> 500
               [] OTHER -> 422]

Awaiting == {"listing", "fetching", "alerts", "metrics", "reading"}

TypeOK ==
  /\ catalogue \in Catalogue
  /\ \A b \in Build :
       /\ job[b].pc \in {"idle", "done"} \cup Awaiting
       /\ job[b].cmd \in Command \cup {NoCommand}
       /\ job[b].item \in 0 .. MaxItems
       /\ job[b].cache \in Catalogue \cup {NoCatalogue}
       /\ job[b].reply \in {"none"} \cup DOMAIN Status
       /\ job[b].pc = "done" <=> job[b].reply # "none"
       /\ Len(job[b].series) <= MaxItems

Idle == [pc |-> "idle", cmd |-> NoCommand, item |-> 0, cache |-> NoCatalogue,
         series |-> <<>>, diagrams |-> <<>>, reply |-> "none",
         began |-> 0, calls |-> 0, nodata |-> {}]   \* history

Init ==
  /\ \E F \in [Code -> Field] : catalogue = [epoch |-> 0, fields |-> F]
  /\ job = [b \in Build |-> Idle]

-----------------------------------------------------------------------------
(***************************************************************************)
(* The coroutine between two calls, as functions of a build's state j      *)
(***************************************************************************)
Answer(j, r) == [j EXCEPT !.pc = "done", !.reply = r]

\* The count of calls saturates at CallCap, one more than CallsBounded allows.
CallCap == MaxItems + 2
Request(j, p) ==
  [j EXCEPT !.pc = p, !.calls = IF @ < CallCap THEN @ + 1 ELSE @]

MetricItems(c) == {k \in DOMAIN c.series : c.series[k] # Skip}

\* MetricResolver.resolve on the fields it holds, then fetch_timeseries.
Resolve(j) ==
  LET field == j.cache.fields[j.cmd.series[j.item]]
  IN IF field = Absent THEN Answer(j, "UNKNOWN_METRIC")
     ELSE IF j.cmd.entity \notin field THEN Answer(j, "UNKNOWN_ENTITY")
     ELSE Request(j, "fetching")

\* The loop over requested_series goes on behind item i.
Proceed(j, i) ==
  LET rest == {k \in MetricItems(j.cmd) : k > i}
  IN IF rest = {} THEN Answer(j, "ok")
     ELSE LET n == [j EXCEPT !.item = CHOOSE k \in rest : \A l \in rest : k <= l]
          IN IF j.cache = NoCatalogue THEN Request(n, "listing") ELSE Resolve(n)

\* Mutant: the position_distribution is drawn for every metric.
DrawnForEveryMetric(code, v) ==
  v \in {"pie", "histogram", "position_distribution"}

\* get_visualization_builder has none for "line" and for unknown types.
Drawn(code, v) == \/ v \in {"pie", "histogram"}
                  \/ v = "position_distribution" /\ code \in PositionMetrics

\* Mutant: an item yields a series per entity, not the aggregated one.
WithDataPerEntity(j) ==
  LET s == [item |-> j.item, epoch |-> j.cache.epoch]
  IN [j EXCEPT !.series = @ \o <<s, s>>]

WithData(j) ==
  LET code == j.cmd.series[j.item]
      Show(shown, v) == IF Drawn(code, v)
                        THEN Append(shown, [item |-> j.item, type |-> v])
                        ELSE shown
  IN [j EXCEPT
        !.series = Append(@, [item |-> j.item, epoch |-> j.cache.epoch]),
        !.diagrams = FoldLeft(Show, @, j.cmd.visuals)]

WithoutData(j) == [j EXCEPT !.nodata = @ \cup {j.item}]

\* GraphicsService.build up to the first call.
Begin(j) ==
  IF SupportedProducts # {} /\ j.cmd.product \notin SupportedProducts
  THEN Answer(j, "UNKNOWN_PRODUCT")
  ELSE IF SupportedEntities # {} /\ j.cmd.entity \notin SupportedEntities
  THEN Answer(j, "UNKNOWN_ENTITY")
  ELSE CASE j.cmd.product \in {"metrics", "projects"} -> Proceed(j, 0)
         [] j.cmd.product = "alerts" -> Request(j, "alerts")
         [] OTHER -> Answer(j, "UNKNOWN_PRODUCT")

-----------------------------------------------------------------------------
Becomes(b, j) == job' = [job EXCEPT ![b] = j] /\ UNCHANGED catalogue

\* Mutant: the resolver, and the fields it caches, outlive the request.
ArriveShared(b, c) ==
  /\ job[b].pc \in {"idle", "done"}
  /\ \E d \in Build :
       Becomes(b, Begin([Idle EXCEPT !.cmd = c, !.began = catalogue.epoch,
                                     !.cache = job[d].cache]))

Arrive(b, c) ==
  /\ job[b].pc \in {"idle", "done"}
  /\ Becomes(b, Begin([Idle EXCEPT !.cmd = c, !.began = catalogue.epoch]))

(***************************************************************************)
(* GET /graphics/metrics, /projects/search, /filters/fields and            *)
(* /filters/values.  A blank search is answered without a call; a field_id *)
(* that is no UUID raises ValueError before there is one.                  *)
(***************************************************************************)
Read(b) ==
  /\ job[b].pc \in {"idle", "done"}
  /\ LET j == [Idle EXCEPT !.began = catalogue.epoch]
     IN \E n \in {Request(j, "metrics"), Request(j, "reading"),
                  Answer(j, "ok"), Answer(j, "Exception")} : Becomes(b, n)

\* fetch_metric_fields returns to list_metrics, which lists what it returned.
MetricsListed(b) ==
  /\ job[b].pc = "metrics"
  /\ Becomes(b, Answer([job[b] EXCEPT
                         !.series = <<[item |-> 0, epoch |-> catalogue.epoch]>>],
                       "ok"))

\* The answer is passed on as it is.
ReadReturns(b) == job[b].pc = "reading" /\ Becomes(b, Answer(job[b], "ok"))

\* fetch_metric_fields returns; resolve() goes on.
FieldsListed(b) ==
  /\ job[b].pc = "listing"
  /\ Becomes(b, Resolve([job[b] EXCEPT !.cache = catalogue]))

\* Mutant: an item without data is looked up and fetched again.
FetchedRetries(b, some) ==
  /\ job[b].pc = "fetching"
  /\ LET j == job[b]
     IN Becomes(b, IF some THEN Proceed(WithData(j), j.item)
                   ELSE Proceed([j EXCEPT !.cache = NoCatalogue], j.item - 1))

\* fetch_timeseries returns, with datasets or with an empty list.
DatasetsFetched(b, some) ==
  /\ job[b].pc = "fetching"
  /\ LET j == IF some THEN WithData(job[b]) ELSE WithoutData(job[b])
     IN Becomes(b, Proceed(j, j.item))

\* fetch_alert_history returns: one series of markers, or none.
EventsFetched(b, some) ==
  /\ job[b].pc = "alerts"
  /\ Becomes(b, Answer(IF some THEN [job[b] EXCEPT !.series =
                                       <<[item |-> 0, epoch |-> job[b].began]>>]
                               ELSE job[b], "ok"))

\* Mutant: an item whose data cannot be fetched is left out of the result.
CallRaisesSkips(b, e) ==
  /\ job[b].pc \in Awaiting
  /\ Becomes(b, IF job[b].pc = "fetching" THEN Proceed(job[b], job[b].item)
                ELSE Answer(job[b], e))

\* The call raises: a timeout, an unavailable source or an error answer
\* (GraphicsDataError), a payload that pydantic rejects (ValidationError), a
\* payload without the expected key (Exception) or a cancelled future, which the
\* server turns into a 500 too.  Nothing catches it below the handlers.  What the
\* GET routes pass on is not validated.
CallRaises(b, e) ==
  /\ job[b].pc \in Awaiting
  /\ job[b].pc = "reading" => e # "ValidationError"
  /\ Becomes(b, Answer(job[b], e))

\* External: a metric is added, removed, or its aggregation rules change.
CatalogueChanges ==
  /\ catalogue.epoch < MaxEpoch
  /\ \E F \in [Code -> Field] :
       catalogue' = [epoch |-> catalogue.epoch + 1, fields |-> F]
  /\ UNCHANGED job

-----------------------------------------------------------------------------
Resume(b) ==
  \/ FieldsListed(b) \/ MetricsListed(b) \/ ReadReturns(b)
  \/ \E some \in BOOLEAN : DatasetsFetched(b, some) \/ EventsFetched(b, some)
  \/ \E e \in UpstreamError : CallRaises(b, e)

Next ==
  \/ \E b \in Build : \/ \E c \in Command : Arrive(b, c)
                      \/ Read(b) \/ Resume(b)
  \/ CatalogueChanges

\* Every call ends (RpcPromise!Spec).
Spec == Init /\ [][Next]_vars /\ \A b \in Build : WF_vars(Resume(b))

-----------------------------------------------------------------------------
(***************************************************************************)
(* Properties                                                              *)
(***************************************************************************)
OfMetrics(j) == j.reply = "ok" /\ j.cmd.product \in {"metrics", "projects"}

\* All or nothing: a 200 answers every metric item exactly once, in the order of
\* requested_series, leaving out only those the service had no data for.  A call
\* that failed half-way never yields a shorter chart that looks complete.
AnswersEveryItem ==
  \A b \in Build : OfMetrics(job[b]) =>
    LET j == job[b]
        answered == [n \in DOMAIN j.series |-> j.series[n].item]
    IN /\ {answered[n] : n \in DOMAIN answered} = MetricItems(j.cmd) \ j.nodata
       /\ \A n, m \in DOMAIN answered : n < m => answered[n] < answered[m]

\* All series of one response were resolved against one version of the
\* catalogue, though the service changed it between the calls of the build, and
\* not against one that was out of date when the request came in: the resolver's
\* cache lives just as long as the request (metric_resolver.py:13).
OneFreshCatalogue ==
  \A b \in Build : \A n, m \in DOMAIN job[b].series :
    /\ job[b].series[n].epoch = job[b].series[m].epoch
    /\ job[b].series[n].epoch >= job[b].began

\* A build costs one call per metric item and one to list the fields at most,
\* however many items there are.
CallsBounded ==
  \A b \in Build : job[b].calls <= 1 + Cardinality(MetricItems(job[b].cmd))

\* Diagrams go with a series of the same result, each type once for each time it
\* was asked for, and position_distribution only with a position metric.
DiagramsMatchSeries ==
  \A b \in Build : \A n \in DOMAIN job[b].diagrams :
    LET j == job[b]
        d == j.diagrams[n]
    IN /\ \E m \in DOMAIN j.series : j.series[m].item = d.item
       /\ Cardinality({m \in DOMAIN j.diagrams : j.diagrams[m] = d}) =
            Cardinality({m \in DOMAIN j.cmd.visuals : j.cmd.visuals[m] = d.type})
       /\ d.type = "position_distribution" =>
            j.cmd.series[d.item] \in PositionMetrics

\* Every request is answered.
EveryBuildEnds ==
  \A b \in Build : job[b].pc \in Awaiting ~> job[b].pc = "done"

\* exception_handlers.py:115 tells the client of a ValidationError "Request
\* validation failed", with status 422.  Refuted: the exception is raised only
\* for what the statistics service sent.
InvalidOnlyIfRequestIs ==
  \A b \in Build :
    job[b].reply # "none" /\ Status[job[b].reply] = 422 =>
      job[b].reply \in RequestError
=============================================================================
