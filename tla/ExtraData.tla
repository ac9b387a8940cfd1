------------------------------- MODULE ExtraData -------------------------------
(***************************************************************************)
(* The series GetExtraDataEx serves besides quotes: who owns a stock,      *)
(* figures of its balance sheets, and what its brokers bought and sold.    *)
(* A call finds its series in a store (extradata/*_store.cpp) and fills    *)
(* the chart's bars, or finds nothing there and then submits a fetch task; *)
(* the worker fetches an answer, whose parser writes the store while calls *)
(* go on.  The queue is that of TaskQueue, which FetchQueue implements;    *)
(* one action is one critical section of a store or of the queue, one turn *)
(* of a fill, or one turn of the loop over the points of a figure.         *)
(*                                                                         *)
(* One thread that fills is enough: calls work on copies and meet only in  *)
(* the stores, which they do not write.                                    *)
(***************************************************************************)
EXTENDS ForwardFill

LOCAL INSTANCE Functions

CONSTANTS
  Ownership,    \* the OWN_INDIV and OWN_CORP series, each with a task of its own
  Financials,   \* the FINANCIALS tasks, one per symbol ...
  Items,        \* ... for all the figures of the symbol
  Flows,        \* the RITEL_FLOW and BROKERFLOW series, each with its task
  Charts,       \* what the server may send as the chart of a series
  FlowCharts,   \* the daily values of all brokers of a flow, one after the other
  BarArrays,    \* the bars AmiBroker may have
  NoTask, NoFigure

Figures == Financials \X Items
Series  == Ownership \union Figures \union Flows
Keys    == Ownership \union Financials \union Flows

ASSUME SeriesAssumption ==
  /\ Ownership \intersect (Figures \union Flows) = {} /\ Flows \intersect Figures = {}
  /\ Financials \intersect (Ownership \union Flows) = {}
  /\ NoTask \notin Keys
ASSUME ChartsAssumption == Charts \subseteq Seq(DataPoint)
ASSUME BarsAssumption ==
  BarArrays \subseteq Seq(Dates) /\ \A bars \in BarArrays : Ascend(bars)

VARIABLES
  store,    \* OwnershipStore, FinancialStore and RitelStore; <<>> when no entry
  missed,   \* the series a lookup did not find, its task to be submitted
  queue,    \* tasks submitted and not started
  task,     \* what the worker is doing
  reading,  \* its answer, if there is one, is still to be parsed
  figure    \* the figure that is read of it, with the points so far

storeVars == <<store, missed, queue, task, reading, figure>>
vars == <<fillVars, storeVars>>

KeyOf(s) == IF s \in Figures THEN s[1] ELSE s

Init ==
  /\ FillInit
  /\ store = [s \in Series |-> <<>>]
  /\ missed = {} /\ queue = {}
  /\ task = NoTask /\ reading = FALSE /\ figure = NoFigure

-----------------------------------------------------------------------------
(* AmiBroker's thread.                                                     *)

\* The lookup: a series without points is missing, its bars are all EMPTY_VAL ...
Miss(s) ==
  /\ ~Filling /\ missed = {} /\ store[s] = <<>>
  /\ missed' = {s}
  /\ UNCHANGED <<fillVars, store, queue, task, reading, figure>>

\* ... and, in another critical section, its task is submitted, whether or not
\* the worker has stored the series since.  A task being done may or may not be
\* taken again.
QueueMissed(s) ==
  /\ s \in missed
  /\ missed' = {}
  /\ \/ queue' = queue \union {KeyOf(s)}
     \/ KeyOf(s) = task /\ UNCHANGED queue
  /\ UNCHANGED <<fillVars, store, task, reading, figure>>

Hit(s) ==
  /\ missed = {} /\ store[s] # <<>>
  /\ \E bars \in BarArrays : StartFill(store[s], bars)
  /\ UNCHANGED storeVars

-----------------------------------------------------------------------------
(* The worker.                                                             *)

StartTask(k) ==
  /\ task = NoTask /\ k \in queue
  /\ task' = k /\ queue' = queue \ {k}
  /\ reading' = TRUE
  /\ UNCHANGED <<fillVars, store, missed, figure>>

\* The set() of a store, under its mutex.
Store(s, chart) == store' = [store EXCEPT ![s] = chart]

\* The last step of an answer.
AnswerRead == reading' = FALSE /\ UNCHANGED <<fillVars, missed, queue, task, figure>>

\* Mutant: the answer's points are added to those the store has.
FetchMoreOwnership ==
  /\ reading /\ task \in Ownership
  /\ \E chart \in Charts : \E n \in 0..Len(chart) :
       Len(store[task]) < MaxTs /\ Store(task, store[task] \o SubSeq(chart, 1, n))
  /\ AnswerRead

\* OwnershipFetcher: the chart up to the first point the parser stumbles over
\* is stored, even when that is nothing.  A point with a field missing is
\* skipped, which leaves a chart like any other.
FetchOwnership ==
  /\ reading /\ task \in Ownership
  /\ \E chart \in Charts : \E n \in 0..Len(chart) :
       Store(task, SubSeq(chart, 1, n))
  /\ AnswerRead

\* FinancialParser: the next figure of the answer, with its item_id.
BeginFigure ==
  /\ reading /\ task \in Financials /\ figure = NoFigure
  /\ \E i \in Items, chart \in Charts :
       figure' = [item |-> i, chart_data |-> chart, data_points |-> <<>>]
  /\ UNCHANGED <<fillVars, store, missed, queue, task, reading>>

\* Its next point, with EMPTY_VAL for a value that is not a number.
ReadPoint ==
  /\ figure # NoFigure /\ Len(figure.data_points) < Len(figure.chart_data)
  /\ figure' = [figure EXCEPT !.data_points =
                  Append(@, figure.chart_data[Len(@) + 1])]
  /\ UNCHANGED <<fillVars, store, missed, queue, task, reading>>

\* After the last one the figure is stored, unless it has no point at all.
StoreFigure ==
  /\ figure # NoFigure /\ Len(figure.data_points) = Len(figure.chart_data)
  /\ IF figure.data_points # <<>>
       THEN Store(<<task, figure.item>>, figure.data_points)
       ELSE UNCHANGED store
  /\ figure' = NoFigure
  /\ UNCHANGED <<fillVars, missed, queue, task, reading>>

\* Mutant: what was read of the figure is stored before the answer is given up.
StoreAndThrow ==
  /\ reading /\ task \in Financials \union Flows
  /\ IF figure # NoFigure /\ figure.data_points # <<>>
       THEN Store(<<task, figure.item>>, figure.data_points)
       ELSE UNCHANGED store
  /\ reading' = FALSE /\ figure' = NoFigure
  /\ UNCHANGED <<fillVars, missed, queue, task>>

\* FinancialParser and RitelParser throw, at any point, or have read the answer:
\* what they hold in locals is dropped, the figures stored before stay.
ParserReturns ==
  /\ reading /\ task \in Financials \union Flows
  /\ reading' = FALSE /\ figure' = NoFigure
  /\ UNCHANGED <<fillVars, store, missed, queue, task>>

\* daily_totals, keyed by time_t; a date that does not parse gives 0.
DatesIn(chart) == {chart[k].date : k \in DOMAIN chart} \ {0}
Total(chart, d) ==
  FoldFunctionOnSet(+, 0, [k \in DOMAIN chart |-> chart[k].flow],
                    {k \in DOMAIN chart : chart[k].date = d})

ASSUME FlowChartsAssumption ==
  /\ FlowCharts \subseteq Seq([date : Dates, flow : Values])
  /\ \A chart \in FlowCharts : \A d \in DatesIn(chart) : Total(chart, d) \in Values

\* The keys of the map in their order.
Days(chart) ==
  {days \in UNION {[1..n -> DatesIn(chart)] : n \in 0..Len(chart)} :
     /\ DatesIn(chart) \subseteq Range(days)
     /\ \A i, j \in DOMAIN days : i < j => days[i] < days[j]}

\* final_data: what the store holds of the days.
FinalData(chart, days) ==
  [k \in DOMAIN days |-> [ts |-> AmiDateToUnix(days[k]), value |-> Total(chart, days[k])]]

\* Mutant: the brokers' points are stored one after the other.
StoreUnsummed ==
  /\ reading /\ task \in Flows
  /\ \E chart \in FlowCharts :
       LET dates == [k \in DOMAIN chart |-> chart[k].date]
       IN  0 \notin Range(dates) /\ Store(task, FinalData(chart, dates))
  /\ AnswerRead

\* Mutant: an answer without a usable day replaces the flow.
StoreAnyFlow ==
  /\ reading /\ task \in Flows
  /\ \E chart \in FlowCharts : \E days \in Days(chart) :
       Store(task, FinalData(chart, days))
  /\ AnswerRead

\* Mutant: a broker's flow is stored under the key of the retail flow.
StoreUnderOneKey ==
  /\ reading /\ task \in Flows
  /\ \E chart \in FlowCharts, s \in Flows : \E days \in Days(chart) :
       days # <<>> /\ Store(s, FinalData(chart, days))
  /\ AnswerRead

\* RitelParser: a flow is stored as a whole, and only if it has a day.
StoreFlow ==
  /\ reading /\ task \in Flows
  /\ \E chart \in FlowCharts : \E days \in Days(chart) :
       days # <<>> /\ Store(task, FinalData(chart, days))
  /\ AnswerRead

\* json.empty(): the request failed.
NoAnswer ==
  /\ reading /\ figure = NoFigure
  /\ AnswerRead
  /\ UNCHANGED store

EndTask ==
  /\ task # NoTask /\ ~reading
  /\ task' = NoTask
  /\ UNCHANGED <<fillVars, store, missed, queue, reading, figure>>

-----------------------------------------------------------------------------
Next ==
  \/ \E s \in Series : Miss(s) \/ QueueMissed(s) \/ Hit(s)
  \/ FillStep /\ UNCHANGED storeVars
  \/ \E k \in Keys : StartTask(k)
  \/ FetchOwnership
  \/ BeginFigure \/ ReadPoint \/ StoreFigure
  \/ StoreFlow
  \/ ParserReturns \/ NoAnswer \/ EndTask

Spec == Init /\ [][Next]_vars

-----------------------------------------------------------------------------
(* Properties.                                                             *)

Prefix(points, chart) ==
  Len(points) <= Len(chart) /\ \A k \in DOMAIN points : points[k] = chart[k]

\* Types; an ownership series is the beginning of one chart, and so is what has
\* been read of a figure.
TypeOK ==
  /\ store \in [Series -> Seq(DataPoint)]
  /\ \A s \in Ownership :
       store[s] # <<>> => \E chart \in Charts : Prefix(store[s], chart)
  /\ missed \subseteq Series /\ queue \subseteq Keys
  /\ task \in Keys \union {NoTask}
  /\ reading \in BOOLEAN /\ (reading => task # NoTask)
  /\ figure # NoFigure =>
       /\ reading /\ task \in Financials
       /\ figure \in [item : Items, chart_data : Charts, data_points : Seq(DataPoint)]
       /\ Prefix(figure.data_points, figure.chart_data)

\* A figure is stored with all the points the server sent or not at all: an
\* exception at whatever point of an answer leaves no chart that ends too soon,
\* which would be shown as if nothing had been reported since and, being a hit,
\* never be fetched again.  It says most where no chart is part of another.
FiguresAreWhole == \A s \in Figures : store[s] \in Charts \union {<<>>}

\* The days of a flow ascend, as the fill needs them to, however the brokers'
\* days are mixed.  Days mktime cannot represent are summed up under -1, which
\* sorts first and is stored as the last of all dates.
FlowsAscend ==
  \A s \in Flows : \A i, j \in DOMAIN store[s] :
    i < j => \/ store[s][i].ts < store[s][j].ts
             \/ i = 1 /\ store[s][1].ts = MaxTs

\* A series that bars were filled from is not lost again, however broken later
\* answers are: of all series only one of ownership can be emptied, by the answer
\* to its own task (and is then missed and fetched again); figures and flows stay.
SeriesStay ==
  [][\A s \in Series :
       store[s] # <<>> /\ store'[s] = <<>> => s \in Ownership /\ task = s /\ reading]_vars

\* Seen from the queue, a fetcher answers its own task or leaves it without an
\* answer: what FetchQueue takes the fetchers to do.
TQ == INSTANCE TaskQueue WITH
        Tasks <- Keys, Mandatory <- {}, pending <- queue, active <- task,
        answered <- {KeyOf(s) : s \in {x \in Series : store[x] # <<>>}}
ImplementsTaskQueue == TQ!Spec
=============================================================================
