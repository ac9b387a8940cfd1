---------------------------- MODULE ExtraDataProofs ----------------------------
(***************************************************************************)
(* What the stores of the extra data hold, whatever the server answers.    *)
(***************************************************************************)
EXTENDS ExtraData, ForwardFillProofs

Inv == TypeOK /\ FiguresAreWhole /\ FlowsAscend

\* A series that is stored next to the others.
LEMMA StoreOne ==
  ASSUME store \in [Series -> Seq(DataPoint)], NEW s \in Series,
         NEW points \in Seq(DataPoint), Store(s, points)
  PROVE  /\ store' \in [Series -> Seq(DataPoint)]
         /\ store'[s] = points
         /\ \A x \in Series : x # s => store'[x] = store[x]
BY DEF Store

\* The days of a flow are dates other than 0.
LEMMA DatesAreDates == \A chart \in FlowCharts : DatesIn(chart) \subseteq Dates \ {0}
<1> SUFFICES ASSUME NEW chart \in FlowCharts, NEW k \in DOMAIN chart
             PROVE  chart[k].date \in Dates
  BY DEF DatesIn
<1>1. chart \in Seq([date : Dates, flow : Values])
  BY FlowChartsAssumption DEF FlowChartsAssumption
<1>2. chart[k] \in [date : Dates, flow : Values]
  <2>1. ASSUME NEW S, NEW c \in Seq(S), NEW j \in DOMAIN c PROVE c[j] \in S
    OBVIOUS
  <2> QED
    BY <1>1, <2>1
<1> QED
  BY <1>2

\* What is stored of a flow are its points in the order of their days.
LEMMA FinalDataAscends ==
  ASSUME NEW chart \in FlowCharts, NEW days \in Days(chart),
         NEW i \in DOMAIN FinalData(chart, days), NEW j \in DOMAIN FinalData(chart, days), i < j
  PROVE  \/ FinalData(chart, days)[i].ts < FinalData(chart, days)[j].ts
         \/ i = 1 /\ FinalData(chart, days)[1].ts = MaxTs
<1> DEFINE f == FinalData(chart, days)
<1>1. PICK n \in Nat : days \in [1..n -> DatesIn(chart)]
  BY FlowChartsAssumption DEF Days, FlowChartsAssumption
<1>2. DatesIn(chart) \subseteq Dates \ {0}
  BY DatesAreDates
<1>3. /\ i \in 1..n /\ j \in 1..n /\ 1 \in 1..n
      /\ f[i].ts = AmiDateToUnix(days[i]) /\ f[j].ts = AmiDateToUnix(days[j])
      /\ f[1].ts = AmiDateToUnix(days[1])
  BY <1>1 DEF FinalData
<1>4. /\ days[i] \in Dates /\ days[j] \in Dates /\ days[1] \in Dates
      /\ days[i] < days[j] /\ (1 < i => days[1] < days[i])
  BY <1>1, <1>2, <1>3 DEF Days
<1> QED
  BY <1>3, <1>4, MaxTsAssumption DEF Dates, AmiDateToUnix, BadDate, MaxTsAssumption

\* What StoreFlow stores is a series, and never the empty one.
LEMMA FinalDataType ==
  ASSUME NEW chart \in FlowCharts, NEW days \in Days(chart), days # <<>>
  PROVE  FinalData(chart, days) \in Seq(DataPoint) \ {<<>>}
<1>1. PICK n \in Nat : days \in [1..n -> DatesIn(chart)]
  BY FlowChartsAssumption DEF Days, FlowChartsAssumption
<1>2. DatesIn(chart) \subseteq Dates
  BY DatesAreDates
<1>3. ASSUME NEW k \in 1..n
      PROVE  [ts |-> AmiDateToUnix(days[k]), value |-> Total(chart, days[k])] \in DataPoint
  <2>1. days[k] \in Dates /\ Total(chart, days[k]) \in Values
    BY <1>1, <1>2, FlowChartsAssumption DEF FlowChartsAssumption
  <2> QED
    BY <2>1, MaxTsAssumption DEF Dates, AmiDateToUnix, BadDate, DataPoint, MaxTsAssumption
<1>4. DOMAIN days = 1..n /\ n # 0
  BY <1>1
<1> QED
  BY <1>3, <1>4 DEF FinalData

\* A part of a chart that starts at its first point.
LEMMA ChartPrefix ==
  ASSUME NEW chart \in Charts, NEW n \in 0..Len(chart)
  PROVE  SubSeq(chart, 1, n) \in Seq(DataPoint) /\ Prefix(SubSeq(chart, 1, n), chart)
<1>1. chart \in Seq(DataPoint)
  BY ChartsAssumption DEF ChartsAssumption
<1> QED
  BY <1>1 DEF Prefix

\* A part of a chart that is as long as the chart is the chart.
LEMMA WholeChart ==
  ASSUME NEW chart \in Charts, NEW points \in Seq(DataPoint), Prefix(points, chart),
         Len(points) = Len(chart)
  PROVE  points = chart
<1>1. chart \in Seq(DataPoint)
  BY ChartsAssumption DEF ChartsAssumption
<1>2. \A k \in 1..Len(chart) : points[k] = chart[k]
  BY <1>1 DEF Prefix
<1> QED
  BY <1>1, <1>2

\* The point that is read next makes the part longer, and it stays a part.
LEMMA LongerPart ==
  ASSUME NEW chart \in Charts, NEW points \in Seq(DataPoint), Prefix(points, chart),
         Len(points) < Len(chart)
  PROVE  /\ Append(points, chart[Len(points) + 1]) \in Seq(DataPoint)
         /\ Prefix(Append(points, chart[Len(points) + 1]), chart)
<1>1. chart \in Seq(DataPoint)
  BY ChartsAssumption DEF ChartsAssumption
<1>2. chart[Len(points) + 1] \in DataPoint
  BY <1>1
<1> QED
  BY <1>1, <1>2 DEF Prefix

\* The keys of the three stores are kept apart.
LEMMA KeysDiffer ==
  /\ \A s \in Ownership : KeyOf(s) = s /\ s \in Series /\ s \notin Figures \union Flows
  /\ \A k \in Financials, i \in Items :
       /\ <<k, i>> \in Figures /\ <<k, i>> \in Series /\ KeyOf(<<k, i>>) = k
       /\ <<k, i>> \notin Ownership \union Flows
  /\ \A s \in Flows : KeyOf(s) = s /\ s \in Series /\ s \notin Figures \union Ownership
  /\ \A s \in Figures : KeyOf(s) \in Financials
  /\ \A s \in Series : KeyOf(s) \in Keys
BY SeriesAssumption DEF SeriesAssumption, KeyOf, Series, Figures, Keys

\* The figure that StoreFigure stores is one the server sent, to its last point.
LEMMA FigureIsWhole ==
  ASSUME TypeOK, StoreFigure
  PROVE  figure.data_points \in Charts /\ figure.data_points \in Seq(DataPoint)
<1>1. /\ figure.chart_data \in Charts /\ figure.data_points \in Seq(DataPoint)
      /\ Prefix(figure.data_points, figure.chart_data)
      /\ Len(figure.data_points) = Len(figure.chart_data)
  BY DEF StoreFigure, TypeOK
<1> QED
  BY <1>1, WholeChart

\* All stores start empty.
LEMMA InvInit == Init => Inv
<1> SUFFICES ASSUME Init PROVE Inv
  OBVIOUS
<1>1. /\ store = [s \in Series |-> <<>>] /\ <<>> \in Seq(DataPoint)
      /\ missed = {} /\ queue = {} /\ task = NoTask /\ reading = FALSE /\ figure = NoFigure
  BY DEF Init
<1>2. \A s \in Series : store[s] = <<>>
  BY <1>1
<1>3. TypeOK
  BY <1>1, <1>2 DEF TypeOK, Series
<1>4. FiguresAreWhole
  BY <1>2 DEF FiguresAreWhole, Series
<1>5. FlowsAscend
  BY <1>2 DEF FlowsAscend, Series
<1> QED
  BY <1>3, <1>4, <1>5 DEF Inv

\* No step of Next breaks the invariant.
LEMMA InvStep == Inv /\ [Next]_vars => Inv'
<1> SUFFICES ASSUME Inv, [Next]_vars PROVE Inv'
  OBVIOUS
<1> USE DEF Inv
<1>0. ASSUME NEW s \in Series, Miss(s) PROVE Inv'
  BY <1>0 DEF Miss, TypeOK, FiguresAreWhole, FlowsAscend
<1>1. ASSUME NEW s \in Series, QueueMissed(s) PROVE Inv'
  <2>1. KeyOf(s) \in Keys
    BY KeysDiffer
  <2> QED
    BY <1>1, <2>1 DEF QueueMissed, TypeOK, FiguresAreWhole, FlowsAscend
<1>2. ASSUME NEW s \in Series, Hit(s) PROVE Inv'
  BY <1>2 DEF Hit, storeVars, TypeOK, FiguresAreWhole, FlowsAscend
<1>3. CASE FillStep /\ UNCHANGED storeVars
  BY <1>3 DEF storeVars, TypeOK, FiguresAreWhole, FlowsAscend
<1>4. ASSUME NEW k \in Keys, StartTask(k) PROVE Inv'
  <2>1. k # NoTask
    BY SeriesAssumption DEF SeriesAssumption
  <2>2. figure = NoFigure
    BY <1>4 DEF StartTask, TypeOK
  <2> QED
    BY <1>4, <2>1, <2>2 DEF StartTask, TypeOK, FiguresAreWhole, FlowsAscend
<1>5. CASE FetchOwnership
  <2>1. PICK chart \in Charts : \E n \in 0..Len(chart) : Store(task, SubSeq(chart, 1, n))
    BY <1>5 DEF FetchOwnership
  <2>b. PICK n \in 0..Len(chart) : Store(task, SubSeq(chart, 1, n))
    BY <2>1
  <2>2. task \in Ownership /\ reading' = FALSE /\ UNCHANGED <<missed, queue, task, figure>>
    BY <1>5 DEF FetchOwnership, AnswerRead
  <2>f. figure = NoFigure
    BY <2>2, KeysDiffer, SeriesAssumption DEF TypeOK, SeriesAssumption
  <2>3. task \in Series /\ task \notin Figures \union Flows
    BY <2>2, KeysDiffer
  <2>4. /\ store' \in [Series -> Seq(DataPoint)] /\ Prefix(store'[task], chart)
        /\ \A x \in Series : x # task => store'[x] = store[x]
    BY <2>b, <2>3, ChartPrefix, StoreOne DEF TypeOK
  <2>5. \A s \in Ownership : store'[s] # <<>> => \E c \in Charts : Prefix(store'[s], c)
    BY <2>4 DEF TypeOK, Series
  <2>6. FiguresAreWhole' /\ FlowsAscend'
    BY <2>3, <2>4 DEF FiguresAreWhole, FlowsAscend, Series
  <2> QED
    BY <2>2, <2>f, <2>4, <2>5, <2>6 DEF TypeOK
<1>6. CASE StoreFlow
  <2>1. PICK chart \in FlowCharts : \E days \in Days(chart) :
          days # <<>> /\ Store(task, FinalData(chart, days))
    BY <1>6 DEF StoreFlow
  <2>b. PICK days \in Days(chart) : days # <<>> /\ Store(task, FinalData(chart, days))
    BY <2>1
  <2>2. task \in Flows /\ reading' = FALSE /\ UNCHANGED <<missed, queue, task, figure>>
    BY <1>6 DEF StoreFlow, AnswerRead
  <2>f. figure = NoFigure
    BY <2>2, SeriesAssumption DEF TypeOK, SeriesAssumption
  <2>3. task \in Series /\ task \notin Figures \union Ownership
    BY <2>2, KeysDiffer
  <2>4. /\ store' \in [Series -> Seq(DataPoint)] /\ store'[task] = FinalData(chart, days)
        /\ \A x \in Series : x # task => store'[x] = store[x]
    BY <2>b, <2>3, FinalDataType, StoreOne DEF TypeOK
  <2>5. TypeOK'
    BY <2>2, <2>f, <2>3, <2>4 DEF TypeOK, Series
  <2>6. FiguresAreWhole'
    BY <2>3, <2>4 DEF FiguresAreWhole, Series
  <2>7. FlowsAscend'
    BY <2>4, FinalDataAscends DEF FlowsAscend, Series
  <2> QED
    BY <2>5, <2>6, <2>7
<1>7. CASE BeginFigure
  <2>1. PICK i \in Items, chart \in Charts :
          figure' = [item |-> i, chart_data |-> chart, data_points |-> <<>>]
    BY <1>7 DEF BeginFigure
  <2>2. task \in Financials /\ reading /\ UNCHANGED <<store, missed, queue, task, reading>>
    BY <1>7 DEF BeginFigure
  <2>3. chart \in Seq(DataPoint) /\ <<>> \in Seq(DataPoint) /\ Prefix(<<>>, chart)
    BY ChartsAssumption DEF ChartsAssumption, Prefix
  <2> QED
    BY <2>1, <2>2, <2>3 DEF TypeOK, FiguresAreWhole, FlowsAscend
<1>8. CASE ReadPoint
  <2> DEFINE f == figure
             next == f.chart_data[Len(f.data_points) + 1]
  <2>1. /\ figure' = [f EXCEPT !.data_points = Append(f.data_points, next)]
        /\ Len(f.data_points) < Len(f.chart_data)
        /\ UNCHANGED <<store, missed, queue, task, reading>>
    BY <1>8 DEF ReadPoint
  <2>2. /\ f \in [item : Items, chart_data : Charts, data_points : Seq(DataPoint)]
        /\ Prefix(f.data_points, f.chart_data)
        /\ reading /\ task \in Financials
    BY <1>8 DEF ReadPoint, TypeOK
  <2>3. /\ Append(f.data_points, next) \in Seq(DataPoint)
        /\ Prefix(Append(f.data_points, next), f.chart_data)
    BY <2>1, <2>2, LongerPart
  <2>4. /\ figure' \in [item : Items, chart_data : Charts, data_points : Seq(DataPoint)]
        /\ Prefix(figure'.data_points, figure'.chart_data)
    BY <2>1, <2>2, <2>3
  <2> QED
    BY <2>1, <2>2, <2>4 DEF TypeOK, FiguresAreWhole, FlowsAscend
<1>9. CASE StoreFigure
  <2> DEFINE s == <<task, figure.item>>
  <2>1. figure' = NoFigure /\ UNCHANGED <<missed, queue, task, reading>>
    BY <1>9 DEF StoreFigure
  <2>2. CASE UNCHANGED store
    BY <2>1, <2>2 DEF TypeOK, FiguresAreWhole, FlowsAscend
  <2>3. CASE Store(s, figure.data_points)
    <3>1. s \in Series /\ s \notin Ownership \union Flows
      BY <1>9, KeysDiffer DEF StoreFigure, TypeOK
    <3>2. figure.data_points \in Charts /\ figure.data_points \in Seq(DataPoint)
      BY <1>9, FigureIsWhole
    <3>3. /\ store' \in [Series -> Seq(DataPoint)] /\ store'[s] \in Charts
          /\ \A x \in Series : x # s => store'[x] = store[x]
      BY <2>3, <3>1, <3>2, StoreOne DEF TypeOK
    <3>4. TypeOK'
      BY <2>1, <3>1, <3>3 DEF TypeOK, Series
    <3>5. FiguresAreWhole' /\ FlowsAscend'
      BY <3>1, <3>3 DEF FiguresAreWhole, FlowsAscend, Series
    <3> QED
      BY <3>4, <3>5
  <2> QED
    BY <1>9, <2>2, <2>3 DEF StoreFigure
<1>10. CASE ParserReturns
  BY <1>10 DEF ParserReturns, TypeOK, FiguresAreWhole, FlowsAscend
<1>11. CASE NoAnswer
  BY <1>11 DEF NoAnswer, AnswerRead, TypeOK, FiguresAreWhole, FlowsAscend
<1>12. CASE EndTask
  BY <1>12 DEF EndTask, TypeOK, FiguresAreWhole, FlowsAscend
<1>13. CASE UNCHANGED vars
  BY <1>13 DEF vars, storeVars, TypeOK, FiguresAreWhole, FlowsAscend
<1> QED
  BY <1>0, <1>1, <1>2, <1>3, <1>4, <1>5, <1>6, <1>7, <1>8, <1>9, <1>10, <1>11, <1>12, <1>13 DEF Next

\* The invariant holds in every reachable state.
LEMMA Invariance == Spec => []Inv
BY InvInit, InvStep, PTL DEF Spec

\* Types, and an ownership series is the beginning of one answer.
THEOREM TypeCorrect == Spec => []TypeOK
<1>1. Inv => TypeOK
  BY DEF Inv
<1> QED
  BY <1>1, Invariance, PTL

\* A figure is stored with all its points or not at all, at whatever point the
\* parser throws: what is read of it is a part of its chart (TypeOK), and
\* StoreFigure waits for the last point.
THEOREM FiguresWhole == Spec => []FiguresAreWhole
<1>1. Inv => FiguresAreWhole
  BY DEF Inv
<1> QED
  BY <1>1, Invariance, PTL

\* The days of a flow ascend, but for those mktime cannot represent.
THEOREM FlowsAreInOrder == Spec => []FlowsAscend
<1>1. Inv => FlowsAscend
  BY DEF Inv
<1> QED
  BY <1>1, Invariance, PTL

-----------------------------------------------------------------------------
(* The calls' fills are fills of ForwardFill.                              *)

\* Seen from the fill alone, ExtraData is a loop over any series and bars.
LEMMA FillsAreFills == Spec => FillSpec
<1>1. Init => FillInit
  BY DEF Init
<1>2. Inv /\ [Next]_vars => [FillNext]_fillVars
  <2> SUFFICES ASSUME Inv, [Next]_vars PROVE FillNext \/ UNCHANGED fillVars
    OBVIOUS
  <2>1. ASSUME NEW s \in Series, Hit(s) PROVE FillNext
    <3>1. PICK bars \in BarArrays : StartFill(store[s], bars)
      BY <2>1 DEF Hit
    <3>2. store[s] \in Seq(DataPoint)
      BY DEF Inv, TypeOK
    <3>3. bars \in Seq(Dates) /\ Ascend(bars)
      BY BarsAssumption DEF BarsAssumption
    <3> QED
      BY <3>1, <3>2, <3>3 DEF FillNext
  <2>2. CASE FillStep
    BY <2>2 DEF FillNext
  <2>3. CASE \E s \in Series : Miss(s) \/ QueueMissed(s)
    BY <2>3 DEF Miss, QueueMissed
  <2>4. CASE \E k \in Keys : StartTask(k)
    BY <2>4 DEF StartTask
  <2>5. CASE FetchOwnership \/ StoreFlow \/ NoAnswer \/ EndTask \/ UNCHANGED vars
    BY <2>5 DEF FetchOwnership, StoreFlow, NoAnswer, AnswerRead, EndTask, vars
  <2>6. CASE BeginFigure \/ ReadPoint \/ StoreFigure \/ ParserReturns
    BY <2>6 DEF BeginFigure, ReadPoint, StoreFigure, ParserReturns
  <2> QED
    BY <2>1, <2>2, <2>3, <2>4, <2>5, <2>6 DEF Next
<1> QED
  BY <1>1, <1>2, Invariance, PTL DEF Spec, FillSpec

\* What GetExtraDataEx returns never looks ahead, whatever is stored meanwhile.
THEOREM CallsNeverLookAhead == Spec => []NoLookAhead
BY FillsAreFills, NeverLooksAhead, PTL

\* Over a series in order of time it returns the latest value for every bar.
THEOREM CallsFindLatest == Spec => []FillIsLatest
BY FillsAreFills, FindsLatest, PTL

-----------------------------------------------------------------------------
\* A step that empties a series is the end of an answer about its ownership, and
\* of that series; what is stored of figures and flows is never empty.
THEOREM OnlyOwnershipIsLost == Spec => SeriesStay
<1>1. Inv /\ [Next]_vars
        => [\A s \in Series :
              store[s] # <<>> /\ store'[s] = <<>> => s \in Ownership /\ task = s /\ reading]_vars
  <2> SUFFICES ASSUME Inv, Next, NEW s \in Series, store[s] # <<>>, store'[s] = <<>>
               PROVE  s \in Ownership /\ task = s /\ reading
    OBVIOUS
  <2>1. CASE FetchOwnership
    <3>1. task \in Ownership /\ reading /\ \E points : Store(task, points)
      BY <2>1 DEF FetchOwnership
    <3> QED
      BY <3>1 DEF Store, Inv, TypeOK
  <2>2. CASE StoreFlow
    <3>1. PICK chart \in FlowCharts : \E days \in Days(chart) :
            days # <<>> /\ Store(task, FinalData(chart, days))
      BY <2>2 DEF StoreFlow
    <3>a. PICK days \in Days(chart) : days # <<>> /\ Store(task, FinalData(chart, days))
      BY <3>1
    <3>2. FinalData(chart, days) # <<>>
      BY <3>a, FinalDataType
    <3> QED
      BY <3>a, <3>2 DEF Store, Inv, TypeOK
  <2>3. CASE StoreFigure
    BY <2>3 DEF StoreFigure, Store, Inv, TypeOK
  <2>4. CASE UNCHANGED store
    BY <2>4
  <2>5. FetchOwnership \/ StoreFlow \/ StoreFigure \/ UNCHANGED store
    BY DEF Next, Miss, QueueMissed, Hit, StartTask, BeginFigure, ReadPoint, ParserReturns, NoAnswer,
           EndTask, storeVars
  <2> QED
    BY <2>1, <2>2, <2>3, <2>4, <2>5
<1> QED
  BY <1>1, Invariance, PTL DEF Spec, SeriesStay

-----------------------------------------------------------------------------
(* The refinement.                                                         *)

Stored == {KeyOf(s) : s \in {x \in Series : store[x] # <<>>}}

\* A step that stores a series answers its task, or unanswers it.
LEMMA StoringAnswers ==
  ASSUME Inv, NEW s \in Series, NEW points \in Seq(DataPoint), Store(s, points),
         points # <<>> \/ s \in Ownership
  PROVE  Stored' = IF points # <<>> THEN Stored \union {KeyOf(s)} ELSE Stored \ {KeyOf(s)}
<1>1. /\ store'[s] = points
      /\ \A x \in Series : x # s => store'[x] = store[x]
  BY StoreOne DEF Inv, TypeOK
<1>2. ASSUME s \in Ownership, NEW x \in Series, x # s PROVE KeyOf(x) # KeyOf(s)
  <2>1. KeyOf(s) = s /\ s \notin Financials
    BY <1>2, KeysDiffer, SeriesAssumption DEF SeriesAssumption
  <2> QED
    BY <1>2, <2>1, KeysDiffer DEF KeyOf
<1>3. CASE points # <<>>
  BY <1>1, <1>3 DEF Stored
<1>4. CASE points = <<>>
  BY <1>1, <1>2, <1>4 DEF Stored
<1> QED
  BY <1>3, <1>4

\* ExtraData's fetchers are those TaskQueue, and so FetchQueue, reckons with.
THEOREM Refinement == Spec => ImplementsTaskQueue
<1>1. Init => TQ!Init
  BY DEF Init, TQ!Init
<1>2. Inv /\ [Next]_vars => [TQ!Next]_TQ!vars
  <2> SUFFICES ASSUME Inv, [Next]_vars PROVE TQ!Next \/ UNCHANGED TQ!vars
    OBVIOUS
  <2> DEFINE answered == {KeyOf(s) : s \in {x \in Series : store[x] # <<>>}}
  <2>0. answered = Stored /\ answered' = Stored'
    BY DEF Stored
  <2>1. ASSUME NEW s \in Series, QueueMissed(s) PROVE TQ!Next \/ UNCHANGED TQ!vars
    <3>1. KeyOf(s) \in Keys /\ UNCHANGED <<task, answered>>
      BY <2>1, KeysDiffer DEF QueueMissed
    <3>2. CASE queue' = queue \union {KeyOf(s)}
      BY <3>1, <3>2 DEF TQ!Next, TQ!Submit
    <3>3. CASE UNCHANGED queue
      BY <3>1, <3>3 DEF TQ!vars
    <3> QED
      BY <2>1, <3>2, <3>3 DEF QueueMissed
  <2>2. CASE \/ \E s \in Series : Miss(s) \/ Hit(s)
             \/ UNCHANGED storeVars
             \/ BeginFigure \/ ReadPoint \/ ParserReturns \/ NoAnswer
             \/ UNCHANGED vars
    <3>1. UNCHANGED <<store, queue, task>>
      BY <2>2 DEF Miss, Hit, BeginFigure, ReadPoint, ParserReturns, NoAnswer, AnswerRead, vars, storeVars
    <3> QED
      BY <3>1 DEF TQ!vars
  <2>3. ASSUME NEW k \in Keys, StartTask(k) PROVE TQ!Next
    <3>1. TQ!Start(k)
      BY <2>3 DEF StartTask, TQ!Start
    <3> QED
      BY <3>1 DEF TQ!Next
  <2>4. CASE EndTask
    <3>1. TQ!Finish
      BY <2>4 DEF EndTask, TQ!Finish
    <3> QED
      BY <3>1 DEF TQ!Next
  <2>5. ASSUME NEW s \in Series, NEW points \in Seq(DataPoint), Store(s, points),
               points # <<>> \/ s \in Ownership, task # NoTask, KeyOf(s) = task,
               UNCHANGED <<queue, task>>
        PROVE  TQ!Next
    <3>1. answered' = IF points # <<>> THEN answered \union {task} ELSE answered \ {task}
      BY <2>0, <2>5, StoringAnswers
    <3>2. CASE points # <<>>
      BY <2>5, <3>1, <3>2 DEF TQ!Next, TQ!Answer
    <3>3. CASE points = <<>>
      BY <2>5, <3>1, <3>3 DEF TQ!Next, TQ!AnswerNothing
    <3> QED
      BY <3>2, <3>3
  <2>6. CASE FetchOwnership
    <3>1. PICK chart \in Charts : \E n \in 0..Len(chart) : Store(task, SubSeq(chart, 1, n))
      BY <2>6 DEF FetchOwnership
    <3>a. PICK n \in 0..Len(chart) : Store(task, SubSeq(chart, 1, n))
      BY <3>1
    <3>2. task \in Ownership /\ UNCHANGED <<queue, task>> /\ task # NoTask
      BY <2>6, SeriesAssumption DEF FetchOwnership, AnswerRead, SeriesAssumption, Keys
    <3>3. task \in Series /\ KeyOf(task) = task
      BY <3>2, KeysDiffer
    <3>4. SubSeq(chart, 1, n) \in Seq(DataPoint)
      BY ChartPrefix
    <3> QED
      BY <2>5, <3>a, <3>2, <3>3, <3>4
  <2>7. CASE StoreFlow
    <3>1. PICK chart \in FlowCharts : \E days \in Days(chart) :
            days # <<>> /\ Store(task, FinalData(chart, days))
      BY <2>7 DEF StoreFlow
    <3>a. PICK days \in Days(chart) : days # <<>> /\ Store(task, FinalData(chart, days))
      BY <3>1
    <3>2. task \in Flows /\ UNCHANGED <<queue, task>> /\ task # NoTask
      BY <2>7, SeriesAssumption DEF StoreFlow, AnswerRead, SeriesAssumption, Keys
    <3>3. task \in Series /\ KeyOf(task) = task
      BY <3>2, KeysDiffer
    <3>4. FinalData(chart, days) \in Seq(DataPoint) \ {<<>>}
      BY <3>a, FinalDataType
    <3> QED
      BY <2>5, <3>a, <3>2, <3>3, <3>4
  <2>8. CASE StoreFigure
    <3> DEFINE points == figure.data_points
               s == <<task, figure.item>>
    <3>1. task \in Financials /\ UNCHANGED <<queue, task>> /\ task # NoTask
      BY <2>8, SeriesAssumption DEF StoreFigure, Inv, TypeOK, SeriesAssumption, Keys
    <3>2. CASE UNCHANGED store
      BY <3>1, <3>2 DEF TQ!vars
    <3>3. CASE points # <<>> /\ Store(s, points)
      <4>1. s \in Series /\ KeyOf(s) = task
        BY <2>8, KeysDiffer DEF StoreFigure, Inv, TypeOK
      <4>2. points \in Seq(DataPoint)
        BY <2>8, FigureIsWhole DEF Inv
      <4> QED
        BY <2>5, <3>1, <3>3, <4>1, <4>2
    <3> QED
      BY <2>8, <3>2, <3>3 DEF StoreFigure
  <2> QED
    BY <2>1, <2>2, <2>3, <2>4, <2>6, <2>7, <2>8 DEF Next
<1> QED
  BY <1>1, <1>2, Invariance, PTL DEF Spec, TQ!Spec, ImplementsTaskQueue
=============================================================================
