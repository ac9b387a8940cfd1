----------------------------- MODULE ForwardFill -----------------------------
(***************************************************************************)
(* The loop with which extradata/extra_dispatcher.cpp spreads the stored   *)
(* points of a series over the bars of a chart (the same text in           *)
(* fillOwnership, fillFinancial, fillRitelFlow and fillSpecificBroker).    *)
(* One action is one turn of the inner or of the outer loop, over the copy *)
(* of the series that Store::get returned.                                 *)
(***************************************************************************)
EXTENDS Integers, Sequences

CONSTANTS
  MaxTs,      \* the largest DATE_TIME_INT, 2^64 - 1
  Values,     \* what a point may hold
  EMPTY_VAL   \* and what stands for no value

ASSUME MaxTsAssumption == MaxTs \in Nat
ASSUME EmptyAssumption == EMPTY_VAL \notin Values

\* mktime returns -1 for a date it cannot represent, any before 1970.
BadDate == -1
Dates == {BadDate} \union 0..MaxTs

\* (DATE_TIME_INT)unix_ts: the -1 becomes the largest date of all.
AmiDateToUnix(d) == IF d = BadDate THEN MaxTs ELSE d

DataPoint == [ts : 0..MaxTs, value : Values \union {EMPTY_VAL}]

\* AmiBroker's bars are in the order of their dates.
Ascend(dates) ==
  \A i, j \in DOMAIN dates : i < j => dates[i] <= dates[j]

VARIABLES
  data,           \* the copy of the series
  anTimestamps,   \* the dates of the bars, as mktime gives them
  data_idx,       \* points consumed
  current_value,
  outArr          \* the bars filled so far

fillVars == <<data, anTimestamps, data_idx, current_value, outArr>>

Filling == Len(outArr) < Len(anTimestamps)
barTs_Unix == AmiDateToUnix(anTimestamps[Len(outArr) + 1])

FillInit ==
  /\ data = <<>> /\ anTimestamps = <<>>
  /\ data_idx = 0 /\ current_value = EMPTY_VAL
  /\ outArr = <<>>

\* A lookup that hits: the series is copied.
StartFill(points, bars) ==
  /\ ~Filling
  /\ data' = points /\ anTimestamps' = bars
  /\ data_idx' = 0 /\ current_value' = EMPTY_VAL
  /\ outArr' = <<>>

Consumable == data_idx < Len(data) /\ data[data_idx + 1].ts <= barTs_Unix

\* Mutant: the loop looks at the date of the bar after this one.
TakeNextPoint ==
  /\ Filling /\ data_idx < Len(data)
  /\ \E j \in DOMAIN anTimestamps :
       /\ j <= Len(outArr) + 2
       /\ data[data_idx + 1].ts <= AmiDateToUnix(anTimestamps[j])
  /\ current_value' = data[data_idx + 1].value
  /\ data_idx' = data_idx + 1
  /\ UNCHANGED <<data, anTimestamps, outArr>>

\* The inner loop: the next point is not later than the bar.
TakePoint ==
  /\ Filling /\ Consumable
  /\ current_value' = IF data[data_idx + 1].value # EMPTY_VAL
                        THEN data[data_idx + 1].value ELSE current_value
  /\ data_idx' = data_idx + 1
  /\ UNCHANGED <<data, anTimestamps, outArr>>

\* Mutant: with no point of its own a bar is left without a value.
StoreAndForget ==
  /\ Filling /\ ~Consumable
  /\ outArr' = Append(outArr, current_value)
  /\ current_value' = EMPTY_VAL
  /\ UNCHANGED <<data, anTimestamps, data_idx>>

\* outArr[i] = current_value
StoreValue ==
  /\ Filling /\ ~Consumable
  /\ outArr' = Append(outArr, current_value)
  /\ UNCHANGED <<data, anTimestamps, data_idx, current_value>>

FillStep == TakePoint \/ StoreValue

FillNext ==
  \/ \E points \in Seq(DataPoint), bars \in Seq(Dates) :
       Ascend(bars) /\ StartFill(points, bars)
  \/ FillStep

FillSpec == FillInit /\ [][FillNext]_fillVars

-----------------------------------------------------------------------------
(* What a filled bar shows, for bars that mktime can represent.            *)

\* The first n bars all have a date of their own.
Representable(n) == \A i \in 1..n : anTimestamps[i] # BadDate

\* v is the last value among the points of d up to time t, or none.
IsLatest(d, t, v) ==
  \/ /\ v = EMPTY_VAL
     /\ \A k \in DOMAIN d : d[k].ts <= t => d[k].value = EMPTY_VAL
  \/ \E k \in DOMAIN d :
       /\ d[k].ts <= t /\ d[k].value = v /\ v # EMPTY_VAL
       /\ \A m \in DOMAIN d : m > k /\ d[m].ts <= t => d[m].value = EMPTY_VAL

\* No bar shows a value of a later date, whatever the order of the points: an
\* indicator built on the data does not look into the future.
NoLookAhead ==
  \A j \in DOMAIN outArr :
    Representable(j) /\ outArr[j] # EMPTY_VAL =>
      \E k \in DOMAIN data :
        data[k].value = outArr[j] /\ data[k].ts <= anTimestamps[j]

InOrder(d) == \A k, m \in DOMAIN d : k < m => d[k].ts <= d[m].ts

\* Over points in order of time the one-pass loop finds for every bar the
\* latest value known by then, holding on to it over points without a value.
FillIsLatest ==
  InOrder(data) =>
    \A j \in DOMAIN outArr :
      Representable(j) => IsLatest(data, anTimestamps[j], outArr[j])
=============================================================================
