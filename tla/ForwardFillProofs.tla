--------------------------- MODULE ForwardFillProofs ---------------------------
(***************************************************************************)
(* The forward fill is right for every series and every array of bars.     *)
(***************************************************************************)
EXTENDS ForwardFill, TLAPS

\* v is the last value among the first n points of d.
LastOf(d, n, v) ==
  \/ /\ v = EMPTY_VAL
     /\ \A k \in 1..n : d[k].value = EMPTY_VAL
  \/ \E k \in 1..n :
       /\ d[k].value = v /\ v # EMPTY_VAL
       /\ \A m \in k + 1..n : d[m].value = EMPTY_VAL

\* Each of the first n points of d is due by bar j or one before it.
DueBy(d, bars, n, j) ==
  \A k \in 1..n : \E i \in 1..Len(bars) :
    i <= j /\ d[k].ts <= AmiDateToUnix(bars[i])

FillTypes ==
  /\ data \in Seq(DataPoint)
  /\ anTimestamps \in Seq(Dates) /\ Ascend(anTimestamps)
  /\ data_idx \in 0..Len(data)
  /\ current_value \in Values \union {EMPTY_VAL}
  /\ outArr \in Seq(Values \union {EMPTY_VAL})
  /\ Len(outArr) <= Len(anTimestamps)

\* Where the loop stands, and where it stood at every bar it has stored: all
\* points consumed were due, and the next one was not.
LoopInv ==
  /\ LastOf(data, data_idx, current_value)
  /\ DueBy(data, anTimestamps, data_idx, Len(outArr) + 1)
  /\ \A j \in 1..Len(outArr) :
       \E n \in 0..Len(data) :
         /\ LastOf(data, n, outArr[j]) /\ DueBy(data, anTimestamps, n, j)
         /\ n < Len(data) => data[n + 1].ts > AmiDateToUnix(anTimestamps[j])

FillInv == FillTypes /\ LoopInv

\* There is nothing to fill.
LEMMA FillInvInit == FillInit => FillInv
BY MaxTsAssumption
DEF FillInit, FillInv, FillTypes, LoopInv, LastOf, DueBy, Ascend, DataPoint, Dates

\* A new call starts over with its own copy.
LEMMA StartKeepsInv ==
  ASSUME FillInv, NEW points \in Seq(DataPoint), NEW bars \in Seq(Dates), Ascend(bars),
         StartFill(points, bars)
  PROVE  FillInv'
BY DEF FillInv, FillTypes, LoopInv, LastOf, DueBy, StartFill, Ascend, DataPoint, Dates

\* The inner loop takes a point that is due, and its value if it has one.
LEMMA TakeKeepsInv == FillInv /\ TakePoint => FillInv'
<1> SUFFICES ASSUME FillInv, TakePoint PROVE FillInv'
  OBVIOUS
<1> DEFINE p == data[data_idx + 1]
<1>1. /\ data_idx \in Nat /\ data_idx < Len(data) /\ p \in DataPoint
      /\ data_idx' = data_idx + 1
      /\ UNCHANGED <<data, anTimestamps, outArr>>
  BY DEF FillInv, FillTypes, TakePoint, Consumable
<1>2. FillTypes'
  BY <1>1 DEF FillInv, FillTypes, TakePoint, DataPoint, Ascend
<1>3. LastOf(data, data_idx, current_value)'
  <2>1. CASE p.value = EMPTY_VAL
    <3>1. current_value' = current_value
      BY <2>1 DEF TakePoint
    <3>2. LastOf(data, data_idx, current_value)
      BY DEF FillInv, LoopInv
    <3> QED
      BY <1>1, <2>1, <3>1, <3>2 DEF LastOf
  <2>2. CASE p.value # EMPTY_VAL
    <3>1. current_value' = p.value
      BY <2>2 DEF TakePoint
    <3> QED
      BY <1>1, <2>2, <3>1 DEF LastOf
  <2> QED
    BY <2>1, <2>2
<1>4. DueBy(data, anTimestamps, data_idx, Len(outArr) + 1)'
  <2>1. DueBy(data, anTimestamps, data_idx, Len(outArr) + 1)
    BY DEF FillInv, LoopInv
  <2>2. /\ Len(outArr) + 1 \in 1..Len(anTimestamps)
        /\ p.ts <= AmiDateToUnix(anTimestamps[Len(outArr) + 1])
    BY DEF FillInv, FillTypes, TakePoint, Filling, Consumable, barTs_Unix
  <2> QED
    BY <1>1, <2>1, <2>2 DEF DueBy
<1>5. (\A j \in 1..Len(outArr) :
         \E n \in 0..Len(data) :
           /\ LastOf(data, n, outArr[j]) /\ DueBy(data, anTimestamps, n, j)
           /\ n < Len(data) => data[n + 1].ts > AmiDateToUnix(anTimestamps[j]))'
  BY <1>1 DEF FillInv, LoopInv
<1> QED
  BY <1>2, <1>3, <1>4, <1>5 DEF FillInv, LoopInv

\* A bar is stored when the next point, if any, is later than it.
LEMMA StoreKeepsInv == FillInv /\ StoreValue => FillInv'
<1> SUFFICES ASSUME FillInv, StoreValue PROVE FillInv'
  OBVIOUS
<1> DEFINE i == Len(outArr) + 1
<1>1. /\ UNCHANGED <<data, anTimestamps, data_idx, current_value>>
      /\ i \in 1..Len(anTimestamps)
      /\ outArr' = Append(outArr, current_value) /\ Len(outArr') = i
      /\ outArr'[i] = current_value
      /\ \A j \in 1..Len(outArr) : outArr'[j] = outArr[j]
  BY DEF FillInv, FillTypes, StoreValue, Filling
<1>2. FillTypes'
  BY <1>1 DEF FillInv, FillTypes, Ascend
<1>3. LastOf(data, data_idx, current_value)' /\ DueBy(data, anTimestamps, data_idx, Len(outArr) + 1)'
  <2>1. \A n \in 1..Len(anTimestamps) : n <= i => n <= i + 1
    OBVIOUS
  <2> QED
    BY <1>1, <2>1 DEF FillInv, LoopInv, LastOf, DueBy
<1>4. LastOf(data, data_idx, outArr'[i]) /\ DueBy(data, anTimestamps, data_idx, i) /\ data_idx \in 0..Len(data)
  BY <1>1 DEF FillInv, FillTypes, LoopInv
<1>5. data_idx < Len(data) => data[data_idx + 1].ts > AmiDateToUnix(anTimestamps[i])
  <2>1. /\ data_idx < Len(data) => data[data_idx + 1] \in DataPoint
        /\ anTimestamps[i] \in Dates
    BY <1>1 DEF FillInv, FillTypes
  <2> QED
    BY <2>1, MaxTsAssumption
    DEF StoreValue, Consumable, barTs_Unix, DataPoint, Dates, AmiDateToUnix, BadDate
<1>6. ASSUME NEW j \in 1..Len(outArr)
      PROVE  \E n \in 0..Len(data) :
               /\ LastOf(data, n, outArr'[j]) /\ DueBy(data, anTimestamps, n, j)
               /\ n < Len(data) => data[n + 1].ts > AmiDateToUnix(anTimestamps[j])
  BY <1>1 DEF FillInv, LoopInv
<1>7. \A j \in 1..i : j = i \/ j \in 1..Len(outArr)
  BY DEF FillInv, FillTypes
<1>8. \A j \in 1..i :
        \E n \in 0..Len(data) :
          /\ LastOf(data, n, outArr'[j]) /\ DueBy(data, anTimestamps, n, j)
          /\ n < Len(data) => data[n + 1].ts > AmiDateToUnix(anTimestamps[j])
  BY <1>4, <1>5, <1>6, <1>7
<1> QED
  BY <1>1, <1>2, <1>3, <1>8 DEF FillInv, LoopInv

\* FillInv is inductive.
LEMMA FillInvStep == FillInv /\ [FillNext]_fillVars => FillInv'
<1> SUFFICES ASSUME FillInv, [FillNext]_fillVars PROVE FillInv'
  OBVIOUS
<1>1. CASE UNCHANGED fillVars
  BY <1>1 DEF fillVars, FillInv, FillTypes, LoopInv
<1> QED
  BY <1>1, StartKeepsInv, TakeKeepsInv, StoreKeepsInv DEF FillNext, FillStep

\* FillInv holds for ever.
LEMMA FillInvariant == FillSpec => []FillInv
BY FillInvInit, FillInvStep, PTL DEF FillSpec

-----------------------------------------------------------------------------

\* A point due by a bar, or by one before it, is not later than that bar.
LEMMA DueIsNotLater ==
  ASSUME FillInv, NEW j \in 1..Len(outArr), Representable(j), NEW n \in 0..Len(data),
         DueBy(data, anTimestamps, n, j)
  PROVE  \A k \in 1..n : data[k].ts <= anTimestamps[j]
<1> SUFFICES ASSUME NEW k \in 1..n PROVE data[k].ts <= anTimestamps[j]
  OBVIOUS
<1>1. PICK i \in 1..Len(anTimestamps) :
        i <= j /\ data[k].ts <= AmiDateToUnix(anTimestamps[i])
  BY DEF DueBy
<1>2. /\ j \in 1..Len(anTimestamps) /\ data[k] \in DataPoint
      /\ anTimestamps[i] \in Dates /\ anTimestamps[j] \in Dates
      /\ anTimestamps[i] # BadDate /\ anTimestamps[j] # BadDate
      /\ i < j => anTimestamps[i] <= anTimestamps[j]
  BY <1>1 DEF FillInv, FillTypes, Ascend, Representable
<1> QED
  BY <1>1, <1>2, MaxTsAssumption DEF AmiDateToUnix, DataPoint, Dates, BadDate

\* Whatever the order of the points, no bar shows a value of a later date.
THEOREM NeverLooksAhead == FillSpec => []NoLookAhead
<1>1. FillInv => NoLookAhead
  <2> SUFFICES ASSUME FillInv, NEW j \in DOMAIN outArr, Representable(j),
                      outArr[j] # EMPTY_VAL
               PROVE  \E k \in DOMAIN data :
                        data[k].value = outArr[j] /\ data[k].ts <= anTimestamps[j]
    BY DEF NoLookAhead
  <2>1. j \in 1..Len(outArr) /\ DOMAIN data = 1..Len(data)
    BY DEF FillInv, FillTypes
  <2>2. PICK n \in 0..Len(data) : LastOf(data, n, outArr[j]) /\ DueBy(data, anTimestamps, n, j)
    BY <2>1 DEF FillInv, LoopInv
  <2>3. \A k \in 1..n : data[k].ts <= anTimestamps[j]
    BY <2>1, <2>2, DueIsNotLater
  <2> QED
    BY <2>1, <2>2, <2>3 DEF LastOf, FillInv, FillTypes
<1> QED
  BY <1>1, FillInvariant, PTL

\* Over points in order the loop shows the latest value for every bar.
THEOREM FindsLatest == FillSpec => []FillIsLatest
<1>1. FillInv => FillIsLatest
  <2> SUFFICES ASSUME FillInv, InOrder(data), NEW j \in DOMAIN outArr, Representable(j)
               PROVE  IsLatest(data, anTimestamps[j], outArr[j])
    BY DEF FillIsLatest
  <2>1. /\ j \in 1..Len(outArr) /\ DOMAIN data = 1..Len(data)
        /\ j \in 1..Len(anTimestamps)
    BY DEF FillInv, FillTypes
  <2>2. PICK n \in 0..Len(data) :
          /\ LastOf(data, n, outArr[j]) /\ DueBy(data, anTimestamps, n, j)
          /\ n < Len(data) => data[n + 1].ts > AmiDateToUnix(anTimestamps[j])
    BY <2>1 DEF FillInv, LoopInv
  <2>3. \A k \in 1..n : data[k].ts <= anTimestamps[j]
    BY <2>1, <2>2, DueIsNotLater
  <2>4. ASSUME NEW k \in n + 1..Len(data) PROVE ~(data[k].ts <= anTimestamps[j])
    <3>1. /\ n + 1 \in 1..Len(data) /\ k \in 1..Len(data)
          /\ data[n + 1] \in DataPoint /\ data[k] \in DataPoint
          /\ anTimestamps[j] \in Dates /\ anTimestamps[j] # BadDate
      BY <2>1 DEF FillInv, FillTypes, Representable
    <3>2. data[n + 1].ts <= data[k].ts
      BY <2>1, <3>1 DEF InOrder, DataPoint
    <3> QED
      BY <2>2, <3>1, <3>2, MaxTsAssumption DEF AmiDateToUnix, DataPoint, Dates, BadDate
  <2>5. \A k \in DOMAIN data : data[k].ts <= anTimestamps[j] => k \in 1..n
    BY <2>1, <2>4
  <2> QED
    BY <2>1, <2>2, <2>3, <2>5 DEF LastOf, IsLatest
<1> QED
  BY <1>1, FillInvariant, PTL
===============================================================================
