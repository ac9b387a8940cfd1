--------------------------- MODULE DataStoreProofs ---------------------------
(***************************************************************************)
(* What the two merges of data/data_store.cpp return, for any bars.        *)
(***************************************************************************)
EXTENDS DataStore, FiniteSetTheorems, TLAPS

\* A non-empty set of positions has a last one.
LEMMA LastPosition ==
  ASSUME NEW n \in Nat, NEW P \in SUBSET (1..n), P # {}
  PROVE  \E i \in P : \A j \in P : j <= i
<1> DEFINE After(i) == {j \in P : j > i}
           R == StrictSubsetOrdering(1..n)
           S == FiniteSubsetsOf(1..n)
           T == {After(i) : i \in P}
<1>1. S = SUBSET (1..n)
  <2>1. IsFiniteSet(1..n)
    BY FS_Interval
  <2> QED
    BY <2>1, FS_FiniteSubsetsOfFinite
<1>2. PICK x \in T : \A y \in T : <<y, x>> \notin R
  <2>1. IsWellFoundedOn(R, S)
    BY FS_StrictSubsetOrderingWellFounded
  <2>2. T \subseteq S /\ T # {}
    <3>1. \A i \in P : After(i) \subseteq 1..n
      BY Zenon
    <3>2. \A i \in P : After(i) \in S
      BY <1>1, <3>1, Zenon
    <3> HIDE DEF After, S
    <3> QED
      BY <3>2, Zenon
  <2> HIDE DEF R, S, T
  <2> QED
    BY <2>1, <2>2, WFMin
<1>3. PICK i \in P : x = After(i)
  BY <1>2
<1>4. ASSUME NEW j \in P, j > i PROVE FALSE
  <2>1. After(j) \subseteq After(i) /\ j \in After(i) /\ j \notin After(j)
    <3>1. \A k \in P : k \in Int
      OBVIOUS
    <3>2. \A k \in P : k > j => k > i
      BY <1>4, <3>1
    <3>3. ~(j > j)
      BY <3>1
    <3> QED
      BY <1>4, <3>2, <3>3, Zenon
  <2>2. After(j) \in T /\ After(j) \in SUBSET (1..n) /\ After(i) \in SUBSET (1..n)
    OBVIOUS
  <2> QED
    BY <1>2, <1>3, <2>1, <2>2 DEF StrictSubsetOrdering
<1> QED
  BY <1>4

\* LastOf finds a bar of the day, if there is one.
LEMMA LastOfIs ==
  ASSUME NEW S, NEW bars \in Seq(S), NEW d \in DatesOf(bars)
  PROVE  \E i \in DOMAIN bars : bars[i].date = d /\ LastOf(bars, d) = bars[i]
<1> DEFINE P == {i \in DOMAIN bars : bars[i].date = d}
<1>1. P \in SUBSET (1..Len(bars)) /\ P # {} /\ Len(bars) \in Nat
  BY DEF DatesOf
<1>2. PICK i \in P : \A j \in P : j <= i
  BY <1>1, LastPosition
<1> QED
  BY <1>2 DEF LastOf

-----------------------------------------------------------------------------
(* The std::map: the bars of a set in the order of their dates.            *)

\* No two bars of a day, and every day a number.
OnePerDay(S) ==
  /\ \A b \in S : b.date \in Nat
  /\ \A a, b \in S : a.date = b.date => a = b

Rank(S, b) == Cardinality({a \in S : Earlier(a, b)})

\* A later bar has a higher rank.
LEMMA RankGrows ==
  ASSUME NEW S, IsFiniteSet(S), OnePerDay(S), NEW a \in S, NEW b \in S, Earlier(a, b)
  PROVE  Rank(S, a) < Rank(S, b)
<1> DEFINE A == {c \in S : Earlier(c, a)}
           B == {c \in S : Earlier(c, b)}
<1>1. A \in SUBSET B /\ a \in B /\ a \notin A
  BY DEF Earlier, OnePerDay
<1>2. IsFiniteSet(B)
  BY FS_Subset
<1>3. IsFiniteSet(A) /\ Cardinality(A) <= Cardinality(B) /\ (Cardinality(A) = Cardinality(B) => A = B)
  BY <1>1, <1>2, FS_Subset
<1>4. Cardinality(A) \in Nat /\ Cardinality(B) \in Nat
  BY <1>2, <1>3, FS_CardinalityType
<1> QED
  BY <1>1, <1>3, <1>4 DEF Rank

\* A bar is not before itself, so ranks stay below the number of bars.
LEMMA RankIsSmall ==
  ASSUME NEW S, IsFiniteSet(S), OnePerDay(S), NEW b \in S
  PROVE  Rank(S, b) \in Nat /\ Rank(S, b) < Cardinality(S)
<1> DEFINE B == {c \in S : Earlier(c, b)}
<1>1. B \in SUBSET S /\ b \notin B
  BY DEF Earlier, OnePerDay
<1>2. IsFiniteSet(B) /\ Cardinality(B) <= Cardinality(S) /\ (Cardinality(S) = Cardinality(B) => S = B)
  BY <1>1, FS_Subset
<1>3. Cardinality(B) \in Nat /\ Cardinality(S) \in Nat
  BY <1>2, FS_CardinalityType
<1> QED
  BY <1>1, <1>2, <1>3 DEF Rank

\* Every position has its bar.
LEMMA RankIsOnto ==
  ASSUME NEW S, IsFiniteSet(S), OnePerDay(S)
  PROVE  /\ Cardinality(S) \in Nat
         /\ \A i \in 1..Cardinality(S) : \E b \in S : Rank(S, b) = i - 1
<1> DEFINE n == Cardinality(S)
           f == [b \in S |-> Rank(S, b) + 1]
<1>1. n \in Nat
  BY FS_CardinalityType
<1>2. \A b \in S : Rank(S, b) \in Nat /\ Rank(S, b) < n
  BY RankIsSmall
<1>3. f \in Injection(S, 1..n)
  <2>1. f \in [S -> 1..n]
    BY <1>1, <1>2
  <2>2. ASSUME NEW a \in S, NEW b \in S, f[a] = f[b] PROVE a = b
    <3>1. Rank(S, a) = Rank(S, b)
      BY <1>2, <2>2
    <3>2. ~Earlier(a, b) /\ ~Earlier(b, a)
      BY <1>2, <3>1, RankGrows
    <3> QED
      BY <3>2 DEF Earlier, OnePerDay
  <2> QED
    BY <2>1, <2>2 DEF Injection, IsInjective
<1>4. IsFiniteSet(1..n) /\ Cardinality(1..n) = n
  BY <1>1, FS_Interval
<1>5. f \in Surjection(S, 1..n)
  BY <1>3, <1>4, FS_Injection
<1>6. ASSUME NEW i \in 1..n PROVE \E b \in S : Rank(S, b) = i - 1
  <2>1. PICK b \in S : f[b] = i
    BY <1>5 DEF Surjection
  <2> QED
    BY <1>1, <1>2, <2>1
<1> QED
  BY <1>1, <1>6

\* ByDate holds the bars of the set, no others, in the order of their dates.
LEMMA ByDateSorts ==
  ASSUME NEW S, IsFiniteSet(S), OnePerDay(S)
  PROVE  /\ ByDate(S) \in Seq(S)
         /\ Ascending(ByDate(S))
         /\ \A b \in S : \E i \in DOMAIN ByDate(S) : ByDate(S)[i] = b
<1> DEFINE n == Cardinality(S)
           f == ByDate(S)
<1>1. n \in Nat /\ \A i \in 1..n : \E b \in S : Rank(S, b) = i - 1
  BY RankIsOnto
<1>2. f = [i \in 1..n |-> CHOOSE b \in S : Rank(S, b) = i - 1]
  BY DEF ByDate, Rank
<1>3. \A i \in 1..n : f[i] \in S /\ Rank(S, f[i]) = i - 1
  BY <1>1, <1>2
<1>4. f \in Seq(S) /\ DOMAIN f = 1..n
  BY <1>1, <1>2, <1>3
<1>5. Ascending(f)
  <2> SUFFICES ASSUME NEW i \in 1..n, NEW j \in 1..n, i < j PROVE Earlier(f[i], f[j])
    BY <1>4 DEF Ascending
  <2>1. f[i] # f[j]
    BY <1>3
  <2>2. ~Earlier(f[j], f[i])
    BY <1>3, RankGrows
  <2> QED
    BY <1>3, <2>1, <2>2 DEF Earlier, OnePerDay
<1>6. ASSUME NEW b \in S PROVE \E i \in DOMAIN f : f[i] = b
  <2>1. Rank(S, b) \in Nat /\ Rank(S, b) < n
    BY RankIsSmall
  <2>2. Rank(S, b) + 1 \in 1..n
    BY <1>1, <2>1
  <2>3. f[Rank(S, b) + 1] \in S /\ Rank(S, f[Rank(S, b) + 1]) = Rank(S, b)
    BY <1>3, <2>1, <2>2
  <2>4. ~Earlier(f[Rank(S, b) + 1], b) /\ ~Earlier(b, f[Rank(S, b) + 1])
    BY <2>1, <2>3, RankGrows
  <2> QED
    BY <1>4, <2>2, <2>3, <2>4 DEF Earlier, OnePerDay
<1> QED
  BY <1>4, <1>5, <1>6

-----------------------------------------------------------------------------
(* The merges.                                                             *)

\* mergeHistorical: what is in the map.
Merged(old, new) ==
  {LastOf(new, d) : d \in DatesOf(new)}
    \union {LastOf(old, d) : d \in DatesOf(old) \ DatesOf(new)}

\* The days of a vector are finitely many.
LEMMA FiniteDates ==
  ASSUME NEW S, NEW bars \in Seq(S)
  PROVE  IsFiniteSet(DatesOf(bars))
<1> DEFINE f == [i \in 1..Len(bars) |-> bars[i].date]
<1>1. DatesOf(bars) = {bars[i].date : i \in 1..Len(bars)}
  BY DEF DatesOf
<1>2. f \in Surjection(1..Len(bars), DatesOf(bars))
  BY <1>1 DEF Surjection
<1>3. IsFiniteSet(1..Len(bars))
  BY FS_Interval
<1> QED
  BY <1>2, <1>3, FS_Surjection

\* The map has one bar for each day of either vector, of the new one if it can.
LEMMA MergedIs ==
  ASSUME NEW S, \A b \in S : b.date \in Nat, NEW old \in Seq(S), NEW new \in Seq(S)
  PROVE  /\ IsFiniteSet(Merged(old, new))
         /\ OnePerDay(Merged(old, new))
         /\ Merged(old, new) \subseteq S
         /\ \A d \in DatesOf(old) \union DatesOf(new) :
              \E b \in Merged(old, new) : b.date = d
<1> DEFINE D == DatesOf(old) \union DatesOf(new)
           At(d) == IF d \in DatesOf(new) THEN LastOf(new, d) ELSE LastOf(old, d)
           f == [d \in D |-> At(d)]
<1>1. \A d \in D : At(d) \in S /\ At(d).date = d
  <2>1. ASSUME NEW bars \in Seq(S), NEW d \in DatesOf(bars)
        PROVE  LastOf(bars, d) \in S /\ LastOf(bars, d).date = d
    BY LastOfIs
  <2> QED
    BY <2>1
<1>2. Merged(old, new) = {At(d) : d \in D}
  BY DEF Merged
<1>3. IsFiniteSet(D)
  BY FiniteDates, FS_Union
<1>4. f \in Surjection(D, Merged(old, new))
  BY <1>2 DEF Surjection
<1>5. IsFiniteSet(Merged(old, new))
  BY <1>3, <1>4, FS_Surjection
<1> QED
  BY <1>1, <1>2, <1>5 DEF OnePerDay

\* mergeHistorical sorts and keeps every day, whatever comes in.
THEOREM MergeHistoricalIs ==
  ASSUME NEW S, \A b \in S : b.date \in Nat, NEW old \in Seq(S), NEW new \in Seq(S), new # <<>>
  PROVE  /\ MergeHistorical(old, new) \in Seq(S)
         /\ Ascending(MergeHistorical(old, new))
         /\ \A b \in Merged(old, new) :
              \E i \in DOMAIN MergeHistorical(old, new) : MergeHistorical(old, new)[i] = b
<1>1. MergeHistorical(old, new) = ByDate(Merged(old, new))
  BY DEF MergeHistorical, Merged
<1>2. Merged(old, new) \subseteq S /\ IsFiniteSet(Merged(old, new)) /\ OnePerDay(Merged(old, new))
  BY MergedIs
<1>3. ByDate(Merged(old, new)) \in Seq(S)
  <2>1. ByDate(Merged(old, new)) \in Seq(Merged(old, new))
    BY <1>2, ByDateSorts
  <2> QED
    BY <1>2, <2>1
<1> QED
  BY <1>1, <1>2, <1>3, ByDateSorts

\* mergeLiveToHistorical keeps the order, and every day that was there.
THEOREM MergeLiveIs ==
  ASSUME NEW S, \A b \in S : b.date \in Nat, NEW bars \in Seq(S), Ascending(bars),
         NEW today \in Nat, \A d \in DatesOf(bars) : d <= today,
         NEW quote, LiveBar(today, quote) \in S
  PROVE  /\ MergeLive(bars, today, quote) \in Seq(S)
         /\ Ascending(MergeLive(bars, today, quote))
         /\ \A i \in DOMAIN bars :
              /\ i \in DOMAIN MergeLive(bars, today, quote)
              /\ \/ MergeLive(bars, today, quote)[i] = bars[i]
                 \/ /\ bars[i].date = today
                    /\ MergeLive(bars, today, quote)[i] = LiveBar(today, quote)
<1> DEFINE n == Len(bars)
           new == LiveBar(today, quote)
<1>1. n \in Nat /\ DOMAIN bars = 1..n /\ (bars # <<>> => n \in 1..n /\ Last(bars) = bars[n])
  BY DEF Last
<1>2. \A i \in 1..n : bars[i] \in S /\ bars[i].date \in Nat /\ bars[i].date <= today
  BY <1>1 DEF DatesOf
<1>3. \A i, j \in 1..n : i < j => bars[i].date < bars[j].date
  BY <1>1 DEF Ascending, Earlier
<1>4. new.date = today
  BY DEF LiveBar
<1>5. CASE bars # <<>> /\ Last(bars).date = today
  <2>1. MergeLive(bars, today, quote) = [bars EXCEPT ![n] = new]
    BY <1>5 DEF MergeLive
  <2>2. [bars EXCEPT ![n] = new] \in Seq(S)
    BY <1>1, <1>5
  <2>3. Ascending([bars EXCEPT ![n] = new])
    BY <1>1, <1>2, <1>3, <1>4, <1>5 DEF Ascending, Earlier
  <2> QED
    BY <1>1, <1>5, <2>1, <2>2, <2>3
<1>6. CASE bars = <<>> \/ Last(bars).date # today
  <2>1. MergeLive(bars, today, quote) = Append(bars, new)
    BY <1>6 DEF MergeLive
  <2>2. Append(bars, new) \in Seq(S)
    OBVIOUS
  <2>3. \A i \in 1..n : bars[i].date < today
    BY <1>1, <1>2, <1>3, <1>6
  <2>4. /\ DOMAIN Append(bars, new) = 1..(n + 1) /\ Append(bars, new)[n + 1] = new
        /\ \A i \in 1..n : Append(bars, new)[i] = bars[i]
    BY <1>1
  <2>5. Ascending(Append(bars, new))
    BY <1>1, <1>3, <1>4, <2>3, <2>4 DEF Ascending, Earlier
  <2> QED
    BY <1>1, <2>1, <2>2, <2>4, <2>5
<1> QED
  BY <1>5, <1>6

-----------------------------------------------------------------------------
(* The vectors as the sets of their bars.                                  *)

\* A vector in the order of its dates has one bar per day.
LEMMA AscendingIsOnePerDay ==
  ASSUME NEW S, \A b \in S : b.date \in Nat, NEW bars \in Seq(S), Ascending(bars)
  PROVE  OnePerDay(ToSet(bars))
<1>1. \A i \in DOMAIN bars : i \in Nat /\ bars[i] \in S /\ bars[i].date \in Nat
  OBVIOUS
<1>2. \A i, j \in DOMAIN bars : i # j => bars[i].date # bars[j].date
  <2> SUFFICES ASSUME NEW i \in DOMAIN bars, NEW j \in DOMAIN bars, i # j
               PROVE  bars[i].date # bars[j].date
    OBVIOUS
  <2>1. i < j \/ j < i
    BY <1>1
  <2> QED
    BY <1>1, <2>1 DEF Ascending, Earlier
<1> QED
  BY <1>1, <1>2 DEF OnePerDay, ToSet

\* As a set, a sorted map is what was put in.
LEMMA ByDateSet ==
  ASSUME NEW S, IsFiniteSet(S), OnePerDay(S)
  PROVE  ToSet(ByDate(S)) = S
<1>1. ByDate(S) \in Seq(S) /\ \A b \in S : \E i \in DOMAIN ByDate(S) : ByDate(S)[i] = b
  BY ByDateSorts
<1>2. \A i \in DOMAIN ByDate(S) : ByDate(S)[i] \in S
  BY <1>1
<1> QED
  BY <1>1, <1>2 DEF ToSet

\* With one bar per day there is no last one to choose.
LEMMA OneOfTheDay ==
  ASSUME NEW S, NEW bars \in Seq(S), OnePerDay(ToSet(bars))
  PROVE  /\ \A d \in DatesOf(bars) : LastOf(bars, d) \in ToSet(bars) /\ LastOf(bars, d).date = d
         /\ \A b \in ToSet(bars) : b.date \in DatesOf(bars) /\ b = LastOf(bars, b.date)
<1>1. \A d \in DatesOf(bars) : LastOf(bars, d) \in ToSet(bars) /\ LastOf(bars, d).date = d
  BY LastOfIs DEF ToSet
<1>2. \A b \in ToSet(bars) : b.date \in DatesOf(bars)
  BY DEF ToSet, DatesOf
<1> QED
  BY <1>1, <1>2 DEF OnePerDay

\* mergeHistorical lays the new bars over the old ones, day by day: what it
\* returns is the new vector and the bars of the days that are not in it.
THEOREM MergeHistoricalLays ==
  ASSUME NEW S, \A b \in S : b.date \in Nat, NEW old \in Seq(S), NEW new \in Seq(S),
         OnePerDay(ToSet(old)), OnePerDay(ToSet(new))
  PROVE  ToSet(MergeHistorical(old, new)) =
           ToSet(new) \union {b \in ToSet(old) : \A c \in ToSet(new) : c.date # b.date}
<1>1. CASE new = <<>>
  <2>1. MergeHistorical(old, new) = old /\ ToSet(new) = {}
    BY <1>1 DEF MergeHistorical, ToSet
  <2> QED
    BY <2>1
<1>2. CASE new # <<>>
  <2>1. MergeHistorical(old, new) = ByDate(Merged(old, new))
    BY <1>2 DEF MergeHistorical, Merged
  <2>2. ToSet(MergeHistorical(old, new)) = Merged(old, new)
    BY <2>1, MergedIs, ByDateSet
  <2>3. ASSUME NEW bars \in Seq(S), OnePerDay(ToSet(bars))
        PROVE  /\ \A d \in DatesOf(bars) : LastOf(bars, d) \in ToSet(bars) /\ LastOf(bars, d).date = d
               /\ \A b \in ToSet(bars) : b.date \in DatesOf(bars) /\ b = LastOf(bars, b.date)
    BY <2>3, OneOfTheDay
  <2>4. \A d : d \in DatesOf(new) <=> \E b \in ToSet(new) : b.date = d
    BY DEF DatesOf, ToSet
  <2>5. {LastOf(new, d) : d \in DatesOf(new)} = ToSet(new)
    BY <2>3
  <2>6. {LastOf(old, d) : d \in DatesOf(old) \ DatesOf(new)} =
          {b \in ToSet(old) : b.date \notin DatesOf(new)}
    <3>1. /\ \A d \in DatesOf(old) : LastOf(old, d) \in ToSet(old) /\ LastOf(old, d).date = d
          /\ \A b \in ToSet(old) : b.date \in DatesOf(old) /\ b = LastOf(old, b.date)
      BY <2>3
    <3> QED
      BY <3>1
  <2> QED
    BY <2>2, <2>4, <2>5, <2>6 DEF Merged
<1> QED
  BY <1>1, <1>2

\* mergeLiveToHistorical lays one bar of today over the vector.
THEOREM MergeLiveLays ==
  ASSUME NEW S, \A b \in S : b.date \in Nat, NEW bars \in Seq(S), Ascending(bars),
         NEW today \in Nat, \A d \in DatesOf(bars) : d <= today, NEW quote
  PROVE  ToSet(MergeLive(bars, today, quote)) =
           {LiveBar(today, quote)} \union {b \in ToSet(bars) : b.date # today}
<1> DEFINE n == Len(bars)
           new == LiveBar(today, quote)
<1>1. n \in Nat /\ DOMAIN bars = 1..n /\ (bars # <<>> => n \in 1..n /\ Last(bars) = bars[n])
  BY DEF Last
<1>2. \A i \in 1..n : bars[i] \in S /\ bars[i].date \in Nat /\ bars[i].date <= today
  BY <1>1 DEF DatesOf
<1>3. \A i, j \in 1..n : i < j => bars[i].date < bars[j].date
  BY <1>1 DEF Ascending, Earlier
<1>4. CASE bars # <<>> /\ Last(bars).date = today
  <2>1. MergeLive(bars, today, quote) = [bars EXCEPT ![n] = new]
    BY <1>4 DEF MergeLive
  <2>2. \A i \in 1..n : bars[i].date # today <=> i # n
    <3>1. n \in 1..n /\ bars[n].date = today
      BY <1>1, <1>4
    <3> HIDE DEF n
    <3>2. \A i \in 1..n : i # n => i < n
      BY <1>1
    <3>3. \A i \in 1..n : i # n => bars[i].date < bars[n].date
      BY <1>3, <3>1, <3>2
    <3> QED
      BY <1>2, <3>1, <3>3
  <2> HIDE DEF new
  <2>3. ToSet([bars EXCEPT ![n] = new]) = {new} \union {b \in ToSet(bars) : b.date # today}
    BY <1>1, <1>4, <2>2 DEF ToSet
  <2> QED
    BY <2>1, <2>3 DEF new
<1>5. CASE bars = <<>> \/ Last(bars).date # today
  <2>1. MergeLive(bars, today, quote) = Append(bars, new)
    BY <1>5 DEF MergeLive
  <2>2. \A i \in 1..n : bars[i].date # today
    BY <1>1, <1>2, <1>3, <1>5
  <2> HIDE DEF new
  <2>3. /\ DOMAIN Append(bars, new) = 1..(n + 1) /\ Append(bars, new)[n + 1] = new
        /\ \A i \in 1..n : Append(bars, new)[i] = bars[i]
    BY <1>1
  <2>4. ToSet(Append(bars, new)) = {new} \union {b \in ToSet(bars) : b.date # today}
    BY <1>1, <2>2, <2>3 DEF ToSet
  <2> QED
    BY <2>1, <2>4 DEF new
<1> QED
  BY <1>4, <1>5

\* How many bars of a vector in order are later than one of them: those that
\* come after it.
LEMMA LaterThan ==
  ASSUME NEW S, \A b \in S : b.date \in Nat, NEW bars \in Seq(S), Ascending(bars),
         NEW i \in DOMAIN bars
  PROVE  Cardinality({c \in ToSet(bars) : c.date > bars[i].date}) = Len(bars) - i
<1> DEFINE n == Len(bars)
           I == (i + 1)..n
           L == {c \in ToSet(bars) : c.date > bars[i].date}
           f == [j \in I |-> bars[j]]
<1>1. n \in Nat /\ DOMAIN bars = 1..n /\ i \in 1..n /\ \A j \in 1..n : bars[j].date \in Nat
  OBVIOUS
<1>2. \A j, k \in 1..n : j < k => bars[j].date < bars[k].date
  BY <1>1 DEF Ascending, Earlier
<1>3. \A j \in 1..n : bars[j].date > bars[i].date <=> j \in I
  BY <1>1, <1>2
<1>4. f \in Bijection(I, L)
  <2>1. f \in [I -> L]
    BY <1>1, <1>3 DEF ToSet
  <2>2. \A j, k \in I : f[j] = f[k] => j = k
    <3>1. \A j, k \in I : j \in 1..n /\ k \in 1..n /\ (j # k => j < k \/ k < j)
      BY <1>1
    <3> QED
      BY <1>1, <1>2, <3>1
  <2>3. \A c \in L : \E j \in I : f[j] = c
    BY <1>1, <1>3 DEF ToSet
  <2> QED
    BY <2>1, <2>2, <2>3 DEF Bijection, Injection, Surjection, IsInjective
<1>5. IsFiniteSet(I) /\ Cardinality(I) = n - i
  <2> HIDE DEF n
  <2>1. i + 1 \in Int /\ n \in Int /\ i + 1 <= n + 1
    BY <1>1
  <2>2. IsFiniteSet(I) /\ Cardinality(I) = IF i + 1 > n THEN 0 ELSE n - (i + 1) + 1
    BY <2>1, FS_Interval
  <2> QED
    BY <1>1, <2>2
<1> HIDE DEF I, L, f
<1>6. Cardinality(L) = Cardinality(I)
  <2>1. ExistsBijection(I, L)
    BY <1>4 DEF ExistsBijection
  <2> QED
    BY <1>5, <2>1, FS_Bijection
<1> QED
  BY <1>5, <1>6 DEF L

\* The positions of the end of a vector.
LEMMA TailOf ==
  ASSUME NEW S, NEW bars \in Seq(S), NEW m \in 0..Len(bars)
  PROVE  LET tail == SubSeq(bars, Len(bars) - m + 1, Len(bars)) IN
           /\ tail \in Seq(S) /\ DOMAIN tail = 1..m
           /\ \A i \in 1..m : tail[i] = bars[Len(bars) - m + i]
OBVIOUS

\* The last m of n positions are those after the first n - m.
LEMMA LastPositions ==
  ASSUME NEW n \in Nat, NEW m \in 0..n
  PROVE  /\ \A i \in 1..m : n - m + i \in 1..n /\ n - m + i > n - m
         /\ \A i \in 1..n : i > n - m => i - (n - m) \in 1..m /\ n - m + (i - (n - m)) = i
OBVIOUS

\* The end of a vector in order, as GetQuotesEx copies it: the days of which
\* fewer than `size` are later.
THEOREM TailIsNewest ==
  ASSUME NEW S, \A b \in S : b.date \in Nat, NEW bars \in Seq(S), Ascending(bars),
         NEW size \in Nat,
         NEW m, m = IF Len(bars) < size THEN Len(bars) ELSE size
  PROVE  ToSet(SubSeq(bars, Len(bars) - m + 1, Len(bars))) =
           {b \in ToSet(bars) : Cardinality({c \in ToSet(bars) : c.date > b.date}) < size}
<1> DEFINE n == Len(bars)
           tail == SubSeq(bars, n - m + 1, n)
           Later(b) == Cardinality({c \in ToSet(bars) : c.date > b.date})
<1>1. n \in Nat /\ m \in 0..n /\ DOMAIN bars = 1..n /\ m = IF n < size THEN n ELSE size
  OBVIOUS
<1>2. DOMAIN tail = 1..m /\ \A i \in 1..m : tail[i] = bars[n - m + i]
  BY <1>1, TailOf
<1>3. \A i \in 1..n : Later(bars[i]) = n - i
  BY <1>1, LaterThan
<1>4. \A b : b \in ToSet(bars) <=> \E i \in 1..n : b = bars[i]
  BY <1>1 DEF ToSet
<1> HIDE DEF n, tail, Later
<1>5. \A i \in 1..n : n - i < size <=> i > n - m
  BY <1>1
<1>6. \A b : b \in ToSet(tail) <=> \E i \in 1..n : b = bars[i] /\ i > n - m
  <2>1. \A i \in 1..m : n - m + i \in 1..n /\ n - m + i > n - m
    BY <1>1, LastPositions
  <2>2. \A i \in 1..n : i > n - m => i - (n - m) \in 1..m /\ n - m + (i - (n - m)) = i
    BY <1>1, LastPositions
  <2>3. ASSUME NEW b \in ToSet(tail) PROVE \E i \in 1..n : b = bars[i] /\ i > n - m
    BY <1>2, <2>1 DEF ToSet
  <2>4. ASSUME NEW i \in 1..n, i > n - m PROVE bars[i] \in ToSet(tail)
    BY <1>2, <2>2, <2>4 DEF ToSet
  <2> QED
    BY <2>3, <2>4
<1>7. ToSet(tail) = {b \in ToSet(bars) : Later(b) < size}
  BY <1>3, <1>4, <1>5, <1>6
<1> QED
  BY <1>7 DEF n, tail, Later

-----------------------------------------------------------------------------
(* Answers that come twice, or in another order.                           *)

\* The bars of a merge, found again by their days.
LEMMA FoundInMerge ==
  ASSUME NEW S, \A b \in S : b.date \in Nat, NEW old \in Seq(S), NEW new \in Seq(S), new # <<>>
  PROVE  LET both == MergeHistorical(old, new) IN
           /\ both \in Seq(S)
           /\ DatesOf(both) = DatesOf(old) \union DatesOf(new)
           /\ \A d \in DatesOf(new) : LastOf(both, d) = LastOf(new, d)
           /\ \A d \in DatesOf(old) \ DatesOf(new) : LastOf(both, d) = LastOf(old, d)
<1> DEFINE both == MergeHistorical(old, new)
           M == Merged(old, new)
<1>1. both = ByDate(M)
  BY DEF MergeHistorical, Merged
<1>2. IsFiniteSet(M) /\ OnePerDay(M)
  BY MergedIs
<1>3. both \in Seq(S) /\ ToSet(both) = M
  BY <1>1, <1>2, MergeHistoricalIs, ByDateSet
<1> HIDE DEF both
<1>4. \A b \in M : b.date \in DatesOf(both) /\ b = LastOf(both, b.date)
  BY <1>2, <1>3, OneOfTheDay
<1>5. \A d \in DatesOf(both) : \E b \in M : b.date = d
  BY <1>3 DEF DatesOf, ToSet
<1>6. /\ \A d \in DatesOf(new) : LastOf(new, d) \in M /\ LastOf(new, d).date = d
      /\ \A d \in DatesOf(old) \ DatesOf(new) : LastOf(old, d) \in M /\ LastOf(old, d).date = d
  <2>1. ASSUME NEW bars \in Seq(S), NEW d \in DatesOf(bars) PROVE LastOf(bars, d).date = d
    BY LastOfIs
  <2> QED
    BY <2>1 DEF Merged
<1>7. \A b \in M : b.date \in DatesOf(old) \union DatesOf(new)
  BY <1>6 DEF Merged
<1>8. DatesOf(both) = DatesOf(old) \union DatesOf(new)
  BY <1>4, <1>5, <1>6, <1>7
<1> QED
  BY <1>3, <1>4, <1>6, <1>8 DEF both

\* An answer merged a second time, as when a symbol was queued again while it
\* was being fetched, changes nothing.
THEOREM MergeTwiceIsOnce ==
  ASSUME NEW S, \A b \in S : b.date \in Nat, NEW old \in Seq(S), NEW new \in Seq(S)
  PROVE  MergeHistorical(MergeHistorical(old, new), new) = MergeHistorical(old, new)
<1>1. CASE new = <<>>
  BY <1>1 DEF MergeHistorical
<1>2. CASE new # <<>>
  <2> DEFINE both == MergeHistorical(old, new)
  <2>1. /\ both \in Seq(S) /\ DatesOf(both) = DatesOf(old) \union DatesOf(new)
        /\ \A d \in DatesOf(old) \ DatesOf(new) : LastOf(both, d) = LastOf(old, d)
    BY <1>2, FoundInMerge
  <2>2. both = ByDate(Merged(old, new)) /\ MergeHistorical(both, new) = ByDate(Merged(both, new))
    BY <1>2 DEF MergeHistorical, Merged
  <2> HIDE DEF both
  <2>3. Merged(both, new) = Merged(old, new)
    <3>1. DatesOf(both) \ DatesOf(new) = DatesOf(old) \ DatesOf(new)
      BY <2>1
    <3> QED
      BY <2>1, <3>1 DEF Merged
  <2> QED
    BY <2>2, <2>3 DEF both
<1> QED
  BY <1>1, <1>2

\* Answers for different days may be merged in either order.
THEOREM MergesCommute ==
  ASSUME NEW S, \A b \in S : b.date \in Nat,
         NEW old \in Seq(S), NEW one \in Seq(S), NEW other \in Seq(S),
         DatesOf(one) \intersect DatesOf(other) = {}
  PROVE  MergeHistorical(MergeHistorical(old, one), other) =
           MergeHistorical(MergeHistorical(old, other), one)
<1>1. CASE one = <<>> \/ other = <<>>
  BY <1>1 DEF MergeHistorical
<1>2. CASE one # <<>> /\ other # <<>>
  <2>1. ASSUME NEW a \in Seq(S), a # <<>>, NEW b \in Seq(S), b # <<>>,
               DatesOf(a) \intersect DatesOf(b) = {}
        PROVE  MergeHistorical(MergeHistorical(old, a), b) =
                 ByDate({LastOf(b, d) : d \in DatesOf(b)}
                          \union ({LastOf(a, d) : d \in DatesOf(a)}
                          \union {LastOf(old, d) : d \in DatesOf(old) \ (DatesOf(a) \union DatesOf(b))}))
    <3> DEFINE first == MergeHistorical(old, a)
               A == {LastOf(a, d) : d \in DatesOf(a)}
               O == {LastOf(old, d) : d \in DatesOf(old) \ (DatesOf(a) \union DatesOf(b))}
    <3>1. /\ DatesOf(first) = DatesOf(old) \union DatesOf(a)
          /\ \A d \in DatesOf(a) : LastOf(first, d) = LastOf(a, d)
          /\ \A d \in DatesOf(old) \ DatesOf(a) : LastOf(first, d) = LastOf(old, d)
      BY <2>1, FoundInMerge
    <3> HIDE DEF first
    <3>2. {LastOf(first, d) : d \in DatesOf(first) \ DatesOf(b)} = A \union O
      <4>1. DatesOf(first) \ DatesOf(b) =
              DatesOf(a) \union (DatesOf(old) \ (DatesOf(a) \union DatesOf(b)))
        BY <2>1, <3>1
      <4> QED
        BY <3>1, <4>1
    <3>3. MergeHistorical(first, b) =
            ByDate({LastOf(b, d) : d \in DatesOf(b)}
                     \union {LastOf(first, d) : d \in DatesOf(first) \ DatesOf(b)})
      BY <2>1 DEF MergeHistorical
    <3> HIDE DEF A, O
    <3>4. MergeHistorical(first, b) = ByDate({LastOf(b, d) : d \in DatesOf(b)} \union (A \union O))
      BY <3>2, <3>3
    <3> QED
      BY <3>4 DEF first, A, O
  <2> DEFINE L(v) == {LastOf(v, d) : d \in DatesOf(v)}
             O(v, w) == {LastOf(old, d) : d \in DatesOf(old) \ (DatesOf(v) \union DatesOf(w))}
  <2>2. L(other) \union (L(one) \union O(one, other)) = L(one) \union (L(other) \union O(other, one))
    <3>1. DatesOf(one) \union DatesOf(other) = DatesOf(other) \union DatesOf(one)
      OBVIOUS
    <3>2. O(one, other) = O(other, one)
      BY <3>1
    <3> HIDE DEF L, O
    <3> QED
      BY <3>2
  <2>3. MergeHistorical(MergeHistorical(old, one), other) =
          ByDate(L(other) \union (L(one) \union O(one, other)))
    BY <1>2, <2>1
  <2>4. MergeHistorical(MergeHistorical(old, other), one) =
          ByDate(L(one) \union (L(other) \union O(other, one)))
    BY <1>2, <2>1
  <2> HIDE DEF L, O
  <2> QED
    BY <2>2, <2>3, <2>4
<1> QED
  BY <1>1, <1>2
==============================================================================
