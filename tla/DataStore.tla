------------------------------ MODULE DataStore ------------------------------
(***************************************************************************)
(* The bars of data/data_store.cpp: a vector of candles per symbol, here a *)
(* sequence.  A candle is its date, where its prices came from and the day *)
(* they are of; numbers stand for dates.  Each operator is one method of   *)
(* DataStore, which holds m_mtx from its first line to its last.           *)
(***************************************************************************)
EXTENDS Integers, SequencesExt

AmiBar(d)     == [date |-> d, source |-> "amibroker", day |-> d]
ApiBar(d)     == [date |-> d, source |-> "api", day |-> d]
LiveBar(d, q) == [date |-> d, source |-> "live", day |-> q]

Earlier(a, b)  == a.date < b.date
DatesOf(bars)  == {bars[i].date : i \in DOMAIN bars}
Ascending(bars) == \A i, j \in DOMAIN bars : i < j => Earlier(bars[i], bars[j])

\* What a std::map by date keeps of several candles of one day.
LastOf(bars, d) ==
  bars[CHOOSE i \in DOMAIN bars :
         bars[i].date = d /\ \A j \in DOMAIN bars : bars[j].date = d => j <= i]

\* Mutant: the new candles are appended as they come.
AppendHistorical(old, new) ==
  old \o SelectSeq(new, LAMBDA b : b.date \notin DatesOf(old))

\* A std::map by date: the bars of a set in the order of their dates.
ByDate(bars) ==
  [i \in 1..Cardinality(bars) |->
     CHOOSE b \in bars : Cardinality({a \in bars : Earlier(a, b)}) = i - 1]

\* Mutant: the map starts without the old candles.
ReplaceHistorical(old, new) ==
  IF new = <<>> THEN old ELSE ByDate({LastOf(new, d) : d \in DatesOf(new)})

\* mergeHistorical: both vectors through a std::map, a new candle of a day
\* replacing the old one.
MergeHistorical(old, new) ==
  IF new = <<>> THEN old
  ELSE ByDate({LastOf(new, d) : d \in DatesOf(new)}
                \union {LastOf(old, d) : d \in DatesOf(old) \ DatesOf(new)})

\* Mutant: the last bar is taken for today's.
MergeLiveIntoLast(bars, today, quote) ==
  IF bars # <<>>
    THEN [bars EXCEPT ![Len(bars)] = LiveBar(@.date, quote)]
    ELSE <<LiveBar(today, quote)>>

\* mergeLiveToHistorical with a quote of day `quote`: into the last bar if it is
\* today's, else into a new last bar of today.
MergeLive(bars, today, quote) ==
  IF bars # <<>> /\ Last(bars).date = today
    THEN [bars EXCEPT ![Len(bars)] = LiveBar(today, quote)]
    ELSE Append(bars, LiveBar(today, quote))
=============================================================================
