------------------------------ MODULE BarCache ------------------------------
(***************************************************************************)
(* What GetQuotesEx promises of a symbol's bars: a cache with one bar per  *)
(* day, into which charts AmiBroker brought, bars the API sent and the     *)
(* live quote are laid one over the other, and of which AmiBroker is shown *)
(* the newest.  Vectors and their sorting, tasks, threads and locks are    *)
(* left to the implementation, Bridge.                                     *)
(***************************************************************************)
EXTENDS Naturals, FiniteSets

CONSTANTS
  Symbols,
  Size       \* how many bars a chart has room for

VARIABLES
  today,
  live,      \* the day of the symbol's live quote, 0 for none
  cache,     \* the bars of the symbol: a set
  chart,     \* those AmiBroker has
  carried    \* charts that were brought along and may still be put into the cache

vars == <<today, live, cache, chart, carried>>

Fetched(d)   == [date |-> d, source |-> "api", day |-> d]
Quoted(d, q) == [date |-> d, source |-> "live", day |-> q]

\* New bars over old ones, day by day.
Over(old, new) == new \union {b \in old : \A c \in new : c.date # b.date}

\* The last n days there are.
Newest(bars, n) == {b \in bars : Cardinality({c \in bars : c.date > b.date}) < n}

\* No chart is there to carry at first, and an empty one always.
Init ==
  /\ today \in Nat
  /\ live = [s \in Symbols |-> 0]
  /\ cache = [s \in Symbols |-> {}]
  /\ \A s \in Symbols :
       /\ \A a, b \in chart[s] : a.date = b.date => a = b
       /\ \A b \in chart[s] : b.date <= today
  /\ carried = [s \in Symbols |-> {{}}]

Midnight == today' = today + 1 /\ UNCHANGED <<live, cache, chart, carried>>

NewQuote(s) ==
  /\ live' = [live EXCEPT ![s] = today]
  /\ UNCHANGED <<today, cache, chart, carried>>

\* AmiBroker's chart comes along with a call.
Carry(s) ==
  /\ carried' = [carried EXCEPT ![s] = @ \union {chart[s]}]
  /\ UNCHANGED <<today, live, cache, chart>>

Forgotten(s) == \E some \in SUBSET carried[s] : carried' = [carried EXCEPT ![s] = some \union {{}}]

Forget(s) == Forgotten(s) /\ UNCHANGED <<today, live, cache, chart>>

Store(s, bars) ==
  /\ cache' = [cache EXCEPT ![s] = bars]
  /\ UNCHANGED <<today, live, chart, carried>>

\* A carried chart takes the place of the entry; an empty one empties it.
Replace(s) == \E bars \in carried[s] : Store(s, bars)

MergeChart(s) == \E bars \in carried[s] : Store(s, Over(cache[s], bars))

\* Some of the days that have come, from the API.
MergeFetched(s) ==
  \E bars \in SUBSET {Fetched(d) : d \in 1..today} : Store(s, Over(cache[s], bars))

MergeQuote(s) == live[s] # 0 /\ Store(s, Over(cache[s], {Quoted(today, live[s])}))

Show(s) ==
  /\ chart' = [chart EXCEPT ![s] = Newest(cache[s], Size)]
  /\ Forgotten(s)
  /\ UNCHANGED <<today, live, cache>>

Next ==
  \/ Midnight
  \/ \E s \in Symbols :
       \/ NewQuote(s) \/ Carry(s) \/ Forget(s)
       \/ Replace(s) \/ MergeChart(s) \/ MergeFetched(s) \/ MergeQuote(s)
       \/ Show(s)

Spec == Init /\ [][Next]_vars
=============================================================================
