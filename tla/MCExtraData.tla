------------------------------ MODULE MCExtraData ------------------------------
(***************************************************************************)
(* Small charts for ExtraData: one in order, one out of order, one with a  *)
(* figure that was not reported; flows of two brokers on the same day, on  *)
(* a day mktime cannot represent, and without any date that parses.  No    *)
(* chart is part of another, but the empty one.                            *)
(***************************************************************************)
EXTENDS ExtraData, TLC

Point(t, v) == [ts |-> t, value |-> v]
MCCharts ==
  {<<>>, <<Point(1, 1), Point(2, EMPTY_VAL)>>, <<Point(2, 1), Point(1, 2)>>}

Day(d, v) == [date |-> d, flow |-> v]
MCFlowCharts ==
  {<<Day(1, 1), Day(2, 1), Day(1, 1)>>, <<Day(1, 1), Day(BadDate, 2)>>, <<Day(0, 1)>>}

MCBarArrays == {<<1, 2>>, <<BadDate, 1>>}

\* Figures of a symbol, and flows, differ in nothing but their names.
MCSymmetry == Permutations(Items) \union Permutations(Flows)
=============================================================================
