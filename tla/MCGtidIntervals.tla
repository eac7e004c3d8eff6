-------------------------- MODULE MCGtidIntervals --------------------------
(* Values for TLC: texts of up to three intervals, with gaps that one or   *)
(* two adds close, and with none.                                          *)
EXTENDS GtidIntervals

MCTexts ==
  LET pair(a, b) == [start |-> a, end |-> b]
  IN  {<<pair(1, 2)>>, <<pair(3, 3)>>, <<pair(3, 6)>>,
       <<pair(1, 1), pair(4, 5)>>, <<pair(2, 3), pair(5, 5)>>,
       <<pair(1, 1), pair(3, 3), pair(6, 6)>>,
       <<pair(1, 2), pair(3, 4), pair(5, 6)>>}
=============================================================================
