------------------------- MODULE MC_DateDaysEncoder -------------------------
(* DateDaysEncoder with two-second days and V holding days -2..2, -2      *)
(* being the null sentinel.  Input -1 floors to day -1, 3 to day 1; 6 is  *)
(* day 3, which V cannot hold.                                             *)
EXTENDS DateDaysEncoder

MCVMin == -2
MCTLowest == -100
MCEncoded == {-2, -1, 1}

InRange == {-2, -1, 0, 3}

WithOverflow == {-2, -1, 6}

====
