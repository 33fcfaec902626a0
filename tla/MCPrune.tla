------------------------------- MODULE MCPrune -------------------------------
(***************************************************************************)
(* Prune with ranges two and three units of time long: the shortest that   *)
(* have an oldest, a newest and, in the last, a snapshot between them; and *)
(* with the ranges of the code, in hours.                                  *)
(***************************************************************************)
EXTENDS Prune

SmallBounds == <<2, 4, 6, 8, 11>>

\* OneDayInSec, ThreeDaysInSec, OneWeekInSec, OneMonthInSec, OneYearInSec.
HourBounds == <<24, 72, 168, 720, 8640>>

\* The end of a year, and snapshots 5, 36, 53, 60, 100 and 400 hours before it.
YearsEnd == 8760
SomeInfos == {YearsEnd - age : age \in {5, 36, 53, 60, 100, 400}}
=============================================================================
