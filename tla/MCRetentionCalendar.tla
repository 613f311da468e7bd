------------------------- MODULE MCRetentionCalendar -------------------------
(***************************************************************************)
(* Six weeks around the turn of 2026, a year of 53 ISO weeks.              *)
(***************************************************************************)
EXTENDS RetentionCalendar

MCFirstDay == YearStart(2027) - 18
MCLastDay  == YearStart(2027) + 20
MCKeeps    == {0, 1, 3}
MCModes    == {"weeks", "months", "forever"}
=============================================================================
