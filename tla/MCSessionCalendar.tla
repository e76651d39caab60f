------------------------- MODULE MCSessionCalendar -------------------------
(* One class on a two-day week with a term that has two lessons on one of  *)
(* its weekdays and one on the other, a holiday that closes a day, and one *)
(* that closes two; the term may be shortened and taken out of the year.   *)
EXTENDS SessionCalendar
MCHolidayDates == {<<2, 2>>, <<2, 3>>}
MCTerms == {[first |-> 2, last |-> 4, linked |-> TRUE], [first |-> 2, last |-> 3, linked |-> FALSE]}
=============================================================================
