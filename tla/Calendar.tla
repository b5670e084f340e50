------------------------------ MODULE Calendar ------------------------------
(***************************************************************************)
(* Days as JavaScript's Date sets them, and the months that                *)
(* ExportMonthlyBusinessTransactionService and                             *)
(* ExportUserPerBusinessTransactionService report on.                      *)
(*                                                                         *)
(* A day is a record of month and day; months are counted through the      *)
(* years from 0, and day 1 is the first.  MonthLengths gives the days of   *)
(* the months of a year, again and again.                                  *)
(***************************************************************************)
EXTENDS Integers, Sequences

CONSTANT MonthLengths

ASSUME CalendarAssumption ==
    /\ Len(MonthLengths) = 12
    /\ \A i \in 1..12 : MonthLengths[i] \in 28..31

DaysIn(month) == MonthLengths[(month % 12) + 1]

\* setMonth, and setDate(0): a day the month does not have is one of the next.
Normal(month, day) ==
    IF day = 0 THEN [month |-> month - 1, day |-> DaysIn(month - 1)]
    ELSE IF day > DaysIn(month) THEN [month |-> month + 1, day |-> day - DaysIn(month)]
    ELSE [month |-> month, day |-> day]

SetDate(date, day) == Normal(date.month, day)
SetMonth(date, month) == Normal(month, date.day)

FirstDayOfPreviousNMonth(today, n) ==
    LET first == SetDate(today, 1) IN SetMonth(first, first.month - n)

\* Mutant of LastDayOfPreviousNMonth: the month is set before the day.
MutantSetsMonthFirst(today, n) ==
    SetDate(SetMonth(today, today.month - n), 0)

LastDayOfPreviousNMonth(today, n) ==
    LET last == SetDate(today, 0) IN SetMonth(last, last.month - (n - 1))

NotAfter(d, e) == d.month < e.month \/ (d.month = e.month /\ d.day <= e.day)

\* The days a report on the n-th month before today covers.
Covers(today, n, d) ==
    /\ NotAfter(FirstDayOfPreviousNMonth(today, n), d)
    /\ NotAfter(d, LastDayOfPreviousNMonth(today, n))

Tomorrow(d) == Normal(d.month, d.day + 1)
=============================================================================
