------------------------------ MODULE DueDates ------------------------------
(***************************************************************************)
(* The due dates one recurring template goes through, as far as Horizon:   *)
(* the loop that books (and forecasts) a template replaces the due date by *)
(* Advance() once per occurrence and does nothing else to it.              *)
(***************************************************************************)
EXTENDS Calendar

CONSTANTS FirstDueDates,    \* the due dates a user may have entered
          Horizon           \* the loop stops past this date (the asOf/until of the code)

ASSUME DueDatesAssumption == FirstDueDates \subseteq Dates /\ Horizon \in Dates

VARIABLES interval, first, due

vars == <<interval, first, due>>

Init == /\ interval \in Intervals
        /\ first \in FirstDueDates
        /\ due = first

Advance == /\ due <= Horizon
           /\ due' = NextDueDate(interval, due)
           /\ UNCHANGED <<interval, first>>

Spec == Init /\ [][Advance]_vars

(***************************************************************************)
(* The reference the steps are compared with: days counted one by one.     *)
(***************************************************************************)
DaysBeforeYear(year) ==
    365 * year + (year + 3) \div 4 - (year + 99) \div 100 + (year + 399) \div 400

DaysBeforeMonth(year, month) ==
    LET days[m \in 1..12] == IF m = 1 THEN 0 ELSE days[m - 1] + DaysIn(year, m - 1)
    IN  days[month]

DayNumber(date) == DaysBeforeYear(YearOf(date))
                     + DaysBeforeMonth(YearOf(date), MonthOf(date)) + DayOf(date)

MonthNumber(date) == 12 * YearOf(date) + MonthOf(date)

(***************************************************************************)
(* Properties                                                              *)
(***************************************************************************)

(* Every due date is a date of the calendar: what is written back to       *)
(* next_due_date can be parsed again by scanRecurringTemplate.             *)
TypeOK == interval \in Intervals /\ first \in Dates /\ due \in Dates

(* A weekly template is due exactly seven days later, across the ends of   *)
(* months, years and leap Februaries.                                      *)
WeeklyIsSevenDays ==
    [][interval = "weekly" => DayNumber(due') = DayNumber(due) + 7]_vars

(* A monthly or yearly occurrence is never early and at most three days    *)
(* late: it falls on the same day of the month one month (or year) on, or, *)
(* where that month is too short, as many days into the month after as are *)
(* missing.                                                                *)
LateByMissingDaysOnly ==
    [][interval # "weekly" =>
         LET target  == MonthNumber(due) + (IF interval = "monthly" THEN 1 ELSE 12)
             year    == (target - 1) \div 12
             missing == DayOf(due) - DaysIn(year, target - 12 * year)
         IN  /\ missing <= 3
             /\ IF missing <= 0
                THEN MonthNumber(due') = target /\ DayOf(due') = DayOf(due)
                ELSE MonthNumber(due') = target + 1 /\ DayOf(due') = missing]_vars

(* A template first due on the 28th or earlier keeps its day of the month  *)
(* for ever, however many occurrences are caught up; so does a yearly one  *)
(* that was not entered on 29 February.                                    *)
NoDriftBeforeThe29th ==
    \/ interval = "weekly"
    \/ DayOf(first) > 28 /\ (interval = "yearly" => MonthOf(first) = 2)
    \/ DayOf(due) = DayOf(first)

(* "RecurringInterval is how often a recurring template repeats"           *)
(* (recurring.go:14): a monthly template is due in every month.            *)
MonthlyIsDueEveryMonth ==
    [][interval = "monthly" => MonthNumber(due') = MonthNumber(due) + 1]_vars
=============================================================================
