------------------------------ MODULE Calendar ------------------------------
(***************************************************************************)
(* Calendar dates and the steps recurring templates take over them.        *)
(*                                                                         *)
(* A date is stored as the ISO text "2006-01-02" and compared as text in   *)
(* SQL (next_due_date <= ?).  Here it is the number yyyymmdd, whose order  *)
(* is the order of that text, and of the midnights Go compares with After. *)
(* AddDate is Go's time.Time.AddDate, which is outside the repository: it  *)
(* is modelled with its normalisation, so that one month after 31 January  *)
(* is 3 March (2 March in a leap year).                                    *)
(***************************************************************************)
EXTENDS Integers

Intervals == {"weekly", "monthly", "yearly"}

YearOf(date)  == date \div 10000
MonthOf(date) == (date \div 100) % 100
DayOf(date)   == date % 100
DateOf(year, month, day) == 10000 * year + 100 * month + day

(* Mistake: every fourth year a leap year. *)
IsLeapEveryFourth(year) == year % 4 = 0

IsLeap(year) == (year % 4 = 0 /\ year % 100 # 0) \/ year % 400 = 0

DaysIn(year, month) ==
    IF month = 2
    THEN IF IsLeap(year) THEN 29 ELSE 28
    ELSE IF month \in {4, 6, 9, 11} THEN 30 ELSE 31

(* The dates time.Parse accepts. *)
Dates == {date \in Nat : /\ MonthOf(date) \in 1..12
                         /\ DayOf(date) \in 1..DaysIn(YearOf(date), MonthOf(date))}

(* The "day zero" of the month after, and the last day of the month before. *)
DayZeroAfter(year, month) ==
    IF month = 12 THEN DateOf(year + 1, 1, 0) ELSE DateOf(year, month + 1, 0)
LastDayBefore(year, month) ==
    IF month = 1 THEN DateOf(year - 1, 12, 31)
                 ELSE DateOf(year, month - 1, DaysIn(year, month - 1))

(* Mistakes: a day that is not carried, and one cut off at the month's end. *)
CarryNothing(year, month, day) == DateOf(year, month, day)
CarryClamped(year, month, day) ==
    IF day > DaysIn(year, month) /\ day <= 31
    THEN DateOf(year, month, DaysIn(year, month))
    ELSE IF day > 31 THEN DayZeroAfter(year, month) + (day - DaysIn(year, month))
                     ELSE DateOf(year, month, day)

(* A day outside its month is carried into a neighbouring one.  One carry  *)
(* is enough for the steps the program takes: day is in 0..38 here.        *)
Carry(year, month, day) ==
    CASE day < 1                     -> LastDayBefore(year, month)
      [] day > DaysIn(year, month)   -> DayZeroAfter(year, month)
                                            + (day - DaysIn(year, month))
      [] OTHER                       -> DateOf(year, month, day)

(* Years and days are added as they are; a thirteenth month is the next    *)
(* year's first.  The program adds at most one month.                      *)
AddDate(date, years, months, days) ==
    LET month == MonthOf(date) + months
        year  == YearOf(date) + years
        day   == DayOf(date) + days
    IN  IF month > 12 THEN Carry(year + 1, month - 12, day)
                      ELSE Carry(year, month, day)

(* Mistake: a month taken as four weeks. *)
NextDueDateFourWeeks(interval, date) ==
    CASE interval = "yearly"  -> AddDate(date, 1, 0, 0)
      [] interval = "monthly" -> AddDate(AddDate(AddDate(AddDate(date, 0, 0, 7), 0, 0, 7),
                                                 0, 0, 7), 0, 0, 7)
      [] OTHER                -> AddDate(date, 0, 0, 7)

(* RecurringTemplate.Advance: the due date one interval later. *)
NextDueDate(interval, date) ==
    CASE interval = "weekly" -> AddDate(date, 0, 0, 7)
      [] interval = "yearly" -> AddDate(date, 1, 0, 0)
      [] OTHER               -> AddDate(date, 0, 1, 0)
=============================================================================
