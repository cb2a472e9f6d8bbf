---------------------------- MODULE BasicLemmas ----------------------------
(***************************************************************************)
(* Facts the proofs of several components rest on: what the date steps     *)
(* guarantee for every date, how dates are ordered, and what sums over     *)
(* finite sets do when a term is added, taken away or put into a group.    *)
(***************************************************************************)
EXTENDS Calendar, FiniteSetsExt, FiniteSetTheorems, TLAPS

(* A date is made of its parts, and parts in range make a date. *)
LEMMA DateOfParts ==
    ASSUME NEW y \in Nat, NEW m \in 1..12, NEW d \in 0..99
    PROVE  /\ DateOf(y, m, d) \in Nat
           /\ YearOf(DateOf(y, m, d)) = y
           /\ MonthOf(DateOf(y, m, d)) = m
           /\ DayOf(DateOf(y, m, d)) = d
<1> DEFINE date == DateOf(y, m, d)
<1>1. date = 10000 * y + (100 * m + d) /\ 100 * m + d \in 0..9999
  BY DEF DateOf
<1>2. date = 100 * (100 * y + m) + d
  BY DEF DateOf
<1> HIDE DEF date
<1>3. date \div 10000 = y
  BY <1>1
<1>4. date \div 100 = 100 * y + m /\ date % 100 = d
  BY <1>2
<1>5. (100 * y + m) % 100 = m
  OBVIOUS
<1>6. date \in Nat
  BY <1>1
<1> QED BY <1>3, <1>4, <1>5, <1>6 DEF date, YearOf, MonthOf, DayOf

LEMMA PartsOfDate ==
    ASSUME NEW date \in Dates
    PROVE  /\ YearOf(date) \in Nat /\ MonthOf(date) \in 1..12
           /\ DayOf(date) \in 1..DaysIn(YearOf(date), MonthOf(date))
           /\ date = DateOf(YearOf(date), MonthOf(date), DayOf(date))
<1>1. /\ date \in Nat /\ MonthOf(date) \in 1..12
      /\ DayOf(date) \in 1..DaysIn(YearOf(date), MonthOf(date))
  BY DEF Dates
<1>2. YearOf(date) \in Nat
  BY <1>1 DEF YearOf
<1>3. date = 100 * (date \div 100) + (date % 100)
  BY <1>1
<1>4. date \div 100 = 100 * (date \div 10000) + ((date \div 100) % 100)
  BY <1>1
<1>5. date = DateOf(YearOf(date), MonthOf(date), DayOf(date))
  BY <1>1, <1>3, <1>4 DEF DateOf, YearOf, MonthOf, DayOf
<1> QED BY <1>1, <1>2, <1>5

LEMMA DaysInRange ==
    ASSUME NEW y, NEW m
    PROVE  DaysIn(y, m) \in 28..31
BY DEF DaysIn

LEMMA PartsMakeDate ==
    ASSUME NEW y \in Nat, NEW m \in 1..12, NEW d \in 1..DaysIn(y, m)
    PROVE  DateOf(y, m, d) \in Dates
<1>1. d \in 0..99
  BY DaysInRange
<1> QED BY <1>1, DateOfParts DEF Dates

(* A carried day is a date, and lies after every date of the months before, *)
(* and after every earlier day of its own month.                            *)
LEMMA CarryIsDate ==
    ASSUME NEW y \in Nat, NEW m \in 1..12, NEW d \in 1..38
    PROVE  /\ Carry(y, m, d) \in Dates
           /\ Carry(y, m, d) >= DateOf(y, m, d) \/ Carry(y, m, d) > DateOf(y, m, 99)
<1>1. CASE d <= DaysIn(y, m)
  <2>1. Carry(y, m, d) = DateOf(y, m, d)
    BY <1>1, DaysInRange DEF Carry
  <2>2. d \in 1..DaysIn(y, m)
    BY <1>1, DaysInRange
  <2>3. DateOf(y, m, d) \in Dates
    BY <2>2, PartsMakeDate
  <2> QED BY <2>1, <2>3 DEF Dates
<1>2. CASE d > DaysIn(y, m)
  <2> DEFINE over == d - DaysIn(y, m)
  <2>1. over \in 1..10
    BY <1>2, DaysInRange
  <2>2. Carry(y, m, d) = DayZeroAfter(y, m) + over
    BY <1>2, DaysInRange DEF Carry
  <2> HIDE DEF over
  <2>3. CASE m = 12
    <3>1. Carry(y, m, d) = DateOf(y + 1, 1, over)
      BY <2>1, <2>2, <2>3 DEF DayZeroAfter, DateOf
    <3>2. DateOf(y + 1, 1, over) \in Dates
      BY <2>1, PartsMakeDate, DaysInRange
    <3> QED BY <2>1, <2>3, <3>1, <3>2 DEF DateOf
  <2>4. CASE m # 12
    <3>1. Carry(y, m, d) = DateOf(y, m + 1, over)
      BY <2>1, <2>2, <2>4 DEF DayZeroAfter, DateOf
    <3>2. DateOf(y, m + 1, over) \in Dates
      BY <2>1, <2>4, PartsMakeDate, DaysInRange
    <3> QED BY <2>1, <2>4, <3>1, <3>2 DEF DateOf
  <2> QED BY <2>3, <2>4
<1> QED BY <1>1, <1>2, DaysInRange

(* So a carried day whose year, month and day are not all those of a date  *)
(* before it, and none of them earlier, lies after that date.              *)
LEMMA CarryForward ==
    ASSUME NEW y \in Nat, NEW m \in 1..12, NEW d \in 1..38, NEW date \in Nat,
           DateOf(y, m, d) > date
    PROVE  Carry(y, m, d) \in Dates /\ Carry(y, m, d) > date
<1>1. DateOf(y, m, d) <= DateOf(y, m, 99) /\ DateOf(y, m, d) \in Nat /\ DateOf(y, m, 99) \in Nat
  BY DEF DateOf
<1>2. Carry(y, m, d) \in Nat
  BY CarryIsDate DEF Dates
<1>3. \/ Carry(y, m, d) >= DateOf(y, m, d)
      \/ Carry(y, m, d) > DateOf(y, m, 99)
  BY CarryIsDate
<1>4. Carry(y, m, d) \in Dates
  BY CarryIsDate
<1> QED BY <1>1, <1>2, <1>3, <1>4

(* RecurringTemplate.Advance: the next due date is a date, and later. *)
THEOREM NextDueDateForward ==
    ASSUME NEW interval \in Intervals, NEW date \in Dates
    PROVE  /\ NextDueDate(interval, date) \in Dates
           /\ NextDueDate(interval, date) > date
<1> DEFINE y == YearOf(date)
           m == MonthOf(date)
           d == DayOf(date)
<1>1. /\ y \in Nat /\ m \in 1..12 /\ d \in 1..31
      /\ date = DateOf(y, m, d)
  BY PartsOfDate, DaysInRange
<1> HIDE DEF y, m, d
<1>2. CASE interval = "weekly"
  <2>1. NextDueDate(interval, date) = Carry(y, m, d + 7)
    BY <1>1, <1>2 DEF NextDueDate, AddDate, y, m, d
  <2>2. DateOf(y, m, d + 7) > date /\ date \in Nat
    BY <1>1 DEF DateOf
  <2>3. y \in Nat /\ m \in 1..12 /\ d + 7 \in 1..38
    BY <1>1
  <2>4. Carry(y, m, d + 7) \in Dates /\ Carry(y, m, d + 7) > date
    BY <2>2, <2>3, CarryForward
  <2> QED BY <2>1, <2>4
<1>3. CASE interval = "yearly"
  <2>1. NextDueDate(interval, date) = Carry(y + 1, m, d)
    BY <1>1, <1>3 DEF NextDueDate, AddDate, y, m, d
  <2>2. DateOf(y + 1, m, d) > date /\ date \in Nat
    BY <1>1 DEF DateOf
  <2>3. y + 1 \in Nat /\ m \in 1..12 /\ d \in 1..38
    BY <1>1
  <2>4. Carry(y + 1, m, d) \in Dates /\ Carry(y + 1, m, d) > date
    BY <2>2, <2>3, CarryForward
  <2> QED BY <2>1, <2>4
<1>4. CASE interval = "monthly"
  <2>1. CASE m = 12
    <3>1. NextDueDate(interval, date) = Carry(y + 1, 1, d)
      BY <1>1, <1>4, <2>1 DEF NextDueDate, AddDate, y, m, d
    <3>2. DateOf(y + 1, 1, d) > date /\ date \in Nat
      BY <1>1, <2>1 DEF DateOf
    <3>3. y + 1 \in Nat /\ 1 \in 1..12 /\ d \in 1..38
      BY <1>1, <2>1
    <3>4. Carry(y + 1, 1, d) \in Dates /\ Carry(y + 1, 1, d) > date
      BY <3>2, <3>3, CarryForward
    <3> QED BY <3>1, <3>4
  <2>2. CASE m # 12
    <3>1. NextDueDate(interval, date) = Carry(y, m + 1, d)
      BY <1>1, <1>4, <2>2 DEF NextDueDate, AddDate, y, m, d
    <3>2. DateOf(y, m + 1, d) > date /\ date \in Nat
      BY <1>1, <2>2 DEF DateOf
    <3>3. y \in Nat /\ m + 1 \in 1..12 /\ d \in 1..38
      BY <1>1, <2>2
    <3>4. Carry(y, m + 1, d) \in Dates /\ Carry(y, m + 1, d) > date
      BY <3>2, <3>3, CarryForward
    <3> QED BY <3>1, <3>4
  <2> QED BY <2>1, <2>2
<1> QED BY <1>2, <1>3, <1>4 DEF Intervals

(* One day before, the same day, or one day after a date is a date, except *)
(* before the first day of year 0: the date of the same instant in UTC.    *)
LEMMA DayShiftIsDate ==
    ASSUME NEW date \in Dates, NEW shift \in {-1, 0, 1}, YearOf(date) > 0
    PROVE  AddDate(date, 0, 0, shift) \in Dates
<1> DEFINE y == YearOf(date)
           m == MonthOf(date)
           d == DayOf(date)
<1>1. /\ y \in Nat /\ m \in 1..12 /\ d \in 1..31 /\ y > 0
  BY PartsOfDate, DaysInRange
<1>2. AddDate(date, 0, 0, shift) = Carry(y, m, d + shift)
  BY <1>1 DEF AddDate, y, m, d
<1> HIDE DEF y, m, d
<1>3. CASE d + shift >= 1
  BY <1>1, <1>2, <1>3, CarryIsDate
<1>4. CASE d + shift < 1
  <2>1. Carry(y, m, d + shift) = LastDayBefore(y, m)
    BY <1>1, <1>4, DaysInRange DEF Carry
  <2>2. CASE m = 1
    <3>1. LastDayBefore(y, m) = DateOf(y - 1, 12, 31)
      BY <2>2 DEF LastDayBefore
    <3>2. DaysIn(y - 1, 12) = 31
      BY DEF DaysIn
    <3>3. y - 1 \in Nat /\ 31 \in 1..DaysIn(y - 1, 12)
      BY <1>1, <3>2
    <3>4. DateOf(y - 1, 12, 31) \in Dates
      BY <3>3, PartsMakeDate
    <3> QED BY <1>2, <2>1, <3>1, <3>4
  <2>3. CASE m # 1
    <3>1. LastDayBefore(y, m) = DateOf(y, m - 1, DaysIn(y, m - 1))
      BY <2>3 DEF LastDayBefore
    <3>2. DateOf(y, m - 1, DaysIn(y, m - 1)) \in Dates
      BY <1>1, <2>3, PartsMakeDate, DaysInRange
    <3> QED BY <1>2, <2>1, <3>1, <3>2
  <2> QED BY <2>2, <2>3
<1> QED BY <1>1, <1>3, <1>4

(***************************************************************************)
(* The order of dates                                                      *)
(***************************************************************************)

(* By year, then by month, then by day. *)
LEMMA EarlierParts ==
    ASSUME NEW y \in Nat, NEW m \in 1..12, NEW d \in 0..99,
           NEW v \in Nat, NEW n \in 1..12, NEW e \in 0..99,
           y < v \/ (y = v /\ m < n) \/ (y = v /\ m = n /\ d < e)
    PROVE  DateOf(y, m, d) < DateOf(v, n, e)
<1>1. CASE y < v
  <2>1. y + 1 <= v
    BY <1>1
  <2>2. 10000 * y + 10000 <= 10000 * v
    BY <2>1
  <2>3. DateOf(y, m, d) < 10000 * y + 10000 /\ 10000 * v <= DateOf(v, n, e)
    BY DEF DateOf
  <2>4. DateOf(y, m, d) \in Nat /\ DateOf(v, n, e) \in Nat
    BY DEF DateOf
  <2> QED BY <2>2, <2>3, <2>4
<1>2. CASE y = v /\ m < n
  BY <1>2 DEF DateOf
<1>3. CASE y = v /\ m = n /\ d < e
  BY <1>3 DEF DateOf
<1> QED BY <1>1, <1>2, <1>3

LEMMA OrderOfDates ==
    ASSUME NEW y \in Nat, NEW m \in 1..12, NEW d \in 0..99,
           NEW v \in Nat, NEW n \in 1..12, NEW e \in 0..99,
           DateOf(y, m, d) < DateOf(v, n, e)
    PROVE  y < v \/ (y = v /\ m < n) \/ (y = v /\ m = n /\ d < e)
<1> DEFINE first == DateOf(y, m, d)
           second == DateOf(v, n, e)
<1>1. first \in Nat /\ second \in Nat /\ first < second
  BY DEF DateOf
<1>2. CASE v < y \/ (v = y /\ n < m) \/ (v = y /\ n = m /\ e < d)
  <2>1. second < first
    BY <1>2, EarlierParts
  <2> HIDE DEF first, second
  <2> QED BY <1>1, <2>1
<1>3. CASE v = y /\ n = m /\ e = d
  BY <1>1, <1>3
<1>4. y < v \/ v < y \/ v = y
  OBVIOUS
<1>5. m < n \/ n < m \/ n = m
  OBVIOUS
<1>6. d < e \/ e < d \/ e = d
  OBVIOUS
<1> HIDE DEF first, second
<1> QED BY <1>2, <1>3, <1>4, <1>5, <1>6

LEMMA DaySteps ==
    ASSUME NEW date \in Dates
    PROVE  AddDate(date, 0, 0, 0) = date /\ AddDate(date, 0, 0, 1) > date
<1> DEFINE y == YearOf(date)
           m == MonthOf(date)
           d == DayOf(date)
<1>1. /\ y \in Nat /\ m \in 1..12 /\ d \in 1..DaysIn(y, m) /\ d \in 1..31
      /\ date = DateOf(y, m, d) /\ date \in Nat
  BY PartsOfDate, DaysInRange DEF Dates
<1>2. AddDate(date, 0, 0, 0) = Carry(y, m, d) /\ AddDate(date, 0, 0, 1) = Carry(y, m, d + 1)
  BY <1>1 DEF AddDate, y, m, d
<1> HIDE DEF y, m, d
<1>3. Carry(y, m, d) = date
  BY <1>1, DaysInRange DEF Carry
<1>4. DateOf(y, m, d + 1) > date /\ d + 1 \in 1..38
  BY <1>1 DEF DateOf
<1>5. Carry(y, m, d + 1) > date
  BY <1>1, <1>4, CarryForward
<1> QED BY <1>2, <1>3, <1>5

(* Nothing lies between a date and the day after it, nor between a date    *)
(* and the day before.                                                     *)
LEMMA NextDayOfParts ==
    ASSUME NEW y \in Nat, NEW m \in 1..12, NEW d \in 1..DaysIn(y, m),
           NEW v \in Nat, NEW n \in 1..12, NEW e \in 1..DaysIn(v, n),
           DateOf(y, m, d) < DateOf(v, n, e)
    PROVE  Carry(y, m, d + 1) <= DateOf(v, n, e)
<1>1. d \in 0..99 /\ e \in 0..99 /\ d >= 1 /\ e >= 1
  BY DaysInRange
<1>2. y < v \/ (y = v /\ m < n) \/ (y = v /\ m = n /\ d < e)
  BY <1>1, OrderOfDates
<1>3. CASE d < DaysIn(y, m)
  <2>1. Carry(y, m, d + 1) = DateOf(y, m, d + 1)
    BY <1>1, <1>3, DaysInRange DEF Carry
  <2>2. DateOf(y, m, d + 1) = DateOf(y, m, d) + 1
    BY <1>1 DEF DateOf
  <2>3. DateOf(y, m, d) \in Nat /\ DateOf(v, n, e) \in Nat
    BY <1>1 DEF DateOf
  <2> QED BY <2>1, <2>2, <2>3
<1>4. CASE d = DaysIn(y, m)
  <2>1. y < v \/ (y = v /\ m < n)
    <3>1. CASE y = v /\ m = n
      BY <1>1, <1>2, <1>4, <3>1, DaysInRange
    <3> QED BY <1>2, <3>1
  <2>2. Carry(y, m, d + 1) = DayZeroAfter(y, m) + 1
    BY <1>1, <1>4, DaysInRange DEF Carry
  <2>3. CASE m = 12
    <3>1. Carry(y, m, d + 1) = DateOf(y + 1, 1, 1)
      BY <2>2, <2>3 DEF DayZeroAfter, DateOf
    <3>2. y + 1 <= v
      BY <2>1, <2>3
    <3> QED BY <1>1, <3>1, <3>2 DEF DateOf
  <2>4. CASE m # 12
    <3>1. Carry(y, m, d + 1) = DateOf(y, m + 1, 1)
      BY <2>2, <2>4 DEF DayZeroAfter, DateOf
    <3>2. CASE y = v /\ m < n
      BY <1>1, <3>1, <3>2 DEF DateOf
    <3>3. CASE y < v
      <4>1. m + 1 \in 1..12 /\ 1 \in 0..99
        BY <2>4
      <4>2. DateOf(y, m + 1, 1) < DateOf(v, n, e)
        BY <1>1, <3>3, <4>1, EarlierParts
      <4>3. DateOf(y, m + 1, 1) \in Nat /\ DateOf(v, n, e) \in Nat
        BY <1>1 DEF DateOf
      <4> QED BY <3>1, <4>2, <4>3
    <3> QED BY <2>1, <3>2, <3>3
  <2> QED BY <2>3, <2>4
<1> QED BY <1>3, <1>4, DaysInRange

LEMMA LastDayOfParts ==
    ASSUME NEW y \in Nat, NEW m \in 1..12, y > 0,
           NEW v \in Nat, NEW n \in 1..12, NEW e \in 1..DaysIn(v, n),
           DateOf(v, n, e) < DateOf(y, m, 1)
    PROVE  DateOf(v, n, e) <= LastDayBefore(y, m)
<1>1. e \in 0..99 /\ e \in 1..31 /\ 1 \in 0..99
  BY DaysInRange
<1>2. v < y \/ (v = y /\ n < m)
  <2>1. v < y \/ (v = y /\ n < m) \/ (v = y /\ n = m /\ e < 1)
    BY <1>1, OrderOfDates
  <2> QED BY <1>1, <2>1
<1>3. CASE m = 1
  <2>1. LastDayBefore(y, m) = DateOf(y - 1, 12, 31)
    BY <1>3 DEF LastDayBefore
  <2>2. v <= y - 1
    BY <1>2, <1>3
  <2> QED BY <1>1, <2>1, <2>2 DEF DateOf
<1>4. CASE m # 1
  <2>1. LastDayBefore(y, m) = DateOf(y, m - 1, DaysIn(y, m - 1))
    BY <1>4 DEF LastDayBefore
  <2>2. DaysIn(y, m - 1) \in 28..31
    BY DaysInRange
  <2>3. CASE v = y /\ n = m - 1
    BY <1>1, <2>1, <2>2, <2>3 DEF DateOf
  <2>4. CASE v < y \/ (v = y /\ n < m - 1)
    <3>1. m - 1 \in 1..12 /\ DaysIn(y, m - 1) \in 0..99
      BY <1>4, <2>2
    <3>2. DateOf(v, n, e) < DateOf(y, m - 1, DaysIn(y, m - 1))
      BY <1>1, <2>4, <3>1, EarlierParts
    <3>3. DateOf(v, n, e) \in Int /\ DateOf(y, m - 1, DaysIn(y, m - 1)) \in Int
      BY <1>1, <2>2 DEF DateOf
    <3> QED BY <2>1, <3>2, <3>3
  <2> QED BY <1>2, <2>3, <2>4
<1> QED BY <1>3, <1>4

LEMMA DayAfterIsNext ==
    ASSUME NEW date \in Dates, NEW later \in Dates, date < later
    PROVE  AddDate(date, 0, 0, 1) <= later
<1> DEFINE y == YearOf(date)
           m == MonthOf(date)
           d == DayOf(date)
           v == YearOf(later)
           n == MonthOf(later)
           e == DayOf(later)
<1>1. y \in Nat /\ m \in 1..12 /\ d \in 1..DaysIn(y, m) /\ date = DateOf(y, m, d)
  BY PartsOfDate
<1>2. v \in Nat /\ n \in 1..12 /\ e \in 1..DaysIn(v, n) /\ later = DateOf(v, n, e)
  BY PartsOfDate
<1>3. AddDate(date, 0, 0, 1) = Carry(y, m, d + 1)
  BY <1>1 DEF AddDate, y, m, d
<1> HIDE DEF y, m, d, v, n, e
<1> QED BY <1>1, <1>2, <1>3, NextDayOfParts

LEMMA DayBeforeIsLast ==
    ASSUME NEW date \in Dates, YearOf(date) > 0
    PROVE  /\ AddDate(date, 0, 0, -1) < date
           /\ \A earlier \in Dates : earlier < date => earlier <= AddDate(date, 0, 0, -1)
<1> DEFINE y == YearOf(date)
           m == MonthOf(date)
           d == DayOf(date)
<1>1. /\ y \in Nat /\ m \in 1..12 /\ d \in 1..DaysIn(y, m) /\ d \in 1..31
      /\ date = DateOf(y, m, d) /\ y > 0
  BY PartsOfDate, DaysInRange
<1>2. AddDate(date, 0, 0, -1) = Carry(y, m, d - 1)
  BY <1>1 DEF AddDate, y, m, d
<1> HIDE DEF y, m, d
<1>3. CASE d > 1
  <2>1. Carry(y, m, d - 1) = DateOf(y, m, d - 1)
    BY <1>1, <1>3, DaysInRange DEF Carry
  <2>2. DateOf(y, m, d - 1) = date - 1 /\ date \in Nat
    BY <1>1 DEF DateOf
  <2> QED BY <1>2, <2>1, <2>2 DEF Dates
<1>4. CASE d = 1
  <2>1. Carry(y, m, d - 1) = LastDayBefore(y, m)
    BY <1>1, <1>4, DaysInRange DEF Carry
  <2>2. LastDayBefore(y, m) < date
    <3>1. DaysIn(y, m - 1) \in 28..31
      BY DaysInRange
    <3> QED BY <1>1, <3>1 DEF LastDayBefore, DateOf
  <2>3. ASSUME NEW earlier \in Dates, earlier < date
        PROVE  earlier <= LastDayBefore(y, m)
    <3> DEFINE v == YearOf(earlier)
               n == MonthOf(earlier)
               e == DayOf(earlier)
    <3>1. v \in Nat /\ n \in 1..12 /\ e \in 1..DaysIn(v, n) /\ earlier = DateOf(v, n, e)
      BY PartsOfDate
    <3> HIDE DEF v, n, e
    <3> QED BY <1>1, <1>4, <2>3, <3>1, LastDayOfParts
  <2> QED BY <1>2, <2>1, <2>2, <2>3
<1> QED BY <1>1, <1>3, <1>4

(* So the UTC date never goes back while the local date does not. *)
LEMMA DayShiftMonotone ==
    ASSUME NEW date \in Dates, NEW later \in Dates, date <= later,
           YearOf(date) > 0, YearOf(later) > 0, NEW shift \in {-1, 0, 1}
    PROVE  AddDate(date, 0, 0, shift) <= AddDate(later, 0, 0, shift)
<1> DEFINE a == AddDate(date, 0, 0, shift)
           b == AddDate(later, 0, 0, shift)
<1>1. a \in Nat /\ b \in Nat /\ date \in Nat /\ later \in Nat
  BY DayShiftIsDate DEF Dates
<1>2. CASE date = later
  BY <1>1, <1>2
<1>3. CASE date < later
  <2>1. CASE shift = 1
    <3>1. a <= later /\ b > later
      BY <1>3, <2>1, DayAfterIsNext, DaySteps
    <3> HIDE DEF a, b
    <3> QED BY <1>1, <3>1 DEF a, b
  <2>2. CASE shift = 0
    BY <1>3, <2>2, DaySteps
  <2>3. CASE shift = -1
    <3>1. a < date /\ date <= b
      BY <1>3, <2>3, DayBeforeIsLast
    <3> HIDE DEF a, b
    <3> QED BY <1>1, <3>1 DEF a, b
  <2> QED BY <2>1, <2>2, <2>3
<1> QED BY <1>1, <1>2, <1>3

(* The dates from the first of a month up to the first of the next are the *)
(* dates of that month.                                                    *)
LEMMA FirstOfNextMonth ==
    ASSUME NEW y \in Nat, NEW m \in 1..12
    PROVE  AddDate(DateOf(y, m, 1), 0, 1, 0)
             = IF m = 12 THEN DateOf(y + 1, 1, 1) ELSE DateOf(y, m + 1, 1)
<1>1. /\ YearOf(DateOf(y, m, 1)) = y /\ MonthOf(DateOf(y, m, 1)) = m
      /\ DayOf(DateOf(y, m, 1)) = 1
  <2>1. 1 \in 0..99
    OBVIOUS
  <2> QED BY <2>1, DateOfParts
<1>2. \A v, n : Carry(v, n, 1) = DateOf(v, n, 1)
  BY DaysInRange DEF Carry
<1>3. CASE m = 12
  BY <1>1, <1>2, <1>3 DEF AddDate
<1>4. CASE m # 12
  BY <1>1, <1>2, <1>4 DEF AddDate
<1> QED BY <1>3, <1>4

LEMMA MonthBounds ==
    ASSUME NEW y \in Nat, NEW m \in 1..12, NEW date \in Dates
    PROVE  DateOf(y, m, 1) <= date /\ date < AddDate(DateOf(y, m, 1), 0, 1, 0)
             <=> YearOf(date) = y /\ MonthOf(date) = m
<1> DEFINE v == YearOf(date)
           n == MonthOf(date)
           e == DayOf(date)
           first == DateOf(y, m, 1)
           next  == AddDate(DateOf(y, m, 1), 0, 1, 0)
           y2 == IF m = 12 THEN y + 1 ELSE y
           m2 == IF m = 12 THEN 1 ELSE m + 1
<1>1. v \in Nat /\ n \in 1..12 /\ e \in 1..31 /\ date = DateOf(v, n, e) /\ date \in Nat
  BY PartsOfDate, DaysInRange DEF Dates
<1>2. next = DateOf(y2, m2, 1) /\ y2 \in Nat /\ m2 \in 1..12 /\ first \in Nat
  BY FirstOfNextMonth DEF DateOf
<1>3. next \in Nat
  BY <1>2 DEF DateOf
<1>4. e \in 0..99 /\ 1 \in 0..99 /\ e >= 1
  BY <1>1
<1>5. ASSUME v = y, n = m PROVE first <= date /\ date < next
  <2>1. y < y2 \/ (y = y2 /\ m < m2)
    OBVIOUS
  <2> HIDE DEF v, n, e, y2, m2, first, next
  <2>2. date < next
    BY <1>1, <1>2, <1>4, <1>5, <2>1, EarlierParts
  <2>3. first <= date
    BY <1>1, <1>4, <1>5 DEF first, DateOf
  <2> QED BY <2>2, <2>3
<1>6. ASSUME v < y \/ (v = y /\ n < m) PROVE ~ (first <= date)
  <2> HIDE DEF v, n, e, y2, m2
  <2>1. date < first
    BY <1>1, <1>4, <1>6, EarlierParts
  <2> HIDE DEF first
  <2> QED BY <1>1, <1>2, <2>1
<1>7. ASSUME y < v \/ (y = v /\ m < n) PROVE ~ (date < next)
  <2>1. y2 < v \/ (y2 = v /\ m2 < n) \/ (y2 = v /\ m2 = n)
    BY <1>1, <1>7
  <2> HIDE DEF v, n, e, y2, m2, first
  <2>2. CASE y2 = v /\ m2 = n
    <3>1. next <= date
      BY <1>1, <1>2, <1>4, <2>2 DEF DateOf
    <3> HIDE DEF next
    <3> QED BY <1>1, <1>3, <3>1
  <2>3. CASE y2 < v \/ (y2 = v /\ m2 < n)
    <3>1. DateOf(y2, m2, 1) < DateOf(v, n, e)
      BY <1>1, <1>2, <1>4, <2>3, EarlierParts
    <3>2. next < date
      BY <1>1, <1>2, <3>1
    <3> HIDE DEF next
    <3> QED BY <1>1, <1>3, <3>2
  <2> QED BY <2>1, <2>2, <2>3
<1> HIDE DEF first, next, y2, m2
<1>8. first <= date /\ date < next <=> v = y /\ n = m
  <2> HIDE DEF v, n, e
  <2> QED BY <1>1, <1>5, <1>6, <1>7
<1> QED BY <1>8 DEF first, next

(***************************************************************************)
(* Induction, over the numbers and over the subsets of a finite set        *)
(***************************************************************************)
LEMMA SmallestOf ==
    ASSUME NEW T \in SUBSET Nat, T # {}
    PROVE  \E m \in T : \A k \in T : m <= k
<1> DEFINE R == StrictSubsetOrdering(Nat)
           F == FiniteSubsetsOf(Nat)
           U == {0..n : n \in T}
<1>1. IsWellFoundedOn(R, F)
  BY FS_StrictSubsetOrderingWellFounded
<1>2. U \subseteq F
  <2>1. ASSUME NEW n \in T PROVE 0..n \in F
    <3>1. IsFiniteSet(0..n)
      BY FS_Interval
    <3> QED BY <3>1 DEF FiniteSubsetsOf
  <2> QED BY <2>1
<1>3. U # {}
  OBVIOUS
<1>4. \E u \in U : \A v \in U : ~ (<<v, u>> \in R)
  <2> HIDE DEF R, F, U
  <2> QED BY <1>1, <1>2, <1>3, WFMin
<1>5. PICK m \in T : \A k \in T : ~ (<<0..k, 0..m>> \in R)
  BY <1>4
<1>6. ASSUME NEW k \in T, k < m PROVE FALSE
  <2>1. 0..k \in SUBSET Nat /\ 0..m \in SUBSET Nat
    OBVIOUS
  <2>2. 0..k \subseteq 0..m /\ m \in 0..m /\ m \notin 0..k
    BY <1>6
  <2>3. 0..k # 0..m
    BY <2>2
  <2> QED BY <1>5, <2>1, <2>2, <2>3 DEF StrictSubsetOrdering
<1> QED BY <1>6

(* Induction, over a set of numbers and over the subsets of a finite set.  *)
LEMMA InductionOnNat ==
    ASSUME NEW Good, 0 \in Good, \A n \in Nat : n \in Good => n + 1 \in Good
    PROVE  Nat \subseteq Good
<1> SUFFICES ASSUME Nat \ Good # {} PROVE FALSE
  OBVIOUS
<1> DEFINE Bad == Nat \ Good
<1>1. PICK m \in Bad : \A k \in Bad : m <= k
  <2> HIDE DEF Bad
  <2>1. Bad \in SUBSET Nat
    BY DEF Bad
  <2> QED BY <2>1, SmallestOf DEF Bad
<1>2. m \in Nat /\ m # 0
  BY <1>1
<1>3. m - 1 \in Nat /\ ~ (m <= m - 1) /\ m - 1 + 1 = m
  BY <1>2
<1> QED BY <1>1, <1>3

LEMMA SmallestSubset ==
    ASSUME NEW S, IsFiniteSet(S), NEW T \in SUBSET (SUBSET S), T # {}
    PROVE  \E m \in T : \A k \in T : k \subseteq m => k = m
<1>1. IsWellFoundedOn(StrictSubsetOrdering(S), FiniteSubsetsOf(S))
  BY FS_StrictSubsetOrderingWellFounded
<1>2. FiniteSubsetsOf(S) = SUBSET S
  BY FS_FiniteSubsetsOfFinite
<1>3. PICK m \in T : \A k \in T : ~ (<<k, m>> \in StrictSubsetOrdering(S))
  BY <1>1, <1>2, WFMin
<1> QED BY <1>3 DEF StrictSubsetOrdering

LEMMA SubsetInduction ==
    ASSUME NEW S, IsFiniteSet(S), NEW Good,
           \A s \in SUBSET S : (\A x \in s : s \ {x} \in Good) => s \in Good
    PROVE  SUBSET S \subseteq Good
<1> DEFINE Bad == (SUBSET S) \ Good
<1> SUFFICES ASSUME Bad # {} PROVE FALSE
  OBVIOUS
<1>1. PICK m \in Bad : \A k \in Bad : k \subseteq m => k = m
  <2> HIDE DEF Bad
  <2>1. Bad \in SUBSET (SUBSET S)
    BY DEF Bad
  <2> QED BY <2>1, SmallestSubset
<1>2. ASSUME NEW x \in m PROVE m \ {x} \in Good
  <2>1. m \ {x} \in SUBSET S /\ m \ {x} \subseteq m /\ m \ {x} # m
    BY <1>1
  <2> QED BY <1>1, <2>1
<1> QED BY <1>1, <1>2

(* The image of a finite set, and the greatest of finitely many numbers. *)
LEMMA FiniteImage ==
    ASSUME NEW S, IsFiniteSet(S), NEW f
    PROVE  IsFiniteSet({f[x] : x \in S})
<1> DEFINE T == {f[x] : x \in S}
           g == [x \in S |-> f[x]]
<1>1. g \in Surjection(S, T)
  BY DEF Surjection
<1> HIDE DEF T, g
<1>2. IsFiniteSet(T)
  BY <1>1, FS_Surjection
<1> QED BY <1>2 DEF T

LEMMA GreatestOf ==
    ASSUME NEW S \in SUBSET Int, IsFiniteSet(S), S # {}
    PROVE  Max(S) \in S /\ \A x \in S : x <= Max(S)
<1> DEFINE Good == {s \in SUBSET S : s # {} => \E m \in s : \A x \in s : x <= m}
<1>1. ASSUME NEW s \in SUBSET S, \A x \in s : s \ {x} \in Good PROVE s \in Good
  <2> SUFFICES ASSUME s # {} PROVE \E m \in s : \A x \in s : x <= m
    OBVIOUS
  <2>1. PICK c \in s : s \ {c} \in Good
    BY <1>1
  <2>2. CASE s \ {c} = {}
    <3>1. \A x \in s : x <= c
      BY <2>2
    <3> QED BY <3>1
  <2>3. CASE s \ {c} # {}
    <3>1. PICK m \in s \ {c} : \A x \in s \ {c} : x <= m
      BY <2>1, <2>3
    <3>2. m \in Int /\ c \in Int /\ \A x \in s : x \in Int
      OBVIOUS
    <3> HIDE DEF Good
    <3>3. CASE c <= m
      <4>1. \A x \in s : x <= m
        BY <3>1, <3>3
      <4> QED BY <4>1
    <3>4. CASE m <= c
      <4>1. \A x \in s : x <= c
        BY <3>1, <3>2, <3>4
      <4> QED BY <4>1
    <3> QED BY <3>2, <3>3, <3>4
  <2> QED BY <2>2, <2>3
<1>2. SUBSET S \subseteq Good
  <2> HIDE DEF Good
  <2> QED BY <1>1, SubsetInduction
<1>3. \E m \in S : \A x \in S : x <= m
  BY <1>2
<1>4. \E m \in S : \A x \in S : m >= x
  BY <1>3
<1>5. Max(S) \in S /\ \A x \in S : Max(S) >= x
  BY <1>4, Zenon DEF Max
<1> QED BY <1>5

(***************************************************************************)
(* Sums.  SumFunctionOnSet is a recursive function over the subsets of the *)
(* set, which takes one element, whichever CHOOSE picks, at each level.    *)
(***************************************************************************)
Picked(s) == CHOOSE x \in s : TRUE

SumTable(g, f, S) ==
    g = [s \in SUBSET S |-> IF s = {} THEN 0 ELSE f[Picked(s)] + g[s \ {Picked(s)}]]

LEMMA PickedIsIn == ASSUME NEW s, s # {} PROVE Picked(s) \in s
BY DEF Picked

LEMMA SumTableExists ==
    ASSUME NEW S, IsFiniteSet(S), NEW f
    PROVE  \E g : SumTable(g, f, S)
<1> DEFINE Small(n) == {s \in SUBSET S : Cardinality(s) <= n}
           UpTo(n, g) == g = [s \in Small(n) |->
                                IF s = {} THEN 0 ELSE f[Picked(s)] + g[s \ {Picked(s)}]]
           Bad == {n \in Nat : ~ \E g : UpTo(n, g)}
<1>1. \A s \in SUBSET S : Cardinality(s) \in Nat /\ IsFiniteSet(s)
  BY FS_Subset, FS_CardinalityType
<1>2. 0 \notin Bad
  <2> DEFINE g == [s \in Small(0) |-> 0]
  <2>1. Small(0) = {{}}
    BY <1>1, FS_EmptySet
  <2>2. UpTo(0, g)
    BY <2>1
  <2> QED BY <2>2
<1>3. ASSUME NEW n \in Nat, n \notin Bad PROVE n + 1 \notin Bad
  <2>1. PICK g : UpTo(n, g)
    BY <1>3
  <2> DEFINE h == [s \in Small(n + 1) |->
                     IF s = {} THEN 0 ELSE f[Picked(s)] + g[s \ {Picked(s)}]]
  <2>2. ASSUME NEW s \in Small(n + 1), s # {} PROVE s \ {Picked(s)} \in Small(n)
    <3>1. Picked(s) \in s
      BY <2>2, PickedIsIn
    <3>2. Cardinality(s \ {Picked(s)}) = Cardinality(s) - 1
      BY <1>1, <3>1, FS_RemoveElement
    <3> QED BY <1>1, <3>2
  <2>3. ASSUME NEW s \in Small(n) PROVE s \in Small(n + 1) /\ h[s] = g[s]
    <3>1. s \in Small(n + 1)
      BY <1>1
    <3>2. g[s] = IF s = {} THEN 0 ELSE f[Picked(s)] + g[s \ {Picked(s)}]
      BY <2>1
    <3> QED BY <3>1, <3>2
  <2>4. UpTo(n + 1, h)
    <3> SUFFICES ASSUME NEW s \in Small(n + 1), s # {}
                 PROVE  g[s \ {Picked(s)}] = h[s \ {Picked(s)}]
      OBVIOUS
    <3> HIDE DEF h, Small
    <3> QED BY <2>2, <2>3
  <2> HIDE DEF UpTo, h
  <2> QED BY <2>4
<1>4. \A n \in Nat : n \notin Bad
  <2> DEFINE Good == Nat \ Bad
  <2> HIDE DEF Bad
  <2>1. 0 \in Good /\ \A n \in Nat : n \in Good => n + 1 \in Good
    BY <1>2, <1>3
  <2>2. Nat \subseteq Good
    <3> HIDE DEF Good
    <3> QED BY <2>1, InductionOnNat
  <2> QED BY <2>2
<1>5. Cardinality(S) \in Nat /\ \A s \in SUBSET S : Cardinality(s) <= Cardinality(S)
  BY FS_CardinalityType, FS_Subset
<1>6. Small(Cardinality(S)) = SUBSET S
  BY <1>5
<1>7. PICK g : UpTo(Cardinality(S), g)
  BY <1>4, <1>5
<1>8. SumTable(g, f, S)
  BY <1>6, <1>7 DEF SumTable
<1> QED BY <1>8

LEMMA SumIsFold ==
    ASSUME NEW S, IsFiniteSet(S), NEW f
    PROVE  \E g : SumTable(g, f, S) /\ SumFunctionOnSet(f, S) = g[S]
<1> DEFINE iter == CHOOSE g : g = [s \in SUBSET S |->
                                     IF s = {} THEN 0 ELSE f[Picked(s)] + g[s \ {Picked(s)}]]
<1>1. SumFunctionOnSet(f, S) = iter[S]
  BY DEF SumFunctionOnSet, FoldFunctionOnSet, MapThenFoldSet, Picked
<1>2. \E g : SumTable(g, f, S)
  BY SumTableExists
<1>3. SumTable(iter, f, S)
  BY <1>2, Zenon DEF SumTable
<1> QED BY <1>1, <1>3

LEMMA SumEmpty == ASSUME NEW f PROVE SumFunctionOnSet(f, {}) = 0
<1>1. IsFiniteSet({})
  BY FS_EmptySet
<1>2. PICK g : SumTable(g, f, {}) /\ SumFunctionOnSet(f, {}) = g[{}]
  BY <1>1, SumIsFold
<1> QED BY <1>2 DEF SumTable

(* One element at a time: the sum over the rest is a sum over the rest. *)
LEMMA SumTableHoldsSums ==
    ASSUME NEW S, IsFiniteSet(S), NEW f, NEW g, SumTable(g, f, S)
    PROVE  \A s \in SUBSET S : g[s] = SumFunctionOnSet(f, s)
<1> DEFINE Good == {s \in SUBSET S : \A T : IsFiniteSet(T) /\ s \subseteq T
                          => \A h : SumTable(h, f, T) => h[s] = g[s]}
<1>1. ASSUME NEW s \in SUBSET S, \A x \in s : s \ {x} \in Good PROVE s \in Good
  <2> SUFFICES ASSUME NEW T, IsFiniteSet(T), s \subseteq T, NEW h, SumTable(h, f, T)
               PROVE  h[s] = g[s]
    OBVIOUS
  <2>1. CASE s = {}
    BY <2>1 DEF SumTable
  <2>2. CASE s # {}
    <3>1. Picked(s) \in s /\ s \ {Picked(s)} \in SUBSET T
      BY <2>2, PickedIsIn
    <3>2. h[s \ {Picked(s)}] = g[s \ {Picked(s)}]
      BY <1>1, <3>1
    <3>3. h[s] = f[Picked(s)] + h[s \ {Picked(s)}] /\ g[s] = f[Picked(s)] + g[s \ {Picked(s)}]
      BY <2>2 DEF SumTable
    <3> QED BY <3>2, <3>3
  <2> QED BY <2>1, <2>2
<1>2. SUBSET S \subseteq Good
  <2> HIDE DEF Good
  <2> QED BY <1>1, SubsetInduction
<1>3. ASSUME NEW s \in SUBSET S PROVE g[s] = SumFunctionOnSet(f, s)
  <2>1. IsFiniteSet(s)
    BY FS_Subset
  <2>2. PICK h : SumTable(h, f, s) /\ SumFunctionOnSet(f, s) = h[s]
    BY <2>1, SumIsFold
  <2>3. s \in Good /\ s \subseteq s
    BY <1>2
  <2> QED BY <2>1, <2>2, <2>3
<1> QED BY <1>3

LEMMA SumFirst ==
    ASSUME NEW S, IsFiniteSet(S), S # {}, NEW f
    PROVE  SumFunctionOnSet(f, S) = f[Picked(S)] + SumFunctionOnSet(f, S \ {Picked(S)})
<1>1. PICK g : SumTable(g, f, S)
  BY SumTableExists
<1>2. \A s \in SUBSET S : g[s] = SumFunctionOnSet(f, s)
  BY <1>1, SumTableHoldsSums
<1>3. g[S] = f[Picked(S)] + g[S \ {Picked(S)}]
  BY <1>1 DEF SumTable
<1>4. S \in SUBSET S /\ S \ {Picked(S)} \in SUBSET S
  OBVIOUS
<1> QED BY <1>2, <1>3, <1>4

LEMMA SumType ==
    ASSUME NEW S, IsFiniteSet(S), NEW f, \A x \in S : f[x] \in Int
    PROVE  SumFunctionOnSet(f, S) \in Int
<1> DEFINE Good == {s \in SUBSET S : SumFunctionOnSet(f, s) \in Int}
<1>1. ASSUME NEW s \in SUBSET S, \A x \in s : s \ {x} \in Good PROVE s \in Good
  <2>1. CASE s = {}
    BY <2>1, SumEmpty
  <2>2. CASE s # {}
    <3>1. Picked(s) \in s /\ IsFiniteSet(s)
      BY <2>2, PickedIsIn, FS_Subset
    <3>2. SumFunctionOnSet(f, s) = f[Picked(s)] + SumFunctionOnSet(f, s \ {Picked(s)})
      BY <2>2, <3>1, SumFirst
    <3> QED BY <1>1, <3>1, <3>2
  <2> QED BY <2>1, <2>2
<1>2. SUBSET S \subseteq Good
  <2> HIDE DEF Good
  <2> QED BY <1>1, SubsetInduction
<1> QED BY <1>2

(* Whichever element is taken first. *)
LEMMA SwapTerms ==
    ASSUME NEW a \in Int, NEW b \in Int, NEW r \in Int, NEW u, NEW v, NEW t,
           u = b + r, v = a + r, t = a + u
    PROVE  t = b + v
OBVIOUS

LEMMA SumOut ==
    ASSUME NEW S, IsFiniteSet(S), NEW f, \A x \in S : f[x] \in Int, NEW x \in S
    PROVE  SumFunctionOnSet(f, S) = f[x] + SumFunctionOnSet(f, S \ {x})
<1> DEFINE Good == {s \in SUBSET S : \A y \in s : SumFunctionOnSet(f, s) = f[y] + SumFunctionOnSet(f, s \ {y})}
<1>0. \A s \in SUBSET S : IsFiniteSet(s) /\ SumFunctionOnSet(f, s) \in Int
  <2> TAKE s \in SUBSET S
  <2>1. IsFiniteSet(s) /\ \A y \in s : f[y] \in Int
    BY FS_Subset
  <2> QED BY <2>1, SumType
<1>1. ASSUME NEW s \in SUBSET S, \A y \in s : s \ {y} \in Good PROVE s \in Good
  <2> SUFFICES ASSUME NEW y \in s PROVE SumFunctionOnSet(f, s) = f[y] + SumFunctionOnSet(f, s \ {y})
    OBVIOUS
  <2> DEFINE c == Picked(s)
  <2>1. c \in s /\ SumFunctionOnSet(f, s) = f[c] + SumFunctionOnSet(f, s \ {c})
    BY <1>0, PickedIsIn, SumFirst
  <2> HIDE DEF c
  <2>2. CASE y = c
    BY <2>1, <2>2
  <2>3. CASE y # c
    <3>1. s \ {c} \in Good /\ s \ {y} \in Good
      BY <1>1, <2>1
    <3>2. SumFunctionOnSet(f, s \ {c}) = f[y] + SumFunctionOnSet(f, (s \ {c}) \ {y})
      BY <3>1, <2>3
    <3>3. SumFunctionOnSet(f, s \ {y}) = f[c] + SumFunctionOnSet(f, (s \ {y}) \ {c})
      BY <3>1, <2>1, <2>3
    <3>4. (s \ {c}) \ {y} = (s \ {y}) \ {c}
      OBVIOUS
    <3>5. f[c] \in Int /\ f[y] \in Int /\ SumFunctionOnSet(f, (s \ {y}) \ {c}) \in Int
      BY <1>0, <2>1
    <3>6. SumFunctionOnSet(f, s \ {y}) = f[c] + SumFunctionOnSet(f, (s \ {y}) \ {c})
      BY <3>3
    <3>7. SumFunctionOnSet(f, s \ {c}) = f[y] + SumFunctionOnSet(f, (s \ {y}) \ {c})
      BY <3>2, <3>4
    <3> HIDE DEF Good
    <3> QED BY <2>1, <3>5, <3>6, <3>7, SwapTerms
  <2> QED BY <2>2, <2>3
<1>2. SUBSET S \subseteq Good
  <2> HIDE DEF Good
  <2> QED BY <1>1, SubsetInduction
<1> QED BY <1>2

(* Equal terms, equal sums; terms that are 0; terms of the other sign. *)
LEMMA SumSame ==
    ASSUME NEW S, IsFiniteSet(S), NEW f, NEW g,
           \A x \in S : f[x] \in Int /\ g[x] = f[x]
    PROVE  SumFunctionOnSet(g, S) = SumFunctionOnSet(f, S)
<1> DEFINE Good == {s \in SUBSET S : SumFunctionOnSet(g, s) = SumFunctionOnSet(f, s)}
<1>1. ASSUME NEW s \in SUBSET S, \A x \in s : s \ {x} \in Good PROVE s \in Good
  <2>1. CASE s = {}
    BY <2>1, SumEmpty
  <2>2. CASE s # {}
    <3>1. PICK x \in s : s \ {x} \in Good
      BY <1>1, <2>2
    <3>2. IsFiniteSet(s) /\ \A y \in s : f[y] \in Int /\ g[y] \in Int
      BY FS_Subset
    <3>3. /\ SumFunctionOnSet(f, s) = f[x] + SumFunctionOnSet(f, s \ {x})
          /\ SumFunctionOnSet(g, s) = g[x] + SumFunctionOnSet(g, s \ {x})
      BY <3>2, SumOut
    <3> QED BY <3>1, <3>3
  <2> QED BY <2>1, <2>2
<1>2. SUBSET S \subseteq Good
  <2> HIDE DEF Good
  <2> QED BY <1>1, SubsetInduction
<1> QED BY <1>2

LEMMA SumZero ==
    ASSUME NEW S, IsFiniteSet(S), NEW f, \A x \in S : f[x] = 0
    PROVE  SumFunctionOnSet(f, S) = 0
<1> DEFINE Good == {s \in SUBSET S : SumFunctionOnSet(f, s) = 0}
<1>1. ASSUME NEW s \in SUBSET S, \A x \in s : s \ {x} \in Good PROVE s \in Good
  <2>1. CASE s = {}
    BY <2>1, SumEmpty
  <2>2. CASE s # {}
    <3>1. PICK x \in s : s \ {x} \in Good
      BY <1>1, <2>2
    <3>2. IsFiniteSet(s) /\ \A y \in s : f[y] \in Int
      BY FS_Subset
    <3>3. SumFunctionOnSet(f, s) = f[x] + SumFunctionOnSet(f, s \ {x})
      BY <3>2, SumOut
    <3> QED BY <3>1, <3>3
  <2> QED BY <2>1, <2>2
<1>2. SUBSET S \subseteq Good
  <2> HIDE DEF Good
  <2> QED BY <1>1, SubsetInduction
<1> QED BY <1>2

LEMMA SumNegated ==
    ASSUME NEW S, IsFiniteSet(S), NEW f, NEW g,
           \A x \in S : f[x] \in Int /\ g[x] = - f[x]
    PROVE  SumFunctionOnSet(g, S) = - SumFunctionOnSet(f, S)
<1> DEFINE Good == {s \in SUBSET S : SumFunctionOnSet(g, s) = - SumFunctionOnSet(f, s)}
<1>1. ASSUME NEW s \in SUBSET S, \A x \in s : s \ {x} \in Good PROVE s \in Good
  <2>1. CASE s = {}
    BY <2>1, SumEmpty
  <2>2. CASE s # {}
    <3>1. PICK x \in s : s \ {x} \in Good
      BY <1>1, <2>2
    <3>2. IsFiniteSet(s) /\ IsFiniteSet(s \ {x}) /\ \A y \in s : f[y] \in Int /\ g[y] \in Int
      BY FS_Subset
    <3>3. /\ SumFunctionOnSet(f, s) = f[x] + SumFunctionOnSet(f, s \ {x})
          /\ SumFunctionOnSet(g, s) = g[x] + SumFunctionOnSet(g, s \ {x})
      BY <3>2, SumOut
    <3>4. f[x] \in Int /\ g[x] = - f[x] /\ SumFunctionOnSet(f, s \ {x}) \in Int
      BY <3>2, SumType
    <3>5. SumFunctionOnSet(g, s \ {x}) = - SumFunctionOnSet(f, s \ {x})
      BY <3>1
    <3> HIDE DEF Good
    <3>6. SumFunctionOnSet(g, s) = - SumFunctionOnSet(f, s)
      BY <3>3, <3>4, <3>5
    <3> QED BY <3>6 DEF Good
  <2> QED BY <2>1, <2>2
<1>2. SUBSET S \subseteq Good
  <2> HIDE DEF Good
  <2> QED BY <1>1, SubsetInduction
<1> QED BY <1>2

(* One term changed. *)
LEMMA SumChangedAt ==
    ASSUME NEW S, IsFiniteSet(S), NEW f, NEW g, NEW x \in S,
           \A y \in S : f[y] \in Int /\ g[y] \in Int /\ (y # x => g[y] = f[y])
    PROVE  SumFunctionOnSet(g, S) = SumFunctionOnSet(f, S) - f[x] + g[x]
<1>1. IsFiniteSet(S \ {x})
  BY FS_Subset
<1>2. SumFunctionOnSet(g, S \ {x}) = SumFunctionOnSet(f, S \ {x})
  BY <1>1, SumSame
<1>3. SumFunctionOnSet(f, S \ {x}) \in Int
  BY <1>1, SumType
<1>4. /\ SumFunctionOnSet(f, S) = f[x] + SumFunctionOnSet(f, S \ {x})
      /\ SumFunctionOnSet(g, S) = g[x] + SumFunctionOnSet(g, S \ {x})
  BY SumOut
<1> QED BY <1>2, <1>3, <1>4

LEMMA SumOfTwo ==
    ASSUME NEW f, NEW a, NEW b, a # b, f[a] \in Int, f[b] \in Int
    PROVE  SumFunctionOnSet(f, {a, b}) = f[a] + f[b]
<1>1. IsFiniteSet({a, b}) /\ IsFiniteSet({b})
  <2>1. IsFiniteSet({b})
    BY FS_Singleton
  <2>2. IsFiniteSet({b} \cup {a}) /\ {b} \cup {a} = {a, b}
    BY <2>1, FS_AddElement
  <2> QED BY <2>1, <2>2
<1>2. {a, b} \ {a} = {b} /\ {b} \ {b} = {}
  OBVIOUS
<1>3. SumFunctionOnSet(f, {a, b}) = f[a] + SumFunctionOnSet(f, {b})
  BY <1>1, <1>2, SumOut
<1>4. SumFunctionOnSet(f, {b}) = f[b] + SumFunctionOnSet(f, {})
  BY <1>1, <1>2, SumOut
<1> QED BY <1>3, <1>4, SumEmpty

(* The terms f of S, in groups: k says which group of K an element belongs *)
(* to, and h is the sum of each group.                                     *)
Grouped(S, K, f, k, h) ==
    /\ IsFiniteSet(S) /\ IsFiniteSet(K)
    /\ \A s \in S : f[s] \in Int /\ k[s] \in K
    /\ \A x \in K : \E T \in SUBSET S : /\ \A s \in S : s \in T <=> k[s] = x
                                     /\ h[x] = SumFunctionOnSet(f, T)

LEMMA SumGrouped ==
    ASSUME NEW S, NEW K, NEW f, NEW k, NEW h, Grouped(S, K, f, k, h)
    PROVE  SumFunctionOnSet(f, S) = SumFunctionOnSet(h, K)
<1>0. /\ IsFiniteSet(S) /\ IsFiniteSet(K)
      /\ \A s \in S : f[s] \in Int /\ k[s] \in K
      /\ \A x \in K : \E T \in SUBSET S : /\ \A s \in S : s \in T <=> k[s] = x
                                       /\ h[x] = SumFunctionOnSet(f, T)
  BY DEF Grouped
<1> USE <1>0
<1> DEFINE Group(T, x) == {s \in T : k[s] = x}
           Sums(T) == [x \in K |-> SumFunctionOnSet(f, Group(T, x))]
           Good == {T \in SUBSET S : SumFunctionOnSet(f, T) = SumFunctionOnSet(Sums(T), K)}
<1>1. ASSUME NEW T \in SUBSET S, NEW x \in K
      PROVE  IsFiniteSet(Group(T, x)) /\ Sums(T)[x] \in Int
  <2>1. Group(T, x) \in SUBSET S /\ \A s \in Group(T, x) : f[s] \in Int
    OBVIOUS
  <2>2. IsFiniteSet(Group(T, x))
    <3> HIDE DEF Group
    <3> QED BY <2>1, FS_Subset
  <2> HIDE DEF Group
  <2> QED BY <2>1, <2>2, SumType
<1>2. ASSUME NEW T \in SUBSET S, \A s \in T : T \ {s} \in Good PROVE T \in Good
  <2>1. CASE T = {}
    <3>1. \A x \in K : Sums(T)[x] = 0
      <4>1. \A x \in K : Group(T, x) = {}
        BY <2>1
      <4> HIDE DEF Group
      <4> QED BY <4>1, SumEmpty
    <3>2. SumFunctionOnSet(Sums(T), K) = 0
      <4> HIDE DEF Sums
      <4> QED BY <3>1, SumZero
    <3> QED BY <2>1, <3>2, SumEmpty
  <2>2. CASE T # {}
    <3>1. PICK c \in T : T \ {c} \in Good
      BY <1>2, <2>2
    <3> DEFINE U == T \ {c}
    <3>2. /\ IsFiniteSet(T) /\ U \in SUBSET S /\ f[c] \in Int /\ k[c] \in K
          /\ \A s \in T : f[s] \in Int
      BY FS_Subset
    <3>3. SumFunctionOnSet(f, T) = f[c] + SumFunctionOnSet(f, U)
      BY <3>2, SumOut
    <3>4. ASSUME NEW x \in K, x # k[c] PROVE Sums(T)[x] = Sums(U)[x]
      <4>1. Group(T, x) = Group(U, x)
        BY <3>4
      <4> HIDE DEF Group
      <4> QED BY <4>1
    <3>5. Sums(T)[k[c]] = f[c] + Sums(U)[k[c]]
      <4>1. c \in Group(T, k[c]) /\ Group(U, k[c]) = Group(T, k[c]) \ {c}
        OBVIOUS
      <4>2. IsFiniteSet(Group(T, k[c])) /\ \A s \in Group(T, k[c]) : f[s] \in Int
        BY <1>1, <3>2
      <4> HIDE DEF Group, U
      <4>3. SumFunctionOnSet(f, Group(T, k[c])) = f[c] + SumFunctionOnSet(f, Group(U, k[c]))
        BY <4>1, <4>2, SumOut
      <4> QED BY <3>2, <4>3
    <3>6. \A x \in K : Sums(T)[x] \in Int /\ Sums(U)[x] \in Int
      BY <1>1, <3>2
    <3>7. SumFunctionOnSet(Sums(U), K) \in Int
      <4> HIDE DEF Sums, U
      <4> QED BY <3>6, SumType
    <3>8. SumFunctionOnSet(Sums(T), K)
            = SumFunctionOnSet(Sums(U), K) - Sums(U)[k[c]] + Sums(T)[k[c]]
      <4> DEFINE before == Sums(U)
                 after  == Sums(T)
                 g      == k[c]
      <4>1. /\ g \in K
            /\ \A y \in K : before[y] \in Int /\ after[y] \in Int
                                /\ (y # g => after[y] = before[y])
        <5>1. \A y \in K : Sums(T)[y] \in Int /\ Sums(U)[y] \in Int
          BY <3>6
        <5>2. \A y \in K : y # k[c] => Sums(T)[y] = Sums(U)[y]
          BY <3>4
        <5> HIDE DEF Sums, U
        <5> QED BY <3>2, <5>1, <5>2
      <4> HIDE DEF before, after, g
      <4>2. SumFunctionOnSet(after, K) = SumFunctionOnSet(before, K) - before[g] + after[g]
        <5> HIDE DEF Group, Sums, Good, U
        <5>1. g \in K /\ IsFiniteSet(K)
          BY <4>1
        <5> QED BY <4>1, <5>1, SumChangedAt
      <4> QED BY <4>2 DEF before, after, g
    <3>9. SumFunctionOnSet(f, U) = SumFunctionOnSet(Sums(U), K)
      BY <3>1
    <3>10. Sums(U)[k[c]] \in Int
      BY <3>2, <3>6
    <3>11. SumFunctionOnSet(f, T) = SumFunctionOnSet(Sums(T), K)
      <4> HIDE DEF Sums, U, Good
      <4> QED BY <3>2, <3>3, <3>5, <3>7, <3>8, <3>9, <3>10
    <3> HIDE DEF Sums
    <3> QED BY <3>11
  <2> QED BY <2>1, <2>2
<1>3. SUBSET S \subseteq Good
  <2> HIDE DEF Good
  <2> QED BY <1>2, SubsetInduction
<1>4. SumFunctionOnSet(f, S) = SumFunctionOnSet(Sums(S), K)
  <2>1. S \in Good
    BY <1>3
  <2> HIDE DEF Sums
  <2> QED BY <2>1
<1>5. ASSUME NEW x \in K PROVE h[x] = Sums(S)[x] /\ Sums(S)[x] \in Int
  <2>1. PICK T \in SUBSET S : (\A s \in S : s \in T <=> k[s] = x) /\ h[x] = SumFunctionOnSet(f, T)
    OBVIOUS
  <2>2. T = Group(S, x)
    BY <2>1
  <2>3. Sums(S)[x] = SumFunctionOnSet(f, Group(S, x))
    OBVIOUS
  <2>4. Sums(S)[x] \in Int
    BY <1>1
  <2> HIDE DEF Sums, Group
  <2> QED BY <2>1, <2>2, <2>3, <2>4
<1>6. SumFunctionOnSet(h, K) = SumFunctionOnSet(Sums(S), K)
  <2> HIDE DEF Sums
  <2> QED BY <1>5, SumSame
<1> QED BY <1>4, <1>6
=============================================================================
