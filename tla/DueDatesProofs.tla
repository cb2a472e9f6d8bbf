--------------------------- MODULE DueDatesProofs ---------------------------
(***************************************************************************)
(* The due dates of any template, for every first due date and any number  *)
(* of occurrences: how far a step leads in each interval, and which        *)
(* templates never drift.                                                  *)
(***************************************************************************)
EXTENDS DueDates, BasicLemmas

(* Where the day exists, a step of one month or one year keeps it. *)
LEMMA CarryKeepsDay ==
    ASSUME NEW y \in Nat, NEW m \in 1..12, NEW d \in 1..DaysIn(y, m)
    PROVE  DayOf(Carry(y, m, d)) = d /\ MonthOf(Carry(y, m, d)) = m
<1>1. d \in 1..31 /\ d <= DaysIn(y, m) /\ DaysIn(y, m) \in 28..31
  BY DaysInRange
<1>2. Carry(y, m, d) = DateOf(y, m, d)
  BY <1>1 DEF Carry
<1>3. d \in 0..99
  BY <1>1
<1>4. DayOf(DateOf(y, m, d)) = d /\ MonthOf(DateOf(y, m, d)) = m
  BY <1>3, DateOfParts
<1> QED BY <1>2, <1>4

LEMMA MonthlyKeepsEarlyDay ==
    ASSUME NEW date \in Dates, DayOf(date) <= 28
    PROVE  DayOf(NextDueDate("monthly", date)) = DayOf(date)
<1> DEFINE y == YearOf(date)
           m == MonthOf(date)
           d == DayOf(date)
<1>1. y \in Nat /\ m \in 1..12 /\ d \in 1..28
  BY PartsOfDate, DaysInRange
<1>2. NextDueDate("monthly", date) = IF m = 12 THEN Carry(y + 1, 1, d) ELSE Carry(y, m + 1, d)
  BY <1>1 DEF NextDueDate, AddDate, y, m, d
<1> HIDE DEF y, m, d
<1>3. \A yy \in Nat, mm \in 1..12 : d \in 1..DaysIn(yy, mm)
  BY <1>1, DaysInRange
<1>4. CASE m = 12
  <2>1. DayOf(Carry(y + 1, 1, d)) = d
    BY <1>1, <1>3, CarryKeepsDay
  <2> QED BY <1>2, <1>4, <2>1 DEF d
<1>5. CASE m # 12
  <2>1. m + 1 \in 1..12
    BY <1>1, <1>5
  <2>2. DayOf(Carry(y, m + 1, d)) = d
    BY <1>1, <1>3, <2>1, CarryKeepsDay
  <2> QED BY <1>2, <1>5, <2>2 DEF d
<1> QED BY <1>4, <1>5

LEMMA YearlyKeepsDay ==
    ASSUME NEW date \in Dates, DayOf(date) <= 28 \/ MonthOf(date) # 2
    PROVE  /\ DayOf(NextDueDate("yearly", date)) = DayOf(date)
           /\ MonthOf(NextDueDate("yearly", date)) = MonthOf(date)
<1> DEFINE y == YearOf(date)
           m == MonthOf(date)
           d == DayOf(date)
<1>1. y \in Nat /\ m \in 1..12 /\ d \in 1..31 /\ d <= DaysIn(y, m)
  BY PartsOfDate, DaysInRange
<1>2. NextDueDate("yearly", date) = Carry(y + 1, m, d)
  BY <1>1 DEF NextDueDate, AddDate, y, m, d
<1>3. d <= DaysIn(y + 1, m)
  <2>1. CASE d <= 28
    BY <1>1, <2>1, DaysInRange
  <2>2. CASE m # 2
    BY <1>1, <2>2 DEF DaysIn
  <2> QED BY <2>1, <2>2 DEF m, d
<1> HIDE DEF y, m, d
<1>4. y + 1 \in Nat /\ d \in 1..DaysIn(y + 1, m)
  BY <1>1, <1>3, DaysInRange
<1>5. DayOf(Carry(y + 1, m, d)) = d /\ MonthOf(Carry(y + 1, m, d)) = m
  BY <1>1, <1>4, CarryKeepsDay
<1> QED BY <1>2, <1>5 DEF m, d

(***************************************************************************)
(* Where a carried day lands                                               *)
(***************************************************************************)
LEMMA CarryLands ==
    ASSUME NEW y \in Nat, NEW m \in 1..12, NEW d \in 1..38
    PROVE  LET date == Carry(y, m, d)
               over == d - DaysIn(y, m)
           IN  IF over <= 0
               THEN YearOf(date) = y /\ MonthOf(date) = m /\ DayOf(date) = d
               ELSE /\ DayOf(date) = over
                    /\ IF m = 12 THEN YearOf(date) = y + 1 /\ MonthOf(date) = 1
                                 ELSE YearOf(date) = y /\ MonthOf(date) = m + 1
<1> DEFINE over == d - DaysIn(y, m)
<1>1. over \in Int /\ d \in 0..99 /\ d >= 1 /\ over <= 10
  BY DaysInRange
<1>2. CASE over <= 0
  <2>1. Carry(y, m, d) = DateOf(y, m, d)
    BY <1>1, <1>2, DaysInRange DEF Carry
  <2>2. /\ YearOf(DateOf(y, m, d)) = y /\ MonthOf(DateOf(y, m, d)) = m
        /\ DayOf(DateOf(y, m, d)) = d
    BY <1>1, DateOfParts
  <2> QED BY <1>2, <2>1, <2>2
<1>3. CASE over > 0
  <2>1. Carry(y, m, d) = DayZeroAfter(y, m) + over
    BY <1>1, <1>3, DaysInRange DEF Carry
  <2>2. over \in 0..99
    BY <1>1, <1>3
  <2>3. ~(over <= 0)
    BY <1>1, <1>3
  <2> HIDE DEF over
  <2>4. CASE m = 12
    <3>1. Carry(y, m, d) = DateOf(y + 1, 1, over)
      BY <2>1, <2>2, <2>4 DEF DayZeroAfter, DateOf
    <3>2. /\ YearOf(DateOf(y + 1, 1, over)) = y + 1 /\ MonthOf(DateOf(y + 1, 1, over)) = 1
          /\ DayOf(DateOf(y + 1, 1, over)) = over
      <4>1. y + 1 \in Nat /\ 1 \in 1..12
        OBVIOUS
      <4> QED BY <2>2, <4>1, DateOfParts
    <3> QED BY <2>3, <2>4, <3>1, <3>2 DEF over
  <2>5. CASE m # 12
    <3>1. Carry(y, m, d) = DateOf(y, m + 1, over)
      BY <2>1, <2>2, <2>5 DEF DayZeroAfter, DateOf
    <3>2. m + 1 \in 1..12
      BY <2>5
    <3>3. /\ YearOf(DateOf(y, m + 1, over)) = y /\ MonthOf(DateOf(y, m + 1, over)) = m + 1
          /\ DayOf(DateOf(y, m + 1, over)) = over
      BY <2>2, <3>2, DateOfParts
    <3> QED BY <2>3, <2>5, <3>1, <3>3 DEF over
  <2> QED BY <2>4, <2>5
<1> QED BY <1>1, <1>2, <1>3

(***************************************************************************)
(* A week in days counted one by one                                       *)
(***************************************************************************)

(* A year is as long as its leap day makes it. *)
LEMMA QuarterTurns ==
    ASSUME NEW n \in Nat, NEW k \in Nat \ {0}
    PROVE  (n + k) \div k = (n + (k - 1)) \div k + (IF n % k = 0 THEN 1 ELSE 0)
<1> DEFINE q == n \div k
           r == n % k
<1>1. q \in Int /\ r \in Int /\ n = k * q + r /\ 0 <= r /\ r < k
  OBVIOUS
<1> HIDE DEF q, r
<1>2. (n + k) \div k = q + 1
  <2>1. n + k = k * (q + 1) + r /\ q + 1 \in Int
    BY <1>1
  <2> QED BY <1>1, <2>1
<1>3. CASE r = 0
  <2>1. n + (k - 1) = k * q + (k - 1) /\ 0 <= k - 1 /\ k - 1 < k
    BY <1>1, <1>3
  <2>2. (n + (k - 1)) \div k = q
    BY <1>1, <2>1
  <2> QED BY <1>1, <1>2, <1>3, <2>2 DEF r
<1>4. CASE r # 0
  <2>1. n + (k - 1) = k * (q + 1) + (r - 1) /\ 0 <= r - 1 /\ r - 1 < k /\ q + 1 \in Int
    BY <1>1, <1>4
  <2>2. (n + (k - 1)) \div k = q + 1
    BY <1>1, <2>1
  <2> QED BY <1>1, <1>2, <1>4, <2>2 DEF r
<1> QED BY <1>3, <1>4

LEMMA YearLength ==
    ASSUME NEW y \in Nat
    PROVE  /\ DaysBeforeYear(y) \in Int
           /\ DaysBeforeYear(y + 1) = DaysBeforeYear(y) + 365 + (IF IsLeap(y) THEN 1 ELSE 0)
<1>1. (y + 4) \div 4 = (y + 3) \div 4 + (IF y % 4 = 0 THEN 1 ELSE 0)
  BY QuarterTurns
<1>2. (y + 100) \div 100 = (y + 99) \div 100 + (IF y % 100 = 0 THEN 1 ELSE 0)
  BY QuarterTurns
<1>3. (y + 400) \div 400 = (y + 399) \div 400 + (IF y % 400 = 0 THEN 1 ELSE 0)
  BY QuarterTurns
<1>4. (y % 400 = 0 => y % 100 = 0) /\ (y % 100 = 0 => y % 4 = 0)
  OBVIOUS
<1>5. /\ (y + 1) + 3 = y + 4 /\ (y + 1) + 99 = y + 100 /\ (y + 1) + 399 = y + 400
      /\ 365 * (y + 1) = 365 * y + 365
  OBVIOUS
<1>6. /\ (y + 3) \div 4 \in Int /\ (y + 99) \div 100 \in Int /\ (y + 399) \div 400 \in Int
      /\ 365 * y \in Int
  OBVIOUS
<1>7. DaysBeforeYear(y + 1) = 365 * y + 365 + (y + 4) \div 4 - (y + 100) \div 100
                                + (y + 400) \div 400
  BY <1>5 DEF DaysBeforeYear
<1>8. IsLeap(y) <=> (y % 4 = 0 /\ y % 100 # 0) \/ y % 400 = 0
  BY DEF IsLeap
<1> DEFINE a == (y + 3) \div 4
           b == (y + 99) \div 100
           c == (y + 399) \div 400
           e == IF y % 4 = 0 THEN 1 ELSE 0
           f == IF y % 100 = 0 THEN 1 ELSE 0
           g == IF y % 400 = 0 THEN 1 ELSE 0
<1>9. e - f + g = (IF IsLeap(y) THEN 1 ELSE 0) /\ e \in Int /\ f \in Int /\ g \in Int
  BY <1>4, <1>8
<1>10. DaysBeforeYear(y + 1) = 365 * y + 365 + (a + e) - (b + f) + (c + g)
  BY <1>1, <1>2, <1>3, <1>7
<1>11. DaysBeforeYear(y) = 365 * y + a - b + c
  BY DEF DaysBeforeYear
<1>12. a \in Int /\ b \in Int /\ c \in Int
  BY <1>6
<1> HIDE DEF a, b, c, e, f, g
<1> QED BY <1>6, <1>9, <1>10, <1>11, <1>12

(* The months before one another, and the twelve of them a year. *)
LEMMA MonthLength ==
    ASSUME NEW y \in Nat
    PROVE  /\ \A m \in 1..12 : DaysBeforeMonth(y, m) \in Int
           /\ DaysBeforeMonth(y, 1) = 0
           /\ \A m \in 1..11 : DaysBeforeMonth(y, m + 1) = DaysBeforeMonth(y, m) + DaysIn(y, m)
           /\ DaysBeforeMonth(y, 12) + 31 = 365 + (IF IsLeap(y) THEN 1 ELSE 0)
<1> DEFINE leap == IF IsLeap(y) THEN 1 ELSE 0
           Table(f) == f = [m \in 1..12 |-> IF m = 1 THEN 0 ELSE f[m - 1] + DaysIn(y, m - 1)]
           days == CHOOSE f : Table(f)
           plain == <<0, 31, 59, 90, 120, 151, 181, 212, 243, 273, 304, 334>>
           known == [m \in 1..12 |-> plain[m] + (IF m > 2 THEN leap ELSE 0)]
<1>1. Table(known)
  <2>1. \A m \in 1..12 : known[m] = IF m = 1 THEN 0 ELSE known[m - 1] + DaysIn(y, m - 1)
    BY DEF DaysIn
  <2> QED BY <2>1
<1>2. Table(days)
  BY <1>1
<1>3. \A m \in 1..12 : DaysBeforeMonth(y, m) = days[m]
  BY DEF DaysBeforeMonth
<1>4. /\ days[1] = 0
      /\ \A m \in 1..11 : days[m + 1] = days[m] + DaysIn(y, m)
  <2> HIDE DEF days
  <2>1. \A m \in 1..12 : days[m] = IF m = 1 THEN 0 ELSE days[m - 1] + DaysIn(y, m - 1)
    BY <1>2
  <2>2. \A m \in 1..11 : m + 1 \in 1..12 /\ m + 1 # 1 /\ (m + 1) - 1 = m
    OBVIOUS
  <2> QED BY <2>1, <2>2
<1> HIDE DEF days
<1>5. /\ days[2] = days[1] + 31 /\ days[3] = days[2] + 28 + leap /\ days[4] = days[3] + 31
      /\ days[5] = days[4] + 30 /\ days[6] = days[5] + 31 /\ days[7] = days[6] + 30
      /\ days[8] = days[7] + 31 /\ days[9] = days[8] + 31 /\ days[10] = days[9] + 30
      /\ days[11] = days[10] + 31 /\ days[12] = days[11] + 30
  BY <1>4 DEF DaysIn
<1>6. leap \in Int
  OBVIOUS
<1> HIDE DEF leap
<1>7. \A m \in 1..12 : days[m] \in Int
  BY <1>4, <1>5, <1>6
<1>8. days[12] + 31 = 365 + leap
  BY <1>4, <1>5, <1>6
<1> QED BY <1>3, <1>4, <1>7, <1>8 DEF leap

LEMMA WeekIsSevenDays ==
    ASSUME NEW date \in Dates
    PROVE  DayNumber(NextDueDate("weekly", date)) = DayNumber(date) + 7
<1> DEFINE y == YearOf(date)
           m == MonthOf(date)
           d == DayOf(date)
           e == d + 7
           next == Carry(y, m, e)
           over == e - DaysIn(y, m)
<1>1. y \in Nat /\ m \in 1..12 /\ d \in 1..31 /\ e \in 1..38 /\ e = d + 7
  BY PartsOfDate, DaysInRange
<1>2. NextDueDate("weekly", date) = next
  BY <1>1 DEF NextDueDate, AddDate, y, m, d
<1>3. DayNumber(date) = DaysBeforeYear(y) + DaysBeforeMonth(y, m) + d
  BY DEF DayNumber
<1>4. DayNumber(next) = DaysBeforeYear(YearOf(next)) + DaysBeforeMonth(YearOf(next), MonthOf(next))
                          + DayOf(next)
  BY DEF DayNumber
<1> HIDE DEF y, m, d, e
<1>5. IF over <= 0
      THEN YearOf(next) = y /\ MonthOf(next) = m /\ DayOf(next) = e
      ELSE /\ DayOf(next) = over
           /\ IF m = 12 THEN YearOf(next) = y + 1 /\ MonthOf(next) = 1
                        ELSE YearOf(next) = y /\ MonthOf(next) = m + 1
  BY <1>1, CarryLands
<1>6. DaysIn(y, m) \in Int /\ over \in Int
  BY <1>1, DaysInRange
<1> HIDE DEF next
<1>7. DaysBeforeYear(y) \in Int /\ DaysBeforeMonth(y, m) \in Int
  BY <1>1, YearLength, MonthLength
<1>8. CASE over <= 0
  BY <1>1, <1>2, <1>3, <1>4, <1>5, <1>7, <1>8
<1>9. CASE over > 0 /\ m # 12
  <2>1. DaysBeforeMonth(y, m + 1) = DaysBeforeMonth(y, m) + DaysIn(y, m)
    <3>1. m \in 1..11
      BY <1>1, <1>9
    <3> QED BY <1>1, <3>1, MonthLength
  <2>2. YearOf(next) = y /\ MonthOf(next) = m + 1 /\ DayOf(next) = over
    BY <1>5, <1>6, <1>9
  <2> QED BY <1>1, <1>2, <1>3, <1>4, <1>6, <1>7, <2>1, <2>2
<1>10. CASE over > 0 /\ m = 12
  <2>1. YearOf(next) = y + 1 /\ MonthOf(next) = 1 /\ DayOf(next) = over
    BY <1>5, <1>6, <1>10
  <2>2. DaysBeforeMonth(y + 1, 1) = 0 /\ y + 1 \in Nat
    BY <1>1, MonthLength
  <2>3. DaysBeforeYear(y + 1) = DaysBeforeYear(y) + DaysBeforeMonth(y, 12) + 31
    <3>1. DaysBeforeMonth(y, 12) + 31 = 365 + (IF IsLeap(y) THEN 1 ELSE 0)
      BY <1>1, MonthLength
    <3>2. DaysBeforeYear(y + 1) = DaysBeforeYear(y) + 365 + (IF IsLeap(y) THEN 1 ELSE 0)
      BY <1>1, YearLength
    <3>3. DaysBeforeMonth(y, 12) \in Int
      BY <1>7, <1>10
    <3> QED BY <1>7, <3>1, <3>2, <3>3
  <2>4. DaysIn(y, m) = 31
    BY <1>10 DEF DaysIn
  <2> QED BY <1>1, <1>2, <1>3, <1>4, <1>6, <1>7, <1>10, <2>1, <2>2, <2>3, <2>4
<1> QED BY <1>6, <1>8, <1>9, <1>10

(***************************************************************************)
(* A month or a year on                                                    *)
(***************************************************************************)

(* The month a number counts. *)
LEMMA MonthOfNumber ==
    ASSUME NEW y \in Nat, NEW m \in 1..12
    PROVE  (12 * y + m - 1) \div 12 = y
<1>1. 12 * y + m - 1 = 12 * y + (m - 1) /\ m - 1 \in 0..11
  OBVIOUS
<1> QED BY <1>1

LEMMA LateByMissingDays ==
    ASSUME NEW interval_ \in {"monthly", "yearly"}, NEW date \in Dates
    PROVE  LET target  == MonthNumber(date) + (IF interval_ = "monthly" THEN 1 ELSE 12)
               year    == (target - 1) \div 12
               missing == DayOf(date) - DaysIn(year, target - 12 * year)
               next    == NextDueDate(interval_, date)
           IN  /\ missing <= 3
               /\ IF missing <= 0
                  THEN MonthNumber(next) = target /\ DayOf(next) = DayOf(date)
                  ELSE MonthNumber(next) = target + 1 /\ DayOf(next) = missing
<1> DEFINE y == YearOf(date)
           m == MonthOf(date)
           d == DayOf(date)
           target == MonthNumber(date) + (IF interval_ = "monthly" THEN 1 ELSE 12)
           next == NextDueDate(interval_, date)
<1>1. y \in Nat /\ m \in 1..12 /\ d \in 1..31
  BY PartsOfDate, DaysInRange
<1>2. \E yy \in Nat, mm \in 1..12 : next = Carry(yy, mm, d) /\ target = 12 * yy + mm
  <2>1. target = 12 * y + m + (IF interval_ = "monthly" THEN 1 ELSE 12)
    BY DEF MonthNumber
  <2>2. next = IF interval_ = "yearly" THEN Carry(y + 1, m, d)
               ELSE IF m = 12 THEN Carry(y + 1, 1, d) ELSE Carry(y, m + 1, d)
    BY <1>1 DEF NextDueDate, AddDate
  <2> HIDE DEF y, m, d, next, target
  <2>3. CASE interval_ = "yearly"
    <3>1. target = 12 * (y + 1) + m /\ y + 1 \in Nat
      BY <1>1, <2>1, <2>3
    <3> QED BY <1>1, <2>2, <2>3, <3>1
  <2>4. CASE interval_ = "monthly" /\ m = 12
    <3>1. target = 12 * (y + 1) + 1 /\ y + 1 \in Nat /\ 1 \in 1..12
      BY <1>1, <2>1, <2>4
    <3>2. next = Carry(y + 1, 1, d)
      BY <2>2, <2>4
    <3> QED BY <3>1, <3>2
  <2>5. CASE interval_ = "monthly" /\ m # 12
    <3>1. target = 12 * y + (m + 1) /\ m + 1 \in 1..12
      BY <1>1, <2>1, <2>5
    <3>2. next = Carry(y, m + 1, d)
      BY <2>2, <2>5
    <3> QED BY <1>1, <3>1, <3>2
  <2> QED BY <2>3, <2>4, <2>5
<1> HIDE DEF target, next, d
<1>3. PICK yy \in Nat, mm \in 1..12 : next = Carry(yy, mm, d) /\ target = 12 * yy + mm
  BY <1>2
<1> DEFINE missing == d - DaysIn(yy, mm)
<1>4. (target - 1) \div 12 = yy /\ target - 12 * yy = mm
  <2>1. (12 * yy + mm - 1) \div 12 = yy
    BY MonthOfNumber
  <2> QED BY <1>3, <2>1
<1>5. missing \in Int /\ missing <= 3 /\ d \in 1..38
  BY <1>1, DaysInRange
<1>6. IF missing <= 0
      THEN YearOf(next) = yy /\ MonthOf(next) = mm /\ DayOf(next) = d
      ELSE /\ DayOf(next) = missing
           /\ IF mm = 12 THEN YearOf(next) = yy + 1 /\ MonthOf(next) = 1
                         ELSE YearOf(next) = yy /\ MonthOf(next) = mm + 1
  BY <1>3, <1>5, CarryLands
<1> HIDE DEF missing
<1>7. IF missing <= 0 THEN MonthNumber(next) = target /\ DayOf(next) = d
                      ELSE MonthNumber(next) = target + 1 /\ DayOf(next) = missing
  <2>1. MonthNumber(next) = 12 * YearOf(next) + MonthOf(next)
    BY DEF MonthNumber
  <2>2. 12 * (yy + 1) + 1 = 12 * yy + 12 + 1
    OBVIOUS
  <2> QED BY <1>3, <1>5, <1>6, <2>1, <2>2
<1> QED BY <1>4, <1>5, <1>7 DEF missing, target, next, d

(***************************************************************************)
(* The theorems                                                            *)
(***************************************************************************)

(* The first date keeps its place in the month; a yearly one its month too. *)
KeepsPlace ==
    \/ interval = "weekly"
    \/ DayOf(first) > 28 /\ (interval = "yearly" => MonthOf(first) = 2)
    \/ DayOf(due) = DayOf(first) /\ (interval = "yearly" => MonthOf(due) = MonthOf(first))

LEMMA PlaceKept == Spec => [](TypeOK /\ KeepsPlace)
<1>1. Init => TypeOK /\ KeepsPlace
  BY DueDatesAssumption DEF Init, TypeOK, KeepsPlace
<1>2. TypeOK /\ KeepsPlace /\ [Advance]_vars => TypeOK' /\ KeepsPlace'
  <2> SUFFICES ASSUME TypeOK, KeepsPlace, [Advance]_vars PROVE TypeOK' /\ KeepsPlace'
    OBVIOUS
  <2>1. CASE UNCHANGED vars
    BY <2>1 DEF vars, TypeOK, KeepsPlace
  <2>2. CASE Advance
    <3>1. due' = NextDueDate(interval, due) /\ UNCHANGED <<interval, first>>
      BY <2>2 DEF Advance
    <3>2. TypeOK'
      BY <3>1, NextDueDateForward DEF TypeOK
    <3>3. DayOf(due) \in 1..31 /\ DayOf(first) \in 1..31
      BY PartsOfDate, DaysInRange DEF TypeOK
    <3>4. due \in Dates /\ first \in Dates
      BY DEF TypeOK
    <3>5. ASSUME interval = "monthly" PROVE KeepsPlace'
      <4>1. DayOf(due) <= 28 => DayOf(NextDueDate("monthly", due)) = DayOf(due)
        BY <3>4, MonthlyKeepsEarlyDay
      <4> QED BY <3>1, <3>3, <3>5, <4>1 DEF KeepsPlace
    <3>6. ASSUME interval = "yearly" PROVE KeepsPlace'
      <4>1. DayOf(due) <= 28 \/ MonthOf(due) # 2 =>
              /\ DayOf(NextDueDate("yearly", due)) = DayOf(due)
              /\ MonthOf(NextDueDate("yearly", due)) = MonthOf(due)
        BY <3>4, YearlyKeepsDay
      <4> QED BY <3>1, <3>3, <3>6, <4>1 DEF KeepsPlace
    <3>7. ASSUME interval = "weekly" PROVE KeepsPlace'
      BY <3>1, <3>7 DEF KeepsPlace
    <3> QED BY <3>2, <3>5, <3>6, <3>7 DEF TypeOK, Intervals
  <2> QED BY <2>1, <2>2
<1> QED BY <1>1, <1>2, PTL DEF Spec

(* Whatever the interval and the date it begins with, every due date is a  *)
(* date of the calendar.                                                   *)
THEOREM DueDatesAreDates == Spec => []TypeOK
BY PlaceKept, PTL

(* A monthly template first due on the 28th or earlier, and a yearly one   *)
(* not due on 29 February, keep their day of the month for ever.           *)
THEOREM DatesNeverDrift == Spec => []NoDriftBeforeThe29th
<1>1. KeepsPlace => NoDriftBeforeThe29th
  BY DEF KeepsPlace, NoDriftBeforeThe29th
<1> QED BY <1>1, PlaceKept, PTL

(* Whatever date it begins with, a weekly template is due exactly seven    *)
(* days later, by a count of days that knows nothing of carrying.          *)
THEOREM WeeksAreSevenDays == Spec => WeeklyIsSevenDays
<1> DEFINE Week == interval = "weekly" => DayNumber(due') = DayNumber(due) + 7
<1>1. TypeOK /\ [Advance]_vars => [Week]_vars
  <2> SUFFICES ASSUME TypeOK, Advance, interval = "weekly" PROVE Week
    BY DEF vars
  <2> QED BY WeekIsSevenDays DEF TypeOK, Advance
<1> QED BY <1>1, DueDatesAreDates, PTL DEF Spec, WeeklyIsSevenDays

(* Whatever date it begins with, a monthly or yearly occurrence is never   *)
(* early, and late only by the days the month aimed at does not have.      *)
THEOREM LateByWhatIsMissing == Spec => LateByMissingDaysOnly
<1> DEFINE InTime ==
        interval # "weekly" =>
          LET target  == MonthNumber(due) + (IF interval = "monthly" THEN 1 ELSE 12)
              year    == (target - 1) \div 12
              missing == DayOf(due) - DaysIn(year, target - 12 * year)
          IN  /\ missing <= 3
              /\ IF missing <= 0
                 THEN MonthNumber(due') = target /\ DayOf(due') = DayOf(due)
                 ELSE MonthNumber(due') = target + 1 /\ DayOf(due') = missing
<1>1. TypeOK /\ [Advance]_vars => [InTime]_vars
  <2> SUFFICES ASSUME TypeOK, Advance, interval # "weekly" PROVE InTime
    BY DEF vars
  <2>1. interval \in {"monthly", "yearly"} /\ due \in Dates /\ due' = NextDueDate(interval, due)
    BY DEF TypeOK, Intervals, Advance
  <2> QED BY <2>1, LateByMissingDays
<1> QED BY <1>1, DueDatesAreDates, PTL DEF Spec, LateByMissingDaysOnly
=============================================================================
