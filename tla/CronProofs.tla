----------------------------- MODULE CronProofs -----------------------------
(***************************************************************************)
(* Proofs about CronTask, for every set of expressions, starts and number  *)
(* of runs.  First the calendar (the clock, months and years), then what   *)
(* find_next makes of one field: for each, that the time it moves to fits, *)
(* and that none in between does.  The inductive invariant CronIInv says   *)
(* how far the search has come; DueNextOfPlain follows from it.            *)
(***************************************************************************)
EXTENDS CronTask, FiniteSetTheorems, WellFoundedInduction, TLAPS

-----------------------------------------------------------------------------
(***************************************************************************)
(* The clock: a time is a day and a time of day, and only one.             *)
(***************************************************************************)
At(day, h, m, s) == ((day * 24 + h) * 60 + m) * 60 + s

InClock(h, m, s) == h \in 0 .. 23 /\ m \in 0 .. 59 /\ s \in 0 .. 59

HasClock(t, day, h, m, s) ==
    /\ t \in Nat /\ DayOf(t) = day
    /\ (t \div 3600) % 24 = h /\ (t \div 60) % 60 = m /\ t % 60 = s

\* Of a time that is put together, the parts are those it was put together from.
LEMMA ClockParts ==
    ASSUME NEW day \in Nat, NEW h \in 0 .. 23, NEW m \in 0 .. 59, NEW s \in 0 .. 59
    PROVE  HasClock(At(day, h, m, s), day, h, m, s)
<1> DEFINE t == At(day, h, m, s)
<1>1. t = 86400 * day + 3600 * h + 60 * m + s BY DEF At
<1> HIDE DEF t
<1>2. t \in Nat BY <1>1
<1>3. t \div 86400 = day BY <1>1
<1>4. t \div 3600 = 24 * day + h BY <1>1
<1>5. t \div 60 = 1440 * day + 60 * h + m BY <1>1
<1>6. (24 * day + h) % 24 = h OBVIOUS
<1>7. (1440 * day + 60 * h + m) % 60 = m OBVIOUS
<1>8. t % 60 = s BY <1>1
<1>9. HasClock(t, day, h, m, s)
  BY <1>2, <1>3, <1>4, <1>5, <1>6, <1>7, <1>8 DEF DayOf, HasClock
<1> QED BY <1>9 DEF t

\* Every time is put together so.
LEMMA ClockOf ==
    ASSUME NEW t \in Nat
    PROVE  \E day \in Nat, h \in 0 .. 23, m \in 0 .. 59, s \in 0 .. 59 : t = At(day, h, m, s)
<1>1. /\ t \div 60 \in Nat /\ t - 60 * (t \div 60) \in 0 .. 59
      /\ t = 60 * (t \div 60) + (t - 60 * (t \div 60))
  OBVIOUS
<1>2. PICK i \in Nat, s \in 0 .. 59 : t = 60 * i + s BY <1>1
<1>3. i \div 60 \in Nat /\ i - 60 * (i \div 60) \in 0 .. 59
      /\ i = 60 * (i \div 60) + (i - 60 * (i \div 60))
  OBVIOUS
<1>4. PICK j \in Nat, m \in 0 .. 59 : i = 60 * j + m BY <1>3
<1>5. j \div 24 \in Nat /\ j - 24 * (j \div 24) \in 0 .. 23
      /\ j = 24 * (j \div 24) + (j - 24 * (j \div 24))
  OBVIOUS
<1>6. PICK day \in Nat, h \in 0 .. 23 : j = 24 * day + h BY <1>5
<1>7. t = At(day, h, m, s) BY <1>2, <1>4, <1>6 DEF At
<1> QED BY <1>7

-----------------------------------------------------------------------------
(***************************************************************************)
(* The calendar: a day has one year and one month.                         *)
(***************************************************************************)
Years == {y \in Nat : y >= 2000}

LEMMA YearLength ==
    ASSUME NEW y \in Years
    PROVE  /\ YearStart(y) \in Nat
           /\ YearStart(y + 1) = YearStart(y) + 365 + (IF LeapYear(y) THEN 1 ELSE 0)
           /\ YearStart(y + 4) = YearStart(y) + 1461
<1>1. \E q \in Nat, r \in 0 .. 3 : y = 2000 + 4 * q + r
  <2> DEFINE n == y - 2000
  <2>1. n \in Nat /\ y = 2000 + n BY DEF Years
  <2> HIDE DEF n
  <2>2. n \div 4 \in Nat /\ n - 4 * (n \div 4) \in 0 .. 3
        /\ n = 4 * (n \div 4) + (n - 4 * (n \div 4))
    BY <2>1
  <2> QED BY <2>1, <2>2
<1>2. PICK q \in Nat, r \in 0 .. 3 : y = 2000 + 4 * q + r BY <1>1
<1>3. /\ (y - 1997) \div 4 = q + (IF r = 0 THEN 0 ELSE 1)
      /\ (y + 1 - 1997) \div 4 = q + 1
      /\ (y + 4 - 1997) \div 4 = q + 1 + (IF r = 0 THEN 0 ELSE 1)
      /\ LeapYear(y) <=> r = 0
  BY <1>2 DEF LeapYear
<1> QED BY <1>2, <1>3 DEF YearStart

\* The year that DateAt computes is the one the day lies in.
LEMMA YearOfDay ==
    ASSUME NEW day \in Nat
    PROVE  LET y == 2000 + (4 * day) \div 1461
           IN  y \in Years /\ YearStart(y) <= day /\ day < YearStart(y + 1)
<1> DEFINE n == (4 * day) \div 1461
           r == 4 * day - 1461 * n
<1>1. n \in Nat /\ r \in 0 .. 1460 /\ 4 * day = 1461 * n + r OBVIOUS
<1> HIDE DEF n, r
<1>2. (n + 3) \div 4 \in Nat /\ 4 * ((n + 3) \div 4) \in n .. n + 3 BY <1>1
<1>3. (n + 4) \div 4 \in Nat /\ 4 * ((n + 4) \div 4) \in n + 1 .. n + 4 BY <1>1
<1>4. 2000 + n - 1997 = n + 3 /\ 2000 + n + 1 - 1997 = n + 4 BY <1>1
<1>5. YearStart(2000 + n) = 365 * n + ((n + 3) \div 4) BY <1>1, <1>4 DEF YearStart
<1>6. YearStart(2000 + n + 1) = 365 * (n + 1) + ((n + 4) \div 4) BY <1>1, <1>4 DEF YearStart
<1>7. 4 * YearStart(2000 + n) <= 4 * day + 3 /\ 4 * day < 4 * YearStart(2000 + n + 1)
  BY <1>1, <1>2, <1>3, <1>5, <1>6
<1>8. YearStart(2000 + n) \in Nat /\ YearStart(2000 + n + 1) \in Nat
  BY <1>1, <1>2, <1>3, <1>5, <1>6
<1> QED BY <1>1, <1>7, <1>8 DEF n, Years

LEMMA YearsInOrder ==
    ASSUME NEW y \in Years, NEW z \in Years, y < z
    PROVE  YearStart(y + 1) <= YearStart(z)
<1> DEFINE i == y + 1 - 1997
           j == z - 1997
<1>1. i \in Nat /\ j \in Nat /\ i <= j BY DEF Years
<1> HIDE DEF i, j
<1>2. i \div 4 \in Nat /\ j \div 4 \in Nat /\ i \div 4 <= j \div 4 BY <1>1
<1>3. YearStart(y + 1) = 365 * (y + 1 - 2000) + ((y + 1 - 1997) \div 4)
  BY DEF YearStart, Years
<1>4. YearStart(z) = 365 * (z - 2000) + (j \div 4) BY DEF YearStart, j
<1> QED BY <1>2, <1>3, <1>4 DEF Years, i

\* A year's months are its days cut in twelve, each of 28 to 31 days.
LEMMA MonthStarts ==
    ASSUME NEW y \in Years
    PROVE  /\ MonthStart(y, 0) = YearStart(y)
           /\ MonthStart(y, 12) = YearStart(y + 1)
           /\ \A m \in 0 .. 12 : MonthStart(y, m) \in Nat
           /\ \A m \in 0 .. 11 : /\ MonthStart(y, m) + 28 <= MonthStart(y, m + 1)
                               /\ MonthStart(y, m + 1) <= MonthStart(y, m) + 31
           /\ MonthStart(y, 1) = MonthStart(y, 0) + 31
<1> DEFINE b == YearStart(y)
           l == IF LeapYear(y) THEN 1 ELSE 0
<1>1. b \in Nat /\ l \in {0, 1} /\ YearStart(y + 1) = b + 365 + l BY YearLength
<1>2. /\ MonthStart(y, 0) = b /\ MonthStart(y, 1) = b + 31
      /\ MonthStart(y, 2) = b + 59 + l /\ MonthStart(y, 3) = b + 90 + l
      /\ MonthStart(y, 4) = b + 120 + l /\ MonthStart(y, 5) = b + 151 + l
      /\ MonthStart(y, 6) = b + 181 + l /\ MonthStart(y, 7) = b + 212 + l
      /\ MonthStart(y, 8) = b + 243 + l /\ MonthStart(y, 9) = b + 273 + l
      /\ MonthStart(y, 10) = b + 304 + l /\ MonthStart(y, 11) = b + 334 + l
      /\ MonthStart(y, 12) = b + 365 + l
  BY <1>1 DEF MonthStart, DaysBefore
<1> HIDE DEF b, l
<1>3. ASSUME NEW m \in 0 .. 11
      PROVE  /\ MonthStart(y, m) \in Nat /\ MonthStart(y, m) + 28 <= MonthStart(y, m + 1)
             /\ MonthStart(y, m + 1) <= MonthStart(y, m) + 31
  <2>1. \/ m = 0 \/ m = 1 \/ m = 2 \/ m = 3 \/ m = 4 \/ m = 5
        \/ m = 6 \/ m = 7 \/ m = 8 \/ m = 9 \/ m = 10 \/ m = 11
    OBVIOUS
  <2>2. 0 + 1 = 1 /\ 1 + 1 = 2 /\ 2 + 1 = 3 /\ 3 + 1 = 4 /\ 4 + 1 = 5 /\ 5 + 1 = 6 /\ 6 + 1 = 7
        /\ 7 + 1 = 8 /\ 8 + 1 = 9 /\ 9 + 1 = 10 /\ 10 + 1 = 11 /\ 11 + 1 = 12
    OBVIOUS
  <2> QED BY <1>1, <1>2, <2>1, <2>2
<1>4. \A m \in 0 .. 12 : m \in 0 .. 11 \/ m = 12 OBVIOUS
<1>5. MonthStart(y, 12) \in Nat BY <1>1, <1>2
<1> QED BY <1>1, <1>2, <1>3, <1>4, <1>5 DEF b

\* A month is over before the next begins, in the same year or a later one.
LEMMA MonthsInOrder ==
    ASSUME NEW y \in Years, NEW m \in 0 .. 11, NEW z \in Years, NEW n \in 0 .. 11,
           y < z \/ (y = z /\ m < n)
    PROVE  MonthStart(y, m + 1) <= MonthStart(z, n)
<1>1. ASSUME NEW w \in Years, NEW i \in 0 .. 12, NEW j \in 0 .. 12, i <= j
      PROVE  MonthStart(w, i) <= MonthStart(w, j)
  <2> DEFINE S(k) == MonthStart(w, k)
  <2>1. \A k \in 0 .. 12 : S(k) \in Nat BY MonthStarts
  <2>2. \A k \in 0 .. 11 : S(k) <= S(k + 1)
    <3> SUFFICES ASSUME NEW k \in 0 .. 11 PROVE S(k) <= S(k + 1) OBVIOUS
    <3>1. k \in 0 .. 12 /\ k + 1 \in 0 .. 12 OBVIOUS
    <3>2. S(k) + 28 <= S(k + 1) BY MonthStarts
    <3> QED BY <2>1, <3>1, <3>2
  <2> HIDE DEF S
  <2>3. /\ S(0) <= S(1) /\ S(1) <= S(2) /\ S(2) <= S(3) /\ S(3) <= S(4) /\ S(4) <= S(5)
        /\ S(5) <= S(6) /\ S(6) <= S(7) /\ S(7) <= S(8) /\ S(8) <= S(9) /\ S(9) <= S(10)
        /\ S(10) <= S(11) /\ S(11) <= S(12)
    <3>1. /\ 0 + 1 = 1 /\ 1 + 1 = 2 /\ 2 + 1 = 3 /\ 3 + 1 = 4 /\ 4 + 1 = 5 /\ 5 + 1 = 6
          /\ 6 + 1 = 7 /\ 7 + 1 = 8 /\ 8 + 1 = 9 /\ 9 + 1 = 10 /\ 10 + 1 = 11 /\ 11 + 1 = 12
      OBVIOUS
    <3> QED BY <2>2, <3>1
  <2>4. /\ S(0) \in Nat /\ S(1) \in Nat /\ S(2) \in Nat /\ S(3) \in Nat /\ S(4) \in Nat
        /\ S(5) \in Nat /\ S(6) \in Nat /\ S(7) \in Nat /\ S(8) \in Nat /\ S(9) \in Nat
        /\ S(10) \in Nat /\ S(11) \in Nat /\ S(12) \in Nat
    BY <2>1
  <2>5. \A k \in 0 .. 12 : \/ k = 0 \/ k = 1 \/ k = 2 \/ k = 3 \/ k = 4 \/ k = 5 \/ k = 6
                          \/ k = 7 \/ k = 8 \/ k = 9 \/ k = 10 \/ k = 11 \/ k = 12
    OBVIOUS
  <2>6. S(i) <= S(j) BY <1>1, <2>3, <2>4, <2>5
  <2> QED BY <2>6 DEF S
<1>2. CASE y = z /\ m < n
  <2>1. m + 1 \in 0 .. 12 /\ n \in 0 .. 12 /\ m + 1 <= n BY <1>2
  <2> QED BY <1>1, <1>2, <2>1
<1>3. CASE y < z
  <2>1. m + 1 \in 0 .. 12 /\ m + 1 <= 12 /\ n \in 0 .. 12 /\ 0 <= n OBVIOUS
  <2>2. MonthStart(y, m + 1) <= MonthStart(y, 12) BY <1>1, <2>1
  <2>3. MonthStart(z, 0) <= MonthStart(z, n) BY <1>1, <2>1
  <2>4. MonthStart(y, 12) <= MonthStart(z, 0) BY <1>3, MonthStarts, YearsInOrder
  <2>5. /\ MonthStart(y, m + 1) \in Nat /\ MonthStart(y, 12) \in Nat
        /\ MonthStart(z, 0) \in Nat /\ MonthStart(z, n) \in Nat
    BY <2>1, MonthStarts
  <2> QED BY <2>2, <2>3, <2>4, <2>5
<1> QED BY <1>2, <1>3

InMonth(day, y, m) == MonthStart(y, m) <= day /\ day < MonthStart(y, m + 1)

Date(y, m, k, h, i, s) ==
    [year |-> y, mon |-> m, mday |-> k, hour |-> h, min |-> i, sec |-> s]

LEMMA MonthOfDay ==
    ASSUME NEW day \in Nat, NEW y \in Years, YearStart(y) <= day, day < YearStart(y + 1)
    PROVE  \E m \in 0 .. 11 : InMonth(day, y, m)
<1> DEFINE S(k) == MonthStart(y, k)
<1>1. S(0) <= day /\ day < S(12) BY MonthStarts
<1>2. \A k \in 0 .. 12 : S(k) \in Nat BY MonthStarts
<1>3. \A k \in 0 .. 11 : InMonth(day, y, k) <=> S(k) <= day /\ day < S(k + 1) BY DEF InMonth
<1> HIDE DEF S
<1> SUFFICES ASSUME \A k \in 0 .. 11 : S(k) <= day => ~(day < S(k + 1)) PROVE FALSE
  BY <1>3
<1>4. ASSUME NEW k \in 0 .. 11, S(k) <= day PROVE S(k + 1) <= day
  <2>1. k + 1 \in 0 .. 12 OBVIOUS
  <2> QED BY <1>2, <1>4, <2>1
<1>5. S(1) <= day /\ S(2) <= day /\ S(3) <= day BY <1>1, <1>4
<1>6. S(4) <= day /\ S(5) <= day /\ S(6) <= day BY <1>4, <1>5
<1>7. S(7) <= day /\ S(8) <= day /\ S(9) <= day BY <1>4, <1>6
<1>8. S(10) <= day /\ S(11) <= day /\ S(12) <= day BY <1>4, <1>7
<1>9. S(12) \in Nat BY <1>2
<1> QED BY <1>1, <1>8, <1>9

\* The date of a time is that of the month its day lies in.
LEMMA DateOf ==
    ASSUME NEW y \in Years, NEW m \in 0 .. 11, NEW k \in Nat,
           MonthStart(y, m) + k < MonthStart(y, m + 1),
           NEW h \in 0 .. 23, NEW i \in 0 .. 59, NEW s \in 0 .. 59
    PROVE  DateAt(At(MonthStart(y, m) + k, h, i, s)) = Date(y, m, k + 1, h, i, s)
<1> DEFINE day == MonthStart(y, m) + k
           t == At(day, h, i, s)
<1>1. m \in 0 .. 12 /\ MonthStart(y, m) \in Nat /\ day \in Nat BY MonthStarts
<1> HIDE DEF day
<1>2. HasClock(t, day, h, i, s) BY <1>1, ClockParts, Zenon
<1> HIDE DEF t
<1> DEFINE year == 2000 + (4 * DayOf(t)) \div 1461
           In(n) == MonthStart(year, n) <= DayOf(t) /\ DayOf(t) < MonthStart(year, n + 1)
           mon == CHOOSE n \in 0 .. 11 : In(n)
<1>0. DateAt(t) = [year |-> year, mon |-> mon, mday |-> DayOf(t) - MonthStart(year, mon) + 1,
                   hour |-> (t \div 3600) % 24, min |-> (t \div 60) % 60, sec |-> t % 60]
  BY Zenon DEF DateAt
<1>3. year \in Years /\ YearStart(year) <= day /\ day < YearStart(year + 1)
  BY <1>1, <1>2, YearOfDay DEF HasClock
<1> HIDE DEF year
<1>4. DateAt(t) = [year |-> year, mon |-> mon, mday |-> day - MonthStart(year, mon) + 1,
                   hour |-> h, min |-> i, sec |-> s]
  <2> HIDE DEF mon
  <2> QED BY <1>0, <1>2 DEF HasClock
<1>5. InMonth(day, y, m) BY <1>1 DEF InMonth, day
<1>6. \E n \in 0 .. 11 : In(n) BY <1>1, <1>2, <1>3, MonthOfDay DEF InMonth, HasClock
<1>7. mon \in 0 .. 11 /\ InMonth(day, year, mon) BY <1>2, <1>6 DEF InMonth, HasClock
<1> HIDE DEF mon
<1>8. ASSUME NEW w \in Years, NEW n \in 0 .. 11, NEW z \in Years, NEW p \in 0 .. 11,
             InMonth(day, w, n), InMonth(day, z, p), w < z \/ (w = z /\ n < p)
      PROVE  FALSE
  <2>1. MonthStart(w, n + 1) <= MonthStart(z, p) BY <1>8, MonthsInOrder
  <2>2. n + 1 \in 0 .. 12 /\ p \in 0 .. 12 OBVIOUS
  <2>3. MonthStart(w, n + 1) \in Nat /\ MonthStart(z, p) \in Nat BY <2>2, MonthStarts
  <2> QED BY <1>1, <1>8, <2>1, <2>3 DEF InMonth
<1>9. year = y
  <2>1. ~(year < y) /\ ~(y < year) BY <1>3, <1>5, <1>7, <1>8
  <2> QED BY <1>3, <2>1 DEF Years
<1>10. mon = m
  <2>1. ~(mon < m) /\ ~(m < mon) BY <1>3, <1>5, <1>7, <1>8, <1>9
  <2> QED BY <1>7, <2>1
<1> QED BY <1>1, <1>4, <1>9, <1>10 DEF day, t, Date

\* A date within its year counts from the start of its month.
LEMMA TimeOfFields ==
    ASSUME NEW y \in Years, NEW m \in 0 .. 11,
           NEW k \in Int, NEW h \in Int, NEW i \in Int, NEW s \in Int
    PROVE  TimeOf(Date(y, m, k, h, i, s)) =
             At(MonthStart(y, m) + k - 1, h, i, s)
<1>1. m \div 12 = 0 /\ m % 12 = m /\ y + 0 = y BY DEF Years
<1> QED BY <1>1 DEF TimeOf, At, Date

-----------------------------------------------------------------------------
(***************************************************************************)
(* The fields of a date, and what mktime makes of a change of one          *)
(***************************************************************************)
DateIs(day, y, m, k) ==
    /\ y \in Years /\ m \in 0 .. 11 /\ k \in 0 .. 30
    /\ day = MonthStart(y, m) + k /\ day < MonthStart(y, m + 1)

LEMMA DateOfDay ==
    ASSUME NEW day \in Nat
    PROVE  \E y, m, k : DateIs(day, y, m, k)
<1>1. PICK y \in Years : YearStart(y) <= day /\ day < YearStart(y + 1) BY YearOfDay
<1>2. PICK m \in 0 .. 11 : InMonth(day, y, m) BY <1>1, MonthOfDay
<1>3. m \in 0 .. 12 /\ m + 1 \in 0 .. 12 OBVIOUS
<1>4. /\ MonthStart(y, m) \in Nat /\ MonthStart(y, m + 1) \in Nat
      /\ MonthStart(y, m + 1) <= MonthStart(y, m) + 31
  BY <1>3, MonthStarts
<1>5. PICK k \in 0 .. 30 : day = MonthStart(y, m) + k
  <2>1. day - MonthStart(y, m) \in 0 .. 30 BY <1>2, <1>4 DEF InMonth
  <2>2. day = MonthStart(y, m) + (day - MonthStart(y, m)) BY <1>4
  <2> QED BY <2>1, <2>2
<1>6. day < MonthStart(y, m + 1) BY <1>2 DEF InMonth
<1> QED BY <1>5, <1>6 DEF DateIs

LEMMA DateFields ==
    ASSUME NEW day, NEW y, NEW m, NEW k, DateIs(day, y, m, k),
           NEW h, NEW i, NEW s, InClock(h, i, s)
    PROVE  DateAt(At(day, h, i, s)) = Date(y, m, k + 1, h, i, s)
<1>1. /\ k \in Nat /\ y \in Years /\ m \in 0 .. 11
      /\ h \in 0 .. 23 /\ i \in 0 .. 59 /\ s \in 0 .. 59
  BY DEF DateIs, InClock
<1>2. MonthStart(y, m) + k < MonthStart(y, m + 1) BY DEF DateIs
<1>3. DateAt(At(MonthStart(y, m) + k, h, i, s)) = Date(y, m, k + 1, h, i, s)
  BY <1>1, <1>2, DateOf, Zenon
<1> QED BY <1>3 DEF DateIs

\* The time of a date whose clock fields and day are changed
LEMMA TimeFrom ==
    ASSUME NEW day, NEW y, NEW m, NEW k, DateIs(day, y, m, k),
           NEW n \in Int, NEW h \in Int, NEW i \in Int, NEW s \in Int
    PROVE  TimeOf(Date(y, m, k + 1 + n, h, i, s)) = At(day + n, h, i, s)
<1>1. /\ y \in Years /\ m \in 0 .. 11 /\ m \in 0 .. 12 /\ k \in Nat /\ k + 1 + n \in Int
      /\ day = MonthStart(y, m) + k
  BY DEF DateIs
<1>2. MonthStart(y, m) \in Nat BY <1>1, MonthStarts
<1>3. MonthStart(y, m) + (k + 1 + n) - 1 = day + n BY <1>1, <1>2
<1>4. TimeOf(Date(y, m, k + 1 + n, h, i, s)) = At(MonthStart(y, m) + (k + 1 + n) - 1, h, i, s)
  BY <1>1, TimeOfFields
<1> QED BY <1>3, <1>4

LEMMA TimeOfDay ==
    ASSUME NEW day \in Nat, NEW h, NEW i, NEW s, InClock(h, i, s)
    PROVE  /\ TimeOf(DateAt(At(day, h, i, s))) = At(day, h, i, s)
           /\ DateAt(At(day, h, i, s)).hour = h
           /\ DateAt(At(day, h, i, s)).min = i
           /\ DateAt(At(day, h, i, s)).sec = s
<1>1. PICK y, m, k : DateIs(day, y, m, k) BY DateOfDay
<1>2. DateAt(At(day, h, i, s)) = Date(y, m, k + 1, h, i, s) BY <1>1, DateFields
<1>3. TimeOf(Date(y, m, k + 1 + 0, h, i, s)) = At(day + 0, h, i, s)
  <2>1. 0 \in Int /\ h \in Int /\ i \in Int /\ s \in Int BY DEF InClock
  <2> QED BY <1>1, <2>1, TimeFrom
<1>4. k + 1 + 0 = k + 1 /\ day + 0 = day BY <1>1 DEF DateIs
<1> QED BY <1>2, <1>3, <1>4 DEF Date

\* Changes of one field
LEMMA SetFields ==
    ASSUME NEW day \in Nat, NEW h, NEW i, NEW s, InClock(h, i, s), NEW v \in Nat
    PROVE  LET d == DateAt(At(day, h, i, s))
           IN  /\ set_field(d, "sec", v) = DateAt(At(day, h, i, v))
               /\ set_field(d, "min", v) = DateAt(At(day, h, v, s))
               /\ set_field(d, "hour", v) = DateAt(At(day, v, i, s))
               /\ add_to_field(d, "sec", v) = DateAt(At(day, h, i, s + v))
               /\ add_to_field(d, "min", v) = DateAt(At(day, h, i + v, s))
               /\ add_to_field(d, "hour", v) = DateAt(At(day, h + v, i, s))
               /\ add_to_field(d, "mday", v) = DateAt(At(day + v, h, i, s))
<1> DEFINE d == DateAt(At(day, h, i, s))
<1>1. PICK y, m, k : DateIs(day, y, m, k) BY DateOfDay
<1>2. d = Date(y, m, k + 1, h, i, s) BY <1>1, DateFields
<1> HIDE DEF d
<1>3. /\ [d EXCEPT !["sec"] = v] = Date(y, m, k + 1, h, i, v)
      /\ [d EXCEPT !["min"] = v] = Date(y, m, k + 1, h, v, s)
      /\ [d EXCEPT !["hour"] = v] = Date(y, m, k + 1, v, i, s)
  <2>1. [Date(y, m, k + 1, h, i, s) EXCEPT !["sec"] = v] = Date(y, m, k + 1, h, i, v) BY DEF Date
  <2>2. [Date(y, m, k + 1, h, i, s) EXCEPT !["min"] = v] = Date(y, m, k + 1, h, v, s) BY DEF Date
  <2>3. [Date(y, m, k + 1, h, i, s) EXCEPT !["hour"] = v] = Date(y, m, k + 1, v, i, s) BY DEF Date
  <2> QED BY <1>2, <2>1, <2>2, <2>3
<1>4. /\ [d EXCEPT !["sec"] = @ + v] = Date(y, m, k + 1, h, i, s + v)
      /\ [d EXCEPT !["min"] = @ + v] = Date(y, m, k + 1, h, i + v, s)
      /\ [d EXCEPT !["hour"] = @ + v] = Date(y, m, k + 1, h + v, i, s)
      /\ [d EXCEPT !["mday"] = @ + v] = Date(y, m, k + 1 + v, h, i, s)
  <2>1. [Date(y, m, k + 1, h, i, s) EXCEPT !["sec"] = @ + v] =
         Date(y, m, k + 1, h, i, s + v)
    BY DEF Date
  <2>2. [Date(y, m, k + 1, h, i, s) EXCEPT !["min"] = @ + v] =
         Date(y, m, k + 1, h, i + v, s)
    BY DEF Date
  <2>3. [Date(y, m, k + 1, h, i, s) EXCEPT !["hour"] = @ + v] =
         Date(y, m, k + 1, h + v, i, s)
    BY DEF Date
  <2>4. [Date(y, m, k + 1, h, i, s) EXCEPT !["mday"] = @ + v] =
         Date(y, m, k + 1 + v, h, i, s)
    BY DEF Date
  <2> QED BY <1>2, <2>1, <2>2, <2>3, <2>4
<1>5. /\ s + v \in Int /\ i + v \in Int /\ h + v \in Int
      /\ h \in Int /\ i \in Int /\ s \in Int /\ v \in Int /\ 0 \in Int
      /\ k + 1 + 0 = k + 1 /\ day + 0 = day
  BY <1>1 DEF DateIs, InClock
<1>6. ASSUME NEW b \in Int, NEW c \in Int, NEW e \in Int
      PROVE  TimeOf(Date(y, m, k + 1, b, c, e)) = At(day, b, c, e)
  <2>1. TimeOf(Date(y, m, k + 1 + 0, b, c, e)) = At(day + 0, b, c, e)
    BY <1>1, <1>5, TimeFrom
  <2> QED BY <1>5, <2>1
<1>7. TimeOf(Date(y, m, k + 1 + v, h, i, s)) = At(day + v, h, i, s)
  BY <1>1, <1>5, TimeFrom
<1>8. /\ set_field(d, "sec", v) = DateAt(At(day, h, i, v))
      /\ set_field(d, "min", v) = DateAt(At(day, h, v, s))
      /\ set_field(d, "hour", v) = DateAt(At(day, v, i, s))
  BY <1>3, <1>5, <1>6 DEF set_field, Normalised
<1>9. /\ add_to_field(d, "sec", v) = DateAt(At(day, h, i, s + v))
      /\ add_to_field(d, "min", v) = DateAt(At(day, h, i + v, s))
      /\ add_to_field(d, "hour", v) = DateAt(At(day, h + v, i, s))
      /\ add_to_field(d, "mday", v) = DateAt(At(day + v, h, i, s))
  BY <1>4, <1>5, <1>6, <1>7 DEF add_to_field, Normalised
<1> QED BY <1>8, <1>9 DEF d

\* What reset_all_fields makes of a date
Kept(F, f, v) == IF f \in F THEN 0 ELSE v

LEMMA ResetDate ==
    ASSUME NEW y, NEW m, NEW k, NEW h, NEW i, NEW s, NEW F, "year" \notin F
    PROVE  reset_all_fields(Date(y, m, k, h, i, s), F) =
             Normalised(Date(y, Kept(F, "mon", m), IF "mday" \in F THEN 1 ELSE k,
                             Kept(F, "hour", h), Kept(F, "min", i), Kept(F, "sec", s)))
<1> DEFINE d == Date(y, m, k, h, i, s)
           r == Date(y, Kept(F, "mon", m), IF "mday" \in F THEN 1 ELSE k,
                     Kept(F, "hour", h), Kept(F, "min", i), Kept(F, "sec", s))
           g == [f \in DOMAIN d |->
                   IF f \notin F THEN d[f] ELSE IF f = "mday" THEN 1 ELSE 0]
<1>1. DOMAIN d = {"year", "mon", "mday", "hour", "min", "sec"} BY DEF Date
<1>2. /\ d["year"] = y /\ d["mon"] = m /\ d["mday"] = k
      /\ d["hour"] = h /\ d["min"] = i /\ d["sec"] = s
  BY DEF Date
<1>3. DOMAIN r = {"year", "mon", "mday", "hour", "min", "sec"} BY DEF Date
<1>4. /\ r["year"] = y /\ r["mon"] = Kept(F, "mon", m)
      /\ r["mday"] = (IF "mday" \in F THEN 1 ELSE k)
      /\ r["hour"] = Kept(F, "hour", h) /\ r["min"] = Kept(F, "min", i)
      /\ r["sec"] = Kept(F, "sec", s)
  BY DEF Date
<1>5. r = [f \in DOMAIN r |-> r[f]] BY DEF Date
<1>6. reset_all_fields(d, F) = Normalised(g) BY Zenon DEF reset_all_fields
<1> HIDE DEF d, r
<1>7. ASSUME NEW f \in DOMAIN d PROVE g[f] = r[f]
  BY <1>1, <1>2, <1>4 DEF Kept
<1>8. g = r BY <1>1, <1>3, <1>5, <1>7
<1> QED BY <1>6, <1>8 DEF d, r

\* The fields of the clock that are reset are set to nought.
LEMMA ResetClock ==
    ASSUME NEW day \in Nat, NEW h, NEW i, NEW s, InClock(h, i, s),
           NEW F, "mday" \notin F, "mon" \notin F, "year" \notin F
    PROVE  reset_all_fields(DateAt(At(day, h, i, s)), F) =
             DateAt(At(day, Kept(F, "hour", h), Kept(F, "min", i), Kept(F, "sec", s)))
<1>1. PICK y, m, k : DateIs(day, y, m, k) BY DateOfDay
<1>2. DateAt(At(day, h, i, s)) = Date(y, m, k + 1, h, i, s) BY <1>1, DateFields
<1> DEFINE b == Kept(F, "hour", h)
           c == Kept(F, "min", i)
           e == Kept(F, "sec", s)
<1>3. b \in Int /\ c \in Int /\ e \in Int BY DEF Kept, InClock
<1>4. Kept(F, "mon", m) = m BY DEF Kept
<1> HIDE DEF b, c, e
<1>5. TimeOf(Date(y, m, k + 1 + 0, b, c, e)) = At(day + 0, b, c, e)
  <2>1. 0 \in Int OBVIOUS
  <2> QED BY <1>1, <1>3, <2>1, TimeFrom
<1>6. k + 1 + 0 = k + 1 /\ day + 0 = day BY <1>1 DEF DateIs
<1>7. reset_all_fields(Date(y, m, k + 1, h, i, s), F) = Normalised(Date(y, m, k + 1, b, c, e))
  BY <1>4, ResetDate DEF b, c, e
<1> QED BY <1>2, <1>5, <1>6, <1>7 DEF Normalised, b, c, e

-----------------------------------------------------------------------------
(***************************************************************************)
(* The least bit from one on, and what find_next makes of it               *)
(***************************************************************************)
LEMMA LeastNumber ==
    ASSUME NEW S, S \subseteq Nat, S # {}
    PROVE  \E m \in S : \A n \in S : m <= n
<1> DEFINE Ends == {0 .. n : n \in S}
           Within == StrictSubsetOrdering(Nat)
<1>1. Ends \subseteq FiniteSubsetsOf(Nat)
  <2>1. ASSUME NEW n \in S PROVE IsFiniteSet(0 .. n) /\ 0 .. n \in SUBSET Nat
    <3>1. n \in Int /\ 0 \in Int OBVIOUS
    <3> QED BY <3>1, FS_Interval
  <2> QED BY <2>1 DEF FiniteSubsetsOf
<1>2. Ends # {} OBVIOUS
<1>3. \E x \in Ends : \A y \in Ends : ~(<<y, x>> \in Within)
  BY <1>1, <1>2, FS_StrictSubsetOrderingWellFounded, WFMin
<1>4. PICK m \in S : \A n \in S : <<0 .. n, 0 .. m>> \notin Within BY <1>3
<1>5. ASSUME NEW n \in S, n < m PROVE FALSE
  <2>1. m \in 0 .. m /\ m \notin 0 .. n BY <1>5
  <2>2. 0 .. n # 0 .. m BY <2>1
  <2>3. 0 .. n \subseteq 0 .. m /\ 0 .. m \subseteq Nat BY <1>5
  <2>4. <<0 .. n, 0 .. m>> \in Within BY <2>2, <2>3, Zenon DEF StrictSubsetOrdering
  <2> QED BY <1>4, <2>4
<1>6. \A n \in S : m <= n BY <1>5
<1> QED BY <1>6

LEMMA NextSetBit ==
    ASSUME NEW S, S \subseteq Nat, NEW n \in Nat
    PROVE  /\ (\A j \in S : j < n) => next_set_bit(S, n) = Invalid
           /\ (\E j \in S : n <= j) =>
                /\ next_set_bit(S, n) \in S /\ n <= next_set_bit(S, n)
                /\ \A j \in S : n <= j => next_set_bit(S, n) <= j
<1> DEFINE R == {i \in S : i >= n}
<1>1. ASSUME \A j \in S : j < n PROVE next_set_bit(S, n) = Invalid
  <2>1. \A i \in S : i \in Nat OBVIOUS
  <2>2. \A i \in S : ~(i >= n) BY <1>1, <2>1
  <2>3. R = {} BY <2>2
  <2> QED BY <2>3 DEF next_set_bit, Lowest
<1>2. ASSUME \E j \in S : n <= j
      PROVE  next_set_bit(S, n) \in R /\ \A j \in R : next_set_bit(S, n) <= j
  <2>1. R \subseteq Nat /\ R # {} BY <1>2
  <2>2. \E x \in R : \A y \in R : x <= y BY <2>1, LeastNumber
  <2>3. next_set_bit(S, n) = CHOOSE x \in R : \A y \in R : x <= y
    BY <2>1, Zenon DEF next_set_bit, Lowest
  <2> HIDE DEF R
  <2> QED BY <2>2, <2>3
<1> QED BY <1>1, <1>2

\* Where the field fits, find_next of it leaves the date as it is.
LEMMA FieldStaysThere ==
    ASSUME NEW S, S \subseteq Nat, NEW d, NEW field, d[field] \in S, NEW next, NEW marked
    PROVE  MoveField(S, d, field, next, marked) = [date |-> d, same |-> TRUE]
<1>0. \A x \in S : x \in Nat OBVIOUS
<1>1. ASSUME NEW n \in S PROVE next_set_bit(S, n) = n
  <2>1. n \in Nat /\ n <= n BY <1>0
  <2>2. next_set_bit(S, n) \in S /\ n <= next_set_bit(S, n) /\ next_set_bit(S, n) <= n
    BY <2>1, NextSetBit
  <2>3. next_set_bit(S, n) \in Nat BY <1>0, <2>2
  <2> QED BY <2>1, <2>2, <2>3
<1>2. d[field] # Invalid BY <1>0 DEF Invalid
<1> QED BY <1>1, <1>2 DEF MoveField

\* Where it does not, the field goes up to its next bit, or around to its first with
\* the next field one up.
Up(S, n, v) == v \in S /\ n < v /\ \A x \in S : n <= x => v <= x
Around(S, n, v) == v \in S /\ \A x \in S : x < n /\ v <= x
OneUp(d, field, next) == reset_all_fields(add_to_field(d, next, 1), {field})

MovedOn(moved, S, d, field, next, marked) ==
    /\ moved.same = FALSE
    /\ \/ \E v : /\ Up(S, d[field], v)
                /\ moved.date = reset_all_fields(set_field(d, field, v), marked)
       \/ \E v : /\ Around(S, d[field], v)
                /\ moved.date =
                     reset_all_fields(set_field(OneUp(d, field, next), field, v), marked)

LEMMA FieldMovesOn ==
    ASSUME NEW S, S \subseteq Nat, S # {}, NEW d, NEW field, d[field] \in Nat,
           d[field] \notin S, NEW next, NEW marked
    PROVE  MovedOn(MoveField(S, d, field, next, marked), S, d, field, next, marked)
<1> DEFINE moved == MoveField(S, d, field, next, marked)
           around == OneUp(d, field, next)
           n == d[field]
           found == next_set_bit(S, n)
<1>1. \A x \in S : x \in Nat /\ x # n /\ x # Invalid BY DEF Invalid
<1>2. CASE \E x \in S : n <= x
  <2>1. found \in S /\ n <= found /\ \A x \in S : n <= x => found <= x
    BY <1>2, NextSetBit
  <2> HIDE DEF found, n
  <2>2. found # Invalid /\ found # n /\ n < found
    <3>1. found \in Nat /\ found # n /\ found # Invalid /\ n \in Nat BY <1>1, <2>1 DEF n
    <3> QED BY <2>1, <3>1
  <2>3. moved = [date |-> reset_all_fields(set_field(d, field, found), marked), same |-> FALSE]
    BY <2>2 DEF MoveField, found, n
  <2> HIDE DEF moved
  <2>4. Up(S, n, found) BY <2>1, <2>2 DEF Up
  <2> QED BY <2>3, <2>4 DEF moved, n, MovedOn
<1>3. CASE ~ \E x \in S : n <= x
  <2>1. \A x \in S : x < n BY <1>1, <1>3
  <2>2. found = Invalid BY <2>1, NextSetBit
  <2> DEFINE v == next_set_bit(S, 0)
  <2>3. v \in S /\ \A x \in S : v <= x
    <3>1. 0 \in Nat /\ \A x \in S : 0 <= x BY <1>1
    <3>2. \E x \in S : 0 <= x BY <3>1
    <3> QED BY <3>1, <3>2, NextSetBit
  <2>4. v # n BY <1>1, <2>3
  <2> HIDE DEF found, v
  <2>5. moved = [date |-> reset_all_fields(set_field(around, field, v), marked), same |-> FALSE]
    BY <2>2, <2>4 DEF MoveField, found, v, OneUp
  <2> HIDE DEF moved
  <2>6. Around(S, n, v) BY <2>1, <2>3 DEF Around
  <2> QED BY <2>5, <2>6 DEF moved, MovedOn
<1> QED BY <1>2, <1>3

-----------------------------------------------------------------------------
(***************************************************************************)
(* A field that moves passes no time at which it would fit.                *)
(***************************************************************************)
IsCron(cex) ==
    /\ cex.sec \subseteq 0 .. 59 /\ cex.sec # {} /\ cex.min \subseteq 0 .. 59 /\ cex.min # {}
    /\ cex.hour \subseteq 0 .. 23 /\ cex.hour # {}
    /\ cex.mday \subseteq 0 .. 30 /\ cex.mday # {}
    /\ cex.mon \subseteq 0 .. 11 /\ cex.mon # {} /\ cex.wday \subseteq 0 .. 6 /\ cex.wday # {}

Fits(cex, field, t) ==
    IF field = "mday" THEN DayFits(cex, t) ELSE DateAt(t)[field] \in cex[field]

\* No time from t on, and before u, has the field as it should be.
NoneFits(cex, field, t, u) == \A x \in Nat : t <= x /\ x < u => ~Fits(cex, field, x)

\* A field moves to the start of another minute, but for a second that is not reset.
MovesTo(cex, field, t, marked, moved) ==
    /\ moved.same = FALSE
    /\ \E start \in Nat :
          /\ t < start /\ start % 60 = 0 /\ NoneFits(cex, field, t, start)
          /\ moved.date = DateAt(start + Kept(marked, "sec", t % 60))

LEMMA Digits24 ==
    ASSUME NEW a \in Nat, NEW b \in 0 .. 23, NEW c \in Nat, NEW e \in 0 .. 23, NEW v \in 0 .. 23,
           24 * a + b <= 24 * c + e
    PROVE  /\ 24 * c + e < 24 * a + v => c = a /\ b <= e /\ e < v
           /\ 24 * c + e < 24 * (a + 1) + v => (c = a /\ b <= e) \/ (c = a + 1 /\ e < v)
OBVIOUS

Hours(day, h) == 24 * day + h
Minutes(day, h, i) == 60 * Hours(day, h) + i

LEMMA AtMinutes ==
    ASSUME NEW day \in Nat, NEW h \in Nat, NEW i \in Nat, NEW s \in Nat
    PROVE  /\ At(day, h, i, s) = 60 * Minutes(day, h, i) + s
           /\ Minutes(day, h, i) \in Nat /\ Hours(day, h) \in Nat
           /\ At(day, h, i, s) \in Nat
           /\ Minutes(day, h, i + 1) = Minutes(day, h, i) + 1
           /\ Hours(day, h + 1) = Hours(day, h) + 1
           /\ Minutes(day, h + 1, i) = 60 * (Hours(day, h) + 1) + i
BY DEF At, Minutes, Hours

\* A minute and an hour more are on the clock again.
LEMMA CarryMinute ==
    ASSUME NEW day \in Nat, NEW h \in 0 .. 23, NEW i \in 0 .. 59
    PROVE  \E e \in Nat, b \in 0 .. 23, c \in 0 .. 59 :
              \A s \in Nat : At(day, h, i + 1, s) = At(e, b, c, s)
<1>1. CASE i < 59
  <2>1. i + 1 \in 0 .. 59 BY <1>1
  <2> QED BY <2>1
<1>2. CASE i = 59 /\ h < 23
  <2>1. h + 1 \in 0 .. 23 /\ 0 \in 0 .. 59 BY <1>2
  <2>2. \A s \in Nat : At(day, h, i + 1, s) = At(day, h + 1, 0, s) BY <1>2 DEF At
  <2> QED BY <2>1, <2>2
<1>3. CASE i = 59 /\ h = 23
  <2>1. day + 1 \in Nat /\ 0 \in 0 .. 23 /\ 0 \in 0 .. 59 OBVIOUS
  <2>2. \A s \in Nat : At(day, h, i + 1, s) = At(day + 1, 0, 0, s) BY <1>3 DEF At
  <2> QED BY <2>1, <2>2
<1> QED BY <1>1, <1>2, <1>3

LEMMA CarryHour ==
    ASSUME NEW day \in Nat, NEW h \in 0 .. 23
    PROVE  \E e \in Nat, b \in 0 .. 23 :
              \A i \in Nat, s \in Nat : At(day, h + 1, i, s) = At(e, b, i, s)
<1>1. CASE h < 23
  <2>1. h + 1 \in 0 .. 23 BY <1>1
  <2> QED BY <2>1
<1>2. CASE h = 23
  <2>1. day + 1 \in Nat /\ 0 \in 0 .. 23 OBVIOUS
  <2>2. \A i \in Nat, s \in Nat : At(day, h + 1, i, s) = At(day + 1, 0, i, s) BY <1>2 DEF At
  <2> QED BY <2>1, <2>2
<1> QED BY <1>1, <1>2

\* What the clock shows at a time decides whether its fields fit.
LEMMA FitsClock ==
    ASSUME NEW cex, NEW day \in Nat, NEW h, NEW i, NEW s, InClock(h, i, s)
    PROVE  /\ Fits(cex, "sec", At(day, h, i, s)) <=> s \in cex.sec
           /\ Fits(cex, "min", At(day, h, i, s)) <=> i \in cex.min
           /\ Fits(cex, "hour", At(day, h, i, s)) <=> h \in cex.hour
<1> DEFINE d == DateAt(At(day, h, i, s))
<1>1. d.hour = h /\ d.min = i /\ d.sec = s BY TimeOfDay
<1>2. d["hour"] = h /\ d["min"] = i /\ d["sec"] = s BY <1>1
<1> HIDE DEF d
<1> QED BY <1>2 DEF Fits, d

\* A second goes up within its minute, or around to the first second that fits.
LEMMA SecondMoves ==
    ASSUME NEW cex, IsCron(cex), NEW day \in Nat, NEW h, NEW i, NEW s, InClock(h, i, s),
           s \notin cex.sec
    PROVE  LET t == At(day, h, i, s)
               moved == MoveField(cex.sec, DateAt(t), "sec", "min", {})
           IN  /\ moved.same = FALSE
               /\ \E v \in cex.sec :
                    \/ /\ s < v /\ \A x \in cex.sec : s <= x => v <= x
                       /\ moved.date = DateAt(At(day, h, i, v))
                       /\ NoneFits(cex, "sec", t, At(day, h, i, v))
                    \/ /\ \A x \in cex.sec : v <= x
                       /\ moved.date = DateAt(At(day, h, i + 1, v))
                       /\ NoneFits(cex, "sec", t, At(day, h, i + 1, v))
<1> DEFINE t == At(day, h, i, s)
           d == DateAt(t)
           moved == MoveField(cex.sec, d, "sec", "min", {})
           around == OneUp(d, "sec", "min")
<1>0. /\ cex.sec \subseteq Nat /\ cex.sec # {} /\ s \in Nat /\ \A x \in cex.sec : x \in 0 .. 59
      /\ h \in 0 .. 23 /\ i \in 0 .. 59 /\ s \in 0 .. 59
  BY DEF IsCron, InClock
<1>8. h \in Nat /\ i \in Nat /\ i + 1 \in Nat BY <1>0
<1>1. d["sec"] = s
  <2>1. d.sec = s BY TimeOfDay
  <2> QED BY <2>1
<1>2. /\ moved.same = FALSE
      /\ \/ \E v : /\ Up(cex.sec, s, v)
                  /\ moved.date = reset_all_fields(set_field(d, "sec", v), {})
         \/ \E v : /\ Around(cex.sec, s, v)
                  /\ moved.date = reset_all_fields(set_field(around, "sec", v), {})
  <2> HIDE DEF d
  <2>1. d["sec"] \in Nat /\ d["sec"] \notin cex.sec BY <1>0, <1>1
  <2>2. MovedOn(moved, cex.sec, d, "sec", "min", {}) BY <1>0, <2>1, FieldMovesOn
  <2> QED BY <1>1, <2>2 DEF MovedOn
<1>3. ASSUME NEW day2 \in Nat, NEW h2, NEW i2, NEW v, InClock(h2, i2, v)
      PROVE  reset_all_fields(DateAt(At(day2, h2, i2, v)), {}) = DateAt(At(day2, h2, i2, v))
  BY <1>3, ResetClock DEF Kept
<1>4. ASSUME NEW x \in Nat, t <= x
      PROVE  \E m \in Nat, e \in 0 .. 59 :
               /\ x = 60 * m + e /\ 60 * Minutes(day, h, i) + s <= 60 * m + e
               /\ Fits(cex, "sec", x) <=> e \in cex.sec
  <2>1. PICK a \in Nat, b \in 0 .. 23, c \in 0 .. 59, e \in 0 .. 59 : x = At(a, b, c, e)
    BY ClockOf
  <2>2. InClock(b, c, e) BY DEF InClock
  <2>3. Fits(cex, "sec", x) <=> e \in cex.sec BY <2>1, <2>2, FitsClock
  <2>4. b \in Nat /\ c \in Nat /\ e \in Nat OBVIOUS
  <2>5. x = 60 * Minutes(a, b, c) + e /\ Minutes(a, b, c) \in Nat BY <2>1, <2>4, AtMinutes
  <2>6. t = 60 * Minutes(day, h, i) + s BY <1>0, <1>8, AtMinutes
  <2> QED BY <1>4, <2>3, <2>5, <2>6
<1>5. Minutes(day, h, i) \in Nat BY <1>0, <1>8, AtMinutes
<1>6. ASSUME NEW v, Up(cex.sec, s, v),
             moved.date = reset_all_fields(set_field(d, "sec", v), {})
      PROVE  /\ s < v /\ \A x \in cex.sec : s <= x => v <= x
             /\ v \in cex.sec /\ moved.date = DateAt(At(day, h, i, v))
             /\ NoneFits(cex, "sec", t, At(day, h, i, v))
  <2>1. v \in cex.sec /\ s < v /\ \A x \in cex.sec : s <= x => v <= x BY <1>6 DEF Up
  <2>2. v \in Nat /\ v \in 0 .. 59 /\ InClock(h, i, v) BY <1>0, <2>1 DEF InClock
  <2>3. set_field(d, "sec", v) = DateAt(At(day, h, i, v)) BY <2>2, SetFields
  <2>4. moved.date = DateAt(At(day, h, i, v)) BY <1>3, <1>6, <2>2, <2>3
  <2>5. NoneFits(cex, "sec", t, At(day, h, i, v))
    <3> SUFFICES ASSUME NEW x \in Nat, t <= x, x < At(day, h, i, v)
                 PROVE  ~Fits(cex, "sec", x)
      BY DEF NoneFits
    <3>1. PICK m \in Nat, e \in 0 .. 59 :
            /\ x = 60 * m + e /\ 60 * Minutes(day, h, i) + s <= 60 * m + e
            /\ Fits(cex, "sec", x) <=> e \in cex.sec
      BY <1>4
    <3>2. At(day, h, i, v) = 60 * Minutes(day, h, i) + v BY <1>8, <2>2, AtMinutes
    <3>3. 60 * m + e < 60 * Minutes(day, h, i) + v BY <3>1, <3>2
    <3>4. s <= e /\ e < v
      <4> DEFINE M == Minutes(day, h, i)
      <4>1. /\ M \in Nat /\ s \in 0 .. 59 /\ v \in 0 .. 59
            /\ 60 * M + s <= 60 * m + e /\ 60 * m + e < 60 * M + v
        BY <1>0, <1>5, <2>2, <3>1, <3>3
      <4> HIDE DEF M
      <4>2. m = M BY <4>1
      <4> QED BY <4>1, <4>2
    <3> QED BY <2>1, <2>2, <3>1, <3>4
  <2> QED BY <2>1, <2>4, <2>5
<1>7. ASSUME NEW v, Around(cex.sec, s, v),
             moved.date = reset_all_fields(set_field(around, "sec", v), {})
      PROVE  /\ \A x \in cex.sec : v <= x
             /\ v \in cex.sec /\ moved.date = DateAt(At(day, h, i + 1, v))
             /\ NoneFits(cex, "sec", t, At(day, h, i + 1, v))
  <2>1. v \in cex.sec /\ \A x \in cex.sec : x < s /\ v <= x BY <1>7 DEF Around
  <2>2. v \in Nat /\ v \in 0 .. 59 BY <1>0, <2>1
  <2>3. PICK a \in Nat, b \in 0 .. 23, c \in 0 .. 59 :
          \A e \in Nat : At(day, h, i + 1, e) = At(a, b, c, e)
    BY <1>0, CarryMinute
  <2>4. InClock(b, c, s) /\ InClock(b, c, 0) /\ InClock(b, c, v) BY <1>0, <2>2 DEF InClock
  <2>5. add_to_field(d, "min", 1) = DateAt(At(a, b, c, s))
    <3>1. 1 \in Nat OBVIOUS
    <3>2. add_to_field(d, "min", 1) = DateAt(At(day, h, i + 1, s)) BY <3>1, SetFields
    <3> QED BY <1>0, <2>3, <3>2
  <2>6. around = DateAt(At(a, b, c, 0)) BY <2>4, <2>5, ResetClock DEF Kept, OneUp
  <2> HIDE DEF around
  <2>7. set_field(around, "sec", v) = DateAt(At(a, b, c, v)) BY <2>2, <2>4, <2>6, SetFields
  <2>8. moved.date = DateAt(At(day, h, i + 1, v)) BY <1>3, <1>7, <2>2, <2>3, <2>4, <2>7
  <2>9. NoneFits(cex, "sec", t, At(day, h, i + 1, v))
    <3> SUFFICES ASSUME NEW x \in Nat, t <= x, x < At(day, h, i + 1, v)
                 PROVE  ~Fits(cex, "sec", x)
      BY DEF NoneFits
    <3>1. PICK m \in Nat, e \in 0 .. 59 :
            /\ x = 60 * m + e /\ 60 * Minutes(day, h, i) + s <= 60 * m + e
            /\ Fits(cex, "sec", x) <=> e \in cex.sec
      BY <1>4
    <3>2. At(day, h, i + 1, v) = 60 * (Minutes(day, h, i) + 1) + v BY <1>8, <2>2, AtMinutes
    <3>3. 60 * m + e < 60 * (Minutes(day, h, i) + 1) + v BY <3>1, <3>2
    <3>4. s <= e \/ e < v
      <4> DEFINE M == Minutes(day, h, i)
      <4>1. /\ M \in Nat /\ s \in 0 .. 59 /\ v \in 0 .. 59
            /\ 60 * M + s <= 60 * m + e /\ 60 * m + e < 60 * (M + 1) + v
        BY <1>0, <1>5, <2>2, <3>1, <3>3
      <4> HIDE DEF M
      <4>2. m = M \/ m = M + 1 BY <4>1
      <4> QED BY <4>1, <4>2
    <3> QED BY <1>0, <2>1, <2>2, <3>1, <3>4
  <2> QED BY <2>1, <2>8, <2>9
<1> HIDE DEF moved, t, d, around
<1> QED BY <1>2, <1>6, <1>7 DEF moved, t, d

\* A minute goes up within its hour, or around to the first of the next hour.
LEMMA MinuteMoves ==
    ASSUME NEW cex, IsCron(cex), NEW day \in Nat, NEW h, NEW i, NEW s, InClock(h, i, s),
           i \notin cex.min, NEW marked, marked \subseteq {"sec"}
    PROVE  MovesTo(cex, "min", At(day, h, i, s), marked,
                   MoveField(cex.min, DateAt(At(day, h, i, s)), "min", "hour", marked))
<1> DEFINE t == At(day, h, i, s)
           d == DateAt(t)
           moved == MoveField(cex.min, d, "min", "hour", marked)
           around == OneUp(d, "min", "hour")
           rest == Kept(marked, "sec", s)
<1>0. /\ cex.min \subseteq Nat /\ cex.min # {} /\ \A x \in cex.min : x \in 0 .. 59
      /\ h \in 0 .. 23 /\ i \in 0 .. 59 /\ s \in 0 .. 59 /\ rest \in 0 .. 59
  BY DEF IsCron, InClock, Kept
<1>1. h \in Nat /\ i \in Nat /\ s \in Nat /\ rest \in Nat /\ h + 1 \in Nat BY <1>0
<1>2. d["min"] = i
  <2>1. d.min = i BY TimeOfDay
  <2> QED BY <2>1
<1>3. /\ moved.same = FALSE
      /\ \/ \E v : /\ Up(cex.min, i, v)
                  /\ moved.date = reset_all_fields(set_field(d, "min", v), marked)
         \/ \E v : /\ Around(cex.min, i, v)
                  /\ moved.date = reset_all_fields(set_field(around, "min", v), marked)
  <2> HIDE DEF d
  <2>1. d["min"] \in Nat /\ d["min"] \notin cex.min BY <1>1, <1>2
  <2>2. MovedOn(moved, cex.min, d, "min", "hour", marked) BY <1>0, <2>1, FieldMovesOn
  <2> QED BY <1>2, <2>2 DEF MovedOn
<1>4. t % 60 = s
  <2>1. HasClock(t, day, h, i, s) BY <1>0, ClockParts
  <2> QED BY <2>1 DEF HasClock
<1>5. ASSUME NEW a \in Nat, NEW b, NEW v, InClock(b, v, s)
      PROVE  reset_all_fields(DateAt(At(a, b, v, s)), marked) = DateAt(At(a, b, v, 0) + rest)
  <2>1. reset_all_fields(DateAt(At(a, b, v, s)), marked) =
          DateAt(At(a, Kept(marked, "hour", b), Kept(marked, "min", v), rest))
    BY <1>5, ResetClock
  <2>2. Kept(marked, "hour", b) = b /\ Kept(marked, "min", v) = v BY DEF Kept
  <2>3. b \in Nat /\ v \in Nat BY <1>5 DEF InClock
  <2>4. At(a, b, v, rest) = At(a, b, v, 0) + rest BY <1>1, <2>3 DEF At
  <2> QED BY <2>1, <2>2, <2>4
<1>7. Hours(day, h) \in Nat BY <1>1, AtMinutes
<1>6. ASSUME NEW x \in Nat, t <= x
      PROVE  \E m \in Nat, c \in 0 .. 59, e \in 0 .. 59 :
               /\ x = 60 * (60 * m + c) + e /\ 60 * Hours(day, h) + i <= 60 * m + c
               /\ Fits(cex, "min", x) <=> c \in cex.min
  <2>1. PICK a \in Nat, b \in 0 .. 23, c \in 0 .. 59, e \in 0 .. 59 : x = At(a, b, c, e)
    BY ClockOf
  <2>2. InClock(b, c, e) BY DEF InClock
  <2>3. Fits(cex, "min", x) <=> c \in cex.min BY <2>1, <2>2, FitsClock
  <2>4. b \in Nat /\ c \in Nat /\ e \in Nat OBVIOUS
  <2>5. x = 60 * Minutes(a, b, c) + e /\ Hours(a, b) \in Nat BY <2>1, <2>4, AtMinutes
  <2>6. t = 60 * Minutes(day, h, i) + s BY <1>1 DEF At, Minutes, Hours
  <2>7. 60 * Hours(day, h) + i <= 60 * Hours(a, b) + c
    BY <1>0, <1>6, <1>7, <2>4, <2>5, <2>6 DEF Minutes
  <2>8. x = 60 * (60 * Hours(a, b) + c) + e BY <2>5 DEF Minutes
  <2> QED BY <2>3, <2>5, <2>7, <2>8
<1>8. ASSUME NEW v, Up(cex.min, i, v),
             moved.date = reset_all_fields(set_field(d, "min", v), marked)
      PROVE  \E start \in Nat : /\ t < start /\ start % 60 = 0
                               /\ NoneFits(cex, "min", t, start)
                               /\ moved.date = DateAt(start + rest)
  <2> DEFINE start == At(day, h, v, 0)
  <2>1. v \in cex.min /\ i < v /\ \A x \in cex.min : i <= x => v <= x BY <1>8 DEF Up
  <2>2. v \in Nat /\ v \in 0 .. 59 /\ InClock(h, v, s) BY <1>0, <2>1 DEF InClock
  <2>3. set_field(d, "min", v) = DateAt(At(day, h, v, s)) BY <2>2, SetFields
  <2>4. moved.date = DateAt(start + rest) BY <1>5, <1>8, <2>2, <2>3
  <2>5. start = 60 * (60 * Hours(day, h) + v) BY <1>1, <2>2 DEF At, Hours
  <2>6. t = 60 * (60 * Hours(day, h) + i) + s BY <1>1 DEF At, Hours
  <2>7. t < start /\ start \in Nat /\ start % 60 = 0
    BY <1>0, <1>7, <2>1, <2>2, <2>5, <2>6
  <2>8. NoneFits(cex, "min", t, start)
    <3> SUFFICES ASSUME NEW x \in Nat, t <= x, x < start PROVE ~Fits(cex, "min", x)
      BY DEF NoneFits
    <3>1. PICK m \in Nat, c \in 0 .. 59, e \in 0 .. 59 :
            /\ x = 60 * (60 * m + c) + e /\ 60 * Hours(day, h) + i <= 60 * m + c
            /\ Fits(cex, "min", x) <=> c \in cex.min
      BY <1>6
    <3> HIDE DEF start
    <3>2. 60 * m + c < 60 * Hours(day, h) + v BY <1>7, <2>2, <2>5, <3>1
    <3>3. i <= c /\ c < v
      <4> DEFINE H == Hours(day, h)
      <4>1. /\ H \in Nat /\ i \in 0 .. 59 /\ v \in 0 .. 59
            /\ 60 * H + i <= 60 * m + c /\ 60 * m + c < 60 * H + v
        BY <1>0, <1>7, <2>2, <3>1, <3>2
      <4> HIDE DEF H
      <4>2. m = H BY <4>1
      <4> QED BY <4>1, <4>2
    <3> QED BY <2>1, <2>2, <3>1, <3>3
  <2> QED BY <2>4, <2>7, <2>8
<1>9. ASSUME NEW v, Around(cex.min, i, v),
             moved.date = reset_all_fields(set_field(around, "min", v), marked)
      PROVE  \E start \in Nat : /\ t < start /\ start % 60 = 0
                               /\ NoneFits(cex, "min", t, start)
                               /\ moved.date = DateAt(start + rest)
  <2> DEFINE start == At(day, h + 1, v, 0)
  <2>1. v \in cex.min /\ \A x \in cex.min : x < i /\ v <= x BY <1>9 DEF Around
  <2>2. v \in Nat /\ v \in 0 .. 59 BY <1>0, <2>1
  <2>3. PICK a \in Nat, b \in 0 .. 23 :
          \A c \in Nat, e \in Nat : At(day, h + 1, c, e) = At(a, b, c, e)
    BY <1>0, CarryHour
  <2>4. InClock(b, i, s) /\ InClock(b, 0, s) /\ InClock(b, v, s) BY <1>0, <2>2 DEF InClock
  <2>5. add_to_field(d, "hour", 1) = DateAt(At(a, b, i, s))
    <3>1. 1 \in Nat OBVIOUS
    <3>2. add_to_field(d, "hour", 1) = DateAt(At(day, h + 1, i, s)) BY <3>1, SetFields
    <3> QED BY <1>1, <2>3, <3>2
  <2>6. around = DateAt(At(a, b, 0, s)) BY <2>4, <2>5, ResetClock DEF Kept, OneUp
  <2> HIDE DEF around
  <2>7. set_field(around, "min", v) = DateAt(At(a, b, v, s)) BY <2>2, <2>4, <2>6, SetFields
  <2>8. At(a, b, v, 0) = start BY <2>2, <2>3
  <2>9. moved.date = DateAt(start + rest) BY <1>5, <1>9, <2>4, <2>7, <2>8
  <2>10. start = 60 * (60 * (Hours(day, h) + 1) + v) BY <1>1, <2>2 DEF At, Hours
  <2>11. t = 60 * (60 * Hours(day, h) + i) + s BY <1>1 DEF At, Hours
  <2>12. t < start /\ start \in Nat /\ start % 60 = 0
    BY <1>0, <1>7, <2>2, <2>10, <2>11
  <2>13. NoneFits(cex, "min", t, start)
    <3> SUFFICES ASSUME NEW x \in Nat, t <= x, x < start PROVE ~Fits(cex, "min", x)
      BY DEF NoneFits
    <3>1. PICK m \in Nat, c \in 0 .. 59, e \in 0 .. 59 :
            /\ x = 60 * (60 * m + c) + e /\ 60 * Hours(day, h) + i <= 60 * m + c
            /\ Fits(cex, "min", x) <=> c \in cex.min
      BY <1>6
    <3> HIDE DEF start
    <3>2. 60 * m + c < 60 * (Hours(day, h) + 1) + v BY <1>7, <2>2, <2>10, <3>1
    <3>3. i <= c \/ c < v
      <4> DEFINE H == Hours(day, h)
      <4>1. /\ H \in Nat /\ i \in 0 .. 59 /\ v \in 0 .. 59
            /\ 60 * H + i <= 60 * m + c /\ 60 * m + c < 60 * (H + 1) + v
        BY <1>0, <1>7, <2>2, <3>1, <3>2
      <4> HIDE DEF H
      <4>2. m = H \/ m = H + 1 BY <4>1
      <4> QED BY <4>1, <4>2
    <3> QED BY <1>0, <2>1, <2>2, <3>1, <3>3
  <2> QED BY <2>9, <2>12, <2>13
<1> HIDE DEF moved, t, d, around
<1> QED BY <1>3, <1>4, <1>8, <1>9 DEF moved, t, d, MovesTo

\* An hour goes up within its day, or around to the first of the next day.
LEMMA HourMoves ==
    ASSUME NEW cex, IsCron(cex), NEW day \in Nat, NEW h, NEW i, NEW s, InClock(h, i, s),
           h \notin cex.hour, NEW marked, "min" \in marked, marked \subseteq {"sec", "min"}
    PROVE  MovesTo(cex, "hour", At(day, h, i, s), marked,
                   MoveField(cex.hour, DateAt(At(day, h, i, s)), "hour", "mday", marked))
<1> DEFINE t == At(day, h, i, s)
           d == DateAt(t)
           moved == MoveField(cex.hour, d, "hour", "mday", marked)
           around == OneUp(d, "hour", "mday")
           rest == Kept(marked, "sec", s)
<1>0. /\ cex.hour \subseteq Nat /\ cex.hour # {} /\ \A x \in cex.hour : x \in 0 .. 23
      /\ h \in 0 .. 23 /\ i \in 0 .. 59 /\ s \in 0 .. 59 /\ rest \in 0 .. 59
  BY DEF IsCron, InClock, Kept
<1>1. h \in Nat /\ i \in Nat /\ s \in Nat /\ rest \in Nat /\ day + 1 \in Nat BY <1>0
<1>2. d["hour"] = h
  <2>1. d.hour = h BY TimeOfDay
  <2> QED BY <2>1
<1>3. /\ moved.same = FALSE
      /\ \/ \E v : /\ Up(cex.hour, h, v)
                  /\ moved.date = reset_all_fields(set_field(d, "hour", v), marked)
         \/ \E v : /\ Around(cex.hour, h, v)
                  /\ moved.date = reset_all_fields(set_field(around, "hour", v), marked)
  <2> HIDE DEF d
  <2>1. d["hour"] \in Nat /\ d["hour"] \notin cex.hour BY <1>1, <1>2
  <2>2. MovedOn(moved, cex.hour, d, "hour", "mday", marked) BY <1>0, <2>1, FieldMovesOn
  <2> QED BY <1>2, <2>2 DEF MovedOn
<1>4. t % 60 = s
  <2>1. HasClock(t, day, h, i, s) BY <1>0, ClockParts
  <2> QED BY <2>1 DEF HasClock
<1>5. ASSUME NEW a \in Nat, NEW v, InClock(v, i, s)
      PROVE  reset_all_fields(DateAt(At(a, v, i, s)), marked) = DateAt(At(a, v, 0, 0) + rest)
  <2>1. reset_all_fields(DateAt(At(a, v, i, s)), marked) =
          DateAt(At(a, Kept(marked, "hour", v), Kept(marked, "min", i), rest))
    BY <1>5, ResetClock
  <2>2. Kept(marked, "hour", v) = v /\ Kept(marked, "min", i) = 0 BY DEF Kept
  <2>3. v \in Nat BY <1>5 DEF InClock
  <2>4. At(a, v, 0, rest) = At(a, v, 0, 0) + rest BY <1>1, <2>3 DEF At
  <2> QED BY <2>1, <2>2, <2>4
<1>6. Hours(day, h) \in Nat /\ t = 60 * (60 * Hours(day, h) + i) + s
  BY <1>1 DEF At, Hours
<1>7. ASSUME NEW x \in Nat, t <= x
      PROVE  \E a \in Nat, b \in 0 .. 23, m \in 0 .. 59, e \in 0 .. 59 :
               /\ x = 60 * (60 * Hours(a, b) + m) + e /\ Hours(day, h) <= Hours(a, b)
               /\ Hours(a, b) \in Nat
               /\ Fits(cex, "hour", x) <=> b \in cex.hour
  <2>1. PICK a \in Nat, b \in 0 .. 23, m \in 0 .. 59, e \in 0 .. 59 : x = At(a, b, m, e)
    BY ClockOf
  <2>2. InClock(b, m, e) BY DEF InClock
  <2>3. Fits(cex, "hour", x) <=> b \in cex.hour BY <2>1, <2>2, FitsClock
  <2>4. x = 60 * (60 * Hours(a, b) + m) + e /\ Hours(a, b) \in Nat BY <2>1 DEF At, Hours
  <2>5. Hours(day, h) <= Hours(a, b) BY <1>0, <1>6, <1>7, <2>4
  <2> QED BY <2>3, <2>4, <2>5
<1>8. ASSUME NEW v, Up(cex.hour, h, v),
             moved.date = reset_all_fields(set_field(d, "hour", v), marked)
      PROVE  \E start \in Nat : /\ t < start /\ start % 60 = 0
                               /\ NoneFits(cex, "hour", t, start)
                               /\ moved.date = DateAt(start + rest)
  <2> DEFINE start == At(day, v, 0, 0)
  <2>1. v \in cex.hour /\ h < v /\ \A x \in cex.hour : h <= x => v <= x BY <1>8 DEF Up
  <2>2. v \in Nat /\ v \in 0 .. 23 /\ InClock(v, i, s) BY <1>0, <2>1 DEF InClock
  <2>3. set_field(d, "hour", v) = DateAt(At(day, v, i, s)) BY <2>2, SetFields
  <2>4. moved.date = DateAt(start + rest) BY <1>5, <1>8, <2>2, <2>3
  <2>5. start = 60 * (60 * Hours(day, v)) /\ Hours(day, v) = 24 * day + v
    BY <2>2 DEF At, Hours
  <2>6. t < start /\ start \in Nat /\ start % 60 = 0
    <3>1. Hours(day, h) + 1 <= Hours(day, v) BY <1>1, <2>1, <2>2 DEF Hours
    <3>2. Hours(day, v) \in Nat BY <2>2, <2>5
    <3> HIDE DEF start, t
    <3> QED BY <1>0, <1>6, <2>5, <3>1, <3>2
  <2>7. NoneFits(cex, "hour", t, start)
    <3> SUFFICES ASSUME NEW x \in Nat, t <= x, x < start PROVE ~Fits(cex, "hour", x)
      BY DEF NoneFits
    <3>1. PICK a \in Nat, b \in 0 .. 23, m \in 0 .. 59, e \in 0 .. 59 :
            /\ x = 60 * (60 * Hours(a, b) + m) + e /\ Hours(day, h) <= Hours(a, b)
            /\ Hours(a, b) \in Nat
            /\ Fits(cex, "hour", x) <=> b \in cex.hour
      BY <1>7
    <3> HIDE DEF start
    <3>2. Hours(a, b) < Hours(day, v) BY <2>2, <2>5, <3>1
    <3>3. 24 * day + h <= 24 * a + b /\ 24 * a + b < 24 * day + v
      BY <3>1, <3>2 DEF Hours
    <3>4. h <= b /\ b < v BY <1>0, <2>2, <3>3, Digits24
    <3> QED BY <2>1, <2>2, <3>1, <3>4
  <2> QED BY <2>4, <2>6, <2>7
<1>9. ASSUME NEW v, Around(cex.hour, h, v),
             moved.date = reset_all_fields(set_field(around, "hour", v), marked)
      PROVE  \E start \in Nat : /\ t < start /\ start % 60 = 0
                               /\ NoneFits(cex, "hour", t, start)
                               /\ moved.date = DateAt(start + rest)
  <2> DEFINE start == At(day + 1, v, 0, 0)
  <2>1. v \in cex.hour /\ \A x \in cex.hour : x < h /\ v <= x BY <1>9 DEF Around
  <2>2. v \in Nat /\ v \in 0 .. 23 BY <1>0, <2>1
  <2>3. InClock(0, i, s) /\ InClock(v, i, s) BY <1>0, <2>2 DEF InClock
  <2>4. add_to_field(d, "mday", 1) = DateAt(At(day + 1, h, i, s))
    <3> DEFINE one == 1
    <3>1. one \in Nat OBVIOUS
    <3> HIDE DEF one
    <3>2. add_to_field(d, "mday", one) = DateAt(At(day + one, h, i, s)) BY <3>1, SetFields
    <3> QED BY <3>2 DEF one
  <2>5. around = DateAt(At(day + 1, 0, i, s)) BY <1>1, <2>4, ResetClock DEF Kept, OneUp
  <2> HIDE DEF around
  <2>6. set_field(around, "hour", v) = DateAt(At(day + 1, v, i, s))
    BY <1>1, <2>2, <2>3, <2>5, SetFields
  <2>7. moved.date = DateAt(start + rest) BY <1>1, <1>5, <1>9, <2>3, <2>6
  <2>8. start = 60 * (60 * Hours(day + 1, v)) /\ Hours(day + 1, v) = 24 * (day + 1) + v
    BY <2>2 DEF At, Hours
  <2>9. t < start /\ start \in Nat /\ start % 60 = 0
    <3>1. Hours(day, h) + 1 <= Hours(day + 1, v) BY <1>0, <2>2 DEF Hours
    <3>2. Hours(day + 1, v) \in Nat BY <2>2, <2>8
    <3> HIDE DEF start, t
    <3> QED BY <1>0, <1>6, <2>8, <3>1, <3>2
  <2>10. NoneFits(cex, "hour", t, start)
    <3> SUFFICES ASSUME NEW x \in Nat, t <= x, x < start PROVE ~Fits(cex, "hour", x)
      BY DEF NoneFits
    <3>1. PICK a \in Nat, b \in 0 .. 23, m \in 0 .. 59, e \in 0 .. 59 :
            /\ x = 60 * (60 * Hours(a, b) + m) + e /\ Hours(day, h) <= Hours(a, b)
            /\ Hours(a, b) \in Nat
            /\ Fits(cex, "hour", x) <=> b \in cex.hour
      BY <1>7
    <3> HIDE DEF start
    <3>2. Hours(a, b) < Hours(day + 1, v) BY <2>2, <2>8, <3>1
    <3>3. 24 * day + h <= 24 * a + b /\ 24 * a + b < 24 * (day + 1) + v
      BY <3>1, <3>2 DEF Hours
    <3>4. h <= b \/ b < v BY <1>0, <2>2, <3>3, Digits24
    <3> QED BY <1>0, <2>1, <2>2, <3>1, <3>4
  <2> QED BY <2>7, <2>9, <2>10
<1> HIDE DEF moved, t, d, around
<1> QED BY <1>3, <1>4, <1>8, <1>9 DEF moved, t, d, MovesTo

-----------------------------------------------------------------------------
(***************************************************************************)
(* The day: find_next_day steps to the first that fits.                    *)
(***************************************************************************)
PlainDays(cex) ==
    /\ cex.mday = 0 .. 30 \/ cex.wday = 0 .. 6
    /\ cex.mon = 0 .. 11 \/ cex.mday \subseteq 0 .. 27

FitsOn(cex, day) == DayFits(cex, At(day, 0, 0, 0))

LEMMA DayFitsOn ==
    ASSUME NEW cex, NEW day \in Nat, NEW y, NEW m, NEW k, DateIs(day, y, m, k),
           NEW h, NEW i, NEW s, InClock(h, i, s)
    PROVE  /\ DayFits(cex, At(day, h, i, s)) <=> (day + 6) % 7 \in cex.wday /\ k \in cex.mday
           /\ DayFits(cex, At(day, h, i, s)) <=> FitsOn(cex, day)
           /\ DateAt(At(day, h, i, s)).mday = k + 1 /\ DateAt(At(day, h, i, s)).mon = m
           /\ DateAt(At(day, h, i, s)).year = y
<1>1. ASSUME NEW b, NEW c, NEW e, InClock(b, c, e)
      PROVE  /\ DayFits(cex, At(day, b, c, e)) <=> (day + 6) % 7 \in cex.wday /\ k \in cex.mday
             /\ DateAt(At(day, b, c, e)).mday = k + 1 /\ DateAt(At(day, b, c, e)).mon = m
             /\ DateAt(At(day, b, c, e)).year = y
  <2>1. DateAt(At(day, b, c, e)) = Date(y, m, k + 1, b, c, e) BY <1>1, DateFields
  <2>2. DateAt(At(day, b, c, e)).mday = k + 1 /\ DateAt(At(day, b, c, e)).mon = m
        /\ DateAt(At(day, b, c, e)).year = y
    BY <2>1 DEF Date
  <2>3. k \in Int /\ DateAt(At(day, b, c, e)).mday - 1 = k BY <2>2 DEF DateIs
  <2>4. HasClock(At(day, b, c, e), day, b, c, e)
    <3>1. b \in 0 .. 23 /\ c \in 0 .. 59 /\ e \in 0 .. 59 BY <1>1 DEF InClock
    <3> QED BY <3>1, ClockParts
  <2>5. WeekdayOf(At(day, b, c, e)) = (day + 6) % 7 BY <2>4 DEF WeekdayOf, HasClock
  <2> QED BY <2>2, <2>3, <2>5 DEF DayFits
<1>2. InClock(0, 0, 0) BY DEF InClock
<1> QED BY <1>1, <1>2 DEF FitsOn

\* Two dates in order: the same month, or the first month is over before the second.
LEMMA DatesInOrder ==
    ASSUME NEW a, NEW y, NEW m, NEW k, DateIs(a, y, m, k),
           NEW b, NEW z, NEW n, NEW l, DateIs(b, z, n, l), a <= b
    PROVE  \/ y = z /\ m = n
           \/ /\ y < z \/ (y = z /\ m < n)
              /\ MonthStart(y, m + 1) <= MonthStart(z, n)
<1>1. /\ y \in Years /\ m \in 0 .. 11 /\ z \in Years /\ n \in 0 .. 11
      /\ k \in Nat /\ l \in Nat /\ a = MonthStart(y, m) + k /\ b = MonthStart(z, n) + l
      /\ b < MonthStart(z, n + 1)
  BY DEF DateIs
<1>2. ASSUME z < y \/ (z = y /\ n < m) PROVE FALSE
  <2>1. MonthStart(z, n + 1) <= MonthStart(y, m) BY <1>1, <1>2, MonthsInOrder
  <2>2. m \in 0 .. 12 /\ n \in 0 .. 12 /\ n + 1 \in 0 .. 12 BY <1>1
  <2>3. /\ MonthStart(z, n + 1) \in Nat /\ MonthStart(y, m) \in Nat /\ MonthStart(z, n) \in Nat
    BY <1>1, <2>2, MonthStarts
  <2> QED BY <1>1, <2>1, <2>3
<1>3. y < z \/ (y = z /\ m < n) \/ (y = z /\ m = n)
  BY <1>1, <1>2 DEF Years
<1> QED BY <1>1, <1>3, MonthsInOrder

\* A week of days falls on every weekday.
LEMMA EveryWeekday ==
    ASSUME NEW day \in Nat, NEW w \in 0 .. 6
    PROVE  \E j \in 0 .. 6 : (day + j + 6) % 7 = w
<1> DEFINE r == (day + 6) % 7
           q == (day + 6) \div 7
<1>1. r \in 0 .. 6 /\ q \in Nat /\ day + 6 = 7 * q + r OBVIOUS
<1> HIDE DEF r, q
<1>2. CASE r <= w
  <2>1. w - r \in 0 .. 6 BY <1>1, <1>2
  <2>2. day + (w - r) + 6 = 7 * q + w BY <1>1, <2>1
  <2>3. (7 * q + w) % 7 = w BY <1>1
  <2> QED BY <2>1, <2>2, <2>3
<1>3. CASE w < r
  <2>1. w + 7 - r \in 0 .. 6 BY <1>1, <1>3
  <2>2. day + (w + 7 - r) + 6 = 7 * (q + 1) + w BY <1>1, <2>1
  <2>3. (7 * (q + 1) + w) % 7 = w BY <1>1
  <2> QED BY <2>1, <2>2, <2>3
<1> QED BY <1>1, <1>2, <1>3

\* A year of days has every number a day can have in its month.
LEMMA EveryNumber ==
    ASSUME NEW day \in Nat, NEW e \in 0 .. 30
    PROVE  \E j \in 0 .. 366 : \E z, n : DateIs(day + j, z, n, e)
<1>1. PICK y, m, k : DateIs(day, y, m, k) BY DateOfDay
<1>2. y \in Years /\ y + 1 \in Years /\ m \in 0 .. 11 /\ k \in 0 .. 30
      /\ day = MonthStart(y, m) + k
  BY <1>1 DEF DateIs, Years
<1>3. ASSUME NEW z \in Years
      PROVE  /\ DateIs(MonthStart(z, 0) + e, z, 0, e) /\ MonthStart(z, 0) \in Nat
             /\ MonthStart(z, 1) = MonthStart(z, 0) + 31
  <2>1. /\ MonthStart(z, 1) = MonthStart(z, 0) + 31 /\ MonthStart(z, 0) \in Nat BY MonthStarts
  <2>2. 0 + 1 = 1 /\ MonthStart(z, 0) + e < MonthStart(z, 1) BY <2>1
  <2> QED BY <2>1, <2>2 DEF DateIs
<1>4. /\ MonthStart(y, 0) \in Nat /\ MonthStart(y + 1, 0) \in Nat
      /\ MonthStart(y + 1, 0) <= MonthStart(y, 0) + 366
      /\ MonthStart(y, 12) = MonthStart(y + 1, 0)
      /\ MonthStart(y, 0) + 365 <= MonthStart(y + 1, 0)
  <2>1. MonthStart(y, 0) = YearStart(y) /\ MonthStart(y + 1, 0) = YearStart(y + 1)
        /\ MonthStart(y, 12) = YearStart(y + 1)
    BY <1>2, MonthStarts
  <2>2. YearStart(y) \in Nat /\ YearStart(y + 1) = YearStart(y) + 365 + (IF LeapYear(y) THEN 1 ELSE 0)
    BY <1>2, YearLength
  <2> QED BY <2>1, <2>2
<1>5. CASE m = 0 /\ k <= e
  <2>1. e - k \in 0 .. 366 /\ day + (e - k) = MonthStart(y, 0) + e BY <1>2, <1>4, <1>5
  <2> QED BY <1>2, <1>3, <2>1
<1>6. ASSUME MonthStart(y, 0) + e <= day, day <= MonthStart(y + 1, 0)
      PROVE  \E j \in 0 .. 366 : \E z, n : DateIs(day + j, z, n, e)
  <2>1. /\ MonthStart(y + 1, 0) + e - day \in 0 .. 366
        /\ day + (MonthStart(y + 1, 0) + e - day) = MonthStart(y + 1, 0) + e
    BY <1>4, <1>6
  <2> QED BY <1>2, <1>3, <2>1
<1>7. CASE m = 0 /\ e < k
  <2>1. MonthStart(y, 0) + e <= day /\ day <= MonthStart(y + 1, 0) BY <1>2, <1>4, <1>7
  <2> QED BY <1>6, <2>1
<1>8. CASE m # 0
  <2>1. MonthStart(y, 0 + 1) <= MonthStart(y, m)
    <3>1. 0 < m /\ 0 \in 0 .. 11 BY <1>2, <1>8
    <3> QED BY <1>2, <3>1, MonthsInOrder
  <2>2. MonthStart(y, m) \in Nat /\ MonthStart(y, m + 1) \in Nat
    <3>1. m \in 0 .. 12 /\ m + 1 \in 0 .. 12 BY <1>2
    <3> QED BY <1>2, <3>1, MonthStarts
  <2>3. MonthStart(y, m + 1) <= MonthStart(y + 1, 0)
    <3>1. y < y + 1 /\ 0 \in 0 .. 11 BY <1>2 DEF Years
    <3> QED BY <1>2, <3>1, MonthsInOrder
  <2>4. day < MonthStart(y, m + 1) BY <1>1 DEF DateIs
  <2>5. MonthStart(y, 0 + 1) = MonthStart(y, 0) + 31 BY <1>2, <1>3
  <2>6. MonthStart(y, 0) + e <= day /\ day <= MonthStart(y + 1, 0)
    BY <1>2, <1>4, <2>1, <2>2, <2>3, <2>4, <2>5
  <2> QED BY <1>6, <2>6
<1> QED BY <1>2, <1>5, <1>7, <1>8

\* A day that fits comes within a year, with another number in its month than one that
\* does not fit.
FirstFit(cex, day, j) ==
    /\ j \in 0 .. 366 /\ FitsOn(cex, day + j)
    /\ \A l \in 0 .. j - 1 : ~FitsOn(cex, day + l)

LEMMA ADayFits ==
    ASSUME NEW cex, IsCron(cex), PlainDays(cex), NEW day \in Nat
    PROVE  \E j \in 0 .. 366 : FitsOn(cex, day + j) /\ (cex.mday = 0 .. 30 => j \in 0 .. 6)
<1>0. InClock(0, 0, 0) BY DEF InClock
<1>1. CASE cex.mday = 0 .. 30
  <2>1. PICK w \in 0 .. 6 : w \in cex.wday BY DEF IsCron
  <2>2. PICK j \in 0 .. 6 : (day + j + 6) % 7 = w BY EveryWeekday
  <2>3. j \in 0 .. 366 /\ day + j \in Nat OBVIOUS
  <2>4. PICK y, m, k : DateIs(day + j, y, m, k) BY <2>3, DateOfDay
  <2>5. k \in cex.mday BY <1>1, <2>4 DEF DateIs
  <2>6. FitsOn(cex, day + j) BY <1>0, <2>1, <2>2, <2>3, <2>4, <2>5, DayFitsOn
  <2> QED BY <2>3, <2>6
<1>2. CASE cex.wday = 0 .. 6 /\ cex.mday # 0 .. 30
  <2>1. PICK e \in 0 .. 30 : e \in cex.mday BY DEF IsCron
  <2>2. PICK j \in 0 .. 366 : \E z, n : DateIs(day + j, z, n, e) BY EveryNumber
  <2>3. PICK z, n : DateIs(day + j, z, n, e) BY <2>2
  <2>4. day + j \in Nat /\ (day + j + 6) % 7 \in cex.wday BY <1>2
  <2>5. FitsOn(cex, day + j) BY <1>0, <2>1, <2>3, <2>4, DayFitsOn
  <2> QED BY <1>2, <2>5
<1> QED BY <1>1, <1>2 DEF PlainDays

LEMMA FirstDay ==
    ASSUME NEW cex, IsCron(cex), PlainDays(cex), NEW day \in Nat
    PROVE  \E j : FirstFit(cex, day, j) /\ (cex.mday = 0 .. 30 => j \in 0 .. 6)
<1> DEFINE S == {j \in 0 .. 366 : FitsOn(cex, day + j)}
<1>1. PICK b \in S : cex.mday = 0 .. 30 => b \in 0 .. 6 BY ADayFits
<1>2. S # {} /\ S \subseteq Nat
  <2>1. S \subseteq 0 .. 366 OBVIOUS
  <2> HIDE DEF S
  <2> QED BY <1>1, <2>1
<1>3. PICK j \in S : \A l \in S : j <= l BY <1>2, LeastNumber
<1>4. j \in 0 .. 366 /\ FitsOn(cex, day + j) /\ j <= b /\ b \in 0 .. 366 BY <1>1, <1>3
<1>5. ASSUME NEW l \in 0 .. j - 1, FitsOn(cex, day + l) PROVE FALSE
  <2>1. l \in 0 .. 366 /\ ~(j <= l) BY <1>4
  <2> QED BY <1>3, <1>5, <2>1
<1> QED BY <1>1, <1>4, <1>5 DEF FirstFit

LEMMA OtherNumber ==
    ASSUME NEW cex, IsCron(cex), PlainDays(cex), NEW day \in Nat,
           NEW j, FirstFit(cex, day, j), cex.mday = 0 .. 30 => j \in 0 .. 6, j # 0,
           NEW y, NEW m, NEW k, DateIs(day, y, m, k),
           NEW z, NEW n, NEW l, DateIs(day + j, z, n, l)
    PROVE  l # k
<1>0. /\ InClock(0, 0, 0) /\ j \in 1 .. 366 /\ day + j \in Nat
      /\ FitsOn(cex, day + j)
  BY DEF InClock, FirstFit
<1>1. ~FitsOn(cex, day)
  <2>1. 0 \in 0 .. j - 1 /\ day + 0 = day BY <1>0
  <2> QED BY <2>1 DEF FirstFit
<1>2. CASE cex.mday = 0 .. 30
  <2>1. \/ y = z /\ m = n
        \/ MonthStart(y, m + 1) <= MonthStart(z, n)
    <3>1. day <= day + j BY <1>0
    <3> QED BY <3>1, DatesInOrder
  <2>2. /\ y \in Years /\ m \in 0 .. 11 /\ m + 1 \in 0 .. 12 /\ m \in 0 .. 12
        /\ z \in Years /\ n \in 0 .. 12 /\ k \in 0 .. 30 /\ l \in 0 .. 30
        /\ day = MonthStart(y, m) + k /\ day + j = MonthStart(z, n) + l
    BY DEF DateIs
  <2>3. /\ MonthStart(y, m) \in Nat /\ MonthStart(y, m + 1) \in Nat /\ MonthStart(z, n) \in Nat
        /\ MonthStart(y, m) + 28 <= MonthStart(y, m + 1)
    BY <2>2, MonthStarts
  <2>4. j \in 0 .. 6 BY <1>2
  <2>5. CASE y = z /\ m = n BY <1>0, <2>2, <2>3, <2>5
  <2>6. CASE MonthStart(y, m + 1) <= MonthStart(z, n) BY <2>2, <2>3, <2>4, <2>6
  <2> QED BY <2>1, <2>5, <2>6
<1>3. CASE cex.wday = 0 .. 6
  <2>1. (day + 6) % 7 \in cex.wday BY <1>3
  <2>2. k \notin cex.mday BY <1>0, <1>1, <2>1, DayFitsOn
  <2>3. l \in cex.mday BY <1>0, DayFitsOn
  <2> QED BY <2>2, <2>3
<1> QED BY <1>2, <1>3 DEF PlainDays

\* The number of days that find_next_day counts is that of the first day that fits.
Steps(cex, time) ==
    CHOOSE k \in 0 .. 366 :
        /\ k = 366 \/ DayFits(cex, time + k * 86400)
        /\ \A j \in 0 .. k - 1 : ~DayFits(cex, time + j * 86400)

LEMMA DaySteps ==
    ASSUME NEW cex, IsCron(cex), PlainDays(cex), NEW day \in Nat,
           NEW h, NEW i, NEW s, InClock(h, i, s)
    PROVE  FirstFit(cex, day, Steps(cex, At(day, h, i, s)))
<1> DEFINE t == At(day, h, i, s)
           P(k) == /\ k = 366 \/ DayFits(cex, t + k * 86400)
                   /\ \A j \in 0 .. k - 1 : ~DayFits(cex, t + j * 86400)
<1>1. ASSUME NEW j \in Nat PROVE DayFits(cex, t + j * 86400) <=> FitsOn(cex, day + j)
  <2>1. t + j * 86400 = At(day + j, h, i, s) BY DEF At, InClock
  <2>2. day + j \in Nat OBVIOUS
  <2>3. PICK y, m, k : DateIs(day + j, y, m, k) BY <2>2, DateOfDay
  <2>4. DayFits(cex, At(day + j, h, i, s)) <=> FitsOn(cex, day + j) BY <2>2, <2>3, DayFitsOn
  <2> QED BY <2>1, <2>4
<1>2. PICK j : FirstFit(cex, day, j) BY FirstDay
<1>3. j \in 0 .. 366 /\ FitsOn(cex, day + j) BY <1>2 DEF FirstFit
<1> HIDE DEF t
<1>4. ASSUME NEW k \in 0 .. 366
      PROVE  P(k) <=> /\ k = 366 \/ FitsOn(cex, day + k)
                      /\ \A l \in 0 .. k - 1 : ~FitsOn(cex, day + l)
  <2>1. k \in Nat /\ \A l \in 0 .. k - 1 : l \in Nat OBVIOUS
  <2> QED BY <1>1, <2>1
<1>6. Steps(cex, t) = CHOOSE k \in 0 .. 366 : P(k) BY DEF Steps
<1> HIDE DEF P
<1>5. P(j)
  <2>1. \A l \in 0 .. j - 1 : ~FitsOn(cex, day + l) BY <1>2 DEF FirstFit
  <2> QED BY <1>3, <1>4, <2>1
<1>7. Steps(cex, t) \in 0 .. 366 /\ P(Steps(cex, t)) BY <1>3, <1>5, <1>6
<1> DEFINE n == Steps(cex, t)
<1> HIDE DEF n
<1>8. n \in 0 .. 366 /\ P(n) BY <1>7 DEF n
<1>9. /\ n = 366 \/ FitsOn(cex, day + n)
      /\ \A l \in 0 .. n - 1 : ~FitsOn(cex, day + l)
  BY <1>4, <1>8
<1>10. FitsOn(cex, day + n)
  <2>1. CASE n = 366 /\ j # n
    <3>1. j \in 0 .. n - 1 BY <1>3, <2>1
    <3> QED BY <1>3, <1>9, <3>1
  <2>2. CASE j = n BY <1>3, <2>2
  <2> QED BY <1>9, <2>1, <2>2
<1>11. FirstFit(cex, day, n) BY <1>8, <1>9, <1>10 DEF FirstFit
<1> QED BY <1>11 DEF n, t

NextDay(cex, t, d, marked) ==
    IF Steps(cex, t) = 0 THEN d
    ELSE reset_all_fields(add_to_field(d, "mday", Steps(cex, t)), marked)

LEMMA DayMoved ==
    ASSUME NEW cex, NEW t, NEW d, TimeOf(d) = t, NEW marked
    PROVE  MoveDay(cex, d, marked) =
             [date |-> NextDay(cex, t, d, marked),
              same |-> NextDay(cex, t, d, marked).mday = d.mday]
BY DEF MoveDay, Steps, NextDay

LEMMA DayStays ==
    ASSUME NEW cex, IsCron(cex), PlainDays(cex), NEW day \in Nat, FitsOn(cex, day),
           NEW h, NEW i, NEW s, InClock(h, i, s), NEW marked
    PROVE  MoveDay(cex, DateAt(At(day, h, i, s)), marked) =
             [date |-> DateAt(At(day, h, i, s)), same |-> TRUE]
<1> DEFINE t == At(day, h, i, s)
<1>1. FirstFit(cex, day, Steps(cex, t)) BY DaySteps
<1>2. TimeOf(DateAt(t)) = t BY TimeOfDay
<1> HIDE DEF t
<1>3. Steps(cex, t) = 0
  <2> DEFINE n == Steps(cex, t)
  <2>1. FirstFit(cex, day, n) BY <1>1
  <2> HIDE DEF n
  <2>2. n \in 0 .. 366 /\ \A l \in 0 .. n - 1 : ~FitsOn(cex, day + l) BY <2>1 DEF FirstFit
  <2>3. day + 0 = day OBVIOUS
  <2>4. n = 0
    <3> SUFFICES ASSUME n # 0 PROVE FALSE OBVIOUS
    <3>1. 0 \in 0 .. n - 1 BY <2>2
    <3> QED BY <2>2, <2>3, <3>1
  <2> QED BY <2>4 DEF n
<1>4. MoveDay(cex, DateAt(t), marked) = [date |-> DateAt(t), same |-> TRUE]
  <2>1. NextDay(cex, t, DateAt(t), marked) = DateAt(t) BY <1>3 DEF NextDay
  <2>2. MoveDay(cex, DateAt(t), marked) =
          [date |-> DateAt(t), same |-> DateAt(t).mday = DateAt(t).mday]
    BY <1>2, <2>1, DayMoved
  <2>3. (DateAt(t).mday = DateAt(t).mday) = TRUE OBVIOUS
  <2> QED BY <2>2, <2>3
<1> QED BY <1>4 DEF t

\* A day moves to the first that fits, as find_next_day resets the hour and the minute.
LEMMA DayMoves ==
    ASSUME NEW cex, IsCron(cex), PlainDays(cex), NEW day \in Nat, ~FitsOn(cex, day),
           NEW h, NEW i, NEW s, InClock(h, i, s),
           NEW marked, "min" \in marked, "hour" \in marked, marked \subseteq {"sec", "min", "hour"}
    PROVE  MovesTo(cex, "mday", At(day, h, i, s), marked,
                   MoveDay(cex, DateAt(At(day, h, i, s)), marked))
<1> DEFINE t == At(day, h, i, s)
           d == DateAt(t)
           rest == Kept(marked, "sec", s)
<1>0. rest \in 0 .. 59 /\ h \in 0 .. 23 /\ i \in 0 .. 59 /\ s \in 0 .. 59
  BY DEF Kept, InClock
<1>1. TimeOf(d) = t BY TimeOfDay
<1>2. PICK n : n = Steps(cex, t) OBVIOUS
<1>3. FirstFit(cex, day, n) BY <1>2, DaySteps
<1>4. n \in 0 .. 366 /\ FitsOn(cex, day + n) /\ \A l \in 0 .. n - 1 : ~FitsOn(cex, day + l)
  BY <1>3 DEF FirstFit
<1>5. n \in 1 .. 366 /\ day + n \in Nat
  <2>1. n # 0
    <3> SUFFICES ASSUME n = 0 PROVE FALSE OBVIOUS
    <3>1. day + n = day OBVIOUS
    <3> QED BY <1>4, <3>1
  <2> QED BY <1>4, <2>1
<1> DEFINE start == At(day + n, 0, 0, 0)
           next == reset_all_fields(add_to_field(d, "mday", n), marked)
<1>6. next = DateAt(At(day + n, 0, 0, rest))
  <2>1. add_to_field(d, "mday", n) = DateAt(At(day + n, h, i, s))
    <3>1. n \in Nat BY <1>5
    <3> QED BY <3>1, SetFields
  <2>2. reset_all_fields(DateAt(At(day + n, h, i, s)), marked) =
          DateAt(At(day + n, Kept(marked, "hour", h), Kept(marked, "min", i), rest))
    BY <1>5, ResetClock
  <2>3. Kept(marked, "hour", h) = 0 /\ Kept(marked, "min", i) = 0 BY DEF Kept
  <2> QED BY <2>1, <2>2, <2>3
<1>7. InClock(0, 0, rest) /\ InClock(0, 0, 0) BY <1>0 DEF InClock
<1>8. PICK y, m, k : DateIs(day, y, m, k) BY DateOfDay
<1>9. PICK z, q, l : DateIs(day + n, z, q, l) BY <1>5, DateOfDay
<1>10. d.mday = k + 1 BY <1>8, DayFitsOn
<1>11. next.mday = l + 1
  <2>1. DateAt(At(day + n, 0, 0, rest)).mday = l + 1
    <3> HIDE DEF rest
    <3>1. DateAt(At(day + n, 0, 0, rest)) = Date(z, q, l + 1, 0, 0, rest)
      BY <1>7, <1>9, DateFields
    <3> QED BY <3>1 DEF Date
  <2> HIDE DEF next
  <2> QED BY <1>6, <2>1
<1>12. l # k
  <2>1. cex.mday = 0 .. 30 => n \in 0 .. 6
    <3> SUFFICES ASSUME cex.mday = 0 .. 30 PROVE n \in 0 .. 6 OBVIOUS
    <3>1. PICK j \in 0 .. 6 : FitsOn(cex, day + j) BY ADayFits
    <3>2. ~(j \in 0 .. n - 1) BY <1>4, <3>1
    <3> QED BY <1>4, <3>2
  <2>2. n # 0 BY <1>5
  <2> QED BY <1>3, <1>8, <1>9, <2>1, <2>2, OtherNumber
<1>13. /\ MoveDay(cex, d, marked).date = next
       /\ MoveDay(cex, d, marked).same = FALSE
  <2>1. n # 0 BY <1>5
  <2>2. NextDay(cex, t, d, marked) = next BY <1>2, <2>1 DEF NextDay
  <2> HIDE DEF next, d, t
  <2>3. MoveDay(cex, d, marked) = [date |-> next, same |-> next.mday = d.mday]
    BY <1>1, <2>2, DayMoved
  <2>4. (next.mday = d.mday) = FALSE
    <3>1. k \in 0 .. 30 /\ l \in 0 .. 30 BY <1>8, <1>9 DEF DateIs
    <3> QED BY <1>10, <1>11, <1>12, <3>1
  <2>5. MoveDay(cex, d, marked) = [date |-> next, same |-> FALSE] BY <2>3, <2>4
  <2> QED BY <2>5
<1>14. /\ start \in Nat /\ t \in Nat /\ t < start /\ start % 60 = 0
       /\ At(day + n, 0, 0, rest) = start + rest
  <2>1. start = 60 * (1440 * (day + n)) BY <1>5 DEF At
  <2>2. t = 86400 * day + 3600 * h + 60 * i + s BY <1>0 DEF At
  <2>3. At(day + n, 0, 0, rest) = start + rest BY <1>0, <1>5 DEF At
  <2>4. start % 60 = 0 /\ start \in Nat BY <1>5, <2>1
  <2>5. t < start /\ t \in Nat BY <1>0, <1>5, <2>1, <2>2
  <2> QED BY <2>3, <2>4, <2>5
<1>15. t % 60 = s
  <2>1. HasClock(t, day, h, i, s) BY <1>0, ClockParts
  <2> QED BY <2>1 DEF HasClock
<1>16. NoneFits(cex, "mday", t, start)
  <2> SUFFICES ASSUME NEW x \in Nat, t <= x, x < start PROVE ~DayFits(cex, x)
    BY DEF NoneFits, Fits
  <2>1. PICK a \in Nat, b \in 0 .. 23, c \in 0 .. 59, e \in 0 .. 59 : x = At(a, b, c, e)
    BY ClockOf
  <2>2. InClock(b, c, e) BY DEF InClock
  <2>3. day <= a /\ a < day + n
    <3>1. x = 86400 * a + 3600 * b + 60 * c + e BY <2>1 DEF At
    <3>2. t = 86400 * day + 3600 * h + 60 * i + s BY <1>0 DEF At
    <3>3. start = 86400 * (day + n) BY <1>5 DEF At
    <3> HIDE DEF t, start
    <3>4. day <= a BY <1>0, <3>1, <3>2
    <3>5. a < day + n BY <1>5, <3>1, <3>3
    <3> QED BY <3>4, <3>5
  <2>4. a - day \in 0 .. n - 1 /\ a = day + (a - day) BY <1>5, <2>3
  <2>5. ~FitsOn(cex, a) BY <1>4, <2>4
  <2>6. PICK w, u, v : DateIs(a, w, u, v) BY DateOfDay
  <2> QED BY <2>1, <2>2, <2>5, <2>6, DayFitsOn
<1> HIDE DEF t, d, start, next
<1>17. MoveDay(cex, d, marked).date = DateAt(start + rest) BY <1>6, <1>13, <1>14
<1>18. MovesTo(cex, "mday", t, marked, MoveDay(cex, d, marked))
  BY <1>13, <1>14, <1>15, <1>16, <1>17 DEF MovesTo
<1> QED BY <1>18 DEF t, d

-----------------------------------------------------------------------------
(***************************************************************************)
(* The month: it goes up within its year, or around to the next year's.    *)
(***************************************************************************)
\* A day that every month has
LEMMA SmallDay ==
    ASSUME NEW y \in Years, NEW m \in 0 .. 11, NEW k \in 0 .. 27
    PROVE  DateIs(MonthStart(y, m) + k, y, m, k) /\ MonthStart(y, m) + k \in Nat
<1>1. m \in 0 .. 12 /\ m + 1 \in 0 .. 12 OBVIOUS
<1>2. /\ MonthStart(y, m) \in Nat /\ MonthStart(y, m + 1) \in Nat
      /\ MonthStart(y, m) + 28 <= MonthStart(y, m + 1)
  BY <1>1, MonthStarts
<1> QED BY <1>2 DEF DateIs

LEMMA SmallDate ==
    ASSUME NEW y \in Years, NEW m \in 0 .. 11, NEW k \in 0 .. 27,
           NEW h, NEW i, NEW s, InClock(h, i, s)
    PROVE  Normalised(Date(y, m, k + 1, h, i, s)) = Date(y, m, k + 1, h, i, s)
<1> DEFINE day == MonthStart(y, m) + k
<1>1. DateIs(day, y, m, k) /\ day \in Nat BY SmallDay
<1> HIDE DEF day
<1>2. TimeOf(DateAt(At(day, h, i, s))) = At(day, h, i, s) BY <1>1, TimeOfDay
<1>3. DateAt(At(day, h, i, s)) = Date(y, m, k + 1, h, i, s) BY <1>1, DateFields
<1> QED BY <1>2, <1>3 DEF Normalised

LEMMA FirstOfMonth ==
    ASSUME NEW y \in Years, NEW m \in 0 .. 11, NEW k \in 0 .. 27,
           NEW h, NEW i, NEW s, InClock(h, i, s),
           NEW marked, "mday" \in marked, "hour" \in marked, "min" \in marked,
           "mon" \notin marked, "year" \notin marked
    PROVE  LET start == At(MonthStart(y, m), 0, 0, 0)
           IN  /\ start \in Nat /\ start % 60 = 0
               /\ reset_all_fields(Date(y, m, k + 1, h, i, s), marked) =
                    DateAt(start + Kept(marked, "sec", s))
<1> DEFINE rest == Kept(marked, "sec", s)
           start == At(MonthStart(y, m), 0, 0, 0)
<1>1. InClock(0, 0, rest) /\ rest \in Nat BY DEF InClock, Kept
<1>2. DateIs(MonthStart(y, m) + 0, y, m, 0) /\ MonthStart(y, m) + 0 \in Nat BY SmallDay
<1>3. MonthStart(y, m) \in Nat /\ MonthStart(y, m) + 0 = MonthStart(y, m)
  <2>1. m \in 0 .. 12 OBVIOUS
  <2> QED BY <2>1, MonthStarts
<1>4. start = 60 * (1440 * MonthStart(y, m)) /\ At(MonthStart(y, m), 0, 0, rest) = start + rest
  BY <1>1, <1>3 DEF At
<1>5. start \in Nat /\ start % 60 = 0 BY <1>3, <1>4
<1> HIDE DEF rest, start
<1>6. /\ Kept(marked, "mon", m) = m /\ Kept(marked, "hour", h) = 0 /\ Kept(marked, "min", i) = 0
  BY DEF Kept
<1>7. reset_all_fields(Date(y, m, k + 1, h, i, s), marked) = Normalised(Date(y, m, 1, 0, 0, rest))
  BY <1>6, ResetDate DEF rest
<1>8. Normalised(Date(y, m, 0 + 1, 0, 0, rest)) = Date(y, m, 0 + 1, 0, 0, rest)
  <2>1. 0 \in 0 .. 27 OBVIOUS
  <2> QED BY <1>1, <2>1, SmallDate
<1>9. DateAt(At(MonthStart(y, m), 0, 0, rest)) = Date(y, m, 0 + 1, 0, 0, rest)
  <2>1. DateIs(MonthStart(y, m), y, m, 0) BY <1>2, <1>3
  <2> QED BY <1>1, <2>1, DateFields
<1>10. 0 + 1 = 1 OBVIOUS
<1> QED BY <1>4, <1>5, <1>7, <1>8, <1>9, <1>10 DEF rest, start

\* A time before the first of a month is in an earlier month.
LEMMA BeforeMonth ==
    ASSUME NEW y, NEW m, NEW k, NEW day \in Nat, DateIs(day, y, m, k),
           NEW h, NEW i, NEW s, InClock(h, i, s),
           NEW z \in Years, NEW n \in 0 .. 11
    PROVE  At(day, h, i, s) < At(MonthStart(z, n), 0, 0, 0) <=> (y < z \/ (y = z /\ m < n))
<1>1. /\ y \in Years /\ m \in 0 .. 11 /\ m \in 0 .. 12 /\ m + 1 \in 0 .. 12 /\ n \in 0 .. 12
      /\ k \in Nat /\ day = MonthStart(y, m) + k /\ day < MonthStart(y, m + 1)
  BY DEF DateIs
<1>2. /\ MonthStart(y, m) \in Nat /\ MonthStart(y, m + 1) \in Nat /\ MonthStart(z, n) \in Nat
  BY <1>1, MonthStarts
<1>3. At(day, h, i, s) < At(MonthStart(z, n), 0, 0, 0) <=> day < MonthStart(z, n)
  <2>1. At(day, h, i, s) = 86400 * day + 3600 * h + 60 * i + s BY DEF At, InClock
  <2>2. At(MonthStart(z, n), 0, 0, 0) = 86400 * MonthStart(z, n) BY <1>2 DEF At
  <2>3. h \in 0 .. 23 /\ i \in 0 .. 59 /\ s \in 0 .. 59 BY DEF InClock
  <2> QED BY <1>2, <2>1, <2>2, <2>3
<1>4. CASE y < z \/ (y = z /\ m < n)
  <2>1. MonthStart(y, m + 1) <= MonthStart(z, n) BY <1>1, <1>4, MonthsInOrder
  <2>2. day < MonthStart(z, n) BY <1>1, <1>2, <2>1
  <2> QED BY <1>3, <1>4, <2>2
<1>5. CASE ~(y < z \/ (y = z /\ m < n))
  <2>1. MonthStart(z, n) <= MonthStart(y, m)
    <3>1. CASE y = z /\ m = n BY <1>2, <3>1
    <3>2. CASE z < y \/ (y = z /\ n < m)
      <4>1. MonthStart(z, n + 1) <= MonthStart(y, m) BY <1>1, <3>2, MonthsInOrder
      <4>2. n \in 0 .. 11 /\ n + 1 \in 0 .. 12 OBVIOUS
      <4>3. /\ MonthStart(z, n + 1) \in Nat
            /\ MonthStart(z, n) + 28 <= MonthStart(z, n + 1)
        BY <4>2, MonthStarts
      <4> QED BY <1>2, <4>1, <4>3
    <3>3. (y = z /\ m = n) \/ z < y \/ (y = z /\ n < m) BY <1>1, <1>5 DEF Years
    <3> QED BY <3>1, <3>2, <3>3
  <2>2. ~(day < MonthStart(z, n)) BY <1>1, <1>2, <2>1
  <2> QED BY <1>3, <1>5, <2>2
<1> QED BY <1>4, <1>5

LEMMA MonthMoves ==
    ASSUME NEW cex, IsCron(cex), NEW day \in Nat,
           NEW y, NEW m, NEW k \in 0 .. 27, DateIs(day, y, m, k), m \notin cex.mon,
           NEW h, NEW i, NEW s, InClock(h, i, s),
           NEW marked, "min" \in marked, "hour" \in marked, "mday" \in marked,
           marked \subseteq {"sec", "min", "hour", "mday"}
    PROVE  MovesTo(cex, "mon", At(day, h, i, s), marked,
                   MoveField(cex.mon, DateAt(At(day, h, i, s)), "mon", "year", marked))
<1> DEFINE t == At(day, h, i, s)
           d == DateAt(t)
           moved == MoveField(cex.mon, d, "mon", "year", marked)
           rest == Kept(marked, "sec", s)
<1>0. /\ cex.mon \subseteq Nat /\ cex.mon # {} /\ \A x \in cex.mon : x \in 0 .. 11
      /\ y \in Years /\ y + 1 \in Years /\ m \in 0 .. 11 /\ m \in Nat
      /\ h \in 0 .. 23 /\ i \in 0 .. 59 /\ s \in 0 .. 59
  BY DEF IsCron, InClock, DateIs, Years
<1>1. d = Date(y, m, k + 1, h, i, s) BY DateFields
<1>2. HasClock(t, day, h, i, s) BY <1>0, ClockParts
<1> HIDE DEF t, d
<1>3. d["mon"] = m BY <1>1 DEF Date
<1>4. /\ moved.same = FALSE
      /\ \/ \E v : /\ Up(cex.mon, m, v)
                  /\ moved.date = reset_all_fields(set_field(d, "mon", v), marked)
         \/ \E v : /\ Around(cex.mon, m, v)
                  /\ moved.date =
                       reset_all_fields(set_field(OneUp(d, "mon", "year"), "mon", v), marked)
  <2>1. d["mon"] \in Nat /\ d["mon"] \notin cex.mon BY <1>0, <1>3
  <2>2. MovedOn(moved, cex.mon, d, "mon", "year", marked) BY <1>0, <2>1, FieldMovesOn
  <2> QED BY <1>3, <2>2 DEF MovedOn
<1> HIDE DEF moved
<1>5. ASSUME NEW z \in Years, NEW n \in 0 .. 11, NEW v \in 0 .. 11
      PROVE  set_field(Date(z, n, k + 1, h, i, s), "mon", v) = Date(z, v, k + 1, h, i, s)
  <2>1. [Date(z, n, k + 1, h, i, s) EXCEPT !["mon"] = v] = Date(z, v, k + 1, h, i, s) BY DEF Date
  <2>2. Normalised(Date(z, v, k + 1, h, i, s)) = Date(z, v, k + 1, h, i, s) BY SmallDate
  <2> QED BY <2>1, <2>2 DEF set_field
<1>6. ASSUME NEW z \in Years, NEW v \in 0 .. 11,
             moved.date = reset_all_fields(Date(z, v, k + 1, h, i, s), marked),
             y < z \/ (y = z /\ m < v),
             \A w \in Years, n \in 0 .. 11 :
                /\ y < w \/ (y = w /\ m <= n)
                /\ w < z \/ (w = z /\ n < v)
                => n \notin cex.mon
      PROVE  MovesTo(cex, "mon", t, marked, moved)
  <2> DEFINE start == At(MonthStart(z, v), 0, 0, 0)
  <2>1. start \in Nat /\ start % 60 = 0 /\ moved.date = DateAt(start + rest)
    BY <1>6, FirstOfMonth
  <2>2. t < start BY <1>0, <1>6, BeforeMonth DEF t
  <2>3. t % 60 = s BY <1>2 DEF HasClock
  <2>4. NoneFits(cex, "mon", t, start)
    <3> SUFFICES ASSUME NEW x \in Nat, t <= x, x < start PROVE DateAt(x).mon \notin cex.mon
      BY DEF NoneFits, Fits
    <3>1. PICK a \in Nat, b \in 0 .. 23, c \in 0 .. 59, e \in 0 .. 59 : x = At(a, b, c, e)
      BY ClockOf
    <3>2. InClock(b, c, e) BY DEF InClock
    <3>3. PICK w, n, l : DateIs(a, w, n, l) BY DateOfDay
    <3>4. DateAt(x).mon = n
      <4>1. DateAt(x) = Date(w, n, l + 1, b, c, e) BY <3>1, <3>2, <3>3, DateFields
      <4> QED BY <4>1 DEF Date
    <3>5. w \in Years /\ n \in 0 .. 11 BY <3>3 DEF DateIs
    <3>6. w < z \/ (w = z /\ n < v) BY <3>1, <3>2, <3>3, BeforeMonth
    <3>7. y < w \/ (y = w /\ m <= n)
      <4>1. day <= a
        <5>1. x = 86400 * a + 3600 * b + 60 * c + e BY <3>1 DEF At
        <5>2. t = 86400 * day + 3600 * h + 60 * i + s BY <1>0 DEF At, t
        <5> QED BY <1>0, <5>1, <5>2
      <4>2. (y = w /\ m = n) \/ y < w \/ (y = w /\ m < n) BY <3>3, <4>1, DatesInOrder
      <4> QED BY <1>0, <3>5, <4>2
    <3> QED BY <1>6, <3>4, <3>5, <3>6, <3>7
  <2> HIDE DEF start, rest
  <2>5. moved.date = DateAt(start + Kept(marked, "sec", t % 60)) BY <2>1, <2>3 DEF rest
  <2> QED BY <1>4, <2>1, <2>2, <2>4, <2>5 DEF MovesTo
<1>7. ASSUME NEW v, Up(cex.mon, m, v),
             moved.date = reset_all_fields(set_field(d, "mon", v), marked)
      PROVE  MovesTo(cex, "mon", t, marked, moved)
  <2>1. /\ v \in cex.mon /\ m < v /\ \A x \in cex.mon : m <= x => v <= x BY <1>7 DEF Up
  <2>2. v \in 0 .. 11 BY <1>0, <2>1
  <2>3. moved.date = reset_all_fields(Date(y, v, k + 1, h, i, s), marked)
    BY <1>0, <1>1, <1>5, <1>7, <2>2
  <2>4. ASSUME NEW w \in Years, NEW n \in 0 .. 11, y < w \/ (y = w /\ m <= n),
               w < y \/ (w = y /\ n < v)
        PROVE  n \notin cex.mon
    <3>1. m <= n /\ n < v BY <1>0, <2>4 DEF Years
    <3> QED BY <2>1, <2>2, <3>1
  <2> QED BY <1>0, <1>6, <2>1, <2>2, <2>3, <2>4
<1>8. ASSUME NEW v, Around(cex.mon, m, v),
             moved.date = reset_all_fields(set_field(OneUp(d, "mon", "year"), "mon", v), marked)
      PROVE  MovesTo(cex, "mon", t, marked, moved)
  <2>1. v \in cex.mon /\ \A x \in cex.mon : x < m /\ v <= x BY <1>8 DEF Around
  <2>2. v \in 0 .. 11 BY <1>0, <2>1
  <2>3. add_to_field(d, "year", 1) = Date(y + 1, m, k + 1, h, i, s)
    <3>1. [Date(y, m, k + 1, h, i, s) EXCEPT !["year"] = @ + 1] = Date(y + 1, m, k + 1, h, i, s)
      BY DEF Date
    <3>2. Normalised(Date(y + 1, m, k + 1, h, i, s)) = Date(y + 1, m, k + 1, h, i, s)
      BY <1>0, SmallDate
    <3> QED BY <1>1, <3>1, <3>2 DEF add_to_field
  <2>4. OneUp(d, "mon", "year") = Date(y + 1, 0, k + 1, h, i, s)
    <3>1. reset_all_fields(Date(y + 1, m, k + 1, h, i, s), {"mon"}) =
            Normalised(Date(y + 1, 0, k + 1, h, i, s))
      <4>1. /\ Kept({"mon"}, "mon", m) = 0 /\ Kept({"mon"}, "hour", h) = h
            /\ Kept({"mon"}, "min", i) = i /\ Kept({"mon"}, "sec", s) = s
        BY DEF Kept
      <4>2. "year" \notin {"mon"} /\ "mday" \notin {"mon"} OBVIOUS
      <4> QED BY <4>1, <4>2, ResetDate
    <3>2. Normalised(Date(y + 1, 0, k + 1, h, i, s)) = Date(y + 1, 0, k + 1, h, i, s)
      <4>1. 0 \in 0 .. 11 OBVIOUS
      <4> QED BY <1>0, <4>1, SmallDate
    <3> QED BY <2>3, <3>1, <3>2 DEF OneUp
  <2>5. moved.date = reset_all_fields(Date(y + 1, v, k + 1, h, i, s), marked)
    <3>1. 0 \in 0 .. 11 OBVIOUS
    <3> QED BY <1>0, <1>5, <1>8, <2>2, <2>4, <3>1
  <2>6. ASSUME NEW w \in Years, NEW n \in 0 .. 11, y < w \/ (y = w /\ m <= n),
               w < y + 1 \/ (w = y + 1 /\ n < v)
        PROVE  n \notin cex.mon
    <3>1. m <= n \/ n < v BY <1>0, <2>6 DEF Years
    <3> QED BY <1>0, <2>1, <2>2, <3>1
  <2>7. y < y + 1 BY <1>0 DEF Years
  <2> QED BY <1>0, <1>6, <2>2, <2>5, <2>6, <2>7
<1>9. MovesTo(cex, "mon", t, marked, moved) BY <1>4, <1>7, <1>8
<1> QED BY <1>9 DEF t, d, moved

-----------------------------------------------------------------------------
(***************************************************************************)
(* make_cron: every field has a bit, and its bits are in its range.        *)
(***************************************************************************)
LEMMA StrideBits ==
    ASSUME NEW bit \in Nat, NEW last \in 0 .. 255, bit <= last, NEW delta \in Nat
    PROVE  Stride(bit, last, delta) \subseteq 0 .. last /\ Stride(bit, last, delta) # {}
<1> DEFINE step(k) == (bit + k * delta) % 256
           K == {n \in 0 .. 255 : \A j \in 0 .. n : step(j) <= last}
<1>1. Stride(bit, last, delta) = {step(k) : k \in K} BY Zenon DEF Stride
<1>2. 0 \in K
  <2>1. 0 * delta = 0 /\ bit + 0 = bit /\ bit % 256 = bit OBVIOUS
  <2>2. step(0) <= last BY <2>1
  <2>3. 0 \in 0 .. 255 /\ \A j \in 0 .. 0 : j = 0 OBVIOUS
  <2> HIDE DEF step
  <2> QED BY <2>2, <2>3
<1>3. ASSUME NEW k \in K PROVE step(k) \in 0 .. last
  <2>1. k \in 0 .. 255 /\ \A j \in 0 .. k : step(j) <= last BY Zenon
  <2>2. k \in 0 .. k BY <2>1
  <2>3. step(k) <= last BY <2>1, <2>2, Zenon
  <2>4. k * delta \in Nat
    <3>1. k \in Nat BY <2>1
    <3> QED BY <3>1
  <2>5. step(k) \in Nat
    <3>1. \A n \in Nat : (bit + n) % 256 \in Nat OBVIOUS
    <3> QED BY <2>4, <3>1
  <2> QED BY <2>3, <2>5
<1> HIDE DEF K, step
<1> QED BY <1>1, <1>2, <1>3

LEMMA BitsInRange ==
    ASSUME NEW items, items # {}, items \subseteq [first : Nat, last : Nat, delta : Nat],
           NEW minval \in 0 .. 1, NEW maxval \in 0 .. 255, InRange(items, minval, maxval)
    PROVE  Bits(items, minval, maxval) \subseteq 0 .. maxval - minval
           /\ Bits(items, minval, maxval) # {}
<1>1. ASSUME NEW e \in items
      PROVE  /\ Stride(e.first - minval, e.last - minval, e.delta) \subseteq 0 .. maxval - minval
             /\ Stride(e.first - minval, e.last - minval, e.delta) # {}
  <2>1. /\ e.first \in Nat /\ e.last \in Nat /\ e.delta \in Nat
        /\ minval <= e.first /\ e.first <= e.last /\ e.last <= maxval
    BY DEF InRange
  <2>2. /\ e.first - minval \in Nat /\ e.last - minval \in 0 .. 255
        /\ e.first - minval <= e.last - minval /\ 0 .. e.last - minval \subseteq 0 .. maxval - minval
    BY <2>1
  <2>3. /\ Stride(e.first - minval, e.last - minval, e.delta) \subseteq 0 .. e.last - minval
        /\ Stride(e.first - minval, e.last - minval, e.delta) # {}
    BY <2>1, <2>2, StrideBits
  <2> QED BY <2>2, <2>3
<1>2. Bits(items, minval, maxval) =
        UNION {Stride(e.first - minval, e.last - minval, e.delta) : e \in items}
  BY DEF Bits
<1> QED BY <1>1, <1>2

LEMMA CronIs ==
    ASSUME NEW f \in DOMAIN Cron
    PROVE  IsCron(Cron[f])
<1>1. f \in Expressions /\ Valid(f) /\ Cron[f] = MakeCron(f) BY DEF Cron
<1>2. \A k \in 1 .. 6 : f[k] # {} /\ f[k] \subseteq [first : Nat, last : Nat, delta : Nat]
  BY <1>1, ExpressionsAssumption
<1>3. /\ Bits(f[1], 0, 59) \subseteq 0 .. 59 /\ Bits(f[1], 0, 59) # {}
      /\ Bits(f[2], 0, 59) \subseteq 0 .. 59 /\ Bits(f[2], 0, 59) # {}
  <2>1. 0 \in 0 .. 1 /\ 59 \in 0 .. 255 /\ 59 - 0 = 59 /\ 1 \in 1 .. 6 /\ 2 \in 1 .. 6 OBVIOUS
  <2>2. InRange(f[1], 0, 59) /\ InRange(f[2], 0, 59) BY <1>1 DEF Valid
  <2>3. ASSUME NEW items, items # {}, items \subseteq [first : Nat, last : Nat, delta : Nat],
               InRange(items, 0, 59)
        PROVE  Bits(items, 0, 59) \subseteq 0 .. 59 /\ Bits(items, 0, 59) # {}
    <3>1. Bits(items, 0, 59) \subseteq 0 .. 59 - 0 /\ Bits(items, 0, 59) # {}
      BY <2>1, <2>3, BitsInRange
    <3> QED BY <2>1, <3>1
  <2> QED BY <1>2, <2>1, <2>2, <2>3
<1>4. Bits(f[3], 0, 23) \subseteq 0 .. 23 /\ Bits(f[3], 0, 23) # {}
  <2>1. 0 \in 0 .. 1 /\ 23 \in 0 .. 255 /\ 23 - 0 = 23 /\ 3 \in 1 .. 6 OBVIOUS
  <2>2. InRange(f[3], 0, 23) BY <1>1 DEF Valid
  <2>3. Bits(f[3], 0, 23) \subseteq 0 .. 23 - 0 /\ Bits(f[3], 0, 23) # {}
    BY <1>2, <2>1, <2>2, BitsInRange
  <2> QED BY <2>1, <2>3
<1>5. Bits(f[4], 1, 31) \subseteq 0 .. 30 /\ Bits(f[4], 1, 31) # {}
  <2>1. 1 \in 0 .. 1 /\ 31 \in 0 .. 255 /\ 31 - 1 = 30 /\ 4 \in 1 .. 6 OBVIOUS
  <2>2. InRange(f[4], 1, 31) BY <1>1 DEF Valid
  <2>3. Bits(f[4], 1, 31) \subseteq 0 .. 31 - 1 /\ Bits(f[4], 1, 31) # {}
    BY <1>2, <2>1, <2>2, BitsInRange
  <2> QED BY <2>1, <2>3
<1>6. Bits(f[5], 1, 12) \subseteq 0 .. 11 /\ Bits(f[5], 1, 12) # {}
  <2>1. 1 \in 0 .. 1 /\ 12 \in 0 .. 255 /\ 12 - 1 = 11 /\ 5 \in 1 .. 6 OBVIOUS
  <2>2. InRange(f[5], 1, 12) BY <1>1 DEF Valid
  <2>3. Bits(f[5], 1, 12) \subseteq 0 .. 12 - 1 /\ Bits(f[5], 1, 12) # {}
    BY <1>2, <2>1, <2>2, BitsInRange
  <2> QED BY <2>1, <2>3
<1>7. Bits(f[6], 0, 6) \subseteq 0 .. 6 /\ Bits(f[6], 0, 6) # {}
  <2>1. 0 \in 0 .. 1 /\ 6 \in 0 .. 255 /\ 6 - 0 = 6 /\ 6 \in 1 .. 6 OBVIOUS
  <2>2. InRange(f[6], 0, 6) BY <1>1 DEF Valid
  <2>3. Bits(f[6], 0, 6) \subseteq 0 .. 6 - 0 /\ Bits(f[6], 0, 6) # {}
    BY <1>2, <2>1, <2>2, BitsInRange
  <2> QED BY <2>1, <2>3
<1>8. /\ MakeCron(f).sec = Bits(f[1], 0, 59) /\ MakeCron(f).min = Bits(f[2], 0, 59)
      /\ MakeCron(f).hour = Bits(f[3], 0, 23) /\ MakeCron(f).mday = Bits(f[4], 1, 31)
      /\ MakeCron(f).mon = Bits(f[5], 1, 12) /\ MakeCron(f).wday = Bits(f[6], 0, 6)
  BY DEF MakeCron
<1>9. IsCron(MakeCron(f)) BY <1>3, <1>4, <1>5, <1>6, <1>7, <1>8 DEF IsCron
<1> QED BY <1>1, <1>9

-----------------------------------------------------------------------------
(***************************************************************************)
(* The inductive invariant.  While cron_next searches, no time before the  *)
(* one reached is named; the fields before that of the call on top fit,    *)
(* and those behind the second are marked, so that a field that moves      *)
(* begins at their least values; or every field fits, and every call comes *)
(* to its end.                                                             *)
(***************************************************************************)
Named(cex, t) == \A n \in 1 .. 5 : Fits(cex, Fields[n], t)
NoneNamed(cex, t, u) == \A x \in Nat : t <= x /\ x < u => ~Named(cex, x)

\* A second from which the next that fits is the least, but where all else fits
Least(cex, s) == \A x \in cex.sec : s <= x
OneSecond(cex) == \E s \in 0 .. 59 : cex.sec = {s}
EarlySecond(cex, t) ==
    \/ t % 60 \in cex.sec \/ OneSecond(cex) \/ Least(cex, t % 60)
    \/ \E x \in Nat : t = x + 1 /\ Named(cex, x)

\* What the call on top, at a field with some marked, knows of the time reached
Narrowed(cex, t, at, marked) ==
    /\ \A n \in 1 .. 5 : n < at => Fits(cex, Fields[n], t)
    /\ \A n \in 2 .. 5 : n < at => Fields[n] \in marked
    /\ \A f \in marked : \E n \in 1 .. 5 : n < at /\ f = Fields[n]

Reached(cex, begin, plain, t, at, marked) ==
    /\ t \in Nat /\ begin <= t /\ (Named(cex, t) \/ Narrowed(cex, t, at, marked))
    /\ plain =>
         /\ NoneNamed(cex, begin, t)
         /\ \/ Named(cex, t)
            \/ IF at = 1 THEN EarlySecond(cex, t)
               ELSE "sec" \in marked \/ Least(cex, t % 60)

PlainSecond(cex) == now % 60 \in cex.sec \/ OneSecond(cex)
Begin == IF again THEN now + 1 ELSE now
NewYear(y) == At(YearStart(y), 0, 0, 0)

CronTypes ==
    /\ expression \in DOMAIN Cron /\ now \in Nat /\ again \in BOOLEAN
    /\ frames \in Seq([at : 1 .. 6, marked : SUBSET {Fields[n] : n \in 1 .. 5}])

SearchFrom(cex, begin, plain, d, y, top) ==
    /\ y = DateAt(begin).year
    /\ \E t \in Nat : d = DateAt(t) /\ Reached(cex, begin, plain, t, top.at, top.marked)

IdleAfter(cex, n, begin, plain, due, y) ==
    IF due = Invalid
      THEN /\ y = DateAt(begin).year /\ cex.wday = 0 .. 6
           /\ plain => NoneNamed(cex, begin, NewYear(y + 5))
      ELSE /\ due \in Nat /\ n < due /\ Named(cex, due)
           /\ plain => NoneNamed(cex, n + 1, due)

Search(cex) == SearchFrom(cex, Begin, PlainSecond(cex), date, dot, Top)
Idle(cex) == IdleAfter(cex, now, Begin, PlainSecond(cex), due_at, dot)

CronIInv ==
    PlainDays(Cron[expression]) =>
        /\ CronTypes
        /\ IF frames = <<>> THEN Idle(Cron[expression]) ELSE Search(Cron[expression])

-----------------------------------------------------------------------------
(***************************************************************************)
(* The fields of a time, and what find_next makes of each                  *)
(***************************************************************************)
LEMMA FieldNames ==
    /\ Fields[1] = "sec" /\ Fields[2] = "min" /\ Fields[3] = "hour"
    /\ Fields[4] = "mday" /\ Fields[5] = "mon" /\ Len(Fields) = 5
    /\ NextField["sec"] = "min" /\ NextField["min"] = "hour" /\ NextField["hour"] = "mday"
    /\ NextField["mon"] = "year"
BY DEF Fields, NextField

LEMMA FitsDate ==
    ASSUME NEW cex, NEW day \in Nat, NEW y, NEW m, NEW k, DateIs(day, y, m, k),
           NEW h, NEW i, NEW s, InClock(h, i, s)
    PROVE  LET t == At(day, h, i, s)
           IN  /\ Fits(cex, "mday", t) <=> FitsOn(cex, day)
               /\ Fits(cex, "mon", t) <=> m \in cex.mon
               /\ Named(cex, t) <=> /\ s \in cex.sec /\ i \in cex.min /\ h \in cex.hour
                                    /\ FitsOn(cex, day) /\ m \in cex.mon
<1> DEFINE t == At(day, h, i, s)
<1>1. /\ Fits(cex, "sec", t) <=> s \in cex.sec
      /\ Fits(cex, "min", t) <=> i \in cex.min
      /\ Fits(cex, "hour", t) <=> h \in cex.hour
  BY FitsClock
<1>2. DateAt(t)["mon"] = m
  <2>1. DateAt(t) = Date(y, m, k + 1, h, i, s) BY DateFields
  <2> QED BY <2>1 DEF Date
<1>3. DayFits(cex, t) <=> FitsOn(cex, day) BY DayFitsOn
<1> HIDE DEF t
<1>4. Fits(cex, "mday", t) <=> FitsOn(cex, day) BY <1>3 DEF Fits
<1>5. Fits(cex, "mon", t) <=> m \in cex.mon BY <1>2 DEF Fits
<1>6. Named(cex, t) <=> /\ Fits(cex, "sec", t) /\ Fits(cex, "min", t) /\ Fits(cex, "hour", t)
                        /\ Fits(cex, "mday", t) /\ Fits(cex, "mon", t)
  <2>1. \A n \in 1 .. 5 : n = 1 \/ n = 2 \/ n = 3 \/ n = 4 \/ n = 5 OBVIOUS
  <2>2. 1 \in 1 .. 5 /\ 2 \in 1 .. 5 /\ 3 \in 1 .. 5 /\ 4 \in 1 .. 5 /\ 5 \in 1 .. 5 OBVIOUS
  <2> QED BY <2>1, <2>2, FieldNames, Zenon DEF Named
<1> QED BY <1>1, <1>4, <1>5, <1>6 DEF t

Move(cex, field, d, marked) ==
    IF field = "mday" THEN MoveDay(cex, d, marked)
    ELSE MoveField(cex[field], d, field, NextField[field], marked)

\* A field that fits stays.
LEMMA FieldFits ==
    ASSUME NEW cex, IsCron(cex), PlainDays(cex), NEW t \in Nat, NEW n \in 1 .. 5,
           Fits(cex, Fields[n], t), NEW marked
    PROVE  Move(cex, Fields[n], DateAt(t), marked) = [date |-> DateAt(t), same |-> TRUE]
<1>1. CASE Fields[n] = "mday"
  <2>1. PICK day \in Nat, h \in 0 .. 23, i \in 0 .. 59, s \in 0 .. 59 : t = At(day, h, i, s)
    BY ClockOf
  <2>2. InClock(h, i, s) BY DEF InClock
  <2>3. PICK y, m, k : DateIs(day, y, m, k) BY DateOfDay
  <2>4. FitsOn(cex, day) BY <1>1, <2>1, <2>2, <2>3, FitsDate
  <2>5. MoveDay(cex, DateAt(t), marked) = [date |-> DateAt(t), same |-> TRUE]
    BY <2>1, <2>2, <2>4, DayStays
  <2> QED BY <1>1, <2>5 DEF Move
<1>2. CASE Fields[n] # "mday"
  <2>1. cex[Fields[n]] \subseteq Nat
    <3>1. n = 1 \/ n = 2 \/ n = 3 \/ n = 4 \/ n = 5 OBVIOUS
    <3>2. /\ cex["sec"] \subseteq Nat /\ cex["min"] \subseteq Nat /\ cex["hour"] \subseteq Nat
          /\ cex["mon"] \subseteq Nat
      BY DEF IsCron
    <3> QED BY <1>2, <3>1, <3>2, FieldNames
  <2>2. DateAt(t)[Fields[n]] \in cex[Fields[n]] BY <1>2 DEF Fits
  <2>3. MoveField(cex[Fields[n]], DateAt(t), Fields[n], NextField[Fields[n]], marked)
          = [date |-> DateAt(t), same |-> TRUE]
    BY <2>1, <2>2, FieldStaysThere
  <2> QED BY <1>2, <2>3 DEF Move
<1> QED BY <1>1, <1>2

\* One behind the second that does not fit moves, the fields before it at their least.
LEMMA FieldMovesThere ==
    ASSUME NEW cex, IsCron(cex), PlainDays(cex), NEW t \in Nat, NEW n \in 2 .. 5,
           ~Fits(cex, Fields[n], t), NEW marked, Narrowed(cex, t, n, marked)
    PROVE  MovesTo(cex, Fields[n], t, marked, Move(cex, Fields[n], DateAt(t), marked))
<1>1. PICK day \in Nat, h \in 0 .. 23, i \in 0 .. 59, s \in 0 .. 59 : t = At(day, h, i, s)
  BY ClockOf
<1>2. InClock(h, i, s) BY DEF InClock
<1>3. PICK y, m, k : DateIs(day, y, m, k) BY DateOfDay
<1>4. /\ Fits(cex, "min", t) <=> i \in cex.min
      /\ Fits(cex, "hour", t) <=> h \in cex.hour
  BY <1>1, <1>2, FitsClock
<1>5. /\ Fits(cex, "mday", t) <=> FitsOn(cex, day)
      /\ Fits(cex, "mon", t) <=> m \in cex.mon
  BY <1>1, <1>2, <1>3, FitsDate
<1>6. \A f \in marked : \E j \in 1 .. 5 : j < n /\ f = Fields[j] BY DEF Narrowed
<1>7. \A j \in 2 .. 5 : j < n => Fields[j] \in marked BY DEF Narrowed
<1>8. \A j \in 1 .. 5 : j = 1 \/ j = 2 \/ j = 3 \/ j = 4 \/ j = 5 OBVIOUS
<1>9. CASE n = 2
  <2>1. marked \subseteq {"sec"}
    <3>1. \A j \in 1 .. 5 : j < 2 => j = 1 OBVIOUS
    <3> QED BY <1>6, <1>9, <3>1, FieldNames
  <2>2. MovesTo(cex, "min", t, marked, MoveField(cex.min, DateAt(t), "min", "hour", marked))
    BY <1>1, <1>2, <1>4, <1>9, <2>1, FieldNames, MinuteMoves
  <2> QED BY <1>9, <2>2, FieldNames DEF Move
<1>10. CASE n = 3
  <2>1. marked \subseteq {"sec", "min"}
    <3>1. \A j \in 1 .. 5 : j < 3 => j = 1 \/ j = 2 OBVIOUS
    <3> QED BY <1>6, <1>10, <3>1, FieldNames
  <2>2. "min" \in marked
    <3>1. 2 \in 2 .. 5 /\ 2 < 3 OBVIOUS
    <3> QED BY <1>7, <1>10, <3>1, FieldNames
  <2>3. MovesTo(cex, "hour", t, marked, MoveField(cex.hour, DateAt(t), "hour", "mday", marked))
    BY <1>1, <1>2, <1>4, <1>10, <2>1, <2>2, FieldNames, HourMoves
  <2> QED BY <1>10, <2>3, FieldNames DEF Move
<1>11. CASE n = 4
  <2>1. marked \subseteq {"sec", "min", "hour"}
    <3>1. \A j \in 1 .. 5 : j < 4 => j = 1 \/ j = 2 \/ j = 3 OBVIOUS
    <3> QED BY <1>6, <1>11, <3>1, FieldNames
  <2>2. "min" \in marked /\ "hour" \in marked
    <3>1. 2 \in 2 .. 5 /\ 2 < 4 /\ 3 \in 2 .. 5 /\ 3 < 4 OBVIOUS
    <3> QED BY <1>7, <1>11, <3>1, FieldNames
  <2>3. MovesTo(cex, "mday", t, marked, MoveDay(cex, DateAt(t), marked))
    BY <1>1, <1>2, <1>5, <1>11, <2>1, <2>2, FieldNames, DayMoves
  <2> QED BY <1>11, <2>3, FieldNames DEF Move
<1>12. CASE n = 5
  <2>1. marked \subseteq {"sec", "min", "hour", "mday"}
    <3>1. \A j \in 1 .. 5 : j < 5 => j = 1 \/ j = 2 \/ j = 3 \/ j = 4 OBVIOUS
    <3> QED BY <1>6, <1>12, <3>1, FieldNames
  <2>2. "min" \in marked /\ "hour" \in marked /\ "mday" \in marked
    <3>1. 2 \in 2 .. 5 /\ 2 < 5 /\ 3 \in 2 .. 5 /\ 3 < 5 /\ 4 \in 2 .. 5 /\ 4 < 5 OBVIOUS
    <3> QED BY <1>7, <1>12, <3>1, FieldNames
  <2>3. m \notin cex.mon /\ m \in 0 .. 11 BY <1>3, <1>5, <1>12, FieldNames DEF DateIs
  <2>4. k \in 0 .. 27
    <3>1. FitsOn(cex, day)
      <4>1. 4 \in 1 .. 5 /\ 4 < 5 OBVIOUS
      <4>2. Fits(cex, Fields[4], t) BY <1>12, <4>1 DEF Narrowed
      <4> QED BY <1>5, <4>2, FieldNames
    <3>2. k \in cex.mday BY <1>2, <1>3, <3>1, DayFitsOn
    <3>3. cex.mday \subseteq 0 .. 27 BY <2>3 DEF PlainDays
    <3> QED BY <3>2, <3>3
  <2>5. MovesTo(cex, "mon", t, marked, MoveField(cex.mon, DateAt(t), "mon", "year", marked))
    BY <1>1, <1>2, <1>3, <2>1, <2>2, <2>3, <2>4, MonthMoves
  <2> QED BY <1>12, <2>5, FieldNames DEF Move
<1> QED BY <1>8, <1>9, <1>10, <1>11, <1>12

-----------------------------------------------------------------------------
(***************************************************************************)
(* Each step of find_next keeps what is known of the time reached.         *)
(***************************************************************************)
LEMMA NamedFits ==
    ASSUME NEW cex, NEW t, NEW n \in 1 .. 5, ~Fits(cex, Fields[n], t)
    PROVE  ~Named(cex, t)
BY DEF Named

LEMMA NoneFurther ==
    ASSUME NEW cex, NEW begin \in Nat, NEW t \in Nat, NEW u \in Nat, begin <= t, t <= u,
           NoneNamed(cex, begin, t), NEW n \in 1 .. 5, NoneFits(cex, Fields[n], t, u)
    PROVE  NoneNamed(cex, begin, u)
<1> SUFFICES ASSUME NEW x \in Nat, begin <= x, x < u PROVE ~Named(cex, x)
  BY DEF NoneNamed
<1>1. CASE x < t BY <1>1 DEF NoneNamed
<1>2. CASE t <= x
  <2>1. ~Fits(cex, Fields[n], x) BY <1>2 DEF NoneFits
  <2> QED BY <2>1, NamedFits
<1> QED BY <1>1, <1>2

\* A second that moves goes to the least, or every field fits where it goes.
LEMMA SecondMovesThere ==
    ASSUME NEW cex, IsCron(cex), NEW begin \in Nat, NEW plain \in BOOLEAN, NEW t \in Nat,
           NEW marked, Reached(cex, begin, plain, t, 1, marked), ~Fits(cex, "sec", t)
    PROVE  /\ ~Move(cex, "sec", DateAt(t), marked).same
           /\ \E u \in Nat : /\ Move(cex, "sec", DateAt(t), marked).date = DateAt(u)
                            /\ Reached(cex, begin, plain, u, 2, marked)
<1> DEFINE moved == Move(cex, "sec", DateAt(t), marked)
<1>0. 1 \in 1 .. 5 /\ Fields[1] = "sec" /\ ~Fits(cex, Fields[1], t) BY FieldNames
<1>1. ~Named(cex, t) BY <1>0, NamedFits
<1>2. begin <= t /\ Narrowed(cex, t, 1, marked) BY <1>1 DEF Reached
<1>3. marked = {}
  <2>1. \A f \in marked : \E n \in 1 .. 5 : n < 1 BY <1>2 DEF Narrowed
  <2>2. ~ \E n \in 1 .. 5 : n < 1 OBVIOUS
  <2> QED BY <2>1, <2>2
<1>4. PICK day \in Nat, h \in 0 .. 23, i \in 0 .. 59, s \in 0 .. 59 : t = At(day, h, i, s)
  BY ClockOf
<1>5. InClock(h, i, s) BY DEF InClock
<1>6. s \notin cex.sec BY <1>4, <1>5, FitsClock
<1>7. moved = MoveField(cex.sec, DateAt(t), "sec", "min", {})
  BY <1>3, FieldNames DEF Move
<1>8. t % 60 = s
  <2>1. HasClock(t, day, h, i, s) BY <1>4, ClockParts
  <2> QED BY <2>1 DEF HasClock
<1> HIDE DEF moved
<1>9. /\ moved.same = FALSE
      /\ \E v \in cex.sec :
           \/ /\ s < v /\ \A x \in cex.sec : s <= x => v <= x
              /\ moved.date = DateAt(At(day, h, i, v))
              /\ NoneFits(cex, "sec", t, At(day, h, i, v))
           \/ /\ \A x \in cex.sec : v <= x
              /\ moved.date = DateAt(At(day, h, i + 1, v))
              /\ NoneFits(cex, "sec", t, At(day, h, i + 1, v))
  <2> DEFINE there == MoveField(cex.sec, DateAt(At(day, h, i, s)), "sec", "min", {})
  <2>1. moved = there BY <1>4, <1>7
  <2>2. /\ there.same = FALSE
        /\ \E v \in cex.sec :
             \/ /\ s < v /\ \A x \in cex.sec : s <= x => v <= x
                /\ there.date = DateAt(At(day, h, i, v))
                /\ NoneFits(cex, "sec", At(day, h, i, s), At(day, h, i, v))
             \/ /\ \A x \in cex.sec : v <= x
                /\ there.date = DateAt(At(day, h, i + 1, v))
                /\ NoneFits(cex, "sec", At(day, h, i, s), At(day, h, i + 1, v))
    BY <1>5, <1>6, SecondMoves
  <2> HIDE DEF there
  <2> QED BY <1>4, <2>1, <2>2
<1>10. \A x \in cex.sec : x \in 0 .. 59 BY DEF IsCron
\* Where it goes on the clock: a time on which its second is the one it moved to
<1>11. ASSUME NEW e \in Nat, NEW b \in 0 .. 23, NEW c \in 0 .. 59, NEW v \in cex.sec,
              t <= At(e, b, c, v), moved.date = DateAt(At(e, b, c, v)),
              NoneFits(cex, "sec", t, At(e, b, c, v)),
              plain => Named(cex, At(e, b, c, v)) \/ Least(cex, v)
       PROVE  \E u \in Nat : moved.date = DateAt(u) /\ Reached(cex, begin, plain, u, 2, marked)
  <2> DEFINE u == At(e, b, c, v)
  <2>1. v \in 0 .. 59 /\ InClock(b, c, v) BY <1>10 DEF InClock
  <2>2. HasClock(u, e, b, c, v) BY <2>1, ClockParts
  <2>3. u \in Nat /\ u % 60 = v BY <2>2 DEF HasClock
  <2>4. Fits(cex, "sec", u) BY <2>1, FitsClock
  <2>5. Narrowed(cex, u, 2, marked)
    <3>1. \A n \in 1 .. 5 : n < 2 => n = 1 OBVIOUS
    <3>2. \A n \in 2 .. 5 : ~(n < 2) OBVIOUS
    <3> HIDE DEF u
    <3> QED BY <1>0, <1>3, <2>4, <3>1, <3>2 DEF Narrowed
  <2>6. begin <= u BY <1>2, <1>11, <2>3
  <2>7. plain => NoneNamed(cex, begin, u)
    <3> SUFFICES ASSUME plain PROVE NoneNamed(cex, begin, u) OBVIOUS
    <3>1. NoneNamed(cex, begin, t) BY DEF Reached
    <3>2. NoneFits(cex, Fields[1], t, u) BY <1>0, <1>11
    <3> HIDE DEF u
    <3> QED BY <1>0, <1>2, <1>11, <2>3, <3>1, <3>2, NoneFurther DEF u
  <2>8. plain => Named(cex, u) \/ Least(cex, u % 60) BY <1>11, <2>3
  <2>9. moved.date = DateAt(u) BY <1>11
  <2> HIDE DEF u
  <2>10. Reached(cex, begin, plain, u, 2, marked)
    BY <2>3, <2>5, <2>6, <2>7, <2>8 DEF Reached
  <2> QED BY <2>3, <2>9, <2>10
<1>12. plain => EarlySecond(cex, t) BY <1>1 DEF Reached
<1>13. ASSUME NEW v \in cex.sec, s < v, \A x \in cex.sec : s <= x => v <= x, EarlySecond(cex, t)
       PROVE  Named(cex, At(day, h, i, v)) \/ Least(cex, v)
  <2>0. v \in 0 .. 59 /\ InClock(h, i, v) BY <1>10 DEF InClock
  <2>1. CASE t % 60 \in cex.sec BY <1>6, <1>8, <2>1
  <2>2. CASE OneSecond(cex)
    <3>1. \A x \in cex.sec : x = v BY <2>2 DEF OneSecond
    <3> QED BY <2>0, <3>1 DEF Least
  <2>3. CASE Least(cex, t % 60)
    <3>1. \A x \in cex.sec : s <= x BY <1>8, <2>3 DEF Least
    <3> QED BY <1>13, <3>1 DEF Least
  <2>4. ASSUME NEW x \in Nat, t = x + 1, Named(cex, x)
        PROVE  Named(cex, At(day, h, i, v)) \/ Least(cex, v)
    <3>1. CASE s = 0
      <4>1. \A z \in cex.sec : s <= z BY <1>10, <3>1
      <4> QED BY <1>13, <4>1 DEF Least
    <3>2. CASE s # 0
      <4>1. s - 1 \in 0 .. 59 /\ InClock(h, i, s - 1) BY <3>2 DEF InClock
      <4>2. x = At(day, h, i, s - 1) BY <1>4, <2>4 DEF At
      <4>3. PICK y, m, k : DateIs(day, y, m, k) BY DateOfDay
      <4>4. i \in cex.min /\ h \in cex.hour /\ FitsOn(cex, day) /\ m \in cex.mon
        BY <2>4, <4>1, <4>2, <4>3, FitsDate
      <4> QED BY <2>0, <4>3, <4>4, FitsDate
    <3> QED BY <3>1, <3>2
  <2> QED BY <1>13, <2>1, <2>2, <2>3, <2>4 DEF EarlySecond
<1>14. ASSUME NEW v \in cex.sec, s < v, \A x \in cex.sec : s <= x => v <= x,
              moved.date = DateAt(At(day, h, i, v)), NoneFits(cex, "sec", t, At(day, h, i, v))
       PROVE  \E u \in Nat : moved.date = DateAt(u) /\ Reached(cex, begin, plain, u, 2, marked)
  <2>1. t <= At(day, h, i, v)
    <3>1. v \in 0 .. 59 BY <1>10
    <3>2. /\ t = 60 * ((day * 24 + h) * 60 + i) + s
          /\ At(day, h, i, v) = 60 * ((day * 24 + h) * 60 + i) + v
      BY <1>4, <3>1 DEF At
    <3>3. s < v BY <1>14
    <3> QED BY <3>1, <3>2, <3>3
  <2>2. plain => Named(cex, At(day, h, i, v)) \/ Least(cex, v) BY <1>12, <1>13, <1>14
  <2> QED BY <1>11, <1>14, <2>1, <2>2
<1>15. ASSUME NEW v \in cex.sec, \A x \in cex.sec : v <= x,
              moved.date = DateAt(At(day, h, i + 1, v)),
              NoneFits(cex, "sec", t, At(day, h, i + 1, v))
       PROVE  \E u \in Nat : moved.date = DateAt(u) /\ Reached(cex, begin, plain, u, 2, marked)
  <2>1. t <= At(day, h, i + 1, v) BY <1>4, <1>10 DEF At
  <2>2. v \in Nat BY <1>10
  <2>3. PICK e \in Nat, b \in 0 .. 23, c \in 0 .. 59 :
          \A z \in Nat : At(day, h, i + 1, z) = At(e, b, c, z)
    BY CarryMinute
  <2>4. At(day, h, i + 1, v) = At(e, b, c, v) BY <2>2, <2>3
  <2>5. Least(cex, v) BY <1>15 DEF Least
  <2> QED BY <1>11, <1>15, <2>1, <2>4, <2>5
<1>16. \E u \in Nat : moved.date = DateAt(u) /\ Reached(cex, begin, plain, u, 2, marked)
  BY <1>9, <1>14, <1>15
<1> QED BY <1>9, <1>16 DEF moved

\* A field that stays
LEMMA FieldStaysKnown ==
    ASSUME NEW cex, NEW begin, NEW plain \in BOOLEAN, NEW t, NEW at \in 1 .. 5, NEW marked,
           Reached(cex, begin, plain, t, at, marked), Fits(cex, Fields[at], t)
    PROVE  Reached(cex, begin, plain, t, at + 1, marked \cup {Fields[at]})
<1>1. CASE Named(cex, t) BY <1>1 DEF Reached
<1>2. CASE ~Named(cex, t)
  <2>1. Narrowed(cex, t, at, marked) BY <1>2 DEF Reached
  <2>2. Narrowed(cex, t, at + 1, marked \cup {Fields[at]})
    <3>1. \A n \in 1 .. 5 : n < at + 1 => n < at \/ n = at OBVIOUS
    <3>2. \A n \in 1 .. 5 : n < at => n < at + 1 OBVIOUS
    <3>3. at < at + 1 OBVIOUS
    <3>4. \A n \in 1 .. 5 : n < at + 1 => Fits(cex, Fields[n], t) BY <2>1, <3>1 DEF Narrowed
    <3>5. \A n \in 2 .. 5 : n < at + 1 => Fields[n] \in marked \cup {Fields[at]}
      <4>1. \A n \in 2 .. 5 : n \in 1 .. 5 OBVIOUS
      <4> QED BY <2>1, <3>1, <4>1 DEF Narrowed
    <3>6. \A f \in marked \cup {Fields[at]} : \E n \in 1 .. 5 : n < at + 1 /\ f = Fields[n]
      BY <2>1, <3>2, <3>3 DEF Narrowed
    <3> QED BY <3>4, <3>5, <3>6 DEF Narrowed
  <2>3. plain => "sec" \in marked \cup {Fields[at]} \/ Least(cex, t % 60)
    <3>1. CASE at = 1 BY <3>1, FieldNames
    <3>2. CASE at # 1 BY <1>2, <3>2 DEF Reached
    <3> QED BY <3>1, <3>2
  <2>4. at + 1 # 1 OBVIOUS
  <2> QED BY <1>2, <2>2, <2>3, <2>4 DEF Reached
<1> QED BY <1>1, <1>2

\* A field behind the second that moves
LEMMA FieldMovesKnown ==
    ASSUME NEW cex, IsCron(cex), PlainDays(cex),
           NEW begin \in Nat, NEW plain \in BOOLEAN, NEW t \in Nat, NEW at \in 2 .. 5, NEW marked,
           Reached(cex, begin, plain, t, at, marked), ~Fits(cex, Fields[at], t)
    PROVE  /\ ~Move(cex, Fields[at], DateAt(t), marked).same
           /\ \E u \in Nat : /\ Move(cex, Fields[at], DateAt(t), marked).date = DateAt(u)
                            /\ Reached(cex, begin, plain, u, 1, {})
<1> DEFINE moved == Move(cex, Fields[at], DateAt(t), marked)
<1>0. at \in 1 .. 5 /\ at # 1 OBVIOUS
<1>1. ~Named(cex, t) BY <1>0, NamedFits
<1>2. begin <= t /\ Narrowed(cex, t, at, marked) BY <1>1 DEF Reached
<1>3. plain => NoneNamed(cex, begin, t) /\ ("sec" \in marked \/ Least(cex, t % 60))
  BY <1>0, <1>1 DEF Reached
<1>4. MovesTo(cex, Fields[at], t, marked, moved) BY <1>2, FieldMovesThere
<1> HIDE DEF moved
<1>5. PICK start \in Nat : /\ t < start /\ start % 60 = 0
                          /\ NoneFits(cex, Fields[at], t, start)
                          /\ moved.date = DateAt(start + Kept(marked, "sec", t % 60))
  BY <1>4 DEF MovesTo
<1> DEFINE rest == Kept(marked, "sec", t % 60)
           u == start + rest
<1>6. rest \in 0 .. 59 BY DEF Kept
<1>7. rest = 0 \/ (rest = t % 60 /\ "sec" \notin marked) BY DEF Kept
<1>8. moved.date = DateAt(u) BY <1>5
<1> HIDE DEF rest
<1>9. u \in Nat /\ t <= start /\ begin <= start /\ begin <= u /\ start <= u BY <1>2, <1>5, <1>6
<1>10. \A x \in Nat : start <= x /\ x < u => x % 60 \in 0 .. 59 /\ x % 60 < rest
  <2> SUFFICES ASSUME NEW x \in Nat, start <= x, x < u PROVE x % 60 \in 0 .. 59 /\ x % 60 < rest
    OBVIOUS
  <2>1. start = 60 * (start \div 60) /\ start \div 60 \in Nat BY <1>5
  <2>2. PICK q \in Nat : start = 60 * q BY <2>1
  <2>3. x - start \in 0 .. 59 /\ x = 60 * q + (x - start) /\ x - start < rest
    BY <1>6, <2>2
  <2>4. x % 60 = x - start BY <2>3
  <2> QED BY <2>3, <2>4
<1>11. u % 60 = rest
  <2>1. PICK q \in Nat : start = 60 * q
    <3>1. start = 60 * (start \div 60) /\ start \div 60 \in Nat BY <1>5
    <3> QED BY <3>1
  <2> QED BY <1>6, <2>1
<1>12. ASSUME plain PROVE Least(cex, u % 60)
  <2>1. CASE rest = 0
    <3>1. \A x \in cex.sec : x \in Nat BY DEF IsCron
    <3> QED BY <1>11, <2>1, <3>1 DEF Least
  <2>2. CASE rest # 0
    <3>1. rest = t % 60 /\ Least(cex, t % 60) BY <1>3, <1>7, <1>12, <2>2
    <3> QED BY <1>11, <3>1
  <2> QED BY <2>1, <2>2
<1>13. ASSUME plain PROVE NoneNamed(cex, begin, u)
  <2>1. NoneNamed(cex, begin, start) BY <1>0, <1>2, <1>3, <1>5, <1>9, <1>13, NoneFurther
  <2>2. NoneFits(cex, Fields[1], start, u)
    <3> SUFFICES ASSUME NEW x \in Nat, start <= x, x < u PROVE ~Fits(cex, "sec", x)
      BY FieldNames DEF NoneFits
    <3>1. x % 60 \in 0 .. 59 /\ x % 60 < rest BY <1>10
    <3>2. \A z \in cex.sec : rest <= z BY <1>11, <1>12, <1>13 DEF Least
    <3>3. x % 60 \notin cex.sec
      <4>1. \A z \in cex.sec : z \in Nat BY DEF IsCron
      <4> QED BY <1>6, <3>1, <3>2, <4>1
    <3>4. PICK a \in Nat, b \in 0 .. 23, c \in 0 .. 59, e \in 0 .. 59 : x = At(a, b, c, e)
      BY ClockOf
    <3>5. InClock(b, c, e) BY DEF InClock
    <3>6. x % 60 = e
      <4>1. HasClock(x, a, b, c, e) BY <3>4, ClockParts
      <4> QED BY <4>1 DEF HasClock
    <3> QED BY <3>3, <3>4, <3>5, <3>6, FitsClock
  <2>3. 1 \in 1 .. 5 OBVIOUS
  <2> HIDE DEF u
  <2> QED BY <1>9, <2>1, <2>2, <2>3, NoneFurther
<1> HIDE DEF u
<1>14. Narrowed(cex, u, 1, {})
  <2>1. \A n \in 1 .. 5 : ~(n < 1) OBVIOUS
  <2>2. \A n \in 2 .. 5 : ~(n < 1) OBVIOUS
  <2> QED BY <2>1, <2>2 DEF Narrowed
<1>15. Reached(cex, begin, plain, u, 1, {})
  BY <1>9, <1>12, <1>13, <1>14 DEF Reached, EarlySecond
<1>16. moved.same = FALSE BY <1>4 DEF MovesTo
<1> QED BY <1>8, <1>9, <1>15, <1>16 DEF moved

-----------------------------------------------------------------------------
(***************************************************************************)
(* The invariant holds when the task is added, and every step keeps it.    *)
(***************************************************************************)
LEMMA TimeBack ==
    ASSUME NEW t \in Nat
    PROVE  /\ TimeOf(DateAt(t)) = t /\ DateAt(t).year \in Years
           /\ add_to_field(DateAt(t), "sec", 1) = DateAt(t + 1)
           /\ DateAt(t).sec = t % 60
<1>1. PICK day \in Nat, h \in 0 .. 23, i \in 0 .. 59, s \in 0 .. 59 : t = At(day, h, i, s)
  BY ClockOf
<1>2. InClock(h, i, s) BY DEF InClock
<1>3. PICK y, m, k : DateIs(day, y, m, k) BY DateOfDay
<1>4. TimeOf(DateAt(t)) = t /\ DateAt(t).sec = s BY <1>1, <1>2, TimeOfDay
<1>5. DateAt(t).year \in Years
  <2>1. DateAt(t) = Date(y, m, k + 1, h, i, s) BY <1>1, <1>2, <1>3, DateFields
  <2>2. y \in Years BY <1>3 DEF DateIs
  <2> QED BY <2>1, <2>2 DEF Date
<1>6. add_to_field(DateAt(t), "sec", 1) = DateAt(t + 1)
  <2>1. 1 \in Nat OBVIOUS
  <2>2. add_to_field(DateAt(At(day, h, i, s)), "sec", 1) = DateAt(At(day, h, i, s + 1))
    BY <1>2, <2>1, SetFields
  <2>3. At(day, h, i, s + 1) = At(day, h, i, s) + 1 BY DEF At
  <2> QED BY <1>1, <2>2, <2>3
<1>7. t % 60 = s
  <2>1. HasClock(t, day, h, i, s) BY <1>1, ClockParts
  <2> QED BY <2>1 DEF HasClock
<1> QED BY <1>4, <1>5, <1>6, <1>7

\* The year of a time is the one between whose beginning and end it lies.
LEMMA YearOfTime ==
    ASSUME NEW t \in Nat, NEW y \in Years
    PROVE  /\ y <= DateAt(t).year => NewYear(y) <= t
           /\ DateAt(t).year < y => t < NewYear(y)
<1>1. PICK day \in Nat, h \in 0 .. 23, i \in 0 .. 59, s \in 0 .. 59 : t = At(day, h, i, s)
  BY ClockOf
<1>2. InClock(h, i, s) BY DEF InClock
<1>3. PICK z, m, k : DateIs(day, z, m, k) BY DateOfDay
<1>4. DateAt(t).year = z
  <2>1. DateAt(t) = Date(z, m, k + 1, h, i, s) BY <1>1, <1>2, <1>3, DateFields
  <2> QED BY <2>1 DEF Date
<1>5. z \in Years /\ m \in 0 .. 11 BY <1>3 DEF DateIs
<1>6. MonthStart(y, 0) = YearStart(y) BY MonthStarts
<1>7. t < NewYear(y) <=> (z < y \/ (z = y /\ m < 0))
  <2>1. 0 \in 0 .. 11 OBVIOUS
  <2>2. At(day, h, i, s) < At(MonthStart(y, 0), 0, 0, 0) <=> (z < y \/ (z = y /\ m < 0))
    BY <1>2, <1>3, <2>1, BeforeMonth
  <2> QED BY <1>1, <1>6, <2>2 DEF NewYear
<1>8. NewYear(y) \in Nat
  <2>1. YearStart(y) \in Nat BY YearLength
  <2> QED BY <2>1 DEF NewYear, At
<1> QED BY <1>4, <1>5, <1>7, <1>8 DEF Years

Frame == [at : 1 .. 6, marked : SUBSET {Fields[n] : n \in 1 .. 5}]

LEMMA FramePassed ==
    ASSUME frames \in Seq(Frame), frames # <<>>, Top.at \in 1 .. 5,
           NEW marked \in SUBSET {Fields[n] : n \in 1 .. 5}
    PROVE  /\ Passed(marked) \in Seq(Frame) /\ Passed(marked) # <<>>
           /\ Len(Passed(marked)) = Len(frames)
           /\ Passed(marked)[Len(frames)] = [at |-> Top.at + 1, marked |-> marked]
<1> DEFINE n == Len(frames)
           call == [at |-> Top.at + 1, marked |-> marked]
<1>1. n \in Nat /\ n \in 1 .. n BY DEF Top
<1>2. call \in Frame
  <2>1. Top.at + 1 \in 1 .. 6 OBVIOUS
  <2> QED BY <2>1 DEF Frame
<1>3. Passed(marked) = [frames EXCEPT ![n] = call] BY DEF Passed, Top
<1> HIDE DEF call
<1>4. /\ [frames EXCEPT ![n] = call] \in Seq(Frame)
      /\ Len([frames EXCEPT ![n] = call]) = n
      /\ [frames EXCEPT ![n] = call][n] = call
  BY <1>1, <1>2
<1>5. Passed(marked) # <<>> BY <1>1, <1>3, <1>4
<1> QED BY <1>3, <1>4, <1>5 DEF call

LEMMA TopIs ==
    ASSUME CronTypes, frames # <<>>
    PROVE  /\ frames \in Seq(Frame) /\ Len(frames) \in Nat /\ Len(frames) # 0
           /\ Top \in Frame /\ Top.at \in 1 .. 6
           /\ Top.marked \in SUBSET {Fields[n] : n \in 1 .. 5}
<1>1. frames \in Seq(Frame) BY DEF CronTypes, Frame
<1>2. Len(frames) \in Nat /\ Len(frames) # 0 BY <1>1
<1>3. Len(frames) \in 1 .. Len(frames) BY <1>2
<1>4. Top \in Frame BY <1>1, <1>3 DEF Top
<1>5. Top.at \in 1 .. 6 /\ Top.marked \in SUBSET {Fields[n] : n \in 1 .. 5}
  BY <1>4 DEF Frame
<1> QED BY <1>1, <1>2, <1>4, <1>5

\* A call behind its last field: every field fits.
LEMMA AllFit ==
    ASSUME NEW cex, NEW begin, NEW plain, NEW t, NEW marked, Reached(cex, begin, plain, t, 6, marked)
    PROVE  Named(cex, t)
<1>1. \A n \in 1 .. 5 : n < 6 OBVIOUS
<1> QED BY <1>1 DEF Reached, Narrowed, Named

LEMMA PlainIs ==
    ASSUME CronTypes
    PROVE  /\ IsCron(Cron[expression]) /\ Begin \in Nat
           /\ PlainSecond(Cron[expression]) \in BOOLEAN
<1>1. expression \in DOMAIN Cron /\ now \in Nat BY DEF CronTypes
<1>2. IsCron(Cron[expression]) BY <1>1, CronIs
<1>3. Begin \in Nat BY <1>1 DEF Begin
<1> QED BY <1>2, <1>3 DEF PlainSecond, OneSecond

LEMMA CronStarts == CronInit => CronIInv
<1> SUFFICES ASSUME CronInit PROVE CronIInv OBVIOUS
<1>1. /\ expression \in DOMAIN Cron /\ now \in Nat /\ again = FALSE /\ frames = <<NewCall>>
      /\ date = DateAt(now) /\ dot = DateAt(now).year
  BY StartsAssumption DEF CronInit
<1>2. Frame = [at : 1 .. 6, marked : SUBSET {Fields[n] : n \in 1 .. 5}] BY DEF Frame
<1>3. NewCall \in Frame /\ NewCall.at = 1 /\ NewCall.marked = {}
  <2>1. 1 \in 1 .. 6 OBVIOUS
  <2> QED BY <2>1 DEF NewCall, Frame
<1>4. CronTypes
  <2>1. frames \in Seq(Frame) BY <1>1, <1>3
  <2> QED BY <1>1, <1>2, <2>1 DEF CronTypes
<1>5. frames # <<>> /\ Top = NewCall BY <1>1 DEF Top
<1>6. Begin = now BY <1>1 DEF Begin
<1> DEFINE cex == Cron[expression]
<1>7. Reached(cex, now, PlainSecond(cex), now, 1, {})
  <2>1. Narrowed(cex, now, 1, {})
    <3>1. \A n \in 1 .. 5 : ~(n < 1) OBVIOUS
    <3>2. \A n \in 2 .. 5 : ~(n < 1) OBVIOUS
    <3> QED BY <3>1, <3>2 DEF Narrowed
  <2>2. NoneNamed(cex, now, now)
    <3>1. \A x \in Nat : ~(now <= x /\ x < now) BY <1>1
    <3> QED BY <3>1 DEF NoneNamed
  <2>3. PlainSecond(cex) => EarlySecond(cex, now) BY DEF PlainSecond, EarlySecond
  <2>4. now <= now BY <1>1
  <2> HIDE DEF cex
  <2> QED BY <1>1, <2>1, <2>2, <2>3, <2>4 DEF Reached
<1>8. Search(cex) BY <1>1, <1>3, <1>5, <1>6, <1>7 DEF Search, SearchFrom
<1> QED BY <1>4, <1>5, <1>8 DEF CronIInv

\* Where the variables of the plan stay, so does what is known of it.
LEMMA SamePlan ==
    ASSUME CronTypes, UNCHANGED <<expression, now, again>>, frames' \in Seq(Frame)
    PROVE  /\ CronTypes' /\ Cron[expression]' = Cron[expression] /\ Begin' = Begin
           /\ PlainSecond(Cron[expression])' = PlainSecond(Cron[expression])
<1>1. /\ expression' = expression /\ now' = now /\ again' = again OBVIOUS
<1>2. Cron[expression]' = Cron[expression] BY <1>1
<1>3. Begin' = Begin BY <1>1 DEF Begin
<1>4. PlainSecond(Cron[expression])' = PlainSecond(Cron[expression])
  BY <1>1 DEF PlainSecond, OneSecond
<1>5. CronTypes' BY <1>1 DEF CronTypes, Frame
<1> QED BY <1>2, <1>3, <1>4, <1>5

\* A search that goes on: the invariant after a step
LEMMA SearchGoesOn ==
    ASSUME CronTypes, UNCHANGED <<expression, now, again, dot>>,
           frames' \in Seq(Frame), frames' # <<>>,
           PlainDays(Cron[expression]) =>
              SearchFrom(Cron[expression], Begin, PlainSecond(Cron[expression]), date', dot, Top')
    PROVE  CronIInv'
<1>1. /\ CronTypes' /\ Cron[expression]' = Cron[expression] /\ Begin' = Begin
      /\ PlainSecond(Cron[expression])' = PlainSecond(Cron[expression]) /\ dot' = dot
  BY SamePlan
<1>2. PlainDays(Cron[expression]') =>
        SearchFrom(Cron[expression]', Begin', PlainSecond(Cron[expression])', date', dot', Top')
  BY <1>1
<1> QED BY <1>1, <1>2 DEF CronIInv, Search

LEMMA FieldStaysKeeps == CronIInv /\ FieldStays => CronIInv'
<1> SUFFICES ASSUME CronIInv, FieldStays, PlainDays(Cron[expression]) PROVE CronIInv'
  BY DEF CronIInv, FieldStays
<1> DEFINE cex == Cron[expression]
           at == Top.at
           marked == Top.marked
           more == marked \cup (IF Moved.same THEN {CronField} ELSE {})
<1>1. CronTypes /\ frames # <<>> /\ at <= 5 BY FieldNames DEF CronIInv, FieldStays, Searching
<1>2. /\ frames \in Seq(Frame) /\ Len(frames) \in Nat /\ at \in 1 .. 6
      /\ marked \in SUBSET {Fields[n] : n \in 1 .. 5}
  BY <1>1, TopIs
<1>3. at \in 1 .. 5 BY <1>1, <1>2
<1>4. more \in SUBSET {Fields[n] : n \in 1 .. 5} BY <1>2, <1>3 DEF CronField
<1>5. /\ frames' = Passed(more) /\ date' = Moved.date
      /\ UNCHANGED <<expression, now, again, dot>> /\ (Moved.same \/ CronField = "sec")
  BY DEF FieldStays
<1>6. /\ frames' \in Seq(Frame) /\ frames' # <<>>
      /\ Top' = [at |-> at + 1, marked |-> more]
  <2>1. /\ Passed(more) \in Seq(Frame) /\ Passed(more) # <<>>
        /\ Len(Passed(more)) = Len(frames)
        /\ Passed(more)[Len(frames)] = [at |-> at + 1, marked |-> more]
    <3> HIDE DEF more
    <3> QED BY <1>1, <1>2, <1>3, <1>4, FramePassed
  <2>2. Top' = frames'[Len(frames')] BY DEF Top
  <2> HIDE DEF more, at
  <2> QED BY <1>5, <2>1, <2>2
<1>7. ASSUME PlainDays(cex)
      PROVE  SearchFrom(cex, Begin, PlainSecond(cex), date', dot, Top')
  <2>1. SearchFrom(cex, Begin, PlainSecond(cex), date, dot, Top)
    BY <1>1, <1>7 DEF CronIInv, Search
  <2>2. PICK t \in Nat : date = DateAt(t) /\ Reached(cex, Begin, PlainSecond(cex), t, at, marked)
    BY <2>1 DEF SearchFrom
  <2>3. IsCron(cex) /\ Begin \in Nat /\ PlainSecond(cex) \in BOOLEAN BY <1>1, PlainIs
  <2>4. Moved = Move(cex, Fields[at], DateAt(t), marked) BY <2>2 DEF Moved, Move, CronField
  <2>5. \E u \in Nat : date' = DateAt(u) /\ Reached(cex, Begin, PlainSecond(cex), u, at + 1, more)
    <3> HIDE DEF cex, at, marked
    <3>1. CASE Fits(cex, Fields[at], t)
      <4>1. Moved = [date |-> DateAt(t), same |-> TRUE]
        BY <1>3, <1>7, <2>3, <2>4, <3>1, FieldFits
      <4>2. more = marked \cup {Fields[at]} BY <4>1 DEF CronField, at
      <4>3. date' = DateAt(t) BY <1>5, <4>1
      <4> HIDE DEF more
      <4>4. Reached(cex, Begin, PlainSecond(cex), t, at + 1, more)
        BY <1>3, <2>2, <2>3, <3>1, <4>2, FieldStaysKnown
      <4> QED BY <4>3, <4>4
    <3>2. CASE ~Fits(cex, Fields[at], t) /\ at = 1
      <4>0. Fields[at] = "sec" BY <3>2, FieldNames
      <4>1. /\ ~Moved.same
            /\ \E u \in Nat : /\ Moved.date = DateAt(u)
                             /\ Reached(cex, Begin, PlainSecond(cex), u, 2, marked)
        BY <2>2, <2>3, <2>4, <3>2, <4>0, SecondMovesThere
      <4>2. more = marked /\ at + 1 = 2 BY <3>2, <4>1
      <4> QED BY <1>5, <4>1, <4>2
    <3>3. CASE ~Fits(cex, Fields[at], t) /\ at # 1
      <4>1. at \in 2 .. 5 BY <1>3, <3>3
      <4>2. ~Move(cex, Fields[at], DateAt(t), marked).same
        BY <1>7, <2>2, <2>3, <3>3, <4>1, FieldMovesKnown
      <4>3. CronField # "sec"
        <5>1. at = 2 \/ at = 3 \/ at = 4 \/ at = 5 BY <4>1
        <5> QED BY <5>1, FieldNames DEF CronField, at
      <4> QED BY <1>5, <2>4, <4>2, <4>3
    <3> QED BY <3>1, <3>2, <3>3
  <2>6. dot = DateAt(Begin).year BY <2>1 DEF SearchFrom
  <2>7. Top'.at = at + 1 /\ Top'.marked = more BY <1>6
  <2> HIDE DEF cex, at, more
  <2> QED BY <2>5, <2>6, <2>7 DEF SearchFrom
<1> QED BY <1>1, <1>5, <1>6, <1>7, SearchGoesOn

\* A field that moves is not the second, and did not fit.
LEMMA FieldMoved ==
    ASSUME CronIInv, PlainDays(Cron[expression]), Searching, CronField # "sec", ~Moved.same
    PROVE  /\ dot = DateAt(Begin).year
           /\ \E u \in Nat : /\ Moved.date = DateAt(u)
                            /\ Reached(Cron[expression], Begin, PlainSecond(Cron[expression]),
                                       u, 1, {})
           /\ CronField = "mon" => Cron[expression].mon # 0 .. 11
<1> DEFINE cex == Cron[expression]
           at == Top.at
           marked == Top.marked
<1>1. CronTypes /\ frames # <<>> /\ at <= 5 BY FieldNames DEF CronIInv, Searching
<1>2. at \in 2 .. 5
  <2>1. at \in 1 .. 6 BY <1>1, TopIs
  <2>2. at # 1 BY FieldNames DEF CronField
  <2> QED BY <1>1, <2>1, <2>2
<1>3. SearchFrom(cex, Begin, PlainSecond(cex), date, dot, Top)
  BY <1>1 DEF CronIInv, Search
<1>4. PICK t \in Nat : date = DateAt(t) /\ Reached(cex, Begin, PlainSecond(cex), t, at, marked)
  BY <1>3 DEF SearchFrom
<1>5. IsCron(cex) /\ Begin \in Nat /\ PlainSecond(cex) \in BOOLEAN BY <1>1, PlainIs
<1>6. Moved = Move(cex, Fields[at], DateAt(t), marked) BY <1>4 DEF Moved, Move, CronField
<1>7. ~Fits(cex, Fields[at], t)
  <2>1. ASSUME Fits(cex, Fields[at], t) PROVE FALSE
    <3>1. Moved = [date |-> DateAt(t), same |-> TRUE]
      BY <1>2, <1>5, <1>6, <2>1, FieldFits
    <3> QED BY <3>1
  <2> QED BY <2>1
<1>8. \E u \in Nat : Moved.date = DateAt(u) /\ Reached(cex, Begin, PlainSecond(cex), u, 1, {})
  <2> HIDE DEF cex, at, marked
  <2>1. PlainDays(cex) BY DEF cex
  <2> QED BY <1>2, <1>4, <1>5, <1>6, <1>7, <2>1, FieldMovesKnown
<1>9. ASSUME CronField = "mon", cex.mon = 0 .. 11 PROVE FALSE
  <2>1. Fields[at] = "mon" BY <1>9 DEF CronField
  <2>2. PICK day \in Nat, h \in 0 .. 23, i \in 0 .. 59, s \in 0 .. 59 : t = At(day, h, i, s)
    BY <1>4, ClockOf
  <2>3. InClock(h, i, s) BY DEF InClock
  <2>4. PICK y, m, k : DateIs(day, y, m, k) BY DateOfDay
  <2>5. m \notin cex.mon BY <1>7, <2>1, <2>2, <2>3, <2>4, FitsDate
  <2>6. m \in 0 .. 11 BY <2>4 DEF DateIs
  <2> QED BY <1>9, <2>5, <2>6
<1>10. dot = DateAt(Begin).year BY <1>3 DEF SearchFrom
<1> QED BY <1>8, <1>9, <1>10

LEMMA FieldMovesKeeps == CronIInv /\ FieldMoves => CronIInv'
<1> SUFFICES ASSUME CronIInv, FieldMoves, PlainDays(Cron[expression]) PROVE CronIInv'
  BY DEF CronIInv, FieldMoves
<1>1. CronTypes /\ frames # <<>> /\ Top.at <= 5
  BY FieldNames DEF CronIInv, FieldMoves, Searching
<1>2. /\ frames \in Seq(Frame) /\ Top.at \in 1 .. 6
      /\ Top.marked \in SUBSET {Fields[n] : n \in 1 .. 5}
  BY <1>1, TopIs
<1>3. Top.at \in 1 .. 5 BY <1>1, <1>2
<1>4. /\ frames' = Append(Passed(Top.marked), NewCall) /\ date' = Moved.date
      /\ UNCHANGED <<expression, now, again, dot>>
      /\ Searching /\ CronField # "sec" /\ ~Moved.same
  BY DEF FieldMoves
<1>5. Passed(Top.marked) \in Seq(Frame) BY <1>1, <1>2, <1>3, FramePassed
<1>6. NewCall \in Frame /\ NewCall.at = 1 /\ NewCall.marked = {}
  <2>1. 1 \in 1 .. 6 OBVIOUS
  <2> QED BY <2>1 DEF NewCall, Frame
<1>7. frames' \in Seq(Frame) /\ frames' # <<>> /\ Top' = NewCall
  <2>1. Top' = frames'[Len(frames')] BY DEF Top
  <2>2. ASSUME NEW p \in Seq(Frame)
        PROVE  /\ Append(p, NewCall) \in Seq(Frame) /\ Append(p, NewCall) # <<>>
               /\ Append(p, NewCall)[Len(Append(p, NewCall))] = NewCall
    BY <1>6
  <2> QED BY <1>4, <1>5, <2>1, <2>2
<1>8. PlainDays(Cron[expression]) =>
        SearchFrom(Cron[expression], Begin, PlainSecond(Cron[expression]), date', dot, Top')
  BY <1>4, <1>6, <1>7, FieldMoved DEF SearchFrom
<1> QED BY <1>1, <1>4, <1>7, <1>8, SearchGoesOn

LEMMA CallReturnsKeeps == CronIInv /\ CallReturns => CronIInv'
<1> SUFFICES ASSUME CronIInv, CallReturns, PlainDays(Cron[expression]) PROVE CronIInv'
  BY DEF CronIInv, CallReturns
<1> DEFINE cex == Cron[expression]
<1>1. /\ CronTypes /\ Len(frames) > 1 /\ ~(Top.at <= 5)
      /\ frames' = SubSeq(frames, 1, Len(frames) - 1)
      /\ UNCHANGED <<expression, now, date, again, dot>>
  <2>1. Top.at > 5 BY FieldNames DEF CallReturns
  <2>2. CronTypes BY DEF CronIInv
  <2>3. frames # <<>> BY DEF CallReturns
  <2>4. Top.at \in 1 .. 6 BY <2>2, <2>3, TopIs
  <2>5. ~(Top.at <= 5) BY <2>1, <2>4
  <2> QED BY <2>2, <2>5 DEF CallReturns
<1>2. frames # <<>> BY <1>1
<1>3. frames \in Seq(Frame) /\ Len(frames) \in Nat /\ Top.at \in 1 .. 6 BY <1>1, <1>2, TopIs
<1>4. frames' \in Seq(Frame) /\ frames' # <<>>
  <2>1. Len(frames) - 1 \in Nat /\ Len(frames) - 1 # 0 /\ Len(frames) - 1 <= Len(frames)
    BY <1>1, <1>3
  <2>2. ASSUME NEW p \in Seq(Frame), NEW n \in Nat, n <= Len(p)
        PROVE  SubSeq(p, 1, n) \in Seq(Frame) /\ Len(SubSeq(p, 1, n)) = n
    <3>1. \A j \in 1 .. n : j \in 1 .. Len(p) BY <2>2
    <3>2. \A j \in 1 .. n : p[j] \in Frame BY <2>2, <3>1
    <3>3. Len(SubSeq(p, 1, n)) = n BY <2>2
    <3>4. SubSeq(p, 1, n) \in Seq(Frame) BY <2>2, <3>2
    <3> QED BY <3>3, <3>4
  <2>3. /\ SubSeq(frames, 1, Len(frames) - 1) \in Seq(Frame)
        /\ Len(SubSeq(frames, 1, Len(frames) - 1)) = Len(frames) - 1
    BY <1>3, <2>1, <2>2
  <2> QED BY <1>1, <2>1, <2>3
<1>5. ASSUME PlainDays(cex)
      PROVE  SearchFrom(cex, Begin, PlainSecond(cex), date', dot, Top')
  <2>1. SearchFrom(cex, Begin, PlainSecond(cex), date, dot, Top)
    BY <1>2, <1>5 DEF CronIInv, Search
  <2>2. Top.at = 6 BY <1>1, <1>3
  <2>3. PICK t \in Nat : /\ date = DateAt(t)
                        /\ Reached(cex, Begin, PlainSecond(cex), t, 6, Top.marked)
    BY <2>1, <2>2 DEF SearchFrom
  <2>4. Named(cex, t) BY <2>3, AllFit
  <2> HIDE DEF cex
  <2>5. \A at, marked : Reached(cex, Begin, PlainSecond(cex), t, at, marked)
    BY <2>3, <2>4 DEF Reached
  <2>6. date' = DateAt(t) BY <1>1, <2>3
  <2>7. dot = DateAt(Begin).year BY <2>1 DEF SearchFrom
  <2> QED BY <2>5, <2>6, <2>7 DEF SearchFrom
<1> QED BY <1>1, <1>4, <1>5, SearchGoesOn

\* A search that ends: the invariant after a step
LEMMA SearchEnds ==
    ASSUME CronTypes, UNCHANGED <<expression, now, again, dot>>, frames' = <<>>,
           PlainDays(Cron[expression]) =>
              IdleAfter(Cron[expression], now, Begin, PlainSecond(Cron[expression]), due_at', dot)
    PROVE  CronIInv'
<1>1. frames' \in Seq(Frame) OBVIOUS
<1>2. /\ CronTypes' /\ Cron[expression]' = Cron[expression] /\ Begin' = Begin
      /\ PlainSecond(Cron[expression])' = PlainSecond(Cron[expression])
      /\ dot' = dot /\ now' = now
  BY <1>1, SamePlan
<1>3. PlainDays(Cron[expression]') =>
        IdleAfter(Cron[expression]', now', Begin', PlainSecond(Cron[expression])', due_at', dot')
  BY <1>2
<1> QED BY <1>2, <1>3 DEF CronIInv, Idle

LEMMA FieldFailsKeeps == CronIInv /\ FieldFails => CronIInv'
<1> SUFFICES ASSUME CronIInv, FieldFails, PlainDays(Cron[expression]) PROVE CronIInv'
  BY DEF CronIInv, FieldFails
<1> DEFINE cex == Cron[expression]
           plain == PlainSecond(cex)
<1>1. /\ CronTypes /\ Searching /\ ~Moved.same /\ CronField = "mon" /\ Moved.date.year - dot > 4
      /\ frames' = <<>> /\ due_at' = Invalid /\ UNCHANGED <<expression, now, again, dot>>
  BY DEF CronIInv, FieldFails, TooFar
<1>2. ASSUME PlainDays(cex)
      PROVE  IdleAfter(cex, now, Begin, plain, due_at', dot)
  <2>1. /\ dot = DateAt(Begin).year /\ cex.mon # 0 .. 11
        /\ \E u \in Nat : Moved.date = DateAt(u) /\ Reached(cex, Begin, plain, u, 1, {})
    <3>1. CronField # "sec" BY <1>1
    <3> QED BY <1>1, <1>2, <3>1, FieldMoved
  <2>2. PICK u \in Nat : Moved.date = DateAt(u) /\ Reached(cex, Begin, plain, u, 1, {})
    BY <2>1
  <2>3. cex.wday = 0 .. 6
    <3>1. cex.mday \subseteq 0 .. 27 BY <1>2, <2>1 DEF PlainDays
    <3>2. 30 \in 0 .. 30 /\ 30 \notin 0 .. 27 OBVIOUS
    <3> QED BY <1>2, <3>1, <3>2 DEF PlainDays
  <2>4. Begin \in Nat BY <1>1, PlainIs
  <2>5. dot \in Years /\ DateAt(u).year \in Years BY <2>1, <2>4, TimeBack
  <2>6. dot + 5 \in Years /\ dot + 5 <= DateAt(u).year BY <1>1, <2>2, <2>5 DEF Years
  <2>7. NewYear(dot + 5) <= u BY <2>6, YearOfTime
  <2>8. NewYear(dot + 5) \in Nat
    <3>1. YearStart(dot + 5) \in Nat BY <2>6, YearLength
    <3> QED BY <3>1 DEF NewYear, At
  <2>9. plain => NoneNamed(cex, Begin, NewYear(dot + 5))
    <3> SUFFICES ASSUME plain, NEW x \in Nat, Begin <= x, x < NewYear(dot + 5)
                 PROVE  ~Named(cex, x)
      BY DEF NoneNamed
    <3>1. x < u BY <2>7, <2>8
    <3>2. NoneNamed(cex, Begin, u) BY <2>2 DEF Reached
    <3> QED BY <3>1, <3>2 DEF NoneNamed
  <2> HIDE DEF cex, plain
  <2> QED BY <1>1, <2>1, <2>3, <2>9 DEF IdleAfter
<1> QED BY <1>1, <1>2, SearchEnds

LEMMA TimeFoundKeeps == CronIInv /\ TimeFound => CronIInv'
<1>0. TimeFound => expression' = expression BY DEF TimeFound
<1> SUFFICES ASSUME CronIInv, TimeFound, PlainDays(Cron[expression]) PROVE CronIInv'
  BY <1>0 DEF CronIInv
<1> DEFINE cex == Cron[expression]
           plain == PlainSecond(cex)
<1>1. CronTypes /\ frames # <<>> /\ now' = now /\ expression' = expression
  <2>1. CronTypes BY DEF CronIInv
  <2>2. Len(frames) = 1 /\ now' = now BY DEF TimeFound
  <2> QED BY <1>0, <2>1, <2>2
<1>2. Top.at = 6
  <2>1. Top.at > 5 BY FieldNames DEF TimeFound
  <2>2. Top.at \in 1 .. 6 BY <1>1, TopIs
  <2> QED BY <2>1, <2>2
<1>3. Begin \in Nat /\ plain \in BOOLEAN /\ now \in Nat /\ again \in BOOLEAN
  BY <1>1, PlainIs DEF CronTypes
<1>4. ASSUME PlainDays(cex)
      PROVE  /\ dot = DateAt(Begin).year
             /\ \E t \in Nat : /\ date = DateAt(t) /\ TimeOf(date) = t /\ Begin <= t
                              /\ Named(cex, t) /\ (plain => NoneNamed(cex, Begin, t))
  <2>1. SearchFrom(cex, Begin, plain, date, dot, Top) BY <1>1, <1>4 DEF CronIInv, Search
  <2>2. PICK t \in Nat : date = DateAt(t) /\ Reached(cex, Begin, plain, t, 6, Top.marked)
    BY <1>2, <2>1 DEF SearchFrom
  <2>3. Named(cex, t) BY <2>2, AllFit
  <2>4. TimeOf(date) = t BY <2>2, TimeBack
  <2> HIDE DEF cex, plain
  <2>5. Begin <= t /\ (plain => NoneNamed(cex, Begin, t)) BY <2>2 DEF Reached
  <2>6. dot = DateAt(Begin).year BY <2>1 DEF SearchFrom
  <2> QED BY <2>2, <2>3, <2>4, <2>5, <2>6
<1>5. CASE /\ TimeOf(date) = now /\ ~again /\ again' = TRUE
           /\ FindNext(add_to_field(date, "sec", 1)) /\ UNCHANGED due_at
  <2>1. /\ date' = add_to_field(date, "sec", 1) /\ dot' = date'.year /\ frames' = <<NewCall>>
        /\ again' = TRUE
    BY <1>5 DEF FindNext
  <2>2. NewCall \in Frame /\ NewCall.at = 1 /\ NewCall.marked = {}
    <3>1. 1 \in 1 .. 6 OBVIOUS
    <3> QED BY <3>1 DEF NewCall, Frame
  <2>3. frames' \in Seq(Frame) /\ frames' # <<>> /\ Top' = NewCall
    BY <2>1, <2>2 DEF Top
  <2>4. CronTypes' BY <1>1, <2>1, <2>3 DEF CronTypes, Frame
  <2>5. Begin' = now + 1 /\ now + 1 \in Nat BY <1>1, <1>3, <2>1 DEF Begin
  <2>6. cex' = cex /\ plain' = plain
    <3>1. cex' = cex BY <1>1
    <3>2. PlainSecond(cex)' = PlainSecond(cex) BY <1>1 DEF PlainSecond, OneSecond
    <3> QED BY <3>1, <3>2
  <2>7. ASSUME PlainDays(cex) PROVE SearchFrom(cex, now + 1, plain, date', dot', NewCall)
    <3>1. date = DateAt(now) /\ Named(cex, now) BY <1>4, <1>5, <2>7
    <3>2. date' = DateAt(now + 1) BY <1>3, <2>1, <3>1, TimeBack
    <3>3. Reached(cex, now + 1, plain, now + 1, 1, {})
      <4>1. Narrowed(cex, now + 1, 1, {})
        <5>1. \A n \in 1 .. 5 : ~(n < 1) OBVIOUS
        <5>2. \A n \in 2 .. 5 : ~(n < 1) OBVIOUS
        <5> QED BY <5>1, <5>2 DEF Narrowed
      <4>2. NoneNamed(cex, now + 1, now + 1)
        <5>1. \A x \in Nat : ~(now + 1 <= x /\ x < now + 1) BY <1>3
        <5> QED BY <5>1 DEF NoneNamed
      <4>3. EarlySecond(cex, now + 1) BY <1>3, <3>1 DEF EarlySecond
      <4>4. now + 1 <= now + 1 BY <1>3
      <4> HIDE DEF cex, plain
      <4> QED BY <2>5, <4>1, <4>2, <4>3, <4>4 DEF Reached
    <3> HIDE DEF cex, plain
    <3> QED BY <2>1, <2>2, <2>5, <3>2, <3>3 DEF SearchFrom
  <2>8. PlainDays(cex') => SearchFrom(cex', Begin', plain', date', dot', Top')
    BY <2>3, <2>5, <2>6, <2>7
  <2> QED BY <2>3, <2>4, <2>8 DEF CronIInv, Search
<1>6. CASE /\ TimeOf(date) # now \/ again
           /\ due_at' = TimeOf(date) /\ frames' = <<>> /\ UNCHANGED <<date, dot, again>>
  <2>1. ASSUME PlainDays(cex) PROVE IdleAfter(cex, now, Begin, plain, due_at', dot)
    <3>1. PICK t \in Nat : /\ date = DateAt(t) /\ TimeOf(date) = t /\ Begin <= t
                          /\ Named(cex, t) /\ (plain => NoneNamed(cex, Begin, t))
      BY <1>4, <2>1
    <3>2. due_at' = t /\ t # Invalid BY <1>6, <3>1 DEF Invalid
    <3>3. now < t BY <1>3, <1>6, <3>1 DEF Begin
    <3>4. plain => NoneNamed(cex, now + 1, t)
      <4>1. \A x \in Nat : now + 1 <= x => Begin <= x BY <1>3 DEF Begin
      <4> HIDE DEF cex, plain
      <4> QED BY <3>1, <4>1 DEF NoneNamed
    <3> HIDE DEF cex, plain
    <3> QED BY <3>1, <3>2, <3>3, <3>4 DEF IdleAfter
  <2> QED BY <1>1, <1>6, <2>1, SearchEnds
<1> QED BY <1>5, <1>6 DEF TimeFound

LEMMA CronRunKeeps == CronIInv /\ CronRun => CronIInv'
<1> SUFFICES ASSUME CronIInv, CronRun, PlainDays(Cron[expression]) PROVE CronIInv'
  BY DEF CronIInv, CronRun
<1> DEFINE cex == Cron[expression]
           n == IF due_at = Invalid THEN now ELSE due_at
<1>1. /\ CronTypes /\ frames = <<>> /\ now' = n /\ again' = FALSE
      /\ date' = DateAt(now') /\ dot' = date'.year /\ frames' = <<NewCall>>
      /\ expression' = expression
  BY DEF CronIInv, CronRun, FindNext
<1>2. NewCall \in Frame /\ NewCall.at = 1 /\ NewCall.marked = {}
  <2>1. 1 \in 1 .. 6 OBVIOUS
  <2> QED BY <2>1 DEF NewCall, Frame
<1>3. frames' \in Seq(Frame) /\ frames' # <<>> /\ Top' = NewCall BY <1>1, <1>2 DEF Top
<1>4. cex' = cex BY <1>1
<1>5. Begin' = n BY <1>1 DEF Begin
<1>6. n \in Nat /\ (n = now \/ Named(cex, n))
  <2>1. CASE due_at = Invalid BY <1>1, <2>1 DEF CronTypes
  <2>2. CASE due_at # Invalid
    <3>1. IdleAfter(cex, now, Begin, PlainSecond(cex), due_at, dot) BY <1>1 DEF CronIInv, Idle
    <3> QED BY <2>2, <3>1 DEF IdleAfter
  <2> QED BY <2>1, <2>2
<1>7. CronTypes' BY <1>1, <1>3, <1>6 DEF CronTypes, Frame
<1>8. SearchFrom(cex, n, PlainSecond(cex)', date', dot', NewCall)
  <2>1. PlainSecond(cex)' => EarlySecond(cex, n)
    <3>1. PlainSecond(cex)' => n % 60 \in cex.sec \/ OneSecond(cex)
      BY <1>1 DEF PlainSecond, OneSecond
    <3> QED BY <3>1 DEF EarlySecond
  <2>2. Narrowed(cex, n, 1, {})
    <3>1. \A x \in 1 .. 5 : ~(x < 1) OBVIOUS
    <3>2. \A x \in 2 .. 5 : ~(x < 1) OBVIOUS
    <3> QED BY <3>1, <3>2 DEF Narrowed
  <2>3. NoneNamed(cex, n, n)
    <3>1. \A x \in Nat : ~(n <= x /\ x < n) BY <1>6
    <3> QED BY <3>1 DEF NoneNamed
  <2>4. n <= n BY <1>6
  <2> HIDE DEF cex, n
  <2>5. Reached(cex, n, PlainSecond(cex)', n, 1, {})
    BY <1>6, <2>1, <2>2, <2>3, <2>4 DEF Reached
  <2> QED BY <1>1, <1>2, <1>6, <2>5 DEF SearchFrom
<1>9. Search(cex)'
  <2>1. SearchFrom(cex', Begin', PlainSecond(cex)', date', dot', Top')
    BY <1>3, <1>4, <1>5, <1>8
  <2> QED BY <2>1 DEF Search
<1> QED BY <1>3, <1>7, <1>9 DEF CronIInv

LEMMA CronStutters == CronIInv /\ UNCHANGED cronVars => CronIInv'
<1> SUFFICES ASSUME CronIInv, UNCHANGED cronVars PROVE CronIInv' OBVIOUS
<1>1. /\ expression' = expression /\ now' = now /\ due_at' = due_at /\ date' = date
      /\ dot' = dot /\ again' = again /\ frames' = frames
  BY DEF cronVars
<1>2. Begin' = Begin /\ Top' = Top BY <1>1 DEF Begin, Top
<1>3. CronTypes' <=> CronTypes BY <1>1 DEF CronTypes
<1>4. PlainSecond(Cron[expression])' = PlainSecond(Cron[expression])
  BY <1>1 DEF PlainSecond, OneSecond
<1>5. Search(Cron[expression])' <=> Search(Cron[expression])
  <2>1. Cron[expression]' = Cron[expression] BY <1>1
  <2> QED BY <1>1, <1>2, <1>4, <2>1 DEF Search
<1>6. Idle(Cron[expression])' <=> Idle(Cron[expression])
  <2>1. Cron[expression]' = Cron[expression] BY <1>1
  <2> QED BY <1>1, <1>2, <1>4, <2>1 DEF Idle
<1> QED BY <1>1, <1>3, <1>5, <1>6 DEF CronIInv

-----------------------------------------------------------------------------
(***************************************************************************)
(* What the invariant says of the days and times an expression names       *)
(***************************************************************************)
LEMMA NamedOnDay ==
    ASSUME NEW cex, NEW day \in Nat, NEW h, NEW i, NEW s, InClock(h, i, s)
    PROVE  Named(cex, At(day, h, i, s)) <=>
             FitsDay(cex, day) /\ h \in cex.hour /\ i \in cex.min /\ s \in cex.sec
<1>1. PICK y, m, k : DateIs(day, y, m, k) BY DateOfDay
<1>2. InClock(0, 0, 0) BY DEF InClock
<1>3. day * 86400 = At(day, 0, 0, 0) BY DEF At
<1>4. DateAt(day * 86400) = Date(y, m, k + 1, 0, 0, 0) BY <1>1, <1>2, <1>3, DateFields
<1>5. DateAt(day * 86400).mday - 1 \in cex.mday /\ WeekdayOf(day * 86400) \in cex.wday
        <=> FitsOn(cex, day)
  BY <1>3 DEF FitsOn, DayFits
<1>6. DateAt(day * 86400).mon = m BY <1>4 DEF Date
<1>7. FitsDay(cex, day) <=> FitsOn(cex, day) /\ m \in cex.mon
  BY <1>5, <1>6 DEF FitsDay
<1>8. Named(cex, At(day, h, i, s)) <=> /\ s \in cex.sec /\ i \in cex.min /\ h \in cex.hour
                                       /\ FitsOn(cex, day) /\ m \in cex.mon
  BY <1>1, FitsDate
<1> QED BY <1>7, <1>8

LEMMA InstantsAre ==
    ASSUME NEW f \in DOMAIN Cron, NEW day \in Nat, FitsDay(Cron[f], day), NEW i \in Instants[f]
    PROVE  /\ day * 86400 + i \in Nat /\ DayOf(day * 86400 + i) = day
           /\ Named(Cron[f], day * 86400 + i)
<1> DEFINE cex == Cron[f]
<1>1. IsCron(cex) BY CronIs
<1>2. PICK h \in cex.hour, m \in cex.min, s \in cex.sec : i = (h * 60 + m) * 60 + s
  BY DEF Instants
<1>3. h \in 0 .. 23 /\ m \in 0 .. 59 /\ s \in 0 .. 59 /\ InClock(h, m, s)
  BY <1>1 DEF IsCron, InClock
<1>4. day * 86400 + i = At(day, h, m, s) BY <1>2, <1>3 DEF At
<1>5. HasClock(At(day, h, m, s), day, h, m, s) BY <1>3, ClockParts
<1> HIDE DEF cex
<1>6. Named(cex, At(day, h, m, s)) BY <1>2, <1>3, NamedOnDay DEF cex
<1> QED BY <1>4, <1>5, <1>6 DEF HasClock, cex

LEMMA NamedIs ==
    ASSUME NEW f \in DOMAIN Cron, NEW t \in Nat, Named(Cron[f], t)
    PROVE  Names(f, DayOf(t), t, t) /\ DayOf(t) \in Nat /\ FitsDay(Cron[f], DayOf(t))
<1>1. PICK day \in Nat, h \in 0 .. 23, m \in 0 .. 59, s \in 0 .. 59 : t = At(day, h, m, s)
  BY ClockOf
<1>2. InClock(h, m, s) BY DEF InClock
<1>3. DayOf(t) = day
  <2>1. HasClock(t, day, h, m, s) BY <1>1, ClockParts
  <2> QED BY <2>1 DEF HasClock
<1>4. FitsDay(Cron[f], day) /\ h \in Cron[f].hour /\ m \in Cron[f].min /\ s \in Cron[f].sec
  BY <1>1, <1>2, NamedOnDay
<1>5. (h * 60 + m) * 60 + s \in Instants[f] BY <1>4 DEF Instants
<1>6. day * 86400 + ((h * 60 + m) * 60 + s) = t BY <1>1 DEF At
<1>7. t \in t .. t OBVIOUS
<1> QED BY <1>3, <1>4, <1>5, <1>6, <1>7 DEF Names

\* No time between two is named, so on no day between is one.
LEMMA NoneOnDays ==
    ASSUME NEW f \in DOMAIN Cron, NEW from \in Nat, NEW to \in Nat, NoneNamed(Cron[f], from, to),
           NEW day \in Nat
    PROVE  ~Names(f, day, from, to - 1)
<1> SUFFICES ASSUME Names(f, day, from, to - 1) PROVE FALSE OBVIOUS
<1>1. FitsDay(Cron[f], day) BY DEF Names
<1>2. PICK i \in Instants[f] : day * 86400 + i \in from .. to - 1 BY DEF Names
<1> DEFINE x == day * 86400 + i
<1>3. x \in Nat /\ Named(Cron[f], x) BY <1>1, InstantsAre
<1> HIDE DEF x
<1>4. from <= x /\ x < to BY <1>2, <1>3 DEF x
<1> QED BY <1>3, <1>4 DEF NoneNamed

\* The calendar comes round after four years.
LEMMA FourYearsOn ==
    ASSUME NEW day \in Nat, NEW y, NEW m, NEW k, DateIs(day, y, m, k)
    PROVE  DateIs(day + 1461, y + 4, m, k)
<1>1. y \in Years /\ m \in 0 .. 11 /\ k \in 0 .. 30 /\ y + 4 \in Years BY DEF DateIs, Years
<1>2. ASSUME NEW n \in 0 .. 12
      PROVE  MonthStart(y + 4, n) = MonthStart(y, n) + 1461 /\ MonthStart(y, n) \in Nat
  <2>1. YearStart(y + 4) = YearStart(y) + 1461 /\ YearStart(y) \in Nat BY <1>1, YearLength
  <2>2. LeapYear(y + 4) <=> LeapYear(y) BY <1>1 DEF LeapYear, Years
  <2>3. DaysBefore[n + 1] \in Nat BY DEF DaysBefore
  <2> QED BY <2>1, <2>2, <2>3 DEF MonthStart
<1>3. m \in 0 .. 12 /\ m + 1 \in 0 .. 12 BY <1>1
<1>4. /\ MonthStart(y + 4, m) = MonthStart(y, m) + 1461 /\ MonthStart(y, m) \in Nat
      /\ MonthStart(y + 4, m + 1) = MonthStart(y, m + 1) + 1461 /\ MonthStart(y, m + 1) \in Nat
  BY <1>2, <1>3
<1> QED BY <1>1, <1>4 DEF DateIs

\* Where no time is named for four years, no day fits for four times 365.
LEMMA NoDayFits ==
    ASSUME NEW cex, IsCron(cex), cex.wday = 0 .. 6, NEW n \in Nat, NEW begin \in {n, n + 1},
           NEW y, y = DateAt(begin).year, NoneNamed(cex, begin, NewYear(y + 5)),
           NEW day \in DayOf(n) .. DayOf(n) + 4 * 365
    PROVE  ~FitsDay(cex, day)
<1> SUFFICES ASSUME FitsDay(cex, day) PROVE FALSE OBVIOUS
<1>1. begin \in Nat /\ begin <= n + 1 OBVIOUS
<1>2. y \in Years /\ y + 1 \in Years /\ y + 5 \in Years
  <2>1. y \in Years BY <1>1, TimeBack
  <2> QED BY <2>1 DEF Years
<1>3. begin < NewYear(y + 1)
  <2>1. DateAt(begin).year < y + 1 BY <1>2 DEF Years
  <2> QED BY <1>1, <1>2, <2>1, YearOfTime
<1> DEFINE e == YearStart(y + 1)
<1>4. e \in Nat /\ NewYear(y + 1) = 86400 * e /\ NewYear(y + 5) = 86400 * (e + 1461)
  <2>1. e \in Nat /\ YearStart(y + 1 + 4) = e + 1461 BY <1>2, YearLength
  <2>2. y + 1 + 4 = y + 5 BY <1>2 DEF Years
  <2> HIDE DEF e
  <2>3. YearStart(y + 1) = e BY DEF e
  <2> QED BY <2>1, <2>2, <2>3 DEF NewYear, At
<1> HIDE DEF e
<1>5. DayOf(n) \in Nat /\ n < 86400 * (DayOf(n) + 1) /\ 86400 * DayOf(n) <= n BY DEF DayOf
<1>6. day \in Nat /\ DayOf(n) <= day /\ day <= DayOf(n) + 1460 BY <1>5
<1>7. PICK h \in cex.hour, m \in cex.min, s \in cex.sec : TRUE BY DEF IsCron
<1>8. h \in 0 .. 23 /\ m \in 0 .. 59 /\ s \in 0 .. 59 /\ InClock(h, m, s)
  BY DEF IsCron, InClock
<1>9. Named(cex, At(day, h, m, s)) BY <1>6, <1>7, <1>8, NamedOnDay
<1>10. /\ At(day, h, m, s) \in Nat
       /\ 86400 * day <= At(day, h, m, s) /\ At(day, h, m, s) < 86400 * (day + 1)
       /\ At(day + 1461, h, m, s) = At(day, h, m, s) + 86400 * 1461
  <2>1. At(day, h, m, s) = 86400 * day + 3600 * h + 60 * m + s BY <1>6, <1>8 DEF At
  <2>2. At(day + 1461, h, m, s) = 86400 * (day + 1461) + 3600 * h + 60 * m + s
    BY <1>6, <1>8 DEF At
  <2> QED BY <1>6, <1>8, <2>1, <2>2
<1>11. DayOf(n) < e
  <2>1. n <= begin OBVIOUS
  <2> QED BY <1>1, <1>3, <1>4, <1>5, <2>1
<1>12. CASE begin <= At(day, h, m, s)
  <2>1. day + 1 <= e + 1461 BY <1>4, <1>5, <1>6, <1>11
  <2>2. At(day, h, m, s) < NewYear(y + 5) BY <1>4, <1>6, <1>10, <2>1
  <2> QED BY <1>9, <1>10, <1>12, <2>2 DEF NoneNamed
<1>13. CASE At(day, h, m, s) < begin
  <2> DEFINE x == At(day + 1461, h, m, s)
  <2>1. x \in Nat /\ x < NewYear(y + 5) BY <1>1, <1>3, <1>4, <1>10, <1>13
  <2>2. begin <= x BY <1>1, <1>5, <1>6, <1>10
  <2>3. Named(cex, x)
    <3>1. PICK z, u, k : DateIs(day, z, u, k) BY <1>6, DateOfDay
    <3>2. DateIs(day + 1461, z + 4, u, k) /\ day + 1461 \in Nat BY <1>6, <3>1, FourYearsOn
    <3>3. FitsOn(cex, day) /\ u \in cex.mon BY <1>6, <1>8, <1>9, <3>1, FitsDate
    <3>4. k \in cex.mday
      <4>1. InClock(0, 0, 0) BY DEF InClock
      <4> QED BY <1>6, <3>1, <3>3, <4>1, DayFitsOn DEF FitsOn
    <3>5. FitsOn(cex, day + 1461)
      <4>1. InClock(0, 0, 0) BY DEF InClock
      <4>2. (day + 1461 + 6) % 7 \in cex.wday BY <3>2
      <4> QED BY <3>2, <3>4, <4>1, <4>2, DayFitsOn DEF FitsOn
    <3> QED BY <1>7, <1>8, <3>2, <3>3, <3>5, FitsDate
  <2> HIDE DEF x
  <2> QED BY <2>1, <2>2, <2>3 DEF NoneNamed
<1>14. begin <= At(day, h, m, s) \/ At(day, h, m, s) < begin BY <1>1, <1>10
<1> QED BY <1>12, <1>13, <1>14

LEMMA CronDue == CronIInv => DueNextOfPlain
<1> DEFINE cex == Cron[expression]
<1> SUFFICES ASSUME CronIInv, PlainDays(cex), PlainSecond(cex) PROVE DueNext
  BY DEF DueNextOfPlain, PlainDays, PlainSecond, OneSecond
<1> SUFFICES ASSUME frames = <<>>
    PROVE  IF due_at = Invalid
             THEN \A day \in DayOf(now) .. DayOf(now) + 4 * 365 : ~FitsDay(cex, day)
             ELSE /\ now < due_at /\ Names(expression, DayOf(due_at), due_at, due_at)
                  /\ \A day \in DayOf(now) .. DayOf(due_at) :
                       ~Names(expression, day, now + 1, due_at - 1)
  BY DEF DueNext
<1>1. CronTypes /\ IdleAfter(cex, now, Begin, PlainSecond(cex), due_at, dot)
  BY DEF CronIInv, Idle
<1>2. expression \in DOMAIN Cron /\ now \in Nat /\ IsCron(cex) /\ now + 1 \in Nat
  BY <1>1, PlainIs DEF CronTypes
<1>3. CASE due_at = Invalid
  <2>1. /\ dot = DateAt(Begin).year /\ cex.wday = 0 .. 6
        /\ NoneNamed(cex, Begin, NewYear(dot + 5))
    BY <1>1, <1>3 DEF IdleAfter
  <2>2. Begin \in {now, now + 1} BY DEF Begin
  <2> HIDE DEF cex
  <2>3. \A day \in DayOf(now) .. DayOf(now) + 4 * 365 : ~FitsDay(cex, day)
    BY <1>2, <2>1, <2>2, NoDayFits
  <2> QED BY <1>3, <2>3
<1>4. CASE due_at # Invalid
  <2>1. /\ due_at \in Nat /\ now < due_at /\ Named(cex, due_at)
        /\ NoneNamed(cex, now + 1, due_at)
    BY <1>1, <1>4 DEF IdleAfter
  <2>2. Names(expression, DayOf(due_at), due_at, due_at) BY <1>2, <2>1, NamedIs
  <2>3. ASSUME NEW day \in DayOf(now) .. DayOf(due_at)
        PROVE  ~Names(expression, day, now + 1, due_at - 1)
    <3>1. DayOf(now) \in Nat /\ DayOf(due_at) \in Nat BY <1>2, <2>1 DEF DayOf
    <3>2. day \in Nat BY <3>1
    <3> QED BY <1>2, <2>1, <3>2, NoneOnDays
  <2> QED BY <1>4, <2>1, <2>2, <2>3
<1> QED BY <1>3, <1>4

\* Scheduler.h:200: however its fields interact, and from whatever time it is planned, a
\* plain task is due at the first time its expression names (cron_next, croncpp.h:883).
THEOREM DueNextOfPlainHolds == CronSpec => []DueNextOfPlain
<1>1. CronInit => CronIInv BY CronStarts
<1>2. CronIInv /\ [CronNext]_cronVars => CronIInv'
  BY FieldStaysKeeps, FieldMovesKeeps, FieldFailsKeeps, CallReturnsKeeps, TimeFoundKeeps,
     CronRunKeeps, CronStutters DEF CronNext
<1>3. CronIInv => DueNextOfPlain BY CronDue
<1> QED BY <1>1, <1>2, <1>3, PTL DEF CronSpec
=============================================================================
