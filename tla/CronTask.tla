------------------------------ MODULE CronTask ------------------------------
(***************************************************************************)
(* When a cron task is due (schedule/Bosma/croncpp.h, CronTask in          *)
(* Scheduler.h).                                                           *)
(*                                                                         *)
(* The scheduler asks cron_next for the first time when the task is added  *)
(* and again at every run.  cron_next moves a broken-down time forward     *)
(* until every field is one of the expression's, normalising it with       *)
(* mktime after every change; find_next calls itself, so its calls are     *)
(* frames.  The model has a calendar in which every fourth year is a leap  *)
(* year, as from 2000 to 2099, and a local time without summer time.       *)
(***************************************************************************)
EXTENDS Integers, Sequences, FiniteSets

CONSTANTS
    Expressions, \* six fields each: sets of items [first, last, delta]; "*" is the item
                 \* from the field's minimum to its maximum
    Starts,      \* times at which the task may be added
    MaxRuns      \* bound: runs of the task

\* split() leaves no field out and no list of items empty; an item's numbers are cron_int.
ASSUME ExpressionsAssumption ==
    \A f \in Expressions : \A k \in 1 .. 6 :
        f[k] # {} /\ f[k] \subseteq [first : Nat, last : Nat, delta : Nat]
ASSUME StartsAssumption == Starts \subseteq Nat

VARIABLES
    expression, now,    \* the task, and the time at which it is planned
    due_at, runs,
    date, dot,          \* the time that cron_next moves, and the year it began with
    again,              \* whether it is searched from the second after now
    frames              \* the calls of find_next: their next field, and marked_fields

cronVars == <<expression, now, due_at, runs, date, dot, again, frames>>

-----------------------------------------------------------------------------
(***************************************************************************)
(* mktime and localtime: seconds since the first of January 2000           *)
(***************************************************************************)
LeapYear(y) == y % 4 = 0
YearStart(y) == 365 * (y - 2000) + (y - 1997) \div 4
\* Day number of the first of a month; month 12 is the next January.
DaysBefore == <<0, 31, 59, 90, 120, 151, 181, 212, 243, 273, 304, 334, 365>>
MonthStart(y, m) ==
    YearStart(y) + DaysBefore[m + 1] + (IF LeapYear(y) /\ m >= 2 THEN 1 ELSE 0)

\* mktime: fields beyond their range count on.
TimeOf(d) ==
    LET day == MonthStart(d.year + d.mon \div 12, d.mon % 12) + d.mday - 1
    IN  ((day * 24 + d.hour) * 60 + d.min) * 60 + d.sec

DayOf(time) == time \div 86400
WeekdayOf(time) == (DayOf(time) + 6) % 7

DateAt(time) ==
    LET day == DayOf(time)
        year == 2000 + (4 * day) \div 1461
        mon == CHOOSE m \in 0 .. 11 : MonthStart(year, m) <= day /\ day < MonthStart(year, m + 1)
    IN  [year |-> year, mon |-> mon, mday |-> day - MonthStart(year, mon) + 1,
         hour |-> (time \div 3600) % 24, min |-> (time \div 60) % 60, sec |-> time % 60]

-----------------------------------------------------------------------------
(***************************************************************************)
(* make_cron: the set bits of a field                                      *)
(***************************************************************************)
\* i += delta on a cron_int of 8 bits, from bit to bit until the last is passed
Stride(bit, last, delta) ==
    LET step(k) == (bit + k * delta) % 256
    IN  {step(k) : k \in {n \in 0 .. 255 : \A j \in 0 .. n : step(j) <= last}}

\* make_range and set_cron_field.  An item "a" has last = first; "a/d" runs to the
\* field's maximum.
Bits(items, minval, maxval) ==
    UNION {Stride(i.first - minval, i.last - minval, i.delta) : i \in items}

\* An expression that throws bad_cronexpr makes no task.
InRange(items, minval, maxval) ==
    \A i \in items : minval <= i.first /\ i.first <= i.last /\ i.last <= maxval /\ i.delta > 0

MakeCron(f) ==
    [sec |-> Bits(f[1], 0, 59), min |-> Bits(f[2], 0, 59), hour |-> Bits(f[3], 0, 23),
     mday |-> Bits(f[4], 1, 31), mon |-> Bits(f[5], 1, 12), wday |-> Bits(f[6], 0, 6)]

Valid(f) ==
    /\ InRange(f[1], 0, 59) /\ InRange(f[2], 0, 59) /\ InRange(f[3], 0, 23)
    /\ InRange(f[4], 1, 31) /\ InRange(f[5], 1, 12) /\ InRange(f[6], 0, 6)

Cron == [f \in {g \in Expressions : Valid(g)} |-> MakeCron(f)]

-----------------------------------------------------------------------------
(***************************************************************************)
(* cron_next                                                               *)
(***************************************************************************)
Invalid == -1
Normalised(d) == DateAt(TimeOf(d))
Lowest(S) == IF S = {} THEN Invalid ELSE CHOOSE x \in S : \A y \in S : x <= y

add_to_field(d, field, val) == Normalised([d EXCEPT ![field] = @ + val])
set_field(d, field, val) == Normalised([d EXCEPT ![field] = val])

\* reset_field for every field of a set; each is set to its least value
reset_all_fields(d, fields) ==
    Normalised([f \in DOMAIN d |->
                  IF f \notin fields THEN d[f] ELSE IF f = "mday" THEN 1 ELSE 0])

next_set_bit(target, offset) == Lowest({i \in target : i >= offset})

\* find_next of one field: the date moved on, with the smaller fields reset
MoveField(target, d, field, next_field, marked) ==
    LET found == next_set_bit(target, d[field])
        base == IF found = Invalid
                  THEN reset_all_fields(add_to_field(d, next_field, 1), {field}) ELSE d
        next == IF found = Invalid THEN next_set_bit(target, 0) ELSE found
    IN  [date |-> IF next = d[field] THEN base
                  ELSE reset_all_fields(set_field(base, field, next), marked),
         same |-> next = d[field]]

DayFits(cex, time) == WeekdayOf(time) \in cex.wday /\ DateAt(time).mday - 1 \in cex.mday

\* find_next_day: at most 366 steps of a day, the smaller fields reset at each.  That
\* the day is unchanged is told from its number in the month.
MoveDay(cex, d, marked) ==
    LET time == TimeOf(d)
        steps == CHOOSE k \in 0 .. 366 :
                     /\ k = 366 \/ DayFits(cex, time + k * 86400)
                     /\ \A j \in 0 .. k - 1 : ~DayFits(cex, time + j * 86400)
        next == IF steps = 0 THEN d
                ELSE reset_all_fields(add_to_field(d, "mday", steps), marked)
    IN  [date |-> next, same |-> next.mday = d.mday]

Fields == <<"sec", "min", "hour", "mday", "mon">>
NextField == [sec |-> "min", min |-> "hour", hour |-> "mday", mon |-> "year"]

NewCall == [at |-> 1, marked |-> {}]
Top == frames[Len(frames)]
Searching == frames # <<>> /\ Top.at <= Len(Fields)
CronField == Fields[Top.at]

Moved ==
    LET cex == Cron[expression]
    IN  IF CronField = "mday" THEN MoveDay(cex, date, Top.marked)
        ELSE MoveField(cex[CronField], date, CronField, NextField[CronField], Top.marked)

\* The call goes on with its next field.
Passed(marked) == [frames EXCEPT ![Len(frames)] = [at |-> @.at + 1, marked |-> marked]]

\* A field that stays is reset when a later one moves; a second that moved is only
\* carried on.
FieldStays ==
    /\ Searching /\ (Moved.same \/ CronField = "sec") /\ date' = Moved.date
    /\ frames' = Passed(Top.marked \cup (IF Moved.same THEN {CronField} ELSE {}))
    /\ UNCHANGED <<expression, now, due_at, runs, dot, again>>

TooFar == CronField = "mon" /\ Moved.date.year - dot > 4

\* Another field moved: all of them are found again.
FieldMoves ==
    /\ Searching /\ ~Moved.same /\ CronField # "sec" /\ ~TooFar
    /\ date' = Moved.date /\ frames' = Append(Passed(Top.marked), NewCall)
    /\ UNCHANGED <<expression, now, due_at, runs, dot, again>>

\* Every call returns false, and cron_next INVALID_TIME.
FieldFails ==
    /\ Searching /\ ~Moved.same /\ TooFar
    /\ frames' = <<>> /\ due_at' = Invalid
    /\ UNCHANGED <<expression, now, runs, date, dot, again>>

\* The call that moved a field goes on behind it.
CallReturns ==
    /\ Len(frames) > 1 /\ Top.at > Len(Fields)
    /\ frames' = SubSeq(frames, 1, Len(frames) - 1)
    /\ UNCHANGED <<expression, now, due_at, runs, date, dot, again>>

FindNext(d) == date' = d /\ dot' = d.year /\ frames' = <<NewCall>>

\* Mutant: a time that fits is due again at once.
TimeFound_Same ==
    /\ Len(frames) = 1 /\ Top.at > Len(Fields)
    /\ due_at' = TimeOf(date) /\ frames' = <<>>
    /\ UNCHANGED <<expression, now, runs, date, dot, again>>

\* cron_next, when its find_next has returned true
TimeFound ==
    /\ Len(frames) = 1 /\ Top.at > Len(Fields)
    /\ \/ /\ TimeOf(date) = now /\ ~again /\ again' = TRUE
          /\ FindNext(add_to_field(date, "sec", 1)) /\ UNCHANGED due_at
       \/ /\ TimeOf(date) # now \/ again
          /\ due_at' = TimeOf(date) /\ frames' = <<>> /\ UNCHANGED <<date, dot, again>>
    /\ UNCHANGED <<expression, now, runs>>

-----------------------------------------------------------------------------
\* The task is added.
CronInit ==
    /\ expression \in DOMAIN Cron /\ now \in Starts /\ due_at = Invalid /\ runs = 0
    /\ date = DateAt(now) /\ dot = date.year /\ again = FALSE /\ frames = <<NewCall>>

\* The manage thread re-adds the task when it triggers it: at the time it is due, or at
\* once if that is INVALID_TIME, a second before the epoch.
CronRun ==
    /\ frames = <<>> /\ runs < MaxRuns /\ runs' = runs + 1
    /\ now' = IF due_at = Invalid THEN now ELSE due_at
    /\ FindNext(DateAt(now')) /\ again' = FALSE
    /\ UNCHANGED <<expression, due_at>>

CronNext ==
    FieldStays \/ FieldMoves \/ FieldFails \/ CallReturns \/ TimeFound \/ CronRun

CronSpec == CronInit /\ [][CronNext]_cronVars

-----------------------------------------------------------------------------
(***************************************************************************)
(* Properties                                                              *)
(***************************************************************************)

\* Reference: the times an expression names, on a day and between two times
FitsDay(cex, day) ==
    LET d == DateAt(day * 86400)
    IN  d.mday - 1 \in cex.mday /\ d.mon \in cex.mon /\ WeekdayOf(day * 86400) \in cex.wday

Instants == [f \in DOMAIN Cron |->
    {(h * 60 + m) * 60 + s : h \in Cron[f].hour, m \in Cron[f].min, s \in Cron[f].sec}]

Names(f, day, from, to) ==
    FitsDay(Cron[f], day) /\ \E i \in Instants[f] : day * 86400 + i \in from .. to

\* Scheduler.h:200, "expression format": a task is due at the first time its expression
\* names after the one at which it is planned, and at INVALID_TIME only if none comes in
\* four years.
DueNext ==
    frames = <<>> =>
      IF due_at = Invalid
        THEN \A day \in DayOf(now) .. DayOf(now) + 4 * 365 : ~FitsDay(Cron[expression], day)
        ELSE /\ now < due_at /\ Names(expression, DayOf(due_at), due_at, due_at)
             /\ \A day \in DayOf(now) .. DayOf(due_at) :
                  ~Names(expression, day, now + 1, due_at - 1)

\* The same for the tasks croncpp gets right: no day of the month together with a day of
\* the week, with a month no day that some month lacks, and one second in a minute unless
\* the task is planned at a second it names.
DueNextOfPlain ==
    LET cex == Cron[expression]
    IN  /\ cex.mday = 0 .. 30 \/ cex.wday = 0 .. 6
        /\ cex.mon = 0 .. 11 \/ cex.mday \subseteq 0 .. 27
        /\ now % 60 \in cex.sec \/ \E s \in 0 .. 59 : cex.sec = {s}
        => DueNext
=============================================================================
