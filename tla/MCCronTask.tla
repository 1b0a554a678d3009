----------------------------- MODULE MCCronTask -----------------------------
(***************************************************************************)
(* Bounds of CronTask for TLC: the expressions the modules use and those   *)
(* whose fields interact, from starts near the ends of months and years.   *)
(***************************************************************************)
EXTENDS CronTask

Only(n) == {[first |-> n, last |-> n, delta |-> 1]}
Span(i, j, d) == {[first |-> i, last |-> j, delta |-> d]}
EveryHour == Span(0, 23, 1)
EveryDay == Span(1, 31, 1)
EveryMonth == Span(1, 12, 1)
AnyWeekday == Span(0, 6, 1)
Midnight == <<Only(0), Only(0), Only(0)>>

SomeExpressions == {
    <<Only(0), Only(8), Only(8), EveryDay, EveryMonth, AnyWeekday>>,
    <<Only(0), Only(5), Only(5), EveryDay, EveryMonth, AnyWeekday>>,
    <<Span(0, 59, 25), Span(10, 59, 40), EveryHour, EveryDay, EveryMonth, AnyWeekday>>,
    <<Only(0), Only(0), Only(0) \cup Only(23), Only(31), EveryMonth, AnyWeekday>>,
    <<Only(59), Only(59), Only(23), EveryDay, EveryMonth, Span(0, 6, 3)>>,
    <<Only(0), Only(30), Span(0, 23, 12), Span(1, 28, 9), Only(2) \cup Only(12), AnyWeekday>>,
    Midnight \o <<Only(29), EveryMonth, AnyWeekday>>,
    Midnight \o <<EveryDay, Only(2), AnyWeekday>>,
    <<Only(0), Only(5), Only(5), Only(13), EveryMonth, Only(5)>>,
    Midnight \o <<Only(30), Only(2), AnyWeekday>>,
    <<Only(0), Span(5, 3, 1), Only(0), EveryDay, EveryMonth, AnyWeekday>> }

Instant(y, m, d, h, i, s) ==
    TimeOf([year |-> y, mon |-> m - 1, mday |-> d, hour |-> h, min |-> i, sec |-> s])
SomeStarts ==
    { Instant(2023, 1, 31, 0, 0, 0), Instant(2023, 1, 13, 5, 5, 0),
      Instant(2023, 12, 31, 23, 59, 59), Instant(2024, 2, 28, 23, 59, 59),
      Instant(2024, 2, 29, 8, 8, 0), Instant(2023, 4, 30, 8, 7, 59),
      Instant(2023, 10, 1, 12, 30, 0), Instant(2023, 6, 30, 12, 30, 10) }

\* The task that a behaviour of another part leaves where it starts.
Daily == <<Only(0), Only(8), Only(8), EveryDay, EveryMonth, AnyWeekday>>
=============================================================================
