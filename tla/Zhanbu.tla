------------------------------- MODULE Zhanbu -------------------------------
(***************************************************************************)
(* The fortune of the day (modules/module/eorzea_zhanbu/): drawn at a      *)
(* user's first request of a day, written into the table ZhanbuResults,    *)
(* and read from there for the rest of the day.  Every statement suspends  *)
(* the coroutine and so does the drawing (GetHitokoto), so that the clock  *)
(* may move on, into the next day too, between a request's four steps.     *)
(*                                                                         *)
(* Left out: the luck, which GetLuckNum takes from the hash of a string    *)
(* that is always empty (zhanbu_utils.h:37), so that it is one number for  *)
(* everybody; the job and its picture; the fortune of an event, which      *)
(* keeps nothing.                                                          *)
(***************************************************************************)
EXTENDS Integers, FiniteSets

CONSTANTS
    Askers, Requests, \* users; coroutines that run Zhanbu
    Fortunes, Best,   \* events; Best = "诸事皆宜"
    Dyes,
    DayLength,        \* seconds of a day: a time t is in day t \div DayLength
    MaxTime, MaxAsked, MaxTableFaults \* bounds

ASSUME DayAssumption == DayLength \in Nat \ {0}

VARIABLES
    clock,
    record,     \* ZhanbuResults: user -> [yi, ji, dye, append, expire], expire 0: no row
    doing, asker, drawn, \* of a request: where it is, its user, its result
    asked_at, until,     \* when it was asked, when its result expires
    asked, table_faults,
    \* history
    excused,    \* <<user, day>>: a request drew beside another one, was asked in the
                \* last second of the day, or could not write its result
    said        \* user -> [day, what] of the last answer: when it was asked for

answers == <<excused, said>>
requests == <<doing, asker, drawn, asked_at, until>>
zhanbuVars == <<clock, record, requests, asked, table_faults, answers>>

NoOne == "none"
Blank == [yi |-> NoOne, ji |-> NoOne, dye |-> NoOne, append |-> NoOne]
Unwritten == [yi |-> NoOne, ji |-> NoOne, dye |-> NoOne, append |-> NoOne, expire |-> 0]

DayNumber(t) == t \div DayLength
LastSecondOfToday(t) == DayNumber(t) * DayLength + DayLength - 1

\* GetZhanbuResult: two different events; the best one leaves nothing to avoid; the
\* message is one about what is good or what is bad.
GetZhanbuResult ==
    {[yi |-> IF Best \in {p[1], p[2]} THEN Best ELSE p[1],
      ji |-> IF Best \in {p[1], p[2]} THEN NoOne ELSE p[2], dye |-> d, append |-> a] :
        p \in {q \in Fortunes \X Fortunes : q[1] # q[2]}, d \in Dyes, a \in {"yi", "ji"}}

\* GetZhanbuRecord returns the message before the dye, GetEorzeaZhanbu passes the dye
\* first: what was written in one place is drawn in the other.
Exchanged(r) == [yi |-> r.yi, ji |-> r.ji, dye |-> r.append, append |-> r.dye]

-----------------------------------------------------------------------------
Second ==
    /\ clock < MaxTime /\ clock' = clock + 1
    /\ UNCHANGED <<record, requests, asked, table_faults, answers>>

Today(r) == DayNumber(asked_at[r])

\* The requests of u at work, and those of them that draw
Asking(u) == {r \in Requests : doing[r] # "idle" /\ asker[r] = u}
Drawing(u) == {r \in Asking(u) : doing[r] # "read"}

\* The days of the requests R of u
DaysOf(u, R) == {<<u, Today(q)>> : q \in R}

Over(r) ==
    /\ doing' = [doing EXCEPT ![r] = "idle"] /\ asker' = [asker EXCEPT ![r] = NoOne]
    /\ drawn' = [drawn EXCEPT ![r] = Blank]
    /\ asked_at' = [asked_at EXCEPT ![r] = 0] /\ until' = [until EXCEPT ![r] = 0]

\* The request is over, with what it told its user.
Say(r, what) ==
    Over(r) /\ said' = [said EXCEPT ![asker[r]] = [day |-> Today(r), what |-> what]]

\* Another request beside one that draws: both may have found no valid row.
GetEorzeaZhanbu(r, u) ==
    /\ doing[r] = "idle" /\ asked < MaxAsked /\ asked' = asked + 1
    /\ doing' = [doing EXCEPT ![r] = "read"] /\ asker' = [asker EXCEPT ![r] = u]
    /\ asked_at' = [asked_at EXCEPT ![r] = clock]
    /\ excused' = excused \cup
           (IF Drawing(u) # {} THEN DaysOf(u, Drawing(u)) \cup {<<u, DayNumber(clock)>>} ELSE {})
           \cup (IF clock = LastSecondOfToday(clock) THEN {<<u, DayNumber(clock)>>} ELSE {})
    /\ UNCHANGED <<clock, record, drawn, until, table_faults, said>>

Fault == table_faults < MaxTableFaults /\ table_faults' = table_faults + 1

\* The row is read: it answers the request, or there is none, or it has expired.  Nobody
\* catches the exception of a statement that fails, and the user gets no answer.
GetZhanbuRecord(r) ==
    LET u == asker[r]
    IN  /\ doing[r] = "read"
        /\ \/ /\ record[u].expire > asked_at[r] /\ Say(r, Exchanged(record[u]))
              /\ UNCHANGED <<excused, table_faults>>
           \/ /\ record[u].expire <= asked_at[r] /\ doing' = [doing EXCEPT ![r] = "draw"]
              /\ \E d \in GetZhanbuResult : drawn' = [drawn EXCEPT ![r] = d]
              /\ excused' = excused \cup (IF Asking(u) # {r} THEN DaysOf(u, Asking(u)) ELSE {})
              /\ UNCHANGED <<asker, asked_at, until, said, table_faults>>
           \/ Fault /\ Over(r) /\ UNCHANGED answers
        /\ UNCHANGED <<clock, record, asked>>

\* It is drawn; the clock is read again for the time when it expires.
Drawn(r) ==
    /\ doing[r] = "draw" /\ doing' = [doing EXCEPT ![r] = "write"]
    /\ until' = [until EXCEPT ![r] = LastSecondOfToday(clock)]
    /\ UNCHANGED <<clock, record, asker, drawn, asked_at, asked, table_faults, answers>>

RowOf(r) == LET d == drawn[r]
          IN  [yi |-> d.yi, ji |-> d.ji, dye |-> d.dye, append |-> d.append,
               expire |-> until[r]]

\* Mutant: the row of an earlier day is left as it is.
RecordZhanbu_InsertOnly(r) ==
    /\ doing[r] = "write" /\ Say(r, drawn[r])
    /\ record' = [record EXCEPT ![asker[r]] = IF @.expire # 0 THEN @ ELSE RowOf(r)]
    /\ UNCHANGED <<clock, asked, table_faults, excused>>

\* RecordZhanbu, whose failure is ignored, and the answer
RecordZhanbu(r) ==
    /\ doing[r] = "write" /\ Say(r, drawn[r])
    /\ \/ record' = [record EXCEPT ![asker[r]] = RowOf(r)] /\ UNCHANGED <<table_faults, excused>>
       \/ Fault /\ excused' = excused \cup DaysOf(asker[r], {r}) /\ UNCHANGED record
    /\ UNCHANGED <<clock, asked>>

ZhanbuInit ==
    /\ clock \in 1 .. DayLength - 1 /\ record = [u \in Askers |-> Unwritten]
    /\ doing = [r \in Requests |-> "idle"] /\ asker = [r \in Requests |-> NoOne]
    /\ drawn = [r \in Requests |-> Blank]
    /\ asked_at = [r \in Requests |-> 0] /\ until = [r \in Requests |-> 0]
    /\ asked = 0 /\ table_faults = 0 /\ excused = {}
    /\ said = [u \in Askers |-> [day |-> -1, what |-> Blank]]

ZhanbuNext ==
    \/ Second
    \/ \E r \in Requests : GetZhanbuRecord(r) \/ Drawn(r) \/ RecordZhanbu(r)
    \/ \E r \in Requests, u \in Askers : GetEorzeaZhanbu(r, u)

ZhanbuSpec == ZhanbuInit /\ [][ZhanbuNext]_zhanbuVars

-----------------------------------------------------------------------------
(***************************************************************************)
(* Properties                                                              *)
(***************************************************************************)

\* Who asks twice on a day is told the same, with the dye and the message in each other's
\* place, also when midnight passes while the answer is made; unless one of the requests
\* was drawing while another one of his was at work, could not write what it drew, or was
\* asked in the last second of the day.
SameAllDay ==
    [][\A u \in Askers : LET old == said[u]
                             new == said'[u]
                         IN  new # old /\ new.day = old.day /\ <<u, new.day>> \notin excused'
                             => new.what = Exchanged(old.what)]_zhanbuVars
=============================================================================
