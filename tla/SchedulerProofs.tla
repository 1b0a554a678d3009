--------------------------- MODULE SchedulerProofs ---------------------------
(***************************************************************************)
(* Proofs about Scheduler, for any tasks, ids, periods and number of       *)
(* coroutines: its types, the absence of lost wake-ups, and the places a   *)
(* task can be in, in which a recurring one is once and to which a removed *)
(* one does not come back.                                                 *)
(***************************************************************************)
EXTENDS Scheduler, TLAPS

\* The batch of manage_tasks is due; remove() erases what it has flagged; a busy
\* coroutine has a task.
Shape ==
    /\ \A e \in due : e.left = 0
    /\ removing # None => id_to_task[removing] # None
    /\ \A s \in Slots : co[s].pc # "free" => co[s].task \in Tasks
    /\ triggered # None => manager = "managing"

Typed == TypeOK /\ Shape

IInv == Typed /\ NoOversleep

LEMMA InitIInv == Init => IInv
<1> SUFFICES ASSUME Init PROVE IInv OBVIOUS
<1>1. interval \in [Tasks -> BOOLEAN] BY Zenon DEF Init
<1>2. co \in [Slots -> [task : Tasks \cup {None}, left : Nat,
                        pc : {"free", "run", "run_interval", "readd", "readded"}]]
  BY DEF Init, Idle
<1>3. /\ id_to_task \in [Ids -> Tasks \cup {None}]
      /\ adding \in [Tasks -> {"new", "emplaced", "owned", "added"}]
      /\ reruns \in [Tasks -> 0 .. 2]
  <2>1. id_to_task = [i \in Ids |-> None] /\ adding = [t \in Tasks |-> "new"]
        /\ reruns = [t \in Tasks |-> 0]
    BY DEF Init
  <2> QED BY <2>1
<1>4. tasks = {} /\ due = {} /\ lock = None /\ removing = None
      /\ interrupted = FALSE /\ stop = "no" /\ manager = "check" /\ alarm = Never
      /\ triggered = None /\ removed = {}
  BY DEF Init
<1>5. TypeOK BY <1>1, <1>2, <1>3, <1>4 DEF TypeOK
<1>6. Shape /\ NoOversleep
  <2>1. \A s \in Slots : co[s].pc = "free" BY DEF Init, Idle
  <2> QED BY <1>4, <2>1 DEF Shape, NoOversleep
<1> QED BY <1>5, <1>6 DEF IInv, Typed

LEMMA LessType == \A d \in Nat : Less(d) \in Nat /\ (d = 0 => Less(d) = 0)
BY NeverAssumption DEF Less

LEMMA LessMonotone == \A d, e \in Nat : d <= e => Less(d) <= Less(e)
BY NeverAssumption DEF Less

\* The delays a new entry may have are natural numbers.
LEMMA DelayTypes ==
    \A t \in Tasks : /\ FirstDelays(t) \subseteq Nat
                     /\ NewDelays(t) \subseteq Nat
                     /\ Period[t] \in Nat
BY PeriodAssumption DEF FirstDelays, NewDelays

LEMMA TypeStep == Typed /\ [Next]_vars => Typed'
<1> SUFFICES ASSUME Typed, [Next]_vars PROVE Typed' OBVIOUS
<1> USE DEF Typed, TypeOK, Shape, EntryType, sleeper, managing, history
<1>1. CASE UNCHANGED vars BY <1>1 DEF vars
<1>2. ASSUME NEW t \in Tasks, AddEntry(t) PROVE Typed'
  BY <1>2, DelayTypes DEF AddEntry, Entry
<1>3. ASSUME NEW t \in Tasks, AddId(t) PROVE Typed'
  BY <1>3, IdAssumption DEF AddId
<1>4. ASSUME NEW t \in Tasks, AddInterrupt(t) PROVE Typed'
  BY <1>4 DEF AddInterrupt
<1>5. ASSUME NEW i \in Ids, RemoveFlag(i) PROVE Typed'
  BY <1>5, NoneAssumption DEF RemoveFlag
<1>6. ASSUME NEW i \in Ids, RemoveErase(i) PROVE Typed'
  <2>1. i # None BY NoneAssumption
  <2>2. id_to_task[i] \in Tasks BY <1>6, <2>1 DEF RemoveErase
  <2> QED BY <1>6, <2>2 DEF RemoveErase
<1>7. CASE Stop BY <1>7 DEF Stop
<1>8. CASE StopInterrupt BY <1>8 DEF StopInterrupt
<1>9. CASE Check BY <1>9 DEF Check
<1>10. CASE WakeUp BY <1>10 DEF WakeUp
<1>11. CASE ManageBegin BY <1>11 DEF ManageBegin, Manager
<1>12. ASSUME NEW e \in due, Trigger(e) PROVE Typed'
  BY <1>12 DEF Trigger
<1>13. ASSUME NEW t \in Tasks, NEW s \in Slots, Dispatch(t, s)
       PROVE Typed'
  BY <1>13, DelayTypes DEF Dispatch, Entry
<1>14. CASE ManageEnd BY <1>14 DEF ManageEnd
<1>15. ASSUME NEW s \in Slots, Finish(s) PROVE Typed'
  <2>1. co[s].task \in Tasks BY <1>15 DEF Finish
  <2>2. Period[co[s].task] \in Nat BY <2>1, DelayTypes
  <2>3. CASE co'[s] = Idle BY <1>15, <2>3 DEF Finish, Idle
  <2>4. CASE co'[s] = [task |-> co[s].task, left |-> Period[co[s].task],
                       pc |-> "readd"]
    BY <1>15, <2>1, <2>2, <2>4 DEF Finish
  <2> QED BY <1>15, <2>3, <2>4 DEF Finish
<1>16. ASSUME NEW s \in Slots, Readd(s) PROVE Typed'
  <2>1. co[s].task \in Tasks /\ co[s].left \in Nat BY <1>16 DEF Readd
  <2> QED BY <1>16, <2>1 DEF Readd, Entry
<1>17. ASSUME NEW s \in Slots, ReaddInterrupt(s) PROVE Typed'
  BY <1>17 DEF ReaddInterrupt, Idle
<1>18. CASE Tick
  <2>1. tasks' \subseteq EntryType BY <1>18, LessType DEF Tick
  <2>2. alarm' \in Nat \cup {Never} BY <1>18, LessType DEF Tick, Less
  <2>3. \A e \in due : [e EXCEPT !.left = Less(@)] = e BY <1>18, LessType
  <2>4. due' \subseteq tasks' BY <1>18, <2>3 DEF Tick
  <2>5. co' \in [Slots -> [task : Tasks \cup {None}, left : Nat,
                           pc : {"free", "run", "run_interval", "readd", "readded"}]]
    BY <1>18, LessType DEF Tick
  <2>6. \A s \in Slots : co'[s].pc = co[s].pc /\ co'[s].task = co[s].task
    BY <1>18 DEF Tick
  <2> QED BY <1>18, <2>1, <2>2, <2>4, <2>5, <2>6 DEF Tick
<1> QED BY <1>1, <1>2, <1>3, <1>4, <1>5, <1>6, <1>7, <1>8, <1>9, <1>10, <1>11,
   <1>12, <1>13, <1>14, <1>15, <1>16, <1>17, <1>18
   DEF Next, Add, ManageThread, Coroutine

LEMMA NoOversleepStep == Typed /\ NoOversleep /\ [Next]_vars => NoOversleep'
<1> SUFFICES ASSUME Typed, NoOversleep, [Next]_vars PROVE NoOversleep' OBVIOUS
<1> USE DEF Typed, TypeOK, NoOversleep, EntryType, sleeper, managing, history
<1>1. CASE UNCHANGED vars BY <1>1 DEF vars
<1>2. ASSUME NEW t \in Tasks, Add(t) PROVE NoOversleep'
  BY <1>2 DEF Add, AddEntry, AddId, AddInterrupt
<1>3. ASSUME NEW i \in Ids, RemoveFlag(i) \/ RemoveErase(i) PROVE NoOversleep'
  BY <1>3 DEF RemoveFlag, RemoveErase
<1>4. CASE Stop \/ StopInterrupt BY <1>4 DEF Stop, StopInterrupt
<1>5. CASE Check
  <2>1. \A e \in tasks : manager' = "asleep" => alarm' # Never /\ alarm' <= e.left
    BY <1>5, NeverAssumption DEF Check
  <2> QED BY <1>5, <2>1 DEF Check
<1>6. CASE WakeUp \/ ManageBegin \/ ManageEnd
  BY <1>6 DEF WakeUp, ManageBegin, ManageEnd
<1>7. ASSUME NEW e \in due, Trigger(e) PROVE NoOversleep'
  BY <1>7 DEF Trigger
<1>8. ASSUME NEW t \in Tasks, NEW s \in Slots, Dispatch(t, s) PROVE NoOversleep'
  BY <1>8, NoneAssumption DEF Dispatch, Shape
<1>9. ASSUME NEW s \in Slots, Coroutine(s) PROVE NoOversleep'
  BY <1>9 DEF Coroutine, Finish, Readd, ReaddInterrupt
<1>10. CASE Tick
  <2> SUFFICES ASSUME manager = "asleep", ~interrupted, lock \notin Tasks \cup Slots,
                      NEW e \in tasks
               PROVE  /\ Less(alarm) # Never
                      /\ Less(alarm) <= [e EXCEPT !.left = Less(@)].left
    BY <1>10 DEF Tick
  <2>1. alarm # Never /\ alarm <= e.left OBVIOUS
  <2>2. alarm \in Nat /\ e.left \in Nat BY <2>1
  <2>3. [e EXCEPT !.left = Less(@)].left = Less(e.left) OBVIOUS
  <2> QED BY <2>1, <2>2, <2>3, LessType, LessMonotone, NeverAssumption
<1> QED BY <1>1, <1>2, <1>3, <1>4, <1>5, <1>6, <1>7, <1>8, <1>9, <1>10
   DEF Next, ManageThread

-----------------------------------------------------------------------------
(***************************************************************************)
(* Where a task is, and who holds the lock                                 *)
(***************************************************************************)
\* A coroutine that will put t back when its run is over.
Keeps(s, t) == co[s].task = t /\ co[s].pc \in {"run_interval", "readd"}

Placed(t) ==
    \/ \E e \in tasks : e.task = t
    \/ triggered = t
    \/ \E s \in Slots : Keeps(s, t)

\* Whoever is between the lock and the unlock holds the lock.
HolderInv ==
    /\ \A t \in Tasks : adding[t] \in {"emplaced", "owned"} => lock = t
    /\ manager = "managing" => lock = Manager
    /\ \A s \in Slots : co[s].pc = "readded" => lock = s

\* A task is owned under its own id, and not again once it is removed.
OwnerInv ==
    /\ \A i \in Ids, t \in Tasks :
          id_to_task[i] = t => Id[t] = i /\ adding[t] \in {"owned", "added"}
    /\ \A t \in removed : /\ adding[t] \in {"owned", "added"}
                          /\ \A i \in Ids : id_to_task[i] # t

\* What a coroutine runs: an interval task goes back by way of the coroutine that was
\* started while the flag was set, and is never started otherwise at the same time.
RunInv ==
    /\ \A t \in Tasks : interval[t] => Kind[t] = "interval"
    /\ \A s \in Slots : co[s].pc = "free" => co[s].task = None
    /\ \A s \in Slots : co[s].pc = "run" => ~interval[co[s].task]
    /\ \A s \in Slots : co[s].pc \in {"run_interval", "readd"} =>
          Kind[co[s].task] = "interval"
    /\ \A r, s \in Slots : co[r].pc = "run" => ~Keeps(s, co[r].task)

\* A task is in one place at most: an entry, being triggered, or kept by a coroutine.
PlaceInv ==
    /\ \A t \in Tasks : adding[t] \in {"new", "emplaced"} =>
          triggered # t /\ \A s \in Slots : co[s].task # t
    /\ \A e \in tasks : adding[e.task] # "new"
    /\ \A e, f \in tasks : e.task = f.task => e = f
    /\ \A e \in tasks : triggered # e.task /\ \A s \in Slots : ~Keeps(s, e.task)
    /\ \A s \in Slots : triggered # None => ~Keeps(s, triggered)
    /\ \A r, s \in Slots, t \in Tasks : Keeps(r, t) /\ Keeps(s, t) => r = s

\* A task that is owned and recurs is in one.
KeptInv ==
    \A t \in Tasks :
        /\ adding[t] = "emplaced" => Placed(t)
        /\ Owned(t) /\ (interval[t] \/ Kind[t] \in {"every", "cron"}) => Placed(t)

\* While a short run goes on, its task is not due.
ShortInv ==
    \A s \in Slots : co[s].pc = "run" /\ co[s].task \in ShortRuns =>
        /\ triggered # co[s].task
        /\ \A e \in tasks : e.task = co[s].task => e.left >= 1

RerunInv ==
    \A t \in Tasks :
        /\ t \notin removed => reruns[t] = 0
        /\ t \in ShortRuns => reruns[t] <= 1 /\ (triggered = t => reruns[t] = 0)

Base == Typed /\ HolderInv /\ OwnerInv /\ RunInv
Where == Base /\ PlaceInv

LEMMA InitWhere ==
    Init => HolderInv /\ OwnerInv /\ RunInv /\ PlaceInv /\ KeptInv /\ ShortInv /\ RerunInv
<1> SUFFICES ASSUME Init
             PROVE  HolderInv /\ OwnerInv /\ RunInv /\ PlaceInv /\ KeptInv /\ ShortInv
                    /\ RerunInv
  OBVIOUS
<1>1. /\ \A s \in Slots : co[s].pc = "free" /\ co[s].task = None
      /\ \A t \in Tasks : adding[t] = "new" /\ reruns[t] = 0
      /\ \A t \in Tasks : interval[t] = (Kind[t] = "interval")
      /\ \A i \in Ids : id_to_task[i] = None
      /\ tasks = {} /\ triggered = None /\ removed = {} /\ manager = "check"
  BY DEF Init, Idle
<1>2. \A t \in Tasks : t # None /\ Id[t] \in Ids BY NoneAssumption, IdAssumption
<1>3. HolderInv /\ OwnerInv /\ RunInv BY <1>1, <1>2 DEF HolderInv, OwnerInv, RunInv, Keeps
<1>4. PlaceInv /\ KeptInv BY <1>1, <1>2 DEF PlaceInv, KeptInv, Keeps, Owned
<1>5. ShortInv /\ RerunInv BY <1>1, <1>2 DEF ShortInv, RerunInv
<1> QED BY <1>3, <1>4, <1>5

LEMMA HolderStep == Typed /\ HolderInv /\ [Next]_vars => HolderInv'
<1> SUFFICES ASSUME Typed, HolderInv, [Next]_vars PROVE HolderInv' OBVIOUS
<1> USE NoneAssumption, HolderAssumption
    DEF Typed, TypeOK, HolderInv, sleeper, managing, history
<1>1. CASE UNCHANGED vars BY <1>1 DEF vars
<1>2. ASSUME NEW t \in Tasks, AddEntry(t) PROVE HolderInv' BY <1>2 DEF AddEntry
<1>3. ASSUME NEW t \in Tasks, AddId(t) PROVE HolderInv' BY <1>3 DEF AddId
<1>4. ASSUME NEW t \in Tasks, AddInterrupt(t) PROVE HolderInv' BY <1>4 DEF AddInterrupt
<1>5. ASSUME NEW i \in Ids, RemoveFlag(i) \/ RemoveErase(i) PROVE HolderInv'
  BY <1>5 DEF RemoveFlag, RemoveErase
<1>6. CASE Stop \/ StopInterrupt BY <1>6 DEF Stop, StopInterrupt
<1>7. CASE Check \/ WakeUp BY <1>7 DEF Check, WakeUp
<1>8. CASE ManageBegin BY <1>8 DEF ManageBegin
<1>9. CASE ManageEnd BY <1>9 DEF ManageEnd
<1>10. ASSUME NEW e \in due, Trigger(e) PROVE HolderInv' BY <1>10 DEF Trigger
<1>11. ASSUME NEW t \in Tasks, NEW s \in Slots, Dispatch(t, s) PROVE HolderInv'
  <2>1. \A r \in Slots : co'[r].pc = "readded" => co[r].pc = "readded" BY <1>11 DEF Dispatch
  <2> QED BY <1>11, <2>1 DEF Dispatch
<1>12. ASSUME NEW s \in Slots, Finish(s) PROVE HolderInv'
  <2>1. \A r \in Slots : co'[r].pc = "readded" => co[r].pc = "readded"
    BY <1>12 DEF Finish, Idle
  <2> QED BY <1>12, <2>1 DEF Finish
<1>13. ASSUME NEW s \in Slots, Readd(s) PROVE HolderInv' BY <1>13 DEF Readd
<1>14. ASSUME NEW s \in Slots, ReaddInterrupt(s) PROVE HolderInv'
  BY <1>14 DEF ReaddInterrupt, Idle
<1>15. CASE Tick
  <2>1. \A s \in Slots : co'[s].pc = co[s].pc BY <1>15 DEF Tick
  <2> QED BY <1>15, <2>1 DEF Tick
<1> QED BY <1>1, <1>2, <1>3, <1>4, <1>5, <1>6, <1>7, <1>8, <1>9, <1>10, <1>11, <1>12,
   <1>13, <1>14, <1>15 DEF Next, Add, ManageThread, Coroutine

LEMMA OwnerStep == Typed /\ OwnerInv /\ [Next]_vars => OwnerInv'
<1> SUFFICES ASSUME Typed, OwnerInv, [Next]_vars PROVE OwnerInv' OBVIOUS
<1> USE NoneAssumption DEF Typed, TypeOK, Shape, OwnerInv, sleeper, managing, history
<1>1. CASE UNCHANGED vars BY <1>1 DEF vars
<1>2. ASSUME NEW t \in Tasks, AddEntry(t) PROVE OwnerInv' BY <1>2 DEF AddEntry
<1>3. ASSUME NEW t \in Tasks, AddId(t) PROVE OwnerInv' BY <1>3, IdAssumption DEF AddId
<1>4. ASSUME NEW t \in Tasks, AddInterrupt(t) PROVE OwnerInv' BY <1>4 DEF AddInterrupt
<1>5. ASSUME NEW i \in Ids, RemoveFlag(i) PROVE OwnerInv' BY <1>5 DEF RemoveFlag
<1>6. ASSUME NEW i \in Ids, RemoveErase(i) PROVE OwnerInv'
  <2>1. id_to_task[i] \in Tasks BY <1>6 DEF RemoveErase
  <2>2. \A j \in Ids : id_to_task'[j] = IF j = i THEN None ELSE id_to_task[j]
    BY <1>6 DEF RemoveErase
  <2>3. \A j \in Ids : id_to_task'[j] # id_to_task[i] BY <2>1, <2>2
  <2> QED BY <1>6, <2>1, <2>2, <2>3 DEF RemoveErase
<1>7. CASE Stop \/ StopInterrupt BY <1>7 DEF Stop, StopInterrupt
<1>8. CASE Check \/ WakeUp \/ ManageBegin \/ ManageEnd
  BY <1>8 DEF Check, WakeUp, ManageBegin, ManageEnd
<1>9. ASSUME NEW e \in due, Trigger(e) PROVE OwnerInv' BY <1>9 DEF Trigger
<1>10. ASSUME NEW t \in Tasks, NEW s \in Slots, Dispatch(t, s) PROVE OwnerInv'
  BY <1>10 DEF Dispatch
<1>11. ASSUME NEW s \in Slots, Coroutine(s) PROVE OwnerInv'
  BY <1>11 DEF Coroutine, Finish, Readd, ReaddInterrupt
<1>12. CASE Tick BY <1>12 DEF Tick
<1> QED BY <1>1, <1>2, <1>3, <1>4, <1>5, <1>6, <1>7, <1>8, <1>9, <1>10, <1>11, <1>12
   DEF Next, Add, ManageThread

LEMMA RunStep == Where /\ [Next]_vars => RunInv'
<1> SUFFICES ASSUME Where, [Next]_vars PROVE RunInv' OBVIOUS
<1>0. Typed /\ RunInv /\ PlaceInv BY DEF Where, Base
<1> USE <1>0, NoneAssumption DEF Typed, TypeOK, RunInv, Keeps, sleeper, managing, history
<1>1. CASE UNCHANGED vars BY <1>1 DEF vars
<1>2. ASSUME NEW t \in Tasks, Add(t) PROVE RunInv'
  BY <1>2 DEF Add, AddEntry, AddId, AddInterrupt
<1>3. ASSUME NEW i \in Ids, RemoveFlag(i) PROVE RunInv'
  <2>1. \A t \in Tasks : interval'[t] => interval[t] BY <1>3 DEF RemoveFlag
  <2>2. \A s \in Slots : co[s].pc = "run" => co[s].task \in Tasks BY DEF Shape
  <2> QED BY <1>3, <2>1, <2>2 DEF RemoveFlag
<1>4. ASSUME NEW i \in Ids, RemoveErase(i) PROVE RunInv' BY <1>4 DEF RemoveErase
<1>5. CASE Stop \/ StopInterrupt BY <1>5 DEF Stop, StopInterrupt
<1>6. CASE Check \/ WakeUp \/ ManageBegin \/ ManageEnd
  BY <1>6 DEF Check, WakeUp, ManageBegin, ManageEnd
<1>7. ASSUME NEW e \in due, Trigger(e) PROVE RunInv' BY <1>7 DEF Trigger
<1>8. ASSUME NEW t \in Tasks, NEW s \in Slots, Dispatch(t, s) PROVE RunInv'
  <2>1. \A r \in Slots : co'[r] = IF r = s
          THEN [task |-> t, left |-> 0, pc |-> IF interval[t] THEN "run_interval" ELSE "run"]
          ELSE co[r]
    BY <1>8 DEF Dispatch
  <2>2. \A r \in Slots : ~Keeps(r, t) BY <1>8 DEF Dispatch, PlaceInv
  <2>3. interval' = interval BY <1>8 DEF Dispatch
  <2> QED BY <2>1, <2>2, <2>3
<1>9. ASSUME NEW s \in Slots, Finish(s) PROVE RunInv'
  <2>1. CASE co[s].pc = "run_interval" /\ interval[co[s].task]
    <3>1. \A r \in Slots : co'[r] = IF r = s
            THEN [task |-> co[s].task, left |-> Period[co[s].task], pc |-> "readd"] ELSE co[r]
      BY <1>9, <2>1 DEF Finish
    <3> QED BY <1>9, <2>1, <3>1 DEF Finish
  <2>2. CASE ~(co[s].pc = "run_interval" /\ interval[co[s].task])
    <3>1. \A r \in Slots : co'[r] = IF r = s THEN Idle ELSE co[r] BY <1>9, <2>2 DEF Finish
    <3> QED BY <1>9, <2>2, <3>1 DEF Finish, Idle
  <2> QED BY <2>1, <2>2
<1>10. ASSUME NEW s \in Slots, Readd(s) PROVE RunInv'
  <2>1. \A r \in Slots : /\ co'[r].task = co[r].task
                         /\ co'[r].pc = IF r = s THEN "readded" ELSE co[r].pc
    BY <1>10 DEF Readd
  <2> QED BY <1>10, <2>1 DEF Readd
<1>11. ASSUME NEW s \in Slots, ReaddInterrupt(s) PROVE RunInv'
  BY <1>11 DEF ReaddInterrupt, Idle
<1>12. CASE Tick
  <2>1. \A s \in Slots : co'[s].pc = co[s].pc /\ co'[s].task = co[s].task BY <1>12 DEF Tick
  <2> QED BY <1>12, <2>1 DEF Tick
<1> QED BY <1>1, <1>2, <1>3, <1>4, <1>5, <1>6, <1>7, <1>8, <1>9, <1>10, <1>11, <1>12
   DEF Next, ManageThread, Coroutine

\* One unit of time leaves every entry where it is.
LEMMA TickEntries ==
    ASSUME Typed, Tick
    PROVE  /\ \A e \in tasks' : \E f \in tasks : e.task = f.task /\ e.left = Less(f.left)
           /\ \A f \in tasks : \E e \in tasks' : e.task = f.task /\ e.left = Less(f.left)
           /\ \A s \in Slots : co'[s].pc = co[s].pc /\ co'[s].task = co[s].task
<1>1. \A f \in tasks : LET g == [f EXCEPT !.left = Less(@)]
                       IN  g.task = f.task /\ g.left = Less(f.left)
  BY DEF Typed, TypeOK, EntryType
<1>2. tasks' = {[e EXCEPT !.left = Less(@)] : e \in tasks} BY DEF Tick
<1>3. \A s \in Slots : co'[s].pc = co[s].pc /\ co'[s].task = co[s].task
  BY DEF Tick, Typed, TypeOK
<1>4. \A e \in tasks' : \E f \in tasks : e = [f EXCEPT !.left = Less(@)] BY <1>2
<1>5. \A f \in tasks : [f EXCEPT !.left = Less(@)] \in tasks' BY <1>2
<1>6. \A e \in tasks' : \E f \in tasks : e.task = f.task /\ e.left = Less(f.left)
  BY <1>1, <1>4
<1>7. \A f \in tasks : \E e \in tasks' : e.task = f.task /\ e.left = Less(f.left)
  BY <1>1, <1>5
<1> QED BY <1>3, <1>6, <1>7

LEMMA PlaceStep == Where /\ [Next]_vars => PlaceInv'
<1> SUFFICES ASSUME Where, [Next]_vars PROVE PlaceInv' OBVIOUS
<1>0. Typed /\ HolderInv /\ RunInv /\ PlaceInv BY DEF Where, Base
<1> USE <1>0, NoneAssumption
    DEF Typed, TypeOK, EntryType, PlaceInv, Keeps, sleeper, managing, history
<1>1. CASE UNCHANGED vars BY <1>1 DEF vars
<1>2. ASSUME NEW t \in Tasks, AddEntry(t) PROVE PlaceInv'
  <2>1. PICK d \in Nat : tasks' = tasks \cup {Entry(t, d)} BY <1>2, DelayTypes DEF AddEntry
  <2>2. \A e \in tasks : e.task # t BY <1>2 DEF AddEntry
  <2>3. Entry(t, d).task = t BY DEF Entry
  <2>4. \A u \in Tasks : adding'[u] = IF u = t THEN "emplaced" ELSE adding[u]
    BY <1>2 DEF AddEntry
  <2> QED BY <1>2, <2>1, <2>2, <2>3, <2>4 DEF AddEntry
<1>3. ASSUME NEW t \in Tasks, AddId(t) PROVE PlaceInv' BY <1>3 DEF AddId
<1>4. ASSUME NEW t \in Tasks, AddInterrupt(t) PROVE PlaceInv' BY <1>4 DEF AddInterrupt
<1>5. ASSUME NEW i \in Ids, RemoveFlag(i) \/ RemoveErase(i) PROVE PlaceInv'
  BY <1>5 DEF RemoveFlag, RemoveErase
<1>6. CASE Stop \/ StopInterrupt BY <1>6 DEF Stop, StopInterrupt
<1>7. CASE Check \/ WakeUp \/ ManageBegin \/ ManageEnd
  BY <1>7 DEF Check, WakeUp, ManageBegin, ManageEnd
<1>8. ASSUME NEW e \in due, Trigger(e) PROVE PlaceInv'
  <2>1. e \in tasks /\ e.task \in Tasks OBVIOUS
  <2>2. \A t \in Tasks : adding[t] = "emplaced" => lock = t BY DEF HolderInv
  <2>3. lock = Manager BY <1>8 DEF Trigger, HolderInv
  <2>4. adding[e.task] \notin {"new", "emplaced"} BY <2>1, <2>2, <2>3, HolderAssumption
  <2>5. tasks' = tasks \ {e} /\ triggered' \in {e.task, None} BY <1>8 DEF Trigger
  <2>6. UNCHANGED <<co, adding>> BY <1>8 DEF Trigger
  <2> QED BY <2>1, <2>4, <2>5, <2>6
<1>9. ASSUME NEW t \in Tasks, NEW s \in Slots, Dispatch(t, s) PROVE PlaceInv'
  <2>1. \A r \in Slots : co'[r] = IF r = s
          THEN [task |-> t, left |-> 0, pc |-> IF interval[t] THEN "run_interval" ELSE "run"]
          ELSE co[r]
    BY <1>9 DEF Dispatch
  <2>2. /\ \A r \in Slots : ~Keeps(r, t)
        /\ \A e \in tasks : e.task # t
        /\ adding[t] \notin {"new", "emplaced"}
    BY <1>9 DEF Dispatch
  <2>3. triggered' = None /\ adding' = adding BY <1>9 DEF Dispatch
  <2>4. CASE interval[t]
    <3>1. tasks' = tasks BY <1>9, <2>4 DEF Dispatch
    <3> QED BY <2>1, <2>2, <2>3, <2>4, <3>1
  <2>5. CASE ~interval[t]
    <3>1. \A r \in Slots, u \in Tasks : Keeps(r, u)' => Keeps(r, u) BY <2>1, <2>5
    <3>2. \A r \in Slots, u \in Tasks : co'[r].task = u => co[r].task = u \/ u = t BY <2>1
    <3>3. CASE tasks' = tasks BY <2>2, <2>3, <3>1, <3>2, <3>3
    <3>4. ASSUME NEW d \in Nat, tasks' = tasks \cup {Entry(t, d)} PROVE PlaceInv'
      <4>1. Entry(t, d).task = t BY DEF Entry
      <4> QED BY <2>2, <2>3, <3>1, <3>2, <3>4, <4>1
    <3> QED BY <1>9, <3>3, <3>4, DelayTypes DEF Dispatch
  <2> QED BY <2>4, <2>5
<1>10. ASSUME NEW s \in Slots, Finish(s) PROVE PlaceInv'
  <2>1. \A r \in Slots : r # s => co'[r] = co[r] BY <1>10 DEF Finish
  <2>2. \/ co'[s] = Idle
        \/ co'[s].task = co[s].task /\ co[s].pc = "run_interval"
    BY <1>10 DEF Finish
  <2>3. \A r \in Slots, u \in Tasks : Keeps(r, u)' => Keeps(r, u)
    BY <2>1, <2>2 DEF Idle
  <2>4. \A r \in Slots, u \in Tasks : co'[r].task = u => co[r].task = u
    BY <2>1, <2>2 DEF Idle
  <2>5. UNCHANGED <<tasks, triggered, adding>> BY <1>10 DEF Finish
  <2> QED BY <2>3, <2>4, <2>5
<1>11. ASSUME NEW s \in Slots, Readd(s) PROVE PlaceInv'
  <2>1. \A r \in Slots : /\ co'[r].task = co[r].task
                         /\ co'[r].pc = IF r = s THEN "readded" ELSE co[r].pc
    BY <1>11 DEF Readd
  <2>2. co[s].task \in Tasks /\ Keeps(s, co[s].task) BY <1>11 DEF Readd, Shape
  <2>3. Entry(co[s].task, co[s].left).task = co[s].task BY DEF Entry
  <2>4. \A e \in tasks : e.task # co[s].task BY <2>2
  <2>5. adding[co[s].task] # "new" BY <2>2
  <2>6. triggered # co[s].task BY <2>2
  <2>7. \A r \in Slots, u \in Tasks : Keeps(r, u)' => Keeps(r, u) /\ u # co[s].task
    BY <2>1, <2>2
  <2>8. /\ tasks' = tasks \cup {Entry(co[s].task, co[s].left)}
        /\ UNCHANGED <<triggered, adding>>
    BY <1>11 DEF Readd
  <2> QED BY <2>1, <2>2, <2>3, <2>4, <2>5, <2>6, <2>7, <2>8
<1>12. ASSUME NEW s \in Slots, ReaddInterrupt(s) PROVE PlaceInv'
  BY <1>12 DEF ReaddInterrupt, Idle
<1>13. CASE Tick
  <2>1. UNCHANGED <<triggered, adding>> BY <1>13 DEF Tick
  <2>2. \A u : \A r \in Slots : Keeps(r, u)' <=> Keeps(r, u) BY <1>13, TickEntries
  <2>3. \A e, f \in tasks' : e.task = f.task => e = f
    <3> SUFFICES ASSUME NEW e \in tasks', NEW f \in tasks', e.task = f.task PROVE e = f
      OBVIOUS
    <3>1. PICK g \in tasks, h \in tasks : /\ e = [g EXCEPT !.left = Less(@)]
                                          /\ f = [h EXCEPT !.left = Less(@)]
      BY <1>13 DEF Tick
    <3>2. g.task = h.task BY <3>1
    <3> QED BY <3>1, <3>2
  <2> QED BY <1>13, <2>1, <2>2, <2>3, TickEntries
<1> QED BY <1>1, <1>2, <1>3, <1>4, <1>5, <1>6, <1>7, <1>8, <1>9, <1>10, <1>11, <1>12,
   <1>13 DEF Next, Add, ManageThread, Coroutine

LEMMA KeptStep == Where /\ KeptInv /\ [Next]_vars => KeptInv'
<1> SUFFICES ASSUME Where, KeptInv, [Next]_vars PROVE KeptInv' OBVIOUS
<1>0. Typed /\ HolderInv /\ OwnerInv /\ RunInv /\ PlaceInv BY DEF Where, Base
<1> USE <1>0, NoneAssumption, IdAssumption, KindAssumption
    DEF Typed, TypeOK, EntryType, KeptInv, Placed, Keeps, Owned, sleeper, managing, history
<1>1. CASE UNCHANGED vars BY <1>1 DEF vars
<1>2. ASSUME NEW t \in Tasks, AddEntry(t) PROVE KeptInv'
  <2>1. PICK d \in Nat : tasks' = tasks \cup {Entry(t, d)} BY <1>2, DelayTypes DEF AddEntry
  <2>2. Entry(t, d).task = t BY DEF Entry
  <2>3. Placed(t)' BY <2>1, <2>2
  <2>4. \A u \in Tasks : Placed(u) => Placed(u)' BY <1>2, <2>1 DEF AddEntry
  <2>5. \A u \in Tasks : u # t => adding'[u] = adding[u] BY <1>2 DEF AddEntry
  <2> QED BY <1>2, <2>3, <2>4, <2>5 DEF AddEntry
<1>3. ASSUME NEW t \in Tasks, AddId(t) PROVE KeptInv'
  <2>1. Placed(t) BY <1>3 DEF AddId
  <2>2. \A u \in Tasks : Placed(u) => Placed(u)' BY <1>3 DEF AddId
  <2>3. \A u \in Tasks : Owned(u)' => Owned(u) \/ u = t BY <1>3 DEF AddId
  <2>4. \A u \in Tasks : adding'[u] = "emplaced" => adding[u] = "emplaced"
    BY <1>3 DEF AddId
  <2> QED BY <1>3, <2>1, <2>2, <2>3, <2>4 DEF AddId
<1>4. ASSUME NEW t \in Tasks, AddInterrupt(t) PROVE KeptInv' BY <1>4 DEF AddInterrupt
<1>5. ASSUME NEW i \in Ids, RemoveFlag(i) PROVE KeptInv'
  <2>1. \A t \in Tasks : interval'[t] => interval[t] BY <1>5 DEF RemoveFlag
  <2> QED BY <1>5, <2>1 DEF RemoveFlag
<1>6. ASSUME NEW i \in Ids, RemoveErase(i) PROVE KeptInv'
  <2>1. \A t \in Tasks : Owned(t)' => Owned(t) BY <1>6 DEF RemoveErase
  <2> QED BY <1>6, <2>1 DEF RemoveErase
<1>7. CASE Stop \/ StopInterrupt BY <1>7 DEF Stop, StopInterrupt
<1>8. CASE Check \/ WakeUp \/ ManageBegin \/ ManageEnd
  BY <1>8 DEF Check, WakeUp, ManageBegin, ManageEnd
<1>9. ASSUME NEW e \in due, Trigger(e) PROVE KeptInv'
  <2>1. lock = Manager BY <1>9 DEF Trigger, HolderInv
  <2>2. \A t \in Tasks : adding[t] # "emplaced" BY <2>1, HolderAssumption DEF HolderInv
  <2>3. \A t \in Tasks : t # e.task /\ Placed(t) => Placed(t)' BY <1>9 DEF Trigger
  <2>4. Owned(e.task) => Placed(e.task)'
    <3>1. e.task \in Tasks OBVIOUS
    <3>2. Owned(e.task) => Alive(e.task) BY <3>1 DEF Alive
    <3> QED BY <1>9, <3>2 DEF Trigger
  <2> QED BY <1>9, <2>2, <2>3, <2>4 DEF Trigger
<1>10. ASSUME NEW t \in Tasks, NEW s \in Slots, Dispatch(t, s) PROVE KeptInv'
  <2>1. \A r \in Slots : co'[r] = IF r = s
          THEN [task |-> t, left |-> 0, pc |-> IF interval[t] THEN "run_interval" ELSE "run"]
          ELSE co[r]
    BY <1>10 DEF Dispatch
  <2>2. co[s].task = None BY <1>10 DEF Dispatch, Idle
  <2>3. \A r \in Slots, u \in Tasks : Keeps(r, u) => Keeps(r, u)' BY <2>1, <2>2
  <2>4. tasks \subseteq tasks' BY <1>10 DEF Dispatch
  <2>5. \A u \in Tasks : u # t /\ Placed(u) => Placed(u)' BY <1>10, <2>3, <2>4 DEF Dispatch
  <2>6. interval[t] => Placed(t)' BY <2>1
  <2>7. Recurs(t) /\ ~interval[t] => Placed(t)'
    <3> SUFFICES ASSUME Recurs(t), ~interval[t] PROVE Placed(t)' OBVIOUS
    <3>1. PICK d \in Nat : tasks' = tasks \cup {Entry(t, d)}
      BY <1>10, DelayTypes DEF Dispatch
    <3>2. Entry(t, d).task = t BY DEF Entry
    <3> QED BY <3>1, <3>2
  <2>8. adding[t] # "emplaced" BY <1>10 DEF Dispatch, PlaceInv
  <2> QED BY <1>10, <2>5, <2>6, <2>7, <2>8 DEF Dispatch, Recurs
<1>11. ASSUME NEW s \in Slots, Finish(s) PROVE KeptInv'
  <2>1. \A r \in Slots : r # s => co'[r] = co[r] BY <1>11 DEF Finish
  <2>2. UNCHANGED <<tasks, triggered, adding, id_to_task, interval>> BY <1>11 DEF Finish
  <2>3. \A u \in Tasks : ~Keeps(s, u) /\ Placed(u) => Placed(u)' BY <2>1, <2>2
  <2>4. \A u \in Tasks : Keeps(s, u) => Kind[u] = "interval" BY DEF RunInv
  <2>5. \A u \in Tasks : Keeps(s, u) => adding[u] # "emplaced" BY DEF PlaceInv
  <2>6. ASSUME NEW u \in Tasks, Keeps(s, u), interval[u] PROVE Placed(u)'
    <3>1. u = co[s].task BY <2>6
    <3>2. Keeps(s, u)'
      <4>1. co'[s].task = u /\ co'[s].pc = "readd" BY <1>11, <2>6, <3>1 DEF Finish
      <4> QED BY <4>1
    <3> QED BY <3>2
  <2>7. \A u \in Tasks : Owned(u)' <=> Owned(u) BY <2>2
  <2> QED BY <2>2, <2>3, <2>4, <2>5, <2>6, <2>7
<1>12. ASSUME NEW s \in Slots, Readd(s) PROVE KeptInv'
  <2>1. \A r \in Slots : r # s => co'[r] = co[r] BY <1>12 DEF Readd
  <2>2. Entry(co[s].task, co[s].left).task = co[s].task BY DEF Entry
  <2>3. \A u \in Tasks : Keeps(s, u) => u = co[s].task OBVIOUS
  <2>4. \A u \in Tasks : Placed(u) => Placed(u)' BY <1>12, <2>1, <2>2, <2>3 DEF Readd
  <2> QED BY <1>12, <2>4 DEF Readd
<1>13. ASSUME NEW s \in Slots, ReaddInterrupt(s) PROVE KeptInv'
  <2>1. \A r \in Slots, u \in Tasks : Keeps(r, u) => Keeps(r, u)'
    BY <1>13 DEF ReaddInterrupt
  <2> QED BY <1>13, <2>1 DEF ReaddInterrupt
<1>14. CASE Tick
  <2>1. UNCHANGED <<triggered, adding, id_to_task, interval>> BY <1>14 DEF Tick
  <2>2. \A s \in Slots, u \in Tasks : Keeps(s, u) => Keeps(s, u)' BY <1>14, TickEntries
  <2>3. \A e \in tasks : \E f \in tasks' : f.task = e.task BY <1>14, TickEntries
  <2>4. \A u \in Tasks : Placed(u) => Placed(u)' BY <2>1, <2>2, <2>3
  <2> QED BY <2>1, <2>4
<1> QED BY <1>1, <1>2, <1>3, <1>4, <1>5, <1>6, <1>7, <1>8, <1>9, <1>10, <1>11, <1>12,
   <1>13, <1>14 DEF Next, Add, ManageThread, Coroutine

LEMMA ShortStep == Where /\ ShortInv /\ [Next]_vars => ShortInv'
<1> SUFFICES ASSUME Where, ShortInv, [Next]_vars PROVE ShortInv' OBVIOUS
<1>0. Typed /\ HolderInv /\ RunInv /\ PlaceInv BY DEF Where, Base
<1> USE <1>0, NoneAssumption, ShortRunsAssumption
    DEF Typed, TypeOK, EntryType, ShortInv, Keeps, sleeper, managing, history
<1>1. CASE UNCHANGED vars BY <1>1 DEF vars
<1>2. ASSUME NEW t \in Tasks, AddEntry(t) PROVE ShortInv'
  <2>1. PICK d \in Nat : tasks' = tasks \cup {Entry(t, d)} BY <1>2, DelayTypes DEF AddEntry
  <2>2. Entry(t, d).task = t /\ \A s \in Slots : co[s].task # t
    BY <1>2 DEF AddEntry, Entry, PlaceInv
  <2> QED BY <1>2, <2>1, <2>2 DEF AddEntry
<1>3. ASSUME NEW t \in Tasks, AddId(t) \/ AddInterrupt(t) PROVE ShortInv'
  BY <1>3 DEF AddId, AddInterrupt
<1>4. ASSUME NEW i \in Ids, RemoveFlag(i) \/ RemoveErase(i) PROVE ShortInv'
  BY <1>4 DEF RemoveFlag, RemoveErase
<1>5. CASE Stop \/ StopInterrupt BY <1>5 DEF Stop, StopInterrupt
<1>6. CASE Check \/ WakeUp \/ ManageBegin \/ ManageEnd
  BY <1>6 DEF Check, WakeUp, ManageBegin, ManageEnd
<1>7. ASSUME NEW e \in due, Trigger(e) PROVE ShortInv'
  <2>1. e \in tasks /\ e.left = 0 BY DEF Shape
  <2>2. tasks' \subseteq tasks /\ triggered' \in {e.task, None} /\ co' = co
    BY <1>7 DEF Trigger
  <2> QED BY <2>1, <2>2
<1>8. ASSUME NEW t \in Tasks, NEW s \in Slots, Dispatch(t, s) PROVE ShortInv'
  <2>1. \A r \in Slots : co'[r] = IF r = s
          THEN [task |-> t, left |-> 0, pc |-> IF interval[t] THEN "run_interval" ELSE "run"]
          ELSE co[r]
    BY <1>8 DEF Dispatch
  <2>2. \A e \in tasks : e.task # t BY <1>8 DEF Dispatch, PlaceInv
  <2>3. triggered' = None /\ triggered = t BY <1>8 DEF Dispatch
  <2>4. \A d \in NewDelays(t) : d \in Nat /\ d >= 1
    BY PeriodAssumption DEF NewDelays
  <2>5. CASE tasks' = tasks BY <2>1, <2>2, <2>3, <2>5
  <2>6. ASSUME NEW d \in NewDelays(t), tasks' = tasks \cup {Entry(t, d)} PROVE ShortInv'
    <3>1. Entry(t, d).task = t /\ Entry(t, d).left >= 1 BY <2>4 DEF Entry
    <3> QED BY <2>1, <2>2, <2>3, <2>6, <3>1
  <2> QED BY <1>8, <2>5, <2>6 DEF Dispatch
<1>9. ASSUME NEW s \in Slots, Finish(s) PROVE ShortInv'
  <2>1. \A r \in Slots : co'[r].pc = "run" => co'[r] = co[r] BY <1>9 DEF Finish, Idle
  <2> QED BY <1>9, <2>1 DEF Finish
<1>10. ASSUME NEW s \in Slots, Readd(s) PROVE ShortInv'
  <2>1. \A r \in Slots : co'[r].pc = "run" => co'[r] = co[r] BY <1>10 DEF Readd
  <2>2. Entry(co[s].task, co[s].left).task = co[s].task BY DEF Entry
  <2>3. \A r \in Slots : co[r].pc = "run" => co[r].task # co[s].task
    BY <1>10 DEF Readd, RunInv
  <2> QED BY <1>10, <2>1, <2>2, <2>3 DEF Readd
<1>11. ASSUME NEW s \in Slots, ReaddInterrupt(s) PROVE ShortInv'
  BY <1>11 DEF ReaddInterrupt, Idle
<1>12. CASE Tick
  <2> SUFFICES ASSUME NEW s \in Slots, co'[s].pc = "run", co'[s].task \in ShortRuns
               PROVE  /\ triggered' # co'[s].task
                      /\ \A e \in tasks' : e.task = co'[s].task => e.left >= 1
    OBVIOUS
  <2>1. co[s].pc = "run" /\ co[s].task = co'[s].task BY <1>12, TickEntries
  <2>2. \A f \in tasks : f.task = co[s].task => f.left > 1 BY <1>12, <2>1 DEF Tick
  <2>3. \A d \in Nat : d > 1 => Less(d) >= 1 BY NeverAssumption DEF Less
  <2>4. \A e \in tasks' : e.task = co'[s].task => e.left >= 1
    BY <1>12, <2>1, <2>2, <2>3, TickEntries
  <2> QED BY <1>12, <2>1, <2>4 DEF Tick
<1> QED BY <1>1, <1>2, <1>3, <1>4, <1>5, <1>6, <1>7, <1>8, <1>9, <1>10, <1>11, <1>12
   DEF Next, Add, ManageThread, Coroutine

LEMMA RerunStep == Where /\ ShortInv /\ RerunInv /\ [Next]_vars => RerunInv'
<1> SUFFICES ASSUME Where, ShortInv, RerunInv, [Next]_vars PROVE RerunInv' OBVIOUS
<1>0. Typed /\ HolderInv /\ OwnerInv /\ RunInv /\ PlaceInv BY DEF Where, Base
<1> USE <1>0, NoneAssumption
    DEF Typed, TypeOK, EntryType, RerunInv, Keeps, sleeper, managing, history
<1>1. CASE UNCHANGED vars BY <1>1 DEF vars
<1>2. ASSUME NEW t \in Tasks, Add(t) PROVE RerunInv'
  BY <1>2 DEF Add, AddEntry, AddId, AddInterrupt
<1>3. ASSUME NEW i \in Ids, RemoveFlag(i) \/ RemoveErase(i) PROVE RerunInv'
  BY <1>3 DEF RemoveFlag, RemoveErase
<1>4. CASE Stop \/ StopInterrupt BY <1>4 DEF Stop, StopInterrupt
<1>5. CASE Check \/ WakeUp \/ ManageBegin \/ ManageEnd
  BY <1>5 DEF Check, WakeUp, ManageBegin, ManageEnd
<1>6. ASSUME NEW e \in due, Trigger(e) PROVE RerunInv'
  <2>1. e \in tasks /\ e.left = 0 /\ e.task \in Tasks BY DEF Shape
  <2>2. lock = Manager BY <1>6 DEF Trigger, HolderInv
  \* A removed task with short runs is not alive when it is due.
  <2>3. e.task \in ShortRuns \cap removed => ~Alive(e.task)
    <3> SUFFICES ASSUME e.task \in ShortRuns, e.task \in removed PROVE ~Alive(e.task)
      OBVIOUS
    <3>1. adding[e.task] # "emplaced" /\ \A i \in Ids : id_to_task[i] # e.task
      BY <2>1 DEF OwnerInv
    <3>2. triggered # e.task BY <2>1 DEF PlaceInv
    <3>3. \A s \in Slots : co[s].pc # "readded"
      BY <2>2, HolderAssumption DEF HolderInv
    <3>4. \A s \in Slots : co[s].task # e.task
      BY <2>1, <3>3 DEF ShortInv, PlaceInv, RunInv
    <3> QED BY <3>1, <3>2, <3>4 DEF Alive
  <2>4. UNCHANGED <<removed, reruns>> BY <1>6 DEF Trigger
  <2>5. triggered' = IF Alive(e.task) THEN e.task ELSE None BY <1>6 DEF Trigger
  <2> QED BY <2>1, <2>3, <2>4, <2>5
<1>7. ASSUME NEW t \in Tasks, NEW s \in Slots, Dispatch(t, s) PROVE RerunInv'
  <2>1. triggered = t /\ triggered' = None /\ removed' = removed BY <1>7 DEF Dispatch
  <2>2. \A u \in Tasks : reruns'[u] = IF u = t /\ t \in removed /\ reruns[t] < 2
                                        THEN reruns[t] + 1 ELSE reruns[u]
    BY <1>7 DEF Dispatch
  <2> QED BY <2>1, <2>2
<1>8. ASSUME NEW s \in Slots, Coroutine(s) PROVE RerunInv'
  BY <1>8 DEF Coroutine, Finish, Readd, ReaddInterrupt
<1>9. CASE Tick BY <1>9 DEF Tick
<1> QED BY <1>1, <1>2, <1>3, <1>4, <1>5, <1>6, <1>7, <1>8, <1>9 DEF Next, ManageThread

LEMMA PlacesInvariant == Spec => [](Where /\ KeptInv /\ ShortInv /\ RerunInv)
<1> DEFINE Inv == Where /\ KeptInv /\ ShortInv /\ RerunInv
<1>1. Init => Inv BY InitIInv, InitWhere DEF IInv, Where, Base
<1>2. Inv /\ [Next]_vars => Inv'
  BY TypeStep, HolderStep, OwnerStep, RunStep, PlaceStep, KeptStep, ShortStep, RerunStep
     DEF Where, Base
<1> QED BY <1>1, <1>2, PTL DEF Spec

THEOREM Invariance == Spec => []IInv
<1>1. IInv /\ [Next]_vars => IInv' BY TypeStep, NoOversleepStep DEF IInv
<1> QED BY <1>1, InitIInv, PTL DEF Spec

\* Every variable of Scheduler keeps its type.
THEOREM TypeCorrect == Spec => []TypeOK
<1>1. IInv => TypeOK BY DEF IInv, Typed
<1> QED BY <1>1, Invariance, PTL

\* The manage thread never sleeps past an entry of tasks: add_task inserts, then
\* interrupts, and InterruptableSleep remembers the interruption.
THEOREM NoLostWakeUp == Spec => []NoOversleep
<1>1. IInv => NoOversleep BY DEF IInv
<1> QED BY <1>1, Invariance, PTL

\* A task that is not removed is neither lost nor scheduled twice.
THEOREM ScheduledOnceHolds == Spec => []ScheduledOnce
<1> DEFINE Inv == Where /\ KeptInv /\ ShortInv /\ RerunInv
<1>1. Inv => ScheduledOnce
  <2> SUFFICES ASSUME Inv, NEW t \in Tasks, Owned(t),
                      interval[t] \/ Kind[t] \in {"every", "cron"}
               PROVE  /\ interval[t] =>
                            \/ One(Entries(t)) /\ triggered # t /\ Coroutines(t) = {}
                            \/ Entries(t) = {} /\ triggered = t /\ Coroutines(t) = {}
                            \/ Entries(t) = {} /\ triggered # t /\ One(Coroutines(t))
                      /\ Kind[t] \in {"every", "cron"} =>
                            \/ One(Entries(t)) /\ triggered # t
                            \/ Entries(t) = {} /\ triggered = t
    BY DEF ScheduledOnce
  <2>0. Typed /\ RunInv /\ PlaceInv /\ KeptInv BY DEF Where, Base
  <2>1. Placed(t) BY <2>0 DEF KeptInv
  <2>2. Entries(t) # {} => One(Entries(t)) BY <2>0 DEF Entries, One, PlaceInv
  <2>3. Entries(t) # {} => triggered # t /\ \A s \in Slots : ~Keeps(s, t)
    BY <2>0 DEF Entries, PlaceInv
  <2>4. triggered = t => \A s \in Slots : ~Keeps(s, t)
    BY <2>0, NoneAssumption DEF PlaceInv
  <2>5. CASE interval[t]
    <3>1. Coroutines(t) = {s \in Slots : Keeps(s, t)}
      <4>1. \A s \in Slots : co[s].task = t => co[s].pc \notin {"free", "run"}
        BY <2>0, <2>5, NoneAssumption DEF RunInv
      <4>2. \A s \in Slots : co[s].pc \in {"free", "run", "run_interval", "readd", "readded"}
        BY <2>0 DEF Typed, TypeOK
      <4> QED BY <4>1, <4>2 DEF Coroutines, Keeps
    <3>2. Coroutines(t) # {} => One(Coroutines(t)) BY <2>0, <3>1 DEF One, PlaceInv
    <3>3. Kind[t] \notin {"every", "cron"} BY <2>0, <2>5 DEF RunInv
    <3> QED BY <2>1, <2>2, <2>3, <2>4, <3>1, <3>2, <3>3 DEF Placed, Entries
  <2>6. CASE ~interval[t]
    <3>1. \A s \in Slots : ~Keeps(s, t) BY <2>0, <2>6 DEF RunInv, Keeps
    <3> QED BY <2>1, <2>2, <2>3, <2>6, <3>1 DEF Placed, Entries
  <2> QED BY <2>5, <2>6
<1> QED BY <1>1, PlacesInvariant, PTL

\* A removed task whose runs are short runs at most once more.
THEOREM ShortRunsEndHolds == Spec => []ShortRunsEndAfterDeletion
<1>1. RerunInv => ShortRunsEndAfterDeletion
  BY ShortRunsAssumption DEF RerunInv, ShortRunsEndAfterDeletion
<1> QED BY <1>1, PlacesInvariant, PTL
=============================================================================
