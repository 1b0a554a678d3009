------------------------------ MODULE Scheduler ------------------------------
(***************************************************************************)
(* Bosma::Scheduler (schedule/Bosma/Scheduler.h) over InterruptableSleep:  *)
(* threads that add tasks and remove them by id, the manage thread, and    *)
(* the coroutines that run the tasks.                                      *)
(*                                                                         *)
(* Time is relative: an entry of the multimap tasks carries the time left  *)
(* until it is due, and Tick takes one unit off every delay.  No horizon   *)
(* bounds a behaviour.                                                     *)
(***************************************************************************)
EXTENDS Naturals, FiniteSets

CONSTANTS
    Tasks,     \* Task objects; each is added at most once
    Ids,       \* task ids
    Id,        \* Id[t]: the id t is added under; a fresh one when anonymous
    Kind,      \* Kind[t]: the member function that adds t
    Period,    \* Period[t]: its period, and the longest delay of "in"
    Slots,     \* bound: coroutines that run tasks at the same time
    ShortRuns, \* tasks whose run ends before the next one is due
    None,      \* no task, no id, no thread
    Never      \* the time at which sleep() returns by itself

Kinds == {"in", "every", "cron", "interval"}

ASSUME IdAssumption == Id \in [Tasks -> Ids]
ASSUME KindAssumption == Kind \in [Tasks -> Kinds]
ASSUME PeriodAssumption == Period \in [Tasks -> Nat \ {0}]
ASSUME ShortRunsAssumption == ShortRuns \subseteq Tasks
ASSUME NoneAssumption == None \notin Tasks \cup Ids \cup Slots
ASSUME NeverAssumption == Never \notin Nat

\* Who holds a mutex: the manage thread, or a caller of add or a coroutine by its name.
Manager == "manager"
ASSUME HolderAssumption ==
    Tasks \cap Slots = {} /\ Manager \notin Tasks \cup Slots \cup {None}

VARIABLES
    tasks,        \* entries [task, left] of the multimap tasks (weak_ptr)
    id_to_task,   \* the shared_ptr that owns a task
    interval,     \* Task::interval, set at construction and cleared by remove
    lock,         \* who holds Scheduler::lock
    adding,       \* adding[t]: where the call that adds t is
    removing,     \* the id remove() has flagged and not yet erased
    interrupted,  \* InterruptableSleep::interrupted
    stop,         \* the destructor: "no", "done" (done = true), "interrupted"
    manager,      \* where the manage thread is
    alarm,        \* time left until sleep_until returns; Never for sleep()
    due,          \* entries that manage_tasks has yet to trigger
    triggered,    \* the task manage_tasks has locked and not yet dispatched
    co,           \* co[s]: the coroutine in slot s
    removed,      \* history: tasks that remove() erased
    reruns        \* history: dispatches of t after its removal, at most 2

vars == <<tasks, id_to_task, interval, lock, adding, removing, interrupted,
          stop, manager, alarm, due, triggered, co, removed, reruns>>
sleeper == <<interrupted, stop>>
managing == <<manager, alarm, due, triggered>>
history == <<removed, reruns>>

Idle == [task |-> None, pc |-> "free", left |-> 0]

\* A weak_ptr to t can be locked: somebody holds a shared_ptr.
Alive(t) ==
    \/ \E i \in Ids : id_to_task[i] = t
    \/ adding[t] = "emplaced"
    \/ triggered = t
    \/ \E s \in Slots : co[s].task = t

Recurs(t) == Kind[t] # "in"

\* get_new_time(): EveryTask and CronTask; the next cron time is any later one.
NewDelays(t) == IF Kind[t] = "cron" THEN 1 .. Period[t] ELSE {Period[t]}

\* The delay left when the lock is obtained: the time was computed before.
FirstDelays(t) == IF Kind[t] = "interval" THEN {0} ELSE 0 .. Period[t]

Entry(t, d) == [task |-> t, left |-> d]

Init ==
    /\ tasks = {} /\ due = {}
    /\ id_to_task = [i \in Ids |-> None]
    /\ interval = [t \in Tasks |-> Kind[t] = "interval"]
    /\ lock = None
    /\ adding = [t \in Tasks |-> "new"]
    /\ removing = None
    /\ interrupted = FALSE /\ stop = "no"
    /\ manager = "check" /\ alarm = Never /\ triggered = None
    /\ co = [s \in Slots |-> Idle]
    /\ removed = {} /\ reruns = [t \in Tasks |-> 0]

-----------------------------------------------------------------------------
(***************************************************************************)
(* in, every, cron, interval -> add_task; remove; the destructor           *)
(***************************************************************************)

\* lock_guard; tasks.emplace(time, t)
AddEntry(t) ==
    /\ adding[t] = "new"
    /\ lock = None
    /\ stop = "no"
    /\ lock' = t
    /\ \E d \in FirstDelays(t) : tasks' = tasks \cup {Entry(t, d)}
    /\ adding' = [adding EXCEPT ![t] = "emplaced"]
    /\ UNCHANGED <<id_to_task, interval, removing, sleeper, managing, co, history>>

\* id_to_task.emplace: an id that is taken keeps its task, and t is destroyed.
\* remove() holds another mutex: an insertion beside its erase may be lost.
AddId(t) ==
    /\ adding[t] = "emplaced"
    /\ \/ id_to_task' = [id_to_task EXCEPT ![Id[t]] = IF @ = None THEN t ELSE @]
       \/ removing # None /\ UNCHANGED id_to_task
    /\ adding' = [adding EXCEPT ![t] = "owned"]
    /\ UNCHANGED <<tasks, interval, lock, removing, sleeper, managing, co, history>>

\* Mutant: add_task does not interrupt the sleeper.
AddInterrupt_Forgotten(t) ==
    /\ adding[t] = "owned"
    /\ lock' = None
    /\ adding' = [adding EXCEPT ![t] = "added"]
    /\ UNCHANGED <<tasks, id_to_task, interval, removing, sleeper, managing, co,
                   history>>

\* sleeper.interrupt(), and the lock_guard releases.
AddInterrupt(t) ==
    /\ adding[t] = "owned"
    /\ interrupted' = TRUE
    /\ lock' = None
    /\ adding' = [adding EXCEPT ![t] = "added"]
    /\ UNCHANGED <<tasks, id_to_task, interval, removing, stop, managing, co,
                   history>>

\* remove(id) under id_lock, which add_task does not take: interval = false.
RemoveFlag(i) ==
    /\ removing = None
    /\ id_to_task[i] # None
    /\ interval' = [interval EXCEPT ![id_to_task[i]] = FALSE]
    /\ removing' = i
    /\ UNCHANGED <<tasks, id_to_task, lock, adding, sleeper, managing, co, history>>

\* Mutant: remove() leaves the task to its owner.
RemoveErase_Keeps(i) ==
    /\ removing = i
    /\ removed' = removed \cup {id_to_task[i]}
    /\ removing' = None
    /\ UNCHANGED <<tasks, id_to_task, interval, lock, adding, sleeper, managing,
                   co, reruns>>

\* remove(id): erase(id) drops the shared_ptr that owns the task.
RemoveErase(i) ==
    /\ removing = i
    /\ id_to_task' = [id_to_task EXCEPT ![i] = None]
    /\ removed' = removed \cup {id_to_task[i]}
    /\ removing' = None
    /\ UNCHANGED <<tasks, interval, lock, adding, sleeper, managing, co, reruns>>

\* ~Scheduler: done = true.
Stop ==
    /\ stop = "no"
    /\ stop' = "done"
    /\ UNCHANGED <<tasks, id_to_task, interval, lock, adding, removing,
                   interrupted, managing, co, history>>

\* Mutant: the destructor sets done and joins.
StopInterrupt_Forgotten ==
    /\ stop = "done"
    /\ stop' = "interrupted"
    /\ UNCHANGED <<tasks, id_to_task, interval, lock, adding, removing,
                   interrupted, managing, co, history>>

\* ~Scheduler: sleeper.interrupt() before the join.
StopInterrupt ==
    /\ stop = "done"
    /\ stop' = "interrupted"
    /\ interrupted' = TRUE
    /\ UNCHANGED <<tasks, id_to_task, interval, lock, adding, removing,
                   managing, co, history>>

-----------------------------------------------------------------------------
(***************************************************************************)
(* The manage thread                                                       *)
(***************************************************************************)

\* while (!done): read tasks, without the lock, and choose how long to sleep.
Check ==
    /\ manager = "check"
    /\ IF stop # "no"
         THEN /\ manager' = "exited"
              /\ UNCHANGED alarm
         ELSE /\ manager' = "asleep"
              /\ \/ tasks = {} /\ alarm' = Never
                 \/ \E e \in tasks : /\ \A f \in tasks : e.left <= f.left
                                     /\ alarm' = e.left
    /\ UNCHANGED <<tasks, id_to_task, interval, lock, adding, removing, sleeper,
                   due, triggered, co, history>>

\* sleep() or sleep_until(time) returns, and resets interrupted.
WakeUp ==
    /\ manager = "asleep"
    /\ interrupted \/ alarm = 0
    /\ interrupted' = FALSE
    /\ manager' = "awake"
    /\ UNCHANGED <<tasks, id_to_task, interval, lock, adding, removing, stop,
                   alarm, due, triggered, co, history>>

\* manage_tasks: lock, and everything up to tasks.upper_bound(now) is due.
ManageBegin ==
    /\ manager = "awake"
    /\ lock = None
    /\ lock' = Manager
    /\ manager' = "managing"
    /\ due' = {e \in tasks : e.left = 0}
    /\ UNCHANGED <<tasks, id_to_task, interval, adding, removing, sleeper,
                   alarm, triggered, co, history>>

\* task_weak.lock(): an expired entry is skipped.  The loop leaves the entry to
\* tasks.erase after it; nobody looks at tasks in between, for they need the lock.
Trigger(e) ==
    /\ manager = "managing"
    /\ triggered = None
    /\ tasks' = tasks \ {e}
    /\ due' = due \ {e}
    /\ triggered' = IF Alive(e.task) THEN e.task ELSE None
    /\ UNCHANGED <<id_to_task, interval, lock, adding, removing, sleeper,
                   manager, alarm, co, history>>

\* Mutant: an interval task goes back to tasks before it has run, too.
Dispatch_Always(t, s) ==
    /\ triggered = t
    /\ co[s] = Idle
    /\ co' = [co EXCEPT ![s] =
                [task |-> t, left |-> 0,
                 pc |-> IF interval[t] THEN "run_interval" ELSE "run"]]
    /\ IF Recurs(t)
         THEN \E d \in NewDelays(t) : tasks' = tasks \cup {Entry(t, d)}
         ELSE UNCHANGED tasks
    /\ triggered' = None
    /\ UNCHANGED <<id_to_task, interval, lock, adding, removing, sleeper,
                   manager, alarm, due, history>>

\* if (task->interval) ... else ...; go starts the coroutine.  A recurring task
\* goes back to tasks (by way of recurred_tasks) before it has run.
Dispatch(t, s) ==
    /\ triggered = t
    /\ co[s] = Idle
    /\ co' = [co EXCEPT ![s] =
                [task |-> t, left |-> 0,
                 pc |-> IF interval[t] THEN "run_interval" ELSE "run"]]
    /\ IF ~interval[t] /\ Recurs(t)
         THEN \E d \in NewDelays(t) : tasks' = tasks \cup {Entry(t, d)}
         ELSE UNCHANGED tasks
    /\ triggered' = None
    /\ reruns' = [reruns EXCEPT ![t] = IF t \in removed /\ @ < 2 THEN @ + 1 ELSE @]
    /\ UNCHANGED <<id_to_task, interval, lock, adding, removing, sleeper,
                   manager, alarm, due, removed>>

\* The lock_guard of manage_tasks releases.
ManageEnd ==
    /\ manager = "managing"
    /\ due = {} /\ triggered = None
    /\ lock' = None
    /\ manager' = "check"
    /\ UNCHANGED <<tasks, id_to_task, interval, adding, removing, sleeper, alarm,
                   due, triggered, co, history>>

ManageThread ==
    \/ Check \/ WakeUp \/ ManageBegin \/ ManageEnd
    \/ \E e \in due : Trigger(e)
    \/ \E t \in Tasks, s \in Slots : Dispatch(t, s)

-----------------------------------------------------------------------------
(***************************************************************************)
(* The coroutines                                                          *)
(***************************************************************************)

\* Mutant: an exception of f() ends the coroutine.
Finish_Drops(s) ==
    /\ co[s].pc \in {"run", "run_interval"}
    /\ co' = [co EXCEPT ![s] = Idle]
    /\ UNCHANGED <<tasks, id_to_task, interval, lock, adding, removing, sleeper,
                   managing, history>>

\* f() returned or threw.  A coroutine that was started for an interval task
\* computes the next time, when the task still is one, and keeps the task.
Finish(s) ==
    LET t == co[s].task IN
    /\ co[s].pc \in {"run", "run_interval"}
    /\ co' = [co EXCEPT ![s] =
                IF @.pc = "run_interval" /\ interval[t]
                  THEN [task |-> t, left |-> Period[t], pc |-> "readd"]
                  ELSE Idle]
    /\ UNCHANGED <<tasks, id_to_task, interval, lock, adding, removing, sleeper,
                   managing, history>>

\* add_task_interval: lock_guard; tasks.emplace
Readd(s) ==
    /\ co[s].pc = "readd"
    /\ lock = None
    /\ lock' = s
    /\ tasks' = tasks \cup {Entry(co[s].task, co[s].left)}
    /\ co' = [co EXCEPT ![s].pc = "readded"]
    /\ UNCHANGED <<id_to_task, interval, adding, removing, sleeper, managing,
                   history>>

\* sleeper.interrupt(); the coroutine ends and drops its shared_ptr.
ReaddInterrupt(s) ==
    /\ co[s].pc = "readded"
    /\ interrupted' = TRUE
    /\ lock' = None
    /\ co' = [co EXCEPT ![s] = Idle]
    /\ UNCHANGED <<tasks, id_to_task, interval, adding, removing, stop, managing,
                   history>>

-----------------------------------------------------------------------------
\* A delay after one unit of time; an overdue entry stays due.
Less(d) == IF d = Never \/ d = 0 THEN d ELSE d - 1

\* One unit of time passes for every delay.
Tick ==
    /\ (\E e \in tasks : e.left > 0) \/ (\E s \in Slots : co[s].left > 0)
    /\ \A s \in Slots, e \in tasks :
           /\ co[s].task \in ShortRuns
           /\ co[s].pc \in {"run", "run_interval"}
           /\ e.task = co[s].task
           => e.left > 1
    /\ tasks' = {[e EXCEPT !.left = Less(@)] : e \in tasks}
    /\ co' = [s \in Slots |-> [co[s] EXCEPT !.left = Less(@)]]
    /\ alarm' = Less(alarm)
    /\ UNCHANGED <<id_to_task, interval, lock, adding, removing, sleeper,
                   manager, due, triggered, history>>

Add(t) == AddEntry(t) \/ AddId(t) \/ AddInterrupt(t)
Coroutine(s) == Finish(s) \/ Readd(s) \/ ReaddInterrupt(s)

Next ==
    \/ \E t \in Tasks : Add(t)
    \/ \E i \in Ids : RemoveFlag(i) \/ RemoveErase(i)
    \/ Stop \/ StopInterrupt
    \/ ManageThread
    \/ \E s \in Slots : Coroutine(s)
    \/ Tick

Spec == Init /\ [][Next]_vars

(***************************************************************************)
(* Fairness: a started call goes on; a thread that waits for a mutex gets  *)
(* it (SF, for others take it in between); a task function returns; time   *)
(* passes.  Nothing makes a thread add or remove a task.                   *)
(***************************************************************************)
Fairness ==
    /\ \A t \in Tasks : WF_vars(AddId(t) \/ AddInterrupt(t))
    /\ \A i \in Ids : WF_vars(RemoveErase(i))
    /\ WF_vars(StopInterrupt)
    /\ SF_vars(ManageThread)
    /\ \A s \in Slots : SF_vars(Coroutine(s))
    /\ WF_vars(Tick)

FairSpec == Spec /\ Fairness

-----------------------------------------------------------------------------
(***************************************************************************)
(* Properties                                                              *)
(***************************************************************************)
EntryType == [task : Tasks, left : Nat]

\* Every variable has its type.
TypeOK ==
    /\ tasks \subseteq EntryType
    /\ id_to_task \in [Ids -> Tasks \cup {None}]
    /\ interval \in [Tasks -> BOOLEAN]
    /\ lock \in Tasks \cup Slots \cup {Manager, None}
    /\ adding \in [Tasks -> {"new", "emplaced", "owned", "added"}]
    /\ removing \in Ids \cup {None}
    /\ interrupted \in BOOLEAN
    /\ stop \in {"no", "done", "interrupted"}
    /\ manager \in {"check", "asleep", "awake", "managing", "exited"}
    /\ alarm \in Nat \cup {Never}
    /\ due \subseteq tasks
    /\ triggered \in Tasks \cup {None}
    /\ co \in [Slots -> [task : Tasks \cup {None}, left : Nat,
                         pc : {"free", "run", "run_interval", "readd", "readded"}]]
    /\ removed \subseteq Tasks
    /\ reruns \in [Tasks -> 0 .. 2]

Owned(t) == id_to_task[Id[t]] = t
Entries(t) == {e \in tasks : e.task = t}
Coroutines(t) == {s \in Slots : co[s].task = t /\ co[s].pc # "readded"}
One(S) == \E x \in S : S = {x}

\* The manage thread never sleeps past the first task: while it sleeps and
\* nobody has interrupted it, it wakes no later than any entry is due, unless
\* the thread that made the entry is about to interrupt it (add_task inserts
\* first and interrupts after; the interruption is remembered).
NoOversleep ==
    manager = "asleep" /\ ~interrupted =>
        \/ lock \in Tasks \cup Slots
        \/ \A e \in tasks : alarm # Never /\ alarm <= e.left

\* A task that is not removed is neither lost nor scheduled twice: an interval
\* task is either an entry, or being triggered, or run by one coroutine; another
\* recurring task is one entry or being triggered (manage_tasks re-adds it).
ScheduledOnce ==
    \A t \in Tasks : Owned(t) =>
        /\ interval[t] =>
              \/ One(Entries(t)) /\ triggered # t /\ Coroutines(t) = {}
              \/ Entries(t) = {} /\ triggered = t /\ Coroutines(t) = {}
              \/ Entries(t) = {} /\ triggered # t /\ One(Coroutines(t))
        /\ Kind[t] \in {"every", "cron"} =>
              \/ One(Entries(t)) /\ triggered # t
              \/ Entries(t) = {} /\ triggered = t

\* "run at most once after deletion" (Scheduler.h:114), the comment in remove().
RunsAtMostOnceAfterDeletion == \A t \in Tasks : reruns[t] <= 1

\* What manage_tasks keeps of it: a removed task is dispatched at most once more
\* when its runs end before its next run is due.
ShortRunsEndAfterDeletion == \A t \in ShortRuns : reruns[t] <= 1

Running(t) == \E s \in Slots : co[s].task = t

\* A task that is owned and has not run runs, and a recurring one runs again and
\* again, until it is removed or the scheduler stops.
EveryTaskRuns ==
    \A t \in Tasks :
        Owned(t) /\ (Recurs(t) \/ Entries(t) # {})
            ~> Running(t) \/ t \in removed \/ stop # "no"

\* The destructor's join returns: the manage thread does not go to sleep after
\* it missed done.
StopJoins == stop # "no" ~> manager = "exited"
=============================================================================
