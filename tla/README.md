# A TLA+ development for MigangBotCPP

MigangBotCPP is a chat bot.  OneBot clients connect to it over WebSocket, send
it events (messages, notices, requests, answers to its own API calls), and it
reacts with modules that are switched on and off per group.  Everything runs on
the coroutines of coost, on as many scheduler threads as `co_sched_num` says
(`main.cpp:64`: the operator's flags decide), so every callback below may run
beside every other one.

The modules here describe the parts of the program in which something can go
wrong that a test would hardly reach.  TLC checks them on small instances
(`MC*.tla`, `*.cfg`), and TLAPS proves the most important safety properties for
every value of the constants (`*Proofs.tla`).

## The system

| Part | State | Operations | Talks to |
|---|---|---|---|
| Server (`server.h`) | one `Bot` per channel | `onopen`, `onmessage`, `onclose`; each event gets a coroutine | Bot |
| Bot (`bot/bot.h`) | `echo_function_`, its place in `BotSet` | `Run`, `OnRead`, `EventProcess` | API, event dispatch |
| API call path (`api_bot.h`, `future_wrapper.h`, `co_future.h`) | echo functions, one shared state per call | `SendRaw`, `Echo`, `get`, `set_value` | called by every module, answered by Bot |
| Message waiting (`api_bot.h:147-249`) | maps group -> user -> queue of promises, one mutex per (group, user) | `WaitForNextMessage`, `WaitForNextMessageFrom`, `FeedMessage`, `FeedMessageTo` | modules wait, Bot feeds |
| Event dispatch (`event/`) | tries of commands, lists of matchers; fixed after start | `Register*`, `Handle` | starts services |
| Services (`service/`, `sv.h`, `module_manager.h`) | default, exceptions to it, one json file each | load, `GroupEnable`, `GroupDisable` | dispatch asks `CheckIsEnable` |
| Scheduler (`schedule/Bosma/`) | multimap of times, map of ids, interruptible sleep | add, `remove`, manage thread, destructor | Weibo, Morning |
| Bot set (`schedule/schedule.h`) | list of connected bots | `AddBot`, `RemoveBot`, `Bots()` | scheduled services broadcast through it |
| Connection pools (`db/db_conn/`) | queue of ids, vector of connections, map address -> id | `Get`, `Free`, replacement | every database access |
| Bot management (`botmanage/`) | black lists in table and memory, flags in redis | commands and requests | pools, API |
| Feedback (`botmanage/feedback*.h`) | a table of messages | send, reply to a number | pools, API |
| Weibo (`weibo/`) | per followed user the ids received and their order | constructor, `WeiboPuller` (every minute), `CleanBuffer` (daily) | scheduler, bot set, HTTP |
| Weather (`weather/`) | list of places per user; three tables of Eorzean weather and their copies in memory | searches, forecasts, the update of the tables | message waiting, pools, HTTP |
| Bilibili parser (`bilibili_parser.h`) | in Redis, what a group was told and until when | `Parser` of a message with links | pools, HTTP |
| Eorzea zhanbu (`eorzea_zhanbu/`) | a row per user and day | draw or show again | pools |
| Cron expressions (`schedule/Bosma/croncpp.h`) | none | `make_cron`, `cron_next` | asked by the scheduler for the time of every run |
| CSV reader (`tools/csv.hpp`) | the parse of a text, its rows and fields | `CSVReader`, the range-for over it | the update of the Eorzean tables |
| Help, status, echo, NLP | none | one reply per message | API, HTTP |

What makes it correct, and where it is hard:

- **Call path.**  A call returns its own answer or a default, once, within 60 s.
  Hard: the lookup of an answer is three unlocked steps, the two stores of a
  promise are plain, the timeout races the answer, codes may collide.
- **Message waiting.**  A message reaches one waiter and a waiter gets one
  message; no waiter is lost; no exception leaves `EventProcess`, which is
  `noexcept`.  Hard: the group's map is changed under the mutexes of its users.
- **Scheduler.**  No task is lost or scheduled twice, the manage thread never
  oversleeps, a removed task stops, the destructor returns.  Hard: it reads the
  first time and goes to sleep without the lock; tasks are owned in one place
  and listed in another.
- **Services.**  An answered switch survives crashes, restarts and new
  defaults.  Hard: the file is truncated before it is written, nobody looks
  at the state of the stream, and a module whose constructor throws is left out.
- **Pools.**  A connection has one user, and whoever waits gets one, unless
  everyone waits for everyone.  Hard: broken connections are freed and replaced at
  addresses that are reused, a borrower suspends while it has one, and waiting
  blocks the thread.
- **Bot set.**  The set holds the live bots, and a broadcast reaches those that
  stay.  Hard: the list is walked without its mutex, with a sleep at every node,
  while connections open and close.
- **Dispatch.**  A message starts the service of the longest command it begins
  or ends with, with its own text.  Hard: commands share the nodes of a trie, two
  tries share one size in the event, and `Handle` is `noexcept`.
- **Bot management.**  Who is on a black list gets nothing approved, after a
  restart either.  Hard: the lists are kept twice, the statements fail silently, and
  a start that cannot read a table goes on without its rows.
- **Weibo.**  A weibo is pushed once, if it was posted after the start.  Hard:
  what is remembered is forgotten by a daily job that falls between any two cards.
- **Weather.**  What is foretold comes true; known places have an answer; a number
  means the place it stood beside.  Hard: an update is three truncations and
  fillings, beside which another may run; a search is suspended twice with the list half changed.
- **Cron.**  A task is due at the next time its expression names.  Hard: fields
  of different ranges are settled one after the other.
- **CSV reader.**  Fields are read as they were written, and numbers with their value.  Hard:
  positions and lengths count quotes that are not part of the field, and anything may end the text.
- **Bilibili, zhanbu, feedback.**  A link is answered once in a while, a user has
  one result a day, the number told is the message's own.  Hard: in each of them what
  is read is written later, after a request or in a statement of its own, while
  another handler, or the clock, moves on.

## Modules

| Module | Models | Checked by | Proved in |
|---|---|---|---|
| `OneShotCall` | what an API call promises (abstract) | `calls_and_pool` | |
| `EchoCall` | the call path, step by step | `calls_and_pool`, `echo_races` | `CallsAndPoolProofs` |
| `ConnPool` | the Redis pool, and without replacement the MariaDB pool | `calls_and_pool` | `CallsAndPoolProofs` |
| `MessageWait` | waiting for the next message | `message_wait`, `wait_noexcept` | `MessageWaitProofs` |
| `Scheduler` | `Bosma::Scheduler` and `InterruptableSleep` | `scheduler_*` | `SchedulerProofs` |
| `CronTask` | `croncpp.h` and the runs of a cron task | `modules`, `cron_due` | `CronProofs` |
| `Service` | services, their files, `sv.h`'s switches, restarts | `modules` | `ServiceProofs` |
| `BotSet` | connections, the set of bots, the broadcasts that walk it | `modules`, `botset_closes` | `BotSetProofs` |
| `Dispatch` | registration, and the handling of one event after the other | `modules` | `DispatchProofs` |
| `BotManage` | black lists, flags, invitations, leaving, cleaning | `modules`, `clean_groups` | `ModuleProofs` |
| `Feedback` | messages to the maintainers and replies | `modules` | `ModuleProofs` |
| `Weibo` | spiders and puller of a service | `modules`, `weibo_old_posts` | `ModuleProofs` |
| `EorzeaWeather` | the forecast and its tables | `modules` | `ModuleProofs` |
| `WeatherSearch` | the dialogue about the weather | `modules` | `ModuleProofs` |
| `Bilibili` | the answers to links | `modules` | `ModuleProofs` |
| `Zhanbu` | the record of the day | `modules` | `ModuleProofs` |
| `CsvReader` | the parser, the rows and `get<int>` of `csv.hpp` | `modules` | `ModuleProofs` |

`MCCallsAndPool` puts `EchoCall` and `ConnPool` beside each other, `MCModules` the
twelve modules that need no fairness.  These parts share no state and none waits
for another, so a behaviour follows one of them (`part`) and the others stay where
they start: an interleaving of two parts would show nothing that one of them does not.

The order of the actions in each module is that of the code, the names are the
code's, and an action is what happens between two points at which another
coroutine can observe or change the shared state.  A comment that starts with
`Mutant:` marks a variant of an action with a plausible bug in it; none of them
is part of a specification.  They show that the properties notice.

### EchoCall and OneShotCall

A call goes `Register` (draw a code, insert the echo function), `Send`, and is
then either thrown away (`Discard`) or waited for: `WaitFor`, `Wake` or
`Timeout`, `Get`, `Release`.  The coroutine that reads the answer goes `Count`,
`At`, `LockPromise`, `Fulfilment`, `StoreValue`, `StoreComplete`, `Signal`,
`Erase`.  The client (`Answer`) is external: it answers a request at most once,
in any order, with one of three kinds of data, or never.

`Races` names what the build may do and the source does not exclude:
`"collision"`, two calls with one code; `"stores"`, the two plain stores of
`set_value` seen in either order; `"erase"`, an insertion lost beside an
`unsafe_erase`.  The properties say which of them each promise depends on.

`OneShotCall` is the promise in three variables.  Without races `EchoCall`
implements it, liveness included.  With all of them, `OwnAnswer` and
`TerminatesOnlyOnCollision` say precisely how it fails: another call's answer
is returned only to a call whose code collided, memory that was not written only
when the stores are reordered, and the process ends only after a collision.
An echo function whose answer never comes stays in the map for ever: nothing in
the code bounds that map, and no property says otherwise.

### MessageWait

Both kinds of waiting are one map: `WaitForNextMessageFrom`'s map of users is
the entry of `Anywhere`, a group that is neither made nor erased.  A message is
matched against its group first and then against `Anywhere`, as in
`EventProcess`.  The promise is the one of `EchoCall`, fulfilled in one step.

`parallel` is chosen at the start.  When it is false the program has one scheduler
thread: coroutines of coost switch only where they suspend, so a handler runs from
one suspension to the next undisturbed.  When it is true it is the program as it is
started by default.  On one thread everything holds, `NoThrowOnOneThread` included.
On several, `OneToOne` still does: a message goes to one waiter of a kind and a waiter is given
one message (`given` is the history of who was given what).  And no waiter that is alone in its
group is lost, because the mutex of the channel protects its queue.  A waiter that
shares its group with another user may be lost, which `WaiterFindable` leaves out because
nothing in the program promises otherwise; and two messages of one user may end
the process (finding 2).

### Scheduler

`AddEntry`, `AddId`, `AddInterrupt` are `add_task`; `RemoveFlag`, `RemoveErase`
are `remove`, under its other mutex; `Check`, `WakeUp`, `ManageBegin`,
`Trigger`, `Dispatch`, `ManageEnd` are the manage thread; `Finish`, `Readd`,
`ReaddInterrupt` a coroutine that runs a task; `Stop`, `StopInterrupt` the
destructor.  A time is the time that is left until it, and `Tick` lets one unit
pass, so that the model needs no horizon and an interval task can run for ever.
`ShortRuns` is the set of tasks whose runs end before the next one is due; it
is an assumption on the task functions, and is empty where liveness is checked.

`at()` differs from `in()` by parsing a time of day and is left out.  The program
calls neither `remove` nor the overloads with an id; the model has them since
they are the class's interface.

### Service

A start constructs the services in any order (the order of the modules is fixed
in the build, and no property depends on it) with any default, since a new
version of the program may bring another.  A command goes through the permission check,
the lock and the change (`Switch`), the truncation and the write of the file,
and the answer.  `Crash` may come at every step.  The fault `"disk"` lets a file not open,
for writing (`OpenFails`: the old file stays; `LoadUnsaved`: there is none) or for
reading (`LoadUnread`), and lets a write fail, all of which the code does not notice; the fault
`"modules"` lets a module's constructor throw (`ModuleThrows`), for a table, a page or a
configuration it cannot read.  `InitModule` catches every exception, and the module has
no further services in this start (`Abandon`).  `Saves` is the asymmetry of the code: an erase is always
saved, an insertion only when it changed the set.

`failed`, `threw` and `answered` are history: the services whose last save failed or was
cut short (`CutShort`), the modules that threw in this start, and what a command was
last told.  A crash after a failed save takes what only memory knew, so nothing is promised of
it afterwards.  The listing commands and lookups
change no state.  `ServiceManager` finds services by name, and the names are
unique unless a Weibo configuration repeats one; the model has one service per name.

### ConnPool

`Pop` takes any id, `Hold` a connection that works; `EraseEntry`, `FreeContext`,
`Connect`, `EmplaceEntry` replace one that is broken, with an address from those
that are free at that moment, the old one among them.  `LookUp` and `Push` are
the destructor of the borrower.

A borrower is a coroutine of one thread (`on`).  coost hooks the socket calls, so it suspends
in the commands it sends and in `redisConnect` while it has a connection (`Suspended`), and
others run on its thread (`Available`); tbb's `pop` is not hooked and blocks the thread, and
with it the borrowers that are suspended there (`Blocked`).  When every connection is with one
of these nothing moves any more (`Deadlocked`): `EveryRequestServed` says that this, and the
end of the process when a connection cannot be replaced (`exited`), are the only ways
to wait for ever.  A lookup in the `unordered_map` may miss its entry while a borrower
of another thread changes the map: `operator[]` then inserts and returns 0.  `misled`
remembers that it has happened; `Exclusive` speaks of what goes before.  `Reconnects` is
FALSE for the pools that never replace a connection.

### BotSet

`Open` is `onopen`; `AddBot` and `Greet` are the coroutine of `Bot::OnRun`,
split where `botset_it_` is assigned; `Message` and `UseBot` are `onmessage` and
the coroutines it starts; `Close` is `onclose` with `~Bot`.  A broadcast begins
at the front of the list (`Begin`), copies it if it is `WeiboPuller`'s (`Copy`,
`Copied`), calls each bot as often as there are groups (`Call`) and goes on
(`Advance`).  `push_front` is the only insertion, so the list is a set of bots
and the order of their stamps.  `Closes` names when a connection may close.  A bot that closes before
`botset_it_` is assigned is erased through an iterator that points nowhere: the list may be
anything then (`broken` is `"erase"`), and `SetExact` speaks until that happens.  Every
step that follows such a pointer sets `broken` and ends the
behaviour: nothing is said of what happens after it.

### Dispatch

`Register` is one of the `Register...` calls: the tries are kept as the set of the
paths of their nodes and the commands whose registration succeeded.  `Receive`
is `Handle` up to the switch on the type of post, then follow, in the order of the
code, the addressing (`AddressByName`, `AddressByCode`, `NotAddressed`), the full match,
the two searches (one turn of the loop per `Descend`), the regular expressions and the
services of all messages.  `Strip` has the copy of a view on a text that the
assignment before it freed: its first character may be the allocator's.  `SearchEnds`
writes the size of the command whether or not the service is then started, as the code does.
A service cuts that many characters off the text behind `Unescape`, which makes one
character of an entity, although the size is that of the text before it (`PlainText`);
`OwnCommandText` holds because no command has a part of an entity in it
(`EscapesAssumption`).  It also states what the services of regular expressions and of all messages
get: not the message, but what the searches leave of it, whether or not the commands they found
were allowed.  Whether that is meant, nothing in the program says.  `Terminate` is the
exception for a message with nothing behind the at code.
While an event is handled, `SwitchService` may switch a service of its group.

### BotManage

A command or a notice that changes the lists is a coroutine (`changes`), which takes
its entries one after the other: table, then memory when it adds; memory, then
table when it deletes.  A statement may fail, which nobody is told.  `ProcessEnds` is
a crash at any point, `Restart` reads the tables and the configuration again.  A
select may throw, in `LoadBlackLists`: `InitModule` catches it, the lists hold the rows read by then,
the handler of kicks is not registered (`watches`), and the modules of the invitations work
with the lists as they are.  `unread` is history: the rows that this process has not read.
`doubted` is history: what a failed statement, or an addition and a deletion at the
same time, has left undecided; the properties speak of the rest.  `GroupIncrease` and
`LeaveForced` are one handler with its sleep; `CleanBegins` to `CleanEnds` is `DoClean`.

### Weibo

`StartWeibo` and the steps with `loading` are the constructors, which receive what is
on the pages; `Pull` to `Broadcast` is `WeiboPuller`.  A page is read card by card, since
`GetOneWeibo` suspends for long weibos and pictures; posts, time and `CleanBuffer` fall in between.
`found` counts how often a weibo was new to one process.  That n new weibos of one
spider make n * n texts is in `SpiderEnds`; it is what the nested `transform` does.

### EorzeaWeather

`ForcastTarget` and `NextWeatherTime` are the code's arithmetic, in halves of 16
bits where it overflows.  The site's files have versions (`Patch`).  An update loads
the tables, then replaces three of them, each in memory first; `UpdateFails`
and `Throws` are the requests and the statements that fail.  Nothing keeps a second update
from beginning before the first has ended: the rows of both are then among each other, and
any of them may be in a table when one of the two leaves it (`Leaves`).  `together` is
history: the updates that have had another beside them.  A process that could not read the
tables has no module for the weather, and is left out: it asks and changes nothing.

### WeatherSearch

`SetLocation` erases the list, `NameArrives` returns from `WaitForNextMessage`,
`PlacesArrive` pushes behind what the list holds by then.  `shown` is what the user last
saw; `disturbed` are users whose searches overlapped.

### CronTask

`make_cron` is an operator over the code's own fields.  `find_next` goes from field to field and
calls itself behind each that moved: its calls are `frames`, each with the field it is at
and the fields it has marked, and a step settles one field (`FieldStays`, `FieldMoves`, `FieldFails`)
or leaves a call (`CallReturns`).  `TimeFound` is the end of `cron_next`, which searches again from the next
second if the time found is the one it was asked at.  A behaviour is a task that is planned and run again
and again, at once when `cron_next` has failed: `INVALID_TIME` lies before the epoch, so the manage
thread finds the task due every time.  The reference (`Names`) says which seconds an
expression names, by the calendar.

### Bilibili

A parser takes its addresses in any order, follows a redirection (which ends the process
when it is not answered, `RedirectFails`), looks in Redis, asks the site (`Details`), and
remembers the link (`AnswerLink`) and the address (`SaveUrl`), each in a command of its own,
before it answers.  Redis' expiry is `Clock`, it outlives a crash, and every command may fail.
Three histories are the excuses of `AnsweredOnce`: the parsers whose link another one told after
they had last looked it up (`unaware`), those whose look-up failed (`misread`), and the
links that were told and not remembered (`unsaved`).  The cache of
texts is left out, since it never holds one: `redisCommand` splits its command at blanks,
every text has some, and the server refuses the `SET`.

### Zhanbu

A request has four steps, and the clock may pass midnight between any two: it is asked
(`GetEorzeaZhanbu`), reads the row (`GetZhanbuRecord`) and shows it again, or draws, which asks a
site (`Drawn`), and writes and shows what it drew (`RecordZhanbu`), which expires in the last
second of the day it was drawn in.  What is read back has the dye and the message in each other's place
(`Exchanged`), as in the recorder.  `excused` is history: a user's days on which one of his requests
drew beside another one, could not write, or came in the last second, when a row has expired already.

### Feedback

`Send`, `RecordFeedBack` and `Confirm` are one handler with its request and its two
statements.  `Reply` takes the group for the user and the user for the group, as the order in
`GetFeedback` makes it.

### CsvReader

`Delimiter` to `OpeningQuote` are the cases of `parse`, with the flag of a character
depending on whether the parse is between quotes; `EndFeed` is `end_feed` and
`trim_header`, `FirstRow` and `ReadRow` are `begin` and the increments of its iterator.
The files are far below the 10 MB of a chunk, and `initial_read` joins its worker, so one
thread parses the whole text before a row is asked for.  `Written` is external:
how an exporter quotes its fields and ends its lines.

## Runs

| Run | Instance | Shows |
|---|---|---|
| `calls_and_pool` | 2 calls, 2 codes, no races; 3 borrowers on 2 threads, 2 connections, 3 addresses; fairness | the call path implements the one-shot call; nobody shares a connection, the pool keeps its size, every request is served unless all are blocked |
| `echo_races` | 2 calls, 2 codes, all races, fairness | what races break and what they cannot; every call ends |
| `message_wait` | 1 group and `Anywhere`, 2 users, 2 waiters, 2 messages, one thread and several, fairness | `OneToOne`, `WaiterFindable`, nothing throws on one thread, every wait ends |
| `wait_noexcept` | 1 user, 1 waiter, 2 messages | finding: an exception leaves `EventProcess` |
| `scheduler_safety` | interval, cron and one-off task, two under one id, periods 1 and 2, 2 coroutines | `NoOversleep`, `ScheduledOnce`, removal |
| `scheduler_live` | interval and `every` task, runs of any length, fairness | every owned task runs, the destructor returns |
| `scheduler_long_runs` | the same | finding: a removed task goes on |
| `modules` | twelve parts, below | durability, the bot set, dispatch, black lists, Weibo, weather, cron, links, results of the day, feedback, csv |
| `botset_closes` | 2 channels, 1 broadcast, closing at any time | finding: a walk goes on from a freed node |
| `cron_due` | 10 expressions, 8 starts, 4 runs each | finding: due at other times than named |
| `weibo_old_posts` | 2 spiders, 1 failure | finding: what was posted before the start is pushed |
| `clean_groups` | 2 groups, one of them silent | finding: a group the bot speaks in is left |

What `modules` shows, part by part:

- *Service* (3 services of two modules, one that is switched, 2 groups, 2 handlers,
  permissions 3, 4, 7; files that do not open, writes that fail, constructors that throw): an
  answered switch is on the disk and survives crashes and restarts unless its save failed
  (`Durable`, `Remembered`), and a module is missing for a reason only (`MissingOnlyByFault`).
- *BotSet* (3 channels, 2 broadcasts, one of a copy, bots that close before they are in the set or
  while a handler uses them, but not under a walk): the set is exact until an iterator that was
  never assigned is erased (`SetExact`), every bot that stays is reached once, no walk is harmed.
- *Dispatch* (13 commands, texts of up to 3 characters and some with entities): the longest command
  wins (`LongestMatch`), its service gets the text without it, and the services
  without a command get what is left (`OwnCommandText`).
- *BotManage* (1 user, 2 groups, 4 events, tables that are not read): memory and table agree (`ListsAgree`);
  nothing is approved for who is banned (`NoTrustForTheBanned`); both but for rows that were
  not read, statements that failed and changes that overlapped.
- *Weibo* (spiders with 2 and 1 posts, a buffer of 1, 3 minutes, 1 failure):
  `NewOnce`, for users calmer than the buffer; `NewArePushed`, but for rounds that failed.
- *EorzeaWeather* (2 versions, 2 failures, 2 updates at once; dates at both ends of a
  change; a forecast depends on the date alone, so queries come before the first trouble only):
  `ForecastComesTrue`, `KnownPlacesAnswer`.
- *CronTask* (10 expressions, 8 starts, 4 runs each): `DueNextOfPlain`, the reference for
  the expressions and starts without the combinations `cron_due` is about.
- *WeatherSearch* (1 user, 2 searches at once, 4 in all), *Bilibili* (2 parsers, 3 messages,
  1 failure, 1 crash, a link forgotten after 1 tick), *Zhanbu* (2 requests, 3 days of 3 seconds, 4
  questions, 2 fortunes, 1 failure),
  *Feedback* (2 coroutines, 2 rows, 1 refusal): `NumbersMeanWhatWasShown`, `AnsweredOnce`, `SameAllDay`, `OwnNumber`.
- *CsvReader* (a header of 1 or 2 names and 2 rows, each field of up to 3 characters out of
  letters, digits, quotes, commas and line ends; 5 ways to quote and to end lines; blocks of 3
  fields): `ReadsAsWritten`, `FieldsApart`.

**Bounds.**  Two calls are what a collision, a lost insertion or a swapped
answer needs; three add only symmetric cases.  Two waiters and two
messages let a message meet a queue with a dead promise in front, and let an
entry be erased between the test and the use of another message.  Two users in a
group is what the per-user mutexes need to fail.  `Slots = 2` coroutines let a
run overlap the next of the same or of another task; periods of 1 and 2 let two
tasks be due together and apart.  Two groups let two switches
of one service interleave; permissions below, at and above the service's level are
all there.  One address more than connections is the free one that lets an address be
reused by another id.  Two threads are the one that waits and the one that goes on, or both
waiting, and a third borrower is the one they wait with.  Three channels leave a walk one bot behind it, one it is at and one that comes or
goes; two broadcasts are one of each kind.  The commands of `Dispatch` share nodes, differ in
case only, end inside one another, and have keys longer than some texts.  Four events
reach an addition, a deletion, a crash and an invitation.  A buffer one shorter than the posts
lets `CleanBuffer` forget one, and a page as long as the posts shows it again.  The second
version of the site has a place the first lacks.  A link that is forgotten after a tick is
told again in the next; two fortunes tell a result from another one and from its two halves.  A field of three characters holds a doubled quote with
something around it, and blocks of three fields end within a row and at its end.  The starts of the cron tasks lie at the ends
of months, in a leap year and at the end of one.  Every module names its bounds: the constants
that begin with `Max`, and the sets of inputs.  Nothing is cut off by a state constraint.

**Deadlock** is not checked: every system comes to rest when its calls, waits
or tasks are over, its bounds are used up, or its process has ended.  That nobody
waits for ever is what the liveness properties are for (`EveryCallEnds`,
`EveryWaitEnds`, `EveryRequestServed`, `StopJoins`).

**Symmetry** is used in `modules` only, for the two coroutines that handle the commands of each
part, which nothing tells apart; the two temporal properties there are of single steps.  Channels are
as alike until they enter the list, so `BotsInOrder` numbers them in that order.

**Fairness.**
- `EchoCall`, `MessageWait`: a coroutine that has started goes on (coost's
  scheduler runs every ready coroutine), mutexes are obtained eventually (strong
  fairness, since others take them in between), and the timeouts of `get()`
  expire.  Nothing makes a client answer or a message arrive.
- `Scheduler`: as above, time passes, and a task function returns.  Nothing
  makes anybody add or remove a task.
- `ConnPool`: a thread resumes its coroutines in the order in which they became ready, unless
  it is blocked in `pop`; a command returns, with an answer or an error, and a borrower sends
  finitely many; and `tbb::concurrent_bounded_queue` serves its waiters in the order of their
  tickets: strong fairness of each borrower's steps (`PoolFairness`).  The steps of a suspended
  borrower are enabled only while its thread is free.
- No other module states fairness: their properties are of safety.

### Findings

1. `scheduler_long_runs`: the comment in `remove()` says a removed task may "run
   at most once after deletion" (`Scheduler.h:114`).  `manage_tasks` puts a recurring task back into
   `tasks` before its run, and the coroutine of the run owns the task: if the
   run outlasts the period the entry is still alive when it is due, is triggered
   and put back again, and so on for as long as runs overlap.  When runs are
   shorter than the period the comment is right (`ShortRunsEndAfterDeletion`).
2. `wait_noexcept`: `EventProcess` is `noexcept` (`bot.h:44`).  Two messages of
   a user who is waited for, handled by two threads, both find the entry; the
   first one to be fed erases it, and the `at()` of the other throws.
3. `botset_closes`: the comment of `GetBots` (`schedule.h:37-39`) says a bot's
   destruction matters only at the very moment it is called, and that otherwise
   the iterator is not affected.  `SayMorning` (`morning.h:48`) keeps an iterator
   into the list while `BroadCast` sleeps between two messages; when the bot
   closes in that time the walk goes on from a node that was freed.
4. `cron_due`: the expressions are documented at `Scheduler.h:200`. `set_field`
   (`croncpp.h:586`) moves the month while the day is still the old one, so that `0 0 *
   2 *`, planned on 31 January, skips that February; an expression with a day of the
   month and one of the week may be due at midnight instead of its hour; a second that
   moved is not found again when a later field moves (`find_next`, line 741), so that an
   expression with several seconds may miss the first. The program's own expressions (`8
   8 * * *`, `5 5 * * *`) are due as they should be.
5. `weibo_old_posts`: a comment of the constructor says only what comes after the start is
   pushed (`weibo_spider.h:25`).  When its request is answered without `ok` it remembers
   nothing, and the first round pushes the weibos of the last two hours.
6. `clean_groups`: the service cleans the groups that have not spoken for too long
   (`auto_clean_group.h:25`).  A question for the membership that fails or times out
   returns a record whose `last_sent_time` is 0, and the bot leaves the group.

Seen while modelling, in the models, and not the subject of a run because nothing in the
program says otherwise: the cache of texts of the Bilibili parser is never filled;
`Reply` sends to the group whose number is the user's; the record of the day comes back with dye
and message exchanged; n new weibos are pushed n times each; an update of the Eorzean places
truncates their table and writes only the new ones, so that the others are gone after a restart.
Of a csv text, `begin` gives the first row behind the header without the test of its length that
`read_row` makes; a last field that is empty and in quotes is lost when no line end follows; a minus
behind the digits makes the number negative.  A cron task whose expression has no time in the next
four years is due at `INVALID_TIME`, which is in the past, and runs at once, again and again.

## Proofs

All are proved by `tlapm` from the named assumptions on the constants (mostly
that distinguished values are distinct), for any number of calls, codes, tasks,
services, groups, connections, borrowers, bots, waiters, commands, weibos and users.

- **`CallsAndPoolProofs`, the calls.**  `TypeCorrect`, `OwnAnswerHolds`,
  `TerminationNeedsCollision`, `NoAnswerMissedHolds`, `NoStaleEntryHolds`,
  `NeverBlockedHolds`, for every set of races.  The properties are not inductive: whose
  value a promise holds depends on which call a reader's target is, which
  depends on which call a code leads to.  `IInv` says all of that: who owns a
  code (`CodeInv`, `EntryInv`, `PresentInv`), which call a reader works for
  (`TargetInv`), what is in a shared state at each step of its writer
  (`ValueInv`, `CompleteInv`).  `ImplementsOneShotSafe`: without races every
  step maps to a step of `OneShotCall` or to a stutter.
- **`SchedulerProofs`.**  `TypeCorrect`, `NoLostWakeUp`, `ScheduledOnceHolds`,
  `ShortRunsEndHolds`.  `NoOversleep` is inductive together with the types: an entry
  is inserted under the lock, the lock is held until the interruption, and the
  interruption is remembered until the sleeper returns.  `Tick` takes the same off
  the alarm and every entry.  The other two rest on the places of a task: an
  entry, being triggered, or kept by a coroutine that will put it back.  Who is between
  lock and unlock holds the lock (`HolderInv`), so nobody sees a task on its way from one
  place to the next; it is in one at most (`PlaceInv`), and in one as long as it recurs
  and is owned under its id (`OwnerInv`, `KeptInv`).  A short run is over before its
  task is due again (`ShortInv`), so only the entry that a removal found is left
  to be dispatched (`RerunInv`).
- **`MessageWaitProofs`.**  `WaitTypeCorrect`, `OneToOneHolds`, `NoThrowOnOneThreadHolds`,
  `WaiterFindableHolds`, for one thread and for several.  From the mutex of a channel
  (`MutexInv`) follow its queue: a promise is in it once, in the channel of its waiter,
  whose wait has no message yet (`QueueInv`), and what a message has read is still
  in front when it pops it (`PopInv`); hence who has which message (`GotInv`), and that it is the
  only one he was given (`HistoryInv`).  On one
  thread at most one actor is inside `EventProcess` or a wait's locked part (`SoloInv`), and what a
  message found in the maps is there at each `at()` (`OneThreadInv`).  A message goes only
  where somebody has waited (`WaitedInv`): in a group of one user all meet at one mutex,
  which is why the waiter can be found there on several threads too (`FindInv`).
- **`ServiceProofs`.**  `TypeCorrect`, `DurableHolds`, `RememberedHolds`,
  `MissingOnlyByFaultHolds`, `AlwaysOnUntouchedHolds`.  The invariant says who
  is inside a lock and at which step, that outside it file and memory agree
  unless the last save failed, and that a torn file has a handler, a constructor
  or a failed save to answer for it.  What a later start reads is therefore what was
  answered, or a save has failed before the crash and nothing was promised.  A service that is
  not loaded has its module to answer for it, which threw or met such a file (`MissingInv`).
- **`CallsAndPoolProofs`, the pools.**  `PoolTypeCorrect`, `ExclusiveHolds` and `PoolKeepsItsSizeHolds`, for any number of threads, with replacement or without.
  The invariant makes the map exact: an allocated connection's entry leads to
  its id except while its holder is replacing it, an id is in the queue once or
  with one borrower, and the addresses of two connections differ, until a lookup
  misses its entry.  `PoolKeepsItsSizeHolds` needs none of that: `Pop` moves one element of the queue to a
  borrower and `Push` one back, whichever id it is.
- **`CronProofs`.**  `DueNextOfPlainHolds`, for every expression, start and number of runs.
  The first half is the calendar: a time is one day and one time of day, a day is in one month of one
  year (`DateOfDay`), `mktime` takes what lies beyond a field's range to the next.
  On it rest one lemma per field: the time `find_next` moves to is no earlier, the field fits there, and no
  time between is named (the least number in a set is found with the well-founded order of the numbers).
  The invariant (`CronIInv`) says how far a search has come.  Nothing named has been
  passed (`NoneNamed`); either every field fits already, so that all the calls above only return,
  or the fields before that of the call on top fit, and each but the second is marked,
  so that a later field that moves begins at their least values (`Narrowed`).  The second is what makes it
  hard: it is marked only if it has not moved, so once it has, it must be the least there is, or the
  only one (`EarlySecond`).  This fails for a task planned between two of its seconds, and so the proof found what
  no earlier run had tried: seconds 0, 25 and 50 of minutes 10 and 50, planned at 12:30:10, are due
  at 12:50:25 instead of 12:50:00.  The start is now among those of the runs, `cron_due` reports it
  with the rest, and `DueNextOfPlain` says so.  When a search fails, the years it has gone through are
  more than four times 365 days (`NoDayFits`).
- **`BotSetProofs`.**  `TypeCorrect`, `SetExactHolds`, `EveryBotReachedHolds`,
  `WalksUnharmedHolds`.  The argument is one of stamps: no two bots have the same
  and a new one has the largest (`StampInv`, for which the channels are finite);
  the bots a walk is through with are newer than the one it is at (`VisitInv`);
  a bot that stays is older than that one, or the walk is through with it
  (`ReachInv`).  What a walk holds is live as long as nothing it holds is closed
  (`HeldInv`).  The list is exact, and all of it holds, until a bot is erased before it is
  registered: the behaviour ends there.
- **`DispatchProofs`.**  `SearchFindsLongest`, `OwnCommandTextHolds`.  Every prefix of a command has its node
  (`NodesInv`), so a search that cannot go on has passed the end of every command that
  fits; a command's path belongs to the first that registered it (`KeptInv`); what the search
  remembers is the longest of those it has passed (`SearchInv`).  The size in the event is 0 until a
  search sets it, and that of the longest command of the last search that found one
  (`SizeInv`).  Where no entity begins, the text before and behind `Unescape` are the same
  character by character, from the front and from the end (`UnescapeFirst`, `UnescapeLast`), so the
  command that is cut off is the one that was found (`CommandCut`, `TextInv`).
- **`ModuleProofs`.**  The modules of the bot, one part each.
  - `BlackListsAgree` and `BannedStayOut` (`BotManage`).  For an entry that is not
    doubted, what memory and the table say is told by the changes under way: one that has been
    written and not yet entered explains a row without an entry, one that has been taken
    out and not yet deleted the same; without either they agree, and a
    crash between two steps leaves what a restart then reads, or has in `unread`.
  - `NewArePushedHolds` and `NewOnceHolds` (`Weibo`).  What is new is in `latest` or
    `texts` until it is broadcast or lost (`PushInv`).  What a calm user's spider remembers is in
    the order it was received in, each weibo no more than `MaxAge` older than any before
    it (`MemoryInv`).  What `CleanBuffer` drops has `Buffer` others behind it; were
    it young, these and it would be `Buffer + 1` weibos within `2 * MaxAge`, which a
    calm user does not post: two of their numbers would be equal modulo `Buffer` and so at least
    `Buffer` apart.  So what was once new is remembered, or too old to be new (`OnceInv`).
  - `NumbersMeanWhatWasShownHolds` (`WeatherSearch`).  For a key whose searches have
    not overlapped, the list looked up is the list shown, at most one search runs, and
    while it runs the list is empty (`SearchInv`).
  - `AnsweredOnceHolds` (`Bilibili`).  The entry of a link that was told lasts as long as
    it may not be told again, unless that very entry was not saved (`RememberInv`).  A parser that has
    looked its link up for the last time and found nothing tells a link that may be told,
    unless another parser told it meanwhile or the look-up failed (`RequestInv`).
  - `SameAllDayHolds` (`Zhanbu`, an action property).  Who was told his fortune on a day has
    it in his row, as it is or exchanged, until the last second of that day, and no request of
    his of that day is drawing another, unless the day has an excuse (`ToldInv`).
  - `OwnNumberHolds` (`Feedback`).  Between the two statements a sender's row is in the
    table under his number, and is the last one unless he was overtaken (`RecordedInv`).
  - `ForecastComesTrueHolds` and `KnownPlacesAnswerHolds` (`EorzeaWeather`).  The weather
    changes every 1400 s.  A target depends only on the span of 1400 s a date is in, `NextWeatherTime`
    leads to where a span begins, and these are the bells 0, 8 and 16.  (What
    `Scramble` makes of the span's number plays no part.)  What is in memory and in the tables is of
    versions up to the site's (`EorzeaShape`).  Two updates that run at once are both in
    `together` (`AloneInv`); one that runs alone and reads one version has written the names before it comes to
    the rates (`UpdateInv`), so the rates, which come last, settle
    every place known (`SettledInv`); the rates found are those of the least version
    that has the place.
  - `FieldsApartHolds` and `RowsAdjoinHolds` (`CsvReader`).  For a text of any length, quoted in
    whatever way, and blocks of any size: no field reaches beyond the text, none shares a
    character with another, and the fields of a row are in the list right behind those of the row
    before.  All blocks but the last are full, so `emplace_back` leaves the fields that are there
    where they are.  A row fits (`Fits`) when its fields are in the list, one behind the other, and end before
    the position its successor starts from; the field at work starts behind all of them, and
    `parse_field` ends at the first character that is not plain.  What the characters of a field are
    turned into, and that this is what was written, is `ReadsAsWritten`, which is only checked.

Besides distinctness, the constants are assumed to be what the code makes them:
`WeiboAssumption` (users are numbered in the order of the configuration, there is at
least one because `weibo_push.h:88` creates a service's list by adding to it, ages and
sizes are numbers and the buffer holds something), `PlacesAssumption` (a name finds a
sequence of places), `LinksAssumption` (every address leads to one link of one kind),
`DayAssumption` (a day has a length), `IdsAssumption` (a pool has finitely many
connections), `ExpressionsAssumption` (a cron expression has six fields of items, none
of them empty, as `split` leaves them), `StartsAssumption` (a task is planned after
1999), `TextAssumption` (a csv text is a sequence of characters, and one with a byte
order mark is not empty), `DatesAssumption` and `VersionsAssumption` (the site's files
have a first version and never lose a place: this one is about the site, not the code)
`HolderAssumption` (the threads and coroutines of the scheduler are told apart),
`EscapesAssumption` (no command has a part of an entity in it), `ChannelsAssumption` (the
connections are finitely many) and `FaultsAssumption` and `ReconnectsAssumption`, which say what the
switches of a model may be.

The type invariants, `AlwaysOnUntouched` and `RowsAdjoin` are proved and belong to no run.

Only model-checked: the liveness properties and `ImplementsOneShot` with its
fairness (ENABLED and liveness are out of the prover's reach),
and `ReadsAsWritten` of
`CsvReader` (folds over a text: induction over data, which these provers cannot do).  The runs that expect a
violation have, of course, no theorem.

## Not modelled

The wording of messages, JSON, HTTP, drawing and logging; what the program does
not use of the third-party `csv.hpp` (several chunks, mapped files, guessing, statistics, writers, its
copies of other libraries), which alone is almost half of the lines of the source; the generated `db_orm.h`; reads of
`groups_` without its mutex (`service.h:67`), which are data races whose
outcome the source does not bound; the commented-out MySQL pool.  Help, status, echo and
the two NLP modules answer each message from what it says and keep nothing; the API wrappers build
one request each, and `EchoCall` carries it.  The reading of a cron expression's text is
left out, the fields it comes to are not; so are the groups a broadcast sends to, and the
administration of the zhanbu's events and replies.
