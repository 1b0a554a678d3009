----------------------------- MODULE MessageWait -----------------------------
(***************************************************************************)
(* Waiting for the next message of a user: ApiBot::WaitForNextMessage,     *)
(* WaitForNextMessageFrom, and the part of Bot::EventProcess that feeds a  *)
(* message to who waits for it (bot/onebot_11/api_bot.h, bot/bot.h).       *)
(*                                                                         *)
(* someone_group_message_ maps a group to a map from users to queues of    *)
(* weak promises; a private chat is group 0.  Each (group, user) has its   *)
(* own mutex, so the mutexes of two users of one group do not exclude each *)
(* other although both change the group's map.  someone_need_message_ maps *)
(* a user to the promises that wait wherever the user speaks: it is the    *)
(* map of Anywhere, a group that is never made nor erased.  The promise    *)
(* itself is the one of EchoCall: here it is fulfilled in one step.        *)
(***************************************************************************)
EXTENDS Naturals, Sequences, FiniteSets

CONSTANTS
    Groups,    \* groups, the private chats among them
    Anywhere,  \* the home of WaitForNextMessageFrom
    Users,     \* users
    Waiters,   \* calls of WaitForNextMessage
    Messages,  \* messages that EventProcess handles
    Nobody       \* no waiter, no message, no channel

Homes == Groups \cup {Anywhere}
Channels == Homes \X Users
Actors == Waiters \cup Messages

ASSUME ActorAssumption == Waiters \cap Messages = {} /\ Nobody \notin Actors
ASSUME ChannelAssumption == Nobody \notin Channels /\ Anywhere \notin Groups

VARIABLES
    parallel,    \* FALSE: one scheduler thread, which EventProcess never yields
    groups,      \* the keys of someone_group_message_, and Anywhere
    users,       \* users[g]: the keys of someone_group_message_[g]
    promises,       \* queue[ch]: the promises that are queued
    mutex,       \* mutex[ch]: who holds someone_group_message_mutex_[g][u]
    channel,     \* channel[a]: the group and user of a waiter or a message
    personal,    \* messages that EventProcess has passed on to FeedMessageTo
    stage,          \* pc[a]: where a waiter or a message is
    popped,      \* popped[m]: the promise m has taken from the queue
    got,         \* got[w]: the value of w's promise, the message it was given
    given,       \* history: <<m, w>> for each message m that was given to a waiter w
    terminated   \* an exception left EventProcess, which is noexcept

waitVars == <<parallel, groups, users, promises, mutex, channel, personal, stage,
              popped, got, given, terminated>>
maps == <<groups, users, promises>>

\* Where a waiter waits, and where a message looks for waiters.
Author(a) == channel[a][2]
Home(a) == IF a \in personal THEN Anywhere ELSE channel[a][1]
Place(a) == <<Home(a), Author(a)>>

\* Steps between two suspension points of a coroutine.
Inside(a) == stage[a] \in {"locked", "push", "count", "lock", "feed", "pop", "popped", "second",
                        "erase_user", "look", "erase_group"}
MayEnter == parallel \/ \A a \in Actors : ~Inside(a)

\* The promise lives until the statement that called get() is over.
PromiseAlive(w) == stage[w] # "over"

Go(a, to) == stage' = [stage EXCEPT ![a] = to]

WaitInit ==
    /\ parallel \in BOOLEAN
    /\ groups = {Anywhere}
    /\ users = [g \in Homes |-> {}]
    /\ promises = [ch \in Channels |-> <<>>]
    /\ mutex = [ch \in Channels |-> Nobody]
    /\ channel = [a \in Actors |-> Nobody]
    /\ personal = {}
    /\ stage = [a \in Actors |-> "new"]
    /\ popped = [m \in Messages |-> Nobody]
    /\ got = [w \in Waiters |-> Nobody]
    /\ given = {}
    /\ terminated = FALSE

-----------------------------------------------------------------------------
(***************************************************************************)
(* WaitForNextMessage                                                      *)
(***************************************************************************)

\* lock_guard on the mutex of the channel
WaitLock(w) ==
    /\ stage[w] = "new" /\ MayEnter
    /\ \E ch \in Channels :
        /\ mutex[ch] = Nobody
        /\ mutex' = [mutex EXCEPT ![ch] = w]
        /\ channel' = [channel EXCEPT ![w] = ch]
    /\ Go(w, "locked")
    /\ UNCHANGED <<maps, personal, popped, got, given, terminated>>

\* someone_group_message_[group_id]: makes the entry of the group.
WaitGroup(w) ==
    /\ stage[w] = "locked"
    /\ groups' = groups \cup {Home(w)}
    /\ Go(w, "push")
    /\ UNCHANGED <<users, promises, mutex, channel, personal, popped, got, given, terminated>>

\* [user_id].push(weak_ptr(p)), and the lock is released.  The reference to the
\* group's map dangles when the group was erased in between: the promise is lost.
WaitPush(w) ==
    /\ stage[w] = "push"
    /\ IF Home(w) \in groups
         THEN /\ users' = [users EXCEPT ![Home(w)] = @ \cup {Author(w)}]
              /\ promises' = [promises EXCEPT ![Place(w)] = Append(@, w)]
         ELSE UNCHANGED <<users, promises>>
    /\ mutex' = [mutex EXCEPT ![Place(w)] = Nobody]
    /\ Go(w, "waiting")
    /\ UNCHANGED <<groups, channel, personal, popped, got, given, terminated>>

\* get() returns the message.
Receive(w) ==
    /\ stage[w] = "waiting" /\ got[w] # Nobody /\ MayEnter
    /\ Go(w, "returned")
    /\ UNCHANGED <<maps, mutex, channel, personal, popped, got, given, terminated>>

\* Mutant: wait() in place of wait_for().
Timeout_Never(w) == FALSE /\ UNCHANGED waitVars

\* event_.wait(ms) is over: get() returns "".
Timeout(w) ==
    /\ stage[w] = "waiting" /\ got[w] = Nobody /\ MayEnter
    /\ Go(w, "returned")
    /\ UNCHANGED <<maps, mutex, channel, personal, popped, got, given, terminated>>

\* The CoFutureWrapper that owns the promise is destroyed.
Release(w) ==
    /\ stage[w] = "returned" /\ MayEnter
    /\ Go(w, "over")
    /\ UNCHANGED <<maps, mutex, channel, personal, popped, got, given, terminated>>

Waiter(w) ==
    \/ WaitLock(w) \/ WaitGroup(w) \/ WaitPush(w)
    \/ Receive(w) \/ Timeout(w) \/ Release(w)

-----------------------------------------------------------------------------
(***************************************************************************)
(* EventProcess: the message branch, and FeedMessage                       *)
(***************************************************************************)

\* FeedMessage is over, or not needed: the message goes on to FeedMessageTo, and
\* then to the handlers.
Leave(m) == Go(m, IF m \in personal THEN "over" ELSE "second")

\* IsNeedMessage: someone_group_message_.count(group_id)
CountGroup(m) ==
    /\ stage[m] = "new" /\ MayEnter
    /\ \E ch \in Groups \X Users :
        /\ channel' = [channel EXCEPT ![m] = ch]
        /\ Go(m, IF ch[1] \in groups THEN "count" ELSE "second")
    /\ UNCHANGED <<maps, mutex, personal, popped, got, given, terminated>>

\* if (IsSomeOneNeedMessage(user_id)) FeedMessageTo(user_id, ...)
Second(m) ==
    /\ stage[m] = "second"
    /\ personal' = personal \cup {m}
    /\ Go(m, "count")
    /\ UNCHANGED <<maps, mutex, channel, popped, got, given, terminated>>

\* at() of an absent key throws std::out_of_range through noexcept.
Throws(m) ==
    /\ terminated' = TRUE
    /\ UNCHANGED <<maps, mutex, channel, personal, stage, popped, got, given>>

\* Mutant: a message is needed as soon as somebody in the group waits.
CountUser_GroupOnly(m) ==
    /\ stage[m] = "count"
    /\ IF Home(m) \in groups /\ users[Home(m)] # {} THEN Go(m, "lock") ELSE Leave(m)
    /\ UNCHANGED <<maps, mutex, channel, personal, popped, got, given, terminated>>

\* ... && someone_group_message_.at(group_id).count(user_id)
CountUser(m) ==
    /\ stage[m] = "count"
    /\ \/ /\ Home(m) \in groups /\ Author(m) \in users[Home(m)]
          /\ Go(m, "lock")
          /\ UNCHANGED <<maps, mutex, channel, personal, popped, got, given, terminated>>
       \/ /\ Home(m) \in groups /\ Author(m) \notin users[Home(m)]
          /\ Leave(m)
          /\ UNCHANGED <<maps, mutex, channel, personal, popped, got, given, terminated>>
       \/ Home(m) \notin groups /\ Throws(m)

\* lock_guard on the mutex of the channel
FeedLock(m) ==
    /\ stage[m] = "lock"
    /\ mutex[Place(m)] = Nobody
    /\ mutex' = [mutex EXCEPT ![Place(m)] = m]
    /\ Go(m, "feed")
    /\ UNCHANGED <<maps, channel, personal, popped, got, given, terminated>>

Present(ch) == ch[1] \in groups /\ ch[2] \in users[ch[1]]

\* while (!at(g).at(u).empty()): read the front of the queue.
Front(m) ==
    /\ stage[m] = "feed"
    /\ \/ /\ Present(Place(m)) /\ promises[Place(m)] = <<>>
          /\ Go(m, "erase_user")
          /\ UNCHANGED <<maps, mutex, channel, personal, popped, got, given, terminated>>
       \/ /\ Present(Place(m)) /\ promises[Place(m)] # <<>>
          /\ popped' = [popped EXCEPT ![m] = Head(promises[Place(m)])]
          /\ Go(m, "pop")
          /\ UNCHANGED <<maps, mutex, channel, personal, got, given, terminated>>
       \/ ~Present(Place(m)) /\ Throws(m)

\* pop(): the queue is not empty, for the mutex keeps other messages from it.
PopPromise(m) ==
    /\ stage[m] = "pop"
    /\ \/ /\ Present(Place(m)) /\ promises[Place(m)] # <<>>
          /\ promises' = [promises EXCEPT ![Place(m)] = Tail(@)]
          /\ Go(m, "popped")
          /\ UNCHANGED <<groups, users, mutex, channel, personal, popped, got, given,
                         terminated>>
       \/ ~Present(Place(m)) /\ Throws(m)

\* Mutant: no break after set_value.
Feed_NoBreak(m) ==
    /\ stage[m] = "popped"
    /\ IF PromiseAlive(popped[m])
         THEN /\ got' = [got EXCEPT ![popped[m]] = m]
              /\ given' = given \cup {<<m, popped[m]>>}
         ELSE UNCHANGED <<got, given>>
    /\ Go(m, "feed")
    /\ UNCHANGED <<maps, mutex, channel, personal, popped, terminated>>

\* weak_p.lock(): set_value and leave the loop, or try the next.
Feed(m) ==
    /\ stage[m] = "popped"
    /\ IF PromiseAlive(popped[m])
         THEN /\ got' = [got EXCEPT ![popped[m]] = m]
              /\ given' = given \cup {<<m, popped[m]>>}
              /\ Go(m, "erase_user")
         ELSE /\ Go(m, "feed")
              /\ UNCHANGED <<got, given>>
    /\ UNCHANGED <<maps, mutex, channel, personal, popped, terminated>>

\* Mutant: the user's entry is erased after any message.
EraseUser_Always(m) ==
    /\ stage[m] = "erase_user"
    /\ users' = [users EXCEPT ![Home(m)] = @ \ {Author(m)}]
    /\ IF m \in personal
         THEN Leave(m) /\ mutex' = [mutex EXCEPT ![Place(m)] = Nobody]
         ELSE Go(m, "look") /\ UNCHANGED mutex
    /\ UNCHANGED <<groups, promises, channel, personal, popped, got, given, terminated>>

\* if (at(g).at(u).empty()) at(g).erase(u), the last step of FeedMessageTo.
EraseUser(m) ==
    /\ stage[m] = "erase_user"
    /\ \/ /\ Present(Place(m))
          /\ users' = IF promises[Place(m)] = <<>>
                        THEN [users EXCEPT ![Home(m)] = @ \ {Author(m)}]
                        ELSE users
          /\ IF m \in personal
               THEN Leave(m) /\ mutex' = [mutex EXCEPT ![Place(m)] = Nobody]
               ELSE Go(m, "look") /\ UNCHANGED mutex
          /\ UNCHANGED <<groups, promises, channel, personal, popped, got, given, terminated>>
       \/ ~Present(Place(m)) /\ Throws(m)

\* if (at(g).empty()): the test, and the unlock when it fails.
LookGroup(m) ==
    /\ stage[m] = "look"
    /\ \/ /\ Home(m) \in groups /\ users[Home(m)] = {}
          /\ Go(m, "erase_group")
          /\ UNCHANGED <<maps, mutex, channel, personal, popped, got, given, terminated>>
       \/ /\ Home(m) \in groups /\ users[Home(m)] # {}
          /\ Leave(m)
          /\ mutex' = [mutex EXCEPT ![Place(m)] = Nobody]
          /\ UNCHANGED <<maps, channel, personal, popped, got, given, terminated>>
       \/ Home(m) \notin groups /\ Throws(m)

\* erase(g): the queues of every user of the group go with it.
EraseGroup(m) ==
    /\ stage[m] = "erase_group"
    /\ groups' = groups \ {Home(m)}
    /\ users' = [users EXCEPT ![Home(m)] = {}]
    /\ promises' = [ch \in Channels |-> IF ch[1] = Home(m) THEN <<>> ELSE promises[ch]]
    /\ mutex' = [mutex EXCEPT ![Place(m)] = Nobody]
    /\ Leave(m)
    /\ UNCHANGED <<channel, personal, popped, got, given, terminated>>

Message(m) ==
    \/ CountGroup(m) \/ Second(m) \/ CountUser(m) \/ FeedLock(m) \/ Front(m) \/ PopPromise(m) \/ Feed(m)
    \/ EraseUser(m) \/ LookGroup(m) \/ EraseGroup(m)

-----------------------------------------------------------------------------
WaitNext ==
    /\ ~terminated /\ UNCHANGED parallel
    /\ \/ \E w \in Waiters : Waiter(w)
       \/ \E m \in Messages : Message(m)

WaitSpec == WaitInit /\ [][WaitNext]_waitVars

(***************************************************************************)
(* Fairness: a coroutine that has started goes on, a mutex is obtained     *)
(* (SF), and the 60 s of get() expire.  Nothing makes a message arrive.    *)
(***************************************************************************)
Goes(a) == stage[a] # "new" /\ IF a \in Waiters THEN Waiter(a) ELSE Message(a)

WaitFairness ==
    \A a \in Actors : SF_waitVars(~terminated /\ UNCHANGED parallel /\ Goes(a))

WaitFairSpec == WaitSpec /\ WaitFairness

-----------------------------------------------------------------------------
(***************************************************************************)
(* Properties                                                              *)
(***************************************************************************)
WaiterSteps == {"new", "locked", "push", "waiting", "returned", "over"}
MessageSteps == {"new", "count", "lock", "feed", "pop", "popped", "erase_user", "look",
                 "erase_group", "second", "over"}

\* Every variable has its type.
WaitTypeOK ==
    /\ parallel \in BOOLEAN
    /\ groups \subseteq Homes
    /\ users \in [Homes -> SUBSET Users]
    /\ promises \in [Channels -> Seq(Waiters)]
    /\ mutex \in [Channels -> Actors \cup {Nobody}]
    /\ channel \in [Actors -> Channels \cup {Nobody}]
    /\ \A w \in Waiters : stage[w] \in WaiterSteps
    /\ \A m \in Messages : stage[m] \in MessageSteps
    /\ personal \subseteq Messages
    /\ popped \in [Messages -> Waiters \cup {Nobody}]
    /\ got \in [Waiters -> Messages \cup {Nobody}]
    /\ given \subseteq Messages \X Waiters
    /\ terminated \in BOOLEAN

\* A message goes to at most one waiter of each kind, a waiter for its author
\* and its group or for its author anywhere, and a waiter is given at most one
\* message, whatever runs in parallel: the mutex of the channel protects its queue.
OneToOne ==
    /\ \A m \in Messages, v \in Waiters : <<m, v>> \in given =>
          Author(v) = Author(m) /\ Home(v) \in {channel[m][1], Anywhere}
    /\ \A m \in Messages, v, w \in Waiters : <<m, v>> \in given /\ <<m, w>> \in given =>
          v = w \/ (Home(v) = Anywhere) # (Home(w) = Anywhere)
    /\ \A m, n \in Messages, w \in Waiters : <<m, w>> \in given /\ <<n, w>> \in given =>
          m = n

\* Another user waits, or has waited, in the group of w.
Shares(w) ==
    \E v \in Waiters : /\ stage[v] # "new"
                       /\ Home(v) = Home(w) /\ Author(v) # Author(w)

\* A waiter that no message has reached is queued where messages look for it:
\* the group, the user and the queue lead to its promise, unless a message has
\* just taken it off the queue.  The mutex of the channel is enough for that on
\* several threads, too, as long as one user waits in the group.
WaiterFindable ==
    \A w \in Waiters : stage[w] = "waiting" /\ got[w] = Nobody /\ (parallel => ~Shares(w)) =>
        \/ Present(Place(w)) /\ \E i \in DOMAIN promises[Place(w)] :
                                       promises[Place(w)][i] = w
        \/ \E m \in Messages : stage[m] = "popped" /\ popped[m] = w

\* No exception leaves EventProcess, which is declared noexcept (bot.h:44).
NoExceptionEscapes == ~terminated

\* On one scheduler thread none does: EventProcess runs without a suspension
\* between IsNeedMessage and the last at() of FeedMessage.
NoThrowOnOneThread == ~parallel => ~terminated

\* A wait ends: by a message or after 60 s.
EveryWaitEnds ==
    \A w \in Waiters : stage[w] = "locked" ~> stage[w] = "over" \/ terminated
=============================================================================
