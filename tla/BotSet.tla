------------------------------- MODULE BotSet -------------------------------
(***************************************************************************)
(* Connections that come and go under the coroutines that use their bots.  *)
(*                                                                         *)
(*   server.h, bot/bot.h           onopen, onmessage, onclose; Bot::OnRun  *)
(*   schedule/schedule.h           BotSet, a std::list of the bots         *)
(*   service/schedule_service.h    BroadCast                               *)
(*   modules/module/morning/morning.h   walks the list itself              *)
(*   modules/module/weibo/weibo_push.h  copies the list and walks the copy *)
(*                                                                         *)
(* A channel has one Bot, which lives from onopen to onclose.  push_front  *)
(* is the only insertion into the list, so its order is that of the stamps *)
(* of its bots, newest first.  A step that follows a pointer to a freed    *)
(* bot or list node has no defined outcome: it ends the behaviour.         *)
(***************************************************************************)
EXTENDS Naturals, FiniteSets

CONSTANTS
    Channels,  \* connections, each opened at most once
    Walks,     \* broadcasts that the scheduler starts, one at a time each
    Copies,    \* the walks that copy the list first
    Closes,    \* when a connection may close
    End        \* the end of the list

(***************************************************************************)
(* "early":    before the coroutine of OnRun is through                    *)
(* "handling": while a coroutine handles a message of the connection       *)
(* "walking":  while a walk holds a pointer to the bot or to its node      *)
(***************************************************************************)
ASSUME ClosesAssumption == Closes \subseteq {"early", "handling", "walking"}
ASSUME CopiesAssumption == Copies \subseteq Walks
ASSUME EndAssumption == End \notin Channels
ASSUME ChannelsAssumption == IsFiniteSet(Channels)

VARIABLES
    chan,     \* chan[c]: "new", "open", "closed"
    run,      \* run[c]: the coroutine of Bot::Run
    handling, \* channels with a coroutine that handles a message
    bots,     \* BotSet::bots_
    stamp,    \* stamp[c]: the turn of c's push_front, 0 before it
    walking, at,   \* a walk, and the bot or node it is at
    copy,     \* copy[w]: the list a walk has copied
    visited,  \* history: bots the walk is through with
    staying,  \* history: bots in the list since the walk began
    broken    \* what followed a dangling pointer, "no" when nothing did

bot == <<chan, run, handling>>
list == <<bots, stamp>>
walk == <<walking, at, copy, visited, staying>>
botsVars == <<bot, list, walk, broken>>

BotsInit ==
    /\ chan = [c \in Channels |-> "new"]
    /\ run = [c \in Channels |-> "none"]
    /\ handling = {}
    /\ bots = {}
    /\ stamp = [c \in Channels |-> 0]
    /\ walking = [w \in Walks |-> "idle"]
    /\ at = [w \in Walks |-> End]
    /\ copy = [w \in Walks |-> {}]
    /\ visited = [w \in Walks |-> {}]
    /\ staying = [w \in Walks |-> {}]
    /\ broken = "no"

-----------------------------------------------------------------------------
(***************************************************************************)
(* Connections                                                             *)
(***************************************************************************)

\* onopen: newContext<Bot>, and a coroutine for Bot::Run.
Open(c) ==
    /\ chan[c] = "new"
    /\ chan' = [chan EXCEPT ![c] = "open"]
    /\ run' = [run EXCEPT ![c] = "started"]
    /\ UNCHANGED <<handling, list, walk, broken>>

\* OnRun: push_front, under the mutex.
AddBot(c) ==
    /\ run[c] = "started"
    /\ run' = [run EXCEPT ![c] = "added"]
    /\ bots' = bots \cup {c}
    /\ stamp' = [stamp EXCEPT ![c] = 1 + Cardinality({d \in Channels : stamp[d] > 0})]
    /\ UNCHANGED <<chan, handling, walk, broken>>

\* OnRun: botset_it_ is assigned, and the superusers are greeted.
Greet(c) ==
    /\ run[c] = "added"
    /\ run' = [run EXCEPT ![c] = "done"]
    /\ UNCHANGED <<chan, handling, list, walk, broken>>

\* onmessage: a coroutine that handles it, and those it starts for services.
Message(c) ==
    /\ chan[c] = "open"
    /\ handling' = handling \cup {c}
    /\ UNCHANGED <<chan, run, list, walk, broken>>

\* It uses the bot again and again, and returns.
UseBot(c) ==
    /\ c \in handling
    /\ IF chan[c] = "open"
         THEN handling' = handling \ {c} /\ UNCHANGED broken
         ELSE broken' = "handler" /\ UNCHANGED handling
    /\ UNCHANGED <<chan, run, list, walk>>

\* A pointer to the bot or its node is in the hands of a walk.
Held(w, c) == at[w] = c \/ c \in copy[w] \ visited[w]

Newest(S) == {c \in S : \A d \in S : stamp[d] <= stamp[c]}

\* Mutant: remove takes the front of the list.
Without_Front(c) == bots \ Newest(bots)

\* Mutant: the destructor does not remove the bot.
Without_None(c) == bots

\* BotSet::RemoveBot
Without(c) == bots \ {c}

\* onclose: deleteContext<Bot>.  ~Bot erases the iterator that OnRun has assigned;
\* before OnRun has, it erases through an iterator that points nowhere, which leaves
\* any list.
Close(c) ==
    /\ chan[c] = "open"
    /\ "early" \in Closes \/ run[c] = "done"
    /\ "handling" \in Closes \/ c \notin handling
    /\ "walking" \in Closes \/ \A w \in Walks : ~Held(w, c)
    /\ chan' = [chan EXCEPT ![c] = "closed"]
    /\ IF run[c] = "done"
         THEN bots' = Without(c) /\ UNCHANGED broken
         ELSE bots' \in SUBSET Channels /\ broken' = "erase"
    /\ staying' = [w \in Walks |-> staying[w] \ {c}]
    /\ UNCHANGED <<run, handling, stamp, walking, at, copy, visited>>

-----------------------------------------------------------------------------
(***************************************************************************)
(* Walks: SayMorning, WeiboPuller                                          *)
(***************************************************************************)

\* The first of a list, given as a set.
FirstOf(S) == IF S = {} THEN {End} ELSE Newest(S)

\* Mutant: the body of the loop advances the iterator, too.
NextOf_Skips(S, c) ==
    LET older == {d \in S : stamp[d] < stamp[c]}
    IN  FirstOf(older \ Newest(older))

\* What follows c in a list that c is in.
NextOf(S, c) == FirstOf({d \in S : stamp[d] < stamp[c]})

\* begin(); Bots() takes no lock.
Begin(w) ==
    /\ walking[w] = "idle"
    /\ walking' = [walking EXCEPT ![w] = IF w \in Copies THEN "copy" ELSE "walk"]
    /\ \E c \in FirstOf(bots) : at' = [at EXCEPT ![w] = c]
    /\ staying' = [staying EXCEPT ![w] = bots]
    /\ UNCHANGED <<bot, list, copy, visited, broken>>

\* The copy takes over a pointer, and goes to the next node.
Copy(w) ==
    /\ walking[w] = "copy" /\ at[w] # End
    /\ IF at[w] \in bots
         THEN /\ copy' = [copy EXCEPT ![w] = @ \cup {at[w]}]
              /\ \E c \in NextOf(bots, at[w]) : at' = [at EXCEPT ![w] = c]
              /\ UNCHANGED broken
         ELSE broken' = "iterator" /\ UNCHANGED <<copy, at>>
    /\ UNCHANGED <<bot, list, walking, visited, staying>>

Copied(w) ==
    /\ walking[w] = "copy" /\ at[w] = End
    /\ walking' = [walking EXCEPT ![w] = "walk"]
    /\ \E c \in FirstOf(copy[w]) : at' = [at EXCEPT ![w] = c]
    /\ UNCHANGED <<bot, list, copy, visited, staying, broken>>

\* BroadCast: a call on the bot, and a sleep.  There are as many calls as there
\* are groups, and perhaps one before them that asks for the groups.
Call(w) ==
    /\ walking[w] \in {"walk", "asleep"} /\ at[w] # End
    /\ IF chan[at[w]] = "open"
         THEN walking' = [walking EXCEPT ![w] = "asleep"] /\ UNCHANGED broken
         ELSE broken' = "call" /\ UNCHANGED walking
    /\ UNCHANGED <<bot, list, at, copy, visited, staying>>

\* The list a walk follows.
Followed(w) == IF w \in Copies THEN copy[w] ELSE bots

\* ++it after the last call.
Advance(w) ==
    /\ walking[w] \in {"walk", "asleep"} /\ at[w] # End
    /\ IF at[w] \in Followed(w)
         THEN /\ \E c \in NextOf(Followed(w), at[w]) : at' = [at EXCEPT ![w] = c]
              /\ visited' = [visited EXCEPT ![w] = @ \cup {at[w]}]
              /\ walking' = [walking EXCEPT ![w] = "walk"]
              /\ UNCHANGED broken
         ELSE broken' = "iterator" /\ UNCHANGED <<walking, at, visited>>
    /\ UNCHANGED <<bot, list, copy, staying>>

Finish(w) ==
    /\ walking[w] = "walk" /\ at[w] = End
    /\ walking' = [walking EXCEPT ![w] = "idle"]
    /\ copy' = [copy EXCEPT ![w] = {}]
    /\ visited' = [visited EXCEPT ![w] = {}]
    /\ staying' = [staying EXCEPT ![w] = {}]
    /\ UNCHANGED <<bot, list, at, broken>>

Connection(c) ==
    Open(c) \/ AddBot(c) \/ Greet(c) \/ Message(c) \/ UseBot(c) \/ Close(c)
Walk(w) ==
    Begin(w) \/ Copy(w) \/ Copied(w) \/ Call(w) \/ Advance(w) \/ Finish(w)

BotsNext ==
    /\ broken = "no"
    /\ (\E c \in Channels : Connection(c)) \/ (\E w \in Walks : Walk(w))

BotsSpec == BotsInit /\ [][BotsNext]_botsVars

-----------------------------------------------------------------------------
(***************************************************************************)
(* Properties                                                              *)
(***************************************************************************)

\* Every variable has its type.
BotsTypeOK ==
    /\ chan \in [Channels -> {"new", "open", "closed"}]
    /\ run \in [Channels -> {"none", "started", "added", "done"}]
    /\ handling \subseteq Channels /\ bots \subseteq Channels
    /\ stamp \in [Channels -> Nat]
    /\ walking \in [Walks -> {"idle", "copy", "walk", "asleep"}]
    /\ at \in [Walks -> Channels \cup {End}]
    /\ copy \in [Walks -> SUBSET Channels]
    /\ visited \in [Walks -> SUBSET Channels]
    /\ staying \in [Walks -> SUBSET Channels]
    /\ broken \in {"no", "erase", "handler", "iterator", "call"}

\* The set holds the bots that live and have been added, and no pointer to one
\* that was destroyed, until a bot is destroyed before its OnRun is through (OnRun
\* and ~Bot).
SetExact ==
    broken # "erase" =>
        bots = {c \in Channels : chan[c] = "open" /\ run[c] \in {"added", "done"}}

\* A walk that ends has been at every bot that was there all the time, and is at
\* none twice, however many others came and went: new bots enter at the front.
EveryBotReached ==
    \A w \in Walks :
        /\ walking[w] = "walk" /\ at[w] = End => staying[w] \subseteq visited[w]
        /\ at[w] \notin visited[w]

\* Whatever else opens and closes, a walk follows no dangling pointer as long as
\* no bot closes that the walk still holds a pointer to.
WalksUnharmed == "walking" \notin Closes => broken \notin {"iterator", "call"}

\* "In other cases the iterator is not affected by a destruction"
\* (schedule.h:39), where the one case is a call on the bot at that very moment.
IteratorUnaffected == broken # "iterator"
=============================================================================
