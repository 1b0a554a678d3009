------------------------------ MODULE Dispatch ------------------------------
(***************************************************************************)
(* The event handler: which services an event is given to, and what they   *)
(* take as the text of their command.                                      *)
(*                                                                         *)
(*   event/event_handler.h   EventHandler                                  *)
(*   event/trie.h            Trie, by prefix and by suffix                 *)
(*   event/regex_matcher.h, event/event_filter.h, permission/permission.h  *)
(*   service/triggered_service.h   the checks before a service is run      *)
(*   message/utility.h       ExtraPlainText, Unescape                      *)
(*                                                                         *)
(* Handle is one call without a suspension, so one event at a time is      *)
(* modelled; the loop of the tries' search is taken step by step.          *)
(* A character is a model value and a text a sequence of characters; a     *)
(* client reports '&' and brackets as entities, of which each is two       *)
(* characters here: its '&' and the rest.                                  *)
(* While an event is handled, a command on another thread may switch a     *)
(* service of its group.                                                   *)
(***************************************************************************)
EXTENDS Integers, Sequences, FiniteSets

CONSTANTS
    DispatchServices,
    Level,      \* Level[s]: TriggeredService::use_permission_
    OnlyToMe,   \* services with only_to_me_
    Switchable, \* bound: services that are switched while an event is handled
    Commands,   \* the Register... calls, in order: [how, key, service]
    Matches,    \* Matches[s]: the texts that the patterns of a regex service find
    Fold,       \* tolower, a function on the characters
    Space,      \* the character ' '
    Amp,        \* the character '&'
    Meaning,    \* Meaning[x]: what the entity of Amp and x stands for
    Garbage,    \* a character of freed memory
    Temporary,  \* sub_type "group" of a private message
    Events      \* the events that a client may report

Directions == {"prefix", "suffix"}
Hows == Directions \cup {"full", "regex", "all", "notice", "request"}
Chars == DOMAIN Fold
BotCommand == [how : Hows, key : Seq(Chars), service : DispatchServices]

ASSUME FoldAssumption == Fold \in [Chars -> Chars] /\ Garbage \in Chars
ASSUME CommandsAssumption == Commands \in Seq(BotCommand)
ASSUME EventsAssumption ==
    \A e \in Events : /\ e.text \in Seq(Chars) /\ e.sub \in Seq(Chars)
                      /\ e.post \in {"message", "notice", "request", "meta", "answer"}

\* No command that is cut off a message has a part of an entity in it.
ASSUME EscapesAssumption ==
    /\ Amp \in Chars /\ DOMAIN Meaning \subseteq Chars \ {Amp}
    /\ Meaning \in [DOMAIN Meaning -> Chars]
    /\ \A c \in DOMAIN Commands : Commands[c].how \in Directions =>
          \A i \in DOMAIN Commands[c].key, x \in DOMAIN Meaning \cup {Amp} :
              Fold[Commands[c].key[i]] # Fold[x]

VARIABLES
    registered, \* how many of Commands have been registered
    nodes,      \* nodes[d]: the paths of the nodes of command_prefix_, command_suffix_
    kept,       \* commands whose registration succeeded: a node's service_ is one's
    enabled,    \* services that are enabled in the event's group
    phase,      \* where Handle is
    event,      \* the event, with __to_me__ and __command_size__ (0: not set)
    message,    \* the local copy of its text that is matched
    searched, pre, \* the search: characters consumed, and how many of them led to pre
    ran,        \* the commands whose service was started (each in a coroutine of its
                \* own), and with which text
    terminated  \* an exception left Handle, which is noexcept

tables == <<registered, nodes, kept>>
search == <<searched, pre>>
dispatchVars == <<tables, enabled, phase, event, message, search, ran, terminated>>

-----------------------------------------------------------------------------
(***************************************************************************)
(* Registration                                                            *)
(***************************************************************************)

\* What a trie reads of a text: folded, and from its end for suffixes.
Reading(d, s) ==
    [i \in 1 .. Len(s) |-> Fold[IF d = "suffix" THEN s[Len(s) + 1 - i] ELSE s[i]]]

Path(c) == IF Commands[c].how \in Directions
             THEN Reading(Commands[c].how, Commands[c].key)
             ELSE Commands[c].key

HasService(how, path) ==
    \E c \in kept : Commands[c].how = how /\ Path(c) = path

\* The command of command_fullmatch_.at(message), and of service_ of a path's node
CommandAt(how, path) == CHOOSE c \in kept : Commands[c].how = how /\ Path(c) = path

\* RegisterCommand, RegisterRegex, RegisterNotice, RegisterRequest: a command that
\* is registered already keeps its service (emplace, and InsertImpl returns false),
\* the lists take everything.
Register ==
    LET c == registered + 1
        how == Commands[c].how
    IN  /\ registered < Len(Commands) /\ registered' = c
        /\ kept' = IF how \in Directions \cup {"full"} /\ HasService(how, Path(c))
                     THEN kept ELSE kept \cup {c}
        /\ nodes' = IF how \in Directions
                      THEN [nodes EXCEPT ![how] =
                              @ \cup {SubSeq(Path(c), 1, k) : k \in 0 .. Len(Path(c))}]
                      ELSE nodes
        /\ UNCHANGED <<enabled, phase, event, message, search, ran, terminated>>

-----------------------------------------------------------------------------
(***************************************************************************)
(* Checks, and the start of a service                                      *)
(***************************************************************************)

\* GetUserPermission; an anonymous member has no role
Permission(e) ==
    CASE e.sender = "superuser" -> 7
      [] e.sender = "white" -> 6
      [] e.sender \notin {"superuser", "white"} /\ ~e.group -> 2
      [] e.sender = "owner" /\ e.group -> 5
      [] e.sender = "admin" /\ e.group -> 4
      [] e.sender = "member" /\ e.group -> 3
      [] e.sender = "anonymous" /\ e.group -> 1

\* CheckIsEnable, which only a group is asked for
Enabled(s) == event.group => s \in enabled

\* CheckIsEnable, and with CheckPerm
Listening(c) == Enabled(Commands[c].service)
Permitted(c) == Listening(c) /\ Permission(event) >= Level[Commands[c].service]

\* CheckToMe, which only the commands of a group ask
Addressed(c) == event.group => Commands[c].service \notin OnlyToMe \/ event.to_me

\* An entity begins at the ith character.
Entity(s, i) == i \in 1 .. Len(s) - 1 /\ s[i] = Amp /\ s[i + 1] \in DOMAIN Meaning

\* What Unescape leaves: an entity leaves one character.
Left(s) == {i \in 1 .. Len(s) : ~Entity(s, i - 1)}
LeftUpTo(s, i) == Cardinality({j \in Left(s) : j <= i})

Unescape(s) ==
    LET Place(n) == CHOOSE i \in Left(s) : LeftUpTo(s, i) = n
    IN  [n \in 1 .. Cardinality(Left(s)) |->
            IF Entity(s, Place(n)) THEN Meaning[s[Place(n) + 1]] ELSE s[Place(n)]]

\* ExtraPlainText of the copy of the event a service is given: the size is that of
\* the command in the text as it was reported.
PlainText(e) ==
    LET text == Unescape(e.text)
    IN  IF e.size >= 0 THEN SubSeq(text, e.size + 1, Len(text))
                       ELSE SubSeq(text, 1, Len(text) + e.size)

\* go([&service, event, &bot] { service->Run(event, bot); }) for every command whose
\* service passes its checks
Run(commands, e) == ran' = ran \cup {[command |-> c, text |-> PlainText(e)] : c \in commands}

\* command_regex_, all_msg_handler_, and the lists of a notice or request type
Listed(how) == {c \in kept : Commands[c].how = how}

-----------------------------------------------------------------------------
(***************************************************************************)
(* Handle                                                                  *)
(***************************************************************************)

\* EventFilter::Filter
Filter(e) ==
    /\ ~(e.post = "message" /\ ~e.group /\ e.sub = Temporary)
    /\ e.post # "answer"

\* A new event, when every module has been initialised.
Receive ==
    /\ phase = "idle" /\ registered = Len(Commands)
    /\ \E e \in Events :
         /\ Filter(e)
         /\ event' = [post |-> e.post, group |-> e.group, sender |-> e.sender,
                      to |-> e.to, text |-> e.text, sub |-> e.sub,
                      to_me |-> FALSE, size |-> 0]
         /\ message' = e.text
         /\ phase' = e.post
    /\ ran' = {} /\ searched' = 0 /\ pre' = 0
    /\ UNCHANGED <<tables, enabled, terminated>>

\* A meta event is only logged.
MetaEvent ==
    /\ phase = "meta" /\ phase' = "idle"
    /\ UNCHANGED <<tables, enabled, event, message, search, ran, terminated>>

Words(s) == {i \in 1 .. Len(s) : s[i] # Space}

\* The text without what addresses the bot becomes the event's message.  msg still
\* views the text that this assignment frees, and is copied after it: the first
\* bytes of the copy may be the allocator's.
Strip(rest) ==
    /\ event' = [event EXCEPT !.to_me = TRUE, !.text = rest]
    /\ \/ message' = rest
       \/ rest # <<>> /\ message' = [rest EXCEPT ![1] = Garbage]
    /\ phase' = "full"
    /\ UNCHANGED <<tables, enabled, search, ran, terminated>>

\* substr(find_first_not_of(' ')) throws when nothing is left.
Terminate ==
    /\ terminated' = TRUE
    /\ UNCHANGED <<tables, enabled, phase, event, message, search, ran>>

\* starts_with(BOT_NAME)
AddressByName ==
    /\ phase = "message" /\ ~terminated /\ event.to = "name"
    /\ Strip(message)

\* starts_with("[CQ:at") with the bot's own id
AddressByCode ==
    /\ phase = "message" /\ ~terminated /\ event.to = "code"
    /\ \/ Words(message) = {} /\ Terminate
       \/ \E i \in Words(message) : /\ \A j \in Words(message) : i <= j
                                   /\ Strip(SubSeq(message, i, Len(message)))

\* Neither: the message is matched as it is.
NotAddressed ==
    /\ phase = "message" /\ event.to = "nobody"
    /\ phase' = "full"
    /\ UNCHANGED <<tables, enabled, event, message, search, ran, terminated>>

\* command_fullmatch_
FullMatch ==
    /\ phase = "full" /\ phase' = "prefix"
    /\ LET c == CommandAt("full", message)
       IN  IF HasService("full", message) /\ Permitted(c) /\ Addressed(c)
             THEN Run({c}, event) ELSE UNCHANGED ran
    /\ UNCHANGED <<tables, enabled, event, message, search, terminated>>

\* The child of the node that the search is at, for the next character
CanDescend(d) ==
    searched < Len(message) /\ SubSeq(Reading(d, message), 1, searched + 1) \in nodes[d]

\* Mutant: the search forgets the last service on its way.
Descend_Forgets(d) ==
    /\ phase = d /\ CanDescend(d)
    /\ searched' = searched + 1
    /\ pre' = IF HasService(d, SubSeq(Reading(d, message), 1, searched + 1))
                THEN searched + 1 ELSE 0
    /\ UNCHANGED <<tables, enabled, phase, event, message, ran, terminated>>

\* One turn of the loop of LongestSearchImpl
Descend(d) ==
    /\ phase = d /\ CanDescend(d)
    /\ searched' = searched + 1
    /\ pre' = IF HasService(d, SubSeq(Reading(d, message), 1, searched + 1))
                THEN searched + 1 ELSE pre
    /\ UNCHANGED <<tables, enabled, phase, event, message, ran, terminated>>

\* Mutant: InsertFromBack keeps the size of a command positive.
Size_Positive(d, n) == n

\* command_size_: negative for a suffix
Size(d, n) == IF d = "suffix" THEN -n ELSE n

\* The end of the search: the size of the command goes into the event whether or
\* not its service then passes the checks.
SearchEnds(d) ==
    /\ phase = d /\ ~CanDescend(d)
    /\ phase' = (IF d = "prefix" THEN "suffix" ELSE "regex")
    /\ searched' = 0 /\ pre' = 0
    /\ LET c == CommandAt(d, SubSeq(Reading(d, message), 1, pre))
           e == [event EXCEPT !.size = Size(d, pre)]
       IN  IF pre = 0
             THEN UNCHANGED <<event, ran>>
             ELSE /\ event' = e
                  /\ IF Permitted(c) /\ Addressed(c) THEN Run({c}, e) ELSE UNCHANGED ran
    /\ UNCHANGED <<tables, enabled, message, terminated>>

\* command_regex_, then all_msg_handler_: nothing asks whether the bot was addressed.
RegexMatch ==
    /\ phase = "regex" /\ phase' = "all"
    /\ Run({c \in Listed("regex") : message \in Matches[Commands[c].service] /\ Permitted(c)},
           event)
    /\ UNCHANGED <<tables, enabled, event, message, search, terminated>>

AllMessages ==
    /\ phase = "all" /\ phase' = "idle"
    /\ Run({c \in Listed("all") : Permitted(c)}, event)
    /\ UNCHANGED <<tables, enabled, event, message, search, terminated>>

\* notice_handler_: the services of the sub_type, and those of "", which take any
NoticeEvent ==
    /\ phase = "notice" /\ phase' = "idle"
    /\ Run({c \in Listed("notice") : Commands[c].key \in {event.sub, <<>>} /\ Listening(c)},
           event)
    /\ UNCHANGED <<tables, enabled, event, message, search, terminated>>

\* request_handler_: the exact sub_type only
RequestEvent ==
    /\ phase = "request" /\ phase' = "idle"
    /\ Run({c \in Listed("request") : Commands[c].key = event.sub /\ Listening(c)}, event)
    /\ UNCHANGED <<tables, enabled, event, message, search, terminated>>

\* GroupEnable or GroupDisable of a service in the group, on another thread.
SwitchService ==
    /\ phase \in {"full", "suffix"}
    /\ \E s \in Switchable : enabled' = IF s \in enabled THEN enabled \ {s}
                                                         ELSE enabled \cup {s}
    /\ UNCHANGED <<tables, phase, event, message, search, ran, terminated>>

-----------------------------------------------------------------------------
DispatchInit ==
    /\ registered = 0 /\ kept = {}
    /\ nodes = [d \in Directions |-> {<<>>}]
    /\ enabled = DispatchServices
    /\ phase = "idle" /\ event = [post |-> "none"] /\ message = <<>>
    /\ searched = 0 /\ pre = 0
    /\ ran = {} /\ terminated = FALSE

DispatchNext ==
    \/ Register \/ Receive \/ MetaEvent
    \/ AddressByName \/ AddressByCode \/ NotAddressed
    \/ FullMatch \/ RegexMatch \/ AllMessages \/ NoticeEvent \/ RequestEvent \/ SwitchService
    \/ \E d \in Directions : Descend(d) \/ SearchEnds(d)

DispatchSpec == DispatchInit /\ [][DispatchNext]_dispatchVars

-----------------------------------------------------------------------------
(***************************************************************************)
(* Properties                                                              *)
(***************************************************************************)
StartsWith(text, path) ==
    Len(path) <= Len(text) /\ SubSeq(text, 1, Len(path)) = path

\* The commands of a direction that the message begins, or ends, with
Fitting(d) ==
    {c \in 1 .. registered : /\ Commands[c].how = d /\ Path(c) # <<>>
                             /\ StartsWith(Reading(d, message), Path(c))}

\* When the search of a trie ends, pre is the longest command that the message
\* begins (ends) with, whatever other commands share its nodes, and the service
\* that registered it first owns it, whatever the case (LongestSearchImpl).
LongestMatch ==
    \A d \in Directions : phase = d /\ ~CanDescend(d) =>
        /\ \A c \in Fitting(d) :
             /\ Len(Path(c)) <= pre
             /\ \E b \in kept : b <= c /\ b \in Fitting(d) /\ Path(b) = Path(c)
        /\ pre > 0 => \E b \in kept \cap Fitting(d) : Len(Path(b)) = pre

\* The length of the longest command of a direction that fits, 0 if none does
Longest(d) ==
    CHOOSE n \in {0} \cup {Len(Path(c)) : c \in Fitting(d)} :
        \A c \in Fitting(d) : Len(Path(c)) <= n

\* The first, or last, n characters of the reported message, and the text, are the
\* message: nothing else is missing and nothing of the command is left.
Remains(text, d, n) ==
    LET whole == event.text
    IN  Unescape(whole) = IF d = "suffix" THEN text \o SubSeq(whole, Len(whole) - n + 1, Len(whole))
                                          ELSE SubSeq(whole, 1, n) \o text

\* A service that is started for its command takes the message without exactly that
\* command as its text, although both tries share one size in the event and the
\* entities of the message are decoded before the command is cut off.  The services
\* of regular expressions and those of all messages do not get the message but what
\* the tries' searches leave of it, were their commands' services started or not:
\* the message without the longest suffix command, or else prefix command, that
\* fits.  (The copy that was matched must be the message.)
OwnCommandText ==
    \A r \in ran : message = event.text =>
        LET how == Commands[r.command].how
            key == Len(Path(r.command))
            last == IF Longest("suffix") > 0 THEN "suffix" ELSE "prefix"
        IN  /\ how = "full" => Path(r.command) = event.text /\ Remains(r.text, how, 0)
            /\ how \in Directions => r.command \in Fitting(how) /\ Remains(r.text, how, key)
            /\ how \in {"regex", "all"} => Remains(r.text, last, Longest(last))
=============================================================================
