------------------------------ MODULE Bilibili ------------------------------
(***************************************************************************)
(* The answers to links (modules/module/bilibili_parser/                   *)
(* bilibili_parser.h): the parser of a message with addresses of videos,  *)
(* series and live rooms tells the group what they lead to, but not what   *)
(* it was told in the last kExpiredTime seconds.                           *)
(*                                                                         *)
(* What was told is kept in Redis, by group, for the address as it was     *)
(* sent and for the link it stands for.  A parser is suspended in every   *)
(* HTTP request and in every command to Redis; a command may fail, which   *)
(* the code takes for "not there" or ignores.                              *)
(*                                                                         *)
(* The texts are not cached: redisCommand splits the command at its blanks *)
(* and every text has some, so the server refuses the SET of AddInCache,   *)
(* for Execute a success, and GetFromCache never finds anything.           *)
(***************************************************************************)
EXTENDS Integers, FiniteSets

CONSTANTS
    Parsers,           \* coroutines that run Parser
    Chats,             \* group_id; 0 in private
    Posts,             \* sets of addresses that a message may hold
    Urls,              \* addresses without a redirection
    Alias,             \* short addresses: checkurl holds
    RealUrl,           \* RealUrl[a]: where an alias leads
    UrlKind, Link,     \* UrlKind[u]: "page" or "live"; Link[u]: the link u stands for
    kExpiredTime,      \* in ticks
    MaxLinkMessages, MaxRedisFaults, MaxCrashes \* bounds

ASSUME LinksAssumption ==
    /\ RealUrl \in [Alias -> Urls] /\ Link \in [Urls -> Urls]
    /\ UrlKind \in [Urls -> {"page", "live"}] /\ kExpiredTime \in Nat

VARIABLES
    repeat,        \* bnotrepeat:group:url -> ticks until it expires, 0: no entry
    parsing,       \* where a parser is
    chat, rest,    \* its group, the addresses it has still to do
    url,           \* the one it is at
    link_messages, redis_faults, crashes,
    \* history
    told_links,    \* group and link -> ticks until it may be told again
    unaware,       \* parsers whose link another told after they had last looked it up
    misread,       \* parsers whose look-up of their link failed
    unsaved,       \* groups and links that were told and not remembered: SET failed
    double         \* the step just made told a link too early

parser == <<parsing, chat, rest, url>>
bounded == <<link_messages, redis_faults, crashes>>
excuses == <<unaware, misread, unsaved>>
biliVars == <<repeat, parser, bounded, told_links, excuses, double>>

Nothing == "nothing"
Keys == Chats \X Urls
Unused(h) == parsing[h] = "free"

\* The link a parser is at, in its group
LinkOf(h) == <<chat[h], Link[url[h]]>>

\* It will not look its link up again.
Decided(h) == parsing[h] = "remember" \/ (parsing[h] = "request" /\ UrlKind[url[h]] = "live")

-----------------------------------------------------------------------------
(***************************************************************************)
(* Redis; `fault` says whether the command fails                           *)
(***************************************************************************)
IsInCache(u, g, fault) == ~fault /\ repeat[<<g, u>>] > 0

AddInCacheNotRepeat(u, g, fault) ==
    repeat' = IF fault THEN repeat ELSE [repeat EXCEPT ![<<g, u>>] = kExpiredTime]

MayFail(faults) ==
    /\ redis_faults' = redis_faults + Cardinality({i \in DOMAIN faults : faults[i]})
    /\ redis_faults' <= MaxRedisFaults

Clock ==
    /\ repeat' = [k \in Keys |-> IF repeat[k] > 0 THEN repeat[k] - 1 ELSE 0]
    /\ told_links' = [k \in Keys |-> IF told_links[k] > 0 THEN told_links[k] - 1 ELSE 0]
    /\ double' = FALSE /\ UNCHANGED <<parser, bounded, excuses>>

-----------------------------------------------------------------------------
(***************************************************************************)
(* Parser                                                                  *)
(***************************************************************************)
StepTo(h, to) == parsing' = [parsing EXCEPT ![h] = to]

\* A parser is done with an address.
NextAddress(h) == unaware' = unaware \ {h} /\ misread' = misread \ {h} /\ UNCHANGED unsaved

LinksMessage(h, g, us) ==
    /\ Unused(h) /\ link_messages < MaxLinkMessages /\ link_messages' = link_messages + 1
    /\ StepTo(h, "next") /\ chat' = [chat EXCEPT ![h] = g] /\ rest' = [rest EXCEPT ![h] = us]
    /\ double' = FALSE
    /\ UNCHANGED <<repeat, url, redis_faults, crashes, told_links, excuses>>

\* The addresses come out of an unordered_set: in any order.
NextUrl(h, u) ==
    /\ parsing[h] = "next" /\ u \in rest[h]
    /\ rest' = [rest EXCEPT ![h] = @ \ {u}] /\ url' = [url EXCEPT ![h] = u]
    /\ StepTo(h, IF u \in Alias THEN "redirect" ELSE "check")
    /\ NextAddress(h) /\ double' = FALSE
    /\ UNCHANGED <<repeat, chat, bounded, told_links>>

\* GetRealUrl
Redirect(h) ==
    /\ parsing[h] = "redirect" /\ StepTo(h, "check")
    /\ url' = [url EXCEPT ![h] = RealUrl[@]]
    /\ double' = FALSE
    /\ UNCHANGED <<repeat, chat, rest, bounded, told_links, excuses>>

\* GetRealUrl without a response reads through a null pointer: the process ends, and
\* with it every parser.  Redis keeps its entries.
RedirectFails(h) ==
    /\ parsing[h] = "redirect" /\ crashes < MaxCrashes /\ crashes' = crashes + 1
    /\ parsing' = [i \in Parsers |-> "free"] /\ rest' = [i \in Parsers |-> {}]
    /\ chat' = [i \in Parsers |-> Nothing] /\ url' = chat'
    /\ unaware' = {} /\ misread' = {} /\ double' = FALSE
    /\ UNCHANGED <<repeat, link_messages, redis_faults, told_links, unsaved>>

Done(h) ==
    /\ parsing[h] = "next" /\ rest[h] = {} /\ StepTo(h, "free") /\ double' = FALSE
    /\ chat' = [chat EXCEPT ![h] = Nothing] /\ url' = [url EXCEPT ![h] = Nothing]
    /\ NextAddress(h)
    /\ UNCHANGED <<repeat, rest, bounded, told_links>>

\* IsInCache of the address.  A live room's link is in the address, and is looked up
\* before the request; a page's is in the response.
CheckUrl(h) ==
    LET g == chat[h]
        u == url[h]
        live == UrlKind[u] = "live"
    IN  /\ parsing[h] = "check"
        /\ \E f1, f2 \in BOOLEAN :
             /\ MayFail(<<f1, live /\ f2>>)
             /\ misread' = IF live /\ f2 THEN misread \cup {h} ELSE misread
             /\ StepTo(h, IF IsInCache(u, g, f1) \/ (live /\ IsInCache(Link[u], g, f2))
                            THEN "next" ELSE "request")
        /\ double' = FALSE
        /\ UNCHANGED <<repeat, chat, rest, url, link_messages, crashes, told_links, unaware,
                       unsaved>>

\* The response was no success: no answer.  One that cannot be read throws, and the
\* handler ends with it.
NoDetails(h) ==
    /\ parsing[h] = "request" /\ StepTo(h, "next") /\ double' = FALSE
    /\ rest' \in {rest, [rest EXCEPT ![h] = {}]}
    /\ UNCHANGED <<repeat, chat, url, bounded, told_links, excuses>>

\* The details are there; a page's link is looked up.
Details(h) ==
    LET page == UrlKind[url[h]] = "page"
    IN  /\ parsing[h] = "request"
        /\ \E f \in BOOLEAN :
             /\ MayFail(<<page /\ f>>)
             /\ misread' = IF page /\ f THEN misread \cup {h} ELSE misread
             /\ StepTo(h, IF page /\ IsInCache(Link[url[h]], chat[h], f)
                            THEN "next" ELSE "remember")
        /\ double' = FALSE
        /\ UNCHANGED <<repeat, chat, rest, url, link_messages, crashes, told_links, unaware,
                       unsaved>>

\* Mutant: only the address as it was sent is remembered.
Remembered_Url(h) == url[h]

\* What the first AddInCacheNotRepeat of an answer is given
RememberedUrl(h) == Link[url[h]]

\* The link is remembered, and with that its answer is on its way.
TellLink(h) ==
    \E f \in BOOLEAN :
        /\ MayFail(<<f>>) /\ AddInCacheNotRepeat(RememberedUrl(h), chat[h], f)
        /\ told_links' = [told_links EXCEPT ![LinkOf(h)] = kExpiredTime]
        /\ unsaved' = IF f THEN unsaved \cup {LinkOf(h)} ELSE unsaved \ {LinkOf(h)}
        /\ unaware' = unaware \cup {i \in Parsers \ {h} : Decided(i) /\ LinkOf(i) = LinkOf(h)}
        /\ double' = (/\ told_links[LinkOf(h)] > 0
                      /\ h \notin unaware \cup misread /\ LinkOf(h) \notin unsaved)
        /\ UNCHANGED <<chat, rest, url, link_messages, crashes, misread>>

AnswerLink(h) == parsing[h] = "remember" /\ StepTo(h, "save") /\ TellLink(h)

\* The room does not exist: the link alone is remembered.
NoRoom(h) ==
    /\ parsing[h] = "request" /\ UrlKind[url[h]] = "live"
    /\ StepTo(h, "sending") /\ TellLink(h)

\* ... then the address
SaveUrl(h) ==
    /\ parsing[h] = "save" /\ StepTo(h, "sending") /\ double' = FALSE
    /\ \E f \in BOOLEAN : MayFail(<<f>>) /\ AddInCacheNotRepeat(url[h], chat[h], f)
    /\ UNCHANGED <<chat, rest, url, link_messages, crashes, told_links, excuses>>

\* send().get(): the message, or the apology if it has no id
Sent(h) ==
    /\ parsing[h] = "sending" /\ StepTo(h, "next") /\ double' = FALSE
    /\ UNCHANGED <<repeat, chat, rest, url, bounded, told_links, excuses>>

BiliInit ==
    /\ repeat = [k \in Keys |-> 0] /\ told_links = repeat
    /\ parsing = [h \in Parsers |-> "free"]
    /\ chat = [h \in Parsers |-> Nothing] /\ rest = [h \in Parsers |-> {}]
    /\ url = chat
    /\ link_messages = 0 /\ redis_faults = 0 /\ crashes = 0
    /\ unaware = {} /\ misread = {} /\ unsaved = {} /\ double = FALSE

BiliNext ==
    \/ Clock
    \/ \E h \in Parsers, g \in Chats, us \in Posts : LinksMessage(h, g, us)
    \/ \E h \in Parsers, u \in Urls \cup Alias : NextUrl(h, u)
    \/ \E h \in Parsers :
          \/ Redirect(h) \/ RedirectFails(h) \/ CheckUrl(h) \/ NoDetails(h)
          \/ Details(h) \/ AnswerLink(h) \/ NoRoom(h) \/ SaveUrl(h) \/ Sent(h) \/ Done(h)

BiliSpec == BiliInit /\ [][BiliNext]_biliVars

-----------------------------------------------------------------------------
(***************************************************************************)
(* Properties                                                              *)
(***************************************************************************)

\* bilibili_parser.h:95, "防止短时间内重复发送": a link is not told again in a group
\* within kExpiredTime, under whatever address it is sent and whether or not the process
\* ended in between; unless the other handler told it after this one had looked it up,
\* or Redis failed in this look-up or in remembering that very link.
AnsweredOnce == ~double
=============================================================================
