----------------------------- MODULE BotManage -----------------------------
(***************************************************************************)
(* The management of the bot: whom it does not trust, and which groups it  *)
(* is in (modules/module/botmanage/).                                      *)
(*                                                                         *)
(*   config.cpp              the black lists, in memory and in two tables  *)
(*   white_black.h           the commands .black and .white                *)
(*   baned_kicked.h          who kicks the bot out of a group is listed    *)
(*   manage_bot.h            the flags, and leaving a group                *)
(*   friend_invite.h, group_invite.h, dismiss.h, auto_clean_group.h        *)
(*                                                                         *)
(* Every handler is a coroutine: its steps between two statements, answers *)
(* or sleeps interleave with those of the others.  The process may crash   *)
(* at any time and is started again; the tables and the groups remain.     *)
(* A table may fail to be read at a start: the module that reads them is   *)
(* lost then, and the others go on with what lists there are.              *)
(* Reports to the superusers and the reasons in the lists are left out.    *)
(***************************************************************************)
EXTENDS Integers, Sequences

CONSTANTS
    Users, ChatGroups,
    Silent,     \* groups in which the bot has not spoken for auto_clean_after days
    BotConfig,     \* [friend, group, strict]: the flags in botmanage.yml
    MaxEvents   \* bound: commands, requests, notices and crashes

Listable == Users \cup ChatGroups

VARIABLES
    up,         \* the process runs
    watches,    \* BandedOrKicked has been registered: it did not throw
    black_list,       \* Qid_blacklist and Gid_blacklist
    table,      \* BlackListQQ and BlackListGroup
    changes,    \* coroutines that change the lists: [todo, step]
    flags,      \* add_friend_flag, add_group_flag, reject_group_force_flag
    friends,    \* users whose request was approved
    approved,   \* invitations that were approved: [group, user]
    joined_groups, \* groups the bot is in
    joining,    \* groups whose group_increase is handled in strict mode
    cleaning,   \* DoClean: [step, todo, group]
    happened,   \* how many events have happened
    \* history
    doubted,    \* a statement about them failed, or they were added and deleted at a time
    unread,     \* rows this process has not read: its lists are without them
    banned,     \* put on a list and not taken off since
    cleaned     \* groups that DoClean has left

lists == <<watches, black_list, table, changes, doubted, unread, banned>>
trust == <<flags, friends, approved>>
member == <<joined_groups, joining>>
manageVars == <<up, lists, trust, member, cleaning, cleaned, happened>>

Event == happened < MaxEvents /\ happened' = happened + 1

-----------------------------------------------------------------------------
(***************************************************************************)
(* The black lists                                                         *)
(***************************************************************************)
Of(c) == {c.todo[k] : k \in DOMAIN c.todo}
Busy(i) == \E c \in changes : i \in Of(c)

\* A coroutine begins to add the entries of todo to the lists, or to delete them.
BeginChange(todo, step) ==
    LET new == [todo |-> todo, step |-> step]
        opposed == {c \in changes : (c.step = "delete") # (step = "delete")}
    IN  /\ changes' = changes \cup {new}
        /\ doubted' = doubted \cup (Of(new) \cap UNION {Of(c) : c \in opposed})

Replace(c, todo, step) ==
    changes' = (changes \ {c}) \cup
                 (IF todo = <<>> THEN {} ELSE {[todo |-> todo, step |-> step]})

\* .black
HandleBlack(i) ==
    /\ up /\ Event
    /\ BeginChange(<<i>>, "insert")
    /\ UNCHANGED <<up, watches, black_list, table, unread, banned, trust, member, cleaning,
                   cleaned>>

\* .white: out of the map first
HandleWhite(i) ==
    /\ up /\ Event /\ i \in black_list
    /\ black_list' = black_list \ {i} /\ banned' = banned \ {i}
    /\ BeginChange(<<i>>, "delete")
    /\ UNCHANGED <<up, watches, table, unread, trust, member, cleaning, cleaned>>

\* The bot is kicked out; a process that is down, or has not registered the handler,
\* never hears of it.
Kicked(g, u) ==
    /\ Event /\ g \in joined_groups
    /\ joined_groups' = joined_groups \ {g} /\ joining' = joining \ {g}
    /\ IF up /\ watches THEN BeginChange(<<g, u>>, "info") ELSE UNCHANGED <<changes, doubted>>
    /\ UNCHANGED <<up, watches, black_list, table, unread, banned, trust, cleaning, cleaned>>

\* Handlekicked goes on when get_stranger_info is answered, or has timed out.
StrangerInfo(c) ==
    /\ c \in changes /\ c.step = "info"
    /\ Replace(c, c.todo, "insert")
    /\ UNCHANGED <<up, watches, black_list, table, doubted, unread, banned, trust, member,
                   cleaning, cleaned, happened>>

\* Mutant: the two statements are swapped, so that a missing row is updated.
AddToTable_UpdatesOnly(c) ==
    /\ c \in changes /\ c.step = "insert"
    /\ Replace(c, c.todo, "emplace")
    /\ UNCHANGED <<up, watches, black_list, table, doubted, unread, banned, trust, member,
                   cleaning, cleaned, happened>>

\* AddToQQTable, AddToGroupTable: update or insert; a failure is not reported.
AddToTable(c) ==
    /\ c \in changes /\ c.step = "insert"
    /\ \/ table' = table \cup {Head(c.todo)} /\ UNCHANGED doubted
       \/ doubted' = doubted \cup {Head(c.todo)} /\ UNCHANGED table
    /\ Replace(c, c.todo, "emplace")
    /\ UNCHANGED <<up, watches, black_list, unread, banned, trust, member, cleaning, cleaned,
                   happened>>

\* AddToQQBlackList, AddToGroupBlackList: then into the map; a kick goes on with the
\* operator.
AddToList(c) ==
    /\ c \in changes /\ c.step = "emplace"
    /\ black_list' = black_list \cup {Head(c.todo)} /\ banned' = banned \cup {Head(c.todo)}
    /\ unread' = unread \ {Head(c.todo)}
    /\ Replace(c, Tail(c.todo), "insert")
    /\ UNCHANGED <<up, watches, table, doubted, trust, member, cleaning, cleaned, happened>>

\* DelFromQQTable, DelFromGroupTable
DelFromTable(c) ==
    /\ c \in changes /\ c.step = "delete"
    /\ \/ table' = table \ {Head(c.todo)} /\ UNCHANGED doubted
       \/ doubted' = doubted \cup {Head(c.todo)} /\ UNCHANGED table
    /\ Replace(c, Tail(c.todo), "delete")
    /\ UNCHANGED <<up, watches, black_list, unread, banned, trust, member, cleaning, cleaned,
                   happened>>

-----------------------------------------------------------------------------
(***************************************************************************)
(* Friends and groups                                                      *)
(***************************************************************************)

\* -caf, -cag and -gf of the command migangbot
ManageFlags ==
    /\ up /\ Event
    /\ \/ flags' = [flags EXCEPT !.friend = ~@]
       \/ flags' = [flags EXCEPT !.group = ~@]
       \/ flags.strict /\ flags' = [flags EXCEPT !.strict = FALSE]
       \/ ~flags.strict /\ flags' = [flags EXCEPT !.strict = TRUE, !.group = FALSE]
    /\ UNCHANGED <<up, lists, friends, approved, member, cleaning, cleaned>>

\* Handle_friend_invite, when it approves.  A listed user is neither approved nor
\* rejected, everybody is rejected while the flag is off.
FriendInvite(u) ==
    /\ up /\ Event /\ flags.friend /\ u \notin black_list
    /\ friends' = friends \cup {u}
    /\ UNCHANGED <<up, lists, flags, approved, member, cleaning, cleaned>>

\* Mutant: only the group of an invitation is looked up.
GroupInvite_AnyUser(g, u) ==
    /\ up /\ Event /\ g \notin joined_groups
    /\ flags.group /\ g \notin black_list
    /\ approved' = approved \cup {[group |-> g, user |-> u]}
    /\ UNCHANGED <<up, lists, flags, friends, member, cleaning, cleaned>>

\* Handle_group_invite, when it approves
GroupInvite(g, u) ==
    /\ up /\ Event /\ g \notin joined_groups
    /\ flags.group /\ u \notin black_list /\ g \notin black_list
    /\ approved' = approved \cup {[group |-> g, user |-> u]}
    /\ UNCHANGED <<up, lists, flags, friends, member, cleaning, cleaned>>

\* The bot gets into a group, by an invitation it approved or by force.  In strict
\* mode Handle_group_increase says why, and sleeps.
GroupIncrease(g) ==
    /\ Event /\ g \notin joined_groups
    /\ joined_groups' = joined_groups \cup {g}
    /\ approved' = {p \in approved : p.group # g}
    /\ joining' = IF up /\ flags.strict THEN joining \cup {g} ELSE joining
    /\ UNCHANGED <<up, lists, flags, friends, cleaning, cleaned>>

\* It leaves without looking at the mode again.
LeaveForced(g) ==
    /\ g \in joining /\ joining' = joining \ {g}
    /\ joined_groups' = joined_groups \ {g}
    /\ UNCHANGED <<up, lists, trust, cleaning, cleaned, happened>>

\* The commands .dismiss and migangbot -l
Dismiss(g) ==
    /\ up /\ Event /\ g \in joined_groups
    /\ joined_groups' = joined_groups \ {g}
    /\ UNCHANGED <<up, lists, trust, joining, cleaning, cleaned>>

-----------------------------------------------------------------------------
(***************************************************************************)
(* DoClean                                                                 *)
(***************************************************************************)
Idle == [step |-> "idle", todo |-> {}, group |-> {}]

CleanBegins ==
    /\ up /\ Event /\ cleaning.step = "idle"
    /\ cleaning' = [Idle EXCEPT !.step = "listed"]
    /\ UNCHANGED <<up, lists, trust, member, cleaned>>

\* get_group_list; without an answer the list is empty.
GroupList ==
    /\ cleaning.step = "listed"
    /\ \E answer \in {joined_groups, {}} :
         cleaning' = [Idle EXCEPT !.step = "ask", !.todo = answer]
    /\ UNCHANGED <<up, lists, trust, member, cleaned, happened>>

\* get_group_member_info of the next group: a reply that fails or never comes is a
\* GroupMemberInfo{}, whose last_sent_time 0 is long ago.
MemberInfo(g) ==
    /\ cleaning.step = "ask" /\ g \in cleaning.todo
    /\ \E answered \in BOOLEAN :
         cleaning' = IF answered /\ g \notin Silent
                       THEN [cleaning EXCEPT !.todo = @ \ {g}]
                       ELSE [step |-> "sleep", todo |-> cleaning.todo \ {g},
                             group |-> {g}]
    /\ UNCHANGED <<up, lists, trust, member, cleaned, happened>>

LeaveCleaned ==
    /\ cleaning.step = "sleep"
    /\ joined_groups' = joined_groups \ cleaning.group /\ cleaned' = cleaned \cup cleaning.group
    /\ cleaning' = [cleaning EXCEPT !.step = "ask", !.group = {}]
    /\ UNCHANGED <<up, lists, trust, joining, happened>>

CleanEnds ==
    /\ cleaning.step = "ask" /\ cleaning.todo = {} /\ cleaning' = Idle
    /\ UNCHANGED <<up, lists, trust, member, cleaned, happened>>

-----------------------------------------------------------------------------
ProcessEnds ==
    /\ up /\ Event /\ up' = FALSE
    /\ black_list' = {} /\ changes' = {} /\ joining' = {} /\ cleaning' = Idle
    /\ UNCHANGED <<watches, table, doubted, unread, banned, trust, joined_groups, cleaned>>

\* botmanage::Init, which the constructor of BandedOrKicked calls when the other
\* modules are registered: the users' table, then the groups'.  An exception of
\* either leaves the lists with the rows read so far, and InitModule catches it
\* before the module is registered.
LoadBlackLists ==
    \E read \in SUBSET table, whole \in BOOLEAN :
        /\ whole => read = table
        /\ read \cap ChatGroups # {} => table \cap Users \subseteq read
        /\ black_list' = read /\ unread' = table \ read /\ watches' = whole

\* The constructors before it read botmanage.yml.
Restart ==
    /\ ~up /\ up' = TRUE
    /\ LoadBlackLists /\ flags' = BotConfig
    /\ UNCHANGED <<table, changes, doubted, banned, friends, approved, member, cleaning,
                   cleaned, happened>>

ManageInit ==
    /\ up = TRUE /\ watches \in BOOLEAN /\ black_list = {} /\ table = {} /\ changes = {} /\ flags = BotConfig
    /\ friends = {} /\ approved = {} /\ joined_groups = Silent /\ joining = {}
    /\ cleaning = Idle /\ happened = 0
    /\ doubted = {} /\ unread = {} /\ banned = {} /\ cleaned = {}

ManageNext ==
    \/ \E i \in Listable : HandleBlack(i) \/ HandleWhite(i)
    \/ \E g \in ChatGroups, u \in Users : Kicked(g, u) \/ GroupInvite(g, u)
    \/ \E c \in changes : StrangerInfo(c) \/ AddToTable(c) \/ AddToList(c) \/ DelFromTable(c)
    \/ \E u \in Users : FriendInvite(u)
    \/ \E g \in ChatGroups : GroupIncrease(g) \/ LeaveForced(g) \/ Dismiss(g) \/ MemberInfo(g)
    \/ ManageFlags \/ CleanBegins \/ GroupList \/ LeaveCleaned \/ CleanEnds
    \/ ProcessEnds \/ Restart

ManageSpec == ManageInit /\ [][ManageNext]_manageVars

-----------------------------------------------------------------------------
(***************************************************************************)
(* Properties                                                              *)
(***************************************************************************)

\* The map and the table list the same users and groups once their changes have
\* ended, a crash between the two halves of a change included; only an addition and
\* a deletion that overlap, a statement that fails, or a row that was not read at the
\* start and has not been added since, separate them.
ListsAgree ==
    up => \A i \in Listable \ (doubted \cup unread) :
              ~Busy(i) => (i \in black_list <=> i \in table)

\* A user or group that has got on a list is not approved, not even by the next
\* process, before .white takes it off; unless its row was not read at the start, a
\* statement about it failed, or .black and .white overlapped.
NoTrustForTheBanned ==
    [][LET known == banned \ (doubted \cup unread)
       IN  /\ (friends' \ friends) \cap known = {}
           /\ \A p \in approved' \ approved : {p.group, p.user} \cap known = {}
      ]_manageVars

\* "自动清理过久未说话的群": the groups that are cleaned are those in which the bot
\* has not spoken for too long.
CleansOnlySilent == cleaned \subseteq Silent
=============================================================================
