----------------------------- MODULE MCModules -----------------------------
(***************************************************************************)
(* Bounds for TLC of the bot's services, of the set of bots, and of the    *)
(* modules with a state of their own.  They share no state and none waits  *)
(* for another, so a behaviour follows one part, which is chosen at the    *)
(* start, and the others stay where they start: an interleaving of two     *)
(* parts would show nothing that one of them does not.                     *)
(***************************************************************************)
EXTENDS Service, BotSet, MCDispatch, MCBotManage, MCWeibo, EorzeaWeather, MCCronTask,
        WeatherSearch, Bilibili, Zhanbu, Feedback, MCCsv, TLC

-----------------------------------------------------------------------------
\* Service: a service that group administrators may switch, one of the same module and
\* one of another module that are always on.
CONSTANTS s1, s2, s3, m1, m2

Levels == (s1 :> 4) @@ (s2 :> 8) @@ (s3 :> 8)
Modules == (s1 :> m1) @@ (s2 :> m1) @@ (s3 :> m2)

-----------------------------------------------------------------------------
\* BotSet: what comes before a bot enters the list is the same for all, so they are
\* numbered in the order in which they enter it.
CONSTANTS c1, c2, c3

Entering == <<c1, c2, c3>>
BotsInOrder ==
    BotsNext /\ \A i \in 1 .. 2 : stamp'[Entering[i]] = 0 => stamp'[Entering[i + 1]] = 0

-----------------------------------------------------------------------------
\* EorzeaWeather: a patch brings a new place; dates at both ends of a change of the
\* weather, of the first day and of one of the year 2023; two updates at once.
TwoVersions == <<{"limsa"}, {"limsa", "kugane"}>>
\* A forecast depends on the date alone, so queries come before the first patch
\* and trouble, and while nothing is updated.
BeforeTrouble == AtWork = {} /\ troubles = 0 /\ site = 1
QueriedEorzea == (BeforeTrouble /\ GetEorzeanWeather) \/ DataNext

SomeDates == {4200 * d + o : d \in {1, 404761}, o \in {0, 1399, 1400, 4199}}

-----------------------------------------------------------------------------
\* WeatherSearch: names with several places, one, and a place of Eorzea.
PlacesOf ==
    [osaka |-> <<"osaka", "osaka hill">>, york |-> <<"york">>, limsa |-> <<>>]

\* Bilibili: a page with two names, a live room, and a short link to the page.
ShortLinks == [short |-> "bv1"]
PagesOf == [av1 |-> "bv1", bv1 |-> "bv1", room |-> "room"]
KindsOf == [av1 |-> "page", bv1 |-> "page", room |-> "live"]
LinkMessages == {{"short"}, {"av1", "room"}}

-----------------------------------------------------------------------------
VARIABLE part

Parts == {"services", "bots", "dispatch", "manage", "weibo", "eorzea", "cron", "search",
          "bilibili", "zhanbu", "feedback", "csv"}

\* Where several starts are possible, a part that is not followed has one.
ModulesInit ==
    /\ part \in Parts
    /\ \/ part = "cron"
       \/ /\ part # "cron"
          /\ expression = Daily /\ now = Instant(2023, 4, 30, 8, 7, 59)
    /\ CronInit
    /\ part = "csv" \/ (part # "csv" /\ written = <<>> /\ style = Plainest)
    /\ CsvInit
    /\ Init /\ BotsInit /\ DispatchInit /\ ManageInit /\ (part # "manage" => watches)
    /\ WeiboInit /\ SearchInit
    /\ BiliInit /\ FeedbackInit
    /\ EorzeaInit /\ (part # "eorzea" => stored.places = {})
    /\ ZhanbuInit /\ (part # "zhanbu" => clock = 1)

core == <<vars, botsVars, dispatchVars, manageVars>>
sites == <<weiboVars, eorzeaVars, biliVars, searchVars>>
rest_of_modules == <<cronVars, zhanbuVars, feedbackVars, csvVars>>

Core ==
    \/ part = "services" /\ Next /\ UNCHANGED <<botsVars, dispatchVars, manageVars>>
    \/ part = "bots" /\ BotsInOrder /\ UNCHANGED <<vars, dispatchVars, manageVars>>
    \/ part = "dispatch" /\ DispatchNext /\ UNCHANGED <<vars, botsVars, manageVars>>
    \/ part = "manage" /\ ManageNext /\ UNCHANGED <<vars, botsVars, dispatchVars>>

Sites ==
    \/ part = "weibo" /\ WeiboNext /\ UNCHANGED <<eorzeaVars, biliVars, searchVars>>
    \/ part = "eorzea" /\ QueriedEorzea /\ UNCHANGED <<weiboVars, biliVars, searchVars>>
    \/ part = "bilibili" /\ BiliNext /\ UNCHANGED <<weiboVars, eorzeaVars, searchVars>>
    \/ part = "search" /\ SearchNext /\ UNCHANGED <<weiboVars, eorzeaVars, biliVars>>

RestOfModules ==
    \/ part = "cron" /\ CronNext /\ UNCHANGED <<zhanbuVars, feedbackVars, csvVars>>
    \/ part = "zhanbu" /\ ZhanbuNext /\ UNCHANGED <<cronVars, feedbackVars, csvVars>>
    \/ part = "feedback" /\ FeedbackNext /\ UNCHANGED <<cronVars, zhanbuVars, csvVars>>
    \/ part = "csv" /\ CsvNext /\ UNCHANGED <<cronVars, zhanbuVars, feedbackVars>>

ModulesNext ==
    /\ UNCHANGED part
    /\ \/ Core /\ UNCHANGED <<sites, rest_of_modules>>
       \/ Sites /\ UNCHANGED <<core, rest_of_modules>>
       \/ RestOfModules /\ UNCHANGED <<core, sites>>

ModulesSpec ==
    ModulesInit /\ [][ModulesNext]_<<part, core, sites, rest_of_modules>>

\* Two coroutines handle the commands of each part, and nothing tells them apart.
Symmetric == Permutations(Handlers)
=============================================================================
