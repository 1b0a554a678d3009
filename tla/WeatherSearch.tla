--------------------------- MODULE WeatherSearch ---------------------------
(***************************************************************************)
(* The dialogue about the weather (modules/module/weather/weather.h): a    *)
(* user searches a city, is shown the places of that name with numbers,    *)
(* and then asks for the weather of a number.                              *)
(*                                                                         *)
(* Every message runs in a coroutine of its own.  A search forgets the     *)
(* user's list at its start and is suspended for the name and for the      *)
(* answer of the service before it writes the new one; requests for the    *)
(* weather of a number come in between.                                    *)
(***************************************************************************)
EXTENDS Integers, Sequences, FiniteSets

CONSTANTS
    Speakers,    \* keys: a group and a user, or a user alone
    Searches,    \* coroutines that run SetLocation
    Eorzean,     \* names that GetEorzeanWeather knows
    Places,      \* Places[name]: what the service finds for a name, in order
    MaxSearches  \* bound: searches begun

ASSUME PlacesAssumption ==
    \A n \in DOMAIN Places : Places[n] \in Seq({Places[n][i] : i \in DOMAIN Places[n]})

VARIABLES
    locations, \* gid_uid_locationid_: key -> list, a key without entry has <<>>
    stage,     \* where a search is: "idle", "named", "waiting", "asking"
    key, name, \* the search's key and, once it is known, its city
    searches,
    \* history
    shown,     \* the list the key was last shown; <<>> from the start of a search
    disturbed, \* keys with two searches at once since a list was shown
    told       \* what the last request was told: [key, index, place]

searching == <<stage, key, name, searches>>
searchVars == <<locations, searching, shown, disturbed, told>>

Nobody == [key |-> "none", index |-> 0, place |-> "none"]
NoName == "none"

Running(k) == {s \in Searches : stage[s] # "idle" /\ key[s] = k}
Stay(s, to) == stage' = [stage EXCEPT ![s] = to]
NoChange == UNCHANGED <<locations, shown, disturbed>> /\ told' = Nobody

-----------------------------------------------------------------------------
(***************************************************************************)
(* SetLocation                                                             *)
(***************************************************************************)
\* Mutant: the old list is kept.
SetLocation_Keeps(s, k) ==
    /\ stage[s] = "idle" /\ searches < MaxSearches /\ searches' = searches + 1
    /\ key' = [key EXCEPT ![s] = k]
    /\ \/ Stay(s, "waiting") /\ UNCHANGED name
       \/ Stay(s, "named") /\ \E n \in DOMAIN Places : name' = [name EXCEPT ![s] = n]
    /\ shown' = [shown EXCEPT ![k] = <<>>]
    /\ disturbed' = IF Running(k) = {} THEN disturbed \ {k} ELSE disturbed \cup {k}
    /\ told' = Nobody /\ UNCHANGED locations

\* The command comes with a name or without one.
SetLocation(s, k) ==
    /\ stage[s] = "idle" /\ searches < MaxSearches /\ searches' = searches + 1
    /\ key' = [key EXCEPT ![s] = k]
    /\ locations' = [locations EXCEPT ![k] = <<>>]
    /\ \/ Stay(s, "waiting") /\ UNCHANGED name
       \/ Stay(s, "named") /\ \E n \in DOMAIN Places : name' = [name EXCEPT ![s] = n]
    /\ shown' = [shown EXCEPT ![k] = <<>>]
    /\ disturbed' = IF Running(k) = {} THEN disturbed \ {k} ELSE disturbed \cup {k}
    /\ told' = Nobody

\* WaitForNextMessage returns the name, or nothing after its time.
NameArrives(s) ==
    /\ stage[s] = "waiting" /\ UNCHANGED <<key, searches>> /\ NoChange
    /\ \/ Stay(s, "idle") /\ UNCHANGED name
       \/ Stay(s, "named") /\ \E n \in DOMAIN Places : name' = [name EXCEPT ![s] = n]

\* The weather of Eorzea is told at once; otherwise the service is asked.
AskService(s) ==
    /\ stage[s] = "named" /\ UNCHANGED <<key, name, searches>> /\ NoChange
    /\ Stay(s, IF name[s] \in Eorzean THEN "idle" ELSE "asking")

\* The places are put behind what the list holds by now; the picture numbers them from
\* 0.  No place and a failed request are one case: the user is told so.
PlacesArrive(s) ==
    LET k == key[s]
    IN  /\ stage[s] = "asking" /\ Stay(s, "idle")
        /\ UNCHANGED <<key, name, searches>> /\ told' = Nobody
        /\ \/ Places[name[s]] # <<>>
              /\ locations' = [locations EXCEPT ![k] = @ \o Places[name[s]]]
              /\ shown' = [shown EXCEPT ![k] = Places[name[s]]]
              /\ UNCHANGED disturbed
           \/ UNCHANGED <<locations, shown, disturbed>>

-----------------------------------------------------------------------------
\* RealTimeWeather, TodayWeather and WeatherShortDesc find their place alike: no list,
\* no answer; a number behind the end is 0.  They are suspended only after that.
Chosen(k, i) == locations[k][IF i >= Len(locations[k]) THEN 1 ELSE i + 1]

RealTimeWeather(k, i) ==
    /\ locations[k] # <<>>
    /\ told' = [key |-> k, index |-> i, place |-> Chosen(k, i)]
    /\ UNCHANGED <<locations, searching, shown, disturbed>>

SearchInit ==
    /\ locations = [k \in Speakers |-> <<>>]
    /\ stage = [s \in Searches |-> "idle"]
    /\ key = [s \in Searches |-> NoName] /\ name = key
    /\ searches = 0 /\ shown = locations /\ disturbed = {} /\ told = Nobody

SearchNext ==
    \/ \E s \in Searches, k \in Speakers : SetLocation(s, k)
    \/ \E s \in Searches : NameArrives(s) \/ AskService(s) \/ PlacesArrive(s)
    \/ \E k \in Speakers, i \in 0 .. 2 : RealTimeWeather(k, i)

SearchSpec == SearchInit /\ [][SearchNext]_searchVars

-----------------------------------------------------------------------------
(***************************************************************************)
(* Properties                                                              *)
(***************************************************************************)

\* The number a user sends means the place that bears it in the picture he was last
\* shown, and 0 if there is no such number, unless searches of his overlapped; while a
\* new search runs, and after one that found nothing, nothing of an older one is told.
NumbersMeanWhatWasShown ==
    LET list == shown[told.key]
    IN  told # Nobody /\ told.key \notin disturbed
        => list # <<>> /\ told.place = list[IF told.index < Len(list) THEN told.index + 1 ELSE 1]
=============================================================================
