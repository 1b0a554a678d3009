--------------------------- MODULE EorzeaWeather ---------------------------
(***************************************************************************)
(* The weather of Eorzea (modules/module/weather/).                        *)
(*                                                                         *)
(*   eorzean_weather.h          the forecast: pure arithmetic on the time  *)
(*   eorzean_weather_data.cpp   what it is looked up in: three tables of   *)
(*       the database and their copies in memory, which the command        *)
(*       UpdateEorzeanWeatherData replaces from four files of a site       *)
(*                                                                         *)
(* The site's data has versions: a later one knows more places, and more   *)
(* kinds of weather than an earlier one's names cover.  Every request and  *)
(* statement of an update may fail, which ends it where it is; a query may *)
(* come between any two of its steps, and nothing keeps a second update    *)
(* from beginning before the first has ended.                              *)
(*                                                                         *)
(* A start that cannot read the tables has no module Weather and so        *)
(* neither queries nor updates: it is left out, and RestartWeather is the  *)
(* first start after it that reads them.                                   *)
(***************************************************************************)
EXTENDS Integers, Sequences, FiniteSetsExt

CONSTANTS
    PlacesAt,   \* PlacesAt[v]: the places in version v of the site's files
    AliasedPlaces, \* places that somebody gave an alter_name in the table
    Dates,      \* times at which queries come
    Updaters,   \* the commands that may be at work at once
    MaxTroubles \* bound: failures and crashes

Versions == DOMAIN PlacesAt
NoNames == 0

ASSUME DatesAssumption == Dates \subseteq Nat

\* There is a first version, and a later one knows every place of an earlier one.
ASSUME VersionsAssumption ==
    /\ Len(PlacesAt) \in Nat \ {0} /\ Versions = 1 .. Len(PlacesAt)
    /\ \A v, w \in Versions : v <= w => PlacesAt[v] \subseteq PlacesAt[w]

VARIABLES
    site,           \* version of the files on the site
    places,         \* location_idx
    aliases,        \* places with an entry in alter_name_idx
    names,          \* version of weather_idx, NoNames: empty
    rates,          \* versions of which weather_rate_idx holds the rates
    stored,         \* the tables: [places, aliases, names, rates]
    updating,       \* updating[h]: where the Update of h is
    troubles,
    \* history
    together,       \* the updates at work that have had another one beside them
    broke_off,      \* the last update failed, a crash ended it, or it was not alone
    mixed,          \* the site changed while one ran
    forecast        \* answer of the query just made: [time, target, hour] in order

inMemory == <<places, aliases, names, rates>>
update == <<updating, together, broke_off, mixed>>
eorzeaVars == <<site, inMemory, stored, update, troubles, forecast>>

-----------------------------------------------------------------------------
(***************************************************************************)
(* The forecast: int arithmetic; the bits that leave 32 are lost           *)
(***************************************************************************)
Half == 65536

\* a ^ b, for a and b below Half
Xor(a, b) ==
    MapThenSumSet(LAMBDA k : IF (a \div 2^k) % 2 = (b \div 2^k) % 2 THEN 0 ELSE 2^k, 0 .. 15)

\* (base << 11) ^ base in two halves of 16 bits, then (step_1 >> 8) ^ step_1, % 100
Scramble(base) ==
    LET high == Xor((base \div 32) % Half, (base \div Half) % Half)
        low == Xor((base % 32) * 2048, base % Half)
        high2 == Xor(high \div 256, high)
        low2 == Xor((high % 256) * 256 + low \div 256, low)
    IN  ((Half % 100) * high2 + low2) % 100

ForcastTarget(date) ==
    LET bell == date \div 175
        increment == (bell + 8 - (bell % 8)) % 24
    IN  Scramble((date \div 4200) * 100 + increment)

\* Mutant: a change at midnight is taken for the one of the day that ends.
NextWeatherTime_Midnight(date, count) ==
    ((date + 1400 - (date % 1400)) % 4200) - (date % 4200) + 1400 * count

NextWeatherTime(date, count) ==
    LET increment == (date + 1400 - (date % 1400)) % 4200
        cur_time == date % 4200
    IN  (IF increment > cur_time THEN increment ELSE 4200) - cur_time + 1400 * count

GetEorzeaHour(time) == (time \div 175) % 24

\* The targets of GetEorzeanWeather: now, and at the next nine changes
Forecast(date) ==
    [i \in 0 .. 9 |->
        LET time == IF i = 0 THEN date ELSE NextWeatherTime(date, i - 1) + date
        IN  [time |-> time, target |-> ForcastTarget(date + 1400 * i),
             hour |-> GetEorzeaHour(time)]]

Forecasts == {Forecast(date) : date \in Dates}

\* CalWeather finds the place's rates, those that were loaded first, and the names of
\* their weathers; otherwise at() throws, and the user gets no answer.
Answers(p) ==
    \E v \in rates : /\ p \in PlacesAt[v] /\ v <= names
                     /\ \A w \in rates : p \in PlacesAt[w] => v <= w

GetEorzeanWeather ==
    /\ \E p \in places : Answers(p)
    /\ forecast' \in Forecasts
    /\ UNCHANGED <<site, inMemory, stored, update, troubles>>

-----------------------------------------------------------------------------
(***************************************************************************)
(* The data                                                                *)
(***************************************************************************)
AtWork == {h \in Updaters : updating[h] # "idle"}

Patch ==
    /\ site + 1 \in Versions /\ site' = site + 1
    /\ mixed' = (mixed \/ AtWork # {})
    /\ UNCHANGED <<inMemory, stored, updating, together, broke_off, troubles>>

Trouble == troubles < MaxTroubles /\ troubles' = troubles + 1

UpdateAt(h, to) == updating' = [updating EXCEPT ![h] = to]

\* h returns, having changed all tables alone (clean) or not.
UpdateEnds(h, clean) ==
    /\ UpdateAt(h, "idle") /\ together' = together \ {h}
    /\ broke_off' = ~(clean /\ h \notin together)

\* Init: everything is added to what is in memory.  It reads less than three of
\* the tables if a statement fails.
LoadTables(read) ==
    /\ names' = IF read > 0 /\ names = NoNames THEN stored.names ELSE names
    /\ rates' = IF read > 1 THEN rates \cup stored.rates ELSE rates
    /\ places' = IF read > 2 THEN places \cup stored.places ELSE places
    /\ aliases' = IF read > 2 THEN aliases \cup stored.aliases ELSE aliases

\* Update loads the tables first, again.
UpdateBegins(h) ==
    /\ updating[h] = "idle" /\ mixed' = (mixed /\ AtWork # {})
    /\ \/ /\ LoadTables(3) /\ UpdateAt(h, "weather") /\ UNCHANGED troubles
          /\ IF AtWork = {} THEN UNCHANGED <<together, broke_off>>
                             ELSE together' = AtWork \cup {h} /\ broke_off' = TRUE
       \/ \E read \in 0 .. 2 : LoadTables(read) /\ UpdateEnds(h, FALSE) /\ Trouble
    /\ UNCHANGED <<site, stored>>

\* The request for a file fails: nothing has been changed in this step yet.
UpdateFails(h) ==
    /\ updating[h] # "idle" /\ UpdateEnds(h, FALSE) /\ Trouble
    /\ UNCHANGED <<site, inMemory, stored, mixed>>

\* What a statement or the walk over weather_idx throws.  Beside another update this takes
\* no fault: rows of the two have the same key, and the vector is changed during the walk.
Throws(h) == UpdateEnds(h, FALSE) /\ (Trouble \/ (h \in together /\ UNCHANGED troubles))

\* What h leaves in a table: its rows, or, beside another update, whose TRUNCATE and rows
\* come between its own, any of the rows that there are.
Leaves(h, rows, some) == IF h \in together THEN some ELSE {rows}

\* UpdateWeather: memory, TRUNCATE, and one row after the other
UpdateWeather(h) ==
    /\ updating[h] = "weather" /\ names' = site
    /\ \/ /\ \E n \in Leaves(h, site, 0 .. site) : stored' = [stored EXCEPT !.names = n]
          /\ UpdateAt(h, "territory") /\ UNCHANGED <<troubles, together, broke_off>>
       \/ /\ \E n \in Leaves(h, NoNames, 0 .. site) : stored' = [stored EXCEPT !.names = n]
          /\ Throws(h)
    /\ UNCHANGED <<site, places, aliases, rates, mixed>>

\* UpdateTerritoryInfo: a place that is known is skipped, in the table too, which is
\* empty by then.
UpdateTerritoryInfo(h) ==
    /\ updating[h] = "territory"
    /\ \E done \in SUBSET (PlacesAt[site] \ places) :
       \E kept \in Leaves(h, done, SUBSET PlacesAt[site]) :
          /\ places' = places \cup done
          /\ stored' = [stored EXCEPT !.places = kept, !.aliases = aliases \cap kept]
          /\ \/ /\ PlacesAt[site] \subseteq places'
                /\ UpdateAt(h, "rates") /\ UNCHANGED <<troubles, together, broke_off>>
             \/ Throws(h)
    /\ UNCHANGED <<site, aliases, names, rates, mixed>>

\* Mutant: the rates are kept in memory only.
UpdateWeatherRate_Memory(h) ==
    /\ updating[h] = "rates" /\ rates' = rates \cup {site}
    /\ UpdateEnds(h, TRUE)
    /\ UNCHANGED <<site, places, aliases, names, stored, mixed, troubles>>

\* UpdateWeatherRate: the new rates are put behind the old ones.
UpdateWeatherRate(h) ==
    /\ updating[h] = "rates" /\ rates' = rates \cup {site}
    /\ \/ /\ \E r \in Leaves(h, {site}, SUBSET (1 .. site)) :
                stored' = [stored EXCEPT !.rates = r]
          /\ UpdateEnds(h, TRUE) /\ UNCHANGED troubles
       \/ /\ \E r \in Leaves(h, {}, SUBSET (1 .. site)) :
                stored' = [stored EXCEPT !.rates = r]
          /\ Throws(h)
    /\ UNCHANGED <<site, places, aliases, names, mixed>>

\* A new process: Weather's constructor calls Init.
RestartWeather ==
    /\ Trouble
    /\ places' = stored.places /\ aliases' = stored.aliases
    /\ names' = stored.names /\ rates' = stored.rates
    /\ updating' = [h \in Updaters |-> "idle"] /\ together' = {}
    /\ broke_off' = (broke_off \/ AtWork # {})
    /\ UNCHANGED <<site, stored, mixed>>

-----------------------------------------------------------------------------
\* The first process has loaded what was in the tables: nothing, or a version.
EorzeaInit ==
    /\ site = 1
    /\ stored \in {[places |-> {}, aliases |-> {}, names |-> NoNames, rates |-> {}],
                   [places |-> PlacesAt[1], aliases |-> AliasedPlaces \cap PlacesAt[1],
                    names |-> 1, rates |-> {1}]}
    /\ places = stored.places /\ aliases = stored.aliases
    /\ names = stored.names /\ rates = stored.rates
    /\ updating = [h \in Updaters |-> "idle"] /\ together = {} /\ troubles = 0
    /\ broke_off = FALSE /\ mixed = FALSE /\ forecast = <<>>

DataNext ==
    /\ \/ Patch \/ RestartWeather
       \/ \E h \in Updaters :
             \/ UpdateBegins(h) \/ UpdateFails(h)
             \/ UpdateWeather(h) \/ UpdateTerritoryInfo(h) \/ UpdateWeatherRate(h)
    /\ forecast' = <<>>

EorzeaNext == GetEorzeanWeather \/ DataNext

EorzeaSpec == EorzeaInit /\ [][EorzeaNext]_eorzeaVars

-----------------------------------------------------------------------------
(***************************************************************************)
(* Properties                                                              *)
(***************************************************************************)

\* What is foretold for a change of the weather is what a query at that time is told:
\* the forecast adds 1400 s to the date, the time is computed apart from it, and the
\* changes are those of the bells 0, 8 and 16.
ForecastComesTrue ==
    forecast # <<>> => \A i \in 1 .. 9 :
        /\ forecast[i].target = ForcastTarget(forecast[i].time)
        /\ forecast[i].hour \in {0, 8, 16}
        /\ forecast[i].time - forecast[i - 1].time \in (IF i = 1 THEN 1 ELSE 1400) .. 1400

\* Every known place has an answer, in this process and after any restart, unless
\* the last update broke off, had another one beside it or read files of two versions; the
\* next one that does none of these mends what they left.
KnownPlacesAnswer ==
    AtWork = {} /\ ~broke_off /\ ~mixed => \A p \in places : Answers(p)
=============================================================================
