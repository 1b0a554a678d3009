---------------------------- MODULE BotSetProofs ----------------------------
(***************************************************************************)
(* Proofs about BotSet, for any number of channels and walks.  The bots a  *)
(* walk has passed carry larger stamps than the one it is at, and the bots *)
(* that stayed carry smaller ones, or have been passed.                    *)
(***************************************************************************)
EXTENDS BotSet, FiniteSetTheorems, TLAPS

Added == {c \in Channels : run[c] \in {"added", "done"}}

\* A coroutine of OnRun that is not through has a live bot.
RunInv ==
    \A c \in Channels :
        /\ chan[c] = "new" => run[c] = "none"
        /\ broken = "no" /\ run[c] \in {"started", "added"} => chan[c] = "open"

\* What walks remember has been added.
AddedInv ==
    \A w \in Walks :
        /\ visited[w] \subseteq Added /\ copy[w] \subseteq Added
        /\ broken # "erase" => staying[w] \subseteq bots
        /\ at[w] # End => at[w] \in Added

Stamped == {d \in Channels : stamp[d] > 0}

\* Stamps are given once, in order.
StampInv ==
    /\ Stamped = Added
    /\ \A c \in Channels : stamp[c] <= Cardinality(Stamped)
    /\ \A c, d \in Added : stamp[c] = stamp[d] => c = d

\* What a walk has at each step.
PhaseInv ==
    \A w \in Walks :
        /\ walking[w] = "idle" => at[w] = End /\ copy[w] = {} /\ staying[w] = {}
        /\ walking[w] \in {"idle", "copy"} => visited[w] = {}
        /\ walking[w] = "copy" => w \in Copies
        /\ w \in Copies /\ walking[w] \in {"walk", "asleep"} /\ at[w] # End =>
               at[w] \in copy[w]

\* The bots a walk is through with are newer than the one it is at.
VisitInv ==
    \A w \in Walks : at[w] # End =>
        \A c \in visited[w] : stamp[c] > stamp[at[w]]

Before(w, c) == at[w] # End /\ stamp[c] <= stamp[at[w]]

\* A bot that stays is still before the walk, or the walk has dealt with it.
ReachInv ==
    \A w \in Walks, c \in Channels : c \in staying[w] =>
        /\ walking[w] = "copy" => c \in copy[w] \/ Before(w, c)
        /\ walking[w] \in {"walk", "asleep"} =>
              /\ c \in visited[w] \/ Before(w, c)
              /\ w \in Copies => c \in copy[w]

\* Unless bots close under the walks, walks hold live bots.
HeldInv ==
    "walking" \notin Closes =>
        /\ broken # "erase" =>
              /\ \A w \in Walks : at[w] # End => at[w] \in bots
              /\ \A w \in Walks : copy[w] \ visited[w] \subseteq bots
        /\ broken \notin {"iterator", "call"}

IInv ==
    /\ BotsTypeOK /\ RunInv /\ SetExact /\ AddedInv /\ StampInv /\ PhaseInv
    /\ VisitInv /\ ReachInv /\ HeldInv

LEMMA InitIInv == BotsInit => IInv
<1> SUFFICES ASSUME BotsInit
              PROVE IInv OBVIOUS
<1> USE EndAssumption, ChannelsAssumption DEF BotsInit
<1>1. BotsTypeOK BY DEF BotsTypeOK
<1>2. RunInv /\ SetExact /\ AddedInv BY DEF RunInv, SetExact, AddedInv, Added
<1>3. Stamped = {} /\ Added = {} BY DEF Stamped, Added
<1>4. StampInv BY <1>3, FS_EmptySet DEF StampInv
<1>5. PhaseInv /\ VisitInv /\ ReachInv /\ HeldInv
  BY DEF PhaseInv, VisitInv, ReachInv, HeldInv
<1> QED BY <1>1, <1>2, <1>4, <1>5 DEF IInv

\* The next of a list is older, in the list, and no older than any other that
\* is older than the present one.
LEMMA NextOfList ==
    ASSUME NEW S \in SUBSET Channels, NEW c \in Channels, NEW d \in NextOf(S, c), BotsTypeOK
    PROVE  /\ d # End => d \in S /\ stamp[d] < stamp[c]
           /\ \A e \in S : stamp[e] < stamp[c] => d # End /\ stamp[e] <= stamp[d]
BY EndAssumption DEF NextOf, FirstOf, Newest, BotsTypeOK

\* The first of a list is in it, and the newest.
LEMMA FirstOfList ==
    ASSUME NEW S \in SUBSET Channels, NEW d \in FirstOf(S), BotsTypeOK
    PROVE  /\ d # End => d \in S
           /\ \A e \in S : d # End /\ stamp[e] <= stamp[d]
BY EndAssumption DEF FirstOf, Newest, BotsTypeOK

\* A step of the copy: it takes over the bot it is at and goes to the next.
LEMMA CopyMove ==
    ASSUME BotsTypeOK, NEW w \in Walks, Copy(w), at[w] \in bots
    PROVE  \E d \in Channels \cup {End} :
               /\ at' = [at EXCEPT ![w] = d]
               /\ copy' = [copy EXCEPT ![w] = @ \cup {at[w]}]
               /\ d # End => d \in bots /\ stamp[d] < stamp[at[w]]
               /\ \A e \in bots : stamp[e] < stamp[at[w]] => d # End /\ stamp[e] <= stamp[d]
<1>1. at[w] \in Channels /\ bots \in SUBSET Channels BY DEF BotsTypeOK
<1>2. PICK d \in NextOf(bots, at[w]) : at' = [at EXCEPT ![w] = d] BY DEF Copy
<1>3. /\ d # End => d \in bots /\ stamp[d] < stamp[at[w]]
      /\ \A e \in bots : stamp[e] < stamp[at[w]] => d # End /\ stamp[e] <= stamp[d]
  BY <1>1, <1>2, NextOfList
<1>4. copy' = [copy EXCEPT ![w] = @ \cup {at[w]}] BY DEF Copy
<1> QED BY <1>1, <1>2, <1>3, <1>4

\* A step of the walk: it is through with the bot it is at and goes to the next.
LEMMA AdvanceMove ==
    ASSUME BotsTypeOK, NEW w \in Walks, Advance(w), at[w] \in Followed(w)
    PROVE  \E d \in Channels \cup {End} :
               /\ at' = [at EXCEPT ![w] = d]
               /\ visited' = [visited EXCEPT ![w] = @ \cup {at[w]}]
               /\ walking' = [walking EXCEPT ![w] = "walk"]
               /\ d # End => d \in Followed(w) /\ stamp[d] < stamp[at[w]]
               /\ \A e \in Followed(w) :
                      stamp[e] < stamp[at[w]] => d # End /\ stamp[e] <= stamp[d]
<1>1. at[w] \in Channels /\ Followed(w) \in SUBSET Channels BY DEF BotsTypeOK, Followed
<1>2. PICK d \in NextOf(Followed(w), at[w]) : at' = [at EXCEPT ![w] = d] BY DEF Advance
<1>3. /\ d # End => d \in Followed(w) /\ stamp[d] < stamp[at[w]]
      /\ \A e \in Followed(w) :
             stamp[e] < stamp[at[w]] => d # End /\ stamp[e] <= stamp[d]
  BY <1>1, <1>2, NextOfList
<1>4. /\ visited' = [visited EXCEPT ![w] = @ \cup {at[w]}]
      /\ walking' = [walking EXCEPT ![w] = "walk"]
  BY DEF Advance
<1> QED BY <1>1, <1>2, <1>3, <1>4

\* The next stamp is a number above all stamps that were given.
LEMMA StampNat ==
    /\ IsFiniteSet({d \in Channels : stamp[d] > 0})
    /\ Cardinality({d \in Channels : stamp[d] > 0}) \in Nat
BY ChannelsAssumption, FS_Subset, FS_CardinalityType

\* Every step keeps the types.
LEMMA TypeStep ==
    BotsTypeOK /\ [BotsNext]_botsVars => BotsTypeOK'
<1> SUFFICES ASSUME BotsTypeOK, [BotsNext]_botsVars
              PROVE BotsTypeOK' OBVIOUS
<1> USE EndAssumption DEF BotsTypeOK, Without, Followed
<1>1. CASE UNCHANGED botsVars BY <1>1 DEF botsVars, bot, list, walk
<1>2. ASSUME NEW c \in Channels, broken = "no", Connection(c) PROVE BotsTypeOK'
  <2>1. CASE Open(c) BY <1>2, <2>1 DEF Open, bot, list, walk
  <2>2. CASE AddBot(c) BY <1>2, <2>2, StampNat DEF AddBot, bot, list, walk
  <2>3. CASE Greet(c) BY <1>2, <2>3 DEF Greet, bot, list, walk
  <2>4. CASE Message(c) BY <1>2, <2>4 DEF Message, bot, list, walk
  <2>5. CASE UseBot(c) BY <1>2, <2>5 DEF UseBot, bot, list, walk
  <2>6. CASE Close(c) BY <1>2, <2>6 DEF Close, bot, list, walk
  <2> QED BY <1>2, <2>1, <2>2, <2>3, <2>4, <2>5, <2>6 DEF Connection
<1>3. ASSUME NEW w \in Walks, broken = "no", Walk(w) PROVE BotsTypeOK'
  <2>1. CASE Begin(w) BY <1>3, <2>1, FirstOfList DEF Begin, bot, list, walk
  <2>2. CASE Copy(w) BY <1>3, <2>2, NextOfList DEF Copy, bot, list, walk
  <2>3. CASE Copied(w) BY <1>3, <2>3, FirstOfList DEF Copied, bot, list, walk
  <2>4. CASE Call(w) BY <1>3, <2>4 DEF Call, bot, list, walk
  <2>5. CASE Advance(w) BY <1>3, <2>5, NextOfList DEF Advance, bot, list, walk
  <2>6. CASE Finish(w) BY <1>3, <2>6 DEF Finish, bot, list, walk
  <2> QED BY <1>3, <2>1, <2>2, <2>3, <2>4, <2>5, <2>6 DEF Walk
<1> QED BY <1>1, <1>2, <1>3 DEF BotsNext

\* A bot closes before OnRun is through only when that ends the behaviour.
LEMMA RunStep ==
    BotsTypeOK /\ RunInv /\ [BotsNext]_botsVars
      => RunInv'
<1> SUFFICES ASSUME BotsTypeOK, RunInv, [BotsNext]_botsVars
              PROVE RunInv' OBVIOUS
<1> USE EndAssumption DEF BotsTypeOK, RunInv
<1>1. CASE UNCHANGED botsVars BY <1>1 DEF botsVars, bot, list, walk
<1>2. ASSUME NEW c \in Channels, broken = "no", Connection(c) PROVE RunInv'
  <2>1. CASE Open(c) BY <1>2, <2>1 DEF Open, bot, list, walk
  <2>2. CASE AddBot(c) BY <1>2, <2>2 DEF AddBot, bot, list, walk
  <2>3. CASE Greet(c) BY <1>2, <2>3 DEF Greet, bot, list, walk
  <2>4. CASE Message(c) BY <1>2, <2>4 DEF Message, bot, list, walk
  <2>5. CASE UseBot(c) BY <1>2, <2>5 DEF UseBot, bot, list, walk
  <2>6. CASE Close(c) BY <1>2, <2>6 DEF Close, bot, list, walk
  <2> QED BY <1>2, <2>1, <2>2, <2>3, <2>4, <2>5, <2>6 DEF Connection
<1>3. ASSUME NEW w \in Walks, broken = "no", Walk(w) PROVE RunInv'
  <2>1. CASE Begin(w) BY <1>3, <2>1 DEF Begin, bot, list, walk
  <2>2. CASE Copy(w) BY <1>3, <2>2 DEF Copy, bot, list, walk
  <2>3. CASE Copied(w) BY <1>3, <2>3 DEF Copied, bot, list, walk
  <2>4. CASE Call(w) BY <1>3, <2>4 DEF Call, bot, list, walk
  <2>5. CASE Advance(w) BY <1>3, <2>5 DEF Advance, bot, list, walk
  <2>6. CASE Finish(w) BY <1>3, <2>6 DEF Finish, bot, list, walk
  <2> QED BY <1>3, <2>1, <2>2, <2>3, <2>4, <2>5, <2>6 DEF Walk
<1> QED BY <1>1, <1>2, <1>3 DEF BotsNext

\* OnRun and ~Bot keep the set exact.
LEMMA SetStep ==
    BotsTypeOK /\ RunInv /\ SetExact /\ [BotsNext]_botsVars
      => SetExact'
<1> SUFFICES ASSUME BotsTypeOK, RunInv, SetExact, [BotsNext]_botsVars
              PROVE SetExact' OBVIOUS
<1> USE EndAssumption DEF BotsTypeOK, RunInv, SetExact, Without
<1>1. CASE UNCHANGED botsVars BY <1>1 DEF botsVars, bot, list, walk
<1>2. ASSUME NEW c \in Channels, broken = "no", Connection(c) PROVE SetExact'
  <2>1. CASE Open(c) BY <1>2, <2>1 DEF Open, bot, list, walk
  <2>2. CASE AddBot(c) BY <1>2, <2>2 DEF AddBot, bot, list, walk
  <2>3. CASE Greet(c) BY <1>2, <2>3 DEF Greet, bot, list, walk
  <2>4. CASE Message(c) BY <1>2, <2>4 DEF Message, bot, list, walk
  <2>5. CASE UseBot(c) BY <1>2, <2>5 DEF UseBot, bot, list, walk
  <2>6. CASE Close(c) BY <1>2, <2>6 DEF Close, bot, list, walk
  <2> QED BY <1>2, <2>1, <2>2, <2>3, <2>4, <2>5, <2>6 DEF Connection
<1>3. ASSUME NEW w \in Walks, broken = "no", Walk(w) PROVE SetExact'
  <2>1. CASE Begin(w) BY <1>3, <2>1 DEF Begin, bot, list, walk
  <2>2. CASE Copy(w) BY <1>3, <2>2 DEF Copy, bot, list, walk
  <2>3. CASE Copied(w) BY <1>3, <2>3 DEF Copied, bot, list, walk
  <2>4. CASE Call(w) BY <1>3, <2>4 DEF Call, bot, list, walk
  <2>5. CASE Advance(w) BY <1>3, <2>5 DEF Advance, bot, list, walk
  <2>6. CASE Finish(w) BY <1>3, <2>6 DEF Finish, bot, list, walk
  <2> QED BY <1>3, <2>1, <2>2, <2>3, <2>4, <2>5, <2>6 DEF Walk
<1> QED BY <1>1, <1>2, <1>3 DEF BotsNext

\* Walks take their bots from the set.
LEMMA AddedStep ==
    BotsTypeOK /\ RunInv /\ SetExact /\ AddedInv /\ [BotsNext]_botsVars
      => AddedInv'
<1> SUFFICES ASSUME BotsTypeOK, RunInv, SetExact, AddedInv, [BotsNext]_botsVars
              PROVE AddedInv' OBVIOUS
<1> USE EndAssumption DEF BotsTypeOK, RunInv, SetExact, AddedInv, Added, Without, Followed
<1>1. CASE UNCHANGED botsVars BY <1>1 DEF botsVars, bot, list, walk
<1>2. ASSUME NEW c \in Channels, broken = "no", Connection(c) PROVE AddedInv'
  <2>1. CASE Open(c) BY <1>2, <2>1 DEF Open, bot, list, walk
  <2>2. CASE AddBot(c) BY <1>2, <2>2 DEF AddBot, bot, list, walk
  <2>3. CASE Greet(c) BY <1>2, <2>3 DEF Greet, bot, list, walk
  <2>4. CASE Message(c) BY <1>2, <2>4 DEF Message, bot, list, walk
  <2>5. CASE UseBot(c) BY <1>2, <2>5 DEF UseBot, bot, list, walk
  <2>6. CASE Close(c) BY <1>2, <2>6 DEF Close, bot, list, walk
  <2> QED BY <1>2, <2>1, <2>2, <2>3, <2>4, <2>5, <2>6 DEF Connection
<1>3. ASSUME NEW w \in Walks, broken = "no", Walk(w) PROVE AddedInv'
  <2>1. CASE Begin(w) BY <1>3, <2>1, FirstOfList DEF Begin, bot, list, walk
  <2>2. CASE Copy(w)
    <3>1. CASE at[w] \notin bots BY <1>3, <2>2, <3>1 DEF Copy, bot, list, walk
    <3>2. CASE at[w] \in bots
      <4>1. PICK d \in Channels \cup {End} :
               /\ at' = [at EXCEPT ![w] = d]
               /\ copy' = [copy EXCEPT ![w] = @ \cup {at[w]}]
               /\ d # End => d \in bots /\ stamp[d] < stamp[at[w]]
               /\ \A e \in bots : stamp[e] < stamp[at[w]] => d # End /\ stamp[e] <= stamp[d]
        BY <2>2, <3>2, CopyMove
      <4>2. /\ walking[w] = "copy" /\ at[w] # End
            /\ UNCHANGED <<chan, run, bots, stamp, walking, visited, staying>>
        BY <2>2, <3>2 DEF Copy, bot, list
      <4>3. at'[w] = d /\ copy'[w] = copy[w] \cup {at[w]} BY <4>1
      <4>4. \A v \in Walks \ {w} : at'[v] = at[v] /\ copy'[v] = copy[v] BY <4>1
      <4> QED BY <1>3, <3>2, <4>1, <4>2, <4>3, <4>4
    <3> QED BY <3>1, <3>2
  <2>3. CASE Copied(w) BY <1>3, <2>3, FirstOfList DEF Copied, bot, list, walk
  <2>4. CASE Call(w) BY <1>3, <2>4 DEF Call, bot, list, walk
  <2>5. CASE Advance(w)
    <3>1. CASE at[w] \notin Followed(w) BY <1>3, <2>5, <3>1 DEF Advance, bot, list, walk
    <3>2. CASE at[w] \in Followed(w)
      <4>1. PICK d \in Channels \cup {End} :
               /\ at' = [at EXCEPT ![w] = d]
               /\ visited' = [visited EXCEPT ![w] = @ \cup {at[w]}]
               /\ walking' = [walking EXCEPT ![w] = "walk"]
               /\ d # End => d \in Followed(w) /\ stamp[d] < stamp[at[w]]
               /\ \A e \in Followed(w) :
                      stamp[e] < stamp[at[w]] => d # End /\ stamp[e] <= stamp[d]
        BY <2>5, <3>2, AdvanceMove
      <4>2. /\ walking[w] \in {"walk", "asleep"} /\ at[w] # End
            /\ UNCHANGED <<chan, run, bots, stamp, copy, staying, broken>>
        BY <2>5, <3>2 DEF Advance, bot, list
      <4>3. at'[w] = d /\ visited'[w] = visited[w] \cup {at[w]} /\ walking'[w] = "walk" BY <4>1
      <4>4. \A v \in Walks \ {w} :
               at'[v] = at[v] /\ visited'[v] = visited[v] /\ walking'[v] = walking[v]
        BY <4>1
      <4> QED BY <1>3, <3>2, <4>1, <4>2, <4>3, <4>4
    <3> QED BY <3>1, <3>2
  <2>6. CASE Finish(w) BY <1>3, <2>6 DEF Finish, bot, list, walk
  <2> QED BY <1>3, <2>1, <2>2, <2>3, <2>4, <2>5, <2>6 DEF Walk
<1> QED BY <1>1, <1>2, <1>3 DEF BotsNext

\* A stamp is new, and the largest.
LEMMA StampStep ==
    BotsTypeOK /\ RunInv /\ StampInv /\ [BotsNext]_botsVars
      => StampInv'
<1> SUFFICES ASSUME BotsTypeOK, RunInv, StampInv, [BotsNext]_botsVars
              PROVE StampInv' OBVIOUS
<1>1. CASE stamp' = stamp /\ Added' = Added
  BY <1>1 DEF StampInv, Stamped
<1>2. ASSUME NEW c \in Channels, AddBot(c) PROVE StampInv'
  <2> DEFINE n == Cardinality(Stamped)
  <2>1. IsFiniteSet(Stamped) /\ n \in Nat BY StampNat DEF Stamped
  <2>2. c \notin Added /\ c \notin Stamped
    BY <1>2 DEF AddBot, Added, StampInv
  <2>3. stamp' = [stamp EXCEPT ![c] = 1 + n] BY <1>2 DEF AddBot, Stamped
  <2>4. Added' = Added \cup {c} BY <1>2 DEF AddBot, Added, BotsTypeOK
  <2>5. Stamped' = Stamped \cup {c}
    <3>1. stamp'[c] > 0 BY <2>1, <2>3 DEF BotsTypeOK
    <3>2. \A d \in Channels \ {c} : stamp'[d] = stamp[d] BY <2>3 DEF BotsTypeOK
    <3> QED BY <3>1, <3>2 DEF Stamped
  <2>6. Cardinality(Stamped') = n + 1 BY <2>1, <2>2, <2>5, FS_AddElement
  <2>7. \A d \in Channels : stamp'[d] <= Cardinality(Stamped')
    BY <2>1, <2>3, <2>6 DEF StampInv, BotsTypeOK
  <2>8. \A d \in Added : d # c /\ stamp'[d] = stamp[d] /\ stamp[d] <= n
    BY <2>2, <2>3 DEF StampInv, BotsTypeOK, Added
  <2>9. stamp'[c] = 1 + n BY <2>3 DEF BotsTypeOK
  <2>10. \A d \in Added : stamp'[d] # stamp'[c] BY <2>1, <2>8, <2>9 DEF BotsTypeOK, Added
  <2>11. \A d, e \in Added' : stamp'[d] = stamp'[e] => d = e
    BY <2>4, <2>8, <2>10 DEF StampInv
  <2> QED BY <2>4, <2>5, <2>7, <2>11 DEF StampInv
<1>3. (\E c \in Channels : AddBot(c)) \/ (stamp' = stamp /\ Added' = Added)
  BY DEF BotsNext, Connection, Walk, Open, Greet, Message, UseBot, Close, Begin, Copy,
         Copied, Call, Advance, Finish, botsVars, bot, list, walk, Added, BotsTypeOK, RunInv
<1> QED BY <1>1, <1>2, <1>3

\* A walk that copies walks the copy.
LEMMA PhaseStep ==
    BotsTypeOK /\ AddedInv /\ PhaseInv /\ [BotsNext]_botsVars => PhaseInv'
<1> SUFFICES ASSUME BotsTypeOK, AddedInv, PhaseInv, [BotsNext]_botsVars
              PROVE PhaseInv' OBVIOUS
<1> USE EndAssumption DEF BotsTypeOK, AddedInv, Added, PhaseInv, Followed
<1>1. CASE UNCHANGED botsVars BY <1>1 DEF botsVars, bot, list, walk
<1>2. ASSUME NEW c \in Channels, broken = "no", Connection(c) PROVE PhaseInv'
  <2>1. CASE Open(c) BY <1>2, <2>1 DEF Open, bot, list, walk
  <2>2. CASE AddBot(c) BY <1>2, <2>2 DEF AddBot, bot, list, walk
  <2>3. CASE Greet(c) BY <1>2, <2>3 DEF Greet, bot, list, walk
  <2>4. CASE Message(c) BY <1>2, <2>4 DEF Message, bot, list, walk
  <2>5. CASE UseBot(c) BY <1>2, <2>5 DEF UseBot, bot, list, walk
  <2>6. CASE Close(c) BY <1>2, <2>6 DEF Close, bot, list, walk
  <2> QED BY <1>2, <2>1, <2>2, <2>3, <2>4, <2>5, <2>6 DEF Connection
<1>3. ASSUME NEW w \in Walks, broken = "no", Walk(w) PROVE PhaseInv'
  <2>1. CASE Begin(w) BY <1>3, <2>1, FirstOfList DEF Begin, bot, list, walk
  <2>2. CASE Copy(w) BY <1>3, <2>2, NextOfList DEF Copy, bot, list, walk
  <2>3. CASE Copied(w) BY <1>3, <2>3, FirstOfList DEF Copied, bot, list, walk
  <2>4. CASE Call(w) BY <1>3, <2>4 DEF Call, bot, list, walk
  <2>5. CASE Advance(w) BY <1>3, <2>5, NextOfList DEF Advance, bot, list, walk
  <2>6. CASE Finish(w) BY <1>3, <2>6 DEF Finish, bot, list, walk
  <2> QED BY <1>3, <2>1, <2>2, <2>3, <2>4, <2>5, <2>6 DEF Walk
<1> QED BY <1>1, <1>2, <1>3 DEF BotsNext

\* Walks go from newer to older bots.
LEMMA VisitStep ==
    BotsTypeOK /\ RunInv /\ SetExact /\ AddedInv /\ StampInv /\ PhaseInv /\ VisitInv /\ [BotsNext]_botsVars
      => VisitInv'
<1> SUFFICES ASSUME BotsTypeOK, RunInv, SetExact, AddedInv, StampInv, PhaseInv, VisitInv, [BotsNext]_botsVars
              PROVE VisitInv' OBVIOUS
<1> USE EndAssumption DEF BotsTypeOK, RunInv, SetExact, AddedInv, Added, PhaseInv, VisitInv, Followed
<1>1. CASE UNCHANGED botsVars BY <1>1 DEF botsVars, bot, list, walk
<1>2. ASSUME NEW c \in Channels, broken = "no", Connection(c) PROVE VisitInv'
  <2>1. CASE Open(c) BY <1>2, <2>1 DEF Open, bot, list, walk
  <2>2. CASE AddBot(c) BY <1>2, <2>2 DEF AddBot, bot, list, walk
  <2>3. CASE Greet(c) BY <1>2, <2>3 DEF Greet, bot, list, walk
  <2>4. CASE Message(c) BY <1>2, <2>4 DEF Message, bot, list, walk
  <2>5. CASE UseBot(c) BY <1>2, <2>5 DEF UseBot, bot, list, walk
  <2>6. CASE Close(c) BY <1>2, <2>6 DEF Close, bot, list, walk
  <2> QED BY <1>2, <2>1, <2>2, <2>3, <2>4, <2>5, <2>6 DEF Connection
<1>3. ASSUME NEW w \in Walks, broken = "no", Walk(w) PROVE VisitInv'
  <2>1. CASE Begin(w) BY <1>3, <2>1, FirstOfList DEF Begin, bot, list, walk
  <2>2. CASE Copy(w)
    <3>1. CASE at[w] \notin bots BY <1>3, <2>2, <3>1 DEF Copy, bot, list, walk
    <3>2. CASE at[w] \in bots
      <4>1. PICK d \in Channels \cup {End} :
               /\ at' = [at EXCEPT ![w] = d]
               /\ copy' = [copy EXCEPT ![w] = @ \cup {at[w]}]
               /\ d # End => d \in bots /\ stamp[d] < stamp[at[w]]
               /\ \A e \in bots : stamp[e] < stamp[at[w]] => d # End /\ stamp[e] <= stamp[d]
        BY <2>2, <3>2, CopyMove
      <4>2. /\ walking[w] = "copy" /\ at[w] # End
            /\ UNCHANGED <<chan, run, bots, stamp, walking, visited, staying>>
        BY <2>2, <3>2 DEF Copy, bot, list
      <4>3. at'[w] = d /\ copy'[w] = copy[w] \cup {at[w]} BY <4>1
      <4>4. \A v \in Walks \ {w} : at'[v] = at[v] /\ copy'[v] = copy[v] BY <4>1
      <4> QED BY <3>2, <4>1, <4>2, <4>3, <4>4
    <3> QED BY <3>1, <3>2
  <2>3. CASE Copied(w) BY <1>3, <2>3, FirstOfList DEF Copied, bot, list, walk
  <2>4. CASE Call(w) BY <1>3, <2>4 DEF Call, bot, list, walk
  <2>5. CASE Advance(w)
    <3>1. CASE at[w] \notin Followed(w) BY <1>3, <2>5, <3>1 DEF Advance, bot, list, walk
    <3>2. CASE at[w] \in Followed(w)
      <4>1. PICK d \in Channels \cup {End} :
               /\ at' = [at EXCEPT ![w] = d]
               /\ visited' = [visited EXCEPT ![w] = @ \cup {at[w]}]
               /\ walking' = [walking EXCEPT ![w] = "walk"]
               /\ d # End => d \in Followed(w) /\ stamp[d] < stamp[at[w]]
               /\ \A e \in Followed(w) :
                      stamp[e] < stamp[at[w]] => d # End /\ stamp[e] <= stamp[d]
        BY <2>5, <3>2, AdvanceMove
      <4>2. /\ walking[w] \in {"walk", "asleep"} /\ at[w] # End
            /\ UNCHANGED <<chan, run, bots, stamp, copy, staying, broken>>
        BY <2>5, <3>2 DEF Advance, bot, list
      <4>3. at'[w] = d /\ visited'[w] = visited[w] \cup {at[w]} /\ walking'[w] = "walk" BY <4>1
      <4>4. \A v \in Walks \ {w} :
               at'[v] = at[v] /\ visited'[v] = visited[v] /\ walking'[v] = walking[v]
        BY <4>1
      <4> QED BY <3>2, <4>1, <4>2, <4>3, <4>4
    <3> QED BY <3>1, <3>2
  <2>6. CASE Finish(w) BY <1>3, <2>6 DEF Finish, bot, list, walk
  <2> QED BY <1>3, <2>1, <2>2, <2>3, <2>4, <2>5, <2>6 DEF Walk
<1> QED BY <1>1, <1>2, <1>3 DEF BotsNext

\* A walk passes no bot that stays.
LEMMA ReachStep ==
    BotsTypeOK /\ RunInv /\ SetExact /\ AddedInv /\ StampInv /\ PhaseInv /\ ReachInv /\ [BotsNext]_botsVars
      => ReachInv'
<1> SUFFICES ASSUME BotsTypeOK, RunInv, SetExact, AddedInv, StampInv, PhaseInv, ReachInv, [BotsNext]_botsVars
              PROVE ReachInv' OBVIOUS
<1> USE EndAssumption DEF BotsTypeOK, RunInv, SetExact, AddedInv, Added, PhaseInv, StampInv, ReachInv, Before, Followed, Without
<1>1. CASE UNCHANGED botsVars BY <1>1 DEF botsVars, bot, list, walk
<1>2. ASSUME NEW c \in Channels, broken = "no", Connection(c) PROVE ReachInv'
  <2>1. CASE Open(c) BY <1>2, <2>1 DEF Open, bot, list, walk
  <2>2. CASE AddBot(c) BY <1>2, <2>2 DEF AddBot, bot, list, walk
  <2>3. CASE Greet(c) BY <1>2, <2>3 DEF Greet, bot, list, walk
  <2>4. CASE Message(c) BY <1>2, <2>4 DEF Message, bot, list, walk
  <2>5. CASE UseBot(c) BY <1>2, <2>5 DEF UseBot, bot, list, walk
  <2>6. CASE Close(c) BY <1>2, <2>6 DEF Close, bot, list, walk
  <2> QED BY <1>2, <2>1, <2>2, <2>3, <2>4, <2>5, <2>6 DEF Connection
<1>3. ASSUME NEW w \in Walks, broken = "no", Walk(w) PROVE ReachInv'
  <2>1. CASE Begin(w) BY <1>3, <2>1, FirstOfList DEF Begin, bot, list, walk
  <2>2. CASE Copy(w)
    <3>1. CASE at[w] \notin bots BY <1>3, <2>2, <3>1 DEF Copy, bot, list, walk
    <3>2. CASE at[w] \in bots
      <4>1. PICK d \in Channels \cup {End} :
               /\ at' = [at EXCEPT ![w] = d]
               /\ copy' = [copy EXCEPT ![w] = @ \cup {at[w]}]
               /\ d # End => d \in bots /\ stamp[d] < stamp[at[w]]
               /\ \A e \in bots : stamp[e] < stamp[at[w]] => d # End /\ stamp[e] <= stamp[d]
        BY <2>2, <3>2, CopyMove
      <4>2. /\ walking[w] = "copy" /\ at[w] # End
            /\ UNCHANGED <<chan, run, bots, stamp, walking, visited, staying>>
        BY <2>2, <3>2 DEF Copy, bot, list
      <4>3. at'[w] = d /\ copy'[w] = copy[w] \cup {at[w]} BY <4>1
      <4>4. \A v \in Walks \ {w} : at'[v] = at[v] /\ copy'[v] = copy[v] BY <4>1
      <4> QED BY <1>3, <3>2, <4>1, <4>2, <4>3, <4>4
    <3> QED BY <3>1, <3>2
  <2>3. CASE Copied(w)
    <3>1. PICK d \in FirstOf(copy[w]) : at' = [at EXCEPT ![w] = d] BY <2>3 DEF Copied
    <3>2. /\ d # End => d \in copy[w]
          /\ \A e \in copy[w] : d # End /\ stamp[e] <= stamp[d]
      BY <3>1, FirstOfList
    <3>3. /\ walking[w] = "copy" /\ at[w] = End
          /\ walking' = [walking EXCEPT ![w] = "walk"]
          /\ UNCHANGED <<stamp, copy, visited, staying>>
      BY <2>3 DEF Copied, list
    <3>4. \A c \in Channels : c \in staying[w] => c \in copy[w] BY <3>3
    <3> QED BY <3>1, <3>2, <3>3, <3>4
  <2>4. CASE Call(w) BY <1>3, <2>4 DEF Call, bot, list, walk
  <2>5. CASE Advance(w)
    <3>1. CASE at[w] \notin Followed(w) BY <1>3, <2>5, <3>1 DEF Advance, bot, list, walk
    <3>2. CASE at[w] \in Followed(w)
      <4>1. PICK d \in Channels \cup {End} :
               /\ at' = [at EXCEPT ![w] = d]
               /\ visited' = [visited EXCEPT ![w] = @ \cup {at[w]}]
               /\ walking' = [walking EXCEPT ![w] = "walk"]
               /\ d # End => d \in Followed(w) /\ stamp[d] < stamp[at[w]]
               /\ \A e \in Followed(w) :
                      stamp[e] < stamp[at[w]] => d # End /\ stamp[e] <= stamp[d]
        BY <2>5, <3>2, AdvanceMove
      <4>2. /\ walking[w] \in {"walk", "asleep"} /\ at[w] # End
            /\ UNCHANGED <<chan, run, bots, stamp, copy, staying, broken>>
        BY <2>5, <3>2 DEF Advance, bot, list
      <4>3. at'[w] = d /\ visited'[w] = visited[w] \cup {at[w]} /\ walking'[w] = "walk" BY <4>1
      <4>4. \A v \in Walks \ {w} :
               at'[v] = at[v] /\ visited'[v] = visited[v] /\ walking'[v] = walking[v]
        BY <4>1
      <4>5. \A v \in Walks \ {w}, c \in Channels : c \in staying'[v] =>
               /\ walking'[v] = "copy" => c \in copy'[v] \/ Before(v, c)'
               /\ walking'[v] \in {"walk", "asleep"} =>
                     /\ c \in visited'[v] \/ Before(v, c)'
                     /\ v \in Copies => c \in copy'[v]
        BY <4>2, <4>4
      <4>6. ASSUME NEW c \in Channels, c \in staying[w]
            PROVE  c \in visited'[w] \/ (d # End /\ stamp[c] <= stamp[d])
        <5>1. c \in Followed(w) /\ (c \in visited[w] \/ stamp[c] <= stamp[at[w]])
          BY <1>3, <4>2, <4>6
        <5>2. CASE c \in visited[w] BY <5>2, <4>3
        <5>3. CASE c \notin visited[w] /\ stamp[c] = stamp[at[w]]
          BY <1>3, <5>1, <5>3, <4>2, <4>3
        <5>4. CASE c \notin visited[w] /\ stamp[c] # stamp[at[w]]
          <6>1. stamp[c] \in Nat /\ stamp[at[w]] \in Nat BY <4>2
          <6> QED BY <1>3, <5>1, <5>4, <6>1, <4>1
        <5> QED BY <5>2, <5>3, <5>4
      <4>7. \A c \in Channels : c \in staying[w] => (w \in Copies => c \in copy[w]) BY <4>2
      <4> QED BY <4>2, <4>3, <4>5, <4>6, <4>7
    <3> QED BY <3>1, <3>2
  <2>6. CASE Finish(w) BY <1>3, <2>6 DEF Finish, bot, list, walk
  <2> QED BY <1>3, <2>1, <2>2, <2>3, <2>4, <2>5, <2>6 DEF Walk
<1> QED BY <1>1, <1>2, <1>3 DEF BotsNext

\* No bot closes that a walk holds, unless that is admitted.
LEMMA HeldStep ==
    BotsTypeOK /\ RunInv /\ SetExact /\ AddedInv /\ StampInv /\ PhaseInv /\ VisitInv /\ HeldInv /\ [BotsNext]_botsVars
      => HeldInv'
<1> SUFFICES ASSUME BotsTypeOK, RunInv, SetExact, AddedInv, StampInv, PhaseInv, VisitInv, HeldInv, [BotsNext]_botsVars
              PROVE HeldInv' OBVIOUS
<1> USE EndAssumption DEF BotsTypeOK, RunInv, SetExact, AddedInv, Added, PhaseInv, VisitInv, HeldInv, Followed, Without, Held
<1>1. CASE UNCHANGED botsVars BY <1>1 DEF botsVars, bot, list, walk
<1>2. ASSUME NEW c \in Channels, broken = "no", Connection(c) PROVE HeldInv'
  <2>1. CASE Open(c) BY <1>2, <2>1 DEF Open, bot, list, walk
  <2>2. CASE AddBot(c) BY <1>2, <2>2 DEF AddBot, bot, list, walk
  <2>3. CASE Greet(c) BY <1>2, <2>3 DEF Greet, bot, list, walk
  <2>4. CASE Message(c) BY <1>2, <2>4 DEF Message, bot, list, walk
  <2>5. CASE UseBot(c) BY <1>2, <2>5 DEF UseBot, bot, list, walk
  <2>6. CASE Close(c) BY <1>2, <2>6 DEF Close, bot, list, walk
  <2> QED BY <1>2, <2>1, <2>2, <2>3, <2>4, <2>5, <2>6 DEF Connection
<1>3. ASSUME NEW w \in Walks, broken = "no", Walk(w) PROVE HeldInv'
  <2>1. CASE Begin(w) BY <1>3, <2>1, FirstOfList DEF Begin, bot, list, walk
  <2>2. CASE Copy(w)
    <3>1. CASE at[w] \notin bots BY <1>3, <2>2, <3>1 DEF Copy, bot, list, walk
    <3>2. CASE at[w] \in bots
      <4>1. PICK d \in Channels \cup {End} :
               /\ at' = [at EXCEPT ![w] = d]
               /\ copy' = [copy EXCEPT ![w] = @ \cup {at[w]}]
               /\ d # End => d \in bots /\ stamp[d] < stamp[at[w]]
               /\ \A e \in bots : stamp[e] < stamp[at[w]] => d # End /\ stamp[e] <= stamp[d]
        BY <2>2, <3>2, CopyMove
      <4>2. /\ walking[w] = "copy" /\ at[w] # End
            /\ UNCHANGED <<bots, visited, broken>>
        BY <2>2, <3>2 DEF Copy, bot, list
      <4>3. at'[w] = d /\ copy'[w] = copy[w] \cup {at[w]} BY <4>1
      <4>4. \A v \in Walks \ {w} : at'[v] = at[v] /\ copy'[v] = copy[v] BY <4>1
      <4> SUFFICES ASSUME "walking" \notin Closes
                   PROVE  /\ \A v \in Walks : at'[v] # End => at'[v] \in bots
                          /\ \A v \in Walks : copy'[v] \ visited[v] \subseteq bots
        BY <1>3, <4>2
      <4>5. at'[w] # End => at'[w] \in bots BY <4>1, <4>3
      <4>6. copy'[w] \ visited[w] \subseteq bots BY <1>3, <3>2, <4>3
      <4>7. \A v \in Walks \ {w} :
               /\ at'[v] # End => at'[v] \in bots
               /\ copy'[v] \ visited[v] \subseteq bots
        BY <1>3, <4>4
      <4> QED BY <4>5, <4>6, <4>7
    <3> QED BY <3>1, <3>2
  <2>3. CASE Copied(w) BY <1>3, <2>3, FirstOfList DEF Copied, bot, list, walk
  <2>4. CASE Call(w) BY <1>3, <2>4 DEF Call, bot, list, walk
  <2>5. CASE Advance(w)
    <3>1. CASE at[w] \notin Followed(w) BY <1>3, <2>5, <3>1 DEF Advance, bot, list, walk
    <3>2. CASE at[w] \in Followed(w)
      <4>1. PICK d \in Channels \cup {End} :
               /\ at' = [at EXCEPT ![w] = d]
               /\ visited' = [visited EXCEPT ![w] = @ \cup {at[w]}]
               /\ walking' = [walking EXCEPT ![w] = "walk"]
               /\ d # End => d \in Followed(w) /\ stamp[d] < stamp[at[w]]
               /\ \A e \in Followed(w) :
                      stamp[e] < stamp[at[w]] => d # End /\ stamp[e] <= stamp[d]
        BY <2>5, <3>2, AdvanceMove
      <4>2. /\ walking[w] \in {"walk", "asleep"} /\ at[w] # End
            /\ UNCHANGED <<chan, run, bots, stamp, copy, staying, broken>>
        BY <2>5, <3>2 DEF Advance, bot, list
      <4>3. at'[w] = d /\ visited'[w] = visited[w] \cup {at[w]} /\ walking'[w] = "walk" BY <4>1
      <4>4. \A v \in Walks \ {w} :
               at'[v] = at[v] /\ visited'[v] = visited[v] /\ walking'[v] = walking[v]
        BY <4>1
      <4> QED BY <3>2, <4>1, <4>2, <4>3, <4>4
    <3> QED BY <3>1, <3>2
  <2>6. CASE Finish(w) BY <1>3, <2>6 DEF Finish, bot, list, walk
  <2> QED BY <1>3, <2>1, <2>2, <2>3, <2>4, <2>5, <2>6 DEF Walk
<1> QED BY <1>1, <1>2, <1>3 DEF BotsNext

LEMMA NextIInv == IInv /\ [BotsNext]_botsVars => IInv'
BY TypeStep, RunStep, SetStep, AddedStep, StampStep, PhaseStep, VisitStep, ReachStep,
   HeldStep DEF IInv

\* The invariant of BotSet holds in every reachable state.
THEOREM Invariance == BotsSpec => []IInv
BY InitIInv, NextIInv, PTL DEF BotsSpec

\* Every variable of BotSet keeps its type.
THEOREM TypeCorrect == BotsSpec => []BotsTypeOK
<1>1. IInv => BotsTypeOK BY DEF IInv
<1> QED BY <1>1, Invariance, PTL

\* The set holds the bots that live and have been added, until a bot is destroyed
\* before its OnRun is through (OnRun, ~Bot).
THEOREM SetExactHolds == BotsSpec => []SetExact
<1>1. IInv => SetExact BY DEF IInv
<1> QED BY <1>1, Invariance, PTL

\* A walk of SayMorning or WeiboPuller is at every bot that stays, at none twice.
THEOREM EveryBotReachedHolds == BotsSpec => []EveryBotReached
<1>1. IInv => EveryBotReached
  BY EndAssumption DEF IInv, EveryBotReached, ReachInv, VisitInv, Before, AddedInv, Added,
     BotsTypeOK, SetExact
<1> QED BY <1>1, Invariance, PTL

\* A walk follows no dangling pointer as long as no bot closes that it holds.
THEOREM WalksUnharmedHolds == BotsSpec => []WalksUnharmed
<1>1. IInv => WalksUnharmed BY DEF IInv, HeldInv, WalksUnharmed
<1> QED BY <1>1, Invariance, PTL
=============================================================================
