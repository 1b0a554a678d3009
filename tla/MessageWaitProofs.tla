-------------------------- MODULE MessageWaitProofs --------------------------
(***************************************************************************)
(* MessageWait for any groups, users, waiters and messages: a message goes *)
(* to one waiter and a waiter gets one message on any number of threads; a *)
(* waiter that is alone in its group is found; and on one thread nothing   *)
(* throws.                                                                 *)
(***************************************************************************)
EXTENDS MessageWait, TLAPS

In(w, q) == \E i \in DOMAIN q : q[i] = w
Distinct(q) == \A i, j \in DOMAIN q : q[i] = q[j] => i = j
Started(a) == stage[a] # "new"

\* The steps of a message between the lock and the unlock of its channel.
Holding == {"feed", "pop", "popped", "erase_user", "look", "erase_group"}

\* What the channel, the phase and the promise of a message may be at each step.
ShapeInv ==
    /\ stage \in [Actors -> WaiterSteps \cup MessageSteps]
    /\ Anywhere \in groups
    /\ \A w \in Waiters : Started(w) => channel[w] \in Channels
    /\ \A m \in Messages : IF Started(m) THEN channel[m] \in Groups \X Users
                                         ELSE m \notin personal
    /\ \A m \in Messages : stage[m] \in {"look", "erase_group"} => m \notin personal
    /\ \A m \in Messages : stage[m] \in {"pop", "popped"} => popped[m] \in Waiters

Typed == WaitTypeOK /\ ShapeInv

-----------------------------------------------------------------------------
\* Elements of a sequence that grows at its end and shrinks at its front.
LEMMA AppendIn ==
    ASSUME NEW S, NEW q \in Seq(S), NEW x \in S
    PROVE  /\ Append(q, x) \in Seq(S)
           /\ \A w : In(w, Append(q, x)) <=> In(w, q) \/ w = x
           /\ Distinct(q) /\ ~In(x, q) => Distinct(Append(q, x))
<1>1. /\ DOMAIN Append(q, x) = 1 .. Len(q) + 1 /\ DOMAIN q = 1 .. Len(q) /\ Len(q) \in Nat
      /\ \A i \in 1 .. Len(q) : Append(q, x)[i] = q[i]
      /\ Append(q, x)[Len(q) + 1] = x
  OBVIOUS
<1> QED BY <1>1 DEF In, Distinct

LEMMA TailIn ==
    ASSUME NEW S, NEW q \in Seq(S), q # <<>>
    PROVE  /\ Head(q) \in S /\ Tail(q) \in Seq(S) /\ In(Head(q), q)
           /\ \A w : In(w, q) <=> w = Head(q) \/ In(w, Tail(q))
           /\ Distinct(q) => Distinct(Tail(q)) /\ ~In(Head(q), Tail(q))
<1>1. /\ DOMAIN Tail(q) = 1 .. Len(q) - 1 /\ DOMAIN q = 1 .. Len(q)
      /\ Len(q) \in Nat /\ Len(q) >= 1
      /\ \A i \in 1 .. Len(q) - 1 : Tail(q)[i] = q[i + 1]
      /\ Head(q) = q[1]
  OBVIOUS
<1>2. \A w : In(w, q) => w = Head(q) \/ In(w, Tail(q))
  <2> SUFFICES ASSUME NEW w, NEW i \in 1 .. Len(q), q[i] = w, i # 1 PROVE In(w, Tail(q))
    BY <1>1 DEF In
  <2>1. i - 1 \in 1 .. Len(q) - 1 /\ Tail(q)[i - 1] = w BY <1>1
  <2> QED BY <1>1, <2>1 DEF In
<1>3. \A w : w = Head(q) \/ In(w, Tail(q)) => In(w, q) BY <1>1 DEF In
<1>4. Distinct(q) => Distinct(Tail(q)) /\ ~In(Head(q), Tail(q)) BY <1>1 DEF In, Distinct
<1> QED BY <1>1, <1>2, <1>3, <1>4

LEMMA EmptyIn == Distinct(<<>>) /\ \A w : ~In(w, <<>>)
BY DEF In, Distinct

-----------------------------------------------------------------------------
\* A waiter is never passed on to FeedMessageTo.
LEMMA WaiterHome ==
    Typed => \A w \in Waiters : w \notin personal /\ Home(w) = channel[w][1]
BY ActorAssumption DEF Typed, WaitTypeOK, Home

LEMMA Places ==
    Typed => /\ \A w \in Waiters : Started(w) =>
                   /\ Place(w) = channel[w] /\ Place(w) \in Channels
                   /\ Home(w) \in Homes /\ Author(w) \in Users
             /\ \A m \in Messages : Started(m) =>
                   /\ Place(m) \in Channels /\ Home(m) \in Homes /\ Author(m) \in Users
                   /\ m \in personal => Home(m) = Anywhere
                   /\ m \notin personal => Home(m) = channel[m][1] /\ Home(m) \in Groups
                   /\ channel[m][1] # Anywhere
<1> SUFFICES ASSUME Typed
             PROVE  /\ \A w \in Waiters : Started(w) =>
                          /\ Place(w) = channel[w] /\ Place(w) \in Channels
                          /\ Home(w) \in Homes /\ Author(w) \in Users
                    /\ \A m \in Messages : Started(m) =>
                          /\ Place(m) \in Channels /\ Home(m) \in Homes /\ Author(m) \in Users
                          /\ m \in personal => Home(m) = Anywhere
                          /\ m \notin personal => Home(m) = channel[m][1] /\ Home(m) \in Groups
                          /\ channel[m][1] # Anywhere
  OBVIOUS
<1>1. ASSUME NEW w \in Waiters, Started(w)
      PROVE  /\ Place(w) = channel[w] /\ Place(w) \in Channels
             /\ Home(w) \in Homes /\ Author(w) \in Users
  BY <1>1, WaiterHome DEF Typed, ShapeInv, Place, Author, Channels
<1>2. ASSUME NEW m \in Messages, Started(m)
      PROVE  /\ Place(m) \in Channels /\ Home(m) \in Homes /\ Author(m) \in Users
             /\ m \in personal => Home(m) = Anywhere
             /\ m \notin personal => Home(m) = channel[m][1] /\ Home(m) \in Groups
             /\ channel[m][1] # Anywhere
  BY <1>2, ChannelAssumption DEF Typed, ShapeInv, Place, Home, Author, Channels, Homes
<1> QED BY <1>1, <1>2

LEMMA InitTyped == WaitInit => Typed
<1> SUFFICES ASSUME WaitInit PROVE Typed OBVIOUS
<1>1. WaitTypeOK
  <2>1. /\ promises \in [Channels -> Seq(Waiters)]
        /\ mutex \in [Channels -> Actors \cup {Nobody}]
        /\ users \in [Homes -> SUBSET Users]
    BY DEF WaitInit
  <2>2. /\ channel \in [Actors -> Channels \cup {Nobody}]
        /\ popped \in [Messages -> Waiters \cup {Nobody}]
        /\ got \in [Waiters -> Messages \cup {Nobody}]
        /\ given \subseteq Messages \X Waiters
    BY DEF WaitInit
  <2>3. \A a \in Actors : stage[a] = "new" BY DEF WaitInit
  <2> QED BY <2>1, <2>2, <2>3 DEF WaitInit, WaitTypeOK, Actors, Homes, WaiterSteps,
     MessageSteps
<1>2. ShapeInv
  BY ActorAssumption DEF WaitInit, ShapeInv, Started, Actors, WaiterSteps, MessageSteps
<1> QED BY <1>1, <1>2 DEF Typed

\* A step that only moves one actor on.
LEMMA StageStep ==
    ASSUME Typed, NEW a \in Actors, NEW to, Go(a, to)
    PROVE  stage'[a] = to /\ \A b \in Actors : b # a => stage'[b] = stage[b]
BY DEF Typed, ShapeInv, Go

LEMMA LeaveStep ==
    ASSUME Typed, NEW m \in Messages, Leave(m)
    PROVE  /\ Go(m, IF m \in personal THEN "over" ELSE "second")
           /\ stage'[m] = (IF m \in personal THEN "over" ELSE "second")
           /\ \A b \in Actors : b # m => stage'[b] = stage[b]
<1>1. Go(m, IF m \in personal THEN "over" ELSE "second") BY DEF Leave
<1> QED BY <1>1, StageStep DEF Actors

\* Moving a message on keeps the types when the other variables keep theirs.
LEMMA StageTypes ==
    ASSUME Typed, NEW a \in Actors, NEW to,
           to \in IF a \in Waiters THEN WaiterSteps ELSE MessageSteps,
           Go(a, to)
    PROVE  /\ stage' \in [Actors -> WaiterSteps \cup MessageSteps]
           /\ \A w \in Waiters : stage'[w] \in WaiterSteps
           /\ \A m \in Messages : stage'[m] \in MessageSteps
<1>1. /\ stage' = [stage EXCEPT ![a] = to]
      /\ \A b \in Actors : b # a => stage'[b] = stage[b]
      /\ stage'[a] = to
  BY StageStep DEF Go
<1> QED BY <1>1, ActorAssumption DEF Typed, WaitTypeOK, ShapeInv, Actors

\* The message m moves on to the step "to", and what it changes keeps its type.
MovesOn(m, to) ==
    /\ Started(m) /\ Go(m, to) /\ to \in MessageSteps \ {"new"}
    /\ to \in {"look", "erase_group"} => m \notin personal
    /\ to \in {"pop", "popped"} => popped'[m] \in Waiters
    /\ groups' = groups /\ users' \in [Homes -> SUBSET Users]
    /\ promises' \in [Channels -> Seq(Waiters)]
    /\ mutex' \in [Channels -> Actors \cup {Nobody}]
    /\ popped' \in [Messages -> Waiters \cup {Nobody}]
    /\ \A n \in Messages : n # m => popped'[n] = popped[n]
    /\ got' \in [Waiters -> Messages \cup {Nobody}]
    /\ given' \subseteq Messages \X Waiters
    /\ UNCHANGED <<parallel, channel, personal, terminated>>

LEMMA MoveTypes ==
    ASSUME Typed, NEW m \in Messages, NEW to, MovesOn(m, to) PROVE Typed'
<1> USE ActorAssumption DEF Typed, WaitTypeOK, ShapeInv, Started, MovesOn
<1>1. /\ stage' \in [Actors -> WaiterSteps \cup MessageSteps]
      /\ \A v \in Waiters : stage'[v] \in WaiterSteps
      /\ \A n \in Messages : stage'[n] \in MessageSteps
      /\ stage'[m] = to
      /\ \A b \in Actors : b # m => stage'[b] = stage[b]
  <2>1. m \in Actors /\ m \notin Waiters BY DEF Actors
  <2> QED BY <2>1, StageTypes, StageStep
<1>2. WaitTypeOK' BY <1>1
<1>3. \A w \in Waiters : w # m BY ActorAssumption
<1>4. ShapeInv' BY <1>1, <1>3 DEF Actors
<1> QED BY <1>2, <1>4

LEMMA TypeStep == Typed /\ [WaitNext]_waitVars => Typed'
<1> SUFFICES ASSUME Typed, [WaitNext]_waitVars PROVE Typed' OBVIOUS
<1>0. /\ Waiters \subseteq Actors /\ Messages \subseteq Actors /\ Groups \subseteq Homes
      /\ Anywhere \in Homes
  BY DEF Actors, Homes
<1> USE <1>0, ActorAssumption
    DEF Typed, WaitTypeOK, ShapeInv, Started, maps, WaiterSteps, MessageSteps
<1>1. CASE UNCHANGED waitVars BY <1>1 DEF waitVars
<1>2. CASE WaitNext
  <2>0. parallel' = parallel /\ ~terminated BY <1>2 DEF WaitNext
  <2>1. ASSUME NEW w \in Waiters, WaitLock(w) PROVE Typed' BY <2>0, <2>1 DEF WaitLock, Go
  <2>2. ASSUME NEW w \in Waiters, WaitGroup(w) PROVE Typed'
    BY <2>0, <2>2, Places DEF WaitGroup, Go
  <2>3. ASSUME NEW w \in Waiters, WaitPush(w) PROVE Typed'
    <3>1. Place(w) \in Channels /\ Home(w) \in Homes /\ Author(w) \in Users
      BY <2>3, Places DEF WaitPush
    <3>2. \A q \in Seq(Waiters) : Append(q, w) \in Seq(Waiters) BY AppendIn
    <3>3. users' \in [Homes -> SUBSET Users] /\ promises' \in [Channels -> Seq(Waiters)]
      <4>1. CASE Home(w) \in groups
        <5>1. /\ users' = [users EXCEPT ![Home(w)] = users[Home(w)] \cup {Author(w)}]
              /\ promises' = [promises EXCEPT ![Place(w)] = Append(promises[Place(w)], w)]
          BY <2>3, <4>1 DEF WaitPush
        <5>2. /\ users[Home(w)] \cup {Author(w)} \in SUBSET Users
              /\ Append(promises[Place(w)], w) \in Seq(Waiters)
          BY <3>1, <3>2
        <5> QED BY <3>1, <5>1, <5>2
      <4>2. CASE Home(w) \notin groups BY <2>3, <4>2 DEF WaitPush
      <4> QED BY <4>1, <4>2
    <3>5. mutex' \in [Channels -> Actors \cup {Nobody}] BY <2>3 DEF WaitPush
    <3>6. UNCHANGED <<groups, channel, personal, popped, got, given, terminated>>
      BY <2>3 DEF WaitPush
    <3>7. /\ stage' \in [Actors -> WaiterSteps \cup MessageSteps]
          /\ \A v \in Waiters : stage'[v] \in WaiterSteps
          /\ \A m \in Messages : stage'[m] = stage[m]
          /\ \A v \in Waiters : v # w => stage'[v] = stage[v]
      BY <2>3 DEF WaitPush, Go
    <3> QED BY <2>0, <2>3, <3>3, <3>5, <3>6, <3>7 DEF WaitPush
  <2>4. ASSUME NEW w \in Waiters, Receive(w) \/ Timeout(w) \/ Release(w) PROVE Typed'
    BY <2>0, <2>4 DEF Receive, Timeout, Release, Go
  <2>5. ASSUME NEW m \in Messages, CountGroup(m) PROVE Typed'
    <3>1. Groups \X Users \subseteq Channels BY DEF Channels
    <3> QED BY <2>0, <2>5, <3>1 DEF CountGroup, Go
  <2>6. ASSUME NEW m \in Messages, Second(m) PROVE Typed' BY <2>0, <2>6 DEF Second, Go
  <2>7. ASSUME NEW m \in Messages, Throws(m) PROVE Typed' BY <2>0, <2>7 DEF Throws
  <2>9. ASSUME NEW m \in Messages, CountUser(m) PROVE Typed'
    <3>1. CASE Throws(m) BY <2>7, <3>1
    <3>2. CASE ~Throws(m)
      <4>1. PICK to \in {"lock", "over", "second"} : Go(m, to)
        BY <2>9, <3>2, LeaveStep DEF CountUser
      <4>2. UNCHANGED <<maps, mutex, channel, personal, popped, got, given, terminated>>
            /\ Started(m)
        BY <2>9, <3>2 DEF CountUser
      <4>3. MovesOn(m, to) BY <2>0, <4>1, <4>2 DEF MovesOn
      <4> QED BY <4>3, MoveTypes
    <3> QED BY <3>1, <3>2
  <2>10. ASSUME NEW m \in Messages, FeedLock(m) PROVE Typed'
    <3>1. /\ mutex' \in [Channels -> Actors \cup {Nobody}] /\ Go(m, "feed") /\ Started(m)
          /\ UNCHANGED <<maps, channel, personal, popped, got, given, terminated>>
      BY <2>10 DEF FeedLock
    <3>2. MovesOn(m, "feed") BY <2>0, <3>1 DEF MovesOn
    <3> QED BY <3>2, MoveTypes
  <2>11. ASSUME NEW m \in Messages, Front(m) PROVE Typed'
    <3>1. Place(m) \in Channels BY <2>11, Places DEF Front
    <3>2. promises[Place(m)] # <<>> => Head(promises[Place(m)]) \in Waiters BY <3>1, TailIn
    <3>3. CASE Throws(m) BY <2>7, <3>3
    <3>4. CASE Go(m, "erase_user") /\ UNCHANGED popped /\ ~Throws(m)
      <4>1. MovesOn(m, "erase_user") BY <2>0, <2>11, <3>4 DEF Front, MovesOn
      <4> QED BY <4>1, MoveTypes
    <3>5. CASE /\ Go(m, "pop") /\ promises[Place(m)] # <<>>
               /\ popped' = [popped EXCEPT ![m] = Head(promises[Place(m)])]
               /\ UNCHANGED <<maps, mutex, channel, personal, got, given, terminated>>
      <4>1. /\ popped'[m] \in Waiters /\ popped' \in [Messages -> Waiters \cup {Nobody}]
            /\ \A n \in Messages : n # m => popped'[n] = popped[n]
        BY <3>2, <3>5
      <4>2. MovesOn(m, "pop") BY <2>0, <2>11, <3>5, <4>1 DEF Front, MovesOn
      <4> QED BY <4>2, MoveTypes
    <3> QED BY <2>11, <3>3, <3>4, <3>5 DEF Front
  <2>12. ASSUME NEW m \in Messages, PopPromise(m) PROVE Typed'
    <3>1. Place(m) \in Channels BY <2>12, Places DEF PopPromise
    <3>2. promises[Place(m)] # <<>> => Tail(promises[Place(m)]) \in Seq(Waiters)
      BY <3>1, TailIn
    <3>3. CASE Throws(m) BY <2>7, <3>3
    <3>4. CASE ~Throws(m)
      <4>1. promises' \in [Channels -> Seq(Waiters)]
        <5>1. /\ promises[Place(m)] # <<>>
              /\ promises' = [promises EXCEPT ![Place(m)] = Tail(promises[Place(m)])]
          BY <2>12, <3>4 DEF PopPromise
        <5>2. Tail(promises[Place(m)]) \in Seq(Waiters) BY <3>2, <5>1
        <5> QED BY <3>1, <5>1, <5>2
      <4>2. Go(m, "popped") /\ Started(m) /\ popped[m] \in Waiters
            /\ UNCHANGED <<groups, users, mutex, channel, personal, popped, got, given, terminated>>
        BY <2>12, <3>4 DEF PopPromise
      <4>3. MovesOn(m, "popped") BY <2>0, <4>1, <4>2 DEF MovesOn
      <4> QED BY <4>3, MoveTypes
    <3> QED BY <3>3, <3>4
  <2>13. ASSUME NEW m \in Messages, Feed(m) PROVE Typed'
    <3>1. got' \in [Waiters -> Messages \cup {Nobody}] /\ given' \subseteq Messages \X Waiters
      <4>1. stage[m] = "popped" /\ popped[m] \in Waiters BY <2>13 DEF Feed
      <4>2. \/ got' = got /\ given' = given
            \/ /\ got' = [got EXCEPT ![popped[m]] = m]
               /\ given' = given \cup {<<m, popped[m]>>}
        BY <2>13 DEF Feed
      <4>3. got' \in [Waiters -> Messages \cup {Nobody}] BY <4>1, <4>2
      <4>4. <<m, popped[m]>> \in Messages \X Waiters BY <4>1
      <4>5. given' \subseteq Messages \X Waiters BY <4>2, <4>4
      <4> QED BY <4>3, <4>5
    <3>2. PICK to \in {"erase_user", "feed"} : Go(m, to) BY <2>13 DEF Feed
    <3>3. Started(m) /\ UNCHANGED <<maps, mutex, channel, personal, popped, terminated>>
      BY <2>13 DEF Feed
    <3>4. MovesOn(m, to) BY <2>0, <3>1, <3>2, <3>3 DEF MovesOn
    <3> QED BY <3>4, MoveTypes
  <2>14. ASSUME NEW m \in Messages, EraseUser(m) PROVE Typed'
    <3>1. Place(m) \in Channels /\ Home(m) \in Homes BY <2>14, Places DEF EraseUser
    <3>2. CASE Throws(m) BY <2>7, <3>2
    <3>3. CASE ~Throws(m)
      <4>1. users' \in [Homes -> SUBSET Users]
        <5>1. users[Home(m)] \ {Author(m)} \in SUBSET Users BY <3>1
        <5>2. \/ users' = users
              \/ users' = [users EXCEPT ![Home(m)] = users[Home(m)] \ {Author(m)}]
          BY <2>14, <3>3 DEF EraseUser
        <5> QED BY <3>1, <5>1, <5>2
      <4>2. mutex' \in [Channels -> Actors \cup {Nobody}] BY <2>14, <3>3 DEF EraseUser
      <4>3. PICK to \in {"over", "second", "look"} :
               Go(m, to) /\ (to = "look" => m \notin personal)
        BY <2>14, <3>3, LeaveStep DEF EraseUser
      <4>4. Started(m) /\ UNCHANGED <<groups, promises, channel, personal, popped, got,
                                      given, terminated>>
        BY <2>14, <3>3 DEF EraseUser
      <4>5. MovesOn(m, to) BY <2>0, <4>1, <4>2, <4>3, <4>4 DEF MovesOn
      <4> QED BY <4>5, MoveTypes
    <3> QED BY <3>2, <3>3
  <2>15. ASSUME NEW m \in Messages, LookGroup(m) PROVE Typed'
    <3>1. CASE Throws(m) BY <2>7, <3>1
    <3>2. CASE ~Throws(m)
      <4>1. mutex' \in [Channels -> Actors \cup {Nobody}] BY <2>15, <3>2 DEF LookGroup
      <4>2. PICK to \in {"over", "second", "erase_group"} : Go(m, to)
        BY <2>15, <3>2, LeaveStep DEF LookGroup
      <4>3. Started(m) /\ m \notin personal
            /\ UNCHANGED <<maps, channel, personal, popped, got, given, terminated>>
        BY <2>15, <3>2 DEF LookGroup
      <4>4. MovesOn(m, to) BY <2>0, <4>1, <4>2, <4>3 DEF MovesOn
      <4> QED BY <4>4, MoveTypes
    <3> QED BY <3>1, <3>2
  <2>16. ASSUME NEW m \in Messages, EraseGroup(m) PROVE Typed'
    <3>1. Home(m) \in Groups /\ Home(m) # Anywhere
      BY <2>16, Places, ChannelAssumption DEF EraseGroup
    <3>2. PICK to \in {"over", "second"} : Go(m, to) BY <2>16, LeaveStep DEF EraseGroup
    <3>3. /\ stage' \in [Actors -> WaiterSteps \cup MessageSteps]
          /\ \A v \in Waiters : stage'[v] \in WaiterSteps
          /\ \A n \in Messages : stage'[n] \in MessageSteps
          /\ stage'[m] = to
          /\ \A b \in Actors : b # m => stage'[b] = stage[b]
      BY <3>2, StageTypes, StageStep
    <3>4. /\ users' \in [Homes -> SUBSET Users]
          /\ promises' \in [Channels -> Seq(Waiters)]
          /\ mutex' \in [Channels -> Actors \cup {Nobody}]
      <4>1. promises' = [ch \in Channels |-> IF ch[1] = Home(m) THEN <<>> ELSE promises[ch]]
        BY <2>16 DEF EraseGroup
      <4>2. promises' \in [Channels -> Seq(Waiters)] BY <4>1
      <4> QED BY <2>16, <4>2 DEF EraseGroup
    <3>5. groups' = groups \ {Home(m)} /\ stage[m] = "erase_group"
          /\ UNCHANGED <<channel, personal, popped, got, given, terminated>>
      BY <2>16 DEF EraseGroup
    <3>6. WaitTypeOK' BY <2>0, <3>3, <3>4, <3>5
    <3>7. \A w \in Waiters : w # m BY ActorAssumption
    <3>8. ShapeInv' BY <3>1, <3>3, <3>5, <3>7
    <3> QED BY <3>6, <3>8
  <2> QED BY <1>2, <2>1, <2>2, <2>3, <2>4, <2>5, <2>6, <2>9, <2>10, <2>11, <2>12,
     <2>13, <2>14, <2>15, <2>16 DEF WaitNext, Waiter, Message
<1> QED BY <1>1, <1>2

-----------------------------------------------------------------------------
\* The actor a takes a step.
StepOf(a) == (a \in Waiters /\ Waiter(a)) \/ (a \in Messages /\ Message(a))

\* A step of a leaves the other actors where they are, a lock is taken or given
\* back as a comes to hold its channel or leaves it, and only four actions
\* change the maps.
LEMMA Others ==
    ASSUME Typed, NEW a \in Actors, StepOf(a)
    PROVE  /\ \A b \in Actors : b # a =>
                 /\ stage'[b] = stage[b] /\ channel'[b] = channel[b]
                 /\ b \in personal' <=> b \in personal
           /\ \A m \in Messages : m # a => popped'[m] = popped[m]
           /\ stage[a] # "new" => channel'[a] = channel[a]
           /\ stage[a] # "second" => (a \in personal' <=> a \in personal)
<1> USE ActorAssumption DEF Typed, WaitTypeOK, ShapeInv, Actors, Go
<1>1. CASE a \in Waiters /\ Waiter(a)
  <2>1. CASE WaitLock(a) BY <1>1, <2>1 DEF WaitLock
  <2>2. CASE WaitGroup(a) BY <1>1, <2>2 DEF WaitGroup
  <2>3. CASE WaitPush(a) BY <1>1, <2>3 DEF WaitPush
  <2>4. CASE Receive(a) \/ Timeout(a) \/ Release(a)
    BY <1>1, <2>4 DEF Receive, Timeout, Release
  <2> QED BY <1>1, <2>1, <2>2, <2>3, <2>4 DEF Waiter
<1>2. CASE a \in Messages /\ Message(a)
  <2>1. CASE CountGroup(a) BY <1>2, <2>1 DEF CountGroup
  <2>2. CASE Second(a) BY <1>2, <2>2 DEF Second
  <2>3. CASE CountUser(a) BY <1>2, <2>3 DEF CountUser, Leave, Throws
  <2>4. CASE FeedLock(a) BY <1>2, <2>4 DEF FeedLock
  <2>5. CASE Front(a) BY <1>2, <2>5 DEF Front, Throws
  <2>6. CASE PopPromise(a) BY <1>2, <2>6 DEF PopPromise, Throws
  <2>7. CASE Feed(a) BY <1>2, <2>7 DEF Feed
  <2>8. CASE EraseUser(a) BY <1>2, <2>8 DEF EraseUser, Leave, Throws
  <2>9. CASE LookGroup(a) BY <1>2, <2>9 DEF LookGroup, Leave, Throws
  <2>10. CASE EraseGroup(a) BY <1>2, <2>10 DEF EraseGroup, Leave
  <2> QED BY <1>2, <2>1, <2>2, <2>3, <2>4, <2>5, <2>6, <2>7, <2>8, <2>9, <2>10 DEF Message
<1> QED BY <1>1, <1>2 DEF StepOf

\* The home and the channel of an actor, too.
LEMMA SamePlace ==
    ASSUME Typed, NEW a \in Actors, StepOf(a)
    PROVE  \A b \in Actors : b # a \/ stage[b] \notin {"new", "second"} =>
              Home(b)' = Home(b) /\ Author(b)' = Author(b) /\ Place(b)' = Place(b)
BY Others DEF Home, Author, Place

-----------------------------------------------------------------------------
\* The actors between the lock and the unlock of their channel.
Holds(a) == stage[a] \in {"locked", "push"} \cup Holding

\* Whoever is between lock and unlock holds the mutex of its channel.
MutexInv == \A a \in Actors : Holds(a) => mutex[Place(a)] = a

\* So no two of them have one channel.
LEMMA Mutual ==
    ASSUME MutexInv, NEW a \in Actors, NEW b \in Actors, Holds(a), Holds(b),
           Place(a) = Place(b)
    PROVE  a = b
BY DEF MutexInv

LEMMA LockEffect ==
    ASSUME Typed, NEW a \in Actors, StepOf(a)
    PROVE  \/ mutex' = mutex /\ (Holds(a)' => Holds(a))
           \/ mutex[Place(a)'] = Nobody /\ mutex' = [mutex EXCEPT ![Place(a)'] = a]
           \/ /\ Holds(a) /\ ~Holds(a)'
              /\ mutex' = [mutex EXCEPT ![Place(a)] = Nobody]
<1> USE ActorAssumption DEF Typed, WaitTypeOK, ShapeInv, Actors, Go, Holds, Holding
<1>1. CASE a \in Waiters /\ Waiter(a)
  <2>1. CASE WaitLock(a)
    <3>1. PICK ch \in Channels : /\ mutex[ch] = Nobody
                                 /\ mutex' = [mutex EXCEPT ![ch] = a]
                                 /\ channel' = [channel EXCEPT ![a] = ch]
      BY <2>1 DEF WaitLock
    <3>2. a \notin personal' BY <1>1, <2>1 DEF WaitLock
    <3>3. Place(a)' = ch BY <3>1, <3>2 DEF Place, Home, Author, Channels
    <3> QED BY <3>1, <3>3
  <2>2. CASE WaitGroup(a) BY <1>1, <2>2 DEF WaitGroup
  <2>3. CASE WaitPush(a) BY <1>1, <2>3 DEF WaitPush
  <2>4. CASE Receive(a) \/ Timeout(a) \/ Release(a)
    BY <1>1, <2>4 DEF Receive, Timeout, Release
  <2> QED BY <1>1, <2>1, <2>2, <2>3, <2>4 DEF Waiter
<1>2. CASE a \in Messages /\ Message(a)
  <2>1. CASE CountGroup(a) BY <1>2, <2>1 DEF CountGroup
  <2>2. CASE Second(a) BY <1>2, <2>2 DEF Second
  <2>3. CASE CountUser(a) BY <1>2, <2>3 DEF CountUser, Leave, Throws
  <2>4. CASE FeedLock(a)
    <3>1. Place(a)' = Place(a) BY <1>2, <2>4, SamePlace DEF FeedLock, StepOf
    <3> QED BY <1>2, <2>4, <3>1 DEF FeedLock
  <2>5. CASE Front(a) BY <1>2, <2>5 DEF Front, Throws
  <2>6. CASE PopPromise(a) BY <1>2, <2>6 DEF PopPromise, Throws
  <2>7. CASE Feed(a) BY <1>2, <2>7 DEF Feed
  <2>8. CASE EraseUser(a) BY <1>2, <2>8 DEF EraseUser, Leave, Throws
  <2>9. CASE LookGroup(a) BY <1>2, <2>9 DEF LookGroup, Leave, Throws
  <2>10. CASE EraseGroup(a) BY <1>2, <2>10 DEF EraseGroup, Leave
  <2> QED BY <1>2, <2>1, <2>2, <2>3, <2>4, <2>5, <2>6, <2>7, <2>8, <2>9, <2>10 DEF Message
<1> QED BY <1>1, <1>2 DEF StepOf

\* A step of WaitNext is a step of one actor.
LEMMA OneSteps ==
    ASSUME WaitNext
    PROVE  \E a \in Actors : StepOf(a)
BY DEF WaitNext, StepOf, Actors

LEMMA MutexStep == Typed /\ Typed' /\ MutexInv /\ [WaitNext]_waitVars => MutexInv'
<1> SUFFICES ASSUME Typed, Typed', MutexInv, [WaitNext]_waitVars PROVE MutexInv' OBVIOUS
<1>1. CASE UNCHANGED waitVars
  BY <1>1 DEF waitVars, maps, MutexInv, Holds, Place, Home, Author
<1>2. CASE WaitNext
  <2>1. PICK a \in Actors : StepOf(a) BY <1>2, OneSteps
  <2>2. \A b \in Actors : Holds(b) => Place(b) \in Channels
    BY Places DEF Holds, Holding, Actors, Started
  <2>3. \A b \in Actors : Holds(b)' => Place(b)' \in Channels
    <3>1. ASSUME NEW b \in Waiters, Started(b)' PROVE Place(b)' \in Channels
      <4>1. b \notin personal' /\ channel'[b] \in Channels
        BY <3>1, ActorAssumption DEF Typed, WaitTypeOK, ShapeInv
      <4> QED BY <4>1 DEF Place, Home, Author, Channels
    <3>2. ASSUME NEW b \in Messages, Started(b)' PROVE Place(b)' \in Channels
      BY <3>2 DEF Typed, ShapeInv, Place, Home, Author, Channels, Homes
    <3> QED BY <3>1, <3>2 DEF Holds, Holding, Actors, Started
  <2>4. \A b \in Actors : b # a => (Holds(b)' <=> Holds(b)) /\ Place(b)' = Place(b)
    BY <2>1, Others, SamePlace DEF Holds
  <2>5. mutex \in [Channels -> Actors \cup {Nobody}] /\ Nobody \notin Actors
    BY ActorAssumption DEF Typed, WaitTypeOK
  <2>6. CASE mutex' = mutex /\ (Holds(a)' => Holds(a))
    <3>1. Holds(a)' => Place(a)' = Place(a)
      BY <2>1, <2>6, SamePlace DEF Holds, Holding
    <3> QED BY <2>4, <2>6, <3>1 DEF MutexInv
  <2>7. CASE mutex[Place(a)'] = Nobody /\ mutex' = [mutex EXCEPT ![Place(a)'] = a]
    <3>1. \A b \in Actors : b # a /\ Holds(b)' => mutex'[Place(b)'] = b
      BY <2>4, <2>5, <2>7 DEF MutexInv
    <3>2. Holds(a)' => mutex'[Place(a)'] = a BY <2>3, <2>5, <2>7
    <3> QED BY <3>1, <3>2 DEF MutexInv
  <2>8. CASE /\ Holds(a) /\ ~Holds(a)'
             /\ mutex' = [mutex EXCEPT ![Place(a)] = Nobody]
    <3>1. \A b \in Actors : b # a /\ Holds(b)' => mutex'[Place(b)'] = b
      BY <2>4, <2>5, <2>8 DEF MutexInv
    <3> QED BY <2>8, <3>1 DEF MutexInv
  <2> QED BY <2>1, <2>6, <2>7, <2>8, LockEffect
<1> QED BY <1>1, <1>2

-----------------------------------------------------------------------------
Late == {"waiting", "returned", "over"}

\* What a step does to the queues: it appends to the queue of its own channel,
\* takes the front of it, or empties the queues of a group.
LEMMA QueueEffect ==
    ASSUME Typed, NEW a \in Actors, StepOf(a)
    PROVE  \/ promises' = promises
           \/ /\ a \in Waiters /\ stage[a] = "push" /\ stage'[a] = "waiting" /\ got' = got
              /\ promises' = [promises EXCEPT ![Place(a)] = Append(promises[Place(a)], a)]
           \/ /\ a \in Messages /\ stage[a] = "pop" /\ stage'[a] = "popped"
              /\ promises[Place(a)] # <<>> /\ got' = got
              /\ promises' = [promises EXCEPT ![Place(a)] = Tail(promises[Place(a)])]
           \/ /\ a \in Messages /\ stage[a] = "erase_group" /\ got' = got
              /\ stage'[a] \in {"over", "second"}
              /\ \A ch \in Channels : promises'[ch] \in {<<>>, promises[ch]}
<1> USE ActorAssumption DEF Typed, WaitTypeOK, ShapeInv, Actors, Go, maps
<1>1. CASE a \in Waiters /\ Waiter(a)
  <2>1. CASE WaitLock(a) BY <2>1 DEF WaitLock
  <2>2. CASE WaitGroup(a) BY <2>2 DEF WaitGroup
  <2>3. CASE WaitPush(a) BY <1>1, <2>3 DEF WaitPush
  <2>4. CASE Receive(a) \/ Timeout(a) \/ Release(a)
    BY <2>4 DEF Receive, Timeout, Release
  <2> QED BY <1>1, <2>1, <2>2, <2>3, <2>4 DEF Waiter
<1>2. CASE a \in Messages /\ Message(a)
  <2>1. CASE CountGroup(a) BY <2>1 DEF CountGroup
  <2>2. CASE Second(a) BY <2>2 DEF Second
  <2>3. CASE CountUser(a) BY <2>3 DEF CountUser, Throws
  <2>4. CASE FeedLock(a) BY <2>4 DEF FeedLock
  <2>5. CASE Front(a) BY <2>5 DEF Front, Throws
  <2>6. CASE PopPromise(a) BY <1>2, <2>6 DEF PopPromise, Throws
  <2>7. CASE Feed(a) BY <2>7 DEF Feed
  <2>8. CASE EraseUser(a) BY <2>8 DEF EraseUser, Throws
  <2>9. CASE LookGroup(a) BY <2>9 DEF LookGroup, Throws
  <2>10. CASE EraseGroup(a) BY <1>2, <2>10 DEF EraseGroup, Leave
  <2> QED BY <1>2, <2>1, <2>2, <2>3, <2>4, <2>5, <2>6, <2>7, <2>8, <2>9, <2>10 DEF Message
<1> QED BY <1>1, <1>2 DEF StepOf

\* Only Feed gives a waiter a message, the one that took its promise.
LEMMA GotEffect ==
    ASSUME Typed, NEW a \in Actors, StepOf(a)
    PROVE  \/ got' = got /\ given' = given
           \/ /\ a \in Messages /\ stage[a] = "popped" /\ stage'[a] = "erase_user"
              /\ got' = [got EXCEPT ![popped[a]] = a]
              /\ given' = given \cup {<<a, popped[a]>>}
<1> USE ActorAssumption DEF Typed, WaitTypeOK, ShapeInv, Actors, Go
<1>1. CASE a \in Waiters /\ Waiter(a)
  BY <1>1 DEF Waiter, WaitLock, WaitGroup, WaitPush, Receive, Timeout, Release
<1>2. CASE a \in Messages /\ Message(a)
  <2>1. CASE Feed(a) BY <1>2, <2>1 DEF Feed
  <2>2. CASE CountUser(a) BY <2>2 DEF CountUser, Throws
  <2>3. CASE Front(a) \/ PopPromise(a) BY <2>3 DEF Front, PopPromise, Throws
  <2>4. CASE EraseUser(a) \/ LookGroup(a) BY <2>4 DEF EraseUser, LookGroup, Throws
  <2>5. CASE CountGroup(a) \/ Second(a) \/ FeedLock(a) \/ EraseGroup(a)
    BY <2>5 DEF CountGroup, Second, FeedLock, EraseGroup
  <2> QED BY <1>2, <2>1, <2>2, <2>3, <2>4, <2>5 DEF Message
<1> QED BY <1>1, <1>2 DEF StepOf

\* Where a message is that has just read or taken a promise.
LEMMA PopEffect ==
    ASSUME Typed, NEW a \in Messages, StepOf(a)
    PROVE  /\ stage'[a] = "pop" =>
                /\ promises' = promises
                /\ \/ stage[a] = "pop" /\ popped' = popped
                   \/ stage[a] = "feed" /\ popped'[a] = Head(promises[Place(a)])
           /\ stage'[a] = "popped" => stage[a] = "pop" /\ popped' = popped /\ promises' # promises
           /\ popped' # popped => stage'[a] = "pop"
<1> USE ActorAssumption DEF Typed, WaitTypeOK, ShapeInv, Actors, Go, maps
<1>0. Message(a) BY DEF StepOf
<1>1. CASE CountGroup(a) BY <1>1 DEF CountGroup
<1>2. CASE Second(a) BY <1>2 DEF Second
<1>3. CASE CountUser(a) BY <1>3 DEF CountUser, Throws, Leave
<1>4. CASE FeedLock(a) BY <1>4 DEF FeedLock
<1>5. CASE Front(a) BY <1>5 DEF Front, Throws
<1>6. CASE PopPromise(a)
  <2>1. Place(a) \in Channels BY <1>6, Places DEF PopPromise, Started
  <2>2. promises[Place(a)] # <<>> => Tail(promises[Place(a)]) # promises[Place(a)]
    BY <2>1
  <2> QED BY <1>6, <2>1, <2>2 DEF PopPromise, Throws
<1>7. CASE Feed(a) BY <1>7 DEF Feed
<1>8. CASE EraseUser(a) BY <1>8 DEF EraseUser, Throws, Leave
<1>9. CASE LookGroup(a) BY <1>9 DEF LookGroup, Throws, Leave
<1>10. CASE EraseGroup(a) BY <1>10 DEF EraseGroup, Leave
<1> QED BY <1>0, <1>1, <1>2, <1>3, <1>4, <1>5, <1>6, <1>7, <1>8, <1>9, <1>10 DEF Message

\* A waiter whose promise may be queued stays such a waiter, and becomes one by
\* pushing it.
LEMMA LateStep ==
    ASSUME Typed, NEW a \in Actors, StepOf(a), NEW w \in Waiters
    PROVE  /\ stage[w] \in Late => stage'[w] \in Late
           /\ stage'[w] \in {"new", "locked", "push"} => stage[w] \in {"new", "locked", "push"}
           /\ stage'[w] \in Late /\ stage[w] \notin Late => w = a /\ stage[w] = "push"
           /\ Started(w) => channel'[w] = channel[w] /\ Started(w)'
<1>1. w \in Actors BY DEF Actors
<1>2. CASE w # a BY <1>1, <1>2, Others DEF Started
<1>3. CASE w = a
  <2>1. Waiter(w) BY <1>3, ActorAssumption DEF StepOf
  <2>2. CASE WaitLock(w) BY <1>1, <2>2, StageStep DEF WaitLock, Late, Started
  <2>3. CASE WaitGroup(w) BY <1>1, <2>3, StageStep DEF WaitGroup, Late, Started
  <2>4. CASE WaitPush(w) BY <1>1, <1>3, <2>4, StageStep DEF WaitPush, Late, Started
  <2>5. CASE Receive(w) \/ Timeout(w) \/ Release(w)
    BY <1>1, <2>5, StageStep DEF Receive, Timeout, Release, Late, Started
  <2> QED BY <1>3, <2>1, <2>2, <2>3, <2>4, <2>5 DEF Waiter
<1> QED BY <1>2, <1>3

-----------------------------------------------------------------------------
\* A queued promise is queued in the channel of its waiter, once, and its waiter
\* has no message.
QueueInv ==
    /\ \A ch \in Channels, w \in Waiters : In(w, promises[ch]) =>
          channel[w] = ch /\ got[w] = Nobody /\ stage[w] \in Late
    /\ \A ch \in Channels : Distinct(promises[ch])
    /\ \A w \in Waiters : stage[w] \in {"new", "locked", "push"} => got[w] = Nobody

\* The promise that a message has read is at the front until it is popped, and the
\* one it has popped is in no queue.
PopInv ==
    \A m \in Messages :
        /\ stage[m] = "pop" => \/ promises[Place(m)] = <<>>
                               \/ Head(promises[Place(m)]) = popped[m]
        /\ stage[m] = "popped" =>
              /\ channel[popped[m]] = Place(m) /\ got[popped[m]] = Nobody
              /\ stage[popped[m]] \in Late
              /\ \A ch \in Channels : ~In(popped[m], promises[ch])

Locked == Typed /\ MutexInv /\ QueueInv /\ PopInv

\* No step puts a promise into a queue but the push of its waiter.
LEMMA InStep ==
    ASSUME Locked, NEW a \in Actors, StepOf(a), NEW ch \in Channels
    PROVE  /\ \A w \in Waiters : In(w, promises'[ch]) /\ ~In(w, promises[ch]) =>
                 w = a /\ stage[w] = "push" /\ Place(w) = ch
           /\ Distinct(promises'[ch])
           /\ promises'[ch] # promises[ch] =>
                 \/ promises'[ch] = <<>>
                 \/ Holds(a) /\ Place(a) = ch
<1> USE DEF Locked, Typed, WaitTypeOK
<1>0. promises[ch] \in Seq(Waiters) /\ Distinct(promises[ch]) BY DEF QueueInv
<1>1. CASE promises' = promises BY <1>0, <1>1
<1>2. CASE /\ a \in Waiters /\ stage[a] = "push" /\ stage'[a] = "waiting" /\ got' = got
           /\ promises' = [promises EXCEPT ![Place(a)] = Append(promises[Place(a)], a)]
  <2>1. Place(a) # ch => promises'[ch] = promises[ch] BY <1>2
  <2>2. CASE Place(a) = ch
    <3>1. promises'[ch] = Append(promises[ch], a) BY <1>2, <2>2
    <3>2. ~In(a, promises[ch]) BY <1>2 DEF QueueInv, Late
    <3>3. Holds(a) BY <1>2 DEF Holds
    <3>4. \A w : In(w, Append(promises[ch], a)) <=> In(w, promises[ch]) \/ w = a
      BY <1>0, <1>2, AppendIn
    <3>5. Distinct(Append(promises[ch], a)) BY <1>0, <1>2, <3>2, AppendIn
    <3> QED BY <1>2, <2>2, <3>1, <3>3, <3>4, <3>5
  <2> QED BY <1>0, <2>1, <2>2
<1>3. CASE /\ a \in Messages /\ stage[a] = "pop" /\ stage'[a] = "popped"
           /\ promises[Place(a)] # <<>> /\ got' = got
           /\ promises' = [promises EXCEPT ![Place(a)] = Tail(promises[Place(a)])]
  <2>1. Place(a) # ch => promises'[ch] = promises[ch] BY <1>3
  <2>2. CASE Place(a) = ch
    <3>1. promises'[ch] = Tail(promises[ch]) /\ promises[ch] # <<>> BY <1>3, <2>2
    <3>2. Holds(a) BY <1>3 DEF Holds, Holding
    <3>3. /\ \A w : In(w, Tail(promises[ch])) => In(w, promises[ch])
          /\ Distinct(Tail(promises[ch]))
      BY <1>0, <3>1, TailIn
    <3> QED BY <2>2, <3>1, <3>2, <3>3
  <2> QED BY <1>0, <2>1, <2>2
<1>4. CASE /\ a \in Messages /\ stage[a] = "erase_group" /\ got' = got
           /\ stage'[a] \in {"over", "second"}
           /\ \A c \in Channels : promises'[c] \in {<<>>, promises[c]}
  BY <1>0, <1>4, EmptyIn
<1> QED BY <1>1, <1>2, <1>3, <1>4, QueueEffect

\* A waiter that is given a message has its promise in no queue.
LEMMA GivenStep ==
    ASSUME Locked, NEW a \in Actors, StepOf(a), NEW w \in Waiters, got'[w] # got[w]
    PROVE  /\ a \in Messages /\ stage[a] = "popped" /\ w = popped[a]
           /\ stage'[a] = "erase_user" /\ got'[w] = a /\ got[w] = Nobody
           /\ stage'[w] = stage[w] /\ stage[w] \in Late /\ channel[w] = Place(a)
           /\ \A ch \in Channels : ~In(w, promises[ch])
<1> USE DEF Locked, Typed, WaitTypeOK
<1>1. /\ a \in Messages /\ stage[a] = "popped" /\ stage'[a] = "erase_user"
      /\ got' = [got EXCEPT ![popped[a]] = a]
  BY GotEffect
<1>2. w = popped[a] /\ got'[w] = a BY <1>1
<1>3. w # a /\ w \in Actors BY <1>1, ActorAssumption DEF Actors
<1>4. stage'[w] = stage[w] BY <1>3, Others
<1> QED BY <1>1, <1>2, <1>4 DEF PopInv

LEMMA QueueStep == Locked /\ Typed' /\ [WaitNext]_waitVars => QueueInv'
<1> SUFFICES ASSUME Locked, [WaitNext]_waitVars PROVE QueueInv' OBVIOUS
<1> USE DEF Locked
<1>1. CASE UNCHANGED waitVars BY <1>1 DEF waitVars, maps, QueueInv
<1>2. CASE WaitNext
  <2>1. PICK a \in Actors : StepOf(a) BY <1>2, OneSteps
  <2>2. \A w \in Waiters : got'[w] # got[w] => /\ stage'[w] = stage[w] /\ stage[w] \in Late
                                             /\ \A ch \in Channels : ~In(w, promises[ch])
    BY <2>1, GivenStep
  <2>3. ASSUME NEW ch \in Channels, NEW w \in Waiters, In(w, promises'[ch])
        PROVE  channel'[w] = ch /\ got'[w] = Nobody /\ stage'[w] \in Late
    <3>1. CASE In(w, promises[ch])
      <4>1. channel[w] = ch /\ got[w] = Nobody /\ stage[w] \in Late BY <3>1 DEF QueueInv
      <4>2. got'[w] = got[w] BY <2>2, <3>1
      <4>3. Started(w) BY <4>1 DEF Late, Started
      <4> QED BY <2>1, <4>1, <4>2, <4>3, LateStep
    <3>2. CASE ~In(w, promises[ch])
      <4>1. w = a /\ stage[w] = "push" /\ Place(w) = ch
        BY <2>1, <2>3, <3>2, InStep
      <4>2. channel[w] = ch BY <4>1, Places DEF Started
      <4>3. got[w] = Nobody BY <4>1 DEF QueueInv
      <4>4. got'[w] = got[w] BY <4>1, <2>2 DEF Late
      <4>5. stage'[w] = "waiting"
        <5>1. promises' # promises BY <2>3, <3>2
        <5> QED BY <2>1, <4>1, <5>1, QueueEffect, ActorAssumption
      <4>6. channel'[w] = channel[w] BY <2>1, <4>1, LateStep DEF Started
      <4> QED BY <4>2, <4>3, <4>4, <4>5, <4>6 DEF Late
    <3> QED BY <3>1, <3>2
  <2>4. \A ch \in Channels : Distinct(promises'[ch]) BY <2>1, InStep
  <2>5. ASSUME NEW w \in Waiters, stage'[w] \in {"new", "locked", "push"}
        PROVE  got'[w] = Nobody
    <3>1. got[w] = Nobody BY <2>1, <2>5, LateStep DEF QueueInv
    <3>2. got'[w] = got[w] BY <2>2, <2>5 DEF Late
    <3> QED BY <3>1, <3>2
  <2> QED BY <2>3, <2>4, <2>5 DEF QueueInv
<1> QED BY <1>1, <1>2

LEMMA PopStep == Locked /\ Typed' /\ [WaitNext]_waitVars => PopInv'
<1> SUFFICES ASSUME Locked, [WaitNext]_waitVars PROVE PopInv' OBVIOUS
<1> USE DEF Locked
<1>1. CASE UNCHANGED waitVars
  BY <1>1 DEF waitVars, maps, PopInv, Place, Home, Author
<1>2. CASE WaitNext
  <2>1. PICK a \in Actors : StepOf(a) BY <1>2, OneSteps
  <2>2. \A m \in Messages : stage[m] \in Holding =>
           Holds(m) /\ m \in Actors /\ Place(m)' = Place(m) /\ Place(m) \in Channels
    BY <2>1, SamePlace, Places DEF Holds, Holding, Actors, Started
  <2>3. ASSUME NEW m \in Messages, stage'[m] = "pop"
        PROVE  promises'[Place(m)'] = <<>> \/ Head(promises'[Place(m)']) = popped'[m]
    <3>1. CASE m = a
      <4>1. promises' = promises BY <2>1, <2>3, <3>1, PopEffect
      <4>2. CASE stage[a] = "pop" /\ popped' = popped
        BY <2>2, <3>1, <4>1, <4>2 DEF PopInv, Holding
      <4>3. CASE stage[a] = "feed" /\ popped'[a] = Head(promises[Place(a)])
        BY <2>2, <3>1, <4>1, <4>3 DEF Holding
      <4> QED BY <2>1, <2>3, <3>1, <4>2, <4>3, PopEffect
    <3>2. CASE m # a
      <4>1. stage[m] = "pop" /\ popped'[m] = popped[m]
        BY <2>1, <2>3, <3>2, Others DEF Actors
      <4>2. Holds(m) /\ m \in Actors /\ Place(m)' = Place(m) /\ Place(m) \in Channels
        BY <2>2, <4>1 DEF Holding
      <4>3. promises'[Place(m)] \in {<<>>, promises[Place(m)]}
        BY <2>1, <3>2, <4>2, InStep, Mutual
      <4> QED BY <4>1, <4>2, <4>3 DEF PopInv
    <3> QED BY <3>1, <3>2
  <2>4. ASSUME NEW m \in Messages, stage'[m] = "popped"
        PROVE  /\ channel'[popped'[m]] = Place(m)' /\ got'[popped'[m]] = Nobody
               /\ stage'[popped'[m]] \in Late
               /\ \A ch \in Channels : ~In(popped'[m], promises'[ch])
    <3>1. CASE m = a
      <4>1. stage[m] = "pop" /\ popped' = popped /\ promises' # promises
        BY <2>1, <2>4, <3>1, PopEffect
      <4>2. /\ promises[Place(m)] # <<>> /\ got' = got
            /\ promises' = [promises EXCEPT ![Place(m)] = Tail(promises[Place(m)])]
        BY <2>1, <3>1, <4>1, QueueEffect, ActorAssumption
      <4>3. /\ Place(m)' = Place(m) /\ Place(m) \in Channels /\ popped[m] \in Waiters
            /\ promises[Place(m)] \in Seq(Waiters)
        BY <2>2, <4>1 DEF Holding, Typed, WaitTypeOK, ShapeInv
      <4>4. popped[m] = Head(promises[Place(m)]) BY <4>1, <4>2 DEF PopInv
      <4>5. In(popped[m], promises[Place(m)]) /\ ~In(popped[m], Tail(promises[Place(m)]))
        BY <4>2, <4>3, <4>4, TailIn DEF QueueInv
      <4>6. channel[popped[m]] = Place(m) /\ got[popped[m]] = Nobody
            /\ stage[popped[m]] \in Late
        BY <4>3, <4>5 DEF QueueInv
      <4>7. channel'[popped[m]] = channel[popped[m]] /\ stage'[popped[m]] \in Late
        BY <2>1, <4>3, <4>6, LateStep DEF Late, Started
      <4>8. ASSUME NEW ch \in Channels PROVE ~In(popped[m], promises'[ch])
        <5>1. CASE ch = Place(m) BY <4>2, <4>3, <4>5, <5>1 DEF Typed, WaitTypeOK
        <5>2. CASE ch # Place(m)
          <6>1. promises'[ch] = promises[ch] BY <4>2, <5>2 DEF Typed, WaitTypeOK
          <6> QED BY <4>3, <4>6, <5>2, <6>1 DEF QueueInv
        <5> QED BY <5>1, <5>2
      <4> QED BY <4>1, <4>2, <4>3, <4>6, <4>7, <4>8
    <3>2. CASE m # a
      <4>1. stage[m] = "popped" /\ popped'[m] = popped[m] /\ popped[m] \in Waiters
        BY <2>1, <2>4, <3>2, Others DEF Actors, Typed, ShapeInv
      <4>2. /\ channel[popped[m]] = Place(m) /\ got[popped[m]] = Nobody
            /\ stage[popped[m]] \in Late
            /\ \A ch \in Channels : ~In(popped[m], promises[ch])
        BY <4>1 DEF PopInv
      <4>3. channel'[popped[m]] = channel[popped[m]] /\ stage'[popped[m]] \in Late
        BY <2>1, <4>1, <4>2, LateStep DEF Late, Started
      <4>4. Holds(m) /\ m \in Actors /\ Place(m)' = Place(m) BY <2>2, <4>1 DEF Holding
      <4>5. got'[popped[m]] = got[popped[m]]
        <5>1. SUFFICES ASSUME got'[popped[m]] # got[popped[m]] PROVE FALSE OBVIOUS
        <5>2. a \in Messages /\ stage[a] = "popped" /\ channel[popped[m]] = Place(a)
          BY <2>1, <4>1, <5>1, GivenStep
        <5>3. Holds(a) BY <5>2 DEF Holds, Holding
        <5> QED BY <3>2, <4>2, <4>4, <5>2, <5>3, Mutual
      <4>6. \A ch \in Channels : ~In(popped[m], promises'[ch])
        BY <2>1, <4>1, <4>2, InStep DEF Late
      <4> QED BY <4>1, <4>2, <4>3, <4>4, <4>5, <4>6
    <3> QED BY <3>1, <3>2
  <2> QED BY <2>3, <2>4 DEF PopInv
<1> QED BY <1>1, <1>2

LEMMA LockedInvariant == WaitSpec => []Locked
<1>1. WaitInit => Locked
  <2>1. ASSUME WaitInit PROVE QueueInv
    <3>1. /\ \A ch \in Channels : promises[ch] = <<>>
          /\ \A w \in Waiters : got[w] = Nobody
      BY <2>1 DEF WaitInit
    <3> QED BY <3>1, EmptyIn DEF QueueInv
  <2>2. ASSUME WaitInit PROVE MutexInv /\ PopInv
    <3>1. \A a \in Actors : stage[a] = "new" BY <2>2 DEF WaitInit
    <3> QED BY <3>1 DEF MutexInv, Holds, Holding, PopInv, Actors
  <2> QED BY <2>1, <2>2, InitTyped DEF Locked
<1>2. Locked /\ [WaitNext]_waitVars => Locked'
  <2>1. Locked /\ [WaitNext]_waitVars => Typed' BY TypeStep DEF Locked
  <2>2. Locked /\ [WaitNext]_waitVars => MutexInv' BY <2>1, MutexStep DEF Locked
  <2> QED BY <2>1, <2>2, QueueStep, PopStep DEF Locked
<1> QED BY <1>1, <1>2, PTL DEF WaitSpec

\* Every variable of the waits has its type, and with it the shape of a message's
\* steps holds: the type invariant of waits and messages.
THEOREM WaitTypeCorrect == WaitSpec => []WaitTypeOK
<1>1. Locked => WaitTypeOK BY DEF Locked, Typed
<1> QED BY <1>1, LockedInvariant, PTL

-----------------------------------------------------------------------------
(***************************************************************************)
(* OneToOne.  A message looks for a waiter first in its group and then     *)
(* anywhere: which of the two gave it to a waiter shows in where it is.    *)
(***************************************************************************)
Passed == {"erase_user", "look", "erase_group", "second"}

\* What the waiter v and its message m have to do with each other.
Given(v, m) ==
    /\ Started(m) /\ Started(v) /\ Author(v) = Author(m)
    /\ \/ Home(v) = channel[m][1] /\ (m \in personal \/ stage[m] \in Passed)
       \/ Home(v) = Anywhere /\ m \in personal /\ stage[m] \in {"erase_user", "over"}

\* At most one waiter of each kind has the message m.
OneOfKind(v, w) == v = w \/ (Home(v) = Anywhere) # (Home(w) = Anywhere)

GotInv ==
    /\ \A v \in Waiters : got[v] # Nobody => Given(v, got[v])
    /\ \A v, w \in Waiters : got[v] # Nobody /\ got[v] = got[w] => OneOfKind(v, w)

\* A message that has given itself to a waiter goes on to the second search and
\* the end.
LEMMA PassedStep ==
    ASSUME Typed, NEW a \in Actors, StepOf(a), NEW m \in Messages
    PROVE  /\ m \in personal => m \in personal'
           /\ Started(m) => Started(m)' /\ channel'[m] = channel[m]
           /\ stage[m] \in Passed => m \in personal' \/ stage'[m] \in Passed
           /\ m \in personal /\ stage[m] \in {"erase_user", "over"} =>
                 stage'[m] \in {"erase_user", "over"}
<1>0. m \in Actors BY DEF Actors
<1>1. CASE m # a BY <1>0, <1>1, Others DEF Started, Passed
<1>2. CASE m = a
  <2> USE <1>0, <1>2, ActorAssumption DEF Typed, WaitTypeOK, ShapeInv, Go, Started, Passed
  <2>0. Message(m) BY DEF StepOf
  <2>1. CASE CountGroup(m) BY <2>1 DEF CountGroup
  <2>2. CASE Second(m) BY <2>2 DEF Second
  <2>3. CASE CountUser(m) BY <2>3 DEF CountUser, Throws, Leave
  <2>4. CASE FeedLock(m) BY <2>4 DEF FeedLock
  <2>5. CASE Front(m) BY <2>5 DEF Front, Throws
  <2>6. CASE PopPromise(m) BY <2>6 DEF PopPromise, Throws
  <2>7. CASE Feed(m) BY <2>7 DEF Feed
  <2>8. CASE EraseUser(m) BY <2>8 DEF EraseUser, Throws, Leave
  <2>9. CASE LookGroup(m) BY <2>9 DEF LookGroup, Throws, Leave
  <2>10. CASE EraseGroup(m) BY <2>10 DEF EraseGroup, Leave
  <2> QED BY <2>0, <2>1, <2>2, <2>3, <2>4, <2>5, <2>6, <2>7, <2>8, <2>9, <2>10 DEF Message
<1> QED BY <1>1, <1>2

\* A waiter that has started keeps its place.
LEMMA WaiterStays ==
    ASSUME Typed, NEW a \in Actors, StepOf(a), NEW v \in Waiters, Started(v)
    PROVE  /\ Started(v)' /\ channel'[v] = channel[v]
           /\ Home(v)' = Home(v) /\ Author(v)' = Author(v) /\ Place(v)' = Place(v)
<1>1. v \in Actors BY DEF Actors
<1>2. stage[v] \notin {"new", "second"} BY DEF Typed, WaitTypeOK, Started, WaiterSteps
<1> QED BY <1>1, <1>2, LateStep, SamePlace

LEMMA GotStep == Locked /\ Typed' /\ GotInv /\ [WaitNext]_waitVars => GotInv'
<1> SUFFICES ASSUME Locked, Typed', GotInv, [WaitNext]_waitVars PROVE GotInv' OBVIOUS
<1> USE DEF Locked
<1>1. CASE UNCHANGED waitVars
  BY <1>1 DEF waitVars, GotInv, Given, OneOfKind, Home, Author, Started
<1>2. CASE WaitNext
  <2>1. PICK a \in Actors : StepOf(a) BY <1>2, OneSteps
  <2>2. \A v \in Waiters : got[v] # Nobody => got[v] \in Messages BY DEF Typed, WaitTypeOK
  \* A waiter that already had its message
  <2>3. ASSUME NEW v \in Waiters, got[v] # Nobody
        PROVE  Given(v, got[v])' /\ got'[v] = got[v] /\ Home(v)' = Home(v)
    <3>1. got'[v] = got[v] BY <2>1, <2>3, GivenStep
    <3>2. PICK m \in Messages : m = got[v] BY <2>2, <2>3
    <3>3. Given(v, m) BY <2>3, <3>2 DEF GotInv
    <3>4. Started(v)' /\ Home(v)' = Home(v) /\ Author(v)' = Author(v)
      BY <2>1, <3>3, WaiterStays DEF Given
    <3>5. Started(m)' /\ channel'[m] = channel[m] /\ Author(m)' = Author(m)
      BY <2>1, <3>3, PassedStep DEF Given, Author
    <3>6. Given(v, m)' BY <2>1, <3>2, <3>3, <3>4, <3>5, PassedStep DEF Given
    <3> QED BY <3>1, <3>2, <3>4, <3>6
  \* A waiter that Feed gives the message a
  <2>4. ASSUME NEW v \in Waiters, got'[v] # got[v]
        PROVE  /\ got'[v] = a /\ Given(v, a)' /\ v = popped[a]
               /\ a \in Messages /\ stage[a] = "popped" /\ Home(v)' = Home(a)
    <3>1. /\ a \in Messages /\ stage[a] = "popped" /\ v = popped[a]
          /\ stage'[a] = "erase_user" /\ got'[v] = a
          /\ stage[v] \in Late /\ channel[v] = Place(a)
      BY <2>1, <2>4, GivenStep
    <3>2. Started(v) /\ Started(a) BY <3>1 DEF Late, Started
    <3>3. Home(v)' = Home(v) /\ Author(v)' = Author(v) /\ Started(v)'
      BY <2>1, <3>2, WaiterStays
    <3>4. Home(v) = Home(a) /\ Author(v) = Author(a)
      BY <3>1, WaiterHome DEF Place, Author
    <3>5. Started(a)' /\ channel'[a] = channel[a] /\ Author(a)' = Author(a)
      BY <2>1, <3>1, <3>2, PassedStep DEF Author
    <3>6. a \in personal' <=> a \in personal BY <2>1, <3>1, Others
    <3>7. Given(v, a)'
      BY <3>1, <3>3, <3>4, <3>5, <3>6 DEF Given, Passed, Home
    <3> QED BY <3>1, <3>3, <3>4, <3>7
  <2>5. ASSUME NEW v \in Waiters, got'[v] # Nobody PROVE Given(v, got[v])'
    <3>1. CASE got'[v] # got[v] BY <2>4, <3>1 DEF Given, Home, Author, Started
    <3>2. CASE got'[v] = got[v] BY <2>3, <2>5, <3>2
    <3> QED BY <3>1, <3>2
  \* The new waiter and one of the same message that waits in its group
  <2>6. ASSUME NEW v \in Waiters, NEW w \in Waiters, got'[v] # got[v], got'[v] = got'[w],
               got'[w] = got[w]
        PROVE  (Home(v)' = Anywhere) # (Home(w)' = Anywhere)
    <3>1. /\ got'[v] = a /\ a \in Messages /\ stage[a] = "popped" /\ Home(v)' = Home(a)
          /\ got[w] = a /\ got[w] # Nobody
      BY <2>4, <2>6, ActorAssumption
    <3>2. Given(w, a) /\ Home(w)' = Home(w) BY <2>3, <3>1 DEF GotInv
    <3>3. Home(w) = channel[a][1] /\ a \in personal BY <3>1, <3>2 DEF Given, Passed
    <3>4. Home(a) = Anywhere /\ channel[a][1] # Anywhere
      BY <3>1, <3>3, Places DEF Started
    <3> QED BY <3>1, <3>2, <3>3, <3>4
  <2>7. ASSUME NEW v \in Waiters, NEW w \in Waiters, got'[v] # Nobody, got'[v] = got'[w]
        PROVE  OneOfKind(v, w)'
    <3>1. CASE got'[v] # got[v] /\ got'[w] # got[w] BY <2>4, <3>1 DEF OneOfKind
    <3>2. CASE got'[v] # got[v] /\ got'[w] = got[w] BY <2>6, <2>7, <3>2 DEF OneOfKind
    <3>3. CASE got'[v] = got[v] /\ got'[w] # got[w] BY <2>6, <2>7, <3>3 DEF OneOfKind
    <3>4. CASE got'[v] = got[v] /\ got'[w] = got[w]
      <4>1. OneOfKind(v, w) BY <2>7, <3>4 DEF GotInv
      <4> QED BY <2>3, <2>7, <3>4, <4>1 DEF OneOfKind
    <3> QED BY <3>1, <3>2, <3>3, <3>4
  <2> QED BY <2>5, <2>7 DEF GotInv
<1> QED BY <1>1, <1>2

LEMMA GotInvariant == WaitSpec => []GotInv
<1>1. WaitInit => GotInv BY DEF WaitInit, GotInv
<1>2. Locked /\ Locked' /\ GotInv /\ [WaitNext]_waitVars => GotInv'
  BY GotStep DEF Locked
<1> QED BY <1>1, <1>2, LockedInvariant, PTL DEF WaitSpec

\* The value of a promise is the only message that its waiter was given: a second
\* one would have overwritten it.
HistoryInv == \A m \in Messages, w \in Waiters : <<m, w>> \in given => got[w] = m

LEMMA HistoryStep == Locked /\ HistoryInv /\ [WaitNext]_waitVars => HistoryInv'
<1> SUFFICES ASSUME Locked, HistoryInv, [WaitNext]_waitVars PROVE HistoryInv' OBVIOUS
<1>1. CASE UNCHANGED waitVars BY <1>1 DEF waitVars, HistoryInv
<1>2. CASE WaitNext
  <2>1. PICK a \in Actors : StepOf(a) BY <1>2, OneSteps
  <2>2. ASSUME NEW m \in Messages, NEW w \in Waiters, <<m, w>> \in given
        PROVE  got'[w] = m
    <3>1. got[w] = m /\ m # Nobody BY <2>2, ActorAssumption DEF HistoryInv, Actors
    <3> QED BY <2>1, <3>1, GivenStep
  <2>3. ASSUME NEW m \in Messages, NEW w \in Waiters, <<m, w>> \in given',
               <<m, w>> \notin given
        PROVE  got'[w] = m
    <3>1. /\ got' = [got EXCEPT ![popped[a]] = a]
          /\ given' = given \cup {<<a, popped[a]>>}
      BY <2>1, <2>3, GotEffect DEF Locked
    <3>2. m = a /\ w = popped[a] BY <2>3, <3>1
    <3> QED BY <3>1, <3>2 DEF Locked, Typed, WaitTypeOK
  <2> QED BY <2>2, <2>3 DEF HistoryInv
<1> QED BY <1>1, <1>2

LEMMA HistoryInvariant == WaitSpec => []HistoryInv
<1>1. WaitInit => HistoryInv BY DEF WaitInit, HistoryInv
<1> QED BY <1>1, HistoryStep, LockedInvariant, PTL DEF WaitSpec

\* On any number of threads a message goes to at most one waiter of its author in
\* its group and at most one that waits anywhere, and a waiter is given at most one
\* message, of its own user and group: the mutex of a channel is enough for its
\* queue, and no promise is fulfilled twice.
THEOREM OneToOneHolds == WaitSpec => []OneToOne
<1>1. GotInv /\ HistoryInv => OneToOne
  <2> SUFFICES ASSUME GotInv, HistoryInv PROVE OneToOne OBVIOUS
  <2>1. ASSUME NEW m \in Messages, NEW v \in Waiters, <<m, v>> \in given
        PROVE  got[v] = m /\ got[v] # Nobody
    BY <2>1, ActorAssumption DEF HistoryInv, Actors
  <2>2. \A m \in Messages, v \in Waiters : <<m, v>> \in given =>
           Author(v) = Author(m) /\ Home(v) \in {channel[m][1], Anywhere}
    BY <2>1 DEF GotInv, Given
  <2>3. \A m \in Messages, v, w \in Waiters : <<m, v>> \in given /\ <<m, w>> \in given =>
           v = w \/ (Home(v) = Anywhere) # (Home(w) = Anywhere)
    BY <2>1 DEF GotInv, OneOfKind
  <2>4. \A m, n \in Messages, w \in Waiters : <<m, w>> \in given /\ <<n, w>> \in given =>
           m = n
    BY <2>1
  <2> QED BY <2>2, <2>3, <2>4 DEF OneToOne
<1> QED BY <1>1, GotInvariant, HistoryInvariant, PTL

-----------------------------------------------------------------------------
(***************************************************************************)
(* One thread.  A step is taken between two suspension points, so nobody   *)
(* else is there, or it starts from one, so nobody at all is.              *)
(***************************************************************************)
LEMMA InsideStep ==
    ASSUME NEW a \in Actors, StepOf(a), ~parallel
    PROVE  Inside(a) \/ \A b \in Actors : ~Inside(b)
<1> USE DEF Inside, MayEnter
<1>1. CASE a \in Waiters /\ Waiter(a)
  BY <1>1 DEF Waiter, WaitLock, WaitGroup, WaitPush, Receive, Timeout, Release
<1>2. CASE a \in Messages /\ Message(a)
  <2>1. CASE CountGroup(a) BY <2>1 DEF CountGroup
  <2>2. CASE Second(a) \/ CountUser(a) BY <2>2 DEF Second, CountUser
  <2>3. CASE FeedLock(a) \/ Front(a) BY <2>3 DEF FeedLock, Front
  <2>4. CASE PopPromise(a) \/ Feed(a) BY <2>4 DEF PopPromise, Feed
  <2>5. CASE EraseUser(a) \/ LookGroup(a) \/ EraseGroup(a)
    BY <2>5 DEF EraseUser, LookGroup, EraseGroup
  <2> QED BY <1>2, <2>1, <2>2, <2>3, <2>4, <2>5 DEF Message
<1> QED BY <1>1, <1>2 DEF StepOf

SoloInv == ~parallel => \A a, b \in Actors : Inside(a) /\ Inside(b) => a = b

\* On one thread nobody else is inside when an actor takes a step.
LEMMA Alone ==
    ASSUME SoloInv, ~parallel, NEW a \in Actors, StepOf(a), NEW b \in Actors, Inside(b)
    PROVE  b = a
BY InsideStep DEF SoloInv

LEMMA SoloStep == Typed /\ SoloInv /\ [WaitNext]_waitVars => SoloInv'
<1> SUFFICES ASSUME Typed, SoloInv, [WaitNext]_waitVars PROVE SoloInv' OBVIOUS
<1>1. CASE UNCHANGED waitVars BY <1>1 DEF waitVars, SoloInv, Inside
<1>2. CASE WaitNext
  <2>1. PICK a \in Actors : StepOf(a) BY <1>2, OneSteps
  <2>2. parallel' = parallel BY <1>2 DEF WaitNext
  <2>3. \A b \in Actors : b # a => (Inside(b)' <=> Inside(b)) BY <2>1, Others DEF Inside
  <2>4. ~parallel => \A b \in Actors : b # a => ~Inside(b)'
    BY <2>1, <2>3, InsideStep DEF SoloInv
  <2> QED BY <2>2, <2>4 DEF SoloInv
<1> QED BY <1>1, <1>2

\* What a step does to the keys of the maps.
LEMMA MapEffect ==
    ASSUME Typed, NEW a \in Actors, StepOf(a)
    PROVE  /\ \A g \in Homes : g \in groups /\ g \notin groups' =>
                 a \in Messages /\ stage[a] = "erase_group" /\ g = Home(a)
           /\ \A g \in Homes : \A u \in users'[g] : u \notin users[g] =>
                 a \in Waiters /\ stage[a] = "push" /\ g = Home(a) /\ u = Author(a)
           /\ \A g \in Homes : \A u \in users[g] : u \notin users'[g] =>
                 /\ a \in Messages /\ g = Home(a)
                 /\ \/ stage[a] = "erase_group"
                    \/ stage[a] = "erase_user" /\ u = Author(a) /\ promises[Place(a)] = <<>>
<1> USE ActorAssumption DEF Typed, WaitTypeOK, maps
<1>1. CASE a \in Waiters /\ Waiter(a)
  <2>1. CASE WaitLock(a) BY <2>1 DEF WaitLock
  <2>2. CASE WaitGroup(a) BY <2>2 DEF WaitGroup
  <2>3. CASE WaitPush(a)
    <3>1. /\ groups' = groups /\ stage[a] = "push"
          /\ \/ users' = users
             \/ users' = [users EXCEPT ![Home(a)] = users[Home(a)] \cup {Author(a)}]
      BY <2>3 DEF WaitPush
    <3> QED BY <1>1, <3>1
  <2>4. CASE Receive(a) \/ Timeout(a) \/ Release(a)
    BY <2>4 DEF Receive, Timeout, Release
  <2> QED BY <1>1, <2>1, <2>2, <2>3, <2>4 DEF Waiter
<1>2. CASE a \in Messages /\ Message(a)
  <2>1. CASE CountGroup(a) BY <2>1 DEF CountGroup
  <2>2. CASE Second(a) BY <2>2 DEF Second
  <2>3. CASE CountUser(a) BY <2>3 DEF CountUser, Throws
  <2>4. CASE FeedLock(a) BY <2>4 DEF FeedLock
  <2>5. CASE Front(a) BY <2>5 DEF Front, Throws
  <2>6. CASE PopPromise(a) BY <2>6 DEF PopPromise, Throws
  <2>7. CASE Feed(a) BY <2>7 DEF Feed
  <2>8. CASE EraseUser(a)
    <3>1. /\ groups' = groups /\ stage[a] = "erase_user"
          /\ \/ users' = users
             \/ /\ promises[Place(a)] = <<>>
                /\ users' = [users EXCEPT ![Home(a)] = users[Home(a)] \ {Author(a)}]
      BY <2>8 DEF EraseUser, Throws
    <3> QED BY <1>2, <3>1
  <2>9. CASE LookGroup(a) BY <2>9 DEF LookGroup, Throws
  <2>10. CASE EraseGroup(a)
    <3>1. /\ groups' = groups \ {Home(a)} /\ stage[a] = "erase_group"
          /\ users' = [users EXCEPT ![Home(a)] = {}]
      BY <2>10 DEF EraseGroup
    <3> QED BY <1>2, <3>1
  <2> QED BY <1>2, <2>1, <2>2, <2>3, <2>4, <2>5, <2>6, <2>7, <2>8, <2>9, <2>10 DEF Message
<1> QED BY <1>1, <1>2 DEF StepOf

\* What a message needs of the maps at each step, for no at() to throw.
Needs(m) ==
    /\ stage[m] \in {"count", "look", "erase_group"} => Home(m) \in groups
    /\ stage[m] \in {"lock", "feed", "pop", "popped", "erase_user"} => Present(Place(m))

OneThreadInv ==
    ~parallel => ~terminated /\ \A m \in Messages : Needs(m)

\* With what it needs a message takes a step that does not throw, and then has
\* what the next one needs.
LEMMA NeedsStep ==
    ASSUME Typed, NEW m \in Messages, StepOf(m), Needs(m)
    PROVE  Needs(m)' /\ terminated' = terminated
<1> USE ActorAssumption
<1>0. Message(m) /\ m \in Actors BY DEF StepOf, Actors
<1>1. \A to : Go(m, to) => stage'[m] = to BY <1>0, StageStep
<1>2. stage[m] \notin {"new", "second"} =>
         Home(m)' = Home(m) /\ Place(m)' = Place(m)
  BY <1>0, SamePlace
<1>3. Place(m)[1] = Home(m) /\ Place(m)[2] = Author(m) BY DEF Place
<1>4. CASE CountGroup(m)
  <2>1. PICK ch \in Groups \X Users :
           /\ channel' = [channel EXCEPT ![m] = ch]
           /\ Go(m, IF ch[1] \in groups THEN "count" ELSE "second")
    BY <1>4 DEF CountGroup
  <2>2. UNCHANGED <<maps, personal, terminated>> /\ m \notin personal
    BY <1>4 DEF CountGroup, Typed, ShapeInv, Started
  <2>3. Home(m)' = ch[1] BY <1>0, <2>1, <2>2 DEF Home, Typed, WaitTypeOK
  <2> QED BY <1>1, <2>1, <2>2, <2>3 DEF Needs, maps
<1>5. CASE Second(m)
  <2>1. Home(m)' = Anywhere /\ stage'[m] = "count" BY <1>1, <1>5 DEF Second, Home
  <2> QED BY <1>5, <2>1 DEF Second, Needs, Typed, ShapeInv, maps
<1>6. CASE CountUser(m)
  BY <1>1, <1>2, <1>3, <1>6 DEF CountUser, Needs, Present, Leave, maps
<1>7. CASE FeedLock(m) BY <1>1, <1>2, <1>7 DEF FeedLock, Needs, Present, maps
<1>8. CASE Front(m) BY <1>1, <1>2, <1>8 DEF Front, Needs, Present, maps
<1>9. CASE PopPromise(m) BY <1>1, <1>2, <1>9 DEF PopPromise, Needs, Present
<1>10. CASE Feed(m) BY <1>1, <1>2, <1>10 DEF Feed, Needs, Present, maps
<1>11. CASE EraseUser(m) BY <1>1, <1>2, <1>3, <1>11 DEF EraseUser, Needs, Present, Leave
<1>12. CASE LookGroup(m) BY <1>1, <1>2, <1>12 DEF LookGroup, Needs, Leave, maps
<1>13. CASE EraseGroup(m) BY <1>1, <1>2, <1>13 DEF EraseGroup, Needs, Leave
<1> QED BY <1>0, <1>4, <1>5, <1>6, <1>7, <1>8, <1>9, <1>10, <1>11, <1>12, <1>13
   DEF Message

LEMMA OneThreadStep ==
    Typed /\ SoloInv /\ OneThreadInv /\ [WaitNext]_waitVars => OneThreadInv'
<1> SUFFICES ASSUME Typed, SoloInv, OneThreadInv, [WaitNext]_waitVars
             PROVE  OneThreadInv'
  OBVIOUS
<1>1. CASE UNCHANGED waitVars
  BY <1>1 DEF waitVars, maps, OneThreadInv, Needs, Present, Place, Home, Author
<1>2. CASE WaitNext
  <2>0. parallel' = parallel BY <1>2 DEF WaitNext
  <2>1. PICK a \in Actors : StepOf(a) BY <1>2, OneSteps
  <2>2. SUFFICES ASSUME ~parallel PROVE ~terminated' /\ \A m \in Messages : Needs(m)'
    BY <2>0 DEF OneThreadInv
  <2>3. ~terminated'
    <3>1. CASE a \in Messages BY <2>1, <2>2, <3>1, NeedsStep DEF OneThreadInv
    <3>2. CASE a \in Waiters /\ Waiter(a)
      BY <2>2, <3>2 DEF OneThreadInv, Waiter, WaitLock, WaitGroup, WaitPush, Receive,
         Timeout, Release
    <3> QED BY <2>1, <3>1, <3>2 DEF StepOf
  <2>4. ASSUME NEW m \in Messages PROVE Needs(m)'
    <3>1. CASE m = a BY <2>1, <2>2, <3>1, NeedsStep DEF OneThreadInv
    <3>2. CASE m # a
      <4>1. m \in Actors /\ stage'[m] = stage[m] BY <2>1, <3>2, Others DEF Actors
      <4>2. ~Inside(m) BY <2>1, <2>2, <3>2, <4>1, Alone
      <4> QED BY <4>1, <4>2 DEF Inside, Needs
    <3> QED BY <3>1, <3>2
  <2> QED BY <2>3, <2>4
<1> QED BY <1>1, <1>2

LEMMA OneThreadInvariant == WaitSpec => [](SoloInv /\ OneThreadInv)
<1>1. WaitInit => SoloInv /\ OneThreadInv
  <2>1. ASSUME WaitInit PROVE SoloInv /\ OneThreadInv
    <3>1. ~terminated /\ \A a \in Actors : stage[a] = "new" BY <2>1 DEF WaitInit
    <3> QED BY <3>1 DEF SoloInv, OneThreadInv, Needs, Inside, Actors
  <2> QED BY <2>1
<1>2. Locked /\ SoloInv /\ OneThreadInv /\ [WaitNext]_waitVars => (SoloInv /\ OneThreadInv)'
  BY SoloStep, OneThreadStep DEF Locked
<1> QED BY <1>1, <1>2, LockedInvariant, PTL DEF WaitSpec

\* On one scheduler thread no at() of EventProcess throws, whoever waits and speaks:
\* nothing runs between the test of a key and the last use of it.
THEOREM NoThrowOnOneThreadHolds == WaitSpec => []NoThrowOnOneThread
<1>1. OneThreadInv => NoThrowOnOneThread BY DEF OneThreadInv, NoThrowOnOneThread
<1> QED BY <1>1, OneThreadInvariant, PTL

-----------------------------------------------------------------------------
(***************************************************************************)
(* WaiterFindable.  Messages go only where somebody has waited, so that in *)
(* a group of one user they all meet at the mutex of the one channel.      *)
(***************************************************************************)
WaitedFor(ch) == \E v \in Waiters : Started(v) /\ channel[v] = ch

WaitedInv ==
    /\ \A g \in Homes : \A u \in users[g] : WaitedFor(<<g, u>>)
    /\ \A m \in Messages : stage[m] \in Holding \cup {"lock"} => WaitedFor(Place(m))

\* A message comes to its lock from a user's entry, and stays in its channel.
LEMMA SearchStep ==
    ASSUME Typed, NEW a \in Actors, StepOf(a), NEW m \in Messages,
           stage'[m] \in Holding \cup {"lock"}
    PROVE  /\ Place(m)' = Place(m)
           /\ \/ stage[m] \in Holding \cup {"lock"}
              \/ Home(m) \in Homes /\ Author(m) \in users[Home(m)]
<1>0. m \in Actors BY DEF Actors
<1>1. CASE m # a BY <1>0, <1>1, Others, SamePlace DEF Holding
<1>2. CASE m = a
  <2>0. Message(m) BY <1>2, ActorAssumption DEF StepOf
  <2>1. \A to : Go(m, to) => stage'[m] = to BY <1>0, StageStep
  <2>2. stage[m] \notin {"new", "second"}
    BY <2>0, <2>1 DEF Message, CountGroup, Second, CountUser, FeedLock, Front, PopPromise,
       Feed, EraseUser, LookGroup, EraseGroup, Holding
  <2>3. Home(m) \in Homes BY <2>2, Places DEF Started
  <2>4. stage[m] \in Holding \cup {"lock"} \/ Author(m) \in users[Home(m)]
    BY <2>0, <2>1, <2>2 DEF Message, CountGroup, Second, CountUser, FeedLock, Front,
       PopPromise, Feed, EraseUser, LookGroup, EraseGroup, Holding, Throws, Leave
  <2> QED BY <1>0, <1>2, <2>2, <2>3, <2>4, SamePlace
<1> QED BY <1>1, <1>2

LEMMA WaitedStep == Typed /\ WaitedInv /\ [WaitNext]_waitVars => WaitedInv'
<1> SUFFICES ASSUME Typed, WaitedInv, [WaitNext]_waitVars PROVE WaitedInv' OBVIOUS
<1>1. CASE UNCHANGED waitVars
  BY <1>1 DEF waitVars, maps, WaitedInv, WaitedFor, Started, Place, Home, Author
<1>2. CASE WaitNext
  <2>1. PICK a \in Actors : StepOf(a) BY <1>2, OneSteps
  <2>2. \A ch : WaitedFor(ch) => WaitedFor(ch)' BY <2>1, WaiterStays DEF WaitedFor
  <2>3. ASSUME NEW g \in Homes, NEW u \in users'[g] PROVE WaitedFor(<<g, u>>)'
    <3>1. CASE u \in users[g] BY <2>2, <3>1 DEF WaitedInv
    <3>2. CASE u \notin users[g]
      <4>1. a \in Waiters /\ stage[a] = "push" /\ g = Home(a) /\ u = Author(a)
        BY <2>1, <2>3, <3>2, MapEffect
      <4>2. Started(a) /\ channel[a] = <<g, u>> BY <4>1, Places DEF Started, Place
      <4> QED BY <2>2, <4>1, <4>2 DEF WaitedFor
    <3> QED BY <3>1, <3>2
  <2>4. ASSUME NEW m \in Messages, stage'[m] \in Holding \cup {"lock"}
        PROVE  WaitedFor(Place(m))'
    <3>1. Place(m)' = Place(m) /\ Place(m) = <<Home(m), Author(m)>>
      BY <2>1, <2>4, SearchStep DEF Place
    <3>2. WaitedFor(Place(m)) BY <2>1, <2>4, <3>1, SearchStep DEF WaitedInv
    <3>3. PICK v \in Waiters : Started(v) /\ channel[v] = Place(m)
      BY <3>2 DEF WaitedFor
    <3>4. Started(v)' /\ channel'[v] = channel[v] BY <2>1, <3>3, WaiterStays
    <3>5. \E x \in Waiters : Started(x)' /\ channel'[x] = Place(m)' BY <3>1, <3>3, <3>4
    <3> QED BY <3>5 DEF WaitedFor
  <2> QED BY <2>3, <2>4 DEF WaitedInv
<1> QED BY <1>1, <1>2

\* Nobody disturbs the waiter w.
Undisturbed(w) == parallel => ~Shares(w)

\* Where the promise of an undisturbed waiter is.
Queued(w) == Present(Place(w)) /\ In(w, promises[Place(w)])
Taken(w) == \E m \in Messages : stage[m] = "popped" /\ popped[m] = w

FindInv ==
    \A w \in Waiters : Started(w) /\ Undisturbed(w) =>
        /\ stage[w] = "push" => Home(w) \in groups
        /\ \A m \in Messages : stage[m] = "erase_group" /\ Home(m) = Home(w) =>
              users[Home(m)] = {}
        /\ stage[w] = "waiting" /\ got[w] = Nobody => Queued(w) \/ Taken(w)

Findable == Locked /\ SoloInv /\ WaitedInv /\ FindInv

\* A message in the group of an undisturbed waiter is in its channel when threads
\* run in parallel.
LEMMA SameChannel ==
    ASSUME Typed, WaitedInv, parallel, NEW w \in Waiters, Started(w), ~Shares(w),
           NEW m \in Messages, stage[m] \in Holding, Home(m) = Home(w)
    PROVE  Place(m) = Place(w)
<1>1. PICK v \in Waiters : Started(v) /\ channel[v] = Place(m) BY DEF WaitedInv, WaitedFor
<1>2. Home(v) = Home(m) /\ Author(v) = Author(m) BY <1>1, WaiterHome DEF Place, Author
<1>3. Author(v) = Author(w) BY <1>1, <1>2 DEF Shares, Started
<1> QED BY <1>2, <1>3 DEF Place

\* Nor does anybody come to disturb a waiter only for a while.
LEMMA UndisturbedStep ==
    ASSUME Typed, NEW a \in Actors, StepOf(a), parallel' = parallel, NEW w \in Waiters,
           Started(w), Undisturbed(w)'
    PROVE  Undisturbed(w)
<1> SUFFICES ASSUME parallel, NEW v \in Waiters, Started(v), Home(v) = Home(w),
                    Author(v) # Author(w)
             PROVE  Shares(w)'
  BY DEF Undisturbed, Shares, Started
<1>1. /\ Started(v)' /\ Home(v)' = Home(v) /\ Author(v)' = Author(v)
      /\ Home(w)' = Home(w) /\ Author(w)' = Author(w)
  BY WaiterStays
<1> QED BY <1>1 DEF Shares, Started

\* Somebody else inside the group of an undisturbed waiter that holds its channel,
\* is about to take it, or is served by a group that is being erased: nobody is.
LEMMA Apart ==
    ASSUME Findable, NEW a \in Actors, StepOf(a), NEW w \in Waiters, Started(w),
           Undisturbed(w), NEW m \in Messages, stage[m] \in Holding, Home(m) = Home(w),
           a # m
    PROVE  parallel /\ Place(m) = Place(w) /\ ~(Holds(a) /\ Place(a) = Place(w))
<1> USE DEF Findable, Locked
<1>1. m \in Actors /\ Inside(m) /\ Holds(m) BY DEF Actors, Inside, Holding, Holds
<1>2. parallel BY <1>1, Alone DEF Typed, WaitTypeOK
<1>3. Place(m) = Place(w) BY <1>2, SameChannel DEF Undisturbed
<1> QED BY <1>1, <1>2, <1>3, Mutual

\* A waiter that has just started, undisturbed, finds no group being erased.
LEMMA NewcomerStep ==
    ASSUME Findable, NEW w \in Waiters, StepOf(w), ~Started(w), Undisturbed(w)',
           parallel' = parallel, NEW m \in Messages, stage'[m] = "erase_group",
           Home(m)' = Home(w)'
    PROVE  FALSE
<1> USE ActorAssumption DEF Findable, Locked
<1>0. m \in Actors /\ w \in Actors /\ m # w BY DEF Actors
<1>1. WaitLock(w)
  BY <1>0 DEF StepOf, Waiter, WaitGroup, WaitPush, Receive, Timeout, Release, Started
<1>2. stage[m] = "erase_group" /\ Home(m)' = Home(m) /\ Place(m)' = Place(m)
  BY <1>0, Others, SamePlace
<1>3. Inside(m) /\ Holds(m) BY <1>2 DEF Inside, Holds, Holding
<1>4. parallel BY <1>0, <1>1, <1>3 DEF WaitLock, MayEnter, Typed, WaitTypeOK
<1>5. mutex[Place(w)'] = Nobody
  <2>1. PICK ch \in Channels : /\ mutex[ch] = Nobody
                               /\ channel' = [channel EXCEPT ![w] = ch]
    BY <1>1 DEF WaitLock
  <2>2. w \notin personal' BY <1>1 DEF WaitLock, Typed, WaitTypeOK
  <2>3. Place(w)' = ch
    BY <1>0, <2>1, <2>2 DEF Place, Home, Author, Channels, Typed, WaitTypeOK
  <2> QED BY <2>1, <2>3
<1>6. PICK v \in Waiters : Started(v) /\ channel[v] = Place(m)
  BY <1>2 DEF WaitedInv, WaitedFor, Holding
<1>7. Home(v) = Home(m) /\ Author(v) = Author(m) BY <1>6, WaiterHome DEF Place, Author
<1>8. Started(v)' /\ Home(v)' = Home(v) /\ Author(v)' = Author(v)
  BY <1>0, <1>6, WaiterStays
<1>9. ~Shares(w)' BY <1>4 DEF Undisturbed
<1>10. Author(v)' = Author(w)' BY <1>2, <1>7, <1>8, <1>9 DEF Shares, Started
<1>11. Place(w)' = Place(m) BY <1>2, <1>7, <1>8, <1>10 DEF Place
<1> QED BY <1>0, <1>3, <1>5, <1>11 DEF MutexInv

\* The promise of an undisturbed waiter stays where a message finds it.
LEMMA QueuedStep ==
    ASSUME Findable, NEW a \in Actors, StepOf(a), NEW w \in Waiters, Started(w),
           Undisturbed(w), Queued(w)
    PROVE  Queued(w)' \/ Taken(w)'
<1> USE DEF Findable, Locked
<1>0. /\ Place(w) \in Channels /\ Home(w) \in Homes /\ Place(w)' = Place(w)
      /\ Home(w)' = Home(w) /\ Author(w)' = Author(w)
      /\ Place(w)[1] = Home(w) /\ Place(w)[2] = Author(w)
  BY Places, WaiterStays DEF Place
<1>1. /\ Home(w) \in groups /\ Author(w) \in users[Home(w)]
      /\ In(w, promises[Place(w)]) /\ promises[Place(w)] # <<>>
  BY <1>0, EmptyIn DEF Queued, Present
<1>2. ~(a \in Messages /\ stage[a] = "erase_group" /\ Home(a) = Home(w))
  BY <1>1 DEF FindInv
<1>3. Home(w) \in groups' BY <1>0, <1>1, <1>2, MapEffect
<1>4. Author(w) \in users'[Home(w)]
  <2>1. SUFFICES ASSUME Author(w) \notin users'[Home(w)] PROVE FALSE OBVIOUS
  <2>2. Home(a) = Home(w) /\ stage[a] = "erase_user" /\ Author(w) = Author(a)
        /\ promises[Place(a)] = <<>>
    BY <1>0, <1>1, <1>2, <2>1, MapEffect
  <2> QED BY <1>1, <2>2 DEF Place
<1>5. Present(Place(w))' BY <1>0, <1>3, <1>4 DEF Present, Place
<1>6. CASE In(w, promises'[Place(w)]) BY <1>0, <1>5, <1>6 DEF Queued
<1>7. CASE ~In(w, promises'[Place(w)])
  <2> USE DEF Typed, WaitTypeOK
  <2>1. promises[Place(w)] \in Seq(Waiters) BY <1>0
  <2>2. CASE /\ a \in Waiters /\ stage[a] = "push" /\ stage'[a] = "waiting" /\ got' = got
             /\ promises' = [promises EXCEPT ![Place(a)] = Append(promises[Place(a)], a)]
    <3>1. In(w, Append(promises[Place(w)], a)) BY <1>1, <2>1, <2>2, AppendIn
    <3>2. promises'[Place(w)] \in {promises[Place(w)], Append(promises[Place(w)], a)}
      BY <1>0, <2>2
    <3> QED BY <1>1, <1>7, <3>1, <3>2
  <2>3. CASE /\ a \in Messages /\ stage[a] = "pop" /\ stage'[a] = "popped"
             /\ promises[Place(a)] # <<>> /\ got' = got
             /\ promises' = [promises EXCEPT ![Place(a)] = Tail(promises[Place(a)])]
    <3>1. Place(a) = Place(w) BY <1>0, <1>1, <1>7, <2>3
    <3>2. promises'[Place(w)] = Tail(promises[Place(w)]) BY <1>0, <2>3, <3>1
    <3>3. w = Head(promises[Place(w)]) BY <1>1, <1>7, <2>1, <3>2, TailIn
    <3>4. popped[a] = w BY <1>1, <2>3, <3>1, <3>3 DEF PopInv
    <3>5. popped' = popped BY <2>3, PopEffect
    <3> QED BY <2>3, <3>4, <3>5 DEF Taken
  <2>4. CASE /\ a \in Messages /\ stage[a] = "erase_group"
    <3>1. EraseGroup(a)
      BY <2>4, ActorAssumption DEF StepOf, Message, CountGroup, Second, CountUser, FeedLock,
         Front, PopPromise, Feed, EraseUser, LookGroup
    <3>2. promises'[Place(w)] = promises[Place(w)]
      BY <1>0, <1>2, <2>4, <3>1 DEF EraseGroup
    <3> QED BY <1>1, <1>7, <3>2
  <2> QED BY <1>1, <1>7, <2>2, <2>3, <2>4, QueueEffect
<1> QED BY <1>6, <1>7

\* A message that has taken a promise gives it the message.
LEMMA TakenStep ==
    ASSUME Findable, NEW a \in Actors, StepOf(a), NEW w \in Waiters,
           stage[w] = "waiting", Taken(w), got'[w] = Nobody
    PROVE  Taken(w)'
<1> USE ActorAssumption DEF Findable, Locked
<1>1. PICK m \in Messages : stage[m] = "popped" /\ popped[m] = w BY DEF Taken
<1>2. m \in Actors BY DEF Actors
<1>3. CASE m # a BY <1>1, <1>2, <1>3, Others DEF Taken
<1>4. CASE m = a
  <2>1. Feed(m)
    BY <1>1, <1>4 DEF StepOf, Message, CountGroup, Second, CountUser, FeedLock, Front,
       PopPromise, EraseUser, LookGroup, EraseGroup
  <2>2. got' = [got EXCEPT ![w] = m] BY <1>1, <2>1 DEF Feed, PromiseAlive
  <2>3. got'[w] = m BY <2>2 DEF Typed, WaitTypeOK
  <2> QED BY <1>2, <2>3
<1> QED BY <1>3, <1>4

LEMMA FindStep == Findable /\ [WaitNext]_waitVars => FindInv'
<1> SUFFICES ASSUME Findable, [WaitNext]_waitVars PROVE FindInv' OBVIOUS
<1>1. CASE UNCHANGED waitVars
  <2>1. UNCHANGED <<parallel, groups, users, promises, channel, personal, stage, popped, got>>
    BY <1>1 DEF waitVars, maps
  <2> QED BY <2>1 DEF Findable, FindInv, Queued, Taken, Present, Place, Home, Author, Started,
       Undisturbed, Shares
<1>2. CASE WaitNext
  <2> USE DEF Findable, Locked
  <2>0. parallel' = parallel BY <1>2 DEF WaitNext
  <2>1. PICK a \in Actors : StepOf(a) BY <1>2, OneSteps
  <2>2. SUFFICES ASSUME NEW w \in Waiters, Started(w)', Undisturbed(w)'
                 PROVE  /\ stage'[w] = "push" => Home(w)' \in groups'
                        /\ \A m \in Messages : stage'[m] = "erase_group" /\ Home(m)' = Home(w)'
                              => users'[Home(m)'] = {}
                        /\ stage'[w] = "waiting" /\ got'[w] = Nobody => Queued(w)' \/ Taken(w)'
    BY DEF FindInv
  <2>3. w \in Actors BY DEF Actors
  <2>4. CASE ~Started(w)
    <3>1. w = a BY <2>1, <2>2, <2>3, <2>4, Others DEF Started
    <3>2. WaitLock(w)
      BY <2>1, <2>4, <3>1, ActorAssumption
      DEF StepOf, Waiter, WaitGroup, WaitPush, Receive, Timeout, Release, Started
    <3>3. stage'[w] = "locked" BY <2>3, <3>2, StageStep DEF WaitLock
    <3> QED BY <2>0, <2>1, <2>2, <2>4, <3>1, <3>3, NewcomerStep
  <2>5. CASE Started(w)
    <3>0. Undisturbed(w) BY <2>0, <2>1, <2>2, <2>5, UndisturbedStep
    <3>1. /\ Home(w)' = Home(w) /\ Place(w)' = Place(w) /\ Author(w)' = Author(w)
          /\ Home(w) \in Homes /\ Place(w) \in Channels /\ Author(w) \in Users
          /\ Place(w)[1] = Home(w) /\ Place(w)[2] = Author(w)
      BY <2>1, <2>5, WaiterStays, Places DEF Place
    <3>2. ASSUME stage'[w] = "push" PROVE Home(w) \in groups'
      <4>1. CASE w = a
        <5>1. WaitGroup(w)
          BY <2>1, <2>3, <3>2, <4>1, StageStep, ActorAssumption
          DEF StepOf, Waiter, WaitLock, WaitPush, Receive, Timeout, Release
        <5> QED BY <5>1 DEF WaitGroup
      <4>2. CASE w # a
        <5>1. stage[w] = "push" BY <2>1, <2>3, <3>2, <4>2, Others
        <5>2. Home(w) \in groups BY <2>5, <3>0, <5>1 DEF FindInv
        <5>3. SUFFICES ASSUME Home(w) \notin groups' PROVE FALSE OBVIOUS
        <5>4. a \in Messages /\ stage[a] = "erase_group" /\ Home(w) = Home(a)
          BY <2>1, <3>1, <5>2, <5>3, MapEffect
        <5>5. Inside(w) /\ Holds(w) /\ Holds(a)
          BY <5>1, <5>4 DEF Inside, Holds, Holding
        <5>6. parallel BY <2>1, <2>3, <4>2, <5>5, Alone DEF Typed, WaitTypeOK
        <5>7. Place(a) = Place(w)
          BY <2>5, <3>0, <5>4, <5>6, SameChannel DEF Undisturbed, Holding
        <5> QED BY <2>3, <4>2, <5>5, <5>7, Mutual
      <4> QED BY <4>1, <4>2
    <3>3. ASSUME NEW m \in Messages, stage'[m] = "erase_group", Home(m)' = Home(w)
          PROVE  users'[Home(m)'] = {}
      <4>0. m \in Actors BY DEF Actors
      <4>1. CASE m = a
        <5>1. LookGroup(m)
          BY <2>1, <3>3, <4>0, <4>1, StageStep, ActorAssumption
          DEF StepOf, Message, CountGroup, Second, CountUser, FeedLock, Front, PopPromise,
              Feed, EraseUser, EraseGroup, Leave, Throws
        <5>2. users' = users /\ users[Home(m)] = {} /\ Home(m)' = Home(m)
          BY <2>1, <3>3, <4>0, <4>1, <5>1, StageStep, SamePlace
          DEF LookGroup, Throws, Leave, maps
        <5> QED BY <5>2
      <4>2. CASE m # a
        <5>1. stage[m] = "erase_group" /\ Home(m)' = Home(m)
          BY <2>1, <3>3, <4>0, <4>2, Others, SamePlace
        <5>2. users[Home(w)] = {} BY <2>5, <3>0, <3>3, <5>1 DEF FindInv
        <5>3. SUFFICES ASSUME NEW u \in users'[Home(w)] PROVE FALSE BY <3>3
        <5>4. /\ a \in Waiters /\ stage[a] = "push" /\ Home(w) = Home(a)
          BY <2>1, <3>1, <5>2, <5>3, MapEffect
        <5>5. Started(a) /\ Holds(a) BY <5>4 DEF Started, Holds
        <5>6. parallel /\ Place(m) = Place(w) /\ ~(Holds(a) /\ Place(a) = Place(w))
          BY <2>1, <2>5, <3>0, <3>3, <4>2, <5>1, Apart DEF Holding
        <5>7. Author(a) = Author(w)
          BY <3>0, <5>4, <5>5, <5>6 DEF Undisturbed, Shares, Started
        <5> QED BY <5>4, <5>5, <5>6, <5>7 DEF Place
      <4> QED BY <4>1, <4>2
    <3>4. ASSUME stage'[w] = "waiting", got'[w] = Nobody PROVE Queued(w)' \/ Taken(w)'
      <4>1. CASE stage[w] = "waiting"
        <5>1. got[w] = Nobody BY <2>1, <3>4, GivenStep
        <5>2. Queued(w) \/ Taken(w) BY <2>5, <3>0, <4>1, <5>1 DEF FindInv
        <5> QED BY <2>1, <2>5, <3>0, <3>4, <4>1, <5>2, QueuedStep, TakenStep
      <4>2. CASE stage[w] # "waiting"
        <5>1. w = a BY <2>1, <2>3, <3>4, <4>2, Others
        <5>2. WaitPush(w)
          BY <2>1, <2>3, <3>4, <4>2, <5>1, StageStep, ActorAssumption
          DEF StepOf, Waiter, WaitLock, WaitGroup, Receive, Timeout, Release
        <5>3. Home(w) \in groups BY <2>5, <3>0, <5>2 DEF FindInv, WaitPush
        <5>4. /\ groups' = groups
              /\ users' = [users EXCEPT ![Home(w)] = users[Home(w)] \cup {Author(w)}]
              /\ promises' = [promises EXCEPT ![Place(w)] = Append(promises[Place(w)], w)]
          BY <5>2, <5>3 DEF WaitPush
        <5>5. Author(w) \in users'[Home(w)] BY <3>1, <5>4 DEF Typed, WaitTypeOK
        <5>6. promises'[Place(w)] = Append(promises[Place(w)], w)
              /\ promises[Place(w)] \in Seq(Waiters)
          BY <3>1, <5>4 DEF Typed, WaitTypeOK
        <5>7. In(w, promises'[Place(w)]) BY <5>6, AppendIn
        <5>8. Present(Place(w))' BY <3>1, <5>3, <5>4, <5>5 DEF Present
        <5> QED BY <3>1, <5>7, <5>8 DEF Queued
      <4> QED BY <4>1, <4>2
    <3> QED BY <3>1, <3>2, <3>3, <3>4
  <2> QED BY <2>4, <2>5
<1> QED BY <1>1, <1>2

LEMMA FindableInvariant == WaitSpec => []Findable
<1>1. WaitInit => WaitedInv /\ FindInv
  <2>1. ASSUME WaitInit PROVE WaitedInv /\ FindInv
    <3>1. \A m \in Messages : stage[m] = "new" BY <2>1 DEF WaitInit, Actors
    <3>2. \A w \in Waiters : ~Started(w) BY <2>1 DEF WaitInit, Actors, Started
    <3>3. \A g \in Homes : users[g] = {} BY <2>1 DEF WaitInit
    <3>4. WaitedInv BY <3>1, <3>3 DEF WaitedInv, Holding
    <3>5. FindInv BY <3>2 DEF FindInv
    <3> QED BY <3>4, <3>5
  <2> QED BY <2>1
<1>2. /\ Locked /\ Locked' /\ SoloInv /\ SoloInv' /\ WaitedInv /\ FindInv
      /\ [WaitNext]_waitVars
      => (WaitedInv /\ FindInv)'
  BY WaitedStep, FindStep DEF Findable, Locked
<1>3. Locked /\ SoloInv /\ WaitedInv /\ FindInv => Findable BY DEF Findable
<1> QED BY <1>1, <1>2, <1>3, LockedInvariant, OneThreadInvariant, PTL DEF WaitSpec

\* Nothing disturbs a waiter whose user is the only one that waits in its group: until
\* a message reaches it, its group, user and queue lead to its promise.
THEOREM WaiterFindableHolds == WaitSpec => []WaiterFindable
<1>1. Findable => WaiterFindable
  <2>1. SUFFICES ASSUME Findable, NEW w \in Waiters, stage[w] = "waiting", got[w] = Nobody,
                        parallel => ~Shares(w)
                 PROVE  Queued(w) \/ Taken(w)
    BY DEF WaiterFindable, Queued, Taken, In
  <2> QED BY <2>1 DEF Findable, FindInv, Started, Undisturbed
<1> QED BY <1>1, FindableInvariant, PTL
=============================================================================
