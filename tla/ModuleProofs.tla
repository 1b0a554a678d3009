---------------------------- MODULE ModuleProofs ----------------------------
(***************************************************************************)
(* Proofs about the modules of the bot (src/source/modules/module), for    *)
(* all values of their constants: BotManage, Weibo, WeatherSearch,         *)
(* Bilibili, Zhanbu, Feedback and EorzeaWeather, and about CsvReader, from *)
(* which the last of them has its tables.  They share no state, and each   *)
(* has its part of this module, with an inductive invariant of its own.    *)
(***************************************************************************)
EXTENDS BotManage, Weibo, WeatherSearch, Bilibili, Zhanbu, Feedback,
        EorzeaWeather, CsvReader, FiniteSetTheorems, WellFoundedInduction, TLAPS

-----------------------------------------------------------------------------
(***************************************************************************)
(* BotManage.  An entry goes into its table before the map and out of the  *)
(* map before the table: an entry that nothing has put in doubt is never   *)
(* in the map alone, and in the table alone only while a coroutine is at   *)
(* it.                                                                     *)
(***************************************************************************)
AddSteps == {"info", "insert", "emplace"}

Changes == [todo : Seq(Listable) \ {<<>>}, step : AddSteps \cup {"delete"}]

Deleting(i) == \E c \in changes : c.step = "delete" /\ i \in Of(c)
Adding(i) == \E c \in changes : c.step # "delete" /\ i \in Of(c)

Shape ==
    /\ changes \subseteq Changes
    /\ up \in BOOLEAN
    /\ ~up => changes = {}

\* What holds of an entry that is not in doubt
EntryInv(i) ==
    /\ ~(Adding(i) /\ Deleting(i))
    /\ \A c \in changes : c.step = "emplace" /\ Head(c.todo) = i => i \in table
    /\ up /\ i \in black_list => i \in table /\ ~Deleting(i)
    /\ up /\ i \in table => i \in black_list \/ Busy(i) \/ i \in unread
    /\ i \in banned => i \in table /\ ~Deleting(i) /\ (up => i \in black_list \cup unread)
    /\ up /\ i \in unread => i \in table \ black_list /\ ~Deleting(i)

IInv == Shape /\ \A i \in Listable \ doubted : EntryInv(i)

-----------------------------------------------------------------------------
LEMMA OfTail ==
    ASSUME NEW c \in Changes
    PROVE  /\ Head(c.todo) \in Listable
           /\ Head(c.todo) \in Of(c)
           /\ Tail(c.todo) \in Seq(Listable)
           /\ Of(c) = {Head(c.todo)} \cup
                        {Tail(c.todo)[k] : k \in DOMAIN Tail(c.todo)}
<1>1. c.todo \in Seq(Listable) /\ c.todo # <<>> BY DEF Changes
<1>2. Len(c.todo) \in Nat \ {0} /\ DOMAIN c.todo = 1 .. Len(c.todo) BY <1>1
<1>3. /\ Tail(c.todo) \in Seq(Listable)
      /\ Len(Tail(c.todo)) = Len(c.todo) - 1
      /\ DOMAIN Tail(c.todo) = 1 .. (Len(c.todo) - 1)
      /\ \A k \in 1 .. (Len(c.todo) - 1) : Tail(c.todo)[k] = c.todo[k + 1]
  BY <1>1, <1>2
<1>4. Head(c.todo) = c.todo[1] /\ c.todo[1] \in Listable BY <1>1, <1>2
<1>5. Head(c.todo) \in Of(c) BY <1>2, <1>4 DEF Of
<1>6. Of(c) \subseteq {Head(c.todo)} \cup {Tail(c.todo)[k] : k \in DOMAIN Tail(c.todo)}
  <2> SUFFICES ASSUME NEW k \in DOMAIN c.todo, k # 1
               PROVE  \E j \in DOMAIN Tail(c.todo) : Tail(c.todo)[j] = c.todo[k]
    BY <1>4 DEF Of
  <2>1. k - 1 \in 1 .. (Len(c.todo) - 1) /\ (k - 1) + 1 = k BY <1>2
  <2> QED BY <1>3, <2>1
<1>7. \A k \in DOMAIN Tail(c.todo) : Tail(c.todo)[k] \in Of(c)
  <2> TAKE k \in DOMAIN Tail(c.todo)
  <2>1. k + 1 \in DOMAIN c.todo /\ Tail(c.todo)[k] = c.todo[k + 1] BY <1>2, <1>3
  <2> QED BY <2>1 DEF Of
<1> QED BY <1>3, <1>4, <1>5, <1>6, <1>7

LEMMA InitIInv == ManageInit => IInv
BY DEF ManageInit, IInv, Shape, EntryInv, Adding, Deleting, Busy

\* A step that does not touch the lists
LEMMA OtherStep == IInv /\ UNCHANGED <<up, lists>> => IInv'
BY DEF IInv, Shape, EntryInv, Adding, Deleting, Busy, Of, lists

\* What a coroutine that begins adds to changes
LEMMA BeginStep ==
    ASSUME IInv, NEW todo \in Seq(Listable) \ {<<>>},
           NEW step \in {"info", "insert", "delete"}, BeginChange(todo, step), up
    PROVE  LET new == [todo |-> todo, step |-> step]
           IN  /\ changes' = changes \cup {new} /\ changes' \subseteq Changes
               /\ doubted \subseteq doubted'
               /\ \A i \in Listable \ doubted' :
                    /\ Busy(i) => Busy(i)'
                    /\ i \in Of(new) => Busy(i)'
                    /\ Deleting(i)' <=> Deleting(i) \/ (step = "delete" /\ i \in Of(new))
                    /\ Adding(i)' <=> Adding(i) \/ (step # "delete" /\ i \in Of(new))
                    /\ i \in Of(new) => IF step = "delete" THEN ~Adding(i)
                                                           ELSE ~Deleting(i)
<1> DEFINE new == [todo |-> todo, step |-> step]
<1>1. /\ changes' = changes \cup {new}
      /\ doubted' = doubted \cup
           (Of(new) \cap UNION {Of(c) : c \in {c \in changes :
                                   (c.step = "delete") # (step = "delete")}})
  BY DEF BeginChange
<1>2. changes' \subseteq Changes BY <1>1 DEF IInv, Shape, Changes, AddSteps
<1>3. ASSUME NEW i \in Listable \ doubted'
      PROVE  /\ Busy(i) => Busy(i)'
             /\ i \in Of(new) => Busy(i)'
             /\ Deleting(i)' <=> Deleting(i) \/ (step = "delete" /\ i \in Of(new))
             /\ Adding(i)' <=> Adding(i) \/ (step # "delete" /\ i \in Of(new))
  <2>1. Busy(i)' <=> Busy(i) \/ i \in Of(new) BY <1>1 DEF Busy, Of
  <2>2. Deleting(i)' <=> Deleting(i) \/ (new.step = "delete" /\ i \in Of(new))
    BY <1>1 DEF Deleting, Of
  <2>3. Adding(i)' <=> Adding(i) \/ (new.step # "delete" /\ i \in Of(new))
    BY <1>1 DEF Adding, Of
  <2> QED BY <2>1, <2>2, <2>3
<1>4. ASSUME NEW i \in Listable \ doubted', i \in Of(new)
      PROVE  IF step = "delete" THEN ~Adding(i) ELSE ~Deleting(i)
  <2>1. \A c \in changes : (c.step = "delete") # (step = "delete") => i \notin Of(c)
    BY <1>1, <1>4
  <2> QED BY <2>1 DEF Adding, Deleting
<1> QED BY <1>1, <1>2, <1>3, <1>4

LEMMA BlackStep == ASSUME IInv, NEW i \in Listable, HandleBlack(i) PROVE IInv'
<1> DEFINE todo == <<i>>
           new == [todo |-> todo, step |-> "insert"]
<1>1. /\ up /\ up' = up /\ black_list' = black_list /\ table' = table /\ banned' = banned
      /\ unread' = unread
      /\ BeginChange(todo, "insert") /\ todo \in Seq(Listable) \ {<<>>}
  BY DEF HandleBlack
<1> HIDE DEF todo
<1>2. /\ changes' = changes \cup {new} /\ changes' \subseteq Changes
      /\ doubted \subseteq doubted'
      /\ \A j \in Listable \ doubted' :
           /\ Busy(j) => Busy(j)'
           /\ Deleting(j)' <=> Deleting(j)
           /\ Adding(j)' <=> Adding(j) \/ j \in Of(new)
           /\ j \in Of(new) => ~Deleting(j)
  BY <1>1, BeginStep
<1>3. Shape' BY <1>1, <1>2 DEF IInv, Shape
<1>4. ASSUME NEW j \in Listable \ doubted' PROVE EntryInv(j)'
  <2>1. EntryInv(j) BY <1>2 DEF IInv
  <2> QED BY <1>1, <1>2, <2>1 DEF EntryInv
<1> QED BY <1>3, <1>4 DEF IInv

LEMMA WhiteStep == ASSUME IInv, NEW i \in Listable, HandleWhite(i) PROVE IInv'
<1> DEFINE todo == <<i>>
           new == [todo |-> todo, step |-> "delete"]
<1>1. /\ up /\ up' = up /\ black_list' = black_list \ {i} /\ table' = table
      /\ banned' = banned \ {i} /\ unread' = unread /\ i \in black_list
      /\ BeginChange(todo, "delete") /\ todo \in Seq(Listable) \ {<<>>} /\ Of(new) = {i}
  BY DEF HandleWhite, Of
<1> HIDE DEF todo
<1>2. /\ changes' = changes \cup {new} /\ changes' \subseteq Changes
      /\ doubted \subseteq doubted'
      /\ \A j \in Listable \ doubted' :
           /\ Busy(j) => Busy(j)'
           /\ j \in Of(new) => Busy(j)'
           /\ Deleting(j)' <=> Deleting(j) \/ j \in Of(new)
           /\ Adding(j)' <=> Adding(j)
           /\ j \in Of(new) => ~Adding(j)
  BY <1>1, BeginStep
<1>3. Shape' BY <1>1, <1>2 DEF IInv, Shape
<1>4. ASSUME NEW j \in Listable \ doubted' PROVE EntryInv(j)'
  <2>1. EntryInv(j) BY <1>2 DEF IInv
  <2> QED BY <1>1, <1>2, <2>1 DEF EntryInv
<1> QED BY <1>3, <1>4 DEF IInv

LEMMA KickedStep ==
    ASSUME IInv, NEW g \in ChatGroups, NEW u \in Users, Kicked(g, u) PROVE IInv'
<1> DEFINE todo == <<g, u>>
           new == [todo |-> todo, step |-> "info"]
<1>1. CASE ~(up /\ watches) BY <1>1, OtherStep DEF Kicked, lists
<1>2. CASE up /\ watches
  <2>1. /\ up' = up /\ black_list' = black_list /\ table' = table /\ banned' = banned
        /\ unread' = unread
        /\ BeginChange(todo, "info") /\ todo \in Seq(Listable) \ {<<>>}
    BY <1>2 DEF Kicked, Listable
  <2> HIDE DEF todo
  <2>2. /\ changes' = changes \cup {new} /\ changes' \subseteq Changes
        /\ doubted \subseteq doubted'
        /\ \A j \in Listable \ doubted' :
             /\ Busy(j) => Busy(j)'
             /\ Deleting(j)' <=> Deleting(j)
             /\ Adding(j)' <=> Adding(j) \/ j \in Of(new)
             /\ j \in Of(new) => ~Deleting(j)
    BY <1>2, <2>1, BeginStep
  <2>3. Shape' BY <1>2, <2>1, <2>2 DEF IInv, Shape
  <2>4. ASSUME NEW j \in Listable \ doubted' PROVE EntryInv(j)'
    <3>1. EntryInv(j) BY <2>2 DEF IInv
    <3> QED BY <1>2, <2>1, <2>2, <3>1 DEF EntryInv
  <2> QED BY <2>3, <2>4 DEF IInv
<1> QED BY <1>1, <1>2

-----------------------------------------------------------------------------
\* A coroutine goes on with the same entries.
LEMMA SameTodo ==
    ASSUME IInv, NEW c \in changes, NEW step \in AddSteps, c.step # "delete",
           Replace(c, c.todo, step)
    PROVE  LET d == [todo |-> c.todo, step |-> step]
           IN  /\ changes' = (changes \ {c}) \cup {d} /\ changes' \subseteq Changes
               /\ \A i \in Listable : /\ Busy(i)' <=> Busy(i)
                                      /\ Deleting(i)' <=> Deleting(i)
                                      /\ Adding(i)' <=> Adding(i)
<1> DEFINE d == [todo |-> c.todo, step |-> step]
<1>1. c \in Changes /\ c.todo # <<>> BY DEF IInv, Shape, Changes
<1>2. changes' = (changes \ {c}) \cup {d} BY <1>1 DEF Replace
<1>3. changes' \subseteq Changes BY <1>1, <1>2 DEF IInv, Shape, Changes
<1>4. Of(d) = Of(c) /\ d.step # "delete" BY DEF Of, AddSteps
<1>5. \A i \in Listable : /\ Busy(i)' <=> Busy(i)
                          /\ Deleting(i)' <=> Deleting(i)
                          /\ Adding(i)' <=> Adding(i)
  <2> TAKE i \in Listable
  <2>1. Busy(i) <=> i \in Of(c) \/ \E e \in changes \ {c} : i \in Of(e)
    BY DEF Busy
  <2>2. Busy(i)' <=> i \in Of(d) \/ \E e \in changes \ {c} : i \in Of(e)
    BY <1>2 DEF Busy, Of
  <2>3. Deleting(i) <=> \E e \in changes \ {c} : e.step = "delete" /\ i \in Of(e)
    BY DEF Deleting
  <2>4. Deleting(i)' <=> \E e \in changes \ {c} : e.step = "delete" /\ i \in Of(e)
    BY <1>2, <1>4 DEF Deleting, Of
  <2>5. Adding(i) <=> \/ i \in Of(c)
                      \/ \E e \in changes \ {c} : e.step # "delete" /\ i \in Of(e)
    BY DEF Adding
  <2>6. Adding(i)' <=> \/ i \in Of(d)
                       \/ \E e \in changes \ {c} : e.step # "delete" /\ i \in Of(e)
    BY <1>2, <1>4 DEF Adding, Of
  <2> QED BY <1>4, <2>1, <2>2, <2>3, <2>4, <2>5, <2>6
<1> QED BY <1>2, <1>3, <1>5

LEMMA StrangerInfoStep == ASSUME IInv, NEW c \in changes, StrangerInfo(c) PROVE IInv'
<1> DEFINE d == [todo |-> c.todo, step |-> "insert"]
<1>1. /\ c.step = "info" /\ Replace(c, c.todo, "insert") /\ up' = up /\ black_list' = black_list
      /\ table' = table /\ banned' = banned /\ doubted' = doubted /\ unread' = unread
  BY DEF StrangerInfo
<1>2. /\ changes' = (changes \ {c}) \cup {d} /\ changes' \subseteq Changes
      /\ \A i \in Listable : /\ Busy(i)' <=> Busy(i)
                             /\ Deleting(i)' <=> Deleting(i)
                             /\ Adding(i)' <=> Adding(i)
  BY <1>1, SameTodo DEF AddSteps
<1>3. Shape' BY <1>1, <1>2 DEF IInv, Shape
<1>4. ASSUME NEW i \in Listable \ doubted' PROVE EntryInv(i)'
  <2>1. EntryInv(i) BY <1>1 DEF IInv
  <2> QED BY <1>1, <1>2, <2>1 DEF EntryInv
<1> QED BY <1>3, <1>4 DEF IInv

LEMMA AddToTableStep == ASSUME IInv, NEW c \in changes, AddToTable(c) PROVE IInv'
<1> DEFINE d == [todo |-> c.todo, step |-> "emplace"]
           h == Head(c.todo)
<1>1. /\ c.step = "insert" /\ Replace(c, c.todo, "emplace") /\ up' = up /\ black_list' = black_list
      /\ banned' = banned /\ unread' = unread
      /\ \/ table' = table \cup {h} /\ doubted' = doubted
         \/ table' = table /\ doubted' = doubted \cup {h}
  BY DEF AddToTable
<1>2. /\ changes' = (changes \ {c}) \cup {d} /\ changes' \subseteq Changes
      /\ \A i \in Listable : /\ Busy(i)' <=> Busy(i)
                             /\ Deleting(i)' <=> Deleting(i)
                             /\ Adding(i)' <=> Adding(i)
  BY <1>1, SameTodo DEF AddSteps
<1>3. Shape' BY <1>1, <1>2 DEF IInv, Shape
<1>4. c \in Changes /\ h \in Of(c) BY OfTail DEF IInv, Shape
<1>5. Busy(h) BY <1>4 DEF Busy
<1>6. ASSUME NEW i \in Listable \ doubted' PROVE EntryInv(i)'
  <2>1. EntryInv(i) BY <1>1 DEF IInv
  <2>2. i = h => i \in table' BY <1>1
  <2> QED BY <1>1, <1>2, <1>5, <2>1, <2>2 DEF EntryInv
<1> QED BY <1>3, <1>6 DEF IInv

\* A coroutine goes on with the entries behind the first.
LEMMA TailTodo ==
    ASSUME IInv, NEW c \in changes, NEW step \in {"insert", "delete"},
           (c.step = "delete") <=> (step = "delete"), Replace(c, Tail(c.todo), step)
    PROVE  /\ changes' \subseteq Changes
           /\ \A e \in changes' : e \in changes \/ e.step = step
           /\ \A i \in Listable \ {Head(c.todo)} :
                /\ Busy(i)' <=> Busy(i)
                /\ Deleting(i)' <=> Deleting(i)
                /\ Adding(i)' <=> Adding(i)
           /\ \A i \in Listable : /\ Deleting(i)' => Deleting(i)
                                  /\ Adding(i)' => Adding(i)
<1> DEFINE d == [todo |-> Tail(c.todo), step |-> step]
           new == IF Tail(c.todo) = <<>> THEN {} ELSE {d}
<1>1. c \in Changes BY DEF IInv, Shape
<1>2. changes' = (changes \ {c}) \cup new BY DEF Replace
<1>3. /\ Tail(c.todo) \in Seq(Listable)
      /\ Of(c) = {Head(c.todo)} \cup Of(d)
  BY <1>1, OfTail DEF Of
<1>4. changes' \subseteq Changes
  <2>1. Tail(c.todo) # <<>> => d \in Changes BY <1>3 DEF Changes, AddSteps
  <2> QED BY <1>2, <2>1 DEF IInv, Shape
<1>5. /\ new = {} => Of(d) = {}
      /\ new = {} \/ new = {d}
  <2>1. Tail(c.todo) = <<>> => DOMAIN Tail(c.todo) = {} OBVIOUS
  <2>2. Tail(c.todo) = <<>> => Of(d) = {} BY <2>1 DEF Of
  <2> QED BY <2>2
<1>6. \A i : Busy(i)' <=> i \in Of(d) \/ \E e \in changes \ {c} : i \in Of(e)
  BY <1>2, <1>5 DEF Busy, Of
<1>7. \A i : Busy(i) <=> i \in Of(c) \/ \E e \in changes \ {c} : i \in Of(e)
  BY DEF Busy
<1>8. ASSUME NEW i
      PROVE  Deleting(i)' <=> \/ step = "delete" /\ i \in Of(d)
                              \/ \E e \in changes \ {c} : e.step = "delete" /\ i \in Of(e)
  <2>1. CASE new = {} BY <1>2, <1>5, <2>1 DEF Deleting, Of
  <2>2. CASE new = {d}
    <3>1. Deleting(i)' <=> \E e \in (changes \ {c}) \cup {d} :
                            e.step = "delete" /\ i \in Of(e)
      BY <1>2, <2>2 DEF Deleting, Of
    <3>2. d.step = step OBVIOUS
    <3> HIDE DEF d
    <3> QED BY <3>1, <3>2
  <2> QED BY <1>5, <2>1, <2>2
<1>9. \A i : Deleting(i) <=> \/ step = "delete" /\ i \in Of(c)
                             \/ \E e \in changes \ {c} : e.step = "delete" /\ i \in Of(e)
  BY DEF Deleting
<1>10. ASSUME NEW i
       PROVE  Adding(i)' <=> \/ step # "delete" /\ i \in Of(d)
                             \/ \E e \in changes \ {c} : e.step # "delete" /\ i \in Of(e)
  <2>1. CASE new = {} BY <1>2, <1>5, <2>1 DEF Adding, Of
  <2>2. CASE new = {d}
    <3>1. Adding(i)' <=> \E e \in (changes \ {c}) \cup {d} :
                            e.step # "delete" /\ i \in Of(e)
      BY <1>2, <2>2 DEF Adding, Of
    <3>2. d.step = step OBVIOUS
    <3> HIDE DEF d
    <3> QED BY <3>1, <3>2
  <2> QED BY <1>5, <2>1, <2>2
<1>11. \A i : Adding(i) <=> \/ step # "delete" /\ i \in Of(c)
                            \/ \E e \in changes \ {c} : e.step # "delete" /\ i \in Of(e)
  BY DEF Adding
<1>12. \A e \in changes' : e \in changes \/ e.step = step BY <1>2
<1> HIDE DEF d, new
<1> QED BY <1>3, <1>4, <1>6, <1>7, <1>8, <1>9, <1>10, <1>11, <1>12

LEMMA AddToListStep == ASSUME IInv, NEW c \in changes, AddToList(c) PROVE IInv'
<1> DEFINE h == Head(c.todo)
<1>1. /\ c.step = "emplace" /\ Replace(c, Tail(c.todo), "insert") /\ up' = up
      /\ black_list' = black_list \cup {h} /\ banned' = banned \cup {h}
      /\ table' = table /\ doubted' = doubted /\ unread' = unread \ {h}
  BY DEF AddToList
<1>2. /\ changes' \subseteq Changes
      /\ \A e \in changes' : e \in changes \/ e.step = "insert"
      /\ \A i \in Listable \ {h} : /\ Busy(i)' <=> Busy(i)
                                   /\ Deleting(i)' <=> Deleting(i)
                                   /\ Adding(i)' <=> Adding(i)
      /\ \A i \in Listable : /\ Deleting(i)' => Deleting(i)
                             /\ Adding(i)' => Adding(i)
  BY <1>1, TailTodo
<1>3. up BY DEF IInv, Shape
<1>4. Shape' BY <1>1, <1>2, <1>3 DEF IInv, Shape
<1>5. c \in Changes /\ h \in Of(c) BY OfTail DEF IInv, Shape
<1>6. Adding(h) BY <1>1, <1>5 DEF Adding
<1>7. ASSUME NEW i \in Listable \ doubted' PROVE EntryInv(i)'
  <2>1. EntryInv(i) BY <1>1 DEF IInv
  <2>2. \A e \in changes' : e.step = "emplace" /\ Head(e.todo) = i => i \in table'
    BY <1>1, <1>2, <2>1 DEF EntryInv
  <2>3. CASE i = h
    <3>1. i \in table /\ ~Deleting(i) BY <1>1, <1>6, <2>1, <2>3 DEF EntryInv
    <3> QED BY <1>1, <1>2, <2>1, <2>2, <2>3, <3>1 DEF EntryInv
  <2>4. CASE i # h BY <1>1, <1>2, <2>1, <2>2, <2>4 DEF EntryInv
  <2> QED BY <2>3, <2>4
<1> QED BY <1>4, <1>7 DEF IInv

LEMMA DelFromTableStep == ASSUME IInv, NEW c \in changes, DelFromTable(c) PROVE IInv'
<1> DEFINE h == Head(c.todo)
<1>1. /\ c.step = "delete" /\ Replace(c, Tail(c.todo), "delete") /\ up' = up
      /\ black_list' = black_list /\ banned' = banned /\ unread' = unread
      /\ \/ table' = table \ {h} /\ doubted' = doubted
         \/ table' = table /\ doubted' = doubted \cup {h}
  BY DEF DelFromTable
<1>2. /\ changes' \subseteq Changes
      /\ \A e \in changes' : e \in changes \/ e.step = "delete"
      /\ \A i \in Listable \ {h} : /\ Busy(i)' <=> Busy(i)
                                   /\ Deleting(i)' <=> Deleting(i)
                                   /\ Adding(i)' <=> Adding(i)
      /\ \A i \in Listable : /\ Deleting(i)' => Deleting(i)
                             /\ Adding(i)' => Adding(i)
  BY <1>1, TailTodo
<1>3. up BY DEF IInv, Shape
<1>4. Shape' BY <1>1, <1>2, <1>3 DEF IInv, Shape
<1>5. c \in Changes /\ h \in Of(c) BY OfTail DEF IInv, Shape
<1>6. Deleting(h) BY <1>1, <1>5 DEF Deleting
<1>7. ASSUME NEW i \in Listable \ doubted' PROVE EntryInv(i)'
  <2>1. EntryInv(i) BY <1>1 DEF IInv
  <2>2. \A e \in changes' : e \in changes \/ e.step # "emplace" BY <1>2
  <2>3. CASE i = h
    <3>1. i \notin black_list /\ i \notin banned /\ i \notin unread
      BY <1>3, <1>6, <2>1, <2>3 DEF EntryInv
    <3>2. table' = table \ {i} BY <1>1, <2>3
    <3>3. ~Adding(i) BY <1>6, <2>1, <2>3 DEF EntryInv
    <3>4. \A e \in changes : e.step = "emplace" => Head(e.todo) # i
      <4> SUFFICES ASSUME NEW e \in changes, e.step = "emplace", Head(e.todo) = i
                   PROVE  FALSE
        OBVIOUS
      <4>1. e \in Changes /\ i \in Of(e) BY OfTail DEF IInv, Shape
      <4> QED BY <3>3, <4>1 DEF Adding
    <3> QED BY <1>1, <1>2, <2>2, <3>1, <3>2, <3>3, <3>4 DEF EntryInv
  <2>4. CASE i # h
    <3>1. i \in table' <=> i \in table BY <1>1, <2>4
    <3> QED BY <1>1, <1>2, <2>1, <2>2, <2>4, <3>1 DEF EntryInv
  <2> QED BY <2>3, <2>4
<1> QED BY <1>4, <1>7 DEF IInv

-----------------------------------------------------------------------------
LEMMA CrashStep == IInv /\ ProcessEnds => IInv'
BY DEF IInv, Shape, EntryInv, Adding, Deleting, Busy, ProcessEnds

LEMMA RestartStep == IInv /\ Restart => IInv'
<1> SUFFICES ASSUME IInv, Restart PROVE IInv' OBVIOUS
<1>0. LoadBlackLists BY DEF Restart
<1>1. PICK read \in SUBSET table : black_list' = read /\ unread' = table \ read
  BY <1>0 DEF LoadBlackLists
<1>2. /\ ~up /\ up' = TRUE /\ table' = table /\ changes' = changes /\ doubted' = doubted
      /\ banned' = banned
  BY DEF Restart
<1>3. changes = {} BY <1>2 DEF IInv, Shape
<1>4. Shape' BY <1>2, <1>3 DEF IInv, Shape
<1>5. ASSUME NEW i \in Listable \ doubted' PROVE EntryInv(i)'
  <2>1. EntryInv(i) BY <1>2, <1>5 DEF IInv
  <2> QED BY <1>1, <1>2, <1>3, <2>1 DEF EntryInv, Adding, Deleting
<1> QED BY <1>4, <1>5 DEF IInv

LEMMA NextIInv == IInv /\ [ManageNext]_manageVars => IInv'
<1> SUFFICES ASSUME IInv, [ManageNext]_manageVars PROVE IInv' OBVIOUS
<1>1. ASSUME NEW i \in Listable, HandleBlack(i) \/ HandleWhite(i) PROVE IInv'
  BY <1>1, BlackStep, WhiteStep
<1>2. ASSUME NEW g \in ChatGroups, NEW u \in Users, Kicked(g, u) \/ GroupInvite(g, u)
      PROVE  IInv'
  BY <1>2, KickedStep, OtherStep DEF GroupInvite
<1>3. ASSUME NEW c \in changes,
             StrangerInfo(c) \/ AddToTable(c) \/ AddToList(c) \/ DelFromTable(c)
      PROVE  IInv'
  BY <1>3, StrangerInfoStep, AddToTableStep, AddToListStep, DelFromTableStep
<1>4. ASSUME NEW u \in Users, FriendInvite(u) PROVE IInv'
  BY <1>4, OtherStep DEF FriendInvite
<1>5. ASSUME NEW g \in ChatGroups,
             GroupIncrease(g) \/ LeaveForced(g) \/ Dismiss(g) \/ MemberInfo(g)
      PROVE  IInv'
  BY <1>5, OtherStep DEF GroupIncrease, LeaveForced, Dismiss, MemberInfo
<1>6. ASSUME ManageFlags \/ CleanBegins \/ GroupList \/ LeaveCleaned \/ CleanEnds
      PROVE  IInv'
  BY <1>6, OtherStep DEF ManageFlags, CleanBegins, GroupList, LeaveCleaned, CleanEnds
<1>7. CASE ProcessEnds BY <1>7, CrashStep
<1>8. CASE Restart BY <1>8, RestartStep
<1>9. CASE UNCHANGED manageVars BY <1>9, OtherStep DEF manageVars
<1> QED BY <1>1, <1>2, <1>3, <1>4, <1>5, <1>6, <1>7, <1>8, <1>9 DEF ManageNext

\* For all users and groups: the map and the table of the black lists hold the same
\* entries, whenever no coroutine is changing them, nothing has put them in doubt and
\* their rows were read.
THEOREM BlackListsAgree == ManageSpec => []ListsAgree
<1>1. IInv => ListsAgree BY DEF IInv, EntryInv, ListsAgree
<1> QED BY <1>1, InitIInv, NextIInv, PTL DEF ManageSpec

\* For all users and groups: nobody is approved who has got on a list and was not taken
\* off again, in this process or in an earlier one whose rows this one has read.
THEOREM BannedStayOut == ManageSpec => NoTrustForTheBanned
<1> DEFINE Approves ==
             LET barred == banned \ (doubted \cup unread)
             IN  /\ (friends' \ friends) \cap barred = {}
                 /\ \A p \in approved' \ approved : {p.group, p.user} \cap barred = {}
<1>1. ASSUME IInv, ManageNext PROVE Approves
  <2>1. \A i \in Listable : up /\ i \notin black_list => i \notin banned \ (doubted \cup unread)
    BY <1>1 DEF IInv, EntryInv
  <2>2. ASSUME NEW u \in Users, FriendInvite(u) PROVE Approves
    BY <2>1, <2>2 DEF FriendInvite, Listable
  <2>3. ASSUME NEW g \in ChatGroups, NEW u \in Users, GroupInvite(g, u) PROVE Approves
    BY <2>1, <2>3 DEF GroupInvite, Listable
  <2>4. ASSUME NEW g \in ChatGroups, GroupIncrease(g) PROVE Approves
    BY <2>4 DEF GroupIncrease
  <2>5. CASE UNCHANGED <<friends, approved>> BY <2>5
  <2> HIDE DEF Approves
  <2>6. ManageNext => \/ \E u \in Users : FriendInvite(u)
                      \/ \E g \in ChatGroups, u \in Users : GroupInvite(g, u)
                      \/ \E g \in ChatGroups : GroupIncrease(g)
                      \/ UNCHANGED <<friends, approved>>
    BY DEF ManageNext, HandleBlack, HandleWhite, Kicked, StrangerInfo, AddToTable,
           AddToList, DelFromTable, LeaveForced, Dismiss, MemberInfo, ManageFlags,
           CleanBegins, GroupList, LeaveCleaned, CleanEnds, ProcessEnds, Restart, trust
  <2> QED BY <1>1, <2>2, <2>3, <2>4, <2>5, <2>6
<1>2. IInv /\ [ManageNext]_manageVars => [Approves]_manageVars BY <1>1
<1> QED BY <1>2, InitIInv, NextIInv, PTL DEF ManageSpec, NoTrustForTheBanned

-----------------------------------------------------------------------------
(***************************************************************************)
(* Weibo                                                                   *)
(***************************************************************************)
Weibos == FollowedIds \X (Nat \ {0})

WeiboShape ==
    /\ minute \in Nat /\ posted \in [FollowedIds -> Seq(Nat)]
    /\ puller_at \in {"down", "idle", "fetch", "cards", "broadcast"} /\ loading \in BOOLEAN
    /\ spider \in FollowedIds
    /\ cards \in Seq(Weibos) /\ latest \in Seq(Weibos) /\ texts \in Seq(Weibos)
    /\ received \in [FollowedIds -> SUBSET Weibos] /\ buffer \in [FollowedIds -> Seq(Weibos)]
    /\ DOMAIN found = FollowedIds
    /\ \A s \in FollowedIds : found[s] \in [1 .. MaxPosts[s] -> Nat]

\* The cards are of the spider whose turn it is.
CardsInv ==
    /\ puller_at # "cards" => cards = <<>>
    /\ \A k \in DOMAIN cards : cards[k][1] = spider /\ cards[k][2] \in DOMAIN posted[spider]

\* What is new is on its way to the bots; only during a round is it there.
OnTheWay == Elements(texts) \cup Elements(latest)

PushInv ==
    /\ puller_at # "down" =>
         \A s \in FollowedIds : \A n \in 1 .. MaxPosts[s] :
            found[s][n] > 0 => <<s, n>> \in pushed \cup known \cup lost \cup OnTheWay
    /\ puller_at \in {"down", "idle"} => texts = <<>>
    /\ puller_at # "cards" => latest = <<>>
    /\ loading => /\ puller_at \in {"fetch", "cards"} /\ texts = <<>>
                  /\ Elements(latest) \subseteq known

RoundInv == WeiboShape /\ CardsInv /\ PushInv

-----------------------------------------------------------------------------
LEMMA NoElements == Elements(<<>>) = {}
BY DEF Elements

LEMMA PageIsOfSpider ==
    ASSUME WeiboShape, NEW s \in FollowedIds
    PROVE  /\ Page(s) \in Seq(Weibos)
           /\ \A k \in DOMAIN Page(s) : Page(s)[k][1] = s /\ Page(s)[k][2] \in DOMAIN posted[s]
<1> DEFINE n == Len(posted[s])
           m == IF n < PageSize THEN n ELSE PageSize
<1>1. n \in Nat /\ DOMAIN posted[s] = 1 .. n BY DEF WeiboShape
<1>2. m \in Nat /\ m <= n BY <1>1, WeiboAssumption
<1>3. Page(s) = [k \in 1 .. m |-> <<s, n + 1 - k>>] BY DEF Page
<1> HIDE DEF m, n
<1>4. \A k \in 1 .. m : n + 1 - k \in 1 .. n BY <1>1, <1>2
<1>5. \A k \in 1 .. m : <<s, n + 1 - k>> \in Weibos BY <1>1, <1>4 DEF Weibos
<1>6. Page(s) \in [1 .. m -> Weibos] BY <1>3, <1>5
<1>7. Page(s) \in Seq(Weibos) BY <1>2, <1>6
<1> QED BY <1>1, <1>3, <1>4, <1>7

LEMMA SmallRemainder ==
    ASSUME NEW n \in Nat, n > 0, NEW i \in Nat, i < n
    PROVE  i % n = i
BY Z3

\* Two numbers with the same remainder are n apart at least.
Remainder(i, n) == i - n * (i \div n)

LEMMA SameRemainder ==
    ASSUME NEW n \in Nat \ {0}, NEW i \in Nat, NEW j \in Nat, i < j,
           Remainder(i, n) = Remainder(j, n)
    PROVE  j - i >= n
<1> DEFINE p == i \div n
           q == j \div n
<1>1. p \in Nat /\ q \in Nat OBVIOUS
<1> HIDE DEF p, q
<1>2. n * p \in Nat /\ n * q \in Nat BY <1>1
<1>3. i - n * p = j - n * q BY DEF Remainder, p, q
<1>4. n * p < n * q BY <1>2, <1>3
<1>5. p < q BY <1>1, <1>4, Z3
<1>6. n * (p + 1) <= n * q BY <1>1, <1>5, Z3
<1>7. n * (p + 1) = n * p + n BY <1>1, Z3
<1> QED BY <1>2, <1>3, <1>6, <1>7

LEMMA SmallerRemainder ==
    ASSUME NEW n \in Nat \ {0}, NEW i \in Nat
    PROVE  Remainder(i, n) \in 0 .. n - 1
<1>1. i < ((i \div n) + 1) * n /\ (i \div n) * n <= i BY Z3
<1>2. i \div n \in Nat OBVIOUS
<1>3. ((i \div n) + 1) * n = n * (i \div n) + n /\ (i \div n) * n = n * (i \div n)
  BY <1>2, Z3
<1>4. n * (i \div n) \in Nat BY <1>2
<1> QED BY <1>1, <1>3, <1>4 DEF Remainder

\* What SpiderEnds makes of the new weibos of a spider holds every one of them.
Copies(seq) ==
    LET n == Len(seq)
    IN  [k \in 1 .. n * n |-> seq[((k - 1) % n) + 1]]

LEMMA Repeated ==
    ASSUME NEW S, NEW seq \in Seq(S)
    PROVE  Copies(seq) \in Seq(S) /\ Elements(seq) \subseteq Elements(Copies(seq))
<1> DEFINE n == Len(seq)
           rep == Copies(seq)
<1>0. rep = [k \in 1 .. n * n |-> seq[((k - 1) % n) + 1]] BY DEF Copies
<1>1. n \in Nat /\ n * n \in Nat /\ DOMAIN seq = 1 .. n OBVIOUS
<1> HIDE DEF n, rep
<1>2. ASSUME NEW k \in 1 .. n * n PROVE ((k - 1) % n) + 1 \in 1 .. n
  <2>1. n # 0 BY <1>1, <1>2
  <2> QED BY <1>1, <1>2, <2>1
<1>3. rep \in [1 .. n * n -> S] BY <1>0, <1>1, <1>2
<1>4. rep \in Seq(S) BY <1>1, <1>3
<1>5. ASSUME NEW k \in 1 .. n PROVE k \in 1 .. n * n /\ rep[k] = seq[k]
  <2>1. n <= n * n BY <1>1, <1>5
  <2>2. k - 1 \in Nat /\ k - 1 < n /\ n > 0 /\ k - 1 + 1 = k BY <1>1, <1>5
  <2>4. (k - 1) % n = k - 1 BY <1>1, <2>2, SmallRemainder
  <2>5. k \in 1 .. n * n BY <1>1, <1>5, <2>1
  <2>6. rep[k] = seq[((k - 1) % n) + 1] BY <1>0, <2>5
  <2> QED BY <2>2, <2>4, <2>5, <2>6
<1>6. DOMAIN rep = 1 .. n * n BY <1>0
<1>7. Elements(seq) \subseteq Elements(rep) BY <1>1, <1>5, <1>6 DEF Elements
<1> QED BY <1>4, <1>7 DEF rep

LEMMA ElementsOfBoth ==
    ASSUME NEW S, NEW a \in Seq(S), NEW b \in Seq(S)
    PROVE  Elements(a \o b) = Elements(a) \cup Elements(b)
<1>1. /\ Len(a) \in Nat /\ Len(b) \in Nat /\ DOMAIN a = 1 .. Len(a) /\ DOMAIN b = 1 .. Len(b)
      /\ DOMAIN (a \o b) = 1 .. (Len(a) + Len(b))
  OBVIOUS
<1>2. \A k \in 1 .. Len(a) : (a \o b)[k] = a[k] OBVIOUS
<1>3. \A k \in 1 .. Len(b) : (a \o b)[Len(a) + k] = b[k] OBVIOUS
<1>4. \A k \in 1 .. (Len(a) + Len(b)) :
         k \in 1 .. Len(a) \/ (k - Len(a) \in 1 .. Len(b) /\ k = Len(a) + (k - Len(a)))
  BY <1>1
<1>5. Elements(a \o b) \subseteq Elements(a) \cup Elements(b)
  BY <1>1, <1>2, <1>3, <1>4 DEF Elements
<1>6. /\ \A k \in 1 .. Len(a) : k \in DOMAIN (a \o b)
      /\ \A k \in 1 .. Len(b) : Len(a) + k \in DOMAIN (a \o b)
  BY <1>1
<1>7. Elements(a) \subseteq Elements(a \o b)
  <2> SUFFICES ASSUME NEW k \in DOMAIN a PROVE a[k] \in Elements(a \o b) BY DEF Elements
  <2> QED BY <1>1, <1>2, <1>6 DEF Elements
<1>8. Elements(b) \subseteq Elements(a \o b)
  <2> SUFFICES ASSUME NEW k \in DOMAIN b PROVE b[k] \in Elements(a \o b) BY DEF Elements
  <2> QED BY <1>1, <1>3, <1>6 DEF Elements
<1> QED BY <1>5, <1>7, <1>8

LEMMA ElementsOfAppend ==
    ASSUME NEW S, NEW a \in Seq(S), NEW e \in S
    PROVE  Elements(Append(a, e)) = Elements(a) \cup {e}
<1>1. Len(a) \in Nat /\ DOMAIN a = 1 .. Len(a) /\ DOMAIN Append(a, e) = 1 .. (Len(a) + 1)
  OBVIOUS
<1>2. /\ \A k \in 1 .. Len(a) : Append(a, e)[k] = a[k]
      /\ Append(a, e)[Len(a) + 1] = e
  OBVIOUS
<1> QED BY <1>1, <1>2 DEF Elements

-----------------------------------------------------------------------------
LEMMA RoundStart == WeiboInit => RoundInv
<1> SUFFICES ASSUME WeiboInit PROVE RoundInv OBVIOUS
<1>1. 1 \in FollowedIds BY WeiboAssumption
<1>2. \A s \in FollowedIds : MaxPosts[s] \in Nat BY WeiboAssumption
<1>3. /\ posted \in [FollowedIds -> Seq(Nat)] /\ received \in [FollowedIds -> SUBSET Weibos]
      /\ buffer \in [FollowedIds -> Seq(Weibos)]
  BY DEF WeiboInit
<1>4. \A s \in FollowedIds : found[s] \in [1 .. MaxPosts[s] -> Nat] BY DEF WeiboInit
<1>5. WeiboShape BY <1>1, <1>3, <1>4 DEF WeiboInit, WeiboShape
<1> QED BY <1>5 DEF WeiboInit, RoundInv, CardsInv, PushInv

LEMMA PostStep ==
    ASSUME RoundInv, NEW s \in FollowedIds, Post(s)
    PROVE  RoundInv'
<1>1. /\ posted' = [posted EXCEPT ![s] = Append(posted[s], minute)]
      /\ UNCHANGED <<minute, puller, spiders, weiboHistory, faults>>
  BY DEF Post
<1>2. Append(posted[s], minute) \in Seq(Nat) BY DEF RoundInv, WeiboShape
<1>3. WeiboShape' BY <1>1, <1>2 DEF RoundInv, WeiboShape, puller, spiders, weiboHistory
<1>4. \A i \in FollowedIds : DOMAIN posted[i] \subseteq DOMAIN posted'[i]
  <2>1. DOMAIN posted[s] \subseteq DOMAIN Append(posted[s], minute)
    BY DEF RoundInv, WeiboShape
  <2> QED BY <1>1, <2>1 DEF RoundInv, WeiboShape
<1>5. CardsInv' BY <1>1, <1>4 DEF RoundInv, WeiboShape, CardsInv, puller
<1>6. PushInv'
  BY <1>1 DEF RoundInv, PushInv, OnTheWay, Elements, puller, weiboHistory
<1> QED BY <1>3, <1>5, <1>6 DEF RoundInv

LEMMA LifeStep == RoundInv /\ (Tick \/ StartWeibo \/ Dies \/ Pull) => RoundInv'
<1> SUFFICES ASSUME RoundInv PROVE Tick \/ StartWeibo \/ Dies \/ Pull => RoundInv' OBVIOUS
<1>1. 1 \in FollowedIds /\ \A s \in FollowedIds : MaxPosts[s] \in Nat BY WeiboAssumption
<1> USE DEF RoundInv, WeiboShape
<1>2. ASSUME Tick PROVE RoundInv'
  <2>1. /\ minute' = minute + 1 /\ UNCHANGED <<posted, puller, spiders, weiboHistory>>
    BY <1>2 DEF Tick
  <2>2. WeiboShape' BY <2>1 DEF puller, spiders, weiboHistory
  <2>3. CardsInv' BY <2>1 DEF CardsInv, puller
  <2>4. OnTheWay' = OnTheWay /\ Elements(latest') = Elements(latest)
    BY <2>1 DEF OnTheWay, Elements, puller
  <2>5. PushInv' BY <2>1, <2>4 DEF PushInv, puller, weiboHistory
  <2> QED BY <2>2, <2>3, <2>5
<1>3. ASSUME StartWeibo PROVE RoundInv'
  <2>1. WeiboShape' BY <1>1, <1>3 DEF StartWeibo, WeiboStep, spiders, world
  <2>2. /\ CardsInv' /\ texts' = <<>> /\ latest' = <<>> /\ puller_at' = "fetch"
        /\ \A s \in FollowedIds : \A n \in 1 .. MaxPosts[s] : found'[s][n] = 0
    BY <1>3 DEF StartWeibo, WeiboStep, CardsInv, PushInv
  <2>3. PushInv'
    <3>1. loading' => /\ puller_at' \in {"fetch", "cards"}
                      /\ Elements(latest') \subseteq known'
      BY <2>2, NoElements
    <3> QED BY <2>2, <3>1 DEF PushInv
  <2> QED BY <2>1, <2>2, <2>3
<1>4. ASSUME Dies PROVE RoundInv'
  <2>0. received' \in [FollowedIds -> SUBSET Weibos] /\ buffer' \in [FollowedIds -> Seq(Weibos)]
    BY <1>4 DEF Dies
  <2>1. WeiboShape' BY <1>1, <1>4, <2>0 DEF Dies, WeiboStep, world, weiboHistory
  <2> QED BY <1>4, <2>1 DEF Dies, WeiboStep, CardsInv, PushInv
<1>5. ASSUME Pull PROVE RoundInv'
  <2>1. WeiboShape' BY <1>1, <1>5 DEF Pull, WeiboStep, world, spiders, weiboHistory
  <2>2. /\ puller_at = "idle" /\ texts' = texts /\ latest' = latest /\ latest = <<>>
        /\ puller_at' = "fetch" /\ ~loading /\ cards = <<>> /\ cards' = <<>>
        /\ UNCHANGED <<loading, found, pushed, known, lost>>
    BY <1>5 DEF Pull, WeiboStep, PushInv, CardsInv, weiboHistory
  <2>3. PushInv' BY <2>2 DEF PushInv, OnTheWay, Elements
  <2> QED BY <2>1, <2>2, <2>3 DEF CardsInv
<1> QED BY <1>2, <1>3, <1>4, <1>5

LEMMA FailStep == RoundInv /\ RoundFails => RoundInv'
<1> SUFFICES ASSUME RoundInv, RoundFails PROVE RoundInv' OBVIOUS
<1>1. 1 \in FollowedIds BY WeiboAssumption
<1>2. /\ puller_at' = "idle" /\ spider' = 1 /\ ~loading /\ loading' = loading
      /\ puller_at # "down"
      /\ cards' = <<>> /\ latest' = <<>> /\ texts' = <<>>
      /\ lost' = lost \cup Elements(texts) \cup Elements(latest)
      /\ UNCHANGED <<world, spiders, since, found, pushed, known>>
  BY DEF RoundFails, Rest, WeiboStep
<1>3. WeiboShape' BY <1>1, <1>2 DEF RoundInv, WeiboShape, world, spiders
<1>4. CardsInv' BY <1>2 DEF CardsInv
<1>5. PushInv' BY <1>2 DEF RoundInv, PushInv, OnTheWay
<1> QED BY <1>3, <1>4, <1>5 DEF RoundInv

LEMMA FetchStep == RoundInv /\ Fetch => RoundInv'
<1> SUFFICES ASSUME RoundInv, Fetch PROVE RoundInv' OBVIOUS
<1>1. /\ puller_at = "fetch" /\ puller_at' = "cards" /\ spider' = spider /\ latest' = <<>>
      /\ cards' = Page(spider) \/ cards' = <<>>
      /\ UNCHANGED <<world, loading, due, texts, spiders, weiboHistory>>
  BY DEF Fetch, WeiboStep
<1>2. /\ Page(spider) \in Seq(Weibos)
      /\ \A k \in DOMAIN Page(spider) :
           Page(spider)[k][1] = spider /\ Page(spider)[k][2] \in DOMAIN posted[spider]
  BY PageIsOfSpider DEF RoundInv, WeiboShape
<1>3. cards' \in Seq(Weibos) /\ latest' \in Seq(Weibos)
  <2>1. <<>> \in Seq(Weibos) OBVIOUS
  <2> QED BY <1>1, <1>2, <2>1
<1>4. CardsInv' BY <1>1, <1>2 DEF CardsInv, world
<1>5. PushInv' BY <1>1 DEF RoundInv, PushInv, OnTheWay, weiboHistory, Elements
<1>6. WeiboShape' BY <1>1, <1>3 DEF RoundInv, WeiboShape, world, spiders, weiboHistory
<1> QED BY <1>4, <1>5, <1>6 DEF RoundInv

LEMMA CardStep == RoundInv /\ Card => RoundInv'
<1> SUFFICES ASSUME RoundInv, Card PROVE RoundInv' OBVIOUS
<1> DEFINE w == Head(cards)
<1>1. /\ puller_at = "cards" /\ cards # <<>> /\ cards' = Tail(cards)
      /\ UNCHANGED <<minute, posted, puller_at, loading, due, spider, texts, since, pushed, lost>>
  BY DEF Card, world
<1>2. /\ w \in Weibos /\ w[1] = spider /\ Tail(cards) \in Seq(Weibos)
      /\ \A k \in DOMAIN Tail(cards) : k + 1 \in DOMAIN cards /\ Tail(cards)[k] = cards[k + 1]
  <2>1. cards \in Seq(Weibos) BY DEF RoundInv, WeiboShape
  <2>2. w = cards[1] /\ 1 \in DOMAIN cards BY <1>1, <2>1
  <2> QED BY <1>1, <2>1, <2>2 DEF RoundInv, CardsInv
<1>3. CardsInv' BY <1>1, <1>2 DEF RoundInv, CardsInv
<1> HIDE DEF w
<1>4. CASE UNCHANGED <<received, buffer, latest, found, known>>
  <2>1. WeiboShape' BY <1>1, <1>2, <1>4 DEF RoundInv, WeiboShape
  <2>2. PushInv' BY <1>1, <1>4 DEF RoundInv, PushInv, OnTheWay, Elements
  <2> QED BY <1>3, <2>1, <2>2 DEF RoundInv
<1>5. CASE \E isNew \in BOOLEAN : Enter(w, isNew)
  <2> PICK isNew \in BOOLEAN : Enter(w, isNew) BY <1>5
  <2>1. /\ received' = [received EXCEPT ![spider] = @ \cup {w}]
        /\ buffer' = [buffer EXCEPT ![spider] = Append(@, w)]
        /\ latest' = IF isNew THEN Append(latest, w) ELSE latest
        /\ found' = IF isNew THEN [found EXCEPT ![w[1]][w[2]] = @ + 1] ELSE found
        /\ known' = IF loading THEN known \cup {w} ELSE known
    BY DEF Enter
  <2>2. Append(buffer[spider], w) \in Seq(Weibos) /\ Append(latest, w) \in Seq(Weibos)
    BY <1>2 DEF RoundInv, WeiboShape
  <2>3. \A s \in FollowedIds : found'[s] \in [1 .. MaxPosts[s] -> Nat]
    <3> SUFFICES ASSUME NEW s \in FollowedIds
                 PROVE  found'[s] \in [1 .. MaxPosts[s] -> Nat]
      OBVIOUS
    <3>1. found[s] \in [1 .. MaxPosts[s] -> Nat] /\ DOMAIN found = FollowedIds
      BY DEF RoundInv, WeiboShape
    <3>2. found'[s] \in {found[s], [found[s] EXCEPT ![w[2]] = @ + 1]} BY <2>1, <3>1
    <3> QED BY <3>1, <3>2
  <2>4. DOMAIN found' = FollowedIds BY <2>1 DEF RoundInv, WeiboShape
  <2>5. WeiboShape' BY <1>1, <1>2, <2>1, <2>2, <2>3, <2>4 DEF RoundInv, WeiboShape
  <2>6. /\ Elements(latest) \subseteq Elements(latest')
        /\ Elements(latest') \subseteq Elements(latest) \cup {w}
        /\ isNew => w \in Elements(latest')
    <3>1. Elements(Append(latest, w)) = Elements(latest) \cup {w}
      BY <1>2, ElementsOfAppend DEF RoundInv, WeiboShape
    <3>2. CASE isNew BY <2>1, <3>1, <3>2
    <3>3. CASE ~isNew BY <2>1, <3>3 DEF Elements
    <3> QED BY <3>2, <3>3
  <2>7. \A s \in FollowedIds : \A n \in 1 .. MaxPosts[s] :
           found'[s][n] = found[s][n] \/ (isNew /\ <<s, n>> = w)
    <3> SUFFICES ASSUME NEW s \in FollowedIds, NEW n \in 1 .. MaxPosts[s], isNew,
                        <<s, n>> # w
                 PROVE  found'[s][n] = found[s][n]
      BY <2>1
    <3>1. w = <<w[1], w[2]>> BY <1>2 DEF Weibos
    <3>2. w[1] # s \/ w[2] # n BY <3>1
    <3> QED BY <2>1, <3>2 DEF RoundInv, WeiboShape
  <2>8. PushInv'
    <3>1. Elements(texts') = Elements(texts) BY <1>1 DEF Elements
    <3>2. known \subseteq known' /\ (loading => w \in known') BY <2>1
    <3>3. OnTheWay \subseteq OnTheWay' /\ (isNew => w \in OnTheWay')
      BY <2>6, <3>1 DEF OnTheWay
    <3>4. \A s \in FollowedIds : \A n \in 1 .. MaxPosts[s] :
             found'[s][n] > 0
             => <<s, n>> \in pushed' \cup known' \cup lost' \cup OnTheWay'
      BY <1>1, <2>7, <3>2, <3>3 DEF RoundInv, PushInv
    <3>5. loading => Elements(latest') \subseteq known'
      BY <2>6, <3>2 DEF RoundInv, PushInv
    <3> QED BY <1>1, <3>4, <3>5 DEF RoundInv, PushInv
  <2> QED BY <1>3, <2>5, <2>8 DEF RoundInv
<1> QED BY <1>4, <1>5 DEF Card, w, spiders

LEMMA EndStep == RoundInv /\ SpiderEnds => RoundInv'
<1> SUFFICES ASSUME RoundInv, SpiderEnds PROVE RoundInv' OBVIOUS
<1>1. /\ puller_at = "cards" /\ cards = <<>> /\ latest' = <<>>
      /\ texts' = IF loading THEN <<>> ELSE texts \o Copies(latest)
      /\ UNCHANGED <<minute, posted, cards, received, buffer, since, found, pushed, known, lost>>
  BY DEF SpiderEnds, Copies, world, spiders, weiboHistory
<1>2. \/ /\ spider < Len(Spiders) /\ puller_at' = "fetch" /\ spider' = spider + 1
         /\ loading' = loading
      \/ loading /\ puller_at' = "idle" /\ spider' = 1 /\ loading' = FALSE
      \/ ~loading /\ puller_at' = "broadcast" /\ spider' = 1 /\ loading' = loading
  BY DEF SpiderEnds, Rest, WeiboStep
<1>3. spider' \in FollowedIds BY <1>2, WeiboAssumption DEF RoundInv, WeiboShape
<1>4. Copies(latest) \in Seq(Weibos) /\ Elements(latest) \subseteq Elements(Copies(latest))
  <2>1. latest \in Seq(Weibos) BY DEF RoundInv, WeiboShape
  <2> QED BY <2>1, Repeated
<1>5. /\ texts \o Copies(latest) \in Seq(Weibos)
      /\ Elements(texts \o Copies(latest)) = Elements(texts) \cup Elements(Copies(latest))
  <2>1. texts \in Seq(Weibos) BY DEF RoundInv, WeiboShape
  <2>2. texts \o Copies(latest) \in Seq(Weibos) BY <1>4, <2>1
  <2> QED BY <1>4, <2>1, <2>2, ElementsOfBoth
<1>6. texts' \in Seq(Weibos) /\ latest' \in Seq(Weibos) BY <1>1, <1>5
<1>7. WeiboShape' BY <1>1, <1>2, <1>3, <1>6 DEF RoundInv, WeiboShape
<1>8. CardsInv' BY <1>1, <1>2 DEF CardsInv
<1>9. PushInv'
  <2>1. ~loading => OnTheWay \subseteq OnTheWay' BY <1>1, <1>4, <1>5 DEF OnTheWay
  <2>2. loading => OnTheWay \subseteq known BY NoElements DEF RoundInv, PushInv, OnTheWay
  <2>3. \A s \in FollowedIds : \A i \in 1 .. MaxPosts[s] :
           found'[s][i] > 0
           => <<s, i>> \in pushed' \cup known' \cup lost' \cup OnTheWay'
    BY <1>1, <2>1, <2>2 DEF RoundInv, PushInv
  <2> QED BY <1>1, <1>2, <2>3, NoElements DEF RoundInv, PushInv
<1> QED BY <1>7, <1>8, <1>9 DEF RoundInv

LEMMA BroadcastStep == RoundInv /\ Broadcast => RoundInv'
<1> SUFFICES ASSUME RoundInv, Broadcast PROVE RoundInv' OBVIOUS
<1>1. /\ puller_at = "broadcast" /\ puller_at' = "idle" /\ spider' = 1 /\ texts' = <<>>
      /\ UNCHANGED <<minute, posted, loading, cards, latest, received, buffer, since, found,
                     known>>
      /\ pushed \subseteq pushed' /\ lost \subseteq lost'
      /\ Elements(texts) \subseteq pushed' \cup lost'
  BY DEF Broadcast, Rest, WeiboStep, world, spiders
<1>2. 1 \in FollowedIds BY WeiboAssumption
<1>3. WeiboShape' BY <1>1, <1>2 DEF RoundInv, WeiboShape
<1>4. CardsInv' BY <1>1 DEF RoundInv, CardsInv
<1>5. latest = <<>> BY <1>1 DEF RoundInv, PushInv
<1>6. \A s \in FollowedIds : \A n \in 1 .. MaxPosts[s] :
         found'[s][n] > 0 => <<s, n>> \in pushed' \cup known' \cup lost'
  BY <1>1, <1>5, NoElements DEF RoundInv, PushInv, OnTheWay
<1>7. PushInv' BY <1>1, <1>5, <1>6 DEF RoundInv, PushInv
<1> QED BY <1>3, <1>4, <1>7 DEF RoundInv

LEMMA CleanStep == RoundInv /\ CleanBuffer => RoundInv'
<1> SUFFICES ASSUME RoundInv, CleanBuffer PROVE RoundInv' OBVIOUS
<1>1. /\ UNCHANGED <<world, puller, weiboHistory>>
      /\ buffer' = [s \in FollowedIds |-> SubSeq(buffer[s], Excess(s) + 1, Len(buffer[s]))]
      /\ received' = [s \in FollowedIds |->
                        received[s] \ {buffer[s][k] : k \in 1 .. Excess(s)}]
  BY DEF CleanBuffer
<1>2. ASSUME NEW s \in FollowedIds
      PROVE  SubSeq(buffer[s], Excess(s) + 1, Len(buffer[s])) \in Seq(Weibos)
  <2>1. buffer[s] \in Seq(Weibos) /\ Len(buffer[s]) \in Nat BY DEF RoundInv, WeiboShape
  <2>2. Excess(s) \in Nat BY <2>1, WeiboAssumption DEF Excess
  <2> HIDE DEF Excess
  <2> QED BY <2>1, <2>2
<1>3. /\ buffer' \in [FollowedIds -> Seq(Weibos)]
      /\ received' \in [FollowedIds -> SUBSET Weibos]
  BY <1>1, <1>2 DEF RoundInv, WeiboShape
<1>4. WeiboShape' BY <1>1, <1>3 DEF RoundInv, WeiboShape, world, puller, weiboHistory
<1>5. CardsInv' BY <1>1 DEF RoundInv, CardsInv, world, puller
<1>6. PushInv' BY <1>1 DEF RoundInv, PushInv, OnTheWay, Elements, puller, weiboHistory
<1> QED BY <1>4, <1>5, <1>6 DEF RoundInv

LEMMA RoundNext == RoundInv /\ [WeiboNext]_weiboVars => RoundInv'
<1> SUFFICES ASSUME RoundInv, [WeiboNext]_weiboVars PROVE RoundInv' OBVIOUS
<1>1. CASE UNCHANGED weiboVars
  <2> USE <1>1 DEF weiboVars, world, puller, spiders, weiboHistory
  <2>1. WeiboShape' BY DEF RoundInv, WeiboShape
  <2>2. CardsInv' BY DEF RoundInv, CardsInv
  <2>3. OnTheWay' = OnTheWay /\ Elements(latest') = Elements(latest) BY DEF OnTheWay, Elements
  <2>4. PushInv' BY <2>3 DEF RoundInv, PushInv
  <2> QED BY <2>1, <2>2, <2>4 DEF RoundInv
<1> QED BY <1>1, PostStep, LifeStep, FailStep, FetchStep, CardStep, EndStep, BroadcastStep,
           CleanStep DEF WeiboNext

\* weibo_push.h: for any followed users, posts, failures and deaths, what a process has taken
\* for new has been broadcast when its round is over, unless the round failed, found no bot
\* or was the constructor's.
THEOREM NewArePushedHolds == WeiboSpec => []NewArePushed
<1>1. RoundInv => NewArePushed
  BY NoElements DEF RoundInv, PushInv, OnTheWay, NewArePushed
<1> QED BY <1>1, RoundStart, RoundNext, PTL DEF WeiboSpec

-----------------------------------------------------------------------------
(***************************************************************************)
(* A calm user's weibos are new once.  While they are remembered they stay *)
(* in the order in which they were received, each no more than MaxAge      *)
(* older than any before it: what CleanBuffer drops has Buffer others      *)
(* behind it, and if it were young they would all be within 2 * MaxAge.    *)
(***************************************************************************)
TimesInv ==
    \A s \in FollowedIds : \A m, n \in DOMAIN posted[s] :
        posted[s][n] <= minute /\ (m <= n => posted[s][m] <= posted[s][n])

MemoryInv(s) ==
    /\ \A k \in DOMAIN buffer[s] : buffer[s][k][1] = s /\ buffer[s][k][2] \in DOMAIN posted[s]
    /\ received[s] = Elements(buffer[s])
    /\ \A i, k \in DOMAIN buffer[s] : i < k =>
          /\ buffer[s][i][2] # buffer[s][k][2]
          /\ posted[s][buffer[s][k][2]] >= posted[s][buffer[s][i][2]] - MaxAge

OnceInv(s) ==
    \A n \in 1 .. MaxPosts[s] :
        /\ found[s][n] <= 1
        /\ puller_at # "down" /\ found[s][n] # 0
           => /\ n \in DOMAIN posted[s]
              /\ <<s, n>> \in received[s] \/ minute - posted[s][n] > MaxAge

CalmInv == \A s \in FollowedIds : Calm(s) => MemoryInv(s) /\ OnceInv(s)

FreshInv == RoundInv /\ TimesInv /\ CalmInv

LEMMA FreshStart == WeiboInit => FreshInv
<1> SUFFICES ASSUME WeiboInit PROVE FreshInv OBVIOUS
<1>1. TimesInv BY DEF WeiboInit, TimesInv
<1>2. CalmInv BY NoElements DEF WeiboInit, CalmInv, MemoryInv, OnceInv
<1> QED BY <1>1, <1>2, RoundStart DEF FreshInv

LEMMA PostFresh ==
    ASSUME FreshInv, NEW s \in FollowedIds, Post(s)
    PROVE  TimesInv' /\ CalmInv'
<1> DEFINE n == Len(posted[s])
<1>1. /\ posted' = [posted EXCEPT ![s] = Append(posted[s], minute)]
      /\ UNCHANGED <<minute, received, buffer, found, puller_at>>
  BY DEF Post, puller, spiders, weiboHistory
<1>2. /\ posted[s] \in Seq(Nat) /\ n \in Nat /\ DOMAIN posted[s] = 1 .. n /\ minute \in Nat
      /\ DOMAIN posted = FollowedIds
  BY DEF FreshInv, RoundInv, WeiboShape
<1>3. /\ posted'[s] = Append(posted[s], minute)
      /\ \A i \in FollowedIds \ {s} : posted'[i] = posted[i]
  BY <1>1, <1>2
<1>4. /\ DOMAIN posted'[s] = 1 .. (n + 1) /\ posted'[s][n + 1] = minute
      /\ \A k \in 1 .. n : posted'[s][k] = posted[s][k]
  BY <1>2, <1>3
<1>5. TimesInv'
  <2>1. ASSUME NEW i \in FollowedIds \ {s}, NEW k \in DOMAIN posted'[i], NEW m \in DOMAIN posted'[i]
        PROVE  posted'[i][k] <= minute' /\ (m <= k => posted'[i][m] <= posted'[i][k])
    BY <1>1, <1>3, <2>1 DEF FreshInv, TimesInv
  <2>2. ASSUME NEW k \in DOMAIN posted'[s], NEW m \in DOMAIN posted'[s]
        PROVE  posted'[s][k] <= minute' /\ (m <= k => posted'[s][m] <= posted'[s][k])
    <3>1. \A j \in 1 .. n : posted'[s][j] <= minute
      BY <1>2, <1>4 DEF FreshInv, TimesInv
    <3>2. \A j \in 1 .. (n + 1) : posted'[s][j] <= minute BY <1>2, <1>4, <3>1
    <3>3. CASE k \in 1 .. n /\ m \in 1 .. n
      BY <1>1, <1>2, <1>4, <3>1, <3>3 DEF FreshInv, TimesInv
    <3>4. CASE k = n + 1 BY <1>1, <1>4, <2>2, <3>2, <3>4
    <3>5. k \in 1 .. n /\ m = n + 1 => ~(m <= k) BY <1>2
    <3> QED BY <1>1, <1>2, <1>4, <2>2, <3>2, <3>3, <3>4, <3>5
  <2> QED BY <2>1, <2>2 DEF TimesInv
<1>6. ASSUME Calm(s)' PROVE MemoryInv(s)' /\ OnceInv(s)'
  <2>0. /\ DOMAIN posted[s] \subseteq DOMAIN posted'[s]
        /\ \A k \in DOMAIN posted[s] : posted'[s][k] = posted[s][k]
    BY <1>2, <1>4
  <2>1. Calm(s) BY <1>6, <2>0 DEF Calm
  <2>2. MemoryInv(s) /\ OnceInv(s) BY <2>1 DEF FreshInv, CalmInv
  <2>3. MemoryInv(s)' BY <1>1, <1>2, <1>4, <2>2 DEF MemoryInv, Elements
  <2>4. OnceInv(s)' BY <1>1, <1>2, <1>4, <2>2 DEF OnceInv
  <2> QED BY <2>3, <2>4
<1>7. ASSUME NEW i \in FollowedIds \ {s}, Calm(i)' PROVE MemoryInv(i)' /\ OnceInv(i)'
  BY <1>1, <1>3, <1>7 DEF FreshInv, CalmInv, Calm, MemoryInv, OnceInv, Elements
<1> QED BY <1>5, <1>6, <1>7 DEF CalmInv

\* A step that neither receives nor forgets a weibo
LEMMA IdleFresh ==
    ASSUME FreshInv, UNCHANGED <<posted, received, buffer>>,
           minute' \in Nat, minute <= minute',
           \/ found' = found /\ (puller_at' # "down" => puller_at # "down")
           \/ \A s \in FollowedIds : \A n \in 1 .. MaxPosts[s] : found'[s][n] = 0
    PROVE  TimesInv' /\ CalmInv'
<1>1. TimesInv' BY DEF FreshInv, TimesInv, RoundInv, WeiboShape
<1>2. ASSUME NEW s \in FollowedIds, Calm(s)' PROVE MemoryInv(s)' /\ OnceInv(s)'
  <2>1. Calm(s) BY <1>2 DEF Calm
  <2>2. MemoryInv(s) /\ OnceInv(s) BY <2>1 DEF FreshInv, CalmInv
  <2>3. MemoryInv(s)' BY <2>2 DEF MemoryInv, Elements
  <2>4. \A n \in DOMAIN posted[s] : posted[s][n] \in Nat /\ minute \in Nat
    BY DEF FreshInv, RoundInv, WeiboShape
  <2>5. OnceInv(s)'
    <3>1. CASE \A n \in 1 .. MaxPosts[s] : found'[s][n] = 0 BY <3>1 DEF OnceInv
    <3>2. CASE found' = found /\ (puller_at' # "down" => puller_at # "down")
      <4> SUFFICES ASSUME NEW n \in 1 .. MaxPosts[s]
                   PROVE  /\ found[s][n] <= 1
                          /\ puller_at # "down" /\ found[s][n] # 0
                             => /\ n \in DOMAIN posted[s]
                                /\ <<s, n>> \in received[s] \/ minute' - posted[s][n] > MaxAge
        BY <3>2 DEF OnceInv
      <4>1. /\ found[s][n] <= 1
            /\ puller_at # "down" /\ found[s][n] # 0
               => /\ n \in DOMAIN posted[s]
                  /\ <<s, n>> \in received[s] \/ minute - posted[s][n] > MaxAge
        BY <2>2 DEF OnceInv
      <4>2. n \in DOMAIN posted[s] /\ minute - posted[s][n] > MaxAge
            => minute' - posted[s][n] > MaxAge
        BY <2>4, WeiboAssumption
      <4> QED BY <4>1, <4>2
    <3> QED BY <3>1, <3>2
  <2> QED BY <2>3, <2>5
<1> QED BY <1>1, <1>2 DEF CalmInv

\* A weibo is received, of another user or a new one of a calm user.
LEMMA EnterFresh ==
    ASSUME FreshInv, NEW s \in FollowedIds, NEW n \in DOMAIN posted[s], NEW w, w = <<s, n>>,
           NEW isNew \in BOOLEAN, isNew <=> w \notin Filtered,
           puller_at # "down",
           isNew => w \notin received[s] /\ ~(minute - PostedAt(w) > MaxAge),
           UNCHANGED <<minute, posted, puller_at>>,
           received' = [received EXCEPT ![s] = @ \cup {w}],
           buffer' = [buffer EXCEPT ![s] = Append(@, w)],
           found' = IF isNew THEN [found EXCEPT ![w[1]][w[2]] = @ + 1] ELSE found
    PROVE  TimesInv' /\ CalmInv'
<1> DEFINE list == buffer[s]
           L == Len(buffer[s])
<1>types. /\ minute \in Nat /\ posted[s] \in Seq(Nat)
      /\ DOMAIN received = FollowedIds /\ DOMAIN buffer = FollowedIds
      /\ DOMAIN found = FollowedIds /\ found[s] \in [1 .. MaxPosts[s] -> Nat]
      /\ list \in Seq(Weibos) /\ MaxAge \in Nat
  BY WeiboAssumption DEF FreshInv, RoundInv, WeiboShape
<1>parts. w \in Weibos /\ w[1] = s /\ w[2] = n BY <1>types DEF Weibos
<1>1. /\ L \in Nat /\ DOMAIN list = 1 .. L /\ posted[s][n] \in Nat
      /\ DOMAIN posted[s] = 1 .. Len(posted[s]) /\ n \in Nat
  BY <1>types
<1> HIDE DEF list, L
<1>2. TimesInv' BY DEF FreshInv, TimesInv
<1>3. ASSUME NEW i \in FollowedIds \ {s}, Calm(i)' PROVE MemoryInv(i)' /\ OnceInv(i)'
  <2>1. Calm(i) BY <1>3 DEF Calm
  <2>2. MemoryInv(i) /\ OnceInv(i) BY <2>1 DEF FreshInv, CalmInv
  <2>3. received'[i] = received[i] /\ buffer'[i] = buffer[i] /\ found'[i] = found[i]
    BY <1>types, <1>parts
  <2>4. MemoryInv(i)' BY <2>2, <2>3 DEF MemoryInv, Elements
  <2>5. OnceInv(i)' BY <2>2, <2>3 DEF OnceInv
  <2> QED BY <2>4, <2>5
<1>4. ASSUME Calm(s)' PROVE MemoryInv(s)' /\ OnceInv(s)'
  <2>1. Calm(s) BY <1>4 DEF Calm
  <2>2. MemoryInv(s) /\ OnceInv(s) BY <2>1 DEF FreshInv, CalmInv
  <2>3. isNew BY <2>1 DEF Calm
  <2>4. /\ w \notin received[s] /\ posted[s][n] >= minute - MaxAge
    BY <1>1, <1>types, <1>parts, <2>3 DEF PostedAt
  <2>5. /\ received'[s] = received[s] \cup {w} /\ buffer'[s] = Append(list, w)
    BY <1>1, <1>types, <1>parts DEF list
  <2>6. /\ DOMAIN buffer'[s] = 1 .. (L + 1) /\ buffer'[s][L + 1] = w
        /\ \A k \in 1 .. L : buffer'[s][k] = list[k]
    BY <1>1, <1>types, <1>parts, <2>5 DEF L
  <2>7. Elements(buffer'[s]) = Elements(list) \cup {w}
    <3>1. list \in Seq(Weibos) /\ w \in Weibos BY <1>types, <1>parts
    <3>2. Elements(Append(list, w)) = Elements(list) \cup {w} BY <3>1, ElementsOfAppend
    <3> QED BY <2>5, <3>2
  <2>8. \A k \in 1 .. L : list[k][2] # n
    <3> SUFFICES ASSUME NEW k \in 1 .. L, list[k][2] = n PROVE FALSE OBVIOUS
    <3>1. list[k] \in Weibos /\ list[k][1] = s BY <1>1, <1>types, <1>parts, <2>2 DEF MemoryInv, list
    <3>2. list[k] = w BY <3>1 DEF Weibos
    <3> QED BY <1>1, <1>types, <1>parts, <2>2, <2>4, <3>2 DEF MemoryInv, list, Elements
  <2>9. \A k \in 1 .. L : posted[s][n] >= posted[s][list[k][2]] - MaxAge
    <3> SUFFICES ASSUME NEW k \in 1 .. L PROVE posted[s][n] >= posted[s][list[k][2]] - MaxAge
      OBVIOUS
    <3>1. list[k][2] \in DOMAIN posted[s] BY <1>1, <1>types, <1>parts, <2>2 DEF MemoryInv, list
    <3>0. posted[s] \in Seq(Nat) BY <1>types
    <3>2. posted[s][list[k][2]] \in Nat BY <3>0, <3>1
    <3>3. posted[s][list[k][2]] <= minute BY <3>1 DEF FreshInv, TimesInv
    <3>4. minute \in Nat /\ MaxAge \in Nat /\ posted[s][n] \in Nat BY <1>1, <1>types
    <3> QED BY <2>4, <3>2, <3>3, <3>4
  <2>10. MemoryInv(s)'
    <3>1. \A k \in DOMAIN buffer'[s] :
             buffer'[s][k][1] = s /\ buffer'[s][k][2] \in DOMAIN posted[s]
      <4> SUFFICES ASSUME NEW k \in 1 .. L + 1
                   PROVE  buffer'[s][k][1] = s /\ buffer'[s][k][2] \in DOMAIN posted[s]
        BY <2>6
      <4>1. CASE k = L + 1 BY <1>parts, <2>6, <4>1
      <4>2. CASE k \in 1 .. L
        <5>1. list[k][1] = s /\ list[k][2] \in DOMAIN posted[s]
          BY <1>1, <2>2, <4>2 DEF MemoryInv, list
        <5> QED BY <2>6, <4>2, <5>1
      <4>3. k = L + 1 \/ k \in 1 .. L BY <1>1
      <4> QED BY <4>1, <4>2, <4>3
    <3>2. ASSUME NEW i \in DOMAIN buffer'[s], NEW k \in DOMAIN buffer'[s], i < k
          PROVE  /\ buffer'[s][i][2] # buffer'[s][k][2]
                 /\ posted[s][buffer'[s][k][2]] >= posted[s][buffer'[s][i][2]] - MaxAge
      <4>1. CASE k = L + 1
        <5>1. i \in 1 .. L BY <1>1, <2>6, <3>2, <4>1
        <5>2. buffer'[s][i] = list[i] /\ buffer'[s][k] = w BY <2>6, <4>1, <5>1
        <5> QED BY <1>parts, <2>8, <2>9, <5>1, <5>2
      <4>2. CASE k \in 1 .. L
        <5>1. i \in 1 .. L BY <1>1, <2>6, <3>2, <4>2
        <5>2. buffer'[s][i] = list[i] /\ buffer'[s][k] = list[k] BY <2>6, <4>2, <5>1
        <5> QED BY <1>1, <2>2, <3>2, <4>2, <5>1, <5>2 DEF MemoryInv, list
      <4>3. k = L + 1 \/ k \in 1 .. L BY <1>1, <2>6
      <4> QED BY <4>1, <4>2, <4>3
    <3> QED BY <2>2, <2>5, <2>7, <3>1, <3>2 DEF MemoryInv, list
  <2>11. OnceInv(s)'
    <3>1. ASSUME NEW m \in 1 .. MaxPosts[s]
          PROVE  found'[s][m] = IF m = n THEN found[s][m] + 1 ELSE found[s][m]
      BY <1>1, <1>types, <1>parts, <2>3
    <3>2. n \in 1 .. MaxPosts[s] => found[s][n] = 0 \/ puller_at = "down"
      <4> SUFFICES ASSUME n \in 1 .. MaxPosts[s], found[s][n] # 0, puller_at # "down"
                   PROVE  FALSE
        OBVIOUS
      <4>1. <<s, n>> \in received[s] \/ minute - posted[s][n] > MaxAge BY <2>2 DEF OnceInv
      <4>2. minute \in Nat /\ MaxAge \in Nat /\ posted[s][n] \in Nat BY <1>1, <1>types
      <4> QED BY <2>4, <4>1, <4>2
    <3> SUFFICES ASSUME NEW m \in 1 .. MaxPosts[s]
                 PROVE  /\ found'[s][m] <= 1
                        /\ puller_at' # "down" /\ found'[s][m] # 0
                           => /\ m \in DOMAIN posted'[s]
                              /\ <<s, m>> \in received'[s] \/ minute' - posted'[s][m] > MaxAge
      BY DEF OnceInv
    <3>3. /\ found[s][m] <= 1
          /\ puller_at # "down" /\ found[s][m] # 0
             => /\ m \in DOMAIN posted[s]
                /\ <<s, m>> \in received[s] \/ minute - posted[s][m] > MaxAge
      BY <2>2 DEF OnceInv
    <3>4. CASE m = n
      <4>1. found'[s][m] = 1 /\ <<s, m>> \in received'[s] BY <2>5, <3>1, <3>2, <3>4
      <4> QED BY <3>4, <4>1
    <3>5. CASE m # n
      <4>1. found'[s][m] = found[s][m] BY <3>1, <3>5
      <4> QED BY <2>5, <3>3, <4>1
    <3> QED BY <3>4, <3>5
  <2> QED BY <2>10, <2>11
<1> QED BY <1>2, <1>3, <1>4 DEF CalmInv

LEMMA CardFresh == FreshInv /\ Card => TimesInv' /\ CalmInv'
<1> SUFFICES ASSUME FreshInv, Card PROVE TimesInv' /\ CalmInv' OBVIOUS
<1> DEFINE w == Head(cards)
<1>1. /\ puller_at = "cards" /\ cards # <<>>
      /\ UNCHANGED <<minute, posted, puller_at>> /\ minute \in Nat
  BY DEF Card, world, FreshInv, RoundInv, WeiboShape
<1>2. /\ w \in Weibos /\ w[1] = spider /\ w[2] \in DOMAIN posted[spider] /\ spider \in FollowedIds
  <2>1. cards \in Seq(Weibos) BY DEF FreshInv, RoundInv, WeiboShape
  <2>2. w = cards[1] /\ 1 \in DOMAIN cards BY <1>1, <2>1
  <2> QED BY <2>1, <2>2 DEF FreshInv, RoundInv, WeiboShape, CardsInv
<1> HIDE DEF w
<1> DEFINE s == spider
           n == w[2]
<1>3. s \in FollowedIds /\ n \in DOMAIN posted[s] /\ w = <<s, n>> BY <1>2 DEF Weibos
<1>4. CASE UNCHANGED <<received, buffer, latest, found, known>>
  BY <1>1, <1>4, IdleFresh
<1>5. ASSUME Enter(w, w \notin Filtered),
             \/ w \in Filtered
             \/ w \notin received[spider] /\ ~(minute - PostedAt(w) > MaxAge)
      PROVE  TimesInv' /\ CalmInv'
  BY <1>1, <1>2, <1>3, <1>5, EnterFresh DEF Enter
<1> QED BY <1>4, <1>5 DEF Card, w, spiders

\* What CleanBuffer forgets of a calm user is too old to be taken for new again.
LEMMA ForgottenIsOld ==
    ASSUME FreshInv, NEW s \in FollowedIds, Calm(s), NEW i \in 1 .. Excess(s)
    PROVE  /\ i \in DOMAIN buffer[s]
           /\ minute - posted[s][buffer[s][i][2]] > MaxAge
<1> DEFINE L == Len(buffer[s])
           IdAt(k) == buffer[s][k][2]
           time == posted[s]
<1>0. /\ buffer[s] \in Seq(Weibos) /\ time \in Seq(Nat) /\ minute \in Nat
      /\ MaxAge \in Nat /\ Buffer \in Nat \ {0}
  BY WeiboAssumption DEF FreshInv, RoundInv, WeiboShape
<1>1. /\ L \in Nat /\ DOMAIN buffer[s] = 1 .. L /\ DOMAIN time = 1 .. Len(time)
      /\ minute \in Nat /\ MaxAge \in Nat /\ Buffer \in Nat \ {0}
  BY <1>0
<1>2. L > Buffer /\ i \in 1 .. (L - Buffer) /\ i \in DOMAIN buffer[s]
  BY <1>1 DEF Excess
<1>3. /\ \A k \in 1 .. L : IdAt(k) \in DOMAIN time
      /\ \A j, k \in 1 .. L : j < k => IdAt(j) # IdAt(k) /\ time[IdAt(k)] >= time[IdAt(j)] - MaxAge
  BY <1>1 DEF FreshInv, CalmInv, MemoryInv
<1>4. \A k \in DOMAIN time : time[k] \in Nat /\ k \in Nat BY <1>0, <1>1
<1>5. \A j, k \in DOMAIN time : time[k] <= minute /\ (j <= k => time[j] <= time[k])
  BY DEF FreshInv, TimesInv
<1>6. \A j, k \in DOMAIN time : time[k] - time[j] \in 0 .. 2 * MaxAge => k - j < Buffer
  BY DEF Calm
<1> HIDE DEF L, IdAt, time
<1>7. ASSUME minute - time[IdAt(i)] <= MaxAge PROVE FALSE
  <2> DEFINE S == i .. L
             T == 0 .. Buffer - 1
             f == [k \in S |-> Remainder(IdAt(k), Buffer)]
  <2>1. IsFiniteSet(S) /\ Cardinality(S) = L - i + 1
    <3>1. i \in Int /\ L \in Int /\ ~(i > L) BY <1>1, <1>2
    <3> QED BY <3>1, FS_Interval
  <2>2. IsFiniteSet(T) /\ Cardinality(T) = Buffer
    <3>1. Buffer - 1 \in Int /\ ~(0 > Buffer - 1) /\ Buffer - 1 - 0 + 1 = Buffer BY <1>1
    <3> QED BY <3>1, FS_Interval
  <2>3. Cardinality(T) < Cardinality(S) BY <1>1, <1>2, <2>1, <2>2
  <2>4. \A k \in S : k \in 1 .. L /\ IdAt(k) \in Nat BY <1>1, <1>2, <1>3, <1>4
  <2>5. f \in [S -> T] BY <1>1, <2>4, SmallerRemainder
  <2>6. \A k \in S : time[IdAt(k)] >= time[IdAt(i)] - MaxAge /\ time[IdAt(k)] <= time[IdAt(i)] + MaxAge
    <3> SUFFICES ASSUME NEW k \in S
                 PROVE  time[IdAt(k)] >= time[IdAt(i)] - MaxAge /\ time[IdAt(k)] <= time[IdAt(i)] + MaxAge
      OBVIOUS
    <3>1. k \in 1 .. L /\ i \in 1 .. L BY <1>1, <1>2, <2>4
    <3>2. time[IdAt(k)] \in Nat /\ time[IdAt(i)] \in Nat /\ time[IdAt(k)] <= minute
      BY <1>3, <1>4, <1>5, <3>1
    <3>3. k = i \/ i < k BY <1>1, <1>2
    <3>4. time[IdAt(k)] >= time[IdAt(i)] - MaxAge BY <1>1, <1>3, <3>1, <3>2, <3>3
    <3> QED BY <1>1, <1>7, <3>2, <3>4
  <2>7. PICK x, y \in S : x # y /\ f[x] = f[y]
    <3> HIDE DEF S, T, f
    <3> QED BY <2>1, <2>2, <2>3, <2>5, FS_PigeonHole
  <2>8. /\ Remainder(IdAt(x), Buffer) = Remainder(IdAt(y), Buffer)
        /\ IdAt(x) # IdAt(y) /\ IdAt(x) \in Nat /\ IdAt(y) \in Nat
        /\ IdAt(x) \in DOMAIN time /\ IdAt(y) \in DOMAIN time
    <3>1. x < y \/ y < x BY <1>1, <1>2, <2>7
    <3> QED BY <1>3, <2>4, <2>7, <3>1
  <2>9. \A j, k \in DOMAIN time :
           /\ time[k] >= time[IdAt(i)] - MaxAge /\ time[k] <= time[IdAt(i)] + MaxAge
           /\ time[j] >= time[IdAt(i)] - MaxAge /\ time[j] <= time[IdAt(i)] + MaxAge
           /\ j < k
           => k - j < Buffer
    <3> SUFFICES ASSUME NEW j \in DOMAIN time, NEW k \in DOMAIN time, j < k,
                        time[k] <= time[IdAt(i)] + MaxAge, time[j] >= time[IdAt(i)] - MaxAge
                 PROVE  k - j < Buffer
      OBVIOUS
    <3>1. time[j] <= time[k] BY <1>4, <1>5
    <3>2. time[j] \in Nat /\ time[k] \in Nat /\ time[IdAt(i)] \in Nat
      BY <1>1, <1>2, <1>3, <1>4
    <3>3. MaxAge \in Nat BY <1>1
    <3>4. time[k] - time[j] \in 0 .. 2 * MaxAge BY <3>1, <3>2, <3>3
    <3> QED BY <1>6, <3>4
  <2> HIDE DEF S, T, f
  <2>10. CASE IdAt(x) < IdAt(y)
    <3>1. IdAt(y) - IdAt(x) >= Buffer BY <1>1, <2>8, <2>10, SameRemainder
    <3>2. IdAt(y) - IdAt(x) < Buffer BY <2>6, <2>8, <2>9, <2>10
    <3> QED BY <1>1, <2>8, <3>1, <3>2
  <2>11. CASE IdAt(y) < IdAt(x)
    <3>1. IdAt(x) - IdAt(y) >= Buffer BY <1>1, <2>8, <2>11, SameRemainder
    <3>2. IdAt(x) - IdAt(y) < Buffer BY <2>6, <2>8, <2>9, <2>11
    <3> QED BY <1>1, <2>8, <3>1, <3>2
  <2> QED BY <2>8, <2>10, <2>11
<1>8. minute - time[IdAt(i)] > MaxAge
  <2>1. time[IdAt(i)] \in Nat BY <1>1, <1>2, <1>3, <1>4
  <2> QED BY <1>1, <1>7, <2>1
<1> QED BY <1>2, <1>8 DEF IdAt, time

LEMMA CleanFresh == FreshInv /\ CleanBuffer => TimesInv' /\ CalmInv'
<1> SUFFICES ASSUME FreshInv, CleanBuffer PROVE TimesInv' /\ CalmInv' OBVIOUS
<1>1. /\ UNCHANGED <<minute, posted, found, puller_at>>
      /\ buffer' = [s \in FollowedIds |-> SubSeq(buffer[s], Excess(s) + 1, Len(buffer[s]))]
      /\ received' = [s \in FollowedIds |->
                        received[s] \ {buffer[s][k] : k \in 1 .. Excess(s)}]
  BY DEF CleanBuffer, world, puller, weiboHistory
<1>2. TimesInv' BY <1>1 DEF FreshInv, TimesInv
<1>3. ASSUME NEW s \in FollowedIds, Calm(s)' PROVE MemoryInv(s)' /\ OnceInv(s)'
  <2> DEFINE list == buffer[s]
             L == Len(list)
             e == Excess(s)
  <2>1. Calm(s) BY <1>1, <1>3 DEF Calm
  <2>2. MemoryInv(s) /\ OnceInv(s) BY <2>1 DEF FreshInv, CalmInv
  <2>3. list \in Seq(Weibos) /\ L \in Nat /\ DOMAIN list = 1 .. L
    BY DEF FreshInv, RoundInv, WeiboShape
  <2>4. e \in 0 .. L /\ L - e \in Nat
    <3>1. Buffer \in Nat BY WeiboAssumption
    <3> QED BY <2>3, <3>1 DEF Excess
  <2>5. ASSUME NEW i \in 1 .. e
        PROVE  i \in DOMAIN list /\ minute - posted[s][list[i][2]] > MaxAge
    BY <2>1, <2>5, ForgottenIsOld
  <2>6. /\ buffer'[s] = SubSeq(list, e + 1, L)
        /\ received'[s] = received[s] \ {list[k] : k \in 1 .. e}
    BY <1>1
  <2> HIDE DEF e, L, list
  <2>7. /\ DOMAIN buffer'[s] = 1 .. (L - e)
        /\ \A k \in 1 .. (L - e) : buffer'[s][k] = list[k + e]
    BY <2>3, <2>4, <2>6
  <2>8. \A k \in 1 .. (L - e) : k + e \in 1 .. L /\ k + e > e BY <2>3, <2>4
  <2>9. \A i, k \in 1 .. L : i < k => list[i] # list[k]
    BY <2>2, <2>3 DEF MemoryInv, list
  <2>10. received'[s] = Elements(buffer'[s])
    <3>1. received[s] = {list[k] : k \in 1 .. L} BY <2>2, <2>3 DEF MemoryInv, Elements, list
    <3>2. ASSUME NEW k \in 1 .. (L - e) PROVE list[k + e] \in received'[s]
      <4>1. k + e \in 1 .. L /\ \A j \in 1 .. e : j \in 1 .. L /\ j < k + e
        BY <2>3, <2>4, <2>8
      <4>2. list[k + e] \notin {list[j] : j \in 1 .. e} BY <2>9, <4>1
      <4> QED BY <2>6, <3>1, <4>1, <4>2
    <3>3. ASSUME NEW k \in 1 .. L, list[k] \in received'[s]
          PROVE  \E j \in 1 .. (L - e) : list[k] = list[j + e]
      <4>1. k \notin 1 .. e BY <2>6, <3>3
      <4>2. k - e \in 1 .. (L - e) /\ k = (k - e) + e BY <2>3, <2>4, <4>1
      <4> QED BY <4>2
    <3>4. Elements(buffer'[s]) = {list[k + e] : k \in 1 .. (L - e)} BY <2>7 DEF Elements
    <3> QED BY <2>6, <3>1, <3>2, <3>3, <3>4
  <2>11. MemoryInv(s)'
    <3>1. ASSUME NEW i \in DOMAIN buffer'[s], NEW k \in DOMAIN buffer'[s], i < k
          PROVE  /\ buffer'[s][i][2] # buffer'[s][k][2]
                 /\ posted[s][buffer'[s][k][2]] >= posted[s][buffer'[s][i][2]] - MaxAge
      <4>1. i + e \in 1 .. L /\ k + e \in 1 .. L /\ i + e < k + e BY <2>4, <2>7, <2>8, <3>1
      <4> QED BY <2>2, <2>3, <2>7, <3>1, <4>1 DEF MemoryInv, list
    <3>2. \A k \in DOMAIN buffer'[s] :
             buffer'[s][k][1] = s /\ buffer'[s][k][2] \in DOMAIN posted[s]
      BY <2>2, <2>3, <2>7, <2>8 DEF MemoryInv, list
    <3>3. posted' = posted BY <1>1
    <3> QED BY <2>10, <3>1, <3>2, <3>3 DEF MemoryInv, Elements
  <2>12. OnceInv(s)'
    <3> SUFFICES ASSUME NEW n \in 1 .. MaxPosts[s], <<s, n>> \in received[s],
                        <<s, n>> \notin received'[s]
                 PROVE  minute - posted[s][n] > MaxAge
      BY <1>1, <2>2 DEF OnceInv
    <3>1. PICK k \in 1 .. e : list[k] = <<s, n>> BY <2>6
    <3> QED BY <2>5, <3>1
  <2> QED BY <2>11, <2>12
<1> QED BY <1>2, <1>3 DEF CalmInv

\* weibo_spider.h: for any followed users, posts, ages and buffer sizes, however CleanBuffer
\* comes between the cards of a page, a weibo of a calm user is new to a process once.
THEOREM NewOnceHolds == WeiboSpec => []NewOnce
<1>1. FreshInv => NewOnce BY DEF FreshInv, CalmInv, OnceInv, NewOnce
<1>2. ASSUME FreshInv, [WeiboNext]_weiboVars PROVE FreshInv'
  <2>1. RoundInv' BY <1>2, RoundNext DEF FreshInv
  <2>2. minute \in Nat BY <1>2 DEF FreshInv, RoundInv, WeiboShape
  <2>3. CASE \E s \in FollowedIds : Post(s)
    BY <1>2, <2>1, <2>3, PostFresh DEF FreshInv
  <2>4. CASE Card BY <1>2, <2>1, <2>4, CardFresh DEF FreshInv
  <2>5. CASE CleanBuffer BY <1>2, <2>1, <2>5, CleanFresh DEF FreshInv
  <2>6. CASE StartWeibo
    <3>1. /\ UNCHANGED <<minute, posted, received, buffer>>
          /\ \A s \in FollowedIds : \A n \in 1 .. MaxPosts[s] : found'[s][n] = 0
      BY <2>6 DEF StartWeibo, world, spiders
    <3> QED BY <1>2, <2>1, <2>2, <3>1, IdleFresh DEF FreshInv
  <2>7. CASE Dies
    <3>1. /\ UNCHANGED <<minute, posted, found>> /\ puller_at' = "down"
          /\ \A s \in FollowedIds : received'[s] = {} /\ buffer'[s] = <<>>
      BY <2>7 DEF Dies, WeiboStep, world, weiboHistory
    <3>2. TimesInv' BY <1>2, <3>1 DEF FreshInv, TimesInv
    <3>3. ASSUME NEW s \in FollowedIds, Calm(s)' PROVE MemoryInv(s)' /\ OnceInv(s)'
      <4>1. Calm(s) BY <3>1, <3>3 DEF Calm
      <4>2. OnceInv(s) BY <1>2, <4>1 DEF FreshInv, CalmInv
      <4>3. OnceInv(s)' BY <3>1, <4>2 DEF OnceInv
      <4>4. MemoryInv(s)' BY <3>1 DEF MemoryInv, Elements
      <4> QED BY <4>3, <4>4
    <3> QED BY <2>1, <3>2, <3>3 DEF FreshInv, CalmInv
  <2>8. CASE Tick \/ Pull \/ RoundFails \/ Fetch \/ SpiderEnds \/ Broadcast
             \/ UNCHANGED weiboVars
    <3>1. /\ UNCHANGED <<posted, received, buffer, found>>
          /\ minute' \in Nat /\ minute <= minute'
          /\ puller_at' # "down" => puller_at # "down"
      BY <2>2, <2>8 DEF Tick, Pull, RoundFails, Fetch, SpiderEnds, Broadcast, weiboVars,
                        world, puller, spiders, weiboHistory, Rest, WeiboStep
    <3> QED BY <1>2, <2>1, <3>1, IdleFresh DEF FreshInv
  <2> QED BY <1>2, <2>3, <2>4, <2>5, <2>6, <2>7, <2>8 DEF WeiboNext
<1> QED BY <1>1, <1>2, FreshStart, PTL DEF WeiboSpec

-----------------------------------------------------------------------------
(***************************************************************************)
(* WeatherSearch: the list of a user whose searches do not overlap is the  *)
(* one he was last shown.                                                  *)
(***************************************************************************)
Cities == DOMAIN Places
Found == UNION {{Places[n][i] : i \in DOMAIN Places[n]} : n \in Cities}

SearchShape ==
    /\ stage \in [Searches -> {"idle", "named", "waiting", "asking"}]
    /\ key \in [Searches -> Speakers \cup {NoName}]
    /\ name \in [Searches -> Cities \cup {NoName}]
    /\ locations \in [Speakers -> Seq(Found)]
    /\ shown \in [Speakers -> Seq(Found)]
    /\ \A s \in Searches : stage[s] # "idle" => key[s] \in Speakers
    /\ \A s \in Searches : stage[s] \in {"named", "asking"} => name[s] \in Cities

\* What holds of a key whose searches have not overlapped since it was shown a list
Undisturbed(k) ==
    /\ shown[k] = locations[k]
    /\ \A s, r \in Running(k) : s = r
    /\ Running(k) # {} => locations[k] = <<>>

SearchInv == SearchShape /\ \A k \in Speakers \ disturbed : Undisturbed(k)

LEMMA SearchStart == SearchInit => SearchInv /\ NumbersMeanWhatWasShown
BY DEF SearchInit, SearchInv, SearchShape, Undisturbed, Running, NumbersMeanWhatWasShown, Nobody

\* What a list holds are places that the service found.
LEMMA ListsOfPlaces == \A n \in Cities : Places[n] \in Seq(Found)
<1> SUFFICES ASSUME NEW n \in Cities PROVE Places[n] \in Seq(Found) OBVIOUS
<1> DEFINE S == {Places[n][i] : i \in DOMAIN Places[n]}
<1>1. S \subseteq Found BY DEF Found
<1>2. Places[n] \in Seq(S) BY PlacesAssumption DEF Cities
<1> HIDE DEF S
<1> QED BY <1>1, <1>2

\* Only a request for the weather of a number is told anything.
LEMMA SilentIsRight == told' = Nobody => NumbersMeanWhatWasShown'
BY DEF NumbersMeanWhatWasShown

LEMMA SearchStep ==
    ASSUME SearchInv, NEW s \in Searches, NEW k \in Speakers, SetLocation(s, k)
    PROVE  SearchInv'
<1>1. /\ stage[s] = "idle" /\ stage'[s] \in {"waiting", "named"}
      /\ stage' \in [Searches -> {"idle", "named", "waiting", "asking"}]
      /\ \A r \in Searches \ {s} : stage'[r] = stage[r] /\ key'[r] = key[r] /\ name'[r] = name[r]
      /\ key'[s] = k /\ key' \in [Searches -> Speakers \cup {NoName}]
      /\ name' \in [Searches -> Cities \cup {NoName}]
      /\ stage'[s] = "named" => name'[s] \in Cities
  BY DEF SetLocation, Stay, SearchInv, SearchShape, Cities
<1>2. /\ locations' = [locations EXCEPT ![k] = <<>>] /\ shown' = [shown EXCEPT ![k] = <<>>]
      /\ disturbed' = IF Running(k) = {} THEN disturbed \ {k} ELSE disturbed \cup {k}
  BY DEF SetLocation
<1>lists. locations' \in [Speakers -> Seq(Found)] /\ shown' \in [Speakers -> Seq(Found)]
  BY <1>2 DEF SearchInv, SearchShape
<1>3. SearchShape' BY <1>1, <1>lists DEF SearchInv, SearchShape
<1>4. Running(k)' = Running(k) \cup {s} BY <1>1 DEF Running
<1>5. \A i \in Speakers \ {k} : Running(i)' = Running(i) BY <1>1 DEF Running
<1>6. ASSUME NEW i \in Speakers \ disturbed' PROVE Undisturbed(i)'
  <2>1. CASE i = k
    <3>1. Running(k) = {} BY <1>2, <1>6, <2>1
    <3>2. Running(k)' = {s} BY <1>4, <3>1
    <3> QED BY <1>2, <2>1, <3>2 DEF SearchInv, SearchShape, Undisturbed
  <2>2. CASE i # k
    <3>1. i \notin disturbed BY <1>2, <1>6, <2>2
    <3>2. shown'[i] = shown[i] /\ locations'[i] = locations[i]
      BY <1>2, <2>2 DEF SearchInv, SearchShape
    <3> QED BY <1>5, <2>2, <3>1, <3>2 DEF SearchInv, Undisturbed
  <2> QED BY <2>1, <2>2
<1> QED BY <1>3, <1>6 DEF SearchInv

\* A search that goes on, or ends, without a list
LEMMA QuietStep ==
    ASSUME SearchInv, NEW s \in Searches, stage[s] # "idle", UNCHANGED <<locations, shown>>,
           disturbed' = disturbed, key' = key,
           NEW to \in {"idle", "named", "asking"}, Stay(s, to),
           name' \in [Searches -> Cities \cup {NoName}],
           \A r \in Searches \ {s} : name'[r] = name[r],
           to # "idle" => name'[s] \in Cities
    PROVE  SearchInv'
<1>1. SearchShape' BY DEF SearchInv, SearchShape, Stay
<1>2. \A k \in Speakers : Running(k)' \subseteq Running(k)
  BY DEF SearchInv, SearchShape, Running, Stay
<1> QED BY <1>1, <1>2 DEF SearchInv, Undisturbed

LEMMA ArriveStep ==
    ASSUME SearchInv, NEW s \in Searches, PlacesArrive(s)
    PROVE  SearchInv'
<1> DEFINE k == key[s]
           list == Places[name[s]]
<1>1. /\ stage[s] = "asking" /\ stage' = [stage EXCEPT ![s] = "idle"]
      /\ key' = key /\ name' = name /\ k \in Speakers /\ name[s] \in Cities
      /\ stage \in [Searches -> {"idle", "named", "waiting", "asking"}]
  BY DEF PlacesArrive, Stay, SearchInv, SearchShape
<1>2. CASE UNCHANGED <<locations, shown, disturbed>>
  BY <1>1, <1>2, QuietStep DEF SearchInv, SearchShape, Stay
<1>3. CASE /\ locations' = [locations EXCEPT ![k] = @ \o list]
           /\ shown' = [shown EXCEPT ![k] = list] /\ disturbed' = disturbed
  <2>1. list \in Seq(Found) BY <1>1, ListsOfPlaces
  <2>2. SearchShape' BY <1>1, <1>3, <2>1 DEF SearchInv, SearchShape
  <2>3. Running(k)' = Running(k) \ {s} /\ s \in Running(k) BY <1>1 DEF Running
  <2>4. \A i \in Speakers \ {k} : Running(i)' = Running(i) BY <1>1 DEF Running
  <2>5. ASSUME NEW i \in Speakers \ disturbed' PROVE Undisturbed(i)'
    <3>1. CASE i = k
      <4>1. Undisturbed(k) BY <1>3, <2>5, <3>1 DEF SearchInv
      <4>2. locations[k] = <<>> /\ Running(k)' = {} BY <2>3, <4>1 DEF Undisturbed
      <4>3. <<>> \o list = list BY <2>1
      <4> QED BY <1>1, <1>3, <3>1, <4>2, <4>3 DEF SearchInv, SearchShape, Undisturbed
    <3>2. CASE i # k BY <1>1, <1>3, <2>4, <2>5, <3>2 DEF SearchInv, SearchShape, Undisturbed
    <3> QED BY <3>1, <3>2
  <2> QED BY <2>2, <2>5 DEF SearchInv
<1> QED BY <1>2, <1>3 DEF PlacesArrive

LEMMA WeatherStep ==
    ASSUME SearchInv, NEW k \in Speakers, NEW i \in Nat, RealTimeWeather(k, i)
    PROVE  SearchInv' /\ NumbersMeanWhatWasShown'
<1>1. SearchInv'
  BY DEF SearchInv, SearchShape, Undisturbed, Running, RealTimeWeather, searching
<1>2. shown'[k] = locations'[k] \/ k \in disturbed' BY <1>1 DEF SearchInv, Undisturbed
<1>3. /\ told' = [key |-> k, index |-> i, place |-> Chosen(k, i)]
      /\ locations[k] # <<>> /\ locations' = locations
      /\ locations[k] \in Seq(Found)
  BY DEF RealTimeWeather, SearchInv, SearchShape
<1> QED BY <1>1, <1>2, <1>3 DEF NumbersMeanWhatWasShown, Chosen

\* weather.h:139-187: the number a user sends is looked up in the list that a search wrote.
\* For any users, searches and places, however their messages interleave, it means what the
\* list shown to him says, unless searches of his overlapped.
THEOREM NumbersMeanWhatWasShownHolds == SearchSpec => []NumbersMeanWhatWasShown
<1>1. ASSUME SearchInv, NumbersMeanWhatWasShown, [SearchNext]_searchVars
      PROVE  SearchInv' /\ NumbersMeanWhatWasShown'
  <2>1. ASSUME NEW s \in Searches, NEW k \in Speakers, SetLocation(s, k)
        PROVE  SearchInv' /\ NumbersMeanWhatWasShown'
    BY <1>1, <2>1, SearchStep, SilentIsRight DEF SetLocation
  <2>2. ASSUME NEW s \in Searches, NameArrives(s)
        PROVE  SearchInv' /\ NumbersMeanWhatWasShown'
    <3>1. /\ stage[s] # "idle" /\ UNCHANGED <<locations, shown>> /\ disturbed' = disturbed
          /\ key' = key /\ told' = Nobody /\ name \in [Searches -> Cities \cup {NoName}]
      BY <1>1, <2>2 DEF NameArrives, NoChange, SearchInv, SearchShape
    <3>2. CASE Stay(s, "idle") /\ name' = name BY <1>1, <3>1, <3>2, QuietStep, SilentIsRight
    <3>3. ASSUME NEW n \in Cities, Stay(s, "named"), name' = [name EXCEPT ![s] = n]
          PROVE  SearchInv' /\ NumbersMeanWhatWasShown'
      <4>1. /\ name' \in [Searches -> Cities \cup {NoName}] /\ name'[s] \in Cities
            /\ \A r \in Searches \ {s} : name'[r] = name[r]
        BY <3>1, <3>3
      <4> QED BY <1>1, <3>1, <3>3, <4>1, QuietStep, SilentIsRight
    <3> QED BY <2>2, <3>2, <3>3 DEF NameArrives, Cities
  <2>3. ASSUME NEW s \in Searches, AskService(s)
        PROVE  SearchInv' /\ NumbersMeanWhatWasShown'
    <3>1. /\ stage[s] # "idle" /\ UNCHANGED <<locations, shown>> /\ disturbed' = disturbed
          /\ key' = key /\ name' = name /\ told' = Nobody /\ name[s] \in Cities
          /\ name \in [Searches -> Cities \cup {NoName}]
          /\ Stay(s, "idle") \/ Stay(s, "asking")
      BY <1>1, <2>3 DEF AskService, NoChange, SearchInv, SearchShape
    <3> QED BY <1>1, <3>1, QuietStep, SilentIsRight
  <2>4. ASSUME NEW s \in Searches, PlacesArrive(s)
        PROVE  SearchInv' /\ NumbersMeanWhatWasShown'
    BY <1>1, <2>4, ArriveStep, SilentIsRight DEF PlacesArrive
  <2>5. CASE UNCHANGED searchVars
    BY <1>1, <2>5 DEF searchVars, searching, SearchInv, SearchShape, Undisturbed, Running,
                      NumbersMeanWhatWasShown
  <2> QED BY <1>1, <2>1, <2>2, <2>3, <2>4, <2>5, WeatherStep DEF SearchNext
<1> QED BY <1>1, SearchStart, PTL DEF SearchSpec

-----------------------------------------------------------------------------
(***************************************************************************)
(* Bilibili: Redis remembers a link that could be saved at least as long   *)
(* as it may not be told again; and what a parser has found to be new is   *)
(* new still, unless it is unaware of another's answer.                    *)
(***************************************************************************)
AtUrl == {"check", "request", "remember", "save", "sending"}

BiliShape ==
    /\ repeat \in [Keys -> Nat] /\ told_links \in [Keys -> 0 .. kExpiredTime]
    /\ parsing \in [Parsers -> {"free", "next", "redirect"} \cup AtUrl]
    /\ DOMAIN chat = Parsers /\ DOMAIN url = Parsers
    /\ \A h \in Parsers : parsing[h] # "free" => chat[h] \in Chats
    /\ \A h \in Parsers : parsing[h] = "redirect" => url[h] \in Alias
    /\ \A h \in Parsers : parsing[h] \in AtUrl => url[h] \in Urls

RememberInv == \A k \in Keys \ unsaved : told_links[k] <= repeat[k]

\* A parser that need not be excused
Sure(h) == Decided(h) /\ h \notin unaware \cup misread /\ LinkOf(h) \notin unsaved

RequestInv == \A h \in Parsers : Sure(h) => told_links[LinkOf(h)] = 0

BiliInv == BiliShape /\ RememberInv /\ RequestInv

LEMMA BiliStart == BiliInit => BiliInv /\ AnsweredOnce
BY LinksAssumption
   DEF BiliInit, BiliInv, BiliShape, RememberInv, RequestInv, Sure, Decided, AnsweredOnce,
       AtUrl, Keys

LEMMA LinkIsKey ==
    ASSUME BiliShape, NEW h \in Parsers, parsing[h] \in AtUrl
    PROVE  LinkOf(h) \in Keys
BY LinksAssumption DEF BiliShape, LinkOf, Keys, AtUrl

\* A step that tells nothing and decides nothing
LEMMA NoAnswerStep ==
    ASSUME BiliInv, BiliShape', UNCHANGED <<told_links, unsaved>>, ~double',
           \A k \in Keys : repeat'[k] >= repeat[k],
           \A h \in Parsers : Decided(h)' =>
               /\ Decided(h) /\ chat'[h] = chat[h] /\ url'[h] = url[h]
               /\ h \in unaware \cup misread => h \in unaware' \cup misread'
    PROVE  BiliInv' /\ AnsweredOnce'
<1>1. RememberInv'
  <2>1. ASSUME NEW k \in Keys \ unsaved PROVE told_links'[k] <= repeat'[k]
    <3>1. told_links[k] <= repeat[k] BY DEF BiliInv, RememberInv
    <3>2. /\ told_links'[k] = told_links[k] /\ repeat'[k] >= repeat[k]
          /\ told_links[k] \in Int /\ repeat[k] \in Int /\ repeat'[k] \in Int
      BY LinksAssumption DEF BiliInv, BiliShape
    <3> QED BY <3>1, <3>2
  <2> QED BY <2>1 DEF RememberInv
<1>2. RequestInv'
  <2>1. ASSUME NEW h \in Parsers, Sure(h)' PROVE told_links'[LinkOf(h)'] = 0
    <3>1. LinkOf(h)' = LinkOf(h) BY <2>1 DEF Sure, LinkOf
    <3>2. Sure(h) BY <2>1, <3>1 DEF Sure
    <3> QED BY <3>1, <3>2 DEF BiliInv, RequestInv
  <2> QED BY <2>1 DEF RequestInv
<1> QED BY <1>1, <1>2 DEF BiliInv, AnsweredOnce

LEMMA ClockStep == BiliInv /\ Clock => BiliInv' /\ AnsweredOnce'
<1> SUFFICES ASSUME BiliInv, Clock PROVE BiliInv' /\ AnsweredOnce' OBVIOUS
<1>1. /\ UNCHANGED <<parsing, chat, url, unaware, misread, unsaved>> /\ ~double'
  BY DEF Clock, parser, excuses
<1>2. /\ repeat' = [k \in Keys |-> IF repeat[k] > 0 THEN repeat[k] - 1 ELSE 0]
      /\ told_links' = [k \in Keys |-> IF told_links[k] > 0 THEN told_links[k] - 1 ELSE 0]
  BY DEF Clock
<1>3. BiliShape' BY <1>1, <1>2, LinksAssumption DEF BiliInv, BiliShape
<1>4. RememberInv' BY <1>1, <1>2 DEF BiliInv, BiliShape, RememberInv
<1>5. RequestInv'
  <2>1. ASSUME NEW h \in Parsers, Sure(h)' PROVE told_links'[LinkOf(h)'] = 0
    <3>1. Sure(h) /\ LinkOf(h)' = LinkOf(h) BY <1>1, <2>1 DEF Sure, Decided, LinkOf
    <3>2. told_links[LinkOf(h)] = 0 BY <3>1 DEF BiliInv, RequestInv
    <3>3. LinkOf(h) \in Keys BY <3>1, LinkIsKey DEF BiliInv, Sure, Decided, AtUrl
    <3> QED BY <1>2, <3>1, <3>2, <3>3
  <2> QED BY <2>1 DEF RequestInv
<1> QED BY <1>1, <1>3, <1>4, <1>5 DEF BiliInv, AnsweredOnce

\* A parser decides: unless its look-up failed, its link was not there.
LEMMA LookStep ==
    ASSUME BiliInv, NEW h \in Parsers, NEW to \in AtUrl \cup {"next"}, parsing[h] \in AtUrl,
           StepTo(h, to), UNCHANGED <<repeat, chat, url, told_links, unaware, unsaved>>,
           ~double', misread \subseteq misread',
           Decided(h)' /\ h \notin misread' => repeat[LinkOf(h)] = 0 \/ Decided(h)
    PROVE  BiliInv' /\ AnsweredOnce'
<1>1. parsing' = [parsing EXCEPT ![h] = to] BY DEF StepTo
<1>2. BiliShape' BY <1>1 DEF BiliInv, BiliShape, AtUrl
<1>3. RememberInv' BY DEF BiliInv, RememberInv
<1>4. ASSUME NEW i \in Parsers, Sure(i)' PROVE told_links'[LinkOf(i)'] = 0
  <2>1. LinkOf(i)' = LinkOf(i) BY DEF LinkOf
  <2>2. CASE Sure(i) BY <2>1, <2>2 DEF BiliInv, RequestInv
  <2>3. CASE ~Sure(i)
    <3>1. ~Decided(i) /\ LinkOf(i) \notin unsaved BY <1>4, <2>1, <2>3 DEF Sure
    <3>2. i = h BY <1>1, <1>4, <3>1 DEF Sure, Decided, BiliInv, BiliShape
    <3>3. repeat[LinkOf(h)] = 0 BY <1>4, <3>1, <3>2 DEF Sure
    <3>4. LinkOf(h) \in Keys BY LinkIsKey DEF BiliInv
    <3>5. told_links[LinkOf(h)] <= repeat[LinkOf(h)] /\ told_links[LinkOf(h)] \in Nat
      BY <3>1, <3>2, <3>4, LinksAssumption DEF BiliInv, BiliShape, RememberInv
    <3> QED BY <2>1, <3>2, <3>3, <3>5
  <2> QED BY <2>2, <2>3
<1> QED BY <1>2, <1>3, <1>4 DEF BiliInv, RequestInv, AnsweredOnce

LEMMA CheckStep ==
    ASSUME BiliInv, NEW h \in Parsers, CheckUrl(h)
    PROVE  BiliInv' /\ AnsweredOnce'
<1> DEFINE g == chat[h]
           u == url[h]
           live == UrlKind[u] = "live"
<1>1. /\ UNCHANGED <<repeat, chat, url, told_links, unaware, unsaved>> /\ ~double'
      /\ parsing[h] = "check"
  BY DEF CheckUrl
<1>2. PICK f1, f2 \in BOOLEAN :
        /\ misread' = IF live /\ f2 THEN misread \cup {h} ELSE misread
        /\ StepTo(h, IF IsInCache(u, g, f1) \/ (live /\ IsInCache(Link[u], g, f2))
                       THEN "next" ELSE "request")
  BY DEF CheckUrl
<1>3. PICK to \in {"next", "request"} :
        /\ StepTo(h, to)
        /\ to = "request" /\ live => ~IsInCache(Link[u], g, f2)
  BY <1>2
<1>4. LinkOf(h) \in Keys BY <1>1, LinkIsKey DEF BiliInv, AtUrl
<1>5. ASSUME Decided(h)', h \notin misread' PROVE repeat[LinkOf(h)] = 0
  <2>1. to = "request" /\ live
    BY <1>1, <1>3, <1>5 DEF Decided, StepTo, BiliInv, BiliShape
  <2>2. ~f2 BY <1>2, <1>5, <2>1
  <2>3. ~(repeat[LinkOf(h)] > 0) BY <1>3, <2>1, <2>2 DEF IsInCache, LinkOf
  <2> QED BY <1>4, <2>3 DEF BiliInv, BiliShape
<1>6. misread \subseteq misread' BY <1>2
<1> QED BY <1>1, <1>3, <1>5, <1>6, LookStep DEF AtUrl

LEMMA DetailsStep ==
    ASSUME BiliInv, NEW h \in Parsers, Details(h)
    PROVE  BiliInv' /\ AnsweredOnce'
<1> DEFINE l == Link[url[h]]
           page == UrlKind[url[h]] = "page"
<1>1. /\ UNCHANGED <<repeat, chat, url, told_links, unaware, unsaved>> /\ ~double'
      /\ parsing[h] = "request" /\ url[h] \in Urls
  BY DEF Details, BiliInv, BiliShape, AtUrl
<1>2. PICK f \in BOOLEAN :
        /\ misread' = IF page /\ f THEN misread \cup {h} ELSE misread
        /\ StepTo(h, IF page /\ IsInCache(l, chat[h], f) THEN "next" ELSE "remember")
  BY DEF Details
<1>3. PICK to \in {"next", "remember"} :
        /\ StepTo(h, to)
        /\ to = "remember" /\ page => ~IsInCache(l, chat[h], f)
  BY <1>2
<1>4. LinkOf(h) \in Keys BY <1>1, LinkIsKey DEF BiliInv, AtUrl
<1>5. ASSUME Decided(h)', h \notin misread' PROVE repeat[LinkOf(h)] = 0 \/ Decided(h)
  <2>1. CASE ~page BY <1>1, <2>1, LinksAssumption DEF Decided
  <2>2. CASE page
    <3>1. to = "remember" BY <1>1, <1>3, <1>5 DEF Decided, StepTo, BiliInv, BiliShape
    <3>2. ~f BY <1>2, <1>5, <2>2
    <3>3. ~(repeat[LinkOf(h)] > 0) BY <1>3, <2>2, <3>1, <3>2 DEF IsInCache, LinkOf
    <3> QED BY <1>4, <3>3 DEF BiliInv, BiliShape
  <2> QED BY <2>1, <2>2
<1>6. misread \subseteq misread' BY <1>2
<1> QED BY <1>1, <1>3, <1>5, <1>6, LookStep DEF AtUrl

\* The answer of a parser that has decided
LEMMA TellStep ==
    ASSUME BiliInv, NEW h \in Parsers, Decided(h), NEW to \in {"save", "sending"},
           StepTo(h, to), TellLink(h)
    PROVE  BiliInv' /\ AnsweredOnce'
<1> DEFINE k == LinkOf(h)
<1>1. /\ k \in Keys /\ parsing[h] \in AtUrl
  BY LinkIsKey DEF BiliInv, Decided, AtUrl
<1>2. PICK f \in BOOLEAN :
        /\ AddInCacheNotRepeat(RememberedUrl(h), chat[h], f)
        /\ told_links' = [told_links EXCEPT ![k] = kExpiredTime]
        /\ unsaved' = IF f THEN unsaved \cup {k} ELSE unsaved \ {k}
        /\ unaware' = unaware \cup {i \in Parsers \ {h} : Decided(i) /\ LinkOf(i) = k}
        /\ double' = (/\ told_links[k] > 0
                      /\ h \notin unaware \cup misread /\ k \notin unsaved)
        /\ UNCHANGED <<chat, url, misread>>
  BY DEF TellLink
<1>3. repeat' = IF f THEN repeat ELSE [repeat EXCEPT ![k] = kExpiredTime]
  BY <1>2 DEF AddInCacheNotRepeat, RememberedUrl, LinkOf
<1>4. parsing' = [parsing EXCEPT ![h] = to] BY DEF StepTo
<1> HIDE DEF k
<1>5. BiliShape'
  BY <1>1, <1>2, <1>3, <1>4, LinksAssumption DEF BiliInv, BiliShape, AtUrl
<1>6. AnsweredOnce'
  <2>1. h \notin unaware \cup misread /\ k \notin unsaved => told_links[k] = 0
    BY DEF BiliInv, RequestInv, Sure, k
  <2>2. ~(/\ told_links[k] > 0
          /\ h \notin unaware \cup misread /\ k \notin unsaved)
    BY <2>1
  <2> QED BY <1>2, <2>2, Zenon DEF AnsweredOnce
<1>7. RememberInv'
  <2>1. ASSUME NEW j \in Keys \ unsaved', j = k PROVE told_links'[j] <= repeat'[j]
    <3>1. ~f BY <1>2, <2>1
    <3> QED BY <1>1, <1>2, <1>3, <2>1, <3>1, LinksAssumption DEF BiliInv, BiliShape
  <2>2. ASSUME NEW j \in Keys \ unsaved', j # k PROVE told_links'[j] <= repeat'[j]
    <3>1. j \notin unsaved BY <1>2, <2>2
    <3>2. told_links[j] <= repeat[j] BY <3>1 DEF BiliInv, RememberInv
    <3>3. told_links'[j] = told_links[j] BY <1>2, <2>2 DEF BiliInv, BiliShape
    <3>4. repeat'[j] = repeat[j] BY <1>3, <2>2 DEF BiliInv, BiliShape
    <3> QED BY <3>2, <3>3, <3>4
  <2> QED BY <2>1, <2>2 DEF RememberInv
<1>8. RequestInv'
  <2>1. ASSUME NEW i \in Parsers, Sure(i)' PROVE told_links'[LinkOf(i)'] = 0
    <3>1. LinkOf(i)' = LinkOf(i) BY <1>2 DEF LinkOf
    <3>2. i # h /\ Decided(i)
      BY <1>2, <1>4, <2>1, LinksAssumption DEF Sure, Decided, BiliInv, BiliShape
    <3>3. LinkOf(i) # k /\ i \notin unaware \cup misread
      BY <1>2, <2>1, <3>2 DEF Sure
    <3>4. LinkOf(i) \notin unsaved BY <1>2, <2>1, <3>1, <3>3 DEF Sure
    <3>5. told_links[LinkOf(i)] = 0 BY <3>2, <3>3, <3>4 DEF BiliInv, RequestInv, Sure
    <3>6. LinkOf(i) \in Keys BY <3>2, LinkIsKey DEF BiliInv, Decided, AtUrl
    <3>7. told_links'[LinkOf(i)] = told_links[LinkOf(i)]
      BY <1>2, <3>3, <3>6 DEF BiliInv, BiliShape
    <3> QED BY <3>1, <3>5, <3>7
  <2> QED BY <2>1 DEF RequestInv
<1> QED BY <1>5, <1>6, <1>7, <1>8 DEF BiliInv

LEMMA SaveStep == ASSUME BiliInv, NEW h \in Parsers, SaveUrl(h) PROVE BiliInv' /\ AnsweredOnce'
<1>1. /\ parsing[h] = "save" /\ parsing' = [parsing EXCEPT ![h] = "sending"] /\ ~double'
      /\ UNCHANGED <<chat, url, told_links, unaware, misread, unsaved>>
  BY DEF SaveUrl, StepTo, excuses
<1>2. repeat' \in {repeat, [repeat EXCEPT ![<<chat[h], url[h]>>] = kExpiredTime]}
  BY DEF SaveUrl, AddInCacheNotRepeat
<1>3. BiliShape' BY <1>1, <1>2, LinksAssumption DEF BiliInv, BiliShape, AtUrl
<1>4. RememberInv'
  <2>1. ASSUME NEW k \in Keys \ unsaved PROVE told_links[k] <= repeat'[k]
    <3>1. told_links[k] <= repeat[k] /\ told_links[k] <= kExpiredTime
      BY DEF BiliInv, BiliShape, RememberInv
    <3>2. repeat'[k] \in {repeat[k], kExpiredTime} BY <1>2 DEF BiliInv, BiliShape
    <3> QED BY <3>1, <3>2
  <2> QED BY <1>1, <2>1 DEF RememberInv
<1>5. RequestInv'
  <2>1. ASSUME NEW i \in Parsers, Sure(i)' PROVE Sure(i) /\ LinkOf(i)' = LinkOf(i)
    BY <1>1, <2>1 DEF Sure, Decided, LinkOf, BiliInv, BiliShape
  <2> QED BY <1>1, <2>1 DEF RequestInv, BiliInv
<1> QED BY <1>1, <1>3, <1>4, <1>5 DEF BiliInv, AnsweredOnce

\* bilibili_parser.h:95-140: for any groups, addresses, parsers and expiry time, a link that
\* was told is not told again in the group before its time, under whatever address it comes
\* and whatever processes end, unless another parser told it behind this one's look-up, or
\* Redis failed in that look-up or in remembering the link.
THEOREM AnsweredOnceHolds == BiliSpec => []AnsweredOnce
<1>1. ASSUME BiliInv, AnsweredOnce, [BiliNext]_biliVars
      PROVE  BiliInv' /\ AnsweredOnce'
  <2> DEFINE Goal == BiliInv' /\ AnsweredOnce'
  <2>0. BiliShape /\ \A k \in Keys : repeat[k] >= repeat[k] BY <1>1 DEF BiliInv, BiliShape
  <2>1. ASSUME NEW h \in Parsers, NEW g \in Chats, NEW us \in Posts, LinksMessage(h, g, us)
        PROVE  Goal
    <3>1. BiliShape' BY <2>0, <2>1 DEF LinksMessage, StepTo, BiliShape, AtUrl
    <3> QED BY <1>1, <2>0, <2>1, <3>1, NoAnswerStep
            DEF LinksMessage, StepTo, BiliShape, Decided, excuses
  <2>2. ASSUME NEW h \in Parsers, NEW u \in Urls \cup Alias, NextUrl(h, u) PROVE Goal
    <3>1. BiliShape' BY <2>0, <2>2 DEF NextUrl, StepTo, BiliShape, AtUrl
    <3> QED BY <1>1, <2>0, <2>2, <3>1, NoAnswerStep
            DEF NextUrl, NextAddress, StepTo, BiliShape, Decided
  <2>3. ASSUME NEW h \in Parsers, Redirect(h) PROVE Goal
    <3>1. BiliShape' BY <2>0, <2>3, LinksAssumption DEF Redirect, StepTo, BiliShape, AtUrl
    <3> QED BY <1>1, <2>0, <2>3, <3>1, NoAnswerStep
            DEF Redirect, StepTo, BiliShape, Decided, excuses
  <2>4. ASSUME NEW h \in Parsers, RedirectFails(h) PROVE Goal
    <3>1. BiliShape' BY <2>0, <2>4 DEF RedirectFails, BiliShape, AtUrl
    <3> QED BY <1>1, <2>0, <2>4, <3>1, NoAnswerStep DEF RedirectFails, BiliShape, Decided
  <2>5. ASSUME NEW h \in Parsers, NoDetails(h) PROVE Goal
    <3>1. BiliShape' BY <2>0, <2>5 DEF NoDetails, StepTo, BiliShape, AtUrl
    <3> QED BY <1>1, <2>0, <2>5, <3>1, NoAnswerStep
            DEF NoDetails, StepTo, BiliShape, Decided, excuses
  <2>6. ASSUME NEW h \in Parsers, Sent(h) PROVE Goal
    <3>1. BiliShape' BY <2>0, <2>6 DEF Sent, StepTo, BiliShape, AtUrl
    <3> QED BY <1>1, <2>0, <2>6, <3>1, NoAnswerStep
            DEF Sent, StepTo, BiliShape, Decided, excuses
  <2>7. ASSUME NEW h \in Parsers, Done(h) PROVE Goal
    <3>1. BiliShape' BY <2>0, <2>7 DEF Done, StepTo, BiliShape, AtUrl
    <3> QED BY <1>1, <2>0, <2>7, <3>1, NoAnswerStep
            DEF Done, NextAddress, StepTo, BiliShape, Decided
  <2>8. ASSUME NEW h \in Parsers, AnswerLink(h) \/ NoRoom(h) PROVE Goal
    BY <1>1, <2>8, TellStep DEF AnswerLink, NoRoom, Decided
  <2>9. CASE UNCHANGED biliVars
    BY <1>1, <2>9 DEF biliVars, parser, excuses, BiliInv, BiliShape, RememberInv, RequestInv,
                      Sure, Decided, LinkOf, AnsweredOnce
  <2> QED BY <1>1, <2>1, <2>2, <2>3, <2>4, <2>5, <2>6, <2>7, <2>8, <2>9, ClockStep, CheckStep,
             DetailsStep, SaveStep DEF BiliNext
<1> QED BY <1>1, BiliStart, PTL DEF BiliSpec

-----------------------------------------------------------------------------
(***************************************************************************)
(* Zhanbu: what a user was told on a day is in his row, which is valid for *)
(* every request of that day, and none of them is drawing another.         *)
(***************************************************************************)
Results == [yi : Fortunes \cup {NoOne}, ji : Fortunes \cup {NoOne}, dye : Dyes \cup {NoOne},
            append : {"yi", "ji", NoOne}]

Kept(r) == [yi |-> r.yi, ji |-> r.ji, dye |-> r.dye, append |-> r.append]

EndOfDay(d) == d * DayLength + DayLength - 1
IsEnd(t) == \E s \in Nat : t = LastSecondOfToday(s)

RequestShape ==
    /\ clock \in Nat
    /\ doing \in [Requests -> {"idle", "read", "draw", "write"}]
    /\ asker \in [Requests -> Askers \cup {NoOne}]
    /\ drawn \in [Requests -> Results]
    /\ asked_at \in [Requests -> Nat] /\ until \in [Requests -> Nat]
    /\ \A r \in Requests : /\ doing[r] # "idle" => asker[r] \in Askers
                           /\ doing[r] = "write"
                                => IsEnd(until[r]) /\ EndOfDay(Today(r)) <= until[r]
                           /\ asked_at[r] <= clock

RowShape(u) ==
    /\ said[u] = [day |-> said[u].day, what |-> said[u].what] /\ said[u].day \in Int
    /\ record[u].expire \in Nat /\ (record[u].expire = 0 \/ IsEnd(record[u].expire))

\* What a request is excused for while it is at work
ExcusedInv(u) ==
    /\ \A r \in Asking(u) : asked_at[r] = EndOfDay(Today(r)) => <<u, Today(r)>> \in excused
    /\ \A r \in Drawing(u), q \in Asking(u) :
           r # q => <<u, Today(r)>> \in excused /\ <<u, Today(q)>> \in excused

\* Of a user who was told his fortune on a day that has no excuse
ToldInv(u) ==
    said[u].day \in Nat /\ <<u, said[u].day>> \notin excused
    => /\ EndOfDay(said[u].day) <= record[u].expire
       /\ said[u].what \in {Kept(record[u]), Exchanged(record[u])}
       /\ \A r \in Drawing(u) : Today(r) # said[u].day

UserInv(u) == RowShape(u) /\ ExcusedInv(u) /\ ToldInv(u)

ZhanbuInv ==
    /\ RequestShape /\ DOMAIN record = Askers /\ DOMAIN said = Askers
    /\ \A u \in Askers : UserInv(u)

Same(u) ==
    LET old == said[u]
        new == said'[u]
    IN  new # old /\ new.day = old.day /\ <<u, new.day>> \notin excused'
        => new.what = Exchanged(old.what)

LEMMA Days ==
    ASSUME NEW t \in Nat
    PROVE  /\ DayNumber(t) \in Nat /\ LastSecondOfToday(t) = EndOfDay(DayNumber(t))
           /\ t <= LastSecondOfToday(t) /\ LastSecondOfToday(t) \in Nat
<1>1. t \div DayLength \in Nat BY DayAssumption
<1>2. t < ((t \div DayLength) + 1) * DayLength BY DayAssumption, Z3
<1>3. (t \div DayLength) * DayLength + DayLength = ((t \div DayLength) + 1) * DayLength
  BY DayAssumption, <1>1, Z3
<1>4. (t \div DayLength) * DayLength \in Nat BY <1>1, DayAssumption
<1> QED BY <1>1, <1>2, <1>3, <1>4, DayAssumption DEF DayNumber, LastSecondOfToday, EndOfDay

\* A time that is not after the end of a day is of this day or an earlier one.
LEMMA Later ==
    ASSUME NEW t \in Nat, NEW s \in Nat, t <= LastSecondOfToday(s)
    PROVE  EndOfDay(DayNumber(t)) <= LastSecondOfToday(s)
<1> DEFINE d == t \div DayLength
           e == s \div DayLength
<1>1. d \in Nat /\ e \in Nat BY DayAssumption
<1>2. d * DayLength <= t BY DayAssumption, Z3
<1>3. LastSecondOfToday(s) = EndOfDay(e) BY DEF LastSecondOfToday, DayNumber, EndOfDay
<1>4. DayNumber(t) = d BY DEF DayNumber
<1> HIDE DEF d, e
<1>5. e * DayLength + DayLength = (e + 1) * DayLength BY <1>1, DayAssumption, Z3
<1>6. d * DayLength < (e + 1) * DayLength
  <2>1. e * DayLength \in Int /\ d * DayLength \in Int BY <1>1, DayAssumption
  <2> QED BY <1>2, <1>3, <1>5, <2>1, DayAssumption DEF EndOfDay
<1>7. d <= e BY <1>1, <1>6, DayAssumption, Z3
<1>8. d * DayLength <= e * DayLength BY <1>1, <1>7, DayAssumption, Z3
<1>9. e * DayLength \in Int /\ d * DayLength \in Int BY <1>1, DayAssumption
<1> QED BY <1>3, <1>4, <1>8, <1>9, DayAssumption DEF EndOfDay

LEMMA DrawnResults == GetZhanbuResult \subseteq Results /\ Blank \in Results
BY DEF GetZhanbuResult, Results, Blank

LEMMA ZhanbuStart == ZhanbuInit => ZhanbuInv
<1> SUFFICES ASSUME ZhanbuInit PROVE ZhanbuInv OBVIOUS
<1>1. clock \in Nat BY DayAssumption DEF ZhanbuInit
<1>2. RequestShape BY <1>1, DrawnResults DEF ZhanbuInit, RequestShape
<1>3. \A u \in Askers : RowShape(u) /\ Asking(u) = {} /\ Drawing(u) = {} /\ said[u].day = -1
  BY DEF ZhanbuInit, RowShape, Unwritten, Asking, Drawing
<1>4. DOMAIN record = Askers /\ DOMAIN said = Askers BY DEF ZhanbuInit
<1> QED BY <1>2, <1>3, <1>4 DEF ZhanbuInv, UserInv, ExcusedInv, ToldInv

\* What is said of a user stays true when he is told nothing, his row stays and none of
\* his requests goes on.
LEMMA UserStays ==
    ASSUME NEW u \in Askers, UserInv(u), said'[u] = said[u], record'[u] = record[u],
           Asking(u)' \subseteq Asking(u), Drawing(u)' \subseteq Drawing(u),
           \A r \in Asking(u)' : Today(r)' = Today(r) /\ asked_at'[r] = asked_at[r],
           excused \subseteq excused'
    PROVE  UserInv(u)' /\ Same(u)
<1>1. Drawing(u)' \subseteq Asking(u)' BY DEF Drawing
<1>2. RowShape(u)' BY DEF UserInv, RowShape, IsEnd, LastSecondOfToday, DayNumber
<1>3. ExcusedInv(u)' BY <1>1 DEF UserInv, ExcusedInv, EndOfDay
<1>4. ToldInv(u)' BY <1>1 DEF UserInv, ToldInv, EndOfDay, Kept, Exchanged
<1> QED BY <1>2, <1>3, <1>4 DEF UserInv, Same

LEMMA SecondStep == ZhanbuInv /\ Second => ZhanbuInv' /\ \A u \in Askers : Same(u)
<1> SUFFICES ASSUME ZhanbuInv, Second PROVE ZhanbuInv' /\ \A u \in Askers : Same(u) OBVIOUS
<1>1. /\ clock \in Nat /\ clock' = clock + 1
      /\ UNCHANGED <<record, doing, asker, drawn, asked_at, until, excused, said>>
  BY DEF Second, ZhanbuInv, RequestShape, requests, answers
<1>2. \A r \in Requests : Today(r)' = Today(r) BY <1>1 DEF Today, DayNumber
<1>3. RequestShape'
  BY <1>1, <1>2 DEF ZhanbuInv, RequestShape, IsEnd, EndOfDay, LastSecondOfToday, DayNumber
<1>4. \A u \in Askers : Asking(u)' = Asking(u) /\ Drawing(u)' = Drawing(u)
  BY <1>1 DEF Asking, Drawing
<1>5. \A u \in Askers : Asking(u) \subseteq Requests BY DEF Asking
<1>6. \A u \in Askers : UserInv(u)' /\ Same(u)
  BY <1>1, <1>2, <1>4, <1>5, UserStays DEF ZhanbuInv
<1> QED BY <1>1, <1>3, <1>6 DEF ZhanbuInv

\* A request is made.
LEMMA AskStep ==
    ASSUME ZhanbuInv, NEW r \in Requests, NEW u \in Askers, GetEorzeaZhanbu(r, u)
    PROVE  ZhanbuInv' /\ \A v \in Askers : Same(v)
<1> DEFINE today == DayNumber(clock)
<1>1. /\ doing[r] = "idle" /\ doing' = [doing EXCEPT ![r] = "read"]
      /\ asker' = [asker EXCEPT ![r] = u] /\ asked_at' = [asked_at EXCEPT ![r] = clock]
      /\ UNCHANGED <<clock, record, drawn, until, said>>
      /\ clock \in Nat /\ excused \subseteq excused'
  BY DEF GetEorzeaZhanbu, ZhanbuInv, RequestShape
<1>2. Today(r)' = today /\ \A q \in Requests \ {r} : Today(q)' = Today(q)
  BY <1>1 DEF Today, DayNumber, ZhanbuInv, RequestShape
<1>3. RequestShape'
  <2>1. \A q \in Requests : doing'[q] = "write" => q # r /\ doing[q] = "write"
    BY <1>1 DEF ZhanbuInv, RequestShape
  <2> QED BY <1>1, <1>2, <2>1
          DEF ZhanbuInv, RequestShape, IsEnd, EndOfDay, LastSecondOfToday, DayNumber
<1>4. /\ Asking(u)' = Asking(u) \cup {r} /\ r \notin Asking(u)
      /\ \A v \in Askers \ {u} : Asking(v)' = Asking(v) /\ r \notin Asking(v)
      /\ \A v \in Askers : Drawing(v)' = Drawing(v) /\ r \notin Drawing(v)
                           /\ Asking(v) \subseteq Requests /\ Drawing(v) \subseteq Asking(v)
  BY <1>1 DEF Asking, Drawing, ZhanbuInv, RequestShape
<1>5. ASSUME NEW v \in Askers \ {u} PROVE UserInv(v)' /\ Same(v)
  <2>1. \A q \in Asking(v)' : Today(q)' = Today(q) /\ asked_at'[q] = asked_at[q]
    BY <1>1, <1>2, <1>4 DEF ZhanbuInv, RequestShape
  <2> QED BY <1>1, <1>4, <2>1, UserStays DEF ZhanbuInv
<1>6. Same(u) BY <1>1 DEF Same
<1>7. RowShape(u)'
  BY <1>1 DEF ZhanbuInv, UserInv, RowShape, IsEnd, LastSecondOfToday, DayNumber
<1>8. ToldInv(u)'
  BY <1>1, <1>2, <1>4 DEF ZhanbuInv, UserInv, ToldInv, EndOfDay, Kept, Exchanged
<1>9. ExcusedInv(u)'
  <2>1. ASSUME NEW q \in Asking(u)', asked_at'[q] = EndOfDay(Today(q)')
        PROVE  <<u, Today(q)'>> \in excused'
    <3>1. CASE q = r
      <4>1. asked_at'[q] = clock BY <1>1, <3>1 DEF ZhanbuInv, RequestShape
      <4>2. clock = LastSecondOfToday(clock) BY <1>1, <1>2, <2>1, <3>1, <4>1, Days
      <4> QED BY <1>2, <3>1, <4>2 DEF GetEorzeaZhanbu
    <3>2. CASE q # r
      <4>1. asked_at'[q] = asked_at[q] /\ Today(q)' = Today(q) /\ q \in Asking(u)
        BY <1>1, <1>2, <1>4, <3>2 DEF ZhanbuInv, RequestShape
      <4> QED BY <1>1, <2>1, <4>1 DEF ZhanbuInv, UserInv, ExcusedInv
    <3> QED BY <3>1, <3>2
  <2>2. ASSUME NEW p \in Drawing(u)', NEW q \in Asking(u)', p # q
        PROVE  <<u, Today(p)'>> \in excused' /\ <<u, Today(q)'>> \in excused'
    <3>1. p \in Drawing(u) /\ p # r /\ Today(p)' = Today(p) BY <1>2, <1>4
    <3>2. CASE q = r
      <4>1. DaysOf(u, Drawing(u)) \cup {<<u, today>>} \subseteq excused'
        BY <3>1 DEF GetEorzeaZhanbu
      <4> QED BY <1>2, <3>1, <3>2, <4>1 DEF DaysOf
    <3>3. CASE q # r
      <4>1. q \in Asking(u) /\ Today(q)' = Today(q) BY <1>2, <1>4, <3>3
      <4> QED BY <1>1, <2>2, <3>1, <4>1 DEF ZhanbuInv, UserInv, ExcusedInv
    <3> QED BY <3>2, <3>3
  <2> QED BY <2>1, <2>2 DEF ExcusedInv, EndOfDay
<1> QED BY <1>1, <1>3, <1>5, <1>6, <1>7, <1>8, <1>9 DEF ZhanbuInv, UserInv

\* A request is over.
LEMMA OverShape ==
    ASSUME ZhanbuInv, NEW r \in Requests, doing[r] # "idle", Over(r), UNCHANGED clock
    PROVE  /\ RequestShape' /\ asker[r] \in Askers
           /\ \A v \in Askers :
                 /\ Asking(v)' = Asking(v) \ {r} /\ Drawing(v)' = Drawing(v) \ {r}
                 /\ \A q \in Asking(v)' : Today(q)' = Today(q) /\ asked_at'[q] = asked_at[q]
<1>1. /\ doing' = [doing EXCEPT ![r] = "idle"] /\ asker' = [asker EXCEPT ![r] = NoOne]
      /\ drawn' = [drawn EXCEPT ![r] = Blank] /\ asked_at' = [asked_at EXCEPT ![r] = 0]
      /\ until' = [until EXCEPT ![r] = 0] /\ clock' = clock
  BY DEF Over
<1>2. \A q \in Requests \ {r} : Today(q)' = Today(q) /\ asked_at'[q] = asked_at[q]
  BY <1>1 DEF Today, DayNumber, ZhanbuInv, RequestShape
<1>3. RequestShape'
  <2>1. \A q \in Requests : doing'[q] # "idle"
           => q # r /\ doing'[q] = doing[q] /\ asker'[q] = asker[q] /\ until'[q] = until[q]
    BY <1>1 DEF ZhanbuInv, RequestShape
  <2>2. \A q \in Requests : asked_at'[q] <= clock BY <1>1 DEF ZhanbuInv, RequestShape
  <2>3. \A q \in Requests : doing'[q] = "write"
           => IsEnd(until'[q]) /\ EndOfDay(Today(q)') <= until'[q]
    BY <1>2, <2>1 DEF ZhanbuInv, RequestShape
  <2> QED BY <1>1, <2>1, <2>2, <2>3, DrawnResults
          DEF ZhanbuInv, RequestShape, IsEnd, EndOfDay, LastSecondOfToday, DayNumber
<1>4. ASSUME NEW v \in Askers PROVE Asking(v)' = Asking(v) \ {r}
  BY <1>1 DEF Asking, ZhanbuInv, RequestShape
<1>5. ASSUME NEW v \in Askers PROVE Drawing(v)' = Drawing(v) \ {r}
  BY <1>1, <1>4 DEF Drawing, ZhanbuInv, RequestShape, Asking
<1>6. \A v \in Askers : Asking(v) \subseteq Requests BY DEF Asking
<1> QED BY <1>2, <1>3, <1>4, <1>5, <1>6 DEF ZhanbuInv, RequestShape

\* What its user was told, when it was told rightly and no other one of the day draws
LEMMA ToldStep ==
    ASSUME ZhanbuInv, NEW r \in Requests, NEW u, u = asker[r], doing[r] # "idle",
           NEW what, Say(r, what), UNCHANGED clock, excused \subseteq excused',
           DOMAIN record' = Askers, \A v \in Askers \ {u} : record'[v] = record[v],
           RowShape(u)', Same(u),
           <<u, Today(r)>> \notin excused'
             => /\ EndOfDay(Today(r)) <= record'[u].expire
                /\ what \in {Kept(record'[u]), Exchanged(record'[u])}
                /\ \A q \in Drawing(u) \ {r} : Today(q) # Today(r)
    PROVE  ZhanbuInv' /\ \A v \in Askers : Same(v)
<1>0. Over(r) /\ said' = [said EXCEPT ![u] = [day |-> Today(r), what |-> what]]
  BY DEF Say
<1>1. /\ RequestShape' /\ u \in Askers
      /\ \A v \in Askers :
            /\ Asking(v)' = Asking(v) \ {r} /\ Drawing(v)' = Drawing(v) \ {r}
            /\ \A q \in Asking(v)' : Today(q)' = Today(q) /\ asked_at'[q] = asked_at[q]
  BY <1>0, OverShape
<1>2. /\ said'[u] = [day |-> Today(r), what |-> what] /\ DOMAIN said' = Askers
      /\ \A v \in Askers \ {u} : said'[v] = said[v]
  BY <1>0, <1>1 DEF ZhanbuInv
<1>3. \A v \in Askers \ {u} : UserInv(v)' /\ Same(v)
  BY <1>1, <1>2, UserStays DEF ZhanbuInv
<1>4. Drawing(u)' \subseteq Asking(u)' BY DEF Drawing
<1>5. ExcusedInv(u)' BY <1>1, <1>4 DEF ZhanbuInv, UserInv, ExcusedInv, EndOfDay
<1>6. ToldInv(u)'
  BY <1>1, <1>2, <1>4 DEF ToldInv, EndOfDay, Kept, Exchanged
<1> QED BY <1>1, <1>2, <1>3, <1>5, <1>6 DEF ZhanbuInv, UserInv

\* The row answers the request.
LEMMA ReadStep ==
    ASSUME ZhanbuInv, NEW r \in Requests, NEW u, u = asker[r], doing[r] = "read",
           record[u].expire > asked_at[r], Say(r, Exchanged(record[u])),
           UNCHANGED <<clock, record, excused>>
    PROVE  ZhanbuInv' /\ \A v \in Askers : Same(v)
<1>0. asker[r] \in Askers /\ asked_at[r] \in Nat BY DEF ZhanbuInv, RequestShape
<1> DEFINE row == record[u]
<1>1. RowShape(u) /\ UserInv(u) BY <1>0 DEF ZhanbuInv, UserInv
<1>2. /\ said' = [said EXCEPT ![u] = [day |-> Today(r), what |-> Exchanged(row)]]
      /\ DOMAIN said = Askers
  BY DEF Say, ZhanbuInv
<1>3. said'[u] = [day |-> Today(r), what |-> Exchanged(row)] BY <1>0, <1>2
<1>4. EndOfDay(Today(r)) <= row.expire
  <2>1. row.expire \in Nat /\ row.expire # 0 BY <1>0, <1>1 DEF RowShape
  <2>2. PICK s \in Nat : row.expire = LastSecondOfToday(s) BY <1>1, <2>1 DEF RowShape, IsEnd
  <2> QED BY <1>0, <2>1, <2>2, Later DEF Today
<1>5. Today(r) \in Nat BY <1>0, Days DEF Today
<1>6. RowShape(u)'
  BY <1>1, <1>3, <1>5 DEF RowShape, IsEnd, LastSecondOfToday, DayNumber
<1>7. Exchanged(Kept(row)) = Exchanged(row) BY DEF Exchanged, Kept
<1>8. Same(u)
  <2> SUFFICES ASSUME said'[u] # said[u], Today(r) = said[u].day, <<u, Today(r)>> \notin excused
               PROVE  Exchanged(row) = Exchanged(said[u].what)
    BY <1>3 DEF Same
  <2>1. said[u].what \in {Kept(row), Exchanged(row)} BY <1>1, <1>5 DEF UserInv, ToldInv
  <2>2. said[u].what # Exchanged(row) BY <1>1, <1>3 DEF RowShape
  <2> QED BY <1>7, <2>1, <2>2
<1>9. \A q \in Drawing(u) \ {r} : Today(q) = Today(r) => <<u, Today(r)>> \in excused
  <2>1. r \in Asking(u) BY DEF Asking
  <2> QED BY <1>1, <2>1 DEF UserInv, ExcusedInv
<1> HIDE DEF row
<1>10. row = record[u] BY DEF row
<1>11. DOMAIN record' = Askers /\ \A v \in Askers \ {u} : record'[v] = record[v]
  BY DEF ZhanbuInv
<1>12. /\ EndOfDay(Today(r)) <= record'[u].expire
       /\ Exchanged(row) \in {Kept(record'[u]), Exchanged(record'[u])}
  BY <1>4, <1>10
<1>13. Say(r, Exchanged(row)) BY <1>10
<1>14. <<u, Today(r)>> \notin excused'
          => /\ EndOfDay(Today(r)) <= record'[u].expire
             /\ Exchanged(row) \in {Kept(record'[u]), Exchanged(record'[u])}
             /\ \A q \in Drawing(u) \ {r} : Today(q) # Today(r)
  BY <1>9, <1>12
<1>15. excused \subseteq excused' /\ clock' = clock /\ doing[r] # "idle" OBVIOUS
<1> QED BY <1>6, <1>8, <1>11, <1>13, <1>14, <1>15, ToldStep

\* There is none: the drawing begins.
LEMMA DrawStep ==
    ASSUME ZhanbuInv, NEW r \in Requests, NEW u, u = asker[r], doing[r] = "read",
           record[u].expire <= asked_at[r], NEW d \in Results,
           doing' = [doing EXCEPT ![r] = "draw"], drawn' = [drawn EXCEPT ![r] = d],
           UNCHANGED <<clock, record, asker, asked_at, until, said>>, excused \subseteq excused',
           Asking(u) # {r} => DaysOf(u, Asking(u)) \subseteq excused'
    PROVE  ZhanbuInv' /\ \A v \in Askers : Same(v)
<1>0. asker[r] \in Askers /\ asked_at[r] \in Nat BY DEF ZhanbuInv, RequestShape
<1>1. \A q \in Requests : Today(q)' = Today(q) BY DEF Today, DayNumber
<1>2. RequestShape'
  <2>1. \A q \in Requests : /\ doing'[q] = "write" => doing[q] = "write"
                            /\ doing'[q] # "idle" => doing[q] # "idle"
    BY DEF ZhanbuInv, RequestShape
  <2> QED BY <1>1, <2>1
          DEF ZhanbuInv, RequestShape, IsEnd, EndOfDay, LastSecondOfToday, DayNumber
<1>3. \A v \in Askers : Asking(v)' = Asking(v) /\ Asking(v) \subseteq Requests
  BY DEF Asking, ZhanbuInv, RequestShape
<1>4. /\ Drawing(u)' = Drawing(u) \cup {r} /\ r \in Asking(u)
      /\ \A v \in Askers \ {u} : Drawing(v)' = Drawing(v)
  BY <1>0 DEF Asking, Drawing, ZhanbuInv, RequestShape
<1>5. ASSUME NEW v \in Askers \ {u} PROVE UserInv(v)'
  BY <1>1, <1>3, <1>4, UserStays DEF ZhanbuInv
<1>6. RowShape(u)'
  BY <1>0 DEF ZhanbuInv, UserInv, RowShape, IsEnd, LastSecondOfToday, DayNumber
<1>7. ExcusedInv(u)'
  <2>1. \A q \in Asking(u)' :
           asked_at'[q] = EndOfDay(Today(q)') => <<u, Today(q)'>> \in excused'
    BY <1>0, <1>1, <1>3 DEF ZhanbuInv, UserInv, ExcusedInv
  <2>2. ASSUME NEW p \in Drawing(u)', NEW q \in Asking(u)', p # q
        PROVE  <<u, Today(p)'>> \in excused' /\ <<u, Today(q)'>> \in excused'
    <3>0. Drawing(u) \subseteq Asking(u) BY DEF Drawing
    <3>1. p \in Asking(u) /\ q \in Asking(u) BY <1>0, <1>3, <1>4, <3>0
    <3>2. CASE p = r
      <4>1. DaysOf(u, Asking(u)) \subseteq excused' BY <2>2, <3>1, <3>2
      <4>2. <<u, Today(p)>> \in excused' /\ <<u, Today(q)>> \in excused'
        BY <3>1, <4>1 DEF DaysOf
      <4>3. Today(p)' = Today(p) /\ Today(q)' = Today(q) BY <1>0, <1>1, <1>3, <3>1
      <4> QED BY <4>2, <4>3
    <3>3. CASE p # r
      BY <1>0, <1>1, <1>3, <1>4, <2>2, <3>1, <3>3 DEF ZhanbuInv, UserInv, ExcusedInv
    <3> QED BY <3>2, <3>3
  <2> QED BY <2>1, <2>2 DEF ExcusedInv, EndOfDay
<1>8. ToldInv(u)'
  <2> SUFFICES ASSUME said[u].day \in Nat, <<u, said[u].day>> \notin excused'
               PROVE  /\ EndOfDay(said[u].day) <= record[u].expire
                      /\ said[u].what \in {Kept(record[u]), Exchanged(record[u])}
                      /\ \A q \in Drawing(u)' : Today(q)' # said[u].day
    BY DEF ToldInv, EndOfDay, Kept, Exchanged
  <2>1. /\ EndOfDay(said[u].day) <= record[u].expire
        /\ said[u].what \in {Kept(record[u]), Exchanged(record[u])}
        /\ \A q \in Drawing(u) : Today(q) # said[u].day
    BY <1>0 DEF ZhanbuInv, UserInv, ToldInv
  <2>2. Today(r) # said[u].day
    <3> SUFFICES ASSUME Today(r) = said[u].day PROVE FALSE OBVIOUS
    <3>1. /\ asked_at[r] <= EndOfDay(Today(r)) /\ EndOfDay(Today(r)) \in Nat
          /\ record[u].expire \in Nat
      BY <1>0, Days DEF Today, ZhanbuInv, UserInv, RowShape
    <3>2. asked_at[r] = EndOfDay(Today(r)) BY <1>0, <2>1, <3>1
    <3> QED BY <1>0, <1>4, <3>2 DEF ZhanbuInv, UserInv, ExcusedInv
  <2>3. Drawing(u) \subseteq Requests BY <1>0, <1>3 DEF Drawing
  <2> QED BY <1>1, <1>4, <2>1, <2>2, <2>3
<1> QED BY <1>0, <1>2, <1>5, <1>6, <1>7, <1>8 DEF ZhanbuInv, UserInv, Same

\* It is drawn.
LEMMA DrawnStep ==
    ASSUME ZhanbuInv, NEW r \in Requests, Drawn(r)
    PROVE  ZhanbuInv' /\ \A v \in Askers : Same(v)
<1>1. /\ doing[r] = "draw" /\ doing' = [doing EXCEPT ![r] = "write"]
      /\ until' = [until EXCEPT ![r] = LastSecondOfToday(clock)]
      /\ UNCHANGED <<clock, record, asker, drawn, asked_at, excused, said>>
      /\ clock \in Nat /\ asked_at[r] \in Nat /\ asked_at[r] <= clock
  BY DEF Drawn, answers, ZhanbuInv, RequestShape
<1>2. \A q \in Requests : Today(q)' = Today(q) BY <1>1 DEF Today, DayNumber
<1>3. RequestShape'
  <2>1. LastSecondOfToday(clock) \in Nat /\ clock <= LastSecondOfToday(clock) BY <1>1, Days
  <2>2. IsEnd(LastSecondOfToday(clock)) BY <1>1 DEF IsEnd
  <2>3. EndOfDay(Today(r)) <= LastSecondOfToday(clock) BY <1>1, <2>1, Later DEF Today
  <2>4. \A q \in Requests : doing'[q] = "write"
           => IsEnd(until'[q]) /\ EndOfDay(Today(q)') <= until'[q]
    BY <1>1, <1>2, <2>2, <2>3 DEF ZhanbuInv, RequestShape
  <2>5. \A q \in Requests : doing'[q] # "idle" => doing[q] # "idle"
    BY <1>1 DEF ZhanbuInv, RequestShape
  <2> QED BY <1>1, <2>1, <2>4, <2>5
          DEF ZhanbuInv, RequestShape, IsEnd, EndOfDay, LastSecondOfToday, DayNumber
<1>4. \A v \in Askers : Asking(v)' = Asking(v) /\ Asking(v) \subseteq Requests
  BY <1>1 DEF Asking, ZhanbuInv, RequestShape
<1>5. \A v \in Askers : Drawing(v)' = Drawing(v)
  BY <1>1, <1>4 DEF Drawing, ZhanbuInv, RequestShape, Asking
<1>6. \A v \in Askers : UserInv(v)' /\ Same(v)
  BY <1>1, <1>2, <1>4, <1>5, UserStays DEF ZhanbuInv
<1> QED BY <1>1, <1>3, <1>6 DEF ZhanbuInv

\* It is written, or cannot be.
LEMMA RecordStep ==
    ASSUME ZhanbuInv, NEW r \in Requests, RecordZhanbu(r)
    PROVE  ZhanbuInv' /\ \A v \in Askers : Same(v)
<1>0. /\ doing[r] = "write" /\ asker[r] \in Askers /\ asked_at[r] \in Nat
      /\ drawn[r] \in Results /\ until[r] \in Nat
      /\ IsEnd(until[r]) /\ EndOfDay(Today(r)) <= until[r]
  BY DEF RecordZhanbu, ZhanbuInv, RequestShape
<1> PICK u \in Askers, d \in Results : u = asker[r] /\ d = drawn[r] BY <1>0
<1>1. /\ Say(r, d) /\ clock' = clock
      /\ said' = [said EXCEPT ![u] = [day |-> Today(r), what |-> d]]
      /\ DOMAIN said = Askers /\ DOMAIN record = Askers
  BY DEF RecordZhanbu, Say, ZhanbuInv
<1>2. said'[u] = [day |-> Today(r), what |-> d] BY <1>1
<1>3. Today(r) \in Nat BY <1>0, Days DEF Today
<1>4. r \in Asking(u) /\ r \in Drawing(u) BY <1>0 DEF Asking, Drawing
<1>5. RowShape(u) /\ UserInv(u) BY DEF ZhanbuInv, UserInv
<1>6. ASSUME excused \subseteq excused' PROVE Same(u)
  <2>1. said[u].day = Today(r) => <<u, Today(r)>> \in excused
    BY <1>3, <1>4, <1>5 DEF UserInv, ToldInv
  <2> QED BY <1>2, <1>6, <2>1 DEF Same
<1>7. \A q \in Drawing(u) \ {r} : <<u, Today(r)>> \in excused
  BY <1>4, <1>5 DEF UserInv, ExcusedInv
<1>8. CASE record' = [record EXCEPT ![u] = RowOf(r)] /\ excused' = excused
  <2>1. /\ record'[u] = [yi |-> d.yi, ji |-> d.ji, dye |-> d.dye, append |-> d.append,
                         expire |-> until[r]]
        /\ \A v \in Askers \ {u} : record'[v] = record[v]
        /\ DOMAIN record' = Askers
    BY <1>1, <1>8 DEF RowOf
  <2>2. RowShape(u)'
    BY <1>0, <1>2, <1>3, <2>1 DEF RowShape, IsEnd, LastSecondOfToday, DayNumber
  <2>3. Kept(record'[u]) = d
    <3>1. Kept(record'[u]) = [yi |-> d.yi, ji |-> d.ji, dye |-> d.dye, append |-> d.append]
      BY <2>1 DEF Kept
    <3> QED BY <3>1 DEF Results
  <2>4. EndOfDay(Today(r)) <= record'[u].expire BY <1>0, <2>1
  <2> QED BY <1>0, <1>1, <1>6, <1>7, <1>8, <2>1, <2>2, <2>3, <2>4, ToldStep
<1>9. CASE excused' = excused \cup DaysOf(u, {r}) /\ record' = record
  <2>1. RowShape(u)'
    BY <1>2, <1>3, <1>5, <1>9 DEF RowShape, IsEnd, LastSecondOfToday, DayNumber
  <2>2. <<u, Today(r)>> \in excused' /\ excused \subseteq excused' BY <1>9 DEF DaysOf
  <2> QED BY <1>0, <1>1, <1>6, <1>9, <2>1, <2>2, ToldStep
<1> QED BY <1>8, <1>9 DEF RecordZhanbu

\* The row cannot be read.
LEMMA UnreadStep ==
    ASSUME ZhanbuInv, NEW r \in Requests, doing[r] = "read", Over(r),
           UNCHANGED <<clock, record, excused, said>>
    PROVE  ZhanbuInv' /\ \A v \in Askers : Same(v)
<1>0. doing[r] # "idle" /\ clock' = clock OBVIOUS
<1>1. /\ RequestShape'
      /\ \A v \in Askers :
            /\ Asking(v)' = Asking(v) \ {r} /\ Drawing(v)' = Drawing(v) \ {r}
            /\ \A q \in Asking(v)' : Today(q)' = Today(q) /\ asked_at'[q] = asked_at[q]
  BY <1>0, OverShape
<1>2. \A v \in Askers : UserInv(v)' /\ Same(v) BY <1>1, UserStays DEF ZhanbuInv
<1> QED BY <1>1, <1>2 DEF ZhanbuInv

\* eorzea_zhanbu.h: for any users, days and requests, wherever the clock moves on, who asks
\* twice on a day is told the same, the dye and the message exchanged, unless one of the
\* requests drew beside another one of his, could not write what it drew, or was asked in
\* the last second of the day.
THEOREM SameAllDayHolds == ZhanbuSpec => SameAllDay
<1> DEFINE AllSame == \A u \in Askers : Same(u)
<1>1. ASSUME ZhanbuInv, [ZhanbuNext]_zhanbuVars PROVE ZhanbuInv' /\ AllSame
  <2>1. CASE UNCHANGED zhanbuVars
    <3>1. UNCHANGED <<clock, record, doing, asker, drawn, asked_at, until, excused, said>>
      BY <2>1 DEF zhanbuVars, requests, answers
    <3>2. \A u \in Askers : Asking(u)' = Asking(u) /\ Drawing(u)' = Drawing(u)
      BY <3>1 DEF Asking, Drawing
    <3>3. \A r \in Requests : Today(r)' = Today(r) BY <3>1 DEF Today, DayNumber
    <3>4. \A u \in Askers : Asking(u) \subseteq Requests BY DEF Asking
    <3>5. \A u \in Askers : UserInv(u)' /\ Same(u)
      BY <1>1, <3>1, <3>2, <3>3, <3>4, UserStays DEF ZhanbuInv
    <3>6. RequestShape'
      BY <1>1, <3>1, <3>3
      DEF ZhanbuInv, RequestShape, IsEnd, EndOfDay, LastSecondOfToday, DayNumber
    <3> QED BY <1>1, <3>1, <3>5, <3>6 DEF ZhanbuInv
  <2>2. ASSUME NEW r \in Requests, GetZhanbuRecord(r) PROVE ZhanbuInv' /\ AllSame
    <3> DEFINE u == asker[r]
    <3>0. doing[r] = "read" /\ UNCHANGED <<clock, record, asked>> BY <2>2 DEF GetZhanbuRecord
    <3>1. CASE record[u].expire > asked_at[r] /\ Say(r, Exchanged(record[u]))
               /\ UNCHANGED <<excused, table_faults>>
      BY <1>1, <3>0, <3>1, ReadStep
    <3>2. CASE /\ record[u].expire <= asked_at[r] /\ doing' = [doing EXCEPT ![r] = "draw"]
               /\ \E d \in GetZhanbuResult : drawn' = [drawn EXCEPT ![r] = d]
               /\ excused' = excused \cup (IF Asking(u) # {r} THEN DaysOf(u, Asking(u)) ELSE {})
               /\ UNCHANGED <<asker, asked_at, until, said, table_faults>>
      <4>1. PICK d \in Results : drawn' = [drawn EXCEPT ![r] = d] BY <3>2, DrawnResults
      <4>2. /\ excused \subseteq excused'
            /\ Asking(u) # {r} => DaysOf(u, Asking(u)) \subseteq excused'
        BY <3>2
      <4> QED BY <1>1, <3>0, <3>2, <4>1, <4>2, DrawStep
    <3>3. CASE Over(r) /\ UNCHANGED answers
      <4>1. UNCHANGED <<clock, record, excused, said>> BY <3>0, <3>3 DEF answers
      <4> QED BY <1>1, <3>0, <3>3, <4>1, UnreadStep
    <3> QED BY <2>2, <3>1, <3>2, <3>3 DEF GetZhanbuRecord
  <2> QED BY <1>1, <2>1, <2>2, SecondStep, AskStep, DrawnStep, RecordStep DEF ZhanbuNext
<1>2. ZhanbuInv /\ [ZhanbuNext]_zhanbuVars => [AllSame]_zhanbuVars BY <1>1
<1>3. [][AllSame]_zhanbuVars => SameAllDay BY PTL DEF SameAllDay, Same
<1> QED BY <1>1, <1>2, <1>3, ZhanbuStart, PTL DEF ZhanbuSpec

-----------------------------------------------------------------------------
(***************************************************************************)
(* Feedback: the number a sender is told.                                  *)
(***************************************************************************)
Entries == [uid : Authors \cup {0}, gid : Rooms \cup {0}]

FeedbackShape ==
    /\ feedbacks \in Seq(Entries)
    /\ sending \in [Senders -> {"idle", "named", "recorded"}]
    /\ author \in [Senders -> Authors \cup {0}]
    /\ room \in [Senders -> Rooms \cup {0}]
    /\ own \in [Senders -> Nat]

\* Between its two statements a sender's row is in the table, and the last one there
\* unless it was overtaken.
RecordedInv ==
    \A s \in Senders : sending[s] = "recorded" /\ own[s] # 0
        => /\ own[s] \in 1 .. Len(feedbacks) /\ feedbacks[own[s]].uid = author[s]
           /\ s \notin overtaken => own[s] = Len(feedbacks)

FeedbackInv == FeedbackShape /\ RecordedInv

LEMMA FeedbackStart == FeedbackInit => FeedbackInv /\ OwnNumber
BY DEF FeedbackInit, FeedbackInv, FeedbackShape, RecordedInv, OwnNumber, Untold

\* Only Confirm tells a number.
LEMMA UntoldIsRight == confirmed' = Untold => OwnNumber'
BY DEF OwnNumber

LEMMA InsertStep ==
    ASSUME FeedbackInv, NEW s \in Senders, RecordFeedBack(s)
    PROVE  FeedbackInv' /\ OwnNumber'
<1> DEFINE row == [uid |-> author[s], gid |-> room[s]]
<1>1. OwnNumber' BY UntoldIsRight DEF RecordFeedBack, Unheard
<1>2. /\ author[s] \in Authors \cup {0} /\ room[s] \in Rooms \cup {0}
      /\ feedbacks \in Seq(Entries) /\ Len(feedbacks) \in Nat
  BY DEF FeedbackInv, FeedbackShape
<1> HIDE DEF row
<1>row. row \in Entries BY <1>2 DEF Entries, row
<1>uid. row.uid = author[s] BY DEF row
<1>3. /\ author' = author /\ room' = room
      /\ sending' = [sending EXCEPT ![s] = "recorded"]
  BY DEF RecordFeedBack
<1>4. CASE /\ feedbacks' = Append(feedbacks, row)
           /\ own' = [own EXCEPT ![s] = Len(feedbacks) + 1]
           /\ overtaken' = {i \in Senders \ {s} : i \in overtaken \/ sending[i] = "recorded"}
  <2>1. /\ feedbacks' \in Seq(Entries) /\ Len(feedbacks') = Len(feedbacks) + 1
        /\ feedbacks'[Len(feedbacks) + 1] = row
        /\ \A i \in 1 .. Len(feedbacks) : feedbacks'[i] = feedbacks[i]
    BY <1>2, <1>row, <1>4
  <2>2. FeedbackShape' BY <1>2, <1>3, <1>4, <2>1 DEF FeedbackInv, FeedbackShape
  <2>3. RecordedInv' BY <1>2, <1>uid, <1>3, <1>4, <2>1 DEF FeedbackInv, FeedbackShape, RecordedInv
  <2> QED BY <1>1, <2>2, <2>3 DEF FeedbackInv
<1>5. CASE /\ own' = [own EXCEPT ![s] = 0] /\ overtaken' = overtaken \ {s}
           /\ feedbacks' = feedbacks
  BY <1>1, <1>3, <1>5 DEF FeedbackInv, FeedbackShape, RecordedInv
<1> QED BY <1>4, <1>5 DEF RecordFeedBack, row

LEMMA ConfirmStep ==
    ASSUME FeedbackInv, NEW s \in Senders, Confirm(s)
    PROVE  FeedbackInv' /\ OwnNumber'
<1>1. FeedbackInv' BY DEF Confirm, FeedbackInv, FeedbackShape, RecordedInv
<1>2. CASE confirmed' = [sender |-> s, id |-> GetLastID]
  BY <1>2 DEF Confirm, FeedbackInv, FeedbackShape, RecordedInv, OwnNumber, GetLastID
<1> QED BY <1>1, <1>2, UntoldIsRight DEF Confirm

\* feedback.h:39-49: RecordFeedBack and GetLastID are two statements.  For any users,
\* groups, coroutines and numbers of messages, the number a user is told is that of his
\* own message unless it was refused or another came between the two.
THEOREM OwnNumberHolds == FeedbackSpec => []OwnNumber
<1>1. ASSUME FeedbackInv, OwnNumber, [FeedbackNext]_feedbackVars
      PROVE  FeedbackInv' /\ OwnNumber'
  <2>1. ASSUME NEW s \in Senders, NEW u \in Authors, NEW g \in Rooms, Send(s, u, g)
        PROVE  FeedbackInv' /\ OwnNumber'
    <3>1. OwnNumber' BY <2>1, UntoldIsRight DEF Send, Unheard
    <3> QED BY <1>1, <2>1, <3>1 DEF Send, FeedbackInv, FeedbackShape, RecordedInv
  <2>2. ASSUME NEW id, Reply(id) PROVE FeedbackInv' /\ OwnNumber'
    <3>1. OwnNumber' BY <2>2, UntoldIsRight DEF Reply
    <3> QED BY <1>1, <2>2, <3>1 DEF Reply, FeedbackInv, FeedbackShape, RecordedInv
  <2>3. CASE UNCHANGED feedbackVars
    BY <1>1, <2>3 DEF feedbackVars, FeedbackInv, FeedbackShape, RecordedInv, OwnNumber
  <2> QED BY <1>1, <2>1, <2>2, <2>3, InsertStep, ConfirmStep DEF FeedbackNext
<1> QED BY <1>1, FeedbackStart, PTL DEF FeedbackSpec
-----------------------------------------------------------------------------
(***************************************************************************)
(* EorzeaWeather.  The weather changes every 1400 s, and its target hangs  *)
(* on which of these spans a time is in.                                   *)
(***************************************************************************)
InSpan(t, q) == t - 1400 * q \in 0 .. 1399

LEMMA SpanOf ==
    ASSUME NEW t \in Nat
    PROVE  \E q \in Nat : InSpan(t, q)
<1> WITNESS t \div 1400 \in Nat
<1> QED BY DEF InSpan

\* Times of one span have one target.
LEMMA SpanTarget ==
    ASSUME NEW q \in Nat, NEW t \in Nat, InSpan(t, q)
    PROVE  ForcastTarget(t) = Scramble((q \div 3) * 100 + ((8 * q + 8) % 24))
<1>1. t \div 4200 = q \div 3 BY DEF InSpan
<1>2. \E c \in 0 .. 7 : t \div 175 = 8 * q + c
  <2>1. (t \div 175) - 8 * q \in 0 .. 7 BY DEF InSpan
  <2> WITNESS (t \div 175) - 8 * q \in 0 .. 7
  <2> QED OBVIOUS
<1>3. PICK c \in 0 .. 7 : t \div 175 = 8 * q + c BY <1>2
<1>4. (8 * q + c) % 8 = c OBVIOUS
<1>5. (t \div 175) + 8 - ((t \div 175) % 8) = 8 * q + 8 BY <1>3, <1>4
<1> QED BY <1>1, <1>5 DEF ForcastTarget

\* NextWeatherTime leads to the beginning of a span, at one of three bells.
LEMMA SpanBegins ==
    ASSUME NEW q \in Nat, NEW t \in Nat, InSpan(t, q), NEW i \in Nat
    PROVE  NextWeatherTime(t, i) + t = 1400 * (q + 1 + i)
<1>1. \E m \in Nat, c \in 0 .. 2 : q = 3 * m + c
  <2> WITNESS q \div 3 \in Nat, q - 3 * (q \div 3) \in 0 .. 2
  <2> QED OBVIOUS
<1>2. PICK m \in Nat, c \in 0 .. 2 : q = 3 * m + c BY <1>1
<1> DEFINE r == t - 1400 * q
<1>3. t = 1400 * q + r /\ r \in 0 .. 1399 BY DEF InSpan
<1> HIDE DEF r
<1>4. t % 1400 = r /\ t % 4200 = 1400 * c + r BY <1>2, <1>3
<1>5. t + 1400 - r = 4200 * m + 1400 * (c + 1) BY <1>2, <1>3
<1>6. (4200 * m + 1400 * (c + 1)) % 4200 = IF c = 2 THEN 0 ELSE 1400 * (c + 1) BY <1>2
<1>7. (t + 1400 - (t % 1400)) % 4200 = IF c = 2 THEN 0 ELSE 1400 * (c + 1)
  BY <1>4, <1>5, <1>6
<1> QED BY <1>2, <1>4, <1>7, <1>3 DEF NextWeatherTime

LEMMA SpanBell ==
    ASSUME NEW q \in Nat
    PROVE  GetEorzeaHour(1400 * q) \in {0, 8, 16}
<1>1. (1400 * q) \div 175 = 8 * q OBVIOUS
<1>2. (8 * q) % 24 \in {0, 8, 16} OBVIOUS
<1> QED BY <1>1, <1>2 DEF GetEorzeaHour

ComesTrue(f, i) ==
    /\ f[i].target = ForcastTarget(f[i].time)
    /\ f[i].hour \in {0, 8, 16}
    /\ f[i].time - f[i - 1].time \in (IF i = 1 THEN 1 ELSE 1400) .. 1400

\* A forecast's times are those at which a span begins, and its targets are theirs.
LEMMA ForecastRight ==
    ASSUME NEW date \in Nat, NEW f, f = Forecast(date), NEW i \in 1 .. 9
    PROVE  ComesTrue(f, i)
<1>1. PICK q \in Nat : InSpan(date, q) BY SpanOf
<1>2. i \in 0 .. 9 /\ i - 1 \in Nat /\ i - 1 \in 0 .. 9 OBVIOUS
<1>3. /\ f[i].time = NextWeatherTime(date, i - 1) + date
      /\ f[i].target = ForcastTarget(date + 1400 * i)
      /\ f[i].hour = GetEorzeaHour(f[i].time)
      /\ f[i - 1].time = IF i = 1 THEN date ELSE NextWeatherTime(date, i - 2) + date
  BY <1>2 DEF Forecast
<1> DEFINE Begins(j) == NextWeatherTime(date, j) + date = 1400 * (q + 1 + j)
<1>4. \A j \in Nat : Begins(j) BY <1>1, SpanBegins
<1> HIDE DEF Begins
<1>5. f[i].time = 1400 * (q + i)
  <2>1. Begins(i - 1) BY <1>2, <1>4
  <2> QED BY <1>3, <2>1 DEF Begins
<1>6. f[i - 1].time = IF i = 1 THEN date ELSE 1400 * (q + i - 1)
  <2>1. CASE i = 1 BY <1>3, <2>1
  <2>2. CASE i # 1
    <3>1. i - 2 \in Nat BY <2>2
    <3>2. Begins(i - 2) BY <1>4, <3>1
    <3> QED BY <1>3, <2>2, <3>2 DEF Begins
  <2> QED BY <2>1, <2>2
<1>7. ForcastTarget(date + 1400 * i) = ForcastTarget(1400 * (q + i))
  <2> DEFINE n == q + i
             t == date + 1400 * i
             u == 1400 * n
             target == Scramble((n \div 3) * 100 + ((8 * n + 8) % 24))
  <2>1. n \in Nat /\ t \in Nat /\ u \in Nat OBVIOUS
  <2>2. InSpan(t, n) /\ InSpan(u, n) BY <1>1 DEF InSpan
  <2> HIDE DEF n, t, u, target
  <2>3. ForcastTarget(t) = target BY <1>1, <2>1, <2>2, SpanTarget DEF target
  <2>4. ForcastTarget(u) = target BY <2>1, <2>2, SpanTarget DEF target
  <2> QED BY <2>3, <2>4 DEF n, t, u
<1>8. f[i].hour \in {0, 8, 16}
  <2> DEFINE n == q + i
  <2>1. n \in Nat OBVIOUS
  <2>2. f[i].hour = GetEorzeaHour(1400 * n) BY <1>3, <1>5
  <2> HIDE DEF n
  <2> QED BY <2>1, <2>2, SpanBell
<1>9. f[i].time - f[i - 1].time \in (IF i = 1 THEN 1 ELSE 1400) .. 1400
  BY <1>1, <1>5, <1>6 DEF InSpan
<1> QED BY <1>3, <1>5, <1>7, <1>8, <1>9 DEF ComesTrue

ForecastInv == forecast = <<>> \/ \E date \in Nat : forecast = Forecast(date)

\* eorzean_weather.h: for every date, what is foretold for the next nine changes is what
\* a query at those times is told, and they are changes, at the bells 0, 8 and 16.
THEOREM ForecastComesTrueHolds == EorzeaSpec => []ForecastComesTrue
<1>1. EorzeaInit => ForecastInv BY DEF EorzeaInit, ForecastInv
<1>2. ForecastInv /\ [EorzeaNext]_eorzeaVars => ForecastInv'
  BY DatesAssumption DEF EorzeaNext, DataNext, GetEorzeanWeather, Forecasts, eorzeaVars, ForecastInv
<1>3. ForecastInv => ForecastComesTrue
  <2>1. ForecastInv => forecast = <<>> \/ \A i \in 1 .. 9 : ComesTrue(forecast, i)
    BY ForecastRight DEF ForecastInv
  <2> QED BY <2>1 DEF ComesTrue, ForecastComesTrue
<1> QED BY <1>1, <1>2, <1>3, PTL DEF EorzeaSpec
-----------------------------------------------------------------------------
(***************************************************************************)
(* What is in memory and in the tables is of versions up to the site's, so *)
(* after the step for the rates, the last of an update, everything known   *)
(* is in rates whose weathers have names.                                  *)
(***************************************************************************)
Stores(v) == [places : SUBSET PlacesAt[v], aliases : SUBSET PlacesAt[v],
              names : 0 .. v, rates : SUBSET (1 .. v)]

EorzeaShape ==
    /\ site \in Versions
    /\ places \subseteq PlacesAt[site] /\ names \in 0 .. site /\ rates \subseteq 1 .. site
    /\ stored \in Stores(site)
    /\ updating \in [Updaters -> {"idle", "weather", "territory", "rates"}]

\* An update that has had no other beside it is the only one at work.
AloneInv == \A h, k \in AtWork : h # k => h \in together

\* Such an update has the names of the site's version, if it reads no other.
UpdateInv ==
    \A h \in Updaters \ together :
        updating[h] \in {"territory", "rates"} /\ ~mixed => names = site /\ stored.names = site

\* Every place has rates, and all rates have names.
Settled(p, n, r) == r \subseteq 0 .. n /\ \A q \in p : \E v \in r : q \in PlacesAt[v]

SettledInv ==
    AtWork = {} /\ ~broke_off /\ ~mixed
    => /\ Settled(places, names, rates)
       /\ Settled(stored.places, stored.names, stored.rates)

EorzeaInv == EorzeaShape /\ AloneInv /\ UpdateInv /\ SettledInv

\* A set of numbers has a least one: of the intervals that they end, one is in no other.
LEMMA LeastNumber ==
    ASSUME NEW S, S \subseteq Nat, S # {}
    PROVE  \E m \in S : \A n \in S : m <= n
<1> DEFINE Ends == {0 .. n : n \in S}
           Inside == StrictSubsetOrdering(Nat)
<1>1. Ends \subseteq FiniteSubsetsOf(Nat)
  <2>1. ASSUME NEW n \in S PROVE IsFiniteSet(0 .. n) /\ 0 .. n \in SUBSET Nat
    <3>1. n \in Int /\ 0 \in Int OBVIOUS
    <3> QED BY <3>1, FS_Interval
  <2> QED BY <2>1 DEF FiniteSubsetsOf
<1>2. Ends # {} OBVIOUS
<1>3. \E x \in Ends : \A y \in Ends : ~(<<y, x>> \in Inside)
  BY <1>1, <1>2, FS_StrictSubsetOrderingWellFounded, WFMin
<1>4. PICK m \in S : \A n \in S : <<0 .. n, 0 .. m>> \notin Inside BY <1>3
<1>5. ASSUME NEW n \in S, n < m PROVE FALSE
  <2>1. m \in 0 .. m /\ m \notin 0 .. n BY <1>5
  <2>2. 0 .. n # 0 .. m BY <2>1
  <2>3. 0 .. n \subseteq 0 .. m /\ 0 .. m \subseteq Nat BY <1>5
  <2>4. <<0 .. n, 0 .. m>> \in Inside BY <2>2, <2>3, Zenon DEF StrictSubsetOrdering
  <2> QED BY <1>4, <2>4
<1>6. \A n \in S : m <= n BY <1>5
<1> QED BY <1>6

\* Of the versions with a place the first is the one whose rates are found.
LEMMA SettledAnswers ==
    ASSUME EorzeaShape, Settled(places, names, rates), NEW p \in places
    PROVE  Answers(p)
<1> DEFINE S == {v \in rates : p \in PlacesAt[v]}
<1>1. rates \subseteq 0 .. names /\ names \in Nat
  BY VersionsAssumption DEF EorzeaShape, Settled
<1>2. \A v \in rates : v \in 0 .. names /\ v \in Nat BY <1>1
<1>3. S \subseteq Nat BY <1>2
<1>4. PICK u \in rates : p \in PlacesAt[u] BY DEF Settled
<1>5. u \in S BY <1>4
<1>6. PICK v \in S : \A w \in S : v <= w BY <1>3, <1>5, LeastNumber
<1> QED BY <1>2, <1>6 DEF Answers

LEMMA EorzeaStart == EorzeaInit => EorzeaInv
<1> SUFFICES ASSUME EorzeaInit PROVE EorzeaInv OBVIOUS
<1>1. 1 \in Versions BY VersionsAssumption
<1> QED BY <1>1 DEF EorzeaInit, EorzeaInv, EorzeaShape, AloneInv, AtWork, UpdateInv,
                    SettledInv, Settled, Stores, NoNames

\* A step of an update that does not end it.
LEMMA GoesOn ==
    ASSUME EorzeaShape, AloneInv, NEW h \in AtWork, NEW to \in {"territory", "rates"},
           UpdateAt(h, to), UNCHANGED together
    PROVE  /\ updating' \in [Updaters -> {"idle", "weather", "territory", "rates"}]
           /\ AtWork' = AtWork /\ AloneInv'
           /\ \A k \in Updaters \ together : updating'[k] # "idle" => k = h
BY DEF EorzeaShape, AloneInv, AtWork, UpdateAt

\* The step that ends it.
LEMMA ItEnds ==
    ASSUME EorzeaShape, AloneInv, NEW h \in Updaters, NEW clean \in BOOLEAN,
           UpdateEnds(h, clean)
    PROVE  /\ updating' \in [Updaters -> {"idle", "weather", "territory", "rates"}]
           /\ AloneInv' /\ updating'[h] = "idle"
           /\ \A k \in Updaters \ {h} : updating'[k] = updating[k]
           /\ \A k \in Updaters \ {h} : k \in together' <=> k \in together
           /\ ~broke_off' => clean /\ h \notin together
<1>1. /\ updating' \in [Updaters -> {"idle", "weather", "territory", "rates"}]
      /\ updating' = [updating EXCEPT ![h] = "idle"] /\ together' = together \ {h}
  BY DEF EorzeaShape, UpdateEnds, UpdateAt
<1>2. \A k \in AtWork' : k \in AtWork /\ k # h BY <1>1 DEF AtWork, EorzeaShape
<1>3. AloneInv' BY <1>1, <1>2 DEF AloneInv
<1>4. ~broke_off' => clean /\ h \notin together BY Zenon DEF UpdateEnds
<1> QED BY <1>1, <1>3, <1>4 DEF EorzeaShape

\* An update that throws leaves nothing that the others rely on.
LEMMA ItThrows ==
    ASSUME EorzeaShape, AloneInv, UpdateInv, NEW h \in AtWork, UpdateEnds(h, FALSE),
           EorzeaShape', UNCHANGED <<site, mixed>>
    PROVE  EorzeaInv'
<1>0. h \in Updaters BY DEF AtWork
<1>1. broke_off' /\ AloneInv' BY <1>0, ItEnds
<1>2. \A k \in Updaters : k \in AtWork' => k \in AtWork /\ k # h
  BY <1>0, ItEnds DEF AtWork
<1>3. \A k \in Updaters : k \in AtWork' => k \in together'
  BY <1>0, <1>2, ItEnds DEF AloneInv
<1>4. UpdateInv' BY <1>3 DEF UpdateInv, AtWork
<1> QED BY <1>1, <1>4 DEF EorzeaInv, SettledInv

LEMMA EorzeaStep == EorzeaInv /\ [EorzeaNext]_eorzeaVars => EorzeaInv'
<1> SUFFICES ASSUME EorzeaInv, [EorzeaNext]_eorzeaVars PROVE EorzeaInv' OBVIOUS
<1>0. /\ site \in Nat \ {0} /\ Versions \subseteq Nat
      /\ stored.places \subseteq PlacesAt[site] /\ stored.aliases \subseteq PlacesAt[site]
      /\ stored.names \in 0 .. site /\ stored.rates \subseteq 1 .. site
  BY VersionsAssumption DEF EorzeaInv, EorzeaShape, Stores
<1> USE DEF EorzeaInv
<1>1. CASE UNCHANGED <<site, inMemory, stored, update>>
  BY <1>1 DEF EorzeaShape, AloneInv, AtWork, UpdateInv, SettledInv, inMemory, update
<1>2. CASE Patch
  <2>1. site' = site + 1 /\ site' \in Versions /\ PlacesAt[site] \subseteq PlacesAt[site']
    BY <1>0, <1>2, VersionsAssumption DEF Patch, EorzeaShape
  <2>2. Stores(site) \subseteq Stores(site') BY <1>0, <2>1 DEF Stores
  <2>3. EorzeaShape' BY <1>0, <1>2, <2>1, <2>2 DEF Patch, inMemory, EorzeaShape
  <2>4. AloneInv' /\ AtWork' = AtWork BY <1>2 DEF Patch, AloneInv, AtWork
  <2>5. UpdateInv' BY <1>2, <2>4 DEF Patch, inMemory, UpdateInv, AtWork
  <2>6. SettledInv' BY <1>2, <2>4 DEF Patch, inMemory, SettledInv
  <2> QED BY <2>3, <2>4, <2>5, <2>6
<1>3. ASSUME NEW h \in Updaters, UpdateBegins(h) PROVE EorzeaInv'
  <2>0. LoadTables(3) \/ \E read \in 0 .. 2 : LoadTables(read) BY <1>3 DEF UpdateBegins
  <2>1. PICK read \in 0 .. 3 : LoadTables(read) BY <2>0
  <2>2. /\ site' = site /\ stored' = stored
        /\ places' \subseteq PlacesAt[site] /\ names' \in 0 .. site
        /\ rates' \subseteq 1 .. site
        /\ names = site => names' = site
    BY <1>0, <1>3, <2>1 DEF UpdateBegins, LoadTables, EorzeaShape, NoNames
  <2>3. CASE UpdateAt(h, "weather")
    <3>1. updating' = [updating EXCEPT ![h] = "weather"] BY <2>3 DEF UpdateAt
    <3>2. EorzeaShape' BY <1>0, <2>2, <3>1 DEF EorzeaShape, Stores
    <3>3. AtWork' = AtWork \cup {h} BY <3>1 DEF AtWork, EorzeaShape
    <3>4. SettledInv' BY <3>3 DEF SettledInv
    <3>5. CASE AtWork = {}
      <4>1. AloneInv' BY <3>3, <3>5 DEF AloneInv
      <4>2. \A k \in Updaters : updating'[k] \notin {"territory", "rates"}
        BY <3>1, <3>5 DEF AtWork, EorzeaShape
      <4> QED BY <3>2, <3>4, <4>1, <4>2 DEF UpdateInv
    <3>6. CASE together' = AtWork \cup {h}
      <4>1. AloneInv' BY <3>3, <3>6 DEF AloneInv
      <4>2. UpdateInv' BY <3>3, <3>6 DEF UpdateInv, AtWork
      <4> QED BY <3>2, <3>4, <4>1, <4>2
    <3>7. AtWork = {} \/ together' = AtWork \cup {h}
          \/ UpdateEnds(h, FALSE)
      BY <1>3 DEF UpdateBegins
    <3>8. ~UpdateEnds(h, FALSE) BY <3>1 DEF UpdateEnds, UpdateAt, EorzeaShape
    <3> QED BY <3>5, <3>6, <3>7, <3>8
  <2>4. CASE UpdateEnds(h, FALSE)
    <3>1. /\ AloneInv' /\ broke_off'
          /\ updating' \in [Updaters -> {"idle", "weather", "territory", "rates"}]
          /\ \A k \in Updaters \ {h} : updating'[k] = updating[k]
          /\ \A k \in Updaters \ {h} : k \in together' <=> k \in together
          /\ updating'[h] = "idle"
      BY <2>4, ItEnds
    <3>2. EorzeaShape' BY <1>0, <2>2, <3>1 DEF EorzeaShape, Stores
    <3>3. SettledInv' BY <3>1 DEF SettledInv
    <3>4. UpdateInv'
      <4> SUFFICES ASSUME NEW k \in Updaters \ together', ~mixed',
                          updating'[k] \in {"territory", "rates"}
                   PROVE  names' = site' /\ stored'.names = site'
        BY DEF UpdateInv
      <4>1. k # h /\ updating[k] = updating'[k] /\ k \notin together BY <3>1
      <4>2. AtWork # {} BY <4>1 DEF AtWork
      <4>3. ~mixed BY <1>3, <4>2 DEF UpdateBegins
      <4> QED BY <2>2, <4>1, <4>3 DEF UpdateInv
    <3> QED BY <3>1, <3>2, <3>3, <3>4
  <2> QED BY <1>3, <2>3, <2>4 DEF UpdateBegins
<1>4. ASSUME NEW h \in Updaters, UpdateFails(h) PROVE EorzeaInv'
  <2>1. h \in AtWork /\ UpdateEnds(h, FALSE) BY <1>4 DEF UpdateFails, AtWork
  <2>2. EorzeaShape' BY <1>4, <2>1, ItEnds DEF UpdateFails, EorzeaShape, inMemory
  <2> QED BY <1>4, <2>1, <2>2, ItThrows DEF UpdateFails
<1>5. ASSUME NEW h \in Updaters, UpdateWeather(h) PROVE EorzeaInv'
  <2>0. h \in AtWork BY <1>5 DEF UpdateWeather, AtWork
  <2>1. PICK n \in 0 .. site : /\ stored' = [stored EXCEPT !.names = n]
                               /\ UpdateAt(h, "territory") /\ h \notin together => n = site
    BY <1>0, <1>5 DEF UpdateWeather, Leaves, NoNames, Throws, UpdateEnds, UpdateAt, EorzeaShape
  <2>2. stored' \in Stores(site) /\ stored'.names = n
    BY <1>0, <2>1 DEF Stores, EorzeaShape
  <2>3. CASE UpdateAt(h, "territory") /\ UNCHANGED <<together, broke_off>>
    <3>1. EorzeaShape' BY <1>0, <1>5, <2>0, <2>2, <2>3, GoesOn DEF UpdateWeather, EorzeaShape
    <3>2. AloneInv' /\ SettledInv' BY <2>0, <2>3, GoesOn DEF SettledInv
    <3>3. \A k \in Updaters \ together' : updating'[k] # "idle" => k = h
      BY <2>0, <2>3, GoesOn
    <3>4. h \notin together' => names' = site' /\ stored'.names = site'
      BY <1>5, <2>1, <2>2, <2>3 DEF UpdateWeather
    <3>5. UpdateInv' BY <3>3, <3>4 DEF UpdateInv
    <3> QED BY <3>1, <3>2, <3>5
  <2>4. CASE UpdateEnds(h, FALSE)
    <3>1. EorzeaShape'
      <4>1. updating' \in [Updaters -> {"idle", "weather", "territory", "rates"}]
        BY <2>4, ItEnds
      <4> QED BY <1>0, <1>5, <2>2, <4>1 DEF UpdateWeather, EorzeaShape
    <3> QED BY <1>5, <2>0, <2>4, <3>1, ItThrows DEF UpdateWeather
  <2> QED BY <1>5, <2>3, <2>4 DEF UpdateWeather, Throws
<1>6. ASSUME NEW h \in Updaters, UpdateTerritoryInfo(h) PROVE EorzeaInv'
  <2>0. h \in AtWork BY <1>6 DEF UpdateTerritoryInfo, AtWork
  <2>1. PICK done \in SUBSET PlacesAt[site], kept \in SUBSET PlacesAt[site] :
          /\ places' = places \cup done
          /\ stored' = [stored EXCEPT !.places = kept, !.aliases = aliases \cap kept]
    BY <1>6 DEF UpdateTerritoryInfo, Leaves
  <2>2. stored' \in Stores(site) /\ stored'.names = stored.names
    BY <1>0, <2>1 DEF Stores, EorzeaShape
  <2>3. CASE UpdateAt(h, "rates") /\ UNCHANGED <<together, broke_off>>
    <3>1. EorzeaShape'
      BY <1>0, <1>6, <2>0, <2>1, <2>2, <2>3, GoesOn DEF UpdateTerritoryInfo, EorzeaShape
    <3>2. AloneInv' /\ SettledInv' BY <2>0, <2>3, GoesOn DEF SettledInv
    <3>3. \A k \in Updaters \ together' : updating'[k] # "idle" => k = h
      BY <2>0, <2>3, GoesOn
    <3>4. h \notin together' /\ ~mixed' => names' = site' /\ stored'.names = site'
      BY <1>6, <2>2, <2>3 DEF UpdateTerritoryInfo, UpdateInv
    <3>5. UpdateInv' BY <3>3, <3>4 DEF UpdateInv
    <3> QED BY <3>1, <3>2, <3>5
  <2>4. CASE UpdateEnds(h, FALSE)
    <3>1. EorzeaShape'
      BY <1>0, <1>6, <2>1, <2>2, <2>4, ItEnds DEF UpdateTerritoryInfo, EorzeaShape
    <3> QED BY <1>6, <2>0, <2>4, <3>1, ItThrows DEF UpdateTerritoryInfo
  <2> QED BY <1>6, <2>3, <2>4 DEF UpdateTerritoryInfo, Throws
<1>7. ASSUME NEW h \in Updaters, UpdateWeatherRate(h) PROVE EorzeaInv'
  <2>0. h \in AtWork BY <1>7 DEF UpdateWeatherRate, AtWork
  <2>1. PICK r \in SUBSET (1 .. site) : stored' = [stored EXCEPT !.rates = r]
    <3>1. {site} \in SUBSET (1 .. site) /\ {} \in SUBSET (1 .. site) BY <1>0
    <3>2. /\ Leaves(h, {site}, SUBSET (1 .. site)) \subseteq SUBSET (1 .. site)
          /\ Leaves(h, {}, SUBSET (1 .. site)) \subseteq SUBSET (1 .. site)
      BY <3>1 DEF Leaves
    <3> QED BY <1>7, <3>2 DEF UpdateWeatherRate
  <2>2. stored' \in Stores(site) /\ stored'.names = stored.names
        /\ stored'.places = stored.places
    BY <1>0, <2>1 DEF Stores, EorzeaShape
  <2>3. PICK clean \in BOOLEAN :
          /\ UpdateEnds(h, clean)
          /\ clean /\ h \notin together => stored' = [stored EXCEPT !.rates = {site}]
    BY <1>7 DEF UpdateWeatherRate, Leaves, Throws
  <2>4. EorzeaShape'
    BY <1>0, <1>7, <2>2, <2>3, ItEnds DEF UpdateWeatherRate, EorzeaShape
  <2>5. CASE clean /\ h \notin together
    <3>1. \A k \in AtWork : k = h BY <2>0, <2>5 DEF AloneInv
    <3>2. AtWork' = {} /\ AloneInv' BY <2>0, <2>3, <3>1, ItEnds DEF AtWork
    <3>3. UpdateInv' BY <3>2 DEF UpdateInv, AtWork
    <3>4. ASSUME ~mixed' PROVE SettledInv'
      <4>1. names = site /\ stored.names = site
        BY <1>7, <2>0, <2>5, <3>4 DEF UpdateInv, UpdateWeatherRate, AtWork
      <4>2. stored'.rates = {site} /\ site' = site /\ rates' = rates \cup {site}
            /\ names' = site /\ stored'.names = site /\ places' = places
        BY <1>7, <2>2, <2>3, <2>5, <4>1 DEF UpdateWeatherRate, Stores, EorzeaShape
      <4> QED BY <1>0, <2>2, <4>2 DEF SettledInv, Settled, EorzeaShape
    <3> QED BY <2>4, <3>2, <3>3, <3>4 DEF SettledInv
  <2>6. CASE ~(clean /\ h \notin together)
    <3>1. UpdateEnds(h, FALSE) BY <2>3, <2>6, Zenon DEF UpdateEnds
    <3> QED BY <1>7, <2>0, <2>4, <3>1, ItThrows DEF UpdateWeatherRate
  <2> QED BY <2>5, <2>6
<1>8. CASE RestartWeather
  <2>1. EorzeaShape' BY <1>0, <1>8 DEF RestartWeather, EorzeaShape
  <2>2. AtWork' = {} BY <1>8 DEF RestartWeather, AtWork
  <2>3. AloneInv' /\ UpdateInv' BY <2>2 DEF AloneInv, UpdateInv, AtWork
  <2>4. SettledInv' BY <1>8, <2>2 DEF RestartWeather, SettledInv
  <2> QED BY <2>1, <2>3, <2>4
<1> QED BY <1>1, <1>2, <1>3, <1>4, <1>5, <1>6, <1>7, <1>8
        DEF EorzeaNext, DataNext, GetEorzeanWeather, eorzeaVars, update

\* eorzean_weather_data.cpp: for any versions of the site's files, wherever requests and
\* statements fail and processes die, a place that is known has an answer when the last
\* update came to its end, alone, and read one version.
THEOREM KnownPlacesAnswerHolds == EorzeaSpec => []KnownPlacesAnswer
<1>1. EorzeaInv => KnownPlacesAnswer
  BY SettledAnswers DEF EorzeaInv, SettledInv, KnownPlacesAnswer
<1> QED BY <1>1, EorzeaStart, EorzeaStep, PTL DEF EorzeaSpec

-----------------------------------------------------------------------------
(***************************************************************************)
(* CsvReader.  Lists and rows are given as arguments, since a push changes *)
(* the list under the rows that are already there.  A row fits when its    *)
(* fields are in the list and lie behind one another before a position:    *)
(* for the row in work that is where the field in work begins, and for     *)
(* those in records where the next row begins.                             *)
(***************************************************************************)
Pushed == [start : Nat, length : Nat, has_double_quote : BOOLEAN]
InWork == [start : Nat \cup {Uninitialized}, length : Nat, has_double_quote : BOOLEAN]
Row == [data_start : Nat, fields_start : Nat, row_length : Nat]

\* All blocks but the last are full.
Blocks(b) ==
    /\ b \in Seq(Seq(Pushed)) /\ b # <<>> /\ Len(b[Len(b)]) <= Capacity
    /\ \A k \in 1 .. Len(b) : k < Len(b) => Len(b[k]) = Capacity

FieldAt(b, n) == b[n \div Capacity + 1][(n % Capacity) + 1]
FirstAt(b, r, i) == r.data_start + FieldAt(b, r.fields_start + i - 1).start
PastAt(b, r, i) == FirstAt(b, r, i) + FieldAt(b, r.fields_start + i - 1).length

\* A list with one field more
Longer(b, c, f) ==
    /\ Blocks(c) /\ FieldCount(c) = FieldCount(b) + 1 /\ FieldAt(c, FieldCount(b)) = f
    /\ \A n \in Nat : n < FieldCount(b) => FieldAt(c, n) = FieldAt(b, n)

\* A row whose fields are in the list, one behind the other, and not beyond a position
InOrder(b, r) == \A i, j \in 1 .. r.row_length :
    i < j => \/ PastAt(b, r, i) <= FirstAt(b, r, j)
             \/ FirstAt(b, r, i) = PastAt(b, r, i)
             \/ FirstAt(b, r, j) = PastAt(b, r, j)

Fits(b, r, limit) ==
    /\ r \in Row /\ r.fields_start + r.row_length <= FieldCount(b)
    /\ \A i \in 1 .. r.row_length : PastAt(b, r, i) <= limit
    /\ InOrder(b, r)

\* Rows whose texts lie behind one another, and so do their fields in the list
Ordered(b, rows, limit) ==
    /\ \A n \in 1 .. Len(rows) : Fits(b, rows[n], limit)
    /\ \A m, n \in 1 .. Len(rows) : m < n => Fits(b, rows[m], rows[n].data_start)
    /\ \A n \in 2 .. Len(rows) :
         rows[n].fields_start = rows[n - 1].fields_start + rows[n - 1].row_length

\* A row that may follow them
Follows(b, rows, r) ==
    /\ \A n \in 1 .. Len(rows) : Fits(b, rows[n], r.data_start)
    /\ rows # <<>> => r.fields_start = rows[Len(rows)].fields_start + rows[Len(rows)].row_length

\* The field in work begins behind those of its row, and ends where the parse is.
Reach == IF field.start = Uninitialized THEN data_pos ELSE current_row.data_start + field.start

CsvTypes ==
    /\ in \in Seq(STRING) /\ data_pos \in 0 .. Len(in) /\ quote_escape \in BOOLEAN
    /\ field \in InWork /\ Blocks(buffers) /\ records \in Seq(Row)

FieldInv ==
    /\ field.start = Uninitialized => field.length = 0
    /\ Reach + field.length <= data_pos
    /\ quote_escape => field.start # Uninitialized \/ data_pos = Len(in)

RowInv ==
    /\ current_row \in Row /\ current_row.data_start <= data_pos
    /\ Fits(buffers, current_row, Reach) /\ Follows(buffers, records, current_row)
    /\ current_row.fields_start + current_row.row_length = FieldCount(buffers)

CsvIInv ==
    /\ CsvTypes /\ Ordered(buffers, records, Len(in))
    /\ reading = "parse" => FieldInv /\ RowInv

LEMMA Changed ==
    ASSUME NEW S, NEW s \in Seq(S), NEW k \in 1 .. Len(s), NEW v, [s EXCEPT ![k] = v][k] \in S
    PROVE  [s EXCEPT ![k] = v] \in Seq(S)
OBVIOUS

LEMMA BlockAndOffset ==
    ASSUME NEW n \in Nat
    PROVE  /\ n \div Capacity \in Nat /\ n % Capacity \in 0 .. Capacity - 1
           /\ n = Capacity * (n \div Capacity) + (n % Capacity)
BY CapacityAssumption

LEMMA OfBlockAndOffset ==
    ASSUME NEW q \in Nat, NEW r \in 0 .. Capacity - 1
    PROVE  (Capacity * q + r) \div Capacity = q /\ (Capacity * q + r) % Capacity = r
BY CapacityAssumption

\* The list has filled for the number of fields it counts, and the n-th is where Field looks.
LEMMA InList ==
    ASSUME NEW b, Blocks(b)
    PROVE  /\ FieldCount(b) \in Nat
           /\ \A n \in Nat : n < FieldCount(b) =>
                /\ n \div Capacity + 1 \in 1 .. Len(b)
                /\ (n % Capacity) + 1 \in 1 .. Len(b[n \div Capacity + 1])
                /\ FieldAt(b, n) \in Pushed
<1> DEFINE last == Len(b)
           filled == Len(b[last])
<1>1. last \in Nat /\ last >= 1 /\ filled \in 0 .. Capacity /\ Capacity \in Nat /\ Capacity > 0
  BY CapacityAssumption DEF Blocks
<1>2. FieldCount(b) = filled + (last - 1) * Capacity BY DEF FieldCount, Last
<1>3. (last - 1) * Capacity \in Nat
  <2>1. last - 1 \in Nat BY <1>1
  <2> HIDE DEF last
  <2> QED BY <1>1, <2>1
<1>4. ASSUME NEW n \in Nat, n < FieldCount(b)
      PROVE  /\ n \div Capacity + 1 \in 1 .. last
             /\ (n % Capacity) + 1 \in 1 .. Len(b[n \div Capacity + 1])
             /\ FieldAt(b, n) \in Pushed
  <2> DEFINE q == n \div Capacity
             r == n % Capacity
  <2>1. q \in Nat /\ r \in 0 .. Capacity - 1 /\ n = Capacity * q + r BY BlockAndOffset
  <2>2. n < filled + (last - 1) * Capacity BY <1>2, <1>4
  <2>3. q <= last - 1 /\ (q = last - 1 => r < filled)
    <3> HIDE DEF q, r, last, filled
    <3>1. ASSUME q > last - 1 PROVE FALSE
      <4>1. q - last \in Nat BY <1>1, <2>1, <3>1
      <4>2. /\ Capacity * q = (last - 1) * Capacity + Capacity + Capacity * (q - last)
            /\ Capacity * (q - last) \in Nat
        BY <1>1, <2>1, <4>1
      <4> QED BY <1>1, <1>3, <2>1, <2>2, <4>2
    <3>2. ASSUME q = last - 1 PROVE r < filled
      <4>1. Capacity * q = (last - 1) * Capacity BY <1>1, <2>1, <3>2
      <4> QED BY <1>1, <1>3, <2>1, <2>2, <4>1
    <3> QED BY <1>1, <2>1, <3>1, <3>2
  <2>4. q + 1 \in 1 .. last BY <1>1, <2>1, <2>3
  <2>5. b[q + 1] \in Seq(Pushed) BY <2>4 DEF Blocks
  <2>6. r + 1 \in 1 .. Len(b[q + 1])
    <3>1. CASE q = last - 1
      <4>1. q + 1 = last BY <1>1, <3>1
      <4> QED BY <1>1, <2>1, <2>3, <3>1, <4>1
    <3>2. CASE q # last - 1
      <4>1. q + 1 < last BY <1>1, <2>1, <2>3, <3>2
      <4>2. Len(b[q + 1]) = Capacity BY <2>4, <4>1 DEF Blocks
      <4> QED BY <1>1, <2>1, <4>2
    <3> QED BY <3>1, <3>2
  <2>7. FieldAt(b, n) = b[q + 1][r + 1] BY DEF FieldAt
  <2>8. b[q + 1][r + 1] \in Pushed BY <2>5, <2>6
  <2> QED BY <2>4, <2>6, <2>7, <2>8
<1>5. FieldCount(b) \in Nat
  <2> HIDE DEF last, filled
  <2> QED BY <1>1, <1>2, <1>3
<1> QED BY <1>4, <1>5

\* emplace_back adds a field behind the others, which stay where they are.
LEMMA EmplacedBack ==
    ASSUME Blocks(buffers), NEW f \in Pushed, buffers' = emplace_back(f)
    PROVE  Longer(buffers, buffers', f)
<1> DEFINE last == Len(buffers)
           filled == Len(buffers[last])
<1>1. /\ last \in Nat /\ last >= 1 /\ filled \in 0 .. Capacity /\ Capacity \in Nat /\ Capacity > 0
      /\ buffers \in Seq(Seq(Pushed)) /\ buffers[last] \in Seq(Pushed)
  BY CapacityAssumption DEF Blocks
<1>2. FieldCount(buffers) = filled + (last - 1) * Capacity BY DEF FieldCount, Last
<1>3. (last - 1) * Capacity \in Nat
  <2>1. last - 1 \in Nat BY <1>1
  <2> HIDE DEF last
  <2> QED BY <1>1, <2>1
<1>4. ASSUME NEW n \in Nat, n < FieldCount(buffers)
      PROVE  /\ n \div Capacity + 1 \in 1 .. last
             /\ (n % Capacity) + 1 \in 1 .. Len(buffers[n \div Capacity + 1])
             /\ FieldAt(buffers, n) = buffers[n \div Capacity + 1][(n % Capacity) + 1]
             /\ FieldAt(buffers', n) = buffers'[n \div Capacity + 1][(n % Capacity) + 1]
  BY <1>4, InList DEF FieldAt
<1>5. FieldCount(buffers) \in Nat BY InList
<1>6. CASE filled = Capacity
  <2>1. buffers' = Append(buffers, <<f>>) BY <1>6 DEF emplace_back, Last
  <2>2. /\ Len(buffers') = last + 1 /\ \A k \in 1 .. last : buffers'[k] = buffers[k]
        /\ buffers'[last + 1] = <<f>> /\ Len(<<f>>) = 1 /\ <<f>> \in Seq(Pushed)
    BY <1>1, <2>1
  <2>3. Blocks(buffers')
    <3>1. buffers' \in Seq(Seq(Pushed)) BY <1>1, <2>1, <2>2
    <3>2. ASSUME NEW k \in 1 .. Len(buffers'), k < Len(buffers') PROVE Len(buffers'[k]) = Capacity
      <4>1. k \in 1 .. last /\ buffers'[k] = buffers[k] BY <1>1, <2>2, <3>2
      <4>2. k = last \/ k < last BY <1>1, <4>1
      <4> QED BY <1>6, <4>1, <4>2 DEF Blocks
    <3> QED BY <1>1, <2>2, <3>1, <3>2 DEF Blocks
  <2>4. FieldCount(buffers') = 1 + last * Capacity
    <3>1. (last + 1) - 1 = last BY <1>1
    <3> QED BY <2>2, <3>1 DEF FieldCount, Last
  <2>5. last * Capacity = (last - 1) * Capacity + Capacity
    <3> HIDE DEF last
    <3> QED BY <1>1
  <2>6. FieldCount(buffers) = Capacity * last + 0 /\ FieldCount(buffers) = last * Capacity
    <3> HIDE DEF last
    <3> QED BY <1>1, <1>2, <1>3, <1>6, <2>5
  <2>7. FieldCount(buffers') = FieldCount(buffers) + 1
    <3> HIDE DEF last
    <3> QED BY <1>1, <1>2, <1>3, <1>6, <2>4, <2>6
  <2>8. ASSUME NEW n \in Nat, n = FieldCount(buffers) PROVE FieldAt(buffers', n) = f
    <3>1. 0 \in 0 .. Capacity - 1 BY <1>1
    <3>2. n \div Capacity = last /\ n % Capacity = 0
      <4> HIDE DEF last
      <4> QED BY <1>1, <2>6, <2>8, <3>1, OfBlockAndOffset
    <3>3. FieldAt(buffers', n) = buffers'[last + 1][0 + 1] BY <3>2 DEF FieldAt
    <3> QED BY <2>2, <3>3
  <2>9. ASSUME NEW n \in Nat, n < FieldCount(buffers) PROVE FieldAt(buffers', n) = FieldAt(buffers, n)
    BY <1>4, <2>2, <2>9
  <2> QED BY <1>5, <2>3, <2>7, <2>8, <2>9 DEF Longer
<1>7. CASE filled # Capacity
  <2>1. buffers' = [buffers EXCEPT ![last] = Append(@, f)] BY <1>7 DEF emplace_back, Last
  <2>2. /\ Len(buffers') = last /\ \A k \in 1 .. last : k # last => buffers'[k] = buffers[k]
        /\ buffers'[last] = Append(buffers[last], f)
    BY <1>1, <2>1
  <2>3. /\ buffers'[last] \in Seq(Pushed) /\ Len(buffers'[last]) = filled + 1
        /\ buffers'[last][filled + 1] = f
        /\ \A k \in 1 .. filled : buffers'[last][k] = buffers[last][k]
    BY <1>1, <2>2
  <2>4. Blocks(buffers')
    <3>1. buffers' \in Seq(Seq(Pushed))
      <4> HIDE DEF last
      <4> QED BY <1>1, <2>1, <2>3, Changed
    <3>2. ASSUME NEW k \in 1 .. Len(buffers'), k < Len(buffers') PROVE Len(buffers'[k]) = Capacity
      BY <1>1, <2>2, <3>2 DEF Blocks
    <3>3. Len(buffers'[Len(buffers')]) <= Capacity BY <1>1, <1>7, <2>2, <2>3
    <3>4. buffers' # <<>> BY <1>1, <2>2
    <3> QED BY <3>1, <3>2, <3>3, <3>4 DEF Blocks
  <2>5. FieldCount(buffers') = filled + 1 + (last - 1) * Capacity
    BY <2>2, <2>3 DEF FieldCount, Last
  <2>6. FieldCount(buffers') = FieldCount(buffers) + 1
    <3> HIDE DEF last, filled
    <3> QED BY <1>1, <1>2, <1>3, <2>5
  <2>7. ASSUME NEW n \in Nat, n = FieldCount(buffers) PROVE FieldAt(buffers', n) = f
    <3>1. n \div Capacity = last - 1 /\ n % Capacity = filled
      <4>1. last - 1 \in Nat /\ filled \in 0 .. Capacity - 1 BY <1>1, <1>7
      <4>2. n = Capacity * (last - 1) + filled
        <5> HIDE DEF last, filled
        <5> QED BY <1>1, <1>2, <1>3, <2>7
      <4> HIDE DEF last, filled
      <4> QED BY <4>1, <4>2, OfBlockAndOffset
    <3>2. last - 1 + 1 = last BY <1>1
    <3>3. FieldAt(buffers', n) = buffers'[last][filled + 1] BY <3>1, <3>2 DEF FieldAt
    <3> QED BY <2>3, <3>3
  <2>8. ASSUME NEW n \in Nat, n < FieldCount(buffers) PROVE FieldAt(buffers', n) = FieldAt(buffers, n)
    <3> DEFINE q == n \div Capacity + 1
               r == (n % Capacity) + 1
    <3>1. q \in 1 .. last /\ r \in 1 .. Len(buffers[q]) BY <1>4, <2>8
    <3>2. FieldAt(buffers, n) = buffers[q][r] /\ FieldAt(buffers', n) = buffers'[q][r] BY <1>4, <2>8
    <3> HIDE DEF q, r
    <3>3. CASE q = last BY <2>3, <3>1, <3>2, <3>3
    <3>4. CASE q # last BY <2>2, <3>1, <3>2, <3>4
    <3> QED BY <3>3, <3>4
  <2> QED BY <1>5, <2>4, <2>6, <2>7, <2>8 DEF Longer
<1> QED BY <1>6, <1>7

\* What is known of a row's fields: where they are, and that each is one of the list.
LEMMA RowFields ==
    ASSUME NEW b, Blocks(b), NEW r \in Row, r.fields_start + r.row_length <= FieldCount(b),
           NEW i \in 1 .. r.row_length
    PROVE  /\ r.fields_start + i - 1 \in Nat /\ r.fields_start + i - 1 < FieldCount(b)
           /\ FieldAt(b, r.fields_start + i - 1) \in Pushed
           /\ FirstAt(b, r, i) \in Nat /\ PastAt(b, r, i) \in Nat
           /\ r.data_start <= FirstAt(b, r, i) /\ FirstAt(b, r, i) <= PastAt(b, r, i)
<1>1. r.fields_start \in Nat /\ r.row_length \in Nat /\ r.data_start \in Nat BY DEF Row
<1>2. FieldCount(b) \in Nat BY InList
<1>3. r.fields_start + i - 1 \in Nat /\ r.fields_start + i - 1 < FieldCount(b) BY <1>1, <1>2
<1>4. FieldAt(b, r.fields_start + i - 1) \in Pushed BY <1>3, InList
<1> QED BY <1>1, <1>3, <1>4 DEF FirstAt, PastAt, Pushed

LEMMA FitsFurther ==
    ASSUME NEW b, Blocks(b), NEW r, NEW k \in Nat, NEW l \in Nat, k <= l, Fits(b, r, k)
    PROVE  Fits(b, r, l)
<1>1. r \in Row /\ r.fields_start + r.row_length <= FieldCount(b) BY DEF Fits
<1>2. ASSUME NEW i \in 1 .. r.row_length PROVE PastAt(b, r, i) <= l
  <2>1. PastAt(b, r, i) <= k BY DEF Fits
  <2>2. PastAt(b, r, i) \in Nat BY <1>1, RowFields
  <2> QED BY <2>1, <2>2
<1> QED BY <1>1, <1>2 DEF Fits

\* A row's fields stay where they are when the list grows.
LEMMA SameFields ==
    ASSUME NEW b, NEW c, NEW f, Blocks(b), Longer(b, c, f), NEW r \in Row,
           r.fields_start + r.row_length <= FieldCount(b), NEW i \in 1 .. r.row_length
    PROVE  FirstAt(c, r, i) = FirstAt(b, r, i) /\ PastAt(c, r, i) = PastAt(b, r, i)
<1>1. r.fields_start + i - 1 \in Nat /\ r.fields_start + i - 1 < FieldCount(b) BY RowFields
<1>2. FieldAt(c, r.fields_start + i - 1) = FieldAt(b, r.fields_start + i - 1)
  BY <1>1 DEF Longer
<1> QED BY <1>2 DEF FirstAt, PastAt

LEMMA StillFits ==
    ASSUME NEW b, NEW c, NEW f, Blocks(b), Longer(b, c, f), NEW r, NEW k, Fits(b, r, k)
    PROVE  Fits(c, r, k)
<1>1. r \in Row /\ r.fields_start + r.row_length <= FieldCount(b) /\ InOrder(b, r)
      /\ \A i \in 1 .. r.row_length : PastAt(b, r, i) <= k
  BY DEF Fits
<1>2. \A i \in 1 .. r.row_length :
        FirstAt(c, r, i) = FirstAt(b, r, i) /\ PastAt(c, r, i) = PastAt(b, r, i)
  BY <1>1, SameFields
<1>3. InOrder(c, r) BY <1>1, <1>2 DEF InOrder
<1>4. r.fields_start + r.row_length <= FieldCount(c)
  <2>1. FieldCount(b) \in Nat /\ r.fields_start \in Nat /\ r.row_length \in Nat
    BY <1>1, InList DEF Row
  <2> QED BY <1>1, <2>1 DEF Longer
<1> QED BY <1>1, <1>2, <1>3, <1>4 DEF Fits

\* A row whose last field is the one pushed
LEMMA OneMore ==
    ASSUME NEW b, NEW c, NEW f \in Pushed, Blocks(b), Longer(b, c, f), NEW r, NEW k \in Nat,
           NEW l \in Nat, Fits(b, r, k), k <= l, r.fields_start + r.row_length = FieldCount(b),
           f.length > 0 => k <= r.data_start + f.start, r.data_start + f.start + f.length <= l,
           NEW s \in Row, s.data_start = r.data_start, s.fields_start = r.fields_start,
           s.row_length = r.row_length + 1
    PROVE  Fits(c, s, l) /\ s.fields_start + s.row_length = FieldCount(c)
<1>1. r \in Row /\ r.fields_start + r.row_length <= FieldCount(b) /\ InOrder(b, r)
      /\ \A i \in 1 .. r.row_length : PastAt(b, r, i) <= k
  BY DEF Fits
<1>2. /\ r.fields_start \in Nat /\ r.row_length \in Nat /\ r.data_start \in Nat
      /\ FieldCount(b) \in Nat /\ f.start \in Nat /\ f.length \in Nat
  BY <1>1, InList DEF Row, Pushed
<1> DEFINE last == r.row_length + 1
<1>3. ASSUME NEW i \in 1 .. r.row_length
      PROVE  /\ FirstAt(c, s, i) = FirstAt(b, r, i) /\ PastAt(c, s, i) = PastAt(b, r, i)
             /\ FirstAt(b, r, i) \in Nat /\ PastAt(b, r, i) \in Nat /\ PastAt(b, r, i) <= k
  <2>1. FirstAt(c, r, i) = FirstAt(b, r, i) /\ PastAt(c, r, i) = PastAt(b, r, i) BY <1>1, SameFields
  <2>2. FirstAt(c, s, i) = FirstAt(c, r, i) /\ PastAt(c, s, i) = PastAt(c, r, i)
    BY DEF FirstAt, PastAt
  <2> QED BY <1>1, <2>1, <2>2, RowFields
<1>4. /\ FirstAt(c, s, last) = r.data_start + f.start
      /\ PastAt(c, s, last) = r.data_start + f.start + f.length
  <2>1. s.fields_start + last - 1 = FieldCount(b) BY <1>2
  <2>2. FieldAt(c, s.fields_start + last - 1) = f BY <2>1 DEF Longer
  <2> QED BY <1>2, <2>2 DEF FirstAt, PastAt
<1>5. \A i \in 1 .. s.row_length : i \in 1 .. r.row_length \/ i = last BY <1>2
<1>6. InOrder(c, s)
  <2> SUFFICES ASSUME NEW i \in 1 .. s.row_length, NEW j \in 1 .. s.row_length, i < j
               PROVE  \/ PastAt(c, s, i) <= FirstAt(c, s, j) \/ FirstAt(c, s, i) = PastAt(c, s, i)
                      \/ FirstAt(c, s, j) = PastAt(c, s, j)
    BY DEF InOrder
  <2>1. i \in 1 .. r.row_length BY <1>2, <1>5
  <2>2. CASE j \in 1 .. r.row_length BY <1>1, <1>3, <2>1, <2>2 DEF InOrder
  <2>3. CASE j = last
    <3>1. CASE f.length > 0 BY <1>2, <1>3, <1>4, <2>1, <2>3, <3>1
    <3>2. CASE f.length = 0 BY <1>2, <1>4, <2>3, <3>2
    <3> QED BY <1>2, <3>1, <3>2
  <2> QED BY <1>5, <2>2, <2>3
<1>7. ASSUME NEW i \in 1 .. s.row_length PROVE PastAt(c, s, i) <= l
  <2>1. CASE i \in 1 .. r.row_length BY <1>3, <2>1
  <2>2. CASE i = last BY <1>4, <2>2
  <2> QED BY <1>5, <2>1, <2>2
<1>8. s.fields_start + s.row_length = FieldCount(c) /\ FieldCount(c) \in Nat BY <1>2 DEF Longer
<1> QED BY <1>6, <1>7, <1>8 DEF Fits

\* Rows stay in order when the list grows, when one follows and when the first is taken.
LEMMA OrderedLonger ==
    ASSUME NEW b, NEW c, NEW f, Blocks(b), Longer(b, c, f), NEW rows, NEW l, Ordered(b, rows, l)
    PROVE  Ordered(c, rows, l)
BY StillFits DEF Ordered

LEMMA FollowsLonger ==
    ASSUME NEW b, NEW c, NEW f, Blocks(b), Longer(b, c, f), NEW rows, NEW r, Follows(b, rows, r)
    PROVE  Follows(c, rows, r)
BY StillFits DEF Follows

LEMMA OrderedAppend ==
    ASSUME NEW b, NEW rows \in Seq(Row), NEW l, Ordered(b, rows, l), NEW r \in Row,
           Follows(b, rows, r), Fits(b, r, l)
    PROVE  Ordered(b, Append(rows, r), l)
<1> DEFINE more == Append(rows, r)
           last == Len(rows) + 1
<1>1. /\ Len(rows) \in Nat /\ more \in Seq(Row) /\ Len(more) = last /\ more[last] = r
      /\ \A n \in 1 .. Len(rows) : more[n] = rows[n]
  OBVIOUS
<1>2. \A n \in 1 .. Len(more) : n \in 1 .. Len(rows) \/ n = last BY <1>1
<1>3. ASSUME NEW n \in 1 .. Len(more) PROVE Fits(b, more[n], l)
  BY <1>1, <1>2 DEF Ordered
<1>4. ASSUME NEW m \in 1 .. Len(more), NEW n \in 1 .. Len(more), m < n
      PROVE  Fits(b, more[m], more[n].data_start)
  <2>1. m \in 1 .. Len(rows) BY <1>1, <1>2, <1>4
  <2>2. CASE n \in 1 .. Len(rows) BY <1>1, <1>4, <2>1, <2>2 DEF Ordered
  <2>3. CASE n = last BY <1>1, <2>1, <2>3 DEF Follows
  <2> QED BY <1>2, <2>2, <2>3
<1>5. ASSUME NEW n \in 2 .. Len(more)
      PROVE  more[n].fields_start = more[n - 1].fields_start + more[n - 1].row_length
  <2>1. n - 1 \in 1 .. Len(rows) BY <1>1
  <2>2. CASE n \in 1 .. Len(rows)
    <3>1. n \in 2 .. Len(rows) BY <1>1, <2>2
    <3> QED BY <1>1, <2>1, <2>2, <3>1 DEF Ordered
  <2>3. CASE n = last
    <3>1. n - 1 = Len(rows) /\ rows # <<>> BY <1>1, <2>1, <2>3
    <3> QED BY <1>1, <2>1, <2>3, <3>1 DEF Follows
  <2>4. n \in 1 .. Len(more) BY <1>1
  <2> QED BY <1>2, <2>2, <2>3, <2>4
<1> QED BY <1>3, <1>4, <1>5 DEF Ordered

LEMMA OrderedTail ==
    ASSUME NEW b, NEW rows \in Seq(Row), NEW l, Ordered(b, rows, l), rows # <<>>
    PROVE  Tail(rows) \in Seq(Row) /\ Ordered(b, Tail(rows), l)
<1>1. /\ Tail(rows) \in Seq(Row) /\ Len(rows) \in Nat /\ Len(rows) > 0
      /\ Len(Tail(rows)) = Len(rows) - 1
      /\ \A n \in 1 .. Len(Tail(rows)) : Tail(rows)[n] = rows[n + 1] /\ n + 1 \in 1 .. Len(rows)
  OBVIOUS
<1>2. ASSUME NEW n \in 1 .. Len(Tail(rows)) PROVE Fits(b, Tail(rows)[n], l)
  BY <1>1 DEF Ordered
<1>3. ASSUME NEW m \in 1 .. Len(Tail(rows)), NEW n \in 1 .. Len(Tail(rows)), m < n
      PROVE  Fits(b, Tail(rows)[m], Tail(rows)[n].data_start)
  <2>1. m + 1 < n + 1 BY <1>1, <1>3
  <2> QED BY <1>1, <2>1 DEF Ordered
<1>4. ASSUME NEW n \in 2 .. Len(Tail(rows))
      PROVE  Tail(rows)[n].fields_start =
               Tail(rows)[n - 1].fields_start + Tail(rows)[n - 1].row_length
  <2>1. n \in 1 .. Len(Tail(rows)) /\ n - 1 \in 1 .. Len(Tail(rows)) /\ n + 1 \in 2 .. Len(rows)
    BY <1>1
  <2>2. Tail(rows)[n] = rows[n + 1] /\ Tail(rows)[n - 1] = rows[(n - 1) + 1] BY <1>1, <2>1
  <2>3. (n - 1) + 1 = n /\ (n + 1) - 1 = n OBVIOUS
  <2>4. rows[n + 1].fields_start = rows[(n + 1) - 1].fields_start + rows[(n + 1) - 1].row_length
    BY <2>1 DEF Ordered
  <2> QED BY <2>2, <2>3, <2>4
<1> QED BY <1>1, <1>2, <1>3, <1>4 DEF Ordered

\* Where nothing of the list, the rows and the text changes, the field in work may.
LEMMA FieldChanges ==
    ASSUME CsvIInv, reading = "parse", UNCHANGED <<source, reading, buffers, current_row, records>>,
           data_pos' \in Nat, data_pos <= data_pos', data_pos' <= Len(in),
           quote_escape' \in BOOLEAN, field' \in InWork, FieldInv',
           Reach \in Nat, Reach' \in Nat, Reach <= Reach'
    PROVE  CsvIInv'
<1>1. /\ in' = in /\ reading' = reading /\ buffers' = buffers /\ current_row' = current_row
      /\ records' = records
  BY DEF source
<1>2. CsvTypes' /\ Ordered(buffers, records, Len(in))' BY <1>1 DEF CsvIInv, CsvTypes
<1>3. RowInv'
  <2>1. Fits(buffers, current_row, Reach') BY FitsFurther DEF CsvIInv, CsvTypes, RowInv
  <2>2. Fits(buffers, current_row, Reach)' BY <1>1, <2>1
  <2>3. current_row.data_start <= data_pos' BY DEF CsvIInv, CsvTypes, RowInv, Row
  <2> QED BY <1>1, <2>2, <2>3 DEF CsvIInv, RowInv
<1> QED BY <1>2, <1>3 DEF CsvIInv

LEMMA ReachType ==
    ASSUME CsvIInv, reading = "parse"
    PROVE  /\ Reach \in Nat /\ Reach <= data_pos /\ field.length \in Nat /\ data_pos \in Nat
           /\ Len(in) \in Nat /\ data_pos <= Len(in) /\ current_row.data_start \in Nat
           /\ current_row.data_start <= Reach
BY DEF CsvIInv, CsvTypes, FieldInv, RowInv, InWork, Row, Reach, Uninitialized

\* What push_field pushes, and the row then
Pushes == [field EXCEPT !.start = IF @ = Uninitialized THEN 0 ELSE @]

LEMMA PushField ==
    ASSUME CsvIInv, reading = "parse", buffers' = PushedField, NEW s \in Row,
           s.data_start = current_row.data_start, s.fields_start = current_row.fields_start,
           s.row_length = current_row.row_length + 1
    PROVE  /\ Pushes \in Pushed /\ Longer(buffers, buffers', Pushes) /\ Blocks(buffers')
           /\ Fits(buffers', s, data_pos) /\ s.fields_start + s.row_length = FieldCount(buffers')
           /\ Ordered(buffers', records, Len(in)) /\ Follows(buffers', records, s)
<1>1. Blocks(buffers) /\ field \in InWork /\ current_row \in Row
  BY DEF CsvIInv, CsvTypes, RowInv
<1>2. Pushes \in Pushed BY <1>1 DEF Pushes, Pushed, InWork, Uninitialized
<1>3. Longer(buffers, buffers', Pushes)
  <2>1. buffers' = emplace_back(Pushes) BY DEF PushedField, Pushes
  <2> QED BY <1>1, <1>2, <2>1, EmplacedBack
<1>4. /\ Reach \in Nat /\ data_pos \in Nat /\ Reach <= data_pos
      /\ Pushes.length > 0 => Reach <= current_row.data_start + Pushes.start
      /\ current_row.data_start + Pushes.start + Pushes.length <= data_pos
  <2>1. Reach \in Nat /\ data_pos \in Nat /\ Reach <= data_pos /\ current_row.data_start \in Nat
        /\ current_row.data_start <= Reach /\ field.length \in Nat
    BY ReachType
  <2>2. /\ field.start = Uninitialized => field.length = 0
        /\ Reach + field.length <= data_pos
    BY DEF CsvIInv, FieldInv
  <2>3. CASE field.start = Uninitialized
    <3>1. Pushes.start = 0 /\ Pushes.length = 0 BY <1>1, <2>2, <2>3 DEF Pushes, InWork
    <3> QED BY <2>1, <3>1
  <2>4. CASE field.start # Uninitialized
    <3>1. Pushes = field BY <1>1, <2>4 DEF Pushes, InWork
    <3>2. Reach = current_row.data_start + field.start BY <2>4 DEF Reach
    <3> QED BY <2>1, <2>2, <3>1, <3>2
  <2> QED BY <2>3, <2>4
<1>5. /\ Fits(buffers, current_row, Reach) /\ Follows(buffers, records, current_row)
      /\ Ordered(buffers, records, Len(in))
      /\ current_row.fields_start + current_row.row_length = FieldCount(buffers)
  BY DEF CsvIInv, RowInv
<1>7. Fits(buffers', s, data_pos) /\ s.fields_start + s.row_length = FieldCount(buffers')
  <2>1. ASSUME NEW k \in Nat, Fits(buffers, current_row, k), k <= data_pos,
               Pushes.length > 0 => k <= current_row.data_start + Pushes.start
        PROVE  Fits(buffers', s, data_pos) /\ s.fields_start + s.row_length = FieldCount(buffers')
    BY <1>1, <1>2, <1>3, <1>4, <1>5, <2>1, OneMore
  <2> QED BY <1>4, <1>5, <2>1
<1>8. Ordered(buffers', records, Len(in)) BY <1>1, <1>3, <1>5, OrderedLonger
<1>9. Follows(buffers', records, current_row) BY <1>1, <1>3, <1>5, FollowsLonger
<1>10. Follows(buffers', records, s) BY <1>9 DEF Follows
<1> QED BY <1>2, <1>3, <1>7, <1>8, <1>10 DEF Longer

\* The row with its length is the one pushed.
LEMMA PushRow ==
    ASSUME NEW b, Blocks(b), NEW rows \in Seq(Row), NEW r \in Row,
           NEW l \in Nat, NEW k \in Nat, k <= l, Ordered(b, rows, l), Follows(b, rows, r), Fits(b, r, k),
           r.fields_start + r.row_length = FieldCount(b)
    PROVE  /\ [r EXCEPT !.row_length = FieldCount(b) - r.fields_start] = r
           /\ Append(rows, r) \in Seq(Row) /\ Ordered(b, Append(rows, r), l)
<1>1. [r EXCEPT !.row_length = FieldCount(b) - r.fields_start] = r
  <2>1. FieldCount(b) - r.fields_start = r.row_length BY DEF Row
  <2> QED BY <2>1 DEF Row
<1>2. Fits(b, r, l) BY FitsFurther
<1> QED BY <1>1, <1>2, OrderedAppend

LEMMA NewField == NoField \in InWork /\ NoField.start = Uninitialized /\ NoField.length = 0
BY DEF NoField, InWork

LEMMA DelimiterKeeps == CsvIInv /\ Delimiter => CsvIInv'
<1> SUFFICES ASSUME CsvIInv, Delimiter PROVE CsvIInv' OBVIOUS
<1> DEFINE s == [current_row EXCEPT !.row_length = @ + 1]
<1>1. /\ reading = "parse" /\ data_pos < Len(in) /\ data_pos' = data_pos + 1
      /\ buffers' = PushedField /\ field' = NoField /\ current_row' = s
      /\ in' = in /\ reading' = reading /\ quote_escape' = quote_escape /\ records' = records
  BY DEF Delimiter, Parsing, Within, source
<1>2. /\ data_pos \in Nat /\ Len(in) \in Nat /\ current_row.data_start <= data_pos
      /\ quote_escape => data_pos = Len(in) \/ field.start # Uninitialized
  BY <1>1, ReachType DEF CsvIInv, RowInv, FieldInv
<1>3. /\ s \in Row /\ s.data_start = current_row.data_start
      /\ s.fields_start = current_row.fields_start /\ s.row_length = current_row.row_length + 1
  BY <1>1 DEF CsvIInv, RowInv, Row
<1>4. /\ Longer(buffers, buffers', Pushes) /\ Blocks(buffers')
      /\ Fits(buffers', s, data_pos) /\ s.fields_start + s.row_length = FieldCount(buffers')
      /\ Ordered(buffers', records, Len(in)) /\ Follows(buffers', records, s)
  BY <1>1, <1>3, PushField
<1>5. CsvTypes' BY <1>1, <1>2, <1>4, NewField DEF CsvIInv, CsvTypes
<1>6. Reach' = data_pos + 1 BY <1>1, NewField DEF Reach
<1>7. ~quote_escape BY <1>1 DEF Delimiter, Parsing, compound_parse_flag
<1>8. FieldInv' BY <1>1, <1>2, <1>6, <1>7, NewField DEF FieldInv
<1>9. Fits(buffers', s, data_pos + 1) BY <1>2, <1>4, FitsFurther
<1>10. RowInv'
  <2>1. s.data_start <= data_pos + 1 BY <1>2, <1>3 DEF Row
  <2> HIDE DEF s
  <2> QED BY <1>1, <1>3, <1>4, <1>6, <1>9, <2>1 DEF RowInv
<1> QED BY <1>1, <1>4, <1>5, <1>8, <1>10 DEF CsvIInv

LEMMA NewlineKeeps == CsvIInv /\ Newline => CsvIInv'
<1> SUFFICES ASSUME CsvIInv, Newline PROVE CsvIInv' OBVIOUS
<1> DEFINE s == [current_row EXCEPT !.row_length = @ + 1]
           rows == Append(records, s)
           new == RowAt(data_pos', FieldCount(buffers'))
<1>1. /\ reading = "parse" /\ data_pos < Len(in)
      /\ data_pos' = data_pos + 1 \/ (data_pos' = data_pos + 2 /\ data_pos + 1 < Len(in))
      /\ buffers' = PushedField /\ field' = NoField /\ records' = PushedRow(buffers')
      /\ current_row' = new /\ in' = in /\ reading' = reading /\ quote_escape' = quote_escape
  BY DEF Newline, Parsing, Within, source
<1>2. /\ data_pos \in Nat /\ Len(in) \in Nat /\ data_pos' \in Nat
      /\ data_pos < data_pos' /\ data_pos' <= Len(in)
  BY <1>1, ReachType
<1>3. /\ s \in Row /\ s.data_start = current_row.data_start
      /\ s.fields_start = current_row.fields_start /\ s.row_length = current_row.row_length + 1
  BY <1>1 DEF CsvIInv, RowInv, Row
<1>4. /\ Blocks(buffers') /\ Fits(buffers', s, data_pos)
      /\ s.fields_start + s.row_length = FieldCount(buffers')
      /\ Ordered(buffers', records, Len(in)) /\ Follows(buffers', records, s)
  BY <1>1, <1>3, PushField
<1>5. records \in Seq(Row) BY DEF CsvIInv, CsvTypes
<1>6. /\ [s EXCEPT !.row_length = FieldCount(buffers') - s.fields_start] = s
      /\ rows \in Seq(Row) /\ Ordered(buffers', rows, Len(in))
  <2> HIDE DEF s
  <2> QED BY <1>2, <1>3, <1>4, <1>5, PushRow
<1>7. records' = rows
  <2>1. [current_row EXCEPT !.row_length = FieldCount(buffers') - current_row.fields_start]
          = [s EXCEPT !.row_length = FieldCount(buffers') - s.fields_start]
    BY <1>3 DEF CsvIInv, RowInv, Row
  <2> QED BY <1>1, <1>6, <2>1 DEF PushedRow
<1>8. FieldCount(buffers') \in Nat BY <1>4, InList
<1>9. /\ new \in Row /\ new.data_start = data_pos' /\ new.fields_start = FieldCount(buffers')
      /\ new.row_length = 0
  BY <1>2, <1>8 DEF RowAt, Row
<1>10. Fits(buffers', new, data_pos') BY <1>8, <1>9 DEF Fits, InOrder
<1>11. Follows(buffers', rows, new)
  <2>1. ASSUME NEW n \in 1 .. Len(rows) PROVE Fits(buffers', rows[n], data_pos')
    <3>1. CASE n = Len(records) + 1
      <4>1. rows[n] = s BY <1>5, <3>1
      <4> QED BY <1>2, <1>4, <4>1, FitsFurther
    <3>2. CASE n # Len(records) + 1
      <4>1. n \in 1 .. Len(records) /\ rows[n] = records[n] BY <1>5, <3>2
      <4>2. Fits(buffers', records[n], s.data_start) BY <1>4, <4>1 DEF Follows
      <4>3. s.data_start \in Nat /\ s.data_start <= data_pos'
        BY <1>1, <1>2, <1>3 DEF CsvIInv, RowInv, Row
      <4> QED BY <1>2, <1>4, <4>1, <4>2, <4>3, FitsFurther
    <3> QED BY <3>1, <3>2
  <2>2. rows[Len(rows)] = s BY <1>5
  <2> HIDE DEF rows, s, new
  <2> QED BY <1>4, <1>9, <2>1, <2>2 DEF Follows
<1>12. Reach' = data_pos' BY <1>1, NewField DEF Reach
<1>13. CsvTypes'
  <2>1. quote_escape \in BOOLEAN /\ in \in Seq(STRING) BY DEF CsvIInv, CsvTypes
  <2> HIDE DEF rows, s, new
  <2> QED BY <1>1, <1>2, <1>4, <1>6, <1>7, <2>1, NewField DEF CsvTypes
<1>14. ~quote_escape BY <1>1 DEF Newline, Parsing, compound_parse_flag
<1>15. FieldInv'
  <2>1. field'.length = 0 /\ ~quote_escape' BY <1>1, <1>14, NewField
  <2>2. Reach' + field'.length = data_pos' + 0 BY <1>12, <2>1
  <2>3. ASSUME NEW x \in Nat PROVE x + 0 <= x OBVIOUS
  <2>4. data_pos' + 0 <= data_pos' BY <1>2, <2>3
  <2> QED BY <2>1, <2>2, <2>4 DEF FieldInv
<1>16. RowInv'
  <2>1. data_pos' <= data_pos' /\ FieldCount(buffers') + 0 = FieldCount(buffers') BY <1>2, <1>8
  <2> HIDE DEF rows, s, new
  <2> QED BY <1>1, <1>7, <1>9, <1>10, <1>11, <1>12, <2>1 DEF RowInv
<1> HIDE DEF rows, s, new
<1> QED BY <1>1, <1>6, <1>7, <1>13, <1>15, <1>16 DEF CsvIInv

\* parse_field ends: there is a next special character, or the end of the text.
LEMMA NextSpecial ==
    ASSUME NEW from \in Nat, from < Len(in), Len(in) \in Nat,
           compound_parse_flag(At(from)) = "NOT_SPECIAL"
    PROVE  \E p \in from + 1 .. Len(in) :
              /\ Within(p) => compound_parse_flag(At(p)) # "NOT_SPECIAL"
              /\ \A q \in from .. p - 1 : compound_parse_flag(At(q)) = "NOT_SPECIAL"
<1> DEFINE Ends == {p \in from + 1 .. Len(in) :
                      Within(p) => compound_parse_flag(At(p)) # "NOT_SPECIAL"}
<1>1. Len(in) \in Ends BY DEF Within
<1>2. PICK p \in Ends : \A q \in Ends : p <= q
  <2>1. Ends \subseteq Nat /\ Ends # {} BY <1>1
  <2> HIDE DEF Ends
  <2> QED BY <2>1, LeastNumber
<1>3. ASSUME NEW q \in from .. p - 1, compound_parse_flag(At(q)) # "NOT_SPECIAL" PROVE FALSE
  <2>1. q # from BY <1>3
  <2>2. q \in from + 1 .. Len(in) /\ q < p BY <2>1
  <2>3. q \in Ends BY <1>3, <2>2
  <2> QED BY <1>2, <2>2, <2>3
<1> QED BY <1>2, <1>3

LEMMA NotSpecialKeeps == CsvIInv /\ NotSpecial => CsvIInv'
<1> SUFFICES ASSUME CsvIInv, NotSpecial PROVE CsvIInv' OBVIOUS
<1> DEFINE start == IF field.start = Uninitialized THEN data_pos - current_row.data_start
                                                   ELSE field.start
<1>1. /\ reading = "parse" /\ data_pos < Len(in)
      /\ compound_parse_flag(At(data_pos)) = "NOT_SPECIAL"
      /\ UNCHANGED <<source, reading, quote_escape, buffers, current_row, records>>
      /\ field' = [field EXCEPT !.start = start,
                                !.length = data_pos' - (start + current_row.data_start)]
  BY DEF NotSpecial, Parsing, Within
<1>2. /\ Reach \in Nat /\ Reach <= data_pos /\ data_pos \in Nat /\ Len(in) \in Nat
      /\ current_row.data_start \in Nat /\ current_row.data_start <= Reach
  BY <1>1, ReachType
<1>3. data_pos' \in data_pos + 1 .. Len(in)
  <2>1. data_pos' = CHOOSE p \in data_pos + 1 .. Len(in) :
                  /\ Within(p) => compound_parse_flag(At(p)) # "NOT_SPECIAL"
                  /\ \A q \in data_pos .. p - 1 : compound_parse_flag(At(q)) = "NOT_SPECIAL"
    BY DEF NotSpecial
  <2>2. \E p \in data_pos + 1 .. Len(in) :
                  /\ Within(p) => compound_parse_flag(At(p)) # "NOT_SPECIAL"
                  /\ \A q \in data_pos .. p - 1 : compound_parse_flag(At(q)) = "NOT_SPECIAL"
    BY <1>1, <1>2, NextSpecial
  <2> QED BY <2>1, <2>2
<1>4. start \in Nat /\ start + current_row.data_start = Reach
  <2>1. field \in InWork BY DEF CsvIInv, CsvTypes
  <2> QED BY <1>2, <2>1 DEF Reach, InWork
<1>5. field' \in InWork /\ field'.start = start /\ field'.length = data_pos' - Reach
  <2>1. field \in InWork BY DEF CsvIInv, CsvTypes
  <2>2. data_pos' - (start + current_row.data_start) = data_pos' - Reach BY <1>4
  <2>3. ASSUME NEW x \in data_pos + 1 .. Len(in) PROVE x - Reach \in Nat BY <1>2
  <2>4. data_pos' - Reach \in Nat BY <1>3, <2>3
  <2> HIDE DEF start
  <2> QED BY <1>1, <1>4, <2>1, <2>2, <2>4 DEF InWork
<1>6. field'.start # Uninitialized /\ Reach' = Reach
  <2>1. field'.start # Uninitialized BY <1>4, <1>5 DEF Uninitialized
  <2>2. current_row' = current_row BY <1>1
  <2>3. Reach' = current_row.data_start + start BY <1>5, <2>1, <2>2 DEF Reach
  <2> HIDE DEF start
  <2> QED BY <1>2, <1>4, <2>1, <2>3
<1>7. FieldInv'
  <2>4. ASSUME NEW x \in data_pos + 1 .. Len(in) PROVE Reach + (x - Reach) = x BY <1>2
  <2>1. Reach' + field'.length = data_pos' BY <1>3, <1>5, <1>6, <2>4
  <2>2. ASSUME NEW x \in Nat PROVE x <= x OBVIOUS
  <2>3. data_pos' \in Nat BY <1>2, <1>3
  <2> QED BY <1>6, <2>1, <2>2, <2>3 DEF FieldInv
<1>8. quote_escape' \in BOOLEAN BY <1>1 DEF CsvIInv, CsvTypes
<1>9. data_pos' \in Nat /\ data_pos <= data_pos' /\ data_pos' <= Len(in) BY <1>2, <1>3
<1>10. UNCHANGED <<source, reading, buffers, current_row, records>> BY <1>1
<1>11. Reach <= Reach' /\ Reach' \in Nat BY <1>2, <1>6
<1> HIDE DEF start
<1> QED BY <1>1, <1>2, <1>5, <1>7, <1>8, <1>9, <1>10, <1>11, FieldChanges

LEMMA QuoteEscapeQuoteKeeps == CsvIInv /\ QuoteEscapeQuote => CsvIInv'
<1> SUFFICES ASSUME CsvIInv, QuoteEscapeQuote PROVE CsvIInv' OBVIOUS
<1>1. /\ reading = "parse" /\ data_pos < Len(in) /\ data_pos + 1 < Len(in)
      /\ compound_parse_flag(At(data_pos)) = "QUOTE_ESCAPE_QUOTE"
      /\ UNCHANGED <<source, reading, buffers, current_row, records>>
  BY DEF QuoteEscapeQuote, Parsing, Within
<1>2. \/ quote_escape' = FALSE /\ data_pos' = data_pos + 1 /\ field' = field
      \/ /\ data_pos' = data_pos + 2 /\ quote_escape' = quote_escape
         /\ field' = [field EXCEPT !.length = @ + 2, !.has_double_quote = TRUE]
      \/ /\ data_pos' = data_pos + 1 /\ quote_escape' = quote_escape
         /\ field' = [field EXCEPT !.length = @ + 1]
  BY DEF QuoteEscapeQuote
<1>3. /\ Reach \in Nat /\ Reach <= data_pos /\ data_pos \in Nat /\ Len(in) \in Nat
      /\ field.length \in Nat /\ field \in InWork /\ quote_escape \in BOOLEAN
  BY <1>1, ReachType DEF CsvIInv, CsvTypes
<1>4. field.start # Uninitialized /\ Reach + field.length <= data_pos
  <2>1. quote_escape
    <3>1. parse_flag(At(data_pos)) # "QUOTE_ESCAPE_QUOTE" BY DEF parse_flag
    <3> QED BY <1>1, <3>1 DEF compound_parse_flag
  <2> QED BY <1>1, <1>3, <2>1 DEF CsvIInv, FieldInv
<1>5. /\ field' \in InWork /\ field'.start = field.start /\ field'.length \in Nat
      /\ field'.length - field.length <= data_pos' - data_pos
      /\ data_pos' \in Nat /\ data_pos <= data_pos' /\ data_pos' <= Len(in)
      /\ quote_escape' \in BOOLEAN
  <2>1. CASE quote_escape' = FALSE /\ data_pos' = data_pos + 1 /\ field' = field
    <3>1. field'.length - field.length <= 1 /\ quote_escape' \in BOOLEAN
      <4>1. field'.length = field.length BY <2>1
      <4>2. quote_escape' \in BOOLEAN BY <2>1
      <4>3. field.length - field.length <= 1 BY <1>3
      <4> QED BY <4>1, <4>2, <4>3
    <3>2. data_pos + 1 \in Nat /\ data_pos <= data_pos + 1 /\ (data_pos + 1) - data_pos = 1
      BY <1>3
    <3> QED BY <1>1, <1>3, <2>1, <3>1, <3>2
  <2>2. CASE /\ data_pos' = data_pos + 2 /\ quote_escape' = quote_escape
             /\ field' = [field EXCEPT !.length = @ + 2, !.has_double_quote = TRUE]
    <3>1. field' \in InWork /\ field'.start = field.start /\ field'.length = field.length + 2
      <4>1. TRUE \in BOOLEAN OBVIOUS
      <4>2. field.length + 2 \in Nat BY <1>3
      <4> QED BY <1>3, <2>2, <4>1, <4>2 DEF InWork
    <3> QED BY <1>1, <1>3, <2>2, <3>1
  <2>3. CASE /\ data_pos' = data_pos + 1 /\ quote_escape' = quote_escape
             /\ field' = [field EXCEPT !.length = @ + 1]
    <3>1. field' \in InWork /\ field'.start = field.start /\ field'.length = field.length + 1
      BY <1>3, <2>3 DEF InWork
    <3> QED BY <1>1, <1>3, <2>3, <3>1
  <2> QED BY <1>2, <2>1, <2>2, <2>3
<1>6. Reach' = Reach
  <2>1. current_row' = current_row BY <1>1
  <2> QED BY <1>4, <1>5, <2>1 DEF Reach
<1>7. FieldInv'
  <2>1. Reach' + field'.length <= data_pos' BY <1>3, <1>4, <1>5, <1>6
  <2> QED BY <1>4, <1>5, <2>1 DEF FieldInv
<1>8. Reach <= Reach' /\ Reach' \in Nat BY <1>3, <1>6
<1> QED BY <1>1, <1>3, <1>5, <1>7, <1>8, FieldChanges

LEMMA OpeningQuoteKeeps == CsvIInv /\ OpeningQuote => CsvIInv'
<1> SUFFICES ASSUME CsvIInv, OpeningQuote PROVE CsvIInv' OBVIOUS
<1>1. /\ reading = "parse" /\ data_pos < Len(in) /\ data_pos' = data_pos + 1
      /\ compound_parse_flag(At(data_pos)) = "QUOTE"
      /\ UNCHANGED <<source, reading, buffers, current_row, records>>
      /\ current_row' = current_row /\ in' = in
  BY DEF OpeningQuote, Parsing, Within, source
<1>2. \/ /\ field.length = 0 /\ quote_escape' = TRUE
         /\ field' = IF field.start = Uninitialized /\ data_pos' < Len(in)
                        THEN [field EXCEPT !.start = data_pos' - current_row.data_start]
                        ELSE field
      \/ /\ field.length > 0 /\ field' = [field EXCEPT !.length = @ + 1]
         /\ quote_escape' = quote_escape
  BY DEF OpeningQuote, Within
<1>3. /\ Reach \in Nat /\ Reach <= data_pos /\ data_pos \in Nat /\ Len(in) \in Nat
      /\ field.length \in Nat /\ field \in InWork /\ quote_escape \in BOOLEAN
      /\ current_row.data_start \in Nat /\ current_row.data_start <= Reach
      /\ field.start = Uninitialized => field.length = 0
      /\ Reach + field.length <= data_pos
      /\ field.start = Uninitialized => Reach = data_pos
  BY <1>1, ReachType DEF CsvIInv, CsvTypes, FieldInv, Reach
<1>4. data_pos' \in Nat /\ data_pos <= data_pos' /\ data_pos' <= Len(in) BY <1>1, <1>3
<1>5. ~quote_escape BY <1>1 DEF compound_parse_flag
<1>6. CASE field.length > 0
  <2>1. field' \in InWork /\ field'.start = field.start /\ field'.length = field.length + 1
        /\ quote_escape' = quote_escape
    BY <1>2, <1>3, <1>6 DEF InWork
  <2>2. field.start # Uninitialized BY <1>3, <1>6
  <2>3. Reach' = Reach BY <1>1, <2>1, <2>2 DEF Reach
  <2>4. Reach' + field'.length <= data_pos' BY <1>1, <1>3, <2>1, <2>3
  <2>5. FieldInv' BY <1>5, <2>1, <2>2, <2>4 DEF FieldInv
  <2>6. Reach <= Reach' /\ Reach' \in Nat BY <1>3, <2>3
  <2> QED BY <1>1, <1>3, <1>4, <2>1, <2>5, <2>6, FieldChanges
<1>7. CASE field.length = 0 /\ field.start = Uninitialized /\ data_pos' < Len(in)
  <2>1. data_pos' - current_row.data_start \in Nat BY <1>1, <1>3
  <2>2. /\ field' \in InWork /\ field'.start = data_pos' - current_row.data_start
        /\ field'.length = 0 /\ quote_escape' = TRUE
    BY <1>2, <1>3, <1>7, <2>1 DEF InWork
  <2>3. field'.start # Uninitialized BY <2>1, <2>2 DEF Uninitialized
  <2>4. Reach' = data_pos'
    <3>1. Reach' = current_row.data_start + (data_pos' - current_row.data_start)
      BY <1>1, <2>2, <2>3 DEF Reach
    <3> QED BY <1>1, <1>3, <3>1
  <2>5. Reach' + field'.length <= data_pos' BY <1>1, <1>3, <2>2, <2>4
  <2>6. FieldInv' BY <2>2, <2>3, <2>5 DEF FieldInv
  <2>7. Reach <= Reach' /\ Reach' \in Nat BY <1>1, <1>3, <2>4
  <2>8. quote_escape' \in BOOLEAN BY <2>2
  <2> QED BY <1>1, <1>3, <1>4, <2>2, <2>6, <2>7, <2>8, FieldChanges
<1>8. CASE field.length = 0 /\ ~(field.start = Uninitialized /\ data_pos' < Len(in))
  <2>1. field' = field /\ quote_escape' = TRUE BY <1>2, <1>3, <1>8
  <2>2. Reach <= Reach' /\ Reach' \in Nat /\ Reach' <= data_pos'
    BY <1>1, <1>3, <2>1 DEF Reach
  <2>3. field'.start # Uninitialized \/ data_pos' = Len(in)' BY <1>1, <1>3, <1>4, <1>8, <2>1
  <2>4. Reach' + field'.length <= data_pos' BY <1>3, <1>4, <1>8, <2>1, <2>2
  <2>5. FieldInv' BY <1>8, <2>1, <2>3, <2>4 DEF FieldInv
  <2>6. quote_escape' \in BOOLEAN /\ field' \in InWork BY <1>3, <2>1
  <2> QED BY <1>1, <1>3, <1>4, <2>2, <2>5, <2>6, FieldChanges
<1> QED BY <1>3, <1>6, <1>7, <1>8

LEMMA EndFeedKeeps == CsvIInv /\ EndFeed => CsvIInv'
<1> SUFFICES ASSUME CsvIInv, EndFeed PROVE CsvIInv' OBVIOUS
<1> DEFINE pushes == field.length > 0 \/ (in # <<>> /\ parse_flag(Last(in)) = "DELIMITER")
           s == [current_row EXCEPT !.row_length = @ + 1]
           length == current_row.row_length + (IF pushes THEN 1 ELSE 0)
           rows == IF length > 0 THEN PushedRow(buffers') ELSE records
<1>1. /\ reading = "parse" /\ reading' = "begin" /\ in' = in /\ data_pos' = data_pos
      /\ quote_escape' = quote_escape
      /\ buffers' = IF pushes THEN PushedField ELSE buffers
      /\ field' = IF pushes THEN NoField ELSE field
      /\ records' = IF rows = <<>> THEN rows ELSE Tail(rows)
  BY DEF EndFeed, source
<1>2. /\ data_pos \in Nat /\ Len(in) \in Nat /\ data_pos <= Len(in) /\ Reach \in Nat
      /\ Reach <= Len(in) /\ field \in InWork /\ current_row \in Row /\ records \in Seq(Row)
      /\ Blocks(buffers)
  BY <1>1, ReachType DEF CsvIInv, CsvTypes, RowInv
<1>3. /\ s \in Row /\ s.data_start = current_row.data_start
      /\ s.fields_start = current_row.fields_start /\ s.row_length = current_row.row_length + 1
  <2>1. current_row \in Row BY <1>2
  <2> QED BY <2>1 DEF Row
<1>4. Blocks(buffers') /\ rows \in Seq(Row) /\ Ordered(buffers', rows, Len(in))
  <2>1. CASE pushes
    <3>1. buffers' = PushedField BY <1>1, <2>1
    <3>2. /\ Blocks(buffers') /\ Fits(buffers', s, data_pos)
          /\ s.fields_start + s.row_length = FieldCount(buffers')
          /\ Ordered(buffers', records, Len(in)) /\ Follows(buffers', records, s)
      BY <1>1, <1>3, <3>1, PushField
    <3>3. /\ [s EXCEPT !.row_length = FieldCount(buffers') - s.fields_start] = s
          /\ Append(records, s) \in Seq(Row) /\ Ordered(buffers', Append(records, s), Len(in))
      <4> HIDE DEF s
      <4> QED BY <1>2, <1>3, <3>2, PushRow
    <3>4. [current_row EXCEPT !.row_length = FieldCount(buffers') - current_row.fields_start]
            = [s EXCEPT !.row_length = FieldCount(buffers') - s.fields_start]
      BY <1>2, <1>3 DEF Row
    <3>5. length > 0 BY <1>2, <2>1 DEF Row
    <3>6. rows = Append(records, s) BY <3>3, <3>4, <3>5 DEF PushedRow
    <3> HIDE DEF rows, s
    <3> QED BY <3>2, <3>3, <3>6
  <2>2. CASE ~pushes
    <3>1. buffers' = buffers BY <1>1, <2>2
    <3>2. /\ Ordered(buffers, records, Len(in)) /\ Follows(buffers, records, current_row)
          /\ Fits(buffers, current_row, Reach)
          /\ current_row.fields_start + current_row.row_length = FieldCount(buffers)
      BY <1>1 DEF CsvIInv, RowInv
    <3>3. /\ [current_row EXCEPT !.row_length = FieldCount(buffers) - current_row.fields_start]
               = current_row
          /\ Append(records, current_row) \in Seq(Row)
          /\ Ordered(buffers, Append(records, current_row), Len(in))
      BY <1>2, <3>2, PushRow
    <3>4. rows = Append(records, current_row) \/ rows = records
      BY <3>1, <3>3 DEF PushedRow
    <3> HIDE DEF rows
    <3> QED BY <1>2, <3>1, <3>2, <3>3, <3>4
  <2> HIDE DEF rows, pushes
  <2> QED BY <2>1, <2>2
<1>5. records' \in Seq(Row) /\ Ordered(buffers', records', Len(in))
  <2> HIDE DEF rows
  <2>1. CASE rows = <<>> BY <1>1, <1>4, <2>1
  <2>2. CASE rows # <<>>
    <3>1. records' = Tail(rows) BY <1>1, <2>2
    <3> QED BY <1>4, <2>2, <3>1, OrderedTail
  <2> QED BY <2>1, <2>2
<1>6. field' \in InWork
  <2> HIDE DEF pushes
  <2> QED BY <1>1, <1>2, NewField
<1>7. CsvTypes'
  <2>1. in \in Seq(STRING) /\ data_pos \in 0 .. Len(in) /\ quote_escape \in BOOLEAN
    BY DEF CsvIInv, CsvTypes
  <2> HIDE DEF rows, pushes
  <2> QED BY <1>1, <1>4, <1>5, <1>6, <2>1 DEF CsvTypes
<1>8. reading' # "parse" BY <1>1
<1> HIDE DEF rows, pushes
<1> QED BY <1>1, <1>5, <1>7, <1>8 DEF CsvIInv

\* The range-for takes the first row, or there is none.
LEMMA RowTaken ==
    ASSUME CsvIInv, UNCHANGED <<source, parse_state>>, reading' # "parse",
           records' = records \/ (records # <<>> /\ records' = Tail(records))
    PROVE  CsvIInv'
<1>1. /\ in' = in /\ data_pos' = data_pos /\ quote_escape' = quote_escape /\ field' = field
      /\ buffers' = buffers
  BY DEF source, parse_state
<1>2. records' \in Seq(Row) /\ Ordered(buffers, records', Len(in))
  <2>1. records \in Seq(Row) /\ Ordered(buffers, records, Len(in)) BY DEF CsvIInv, CsvTypes
  <2>2. CASE records' = records BY <2>1, <2>2
  <2>3. CASE records # <<>> /\ records' = Tail(records) BY <2>1, <2>3, OrderedTail
  <2> QED BY <2>2, <2>3
<1>3. CsvTypes' BY <1>1, <1>2 DEF CsvIInv, CsvTypes
<1> QED BY <1>1, <1>2, <1>3 DEF CsvIInv

LEMMA FirstRowKeeps == CsvIInv /\ FirstRow => CsvIInv'
<1> SUFFICES ASSUME CsvIInv, FirstRow PROVE CsvIInv' OBVIOUS
<1>1. /\ UNCHANGED <<source, parse_state>> /\ reading' \in {"end", "iterate"}
      /\ records' = records \/ (records # <<>> /\ records' = Tail(records))
  BY DEF FirstRow
<1> QED BY <1>1, RowTaken

LEMMA ReadRowKeeps == CsvIInv /\ ReadRow => CsvIInv'
<1> SUFFICES ASSUME CsvIInv, ReadRow PROVE CsvIInv' OBVIOUS
<1>1. /\ UNCHANGED <<source, parse_state>> /\ reading' \in {"end", "iterate"}
      /\ records' = records \/ (records # <<>> /\ records' = Tail(records))
  BY DEF ReadRow
<1> QED BY <1>1, RowTaken

LEMMA CsvStutters == CsvIInv /\ UNCHANGED csvVars => CsvIInv'
<1> SUFFICES ASSUME CsvIInv, UNCHANGED csvVars PROVE CsvIInv' OBVIOUS
<1>1. /\ in' = in /\ data_pos' = data_pos /\ quote_escape' = quote_escape /\ field' = field
      /\ buffers' = buffers /\ current_row' = current_row /\ records' = records
      /\ reading' = reading
  BY DEF csvVars, source, parse_state
<1>2. Reach' = Reach BY <1>1 DEF Reach
<1>3. CsvTypes' BY <1>1 DEF CsvIInv, CsvTypes
<1>4. reading = "parse" => FieldInv' /\ RowInv' BY <1>1, <1>2 DEF CsvIInv, FieldInv, RowInv
<1> QED BY <1>1, <1>3, <1>4 DEF CsvIInv

LEMMA CsvStarts == CsvInit => CsvIInv
<1> SUFFICES ASSUME CsvInit PROVE CsvIInv OBVIOUS
<1>1. /\ in \in Seq(STRING) /\ data_pos \in 0 .. Len(in) /\ field = NoField
      /\ buffers = <<<<>>>> /\ current_row = RowAt(0, 0) /\ records = <<>> /\ quote_escape = FALSE
  <2>1. in = Written(written, style) /\ (style.bom => in # <<>>) /\ in \in Seq(STRING)
    BY TextAssumption DEF CsvInit
  <2>2. data_pos = IF style.bom THEN 1 ELSE 0 BY DEF CsvInit
  <2>3. data_pos \in 0 .. Len(in) BY <2>1, <2>2
  <2> QED BY <2>1, <2>3 DEF CsvInit
<1>2. Blocks(buffers) /\ FieldCount(buffers) = 0
  <2>1. /\ buffers \in Seq(Seq(Pushed)) /\ buffers # <<>> /\ Len(buffers) = 1
        /\ buffers[1] = <<>> /\ Len(buffers[1]) = 0
    BY <1>1
  <2>2. 0 * Capacity = 0 /\ 0 <= Capacity BY CapacityAssumption
  <2>3. FieldCount(buffers) = 0 BY <2>1, <2>2, CapacityAssumption DEF FieldCount, Last
  <2> QED BY <2>1, <2>2, <2>3 DEF Blocks
<1>3. CsvTypes
  <2>1. quote_escape \in BOOLEAN BY <1>1
  <2>2. field \in InWork BY <1>1, NewField
  <2>3. records \in Seq(Row) BY <1>1
  <2> QED BY <1>1, <1>2, <2>1, <2>2, <2>3 DEF CsvTypes
<1>4. Reach = data_pos BY <1>1, NewField DEF Reach
<1>5. FieldInv BY <1>1, <1>4, NewField DEF FieldInv
<1>6. /\ current_row \in Row /\ current_row.data_start = 0 /\ current_row.fields_start = 0
      /\ current_row.row_length = 0
  BY <1>1 DEF RowAt, Row
<1>7. Fits(buffers, current_row, Reach) BY <1>2, <1>6 DEF Fits, InOrder
<1>8. Follows(buffers, records, current_row) /\ Ordered(buffers, records, Len(in))
  BY <1>1 DEF Follows, Ordered
<1>9. RowInv BY <1>1, <1>2, <1>6, <1>7, <1>8 DEF RowInv
<1> QED BY <1>3, <1>5, <1>8, <1>9 DEF CsvIInv

THEOREM CsvInvariance == CsvSpec => []CsvIInv
<1>1. CsvIInv /\ [CsvNext]_csvVars => CsvIInv'
  BY DelimiterKeeps, NewlineKeeps, NotSpecialKeeps, QuoteEscapeQuoteKeeps, OpeningQuoteKeeps,
     EndFeedKeeps, FirstRowKeeps, ReadRowKeeps, CsvStutters DEF CsvNext
<1> QED BY <1>1, CsvStarts, PTL DEF CsvSpec

-----------------------------------------------------------------------------
\* A field is cut out of the text where it lies (get_field), beyond neither end of it, and no
\* character is in two fields, for every text, of any length.
THEOREM FieldsApartHolds == CsvSpec => []FieldsApart
<1>1. CsvIInv => FieldsApart
  <2> SUFFICES ASSUME CsvIInv, NEW n \in DOMAIN records, NEW i \in 1 .. records[n].row_length
               PROVE  /\ 0 <= First(records[n], i) /\ Past(records[n], i) <= Len(in)
                      /\ \A m \in 1 .. n : \A j \in 1 .. records[m].row_length :
                           \/ m = n /\ i <= j
                           \/ Past(records[m], j) <= First(records[n], i)
                           \/ First(records[m], j) = Past(records[m], j)
                           \/ First(records[n], i) = Past(records[n], i)
    BY DEF FieldsApart
  <2>1. /\ records \in Seq(Row) /\ Blocks(buffers) /\ Ordered(buffers, records, Len(in))
        /\ n \in 1 .. Len(records)
    BY DEF CsvIInv, CsvTypes
  <2>2. \A r, k : First(r, k) = FirstAt(buffers, r, k) /\ Past(r, k) = PastAt(buffers, r, k)
    BY DEF First, Past, Field, FirstAt, PastAt, FieldAt
  <2>3. Fits(buffers, records[n], Len(in)) BY <2>1 DEF Ordered
  <2>4. /\ FirstAt(buffers, records[n], i) \in Nat /\ records[n].data_start \in Nat
        /\ records[n].data_start <= FirstAt(buffers, records[n], i)
    BY <2>1, <2>3, RowFields DEF Fits, Row
  <2>5. ASSUME NEW m \in 1 .. n, NEW j \in 1 .. records[m].row_length
        PROVE  \/ m = n /\ i <= j
               \/ PastAt(buffers, records[m], j) <= FirstAt(buffers, records[n], i)
               \/ FirstAt(buffers, records[m], j) = PastAt(buffers, records[m], j)
               \/ FirstAt(buffers, records[n], i) = PastAt(buffers, records[n], i)
    <3>1. m \in 1 .. Len(records) BY <2>1
    <3>2. CASE m = n
      <4>1. records[n].row_length \in Nat BY <2>3 DEF Fits, Row
      <4>2. i <= j \/ j < i BY <3>2, <4>1
      <4> QED BY <2>3, <3>2, <4>2 DEF Fits, InOrder
    <3>3. CASE m # n
      <4>1. m < n BY <2>1, <3>3
      <4>2. Fits(buffers, records[m], records[n].data_start) BY <2>1, <3>1, <4>1 DEF Ordered
      <4>3. PastAt(buffers, records[m], j) <= records[n].data_start BY <4>2 DEF Fits
      <4>4. PastAt(buffers, records[m], j) \in Nat BY <2>1, <4>2, RowFields DEF Fits
      <4> QED BY <2>4, <4>3, <4>4
    <3> QED BY <3>2, <3>3
  <2>6. PastAt(buffers, records[n], i) <= Len(in) BY <2>3 DEF Fits
  <2> QED BY <2>2, <2>4, <2>5, <2>6
<1> QED BY <1>1, CsvInvariance, PTL

\* The fields of a row are in the list, right behind those of the row before it (push_row):
\* none is left out and none is read for two rows, whatever the sizes of the blocks.
THEOREM RowsAdjoinHolds == CsvSpec => []RowsAdjoin
<1>1. CsvIInv => RowsAdjoin
  <2> SUFFICES ASSUME CsvIInv, NEW n \in DOMAIN records
               PROVE  /\ records[n].fields_start + records[n].row_length <= FieldCount(buffers)
                      /\ n > 1 => records[n].fields_start =
                                    records[n - 1].fields_start + records[n - 1].row_length
    BY DEF RowsAdjoin
  <2>1. /\ records \in Seq(Row) /\ Ordered(buffers, records, Len(in)) /\ n \in 1 .. Len(records)
    BY DEF CsvIInv, CsvTypes
  <2>2. records[n].fields_start + records[n].row_length <= FieldCount(buffers)
    BY <2>1 DEF Ordered, Fits
  <2>3. n > 1 => n \in 2 .. Len(records) BY <2>1
  <2> QED BY <2>1, <2>2, <2>3 DEF Ordered
<1> QED BY <1>1, CsvInvariance, PTL
=============================================================================
