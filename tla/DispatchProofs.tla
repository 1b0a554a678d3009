--------------------------- MODULE DispatchProofs ---------------------------
(***************************************************************************)
(* Proofs about Dispatch, for every list of commands and every message.    *)
(* The tables hold every prefix of every command, so the search of a trie  *)
(* can only end behind the longest command that fits; a command has no     *)
(* part of an entity, so what is cut off the decoded message is it.        *)
(***************************************************************************)
EXTENDS Dispatch, FiniteSetTheorems, SequenceTheorems, TLAPS

Phases == Directions \cup {"idle", "message", "full", "regex", "all", "notice",
                           "request", "meta"}

Typed ==
    /\ registered \in 0 .. Len(Commands)
    /\ kept \subseteq 1 .. registered
    /\ nodes \in [Directions -> SUBSET Seq(Chars)]
    /\ phase \in Phases
    /\ message \in Seq(Chars)
    /\ searched \in 0 .. Len(message) /\ pre \in 0 .. searched
    /\ phase # "idle" => registered = Len(Commands)
    /\ phase \notin Directions => searched = 0 /\ pre = 0

\* Every prefix of a command has its node.
NodesInv ==
    \A c \in 1 .. registered : Commands[c].how \in Directions =>
        \A k \in 0 .. Len(Path(c)) : SubSeq(Path(c), 1, k) \in nodes[Commands[c].how]

\* The service that registered a command first keeps its node.
KeptInv ==
    \A c \in 1 .. registered : Commands[c].how \in Directions =>
        \E b \in kept : /\ b <= c /\ Commands[b].how = Commands[c].how
                        /\ Path(b) = Path(c)

\* pre is the longest command among the characters that were consumed.
SearchInv ==
    \A d \in Directions : phase = d =>
        /\ \A b \in kept \cap Fitting(d) : Len(Path(b)) <= searched => Len(Path(b)) <= pre
        /\ pre > 0 => \E b \in kept \cap Fitting(d) : Len(Path(b)) = pre

IInv == Typed /\ NodesInv /\ KeptInv /\ SearchInv

-----------------------------------------------------------------------------
LEMMA CommandTyped ==
    ASSUME NEW c \in 1 .. Len(Commands)
    PROVE  /\ Commands[c].how \in Hows
           /\ Commands[c].key \in Seq(Chars)
<1>1. Commands \in Seq(BotCommand) BY CommandsAssumption
<1>2. Commands[c] \in BotCommand BY <1>1
<1> QED BY <1>2 DEF BotCommand

LEMMA ReadingTyped ==
    ASSUME NEW d \in Directions, NEW s \in Seq(Chars)
    PROVE  Reading(d, s) \in Seq(Chars) /\ Len(Reading(d, s)) = Len(s)
<1>1. \A i \in 1 .. Len(s) : s[i] \in Chars /\ s[Len(s) + 1 - i] \in Chars OBVIOUS
<1>2. \A i \in 1 .. Len(s) :
        Fold[IF d = "suffix" THEN s[Len(s) + 1 - i] ELSE s[i]] \in Chars
  BY <1>1, FoldAssumption
<1>3. Len(s) \in Nat OBVIOUS
<1> QED BY <1>2, <1>3 DEF Reading

LEMMA PathTyped ==
    ASSUME NEW c \in 1 .. Len(Commands)
    PROVE  Path(c) \in Seq(Chars)
<1>1. CASE Commands[c].how \in Directions
  BY <1>1, CommandTyped, ReadingTyped DEF Path
<1>2. CASE Commands[c].how \notin Directions
  BY <1>2, CommandTyped DEF Path
<1> QED BY <1>1, <1>2

\* A prefix of a prefix
LEMMA PrefixOfPrefix ==
    ASSUME NEW S, NEW s \in Seq(S), NEW n \in 0 .. Len(s), NEW k \in 0 .. n
    PROVE  SubSeq(SubSeq(s, 1, n), 1, k) = SubSeq(s, 1, k)
OBVIOUS

LEMMA SubSeqTyped ==
    ASSUME NEW S, NEW s \in Seq(S), NEW n \in 0 .. Len(s)
    PROVE  SubSeq(s, 1, n) \in Seq(S) /\ Len(SubSeq(s, 1, n)) = n
OBVIOUS

-----------------------------------------------------------------------------
LEMMA InitIInv == DispatchInit => IInv
<1> SUFFICES ASSUME DispatchInit PROVE IInv OBVIOUS
<1> USE DEF DispatchInit
<1>1. Len(Commands) \in Nat BY CommandsAssumption
<1>2. Typed
  <2>1. nodes \in [Directions -> SUBSET Seq(Chars)] OBVIOUS
  <2>2. message \in Seq(Chars) /\ Len(message) = 0 OBVIOUS
  <2> QED BY <1>1, <2>1, <2>2 DEF Typed, Phases, Directions
<1>3. NodesInv /\ KeptInv BY DEF NodesInv, KeptInv
<1>4. SearchInv BY DEF SearchInv, Directions
<1> QED BY <1>2, <1>3, <1>4 DEF IInv

\* A registration adds the nodes of its command, and keeps the service only where
\* there is none.
LEMMA RegisterStep == IInv /\ Register => IInv'
<1> SUFFICES ASSUME IInv, Register PROVE IInv' OBVIOUS
<1> DEFINE c == registered + 1
           how == Commands[c].how
<1> USE DEF IInv
<1>1. /\ registered \in Nat /\ Len(Commands) \in Nat /\ registered < Len(Commands)
      /\ registered' = c /\ c \in 1 .. Len(Commands)
  BY CommandsAssumption DEF Register, Typed
<1>2. phase = "idle" /\ phase' = phase /\ message' = message /\ searched' = searched /\ pre' = pre
  BY <1>1 DEF Register, Typed, search
<1>3. kept' \subseteq kept \cup {c} /\ kept \subseteq kept' BY DEF Register
<1>4. \A d \in Directions : nodes[d] \subseteq nodes'[d]
  BY DEF Register, Typed
<1>5. nodes' \in [Directions -> SUBSET Seq(Chars)]
  <2>1. \A k \in 0 .. Len(Path(c)) : SubSeq(Path(c), 1, k) \in Seq(Chars)
    BY <1>1, PathTyped, SubSeqTyped
  <2> QED BY <2>1 DEF Register, Typed
<1>6. Typed'
  BY <1>1, <1>2, <1>3, <1>5 DEF Typed
<1>7. NodesInv'
  <2> SUFFICES ASSUME NEW b \in 1 .. c, Commands[b].how \in Directions,
                      NEW k \in 0 .. Len(Path(b))
               PROVE  SubSeq(Path(b), 1, k) \in nodes'[Commands[b].how]
    BY <1>1 DEF NodesInv, Path
  <2>1. CASE b = c
    <3>1. nodes' = [nodes EXCEPT ![how] =
                      @ \cup {SubSeq(Path(c), 1, j) : j \in 0 .. Len(Path(c))}]
      BY <2>1 DEF Register
    <3>2. SubSeq(Path(c), 1, k) \in {SubSeq(Path(c), 1, j) : j \in 0 .. Len(Path(c))}
      BY <2>1
    <3>3. nodes'[how] = nodes[how] \cup
                          {SubSeq(Path(c), 1, j) : j \in 0 .. Len(Path(c))}
      BY <2>1, <3>1 DEF Typed
    <3> QED BY <2>1, <3>2, <3>3
  <2>2. CASE b # c
    <3>1. b \in 1 .. registered BY <1>1, <2>2
    <3> QED BY <1>4, <3>1 DEF NodesInv
  <2> QED BY <2>1, <2>2
<1>8. KeptInv'
  <2> SUFFICES ASSUME NEW b \in 1 .. c, Commands[b].how \in Directions
               PROVE  \E e \in kept' : /\ e <= b /\ Commands[e].how = Commands[b].how
                                       /\ Path(e) = Path(b)
    BY <1>1 DEF KeptInv, Path
  <2>1. CASE b # c
    <3>1. b \in 1 .. registered BY <1>1, <2>1
    <3> QED BY <1>3, <3>1 DEF KeptInv
  <2>2. CASE b = c /\ HasService(how, Path(c))
    <3>1. PICK e \in kept : Commands[e].how = how /\ Path(e) = Path(c)
      BY <2>2 DEF HasService
    <3>2. e <= c BY <1>1, <3>1 DEF Typed
    <3> QED BY <1>3, <2>2, <3>1, <3>2
  <2>3. CASE b = c /\ ~HasService(how, Path(c))
    <3>1. c \in kept' BY <2>3 DEF Register
    <3> QED BY <1>1, <2>3, <3>1
  <2> QED BY <2>1, <2>2, <2>3
<1>9. SearchInv' BY <1>2 DEF SearchInv, Directions
<1> QED BY <1>6, <1>7, <1>8, <1>9

\* A step that leaves the tables alone and is not one of a search
LEMMA OtherStep ==
    ASSUME IInv, UNCHANGED tables,
           phase' \in Phases, phase' # "idle" => registered = Len(Commands),
           message' \in Seq(Chars), searched' = 0, pre' = 0
    PROVE  IInv'
<1>1. registered' = registered /\ nodes' = nodes /\ kept' = kept BY DEF tables
<1>2. Len(message') \in Nat OBVIOUS
<1>3. Typed' BY <1>1, <1>2 DEF IInv, Typed
<1>4. NodesInv' /\ KeptInv' BY <1>1 DEF IInv, NodesInv, KeptInv, Path
<1>5. SearchInv'
  <2> SUFFICES ASSUME NEW d \in Directions, phase' = d,
                      NEW b \in (kept \cap Fitting(d))', Len(Path(b)) <= 0
               PROVE  Len(Path(b)) <= 0
    BY DEF SearchInv, Path
  <2> QED OBVIOUS
<1> QED BY <1>3, <1>4, <1>5 DEF IInv

\* A step that leaves the tables and the search alone
LEMMA SameStep ==
    ASSUME IInv, UNCHANGED <<tables, phase, message, search>>
    PROVE  IInv'
<1>1. /\ registered' = registered /\ nodes' = nodes /\ kept' = kept
      /\ phase' = phase /\ message' = message /\ searched' = searched /\ pre' = pre
  BY DEF tables, search
<1>2. Typed' BY <1>1 DEF IInv, Typed
<1>3. NodesInv' /\ KeptInv' BY <1>1 DEF IInv, NodesInv, KeptInv, Path
<1>4. \A d : Fitting(d)' = Fitting(d) BY <1>1 DEF Fitting, Path, Reading, StartsWith
<1>5. \A b \in kept : Path(b)' = Path(b) BY DEF Path
<1>6. SearchInv'
  <2> SUFFICES ASSUME NEW d \in Directions, phase = d
               PROVE  /\ \A b \in kept \cap Fitting(d) :
                           Len(Path(b)) <= searched => Len(Path(b)) <= pre
                      /\ pre > 0 => \E b \in kept \cap Fitting(d) : Len(Path(b)) = pre
    BY <1>1, <1>4, <1>5 DEF SearchInv
  <2> QED BY DEF IInv, SearchInv
<1> QED BY <1>2, <1>3, <1>6 DEF IInv

\* One turn of the loop: a command that ends at the next character ends at its node.
LEMMA DescendStep ==
    ASSUME IInv, NEW d \in Directions, Descend(d)
    PROVE  IInv'
<1> DEFINE R == Reading(d, message)
           node == SubSeq(R, 1, searched + 1)
<1> USE DEF IInv
<1>1. /\ registered' = registered /\ nodes' = nodes /\ kept' = kept
      /\ phase' = phase /\ message' = message /\ phase = d
      /\ searched' = searched + 1 /\ searched < Len(message)
  BY DEF Descend, CanDescend, tables
<1>2. /\ R \in Seq(Chars) /\ Len(R) = Len(message) /\ Len(message) \in Nat
      /\ searched \in Nat /\ pre \in Nat /\ pre <= searched
  BY ReadingTyped DEF Typed
<1>3. pre' = IF HasService(d, node) THEN searched + 1 ELSE pre BY DEF Descend
<1>4. Typed' BY <1>1, <1>2, <1>3 DEF Typed
<1>5. NodesInv' /\ KeptInv' BY <1>1 DEF NodesInv, KeptInv, Path
<1>6. Fitting(d)' = Fitting(d) BY <1>1 DEF Fitting, Path, Reading, StartsWith
<1>7. node \in Seq(Chars) /\ Len(node) = searched + 1 BY <1>1, <1>2, SubSeqTyped
<1>8. SearchInv'
  <2>1. ASSUME NEW b \in kept \cap Fitting(d), Len(Path(b)) <= searched + 1
        PROVE  Len(Path(b)) <= pre'
    <3>1. /\ Commands[b].how = d /\ SubSeq(R, 1, Len(Path(b))) = Path(b)
          /\ b \in 1 .. Len(Commands)
      BY <1>2 DEF Fitting, StartsWith, Typed
    <3>2. Len(Path(b)) \in Nat BY <3>1, PathTyped
    <3>3. CASE Len(Path(b)) = searched + 1
      <4>1. HasService(d, node) BY <3>1, <3>3 DEF HasService
      <4> QED BY <1>3, <3>3, <4>1, <1>2
    <3>4. CASE Len(Path(b)) # searched + 1
      <4>1. Len(Path(b)) <= pre BY <1>1, <1>2, <2>1, <3>2, <3>4 DEF SearchInv
      <4> QED BY <1>2, <1>3, <3>2, <4>1
    <3> QED BY <3>3, <3>4
  <2>2. ASSUME pre' > 0 PROVE \E b \in kept \cap Fitting(d) : Len(Path(b)) = pre'
    <3>1. CASE HasService(d, node)
      <4>1. PICK b \in kept : Commands[b].how = d /\ Path(b) = node
        BY <3>1 DEF HasService
      <4>2. Len(Path(b)) = searched + 1 BY <1>7, <4>1
      <4>3. b \in Fitting(d)
        BY <1>1, <1>2, <1>7, <4>1, <4>2 DEF Fitting, StartsWith, Typed
      <4> QED BY <1>3, <3>1, <4>2, <4>3
    <3>2. CASE ~HasService(d, node)
      BY <1>1, <1>3, <2>2, <3>2 DEF SearchInv
    <3> QED BY <3>1, <3>2
  <2>3. \A b \in kept : Path(b)' = Path(b) BY DEF Path
  <2> QED BY <1>1, <1>6, <2>1, <2>2, <2>3 DEF SearchInv
<1> QED BY <1>4, <1>5, <1>8

LEMMA NextIInv == IInv /\ [DispatchNext]_dispatchVars => IInv'
<1> SUFFICES ASSUME IInv, [DispatchNext]_dispatchVars PROVE IInv' OBVIOUS
<1>0. /\ message \in Seq(Chars) /\ phase \in Phases
      /\ phase # "idle" => registered = Len(Commands)
      /\ phase \notin Directions => searched = 0 /\ pre = 0
  BY DEF IInv, Typed
<1>1. CASE Register BY <1>1, RegisterStep
<1>2. CASE Receive
  <2>1. PICK e \in Events : message' = e.text /\ phase' = e.post /\ Filter(e)
    BY <1>2 DEF Receive
  <2>2. e.text \in Seq(Chars) /\ e.post \in Phases
    BY <2>1, EventsAssumption DEF Filter, Phases
  <2> QED BY <1>2, <2>1, <2>2, OtherStep DEF Receive
<1>3. CASE MetaEvent BY <1>0, <1>3, OtherStep DEF MetaEvent, Phases, Directions, search
<1>4. ASSUME NEW rest \in Seq(Chars), Strip(rest), phase = "message" PROVE IInv'
  <2>1. rest # <<>> => [rest EXCEPT ![1] = Garbage] \in Seq(Chars)
    BY FoldAssumption
  <2>2. message' \in Seq(Chars) BY <1>4, <2>1 DEF Strip
  <2> QED BY <1>0, <1>4, <2>2, OtherStep DEF Strip, Phases, Directions, search
<1>5. ASSUME Terminate, phase = "message" PROVE IInv'
  BY <1>0, <1>5, OtherStep DEF Terminate, Phases, Directions, search
<1>6. CASE AddressByName BY <1>0, <1>4, <1>6 DEF AddressByName
<1>7. CASE AddressByCode
  <2>1. ASSUME NEW i \in Words(message), Strip(SubSeq(message, i, Len(message)))
        PROVE  IInv'
    <3>1. SubSeq(message, i, Len(message)) \in Seq(Chars) BY <1>0 DEF Words
    <3> QED BY <1>4, <1>7, <2>1, <3>1 DEF AddressByCode
  <2> QED BY <1>5, <1>7, <2>1 DEF AddressByCode
<1>8. CASE NotAddressed
  BY <1>0, <1>8, OtherStep DEF NotAddressed, Phases, Directions, search
<1>9. CASE FullMatch
  BY <1>0, <1>9, OtherStep DEF FullMatch, Phases, Directions, search
<1>10. CASE RegexMatch
  BY <1>0, <1>10, OtherStep DEF RegexMatch, Phases, Directions, search
<1>11. CASE AllMessages
  BY <1>0, <1>11, OtherStep DEF AllMessages, Phases, Directions, search
<1>12. CASE NoticeEvent
  BY <1>0, <1>12, OtherStep DEF NoticeEvent, Phases, Directions, search
<1>13. CASE RequestEvent
  BY <1>0, <1>13, OtherStep DEF RequestEvent, Phases, Directions, search
<1>14. CASE SwitchService BY <1>14, SameStep DEF SwitchService
<1>15. ASSUME NEW d \in Directions, Descend(d) PROVE IInv' BY <1>15, DescendStep
<1>16. ASSUME NEW d \in Directions, SearchEnds(d) PROVE IInv'
  BY <1>0, <1>16, OtherStep DEF SearchEnds, Phases, Directions
<1>17. CASE UNCHANGED dispatchVars
  BY <1>17, SameStep DEF dispatchVars
<1> QED BY <1>1, <1>2, <1>3, <1>6, <1>7, <1>8, <1>9, <1>10, <1>11, <1>12, <1>13,
           <1>14, <1>15, <1>16, <1>17 DEF DispatchNext

\* Where the search stands still, no longer command fits: its nodes would go on.
LEMMA IInvLongest == IInv => LongestMatch
<1> SUFFICES ASSUME IInv, NEW d \in Directions, phase = d, ~CanDescend(d)
             PROVE  /\ \A c \in Fitting(d) :
                         /\ Len(Path(c)) <= pre
                         /\ \E b \in kept : /\ b <= c /\ b \in Fitting(d)
                                            /\ Path(b) = Path(c)
                    /\ pre > 0 => \E b \in kept \cap Fitting(d) : Len(Path(b)) = pre
  BY DEF LongestMatch
<1> DEFINE R == Reading(d, message)
<1> USE DEF IInv
<1>1. /\ R \in Seq(Chars) /\ Len(R) = Len(message) /\ Len(message) \in Nat
      /\ searched \in Nat /\ searched <= Len(message)
  BY ReadingTyped DEF Typed
<1>2. ASSUME NEW c \in Fitting(d)
      PROVE  /\ Len(Path(c)) <= pre
             /\ \E b \in kept : b <= c /\ b \in Fitting(d) /\ Path(b) = Path(c)
  <2>1. /\ c \in 1 .. registered /\ c \in 1 .. Len(Commands) /\ Commands[c].how = d
        /\ Path(c) # <<>> /\ Len(Path(c)) <= Len(R)
        /\ SubSeq(R, 1, Len(Path(c))) = Path(c)
    BY DEF Fitting, StartsWith, Typed
  <2>2. PICK b \in kept : b <= c /\ Commands[b].how = d /\ Path(b) = Path(c)
    BY <2>1 DEF KeptInv
  <2>3. b \in Fitting(d) BY <2>1, <2>2 DEF Fitting, StartsWith, Typed
  <2>4. Len(Path(c)) \in Nat BY <2>1, PathTyped
  <2>5. Len(Path(c)) <= searched
    <3> SUFFICES ASSUME searched < Len(Path(c)) PROVE FALSE BY <1>1, <2>4
    <3>1. SubSeq(Path(c), 1, searched + 1) \in nodes[d]
      BY <1>1, <2>1, <2>4 DEF NodesInv
    <3>2. SubSeq(Path(c), 1, searched + 1) = SubSeq(R, 1, searched + 1)
      BY <1>1, <2>1, <2>4, PrefixOfPrefix
    <3>3. searched < Len(message) BY <1>1, <2>1, <2>4
    <3>4. SubSeq(R, 1, searched + 1) \notin nodes[d] BY <3>3 DEF CanDescend
    <3> QED BY <3>1, <3>2, <3>4
  <2>6. Len(Path(b)) <= pre BY <2>2, <2>3, <2>5 DEF SearchInv
  <2> QED BY <2>2, <2>3, <2>6
<1> QED BY <1>2 DEF SearchInv

-----------------------------------------------------------------------------
\* For every list of registrations and every message, the search of a trie ends with
\* the longest command that fits, owned by who registered it first.
THEOREM SearchFindsLongest == DispatchSpec => []LongestMatch
<1>1. DispatchInit => IInv BY InitIInv
<1>2. IInv /\ [DispatchNext]_dispatchVars => IInv' BY NextIInv
<1>3. IInv => LongestMatch BY IInvLongest
<1> QED BY <1>1, <1>2, <1>3, PTL DEF DispatchSpec

-----------------------------------------------------------------------------
(***************************************************************************)
(* Unescape leaves what is no part of an entity where it is.               *)
(***************************************************************************)
LEMMA LeftFinite ==
    ASSUME NEW s \in Seq(Chars)
    PROVE  /\ IsFiniteSet(Left(s)) /\ Cardinality(Left(s)) \in Nat
           /\ \A i : /\ IsFiniteSet({j \in Left(s) : j <= i})
                     /\ LeftUpTo(s, i) \in Nat /\ LeftUpTo(s, i) <= Cardinality(Left(s))
<1>1. IsFiniteSet(1 .. Len(s)) BY FS_Interval
<1>2. Left(s) \in SUBSET (1 .. Len(s)) BY DEF Left
<1>3. IsFiniteSet(Left(s)) BY <1>1, <1>2, FS_Subset
<1>4. ASSUME NEW i
      PROVE  /\ IsFiniteSet({j \in Left(s) : j <= i})
             /\ LeftUpTo(s, i) \in Nat /\ LeftUpTo(s, i) <= Cardinality(Left(s))
  <2>1. {j \in Left(s) : j <= i} \in SUBSET Left(s) OBVIOUS
  <2> QED BY <1>3, <2>1, FS_Subset, FS_CardinalityType DEF LeftUpTo
<1> QED BY <1>3, <1>4, FS_CardinalityType

\* Of two places that are left, the later one has more up to it.
LEMMA LeftGrows ==
    ASSUME NEW s \in Seq(Chars), NEW i \in Left(s), NEW j \in Left(s), i < j
    PROVE  LeftUpTo(s, i) < LeftUpTo(s, j)
<1> DEFINE I == {k \in Left(s) : k <= i}
           J == {k \in Left(s) : k <= j}
<1>1. i \in Int /\ j \in Int /\ \A k \in Left(s) : k \in Int BY DEF Left
<1>2. IsFiniteSet(J) BY LeftFinite
<1>3. /\ I \in SUBSET J /\ j \in J /\ j \notin I
  <2>1. \A k \in Left(s) : k <= i => k <= j BY <1>1
  <2>2. j <= j /\ ~(j <= i) BY <1>1
  <2> QED BY <2>1, <2>2
<1>4. Cardinality(I) <= Cardinality(J) /\ Cardinality(I) # Cardinality(J)
  BY <1>2, <1>3, FS_Subset
<1>5. Cardinality(I) = LeftUpTo(s, i) /\ Cardinality(J) = LeftUpTo(s, j) BY DEF LeftUpTo
<1>6. LeftUpTo(s, i) \in Nat /\ LeftUpTo(s, j) \in Nat BY LeftFinite
<1> QED BY <1>4, <1>5, <1>6

Decoded(s) == {Unescape(s)[n] : n \in 1 .. Cardinality(Left(s))}

LEMMA UnescapeTyped ==
    ASSUME NEW s \in Seq(Chars)
    PROVE  /\ Unescape(s) \in Seq(Decoded(s))
           /\ Len(Unescape(s)) = Cardinality(Left(s)) /\ Len(Unescape(s)) \in Nat
<1>1. Cardinality(Left(s)) \in Nat BY LeftFinite
<1>2. Unescape(s) = [n \in 1 .. Cardinality(Left(s)) |-> Unescape(s)[n]]
  BY DEF Unescape
<1>3. Unescape(s) \in [1 .. Cardinality(Left(s)) -> Decoded(s)] BY <1>2 DEF Decoded
<1> QED BY <1>1, <1>3

\* A character that is left and is no entity's is found at the number of its place.
LEMMA UnescapeAt ==
    ASSUME NEW s \in Seq(Chars), NEW i \in Left(s), ~Entity(s, i),
           NEW n \in 1 .. Cardinality(Left(s)), LeftUpTo(s, i) = n
    PROVE  Unescape(s)[n] = s[i]
<1> DEFINE Place == CHOOSE k \in Left(s) : LeftUpTo(s, k) = n
<1>1. Place \in Left(s) /\ LeftUpTo(s, Place) = n OBVIOUS
<1>2. Place \in Int /\ i \in Int BY <1>1 DEF Left
<1>3. LeftUpTo(s, i) \in Nat BY LeftFinite
<1>4. ~(Place < i) BY <1>1, <1>3, LeftGrows
<1>5. ~(i < Place) BY <1>1, <1>3, LeftGrows
<1>6. Place = i BY <1>2, <1>4, <1>5
<1>7. Unescape(s)[n] = IF Entity(s, Place) THEN Meaning[s[Place + 1]] ELSE s[Place]
  BY DEF Unescape
<1> QED BY <1>6, <1>7

\* The first characters stay the first if none of them is an '&' ...
LEMMA UnescapeFirst ==
    ASSUME NEW s \in Seq(Chars), NEW k \in 0 .. Len(s), \A i \in 1 .. k : s[i] # Amp
    PROVE  k <= Len(Unescape(s)) /\ \A n \in 1 .. k : Unescape(s)[n] = s[n]
<1>0. Len(s) \in Nat /\ k \in Nat /\ k <= Len(s) OBVIOUS
<1>1. \A i \in 1 .. k : ~Entity(s, i) /\ ~Entity(s, i - 1) BY <1>0 DEF Entity
<1>2. \A i \in 1 .. k : i \in Left(s) BY <1>0, <1>1 DEF Left
<1>3. ASSUME NEW n \in 1 .. k PROVE LeftUpTo(s, n) = n
  <2>1. {j \in Left(s) : j <= n} = 1 .. n BY <1>0, <1>2 DEF Left
  <2>2. n \in Int /\ 1 \in Int /\ ~(1 > n) /\ n - 1 + 1 = n BY <1>0
  <2>3. Cardinality(1 .. n) = IF 1 > n THEN 0 ELSE n - 1 + 1 BY <2>2, FS_Interval
  <2> QED BY <2>1, <2>2, <2>3 DEF LeftUpTo
<1>4. k <= Cardinality(Left(s))
  <2>1. CASE k = 0 BY <2>1, LeftFinite
  <2>2. CASE k # 0
    <3>1. k \in 1 .. k BY <1>0, <2>2
    <3>2. LeftUpTo(s, k) <= Cardinality(Left(s)) BY LeftFinite
    <3> QED BY <1>3, <3>1, <3>2
  <2> QED BY <2>1, <2>2
<1>5. ASSUME NEW n \in 1 .. k PROVE Unescape(s)[n] = s[n]
  <2>1. n \in 1 .. Cardinality(Left(s)) BY <1>0, <1>4, LeftFinite
  <2> QED BY <1>1, <1>2, <1>3, <2>1, UnescapeAt
<1> QED BY <1>4, <1>5, UnescapeTyped

\* ... and the last ones stay the last if none of them ends an entity.
LEMMA UnescapeLast ==
    ASSUME NEW s \in Seq(Chars), NEW k \in 0 .. Len(s),
           \A i \in Len(s) - k + 1 .. Len(s) : s[i] \notin DOMAIN Meaning
    PROVE  /\ k <= Len(Unescape(s))
           /\ \A n \in 1 .. k : Unescape(s)[Len(Unescape(s)) - k + n] = s[Len(s) - k + n]
<1> DEFINE L == Len(s)
           C == Cardinality(Left(s))
<1>0. L \in Nat /\ k \in Nat /\ k <= L /\ C \in Nat BY LeftFinite
<1>1. \A i \in L - k + 1 .. L : ~Entity(s, i) /\ ~Entity(s, i - 1)
  <2> SUFFICES ASSUME NEW i \in L - k + 1 .. L PROVE ~Entity(s, i) /\ ~Entity(s, i - 1)
    OBVIOUS
  <2>1. ~Entity(s, i - 1)
    <3>1. (i - 1) + 1 = i BY <1>0
    <3> QED BY <3>1 DEF Entity
  <2>2. ~Entity(s, i)
    <3>1. i \in 1 .. L - 1 => i + 1 \in L - k + 1 .. L BY <1>0
    <3> QED BY <3>1 DEF Entity
  <2> QED BY <2>1, <2>2
<1>2. \A i \in L - k + 1 .. L : i \in Left(s) BY <1>0, <1>1 DEF Left
<1>3. ASSUME NEW n \in 0 .. k PROVE LeftUpTo(s, L - k + n) = C - (k - n)
  <2> DEFINE T == L - k + n + 1 .. L
  <2>1. n \in Int /\ L - k + n \in Int /\ 0 <= n /\ n <= k BY <1>0
  <2>2. {j \in Left(s) : j <= L - k + n} = Left(s) \ T BY <1>0, <2>1 DEF Left
  <2>3. Left(s) \cap T = T BY <1>0, <1>2, <2>1
  <2>4. Cardinality(T) = k - n
    <3>1. L - k + n + 1 \in Int /\ L \in Int BY <1>0, <2>1
    <3>2. Cardinality(T) = IF L - k + n + 1 > L THEN 0 ELSE L - (L - k + n + 1) + 1
      BY <3>1, FS_Interval
    <3> QED BY <1>0, <2>1, <3>2
  <2>5. Cardinality(Left(s) \ T) = C - Cardinality(Left(s) \cap T)
    BY LeftFinite, FS_Difference
  <2> QED BY <2>2, <2>3, <2>4, <2>5 DEF LeftUpTo
<1>4. k <= C
  <2>1. LeftUpTo(s, L - k + 0) = C - (k - 0) BY <1>0, <1>3
  <2>2. LeftUpTo(s, L - k + 0) \in Nat BY LeftFinite
  <2> QED BY <1>0, <2>1, <2>2
<1>5. ASSUME NEW n \in 1 .. k PROVE Unescape(s)[C - k + n] = s[L - k + n]
  <2>1. L - k + n \in Left(s) /\ ~Entity(s, L - k + n) BY <1>0, <1>1, <1>2
  <2>2. C - k + n \in 1 .. C BY <1>0, <1>4
  <2>3. LeftUpTo(s, L - k + n) = C - k + n
    <3>1. n \in 0 .. k BY <1>0
    <3>2. LeftUpTo(s, L - k + n) = C - (k - n) BY <1>3, <3>1
    <3> QED BY <1>0, <3>2
  <2> QED BY <2>1, <2>2, <2>3, UnescapeAt
<1> QED BY <1>4, <1>5, UnescapeTyped

-----------------------------------------------------------------------------
(***************************************************************************)
(* The text of a command.                                                  *)
(***************************************************************************)

\* The characters a fitting command stands for are no part of an entity.
LEMMA FittingPlain ==
    ASSUME Typed, NEW d \in Directions, NEW c \in Fitting(d)
    PROVE  LET k == Len(Path(c))
               L == Len(message)
           IN  /\ k \in 1 .. L
               /\ d = "prefix" => \A i \in 1 .. k : message[i] # Amp
               /\ d = "suffix" => \A i \in L - k + 1 .. L : message[i] \notin DOMAIN Meaning
<1> DEFINE k == Len(Path(c))
           L == Len(message)
           key == Commands[c].key
           R == Reading(d, message)
<1>1. /\ c \in 1 .. Len(Commands) /\ Commands[c].how = d /\ Path(c) # <<>>
      /\ k <= Len(R) /\ SubSeq(R, 1, k) = Path(c)
  BY CommandsAssumption DEF Fitting, StartsWith, Typed
<1>2. /\ Path(c) \in Seq(Chars) /\ key \in Seq(Chars) /\ message \in Seq(Chars)
      /\ R \in Seq(Chars) /\ Len(R) = L /\ L \in Nat /\ k \in Nat
  BY <1>1, PathTyped, CommandTyped, ReadingTyped DEF Typed
<1>3. k \in 1 .. L BY <1>1, <1>2
<1>4. Path(c) = Reading(d, key) BY <1>1 DEF Path
<1>5. Len(key) = k BY <1>2, <1>4, ReadingTyped
<1>6. \A i \in 1 .. k : R[i] = Path(c)[i] BY <1>1, <1>2, <1>3
<1>7. \A i \in 1 .. k, x \in DOMAIN Meaning \cup {Amp} : Fold[key[i]] # Fold[x]
  <2>1. c \in DOMAIN Commands /\ DOMAIN key = 1 .. k BY <1>1, <1>2, <1>5, CommandsAssumption
  <2> QED BY <1>1, <2>1, EscapesAssumption
<1>8. ASSUME d = "prefix", NEW i \in 1 .. k PROVE message[i] # Amp
  <2>1. R[i] = Fold[message[i]] BY <1>2, <1>3, <1>8 DEF Reading
  <2>2. Path(c)[i] = Fold[key[i]] BY <1>2, <1>4, <1>5, <1>8 DEF Reading
  <2> QED BY <1>6, <1>7, <2>1, <2>2
<1>9. ASSUME d = "suffix", NEW i \in L - k + 1 .. L PROVE message[i] \notin DOMAIN Meaning
  <2> DEFINE j == L + 1 - i
  <2>1. j \in 1 .. k /\ j \in 1 .. L /\ L + 1 - j = i /\ k + 1 - j \in 1 .. k
    BY <1>2, <1>3
  <2>2. R[j] = Fold[message[L + 1 - j]] BY <1>2, <1>9, <2>1 DEF Reading
  <2>3. Path(c)[j] = Fold[key[k + 1 - j]] BY <1>2, <1>4, <1>5, <1>9, <2>1 DEF Reading
  <2> QED BY <1>6, <1>7, <2>1, <2>2, <2>3
<1> QED BY <1>3, <1>8, <1>9

\* A sequence is its first n elements and the others.
LEMMA CutInTwo ==
    ASSUME NEW S, NEW u \in Seq(S), NEW n \in 0 .. Len(u)
    PROVE  u = SubSeq(u, 1, n) \o SubSeq(u, n + 1, Len(u))
<1> DEFINE a == SubSeq(u, 1, n)
           b == SubSeq(u, n + 1, Len(u))
<1>1. a \in Seq(S) /\ b \in Seq(S) /\ Len(a) = n /\ Len(b) = Len(u) - n OBVIOUS
<1>2. \A i \in 1 .. n : a[i] = u[i] OBVIOUS
<1>3. \A i \in 1 .. Len(u) - n : b[i] = u[n + i] OBVIOUS
<1> HIDE DEF a, b
<1>4. a \o b \in Seq(S) /\ Len(a \o b) = Len(u) BY <1>1
<1>5. ASSUME NEW i \in 1 .. Len(u) PROVE (a \o b)[i] = u[i]
  <2>1. (a \o b)[i] = IF i <= Len(a) THEN a[i] ELSE b[i - Len(a)]
    BY <1>1, ConcatProperties
  <2>2. CASE i <= n BY <1>1, <1>2, <2>1, <2>2
  <2>3. CASE ~(i <= n)
    <3>1. i - n \in 1 .. Len(u) - n /\ n + (i - n) = i BY <2>3
    <3>2. b[i - n] = u[n + (i - n)] BY <1>3, <3>1
    <3> QED BY <1>1, <2>1, <2>3, <3>1, <3>2
  <2> QED BY <2>2, <2>3
<1> QED BY <1>4, <1>5, SeqEqual DEF a, b

\* Sequences with the same elements at the same places are the same.
LEMMA SameElements ==
    ASSUME NEW S, NEW T, NEW u \in Seq(S), NEW v \in Seq(T), Len(u) = Len(v),
           \A n \in 1 .. Len(u) : u[n] = v[n]
    PROVE  u = v
<1>1. u \in Seq(S \cup T) /\ v \in Seq(S \cup T) OBVIOUS
<1> QED BY <1>1, SeqEqual

\* What PlainText leaves when the command of a search is cut off
LEMMA CommandCut ==
    ASSUME Typed, message = event.text, NEW d \in Directions, NEW c \in Fitting(d),
           NEW e, e.text = event.text, e.size = Size(d, Len(Path(c)))
    PROVE  Remains(PlainText(e), d, Len(Path(c)))
<1> DEFINE k == Len(Path(c))
           L == Len(message)
           U == Unescape(message)
           C == Len(U)
<1>1. k \in 1 .. L /\ message \in Seq(Chars) /\ L \in Nat BY FittingPlain DEF Typed
<1>2. U \in Seq(Decoded(message)) /\ C \in Nat BY <1>1, UnescapeTyped
<1>3. k \in 0 .. L /\ k \in Nat BY <1>1
<1>4. CASE d = "prefix"
  <2>1. k <= C /\ \A n \in 1 .. k : U[n] = message[n]
    BY <1>1, <1>3, <1>4, FittingPlain, UnescapeFirst
  <2>2. PlainText(e) = SubSeq(U, k + 1, C) BY <1>3, <1>4 DEF PlainText, Size
  <2>3. SubSeq(message, 1, k) = SubSeq(U, 1, k) BY <1>1, <1>2, <1>3, <2>1
  <2>4. U = SubSeq(U, 1, k) \o SubSeq(U, k + 1, C)
    <3>1. k \in 0 .. Len(U) BY <1>2, <1>3, <2>1
    <3> QED BY <1>2, <3>1, CutInTwo
  <2> QED BY <1>4, <2>2, <2>3, <2>4 DEF Remains
<1>5. CASE d = "suffix"
  <2>1. k <= C /\ \A n \in 1 .. k : U[C - k + n] = message[L - k + n]
    BY <1>1, <1>3, <1>5, FittingPlain, UnescapeLast
  <2>2. e.size = -k /\ ~(-k >= 0) /\ C + (-k) = C - k BY <1>1, <1>2, <1>5 DEF Size
  <2>3. PlainText(e) = SubSeq(U, 1, C - k) BY <2>2 DEF PlainText
  <2>4. SubSeq(message, L - k + 1, L) = SubSeq(U, C - k + 1, C)
    <3>1. /\ Len(SubSeq(message, L - k + 1, L)) = k /\ Len(SubSeq(U, C - k + 1, C)) = k
          /\ SubSeq(message, L - k + 1, L) \in Seq(Chars)
          /\ SubSeq(U, C - k + 1, C) \in Seq(Decoded(message))
      BY <1>1, <1>2, <1>3, <2>1
    <3>2. ASSUME NEW n \in 1 .. k
          PROVE  SubSeq(message, L - k + 1, L)[n] = SubSeq(U, C - k + 1, C)[n]
      <4>1. SubSeq(message, L - k + 1, L)[n] = message[L - k + n] BY <1>1, <1>3
      <4>2. SubSeq(U, C - k + 1, C)[n] = U[C - k + n] BY <1>2, <1>3, <2>1
      <4> QED BY <2>1, <4>1, <4>2
    <3> DEFINE a == SubSeq(message, L - k + 1, L)
               b == SubSeq(U, C - k + 1, C)
    <3>3. Len(a) = Len(b) /\ a \in Seq(Chars) /\ b \in Seq(Decoded(message)) BY <3>1
    <3>4. \A n \in 1 .. Len(a) : a[n] = b[n] BY <3>1, <3>2
    <3> HIDE DEF a, b
    <3>5. a = b BY <3>3, <3>4, SameElements
    <3> QED BY <3>5 DEF a, b
  <2>5. U = SubSeq(U, 1, C - k) \o SubSeq(U, C - k + 1, C)
    <3>1. C - k \in 0 .. Len(U) BY <1>2, <1>3, <2>1
    <3> QED BY <1>2, <3>1, CutInTwo
  <2> QED BY <1>5, <2>3, <2>4, <2>5 DEF Remains
<1> QED BY <1>4, <1>5 DEF Directions

\* ... and when none is
LEMMA NothingCut ==
    ASSUME NEW d, d # "suffix", NEW e, e.text = event.text, e.size = 0,
           event.text \in Seq(Chars)
    PROVE  Remains(PlainText(e), d, 0)
<1> DEFINE U == Unescape(event.text)
<1>1. U \in Seq(Decoded(event.text)) /\ Len(U) \in Nat BY UnescapeTyped
<1>2. PlainText(e) = SubSeq(U, 0 + 1, Len(U)) BY DEF PlainText
<1>3. SubSeq(U, 0 + 1, Len(U)) = U BY <1>1
<1>4. SubSeq(event.text, 1, 0) \o U = U BY <1>1
<1> QED BY <1>2, <1>3, <1>4 DEF Remains

\* The search of a trie has found the longest command.
Settled(d) == Longest(d) \in {0} \cup {Len(Path(c)) : c \in Fitting(d)}

LEMMA SearchSettles ==
    ASSUME IInv, NEW d \in Directions, phase = d, ~CanDescend(d)
    PROVE  Longest(d) = pre /\ Settled(d)
<1> DEFINE S == {0} \cup {Len(Path(c)) : c \in Fitting(d)}
<1>1. /\ \A c \in Fitting(d) : Len(Path(c)) <= pre
      /\ pre > 0 => \E b \in Fitting(d) : Len(Path(b)) = pre
  BY IInvLongest DEF LongestMatch
<1>2. \A c \in Fitting(d) : Len(Path(c)) \in Nat
  BY PathTyped, CommandsAssumption DEF Fitting, IInv, Typed
<1>3. pre \in Nat BY DEF IInv, Typed
<1>4. pre \in S BY <1>1, <1>3
<1>5. \A n \in S : (\A c \in Fitting(d) : Len(Path(c)) <= n) => n = pre
  BY <1>1, <1>2, <1>3
<1> QED BY <1>1, <1>4, <1>5 DEF Longest, Settled

\* What the event's size is at each turn of the handler.
SizeInv ==
    /\ phase \in {"message", "full", "prefix"} => event.size = 0
    /\ phase \in {"suffix", "regex", "all"} => Settled("prefix")
    /\ phase = "suffix" => event.size = Longest("prefix")
    /\ phase \in {"regex", "all"} =>
          /\ Settled("suffix")
          /\ event.size = IF Longest("suffix") > 0 THEN -Longest("suffix")
                                                   ELSE Longest("prefix")

\* The text is what the command c is to be given.
Own(c, text) ==
    LET how == Commands[c].how
        key == Len(Path(c))
        last == IF Longest("suffix") > 0 THEN "suffix" ELSE "prefix"
    IN  /\ how = "full" => Path(c) = event.text /\ Remains(text, how, 0)
        /\ how \in Directions => c \in Fitting(how) /\ Remains(text, how, key)
        /\ how \in {"regex", "all"} => Remains(text, last, Longest(last))

\* The size in the event is set by the search of a trie only, and what was started for
\* the message took its own part of it.
TextInv ==
    /\ SizeInv
    /\ phase \in {"message", "full"} \/ registered # Len(Commands) => ran = {}
    /\ phase # "idle" => /\ {"text", "size"} \subseteq DOMAIN event
                         /\ event.text \in Seq(Chars)
    /\ \A r \in ran : message = event.text => Own(r.command, r.text)

LEMMA SameFitting ==
    ASSUME UNCHANGED <<message, registered>>
    PROVE  /\ \A d : Fitting(d)' = Fitting(d) /\ Longest(d)' = Longest(d)
           /\ \A d : Settled(d)' = Settled(d)
<1>1. \A d : Fitting(d)' = Fitting(d) BY DEF Fitting, Path, Reading, StartsWith
<1>2. \A c : Path(c)' = Path(c) BY DEF Path
<1>3. ASSUME NEW d PROVE Longest(d)' = Longest(d)
  <2>1. Fitting(d)' = Fitting(d) BY <1>1
  <2> QED BY <1>2, <2>1 DEF Longest
<1> QED BY <1>1, <1>2, <1>3 DEF Settled

LEMMA SameOwn ==
    ASSUME UNCHANGED <<message, registered>>, event'.text = event.text,
           NEW c, NEW text, Own(c, text)
    PROVE  Own(c, text)'
<1>1. Path(c)' = Path(c) BY DEF Path
<1>2. \A d, n : Remains(text, d, n)' = Remains(text, d, n) BY DEF Remains
<1>3. \A d : Fitting(d)' = Fitting(d) /\ Longest(d)' = Longest(d) BY SameFitting
<1> QED BY <1>1, <1>2, <1>3 DEF Own

\* A step that starts nothing and leaves the message alone
LEMMA NothingRuns ==
    ASSUME TextInv, UNCHANGED <<message, ran, registered>>, event'.text = event.text,
           phase' = phase \/ phase' \notin {"message", "full"} \/ phase = "message",
           phase' # "idle" =>
              {"text", "size"} \subseteq DOMAIN event' /\ event'.text \in Seq(Chars),
           SizeInv'
    PROVE  TextInv'
BY SameOwn DEF TextInv

\* ... and one that leaves the size alone, too
LEMMA NothingHappens ==
    ASSUME TextInv, UNCHANGED <<message, ran, registered, event>>,
           phase' = phase \/ phase' = "idle" \/ (phase = "message" /\ phase' = "full")
    PROVE  TextInv'
<1>1. SizeInv' BY SameFitting DEF TextInv, SizeInv
<1> QED BY <1>1, NothingRuns DEF TextInv

\* A step that starts the services of some commands
LEMMA SomeRun ==
    ASSUME TextInv, NEW commands, NEW e, Run(commands, e),
           \A c \in commands : message = event.text => Own(c, PlainText(e)),
           UNCHANGED <<message, registered>>, event'.text = event.text,
           phase' \notin {"message", "full"}, registered = Len(Commands),
           phase' # "idle" =>
              {"text", "size"} \subseteq DOMAIN event' /\ event'.text \in Seq(Chars),
           SizeInv'
    PROVE  TextInv'
<1>1. \A r \in ran' : r \in ran \/ \E c \in commands : r.command = c /\ r.text = PlainText(e)
  BY DEF Run
<1>2. \A r \in ran' : message = event.text => Own(r.command, r.text)
  BY <1>1 DEF TextInv
<1>3. \A r \in ran' : message' = event'.text => Own(r.command, r.text)'
  BY <1>2, SameOwn
<1> QED BY <1>3 DEF TextInv

\* The service of the map takes the whole message.
LEMMA FullMatchText == Typed /\ TextInv /\ FullMatch => TextInv'
<1> SUFFICES ASSUME Typed, TextInv, FullMatch PROVE TextInv' OBVIOUS
<1> DEFINE c == CommandAt("full", message)
<1>1. /\ UNCHANGED <<tables, event, message, registered>> /\ phase = "full"
      /\ phase' = "prefix" /\ registered = Len(Commands)
  BY DEF FullMatch, tables, Typed
<1>2. /\ event.size = 0 /\ event.text \in Seq(Chars) /\ {"text", "size"} \subseteq DOMAIN event
  BY <1>1 DEF TextInv, SizeInv
<1>3. SizeInv' BY <1>1, <1>2 DEF SizeInv
<1>4. CASE HasService("full", message) /\ Run({c}, event)
  <2>1. Commands[c].how = "full" /\ Path(c) = message
    <3>1. \E k \in kept : Commands[k].how = "full" /\ Path(k) = message
      BY <1>4 DEF HasService
    <3> QED BY <3>1 DEF CommandAt
  <2>2. Remains(PlainText(event), "full", 0) BY <1>2, NothingCut
  <2>3. message = event.text => Own(c, PlainText(event))
    BY <2>1, <2>2 DEF Own, Directions
  <2> QED BY <1>1, <1>2, <1>3, <1>4, <2>3, SomeRun
<1>5. CASE UNCHANGED ran BY <1>1, <1>2, <1>3, <1>5, NothingRuns
<1> QED BY <1>4, <1>5 DEF FullMatch

\* The service of a trie takes the message without its command: the longest one.
LEMMA SearchEndsText ==
    ASSUME IInv, TextInv, NEW d \in Directions, SearchEnds(d)
    PROVE  TextInv'
<1> DEFINE R == Reading(d, message)
           c == CommandAt(d, SubSeq(R, 1, pre))
           e == [event EXCEPT !.size = Size(d, pre)]
<1>1. /\ UNCHANGED <<tables, message, registered>> /\ phase = d /\ ~CanDescend(d)
      /\ phase' = (IF d = "prefix" THEN "suffix" ELSE "regex")
      /\ registered = Len(Commands) /\ pre \in Nat
  BY DEF SearchEnds, tables, IInv, Typed, Directions
<1>2. event.text \in Seq(Chars) /\ {"text", "size"} \subseteq DOMAIN event
  BY <1>1 DEF TextInv, Directions
<1>3. Longest(d) = pre /\ Settled(d) BY <1>1, SearchSettles
<1>4. \A k : Longest(k)' = Longest(k) /\ Settled(k)' = Settled(k) BY <1>1, SameFitting
<1>5. event'.text = event.text /\ DOMAIN event' = DOMAIN event
      /\ event'.size = IF pre = 0 THEN event.size ELSE Size(d, pre)
  BY <1>2 DEF SearchEnds
<1>6. SizeInv'
  <2>1. CASE d = "prefix"
    <3>1. event.size = 0 /\ phase' = "suffix" BY <1>1, <2>1 DEF TextInv, SizeInv
    <3>2. event'.size = pre BY <1>5, <2>1, <3>1 DEF Size
    <3> QED BY <1>3, <1>4, <2>1, <3>1, <3>2 DEF SizeInv
  <2>2. CASE d = "suffix"
    <3>1. /\ event.size = Longest("prefix") /\ Settled("prefix") /\ phase' = "regex"
      BY <1>1, <2>2 DEF TextInv, SizeInv
    <3>2. CASE pre = 0 BY <1>3, <1>4, <1>5, <2>2, <3>1, <3>2 DEF SizeInv
    <3>3. CASE pre # 0
      <4>1. event'.size = -pre /\ pre > 0 BY <1>1, <1>5, <2>2, <3>3 DEF Size
      <4> QED BY <1>3, <1>4, <2>2, <3>1, <4>1 DEF SizeInv
    <3> QED BY <3>2, <3>3
  <2> QED BY <2>1, <2>2 DEF Directions
<1>7. phase' \notin {"message", "full"} BY <1>1
<1>8. CASE UNCHANGED ran BY <1>1, <1>2, <1>5, <1>6, <1>7, <1>8, NothingRuns
<1>9. CASE pre # 0 /\ Run({c}, e)
  <2>1. e.text = event.text /\ e.size = Size(d, pre) BY <1>2
  <2>2. PICK b \in kept \cap Fitting(d) : Len(Path(b)) = pre
    BY <1>1, <1>9 DEF IInv, SearchInv
  <2>3. Path(b) = SubSeq(R, 1, pre) /\ Commands[b].how = d
    BY <2>2 DEF Fitting, StartsWith
  <2>4. c \in kept /\ Commands[c].how = d /\ Path(c) = Path(b)
    <3>1. \E k \in kept : Commands[k].how = d /\ Path(k) = SubSeq(R, 1, pre)
      BY <2>2, <2>3
    <3> QED BY <2>3, <3>1 DEF CommandAt
  <2>5. c \in Fitting(d) /\ Len(Path(c)) = pre
    BY <2>2, <2>4 DEF Fitting, IInv, Typed
  <2>6. message = event.text => Remains(PlainText(e), d, Len(Path(c)))
    BY <2>1, <2>5, CommandCut DEF IInv
  <2>7. message = event.text => Own(c, PlainText(e))
    BY <2>4, <2>5, <2>6 DEF Own, Directions
  <2> QED BY <1>1, <1>2, <1>5, <1>6, <1>7, <1>9, <2>7, SomeRun
<1> QED BY <1>8, <1>9 DEF SearchEnds

\* The services of patterns and of all messages get what the searches have left.
LEMMA ListedText ==
    ASSUME Typed, TextInv, phase \in {"regex", "all"}, message = event.text,
           NEW c, Commands[c].how \in {"regex", "all"}
    PROVE  Own(c, PlainText(event))
<1> DEFINE last == IF Longest("suffix") > 0 THEN "suffix" ELSE "prefix"
<1>1. Remains(PlainText(event), last, Longest(last))
  <2>1. /\ Settled("prefix") /\ Settled("suffix") /\ event.text \in Seq(Chars)
        /\ event.size = IF Longest("suffix") > 0 THEN -Longest("suffix")
                                                 ELSE Longest("prefix")
    BY DEF TextInv, SizeInv
  <2>2. event.size = Size(last, Longest(last)) BY <2>1 DEF Size
  <2>3. last \in Directions /\ Settled(last) BY <2>1 DEF Directions
  <2>4. CASE Longest(last) = 0
    <3>1. last = "prefix" /\ event.size = 0 BY <2>1, <2>4
    <3> QED BY <2>1, <2>4, <3>1, NothingCut
  <2>5. CASE Longest(last) # 0
    <3>1. PICK k \in Fitting(last) : Len(Path(k)) = Longest(last)
      BY <2>3, <2>5 DEF Settled
    <3> QED BY <2>2, <2>3, <3>1, CommandCut
  <2> QED BY <2>4, <2>5
<1> QED BY <1>1 DEF Own, Directions

LEMMA NextTextInv == IInv /\ TextInv /\ [DispatchNext]_dispatchVars => TextInv'
<1> SUFFICES ASSUME IInv, TextInv, [DispatchNext]_dispatchVars PROVE TextInv' OBVIOUS
<1>0. /\ Typed /\ registered \in Nat /\ phase \in Phases
      /\ phase # "idle" => /\ registered = Len(Commands) /\ event.text \in Seq(Chars)
                           /\ {"text", "size"} \subseteq DOMAIN event
  BY DEF IInv, Typed, TextInv
<1>1. CASE UNCHANGED dispatchVars
  BY <1>1, NothingHappens DEF dispatchVars, tables
<1>2. CASE Register
  <2>1. /\ UNCHANGED <<phase, event, ran>> /\ registered < Len(Commands)
    BY <1>2 DEF Register
  <2>2. phase = "idle" /\ ran = {} BY <1>0, <2>1, CommandsAssumption DEF TextInv
  <2> QED BY <2>1, <2>2 DEF TextInv, SizeInv
<1>3. CASE Receive
  <2>1. PICK e \in Events :
           event' = [post |-> e.post, group |-> e.group, sender |-> e.sender, to |-> e.to,
                     text |-> e.text, sub |-> e.sub, to_me |-> FALSE, size |-> 0]
    BY <1>3 DEF Receive
  <2>2. event'.text = e.text /\ event'.size = 0 /\ {"text", "size"} \subseteq DOMAIN event'
    BY <2>1
  <2>3. /\ phase' \in {"message", "notice", "request", "meta", "answer"} /\ ran' = {}
        /\ e.text \in Seq(Chars)
    <3>1. phase' = e.post /\ ran' = {}
      <4>1. PICK f \in Events : /\ phase' = f.post
                               /\ event' = [post |-> f.post, group |-> f.group,
                                    sender |-> f.sender, to |-> f.to, text |-> f.text,
                                    sub |-> f.sub, to_me |-> FALSE, size |-> 0]
        BY <1>3 DEF Receive
      <4>2. event'.post = e.post /\ event'.post = f.post BY <2>1, <4>1
      <4> QED BY <1>3, <4>1, <4>2 DEF Receive
    <3> QED BY <3>1, EventsAssumption
  <2> QED BY <2>2, <2>3 DEF TextInv, SizeInv
<1>4. CASE MetaEvent BY <1>4, NothingHappens DEF MetaEvent, tables
<1>5. ASSUME NEW rest \in Seq(Chars), Strip(rest), phase = "message" PROVE TextInv'
  <2>1. event' = [event EXCEPT !.to_me = TRUE, !.text = rest] /\ ran' = ran
    BY <1>5 DEF Strip
  <2>2. /\ DOMAIN event' = DOMAIN event /\ event'.text = rest /\ event'.size = event.size
    BY <1>0, <1>5, <2>1
  <2>3. phase' = "full" BY <1>5 DEF Strip
  <2> QED BY <1>0, <1>5, <2>1, <2>2, <2>3 DEF TextInv, SizeInv
<1>6. ASSUME Terminate, phase = "message" PROVE TextInv'
  BY <1>6, NothingHappens DEF Terminate, tables
<1>7. CASE AddressByName BY <1>5, <1>7 DEF AddressByName, IInv, Typed
<1>8. CASE AddressByCode
  <2>1. ASSUME NEW i \in Words(message), Strip(SubSeq(message, i, Len(message)))
        PROVE  TextInv'
    <3>1. SubSeq(message, i, Len(message)) \in Seq(Chars) BY <1>0 DEF Words, Typed
    <3> QED BY <1>5, <1>8, <2>1, <3>1 DEF AddressByCode
  <2> QED BY <1>6, <1>8, <2>1 DEF AddressByCode
<1>9. CASE NotAddressed BY <1>9, NothingHappens DEF NotAddressed, tables
<1>10. CASE FullMatch BY <1>0, <1>10, FullMatchText
\* The other lists are not of commands that take a part of the message.
<1>11. ASSUME NEW commands, Run(commands, event),
              \A c \in commands : message = event.text => Own(c, PlainText(event)),
              UNCHANGED <<message, registered, event>>, phase # "idle",
              phase' = "idle" \/ (phase = "regex" /\ phase' = "all")
       PROVE  TextInv'
  <2>1. SizeInv' BY <1>11, SameFitting DEF TextInv, SizeInv
  <2> QED BY <1>0, <1>11, <2>1, SomeRun
<1>12. CASE RegexMatch
  <2> DEFINE some == {c \in Listed("regex") : message \in Matches[Commands[c].service] /\ Permitted(c)}
  <2>1. /\ UNCHANGED <<message, registered, event>> /\ phase = "regex" /\ phase' = "all"
        /\ Run(some, event)
    BY <1>12 DEF RegexMatch, tables
  <2>2. \A c \in some : message = event.text => Own(c, PlainText(event))
    BY <1>0, <2>1, ListedText DEF Listed
  <2> QED BY <1>11, <2>1, <2>2
<1>13. CASE AllMessages
  <2> DEFINE some == {c \in Listed("all") : Permitted(c)}
  <2>1. /\ UNCHANGED <<message, registered, event>> /\ phase = "all" /\ phase' = "idle"
        /\ Run(some, event)
    BY <1>13 DEF AllMessages, tables
  <2>2. \A c \in some : message = event.text => Own(c, PlainText(event))
    BY <1>0, <2>1, ListedText DEF Listed
  <2> QED BY <1>11, <2>1, <2>2
<1>14. CASE NoticeEvent
  <2> DEFINE some == {c \in Listed("notice") : /\ Commands[c].key \in {event.sub, <<>>}
                                              /\ Listening(c)}
  <2>1. /\ UNCHANGED <<message, registered, event>> /\ phase = "notice" /\ phase' = "idle"
        /\ Run(some, event)
    BY <1>14 DEF NoticeEvent, tables
  <2>2. \A c \in some : Own(c, PlainText(event)) BY DEF Listed, Own, Directions
  <2> QED BY <1>11, <2>1, <2>2
<1>15. CASE RequestEvent
  <2> DEFINE some == {c \in Listed("request") : Commands[c].key = event.sub /\ Listening(c)}
  <2>1. /\ UNCHANGED <<message, registered, event>> /\ phase = "request" /\ phase' = "idle"
        /\ Run(some, event)
    BY <1>15 DEF RequestEvent, tables
  <2>2. \A c \in some : Own(c, PlainText(event)) BY DEF Listed, Own, Directions
  <2> QED BY <1>11, <2>1, <2>2
<1>16. CASE SwitchService BY <1>16, NothingHappens DEF SwitchService, tables
<1>17. ASSUME NEW d \in Directions, Descend(d) PROVE TextInv'
  BY <1>17, NothingHappens DEF Descend, tables
<1>18. ASSUME NEW d \in Directions, SearchEnds(d) PROVE TextInv' BY <1>18, SearchEndsText
<1> QED BY <1>1, <1>2, <1>3, <1>4, <1>7, <1>8, <1>9, <1>10, <1>12, <1>13, <1>14, <1>15,
           <1>16, <1>17, <1>18 DEF DispatchNext

\* A service that is started for its command takes the message without exactly that
\* command, for every table of commands without parts of entities and every message,
\* although both tries and the lists read one size and ExtraPlainText decodes entities
\* before it cuts; the services of patterns and of all messages get what the searches
\* of the tries have left.
THEOREM OwnCommandTextHolds == DispatchSpec => []OwnCommandText
<1>1. DispatchInit => TextInv
  <2> SUFFICES ASSUME DispatchInit PROVE TextInv OBVIOUS
  <2>1. phase = "idle" /\ ran = {} BY DEF DispatchInit
  <2> QED BY <2>1 DEF TextInv, SizeInv
<1>2. TextInv => OwnCommandText BY DEF TextInv, Own, OwnCommandText
<1> QED BY <1>1, <1>2, InitIInv, NextIInv, NextTextInv, PTL DEF DispatchSpec
=============================================================================
