------------------------ MODULE CallsAndPoolProofs ------------------------
(***************************************************************************)
(* Proofs about EchoCall, for every set of calls and codes and every       *)
(* choice of Races, and about ConnPool, for every number of connections,   *)
(* borrowers and addresses.  IInv and PoolIInv are the inductive           *)
(* invariants; the properties the runs check follow from them.             *)
(***************************************************************************)
EXTENDS EchoCall, ConnPool, FiniteSetTheorems, TLAPS

-----------------------------------------------------------------------------
(***************************************************************************)
(* EchoCall                                                                *)
(***************************************************************************)
\* The reader holds a target, and the reader has found an entry.
Holding == {"called", "store", "value_only", "complete_only", "signal"}
HasFound == Holding \cup {"counted", "erase"}

\* A call has a code once it registered, and is answered only after it sent.
CodeInv ==
    \A c \in Calls :
        /\ pc[c] = "idle" <=> code[c] = Null
        /\ rd[c] = "unsent" <=> pc[c] \in {"idle", "registered"}

\* An echo function is stored under the code of the call it captured.
EntryInv ==
    \A k \in Codes : echo_function[k] # Null => code[echo_function[k]] = k

\* Nobody else removes the entry of a call whose code is its own.
PresentInv ==
    \A c \in Calls : ~SharedCode(c) =>
        /\ rd[c] \in HasFound => echo_function[code[c]] = c
        /\ pc[c] # "idle" /\ rd[c] # "done" =>
              echo_function[code[c]] = c \/ "erase" \in Races

\* A reader fulfils the promise of a call with the code it was sent.
TargetInv ==
    \A c \in Calls : rd[c] \in Holding =>
        target[c] \in Calls /\ code[target[c]] = code[c]

\* v, when it is a call, was answered and has the code of c.
AnswerTo(c, v) ==
    v \in Calls => /\ code[v] = code[c] /\ code[c] # Null
                   /\ rd[v] \notin {"unsent", "requested"}

ValueInv == \A c \in Calls : AnswerTo(c, value[c]) /\ AnswerTo(c, result[c])

\* The value is written before the promise is complete, and the promise is
\* complete before its event is signaled.
CompleteInv ==
    \A c \in Calls :
        /\ is_complete[c] /\ value[c] = Garbage => "stores" \in Races
        /\ result[c] = Garbage => "stores" \in Races
        /\ rd[c] = "value_only" => value[target[c]] # Garbage
        /\ rd[c] \in {"complete_only", "signal"} => is_complete[target[c]]
        /\ signaled[c] => is_complete[c]
        /\ pc[c] = "ready" => is_complete[c]

DistinctCodes == "collision" \notin Races => \A c \in Calls : ~SharedCode(c)

IInv ==
    /\ TypeOK /\ CodeInv /\ EntryInv /\ PresentInv /\ NoStaleEntry
    /\ TargetInv /\ ValueInv /\ CompleteInv /\ DistinctCodes
    /\ TerminatesOnlyOnCollision

LEMMA InitIInv == Init => IInv
<1> SUFFICES ASSUME Init PROVE IInv OBVIOUS
<1> USE RacesAssumption, NullAssumption, ValueAssumption DEF Init
<1>1. TypeOK BY DEF TypeOK, CallerSteps, ReaderSteps, Answers
<1>2. \A c \in Calls : ~SharedCode(c) BY DEF SharedCode
<1>3. CodeInv /\ EntryInv BY DEF CodeInv, EntryInv
<1>4. PresentInv /\ NoStaleEntry BY DEF PresentInv, NoStaleEntry, HasFound, Holding
<1>5. TargetInv /\ ValueInv
  BY DEF TargetInv, ValueInv, AnswerTo, Holding
<1>6. CompleteInv BY DEF CompleteInv
<1>7. DistinctCodes /\ TerminatesOnlyOnCollision
  BY <1>2 DEF DistinctCodes, TerminatesOnlyOnCollision
<1> QED BY <1>1, <1>3, <1>4, <1>5, <1>6, <1>7 DEF IInv

\* Every step keeps the types; at() looks up a code that is not Null.
LEMMA TypeStep == TypeOK /\ CodeInv /\ [Next]_vars => TypeOK'
<1> SUFFICES ASSUME TypeOK, CodeInv, [Next]_vars PROVE TypeOK' OBVIOUS
<1> USE DEF TypeOK, CallerSteps, ReaderSteps, Answers, caller, reader, state
<1>1. CASE UNCHANGED vars BY <1>1 DEF vars
<1>2. ASSUME NEW c \in Calls, Step(c) PROVE TypeOK'
  <2>1. CASE Register(c) BY <2>1 DEF Register
  <2>2. CASE Send(c) BY <2>2 DEF Send
  <2>3. CASE Discard(c) BY <2>3 DEF Discard
  <2>4. CASE WaitFor(c) BY <2>4 DEF WaitFor
  <2>5. CASE Wake(c) BY <2>5 DEF Wake
  <2>6. CASE Timeout(c) BY <2>6 DEF Timeout
  <2>7. CASE Get(c) BY <2>7 DEF Get
  <2>8. CASE Release(c) BY <2>8 DEF Release
  <2>9. CASE Answer(c) BY <2>9 DEF Answer
  <2>10. CASE Count(c) BY <2>10 DEF Count
  <2>11. CASE At(c)
    <3>1. code[c] \in Codes BY <2>11 DEF At, CodeInv
    <3> QED BY <2>11, <3>1 DEF At
  <2>12. CASE LockPromise(c) BY <2>12 DEF LockPromise
  <2>13. CASE StoreValue(c) BY <2>13, ValueAssumption DEF StoreValue, Fulfilment
  <2>14. CASE StoreComplete(c) BY <2>14 DEF StoreComplete
  <2>15. CASE Signal(c) BY <2>15 DEF Signal
  <2>16. CASE Erase(c) BY <2>16 DEF Erase
  <2> QED BY <1>2, <2>1, <2>2, <2>3, <2>4, <2>5, <2>6, <2>7, <2>8, <2>9, <2>10,
     <2>11, <2>12, <2>13, <2>14, <2>15, <2>16 DEF Step, Caller, Reader
<1> QED BY <1>1, <1>2 DEF Next

\* Codes are drawn once, and requests are sent once.
LEMMA CodeStep == TypeOK /\ CodeInv /\ [Next]_vars => CodeInv'
<1> SUFFICES ASSUME TypeOK, CodeInv, [Next]_vars PROVE CodeInv' OBVIOUS
<1> USE NullAssumption DEF TypeOK, CodeInv, CallerSteps, ReaderSteps, caller, reader, state
<1>1. CASE UNCHANGED vars BY <1>1 DEF vars
<1>2. ASSUME NEW c \in Calls, Step(c) PROVE CodeInv'
  <2>1. CASE Register(c) BY <2>1 DEF Register
  <2>2. CASE Send(c) BY <2>2 DEF Send, CodeInv
  <2>3. CASE Discard(c) BY <2>3 DEF Discard
  <2>4. CASE WaitFor(c) BY <2>4 DEF WaitFor
  <2>5. CASE Wake(c) BY <2>5 DEF Wake
  <2>6. CASE Timeout(c) BY <2>6 DEF Timeout
  <2>7. CASE Get(c) BY <2>7 DEF Get
  <2>8. CASE Release(c) BY <2>8 DEF Release
  <2>9. CASE Answer(c) BY <2>9 DEF Answer
  <2>10. CASE Count(c) BY <2>10 DEF Count
  <2>11. CASE At(c) BY <2>11 DEF At
  <2>12. CASE LockPromise(c) BY <2>12 DEF LockPromise
  <2>13. CASE StoreValue(c) BY <2>13 DEF StoreValue
  <2>14. CASE StoreComplete(c) BY <2>14 DEF StoreComplete
  <2>15. CASE Signal(c) BY <2>15 DEF Signal
  <2>16. CASE Erase(c) BY <2>16 DEF Erase
  <2> QED BY <1>2, <2>1, <2>2, <2>3, <2>4, <2>5, <2>6, <2>7, <2>8, <2>9, <2>10,
     <2>11, <2>12, <2>13, <2>14, <2>15, <2>16 DEF Step, Caller, Reader
<1> QED BY <1>1, <1>2 DEF Next

\* An entry stays under the code of its call.
LEMMA EntryStep == TypeOK /\ CodeInv /\ EntryInv /\ [Next]_vars => EntryInv'
<1> SUFFICES ASSUME TypeOK, CodeInv, EntryInv, [Next]_vars PROVE EntryInv' OBVIOUS
<1> USE NullAssumption DEF TypeOK, CodeInv, EntryInv, caller, reader, state
<1>1. CASE UNCHANGED vars BY <1>1 DEF vars
<1>2. ASSUME NEW c \in Calls, Step(c) PROVE EntryInv'
  <2>1. CASE Register(c) BY <2>1 DEF Register
  <2>2. CASE Send(c) BY <2>2 DEF Send, CodeInv
  <2>3. CASE Discard(c) BY <2>3 DEF Discard
  <2>4. CASE WaitFor(c) BY <2>4 DEF WaitFor
  <2>5. CASE Wake(c) BY <2>5 DEF Wake
  <2>6. CASE Timeout(c) BY <2>6 DEF Timeout
  <2>7. CASE Get(c) BY <2>7 DEF Get
  <2>8. CASE Release(c) BY <2>8 DEF Release
  <2>9. CASE Answer(c) BY <2>9 DEF Answer
  <2>10. CASE Count(c) BY <2>10 DEF Count
  <2>11. CASE At(c) BY <2>11 DEF At
  <2>12. CASE LockPromise(c) BY <2>12 DEF LockPromise
  <2>13. CASE StoreValue(c) BY <2>13 DEF StoreValue
  <2>14. CASE StoreComplete(c) BY <2>14 DEF StoreComplete
  <2>15. CASE Signal(c) BY <2>15 DEF Signal
  <2>16. CASE Erase(c) BY <2>16 DEF Erase
  <2> QED BY <1>2, <2>1, <2>2, <2>3, <2>4, <2>5, <2>6, <2>7, <2>8, <2>9, <2>10,
     <2>11, <2>12, <2>13, <2>14, <2>15, <2>16 DEF Step, Caller, Reader
<1> QED BY <1>1, <1>2 DEF Next

\* What at() finds has the code it was looked up with.
LEMMA TargetStep == TypeOK /\ CodeInv /\ EntryInv /\ TargetInv /\ [Next]_vars => TargetInv'
<1> SUFFICES ASSUME TypeOK, CodeInv, EntryInv, TargetInv, [Next]_vars PROVE TargetInv' OBVIOUS
<1> USE NullAssumption DEF TypeOK, CodeInv, EntryInv, TargetInv, Holding, ReaderSteps, caller, reader, state
<1>1. CASE UNCHANGED vars BY <1>1 DEF vars
<1>2. ASSUME NEW c \in Calls, Step(c) PROVE TargetInv'
  <2>1. CASE Register(c) BY <2>1 DEF Register
  <2>2. CASE Send(c) BY <2>2 DEF Send, CodeInv
  <2>3. CASE Discard(c) BY <2>3 DEF Discard
  <2>4. CASE WaitFor(c) BY <2>4 DEF WaitFor
  <2>5. CASE Wake(c) BY <2>5 DEF Wake
  <2>6. CASE Timeout(c) BY <2>6 DEF Timeout
  <2>7. CASE Get(c) BY <2>7 DEF Get
  <2>8. CASE Release(c) BY <2>8 DEF Release
  <2>9. CASE Answer(c) BY <2>9 DEF Answer
  <2>10. CASE Count(c) BY <2>10 DEF Count
  <2>11. CASE At(c) BY <2>11 DEF At
  <2>12. CASE LockPromise(c) BY <2>12 DEF LockPromise
  <2>13. CASE StoreValue(c) BY <2>13 DEF StoreValue
  <2>14. CASE StoreComplete(c) BY <2>14 DEF StoreComplete
  <2>15. CASE Signal(c) BY <2>15 DEF Signal
  <2>16. CASE Erase(c) BY <2>16 DEF Erase
  <2> QED BY <1>2, <2>1, <2>2, <2>3, <2>4, <2>5, <2>6, <2>7, <2>8, <2>9, <2>10,
     <2>11, <2>12, <2>13, <2>14, <2>15, <2>16 DEF Step, Caller, Reader
<1> QED BY <1>1, <1>2 DEF Next

\* Only the answer to a call erases the call's echo function.
LEMMA PresentStep == TypeOK /\ CodeInv /\ EntryInv /\ PresentInv /\ [Next]_vars => PresentInv'
<1> SUFFICES ASSUME TypeOK, CodeInv, EntryInv, PresentInv, [Next]_vars PROVE PresentInv' OBVIOUS
<1> USE NullAssumption DEF TypeOK, CodeInv, EntryInv, PresentInv, Holding, HasFound, SharedCode, ReaderSteps, caller, reader, state
<1>1. CASE UNCHANGED vars BY <1>1 DEF vars
<1>2. ASSUME NEW c \in Calls, Step(c) PROVE PresentInv'
  <2>1. CASE Register(c) BY <2>1 DEF Register
  <2>2. CASE Send(c) BY <2>2 DEF Send, CodeInv
  <2>3. CASE Discard(c) BY <2>3 DEF Discard
  <2>4. CASE WaitFor(c) BY <2>4 DEF WaitFor
  <2>5. CASE Wake(c) BY <2>5 DEF Wake
  <2>6. CASE Timeout(c) BY <2>6 DEF Timeout
  <2>7. CASE Get(c) BY <2>7 DEF Get
  <2>8. CASE Release(c) BY <2>8 DEF Release
  <2>9. CASE Answer(c) BY <2>9 DEF Answer
  <2>10. CASE Count(c) BY <2>10 DEF Count
  <2>11. CASE At(c) BY <2>11 DEF At
  <2>12. CASE LockPromise(c) BY <2>12 DEF LockPromise
  <2>13. CASE StoreValue(c) BY <2>13 DEF StoreValue
  <2>14. CASE StoreComplete(c) BY <2>14 DEF StoreComplete
  <2>15. CASE Signal(c) BY <2>15 DEF Signal
  <2>16. CASE Erase(c) BY <2>16 DEF Erase
  <2> QED BY <1>2, <2>1, <2>2, <2>3, <2>4, <2>5, <2>6, <2>7, <2>8, <2>9, <2>10,
     <2>11, <2>12, <2>13, <2>14, <2>15, <2>16 DEF Step, Caller, Reader
<1> QED BY <1>1, <1>2 DEF Next

\* The answer of a call leaves nothing behind.
LEMMA StaleStep == TypeOK /\ CodeInv /\ EntryInv /\ NoStaleEntry /\ [Next]_vars => NoStaleEntry'
<1> SUFFICES ASSUME TypeOK, CodeInv, EntryInv, NoStaleEntry, [Next]_vars PROVE NoStaleEntry' OBVIOUS
<1> USE NullAssumption DEF TypeOK, CodeInv, EntryInv, NoStaleEntry, SharedCode, ReaderSteps, caller, reader, state
<1>1. CASE UNCHANGED vars BY <1>1 DEF vars
<1>2. ASSUME NEW c \in Calls, Step(c) PROVE NoStaleEntry'
  <2>1. CASE Register(c) BY <2>1 DEF Register
  <2>2. CASE Send(c) BY <2>2 DEF Send, CodeInv
  <2>3. CASE Discard(c) BY <2>3 DEF Discard
  <2>4. CASE WaitFor(c) BY <2>4 DEF WaitFor
  <2>5. CASE Wake(c) BY <2>5 DEF Wake
  <2>6. CASE Timeout(c) BY <2>6 DEF Timeout
  <2>7. CASE Get(c) BY <2>7 DEF Get
  <2>8. CASE Release(c) BY <2>8 DEF Release
  <2>9. CASE Answer(c) BY <2>9 DEF Answer
  <2>10. CASE Count(c) BY <2>10 DEF Count
  <2>11. CASE At(c) BY <2>11 DEF At
  <2>12. CASE LockPromise(c) BY <2>12 DEF LockPromise
  <2>13. CASE StoreValue(c) BY <2>13 DEF StoreValue
  <2>14. CASE StoreComplete(c) BY <2>14 DEF StoreComplete
  <2>15. CASE Signal(c) BY <2>15 DEF Signal
  <2>16. CASE Erase(c) BY <2>16 DEF Erase
  <2> QED BY <1>2, <2>1, <2>2, <2>3, <2>4, <2>5, <2>6, <2>7, <2>8, <2>9, <2>10,
     <2>11, <2>12, <2>13, <2>14, <2>15, <2>16 DEF Step, Caller, Reader
<1> QED BY <1>1, <1>2 DEF Next

\* Only answers looked up with the code of a call reach its result.
LEMMA ValueStep == TypeOK /\ CodeInv /\ TargetInv /\ ValueInv /\ [Next]_vars => ValueInv'
<1> SUFFICES ASSUME TypeOK, CodeInv, TargetInv, ValueInv, [Next]_vars PROVE ValueInv' OBVIOUS
<1> USE NullAssumption, ValueAssumption DEF TypeOK, CodeInv, TargetInv, ValueInv, AnswerTo, Holding, ReaderSteps, caller, reader, state
<1>1. CASE UNCHANGED vars BY <1>1 DEF vars
<1>2. ASSUME NEW c \in Calls, Step(c) PROVE ValueInv'
  <2>1. CASE Register(c) BY <2>1 DEF Register
  <2>2. CASE Send(c) BY <2>2 DEF Send, CodeInv
  <2>3. CASE Discard(c) BY <2>3 DEF Discard
  <2>4. CASE WaitFor(c) BY <2>4 DEF WaitFor
  <2>5. CASE Wake(c) BY <2>5 DEF Wake
  <2>6. CASE Timeout(c) BY <2>6 DEF Timeout
  <2>7. CASE Get(c) BY <2>7 DEF Get
  <2>8. CASE Release(c) BY <2>8 DEF Release
  <2>9. CASE Answer(c) BY <2>9 DEF Answer
  <2>10. CASE Count(c) BY <2>10 DEF Count
  <2>11. CASE At(c) BY <2>11 DEF At
  <2>12. CASE LockPromise(c) BY <2>12 DEF LockPromise
  <2>13. CASE StoreValue(c) BY <2>13 DEF StoreValue, Fulfilment
  <2>14. CASE StoreComplete(c) BY <2>14 DEF StoreComplete
  <2>15. CASE Signal(c) BY <2>15 DEF Signal
  <2>16. CASE Erase(c) BY <2>16 DEF Erase
  <2> QED BY <1>2, <2>1, <2>2, <2>3, <2>4, <2>5, <2>6, <2>7, <2>8, <2>9, <2>10,
     <2>11, <2>12, <2>13, <2>14, <2>15, <2>16 DEF Step, Caller, Reader
<1> QED BY <1>1, <1>2 DEF Next

\* Without reordered stores a complete promise has its value.
LEMMA CompleteStep == TypeOK /\ CodeInv /\ TargetInv /\ CompleteInv /\ [Next]_vars => CompleteInv'
<1> SUFFICES ASSUME TypeOK, CodeInv, TargetInv, CompleteInv, [Next]_vars PROVE CompleteInv' OBVIOUS
<1> USE NullAssumption, ValueAssumption DEF TypeOK, CodeInv, TargetInv, CompleteInv, Holding, ReaderSteps, caller, reader, state
<1>1. CASE UNCHANGED vars BY <1>1 DEF vars
<1>2. ASSUME NEW c \in Calls, Step(c) PROVE CompleteInv'
  <2>1. CASE Register(c) BY <2>1 DEF Register
  <2>2. CASE Send(c) BY <2>2 DEF Send, CodeInv
  <2>3. CASE Discard(c) BY <2>3 DEF Discard
  <2>4. CASE WaitFor(c) BY <2>4 DEF WaitFor
  <2>5. CASE Wake(c) BY <2>5 DEF Wake
  <2>6. CASE Timeout(c) BY <2>6 DEF Timeout
  <2>7. CASE Get(c) BY <2>7 DEF Get
  <2>8. CASE Release(c) BY <2>8 DEF Release
  <2>9. CASE Answer(c) BY <2>9 DEF Answer
  <2>10. CASE Count(c) BY <2>10 DEF Count
  <2>11. CASE At(c) BY <2>11 DEF At
  <2>12. CASE LockPromise(c) BY <2>12 DEF LockPromise
  <2>13. CASE StoreValue(c) BY <2>13 DEF StoreValue, Fulfilment
  <2>14. CASE StoreComplete(c) BY <2>14 DEF StoreComplete
  <2>15. CASE Signal(c) BY <2>15 DEF Signal
  <2>16. CASE Erase(c) BY <2>16 DEF Erase
  <2> QED BY <1>2, <2>1, <2>2, <2>3, <2>4, <2>5, <2>6, <2>7, <2>8, <2>9, <2>10,
     <2>11, <2>12, <2>13, <2>14, <2>15, <2>16 DEF Step, Caller, Reader
<1> QED BY <1>1, <1>2 DEF Next

\* at() throws only for a shared code.
LEMMA TerminateStep == TypeOK /\ CodeInv /\ PresentInv /\ TerminatesOnlyOnCollision /\ [Next]_vars => TerminatesOnlyOnCollision'
<1> SUFFICES ASSUME TypeOK, CodeInv, PresentInv, TerminatesOnlyOnCollision, [Next]_vars PROVE TerminatesOnlyOnCollision' OBVIOUS
<1> USE NullAssumption DEF TypeOK, CodeInv, PresentInv, TerminatesOnlyOnCollision, HasFound, SharedCode, caller, reader, state
<1>1. CASE UNCHANGED vars BY <1>1 DEF vars
<1>2. ASSUME NEW c \in Calls, Step(c) PROVE TerminatesOnlyOnCollision'
  <2>1. CASE Register(c) BY <2>1 DEF Register
  <2>2. CASE Send(c) BY <2>2 DEF Send, CodeInv
  <2>3. CASE Discard(c) BY <2>3 DEF Discard
  <2>4. CASE WaitFor(c) BY <2>4 DEF WaitFor
  <2>5. CASE Wake(c) BY <2>5 DEF Wake
  <2>6. CASE Timeout(c) BY <2>6 DEF Timeout
  <2>7. CASE Get(c) BY <2>7 DEF Get
  <2>8. CASE Release(c) BY <2>8 DEF Release
  <2>9. CASE Answer(c) BY <2>9 DEF Answer
  <2>10. CASE Count(c) BY <2>10 DEF Count
  <2>11. CASE At(c)
    <3>1. code' = code BY <2>11 DEF At
    <3>2. CASE echo_function[code[c]] # Null
      <4>1. terminated' = terminated BY <2>11, <3>2 DEF At
      <4> QED BY <3>1, <4>1
    <3>3. CASE echo_function[code[c]] = Null
      <4>1. rd[c] = "counted" BY <2>11 DEF At
      <4>2. SharedCode(c) BY <3>3, <4>1
      <4> QED BY <3>1, <4>2
    <3> QED BY <3>2, <3>3
  <2>12. CASE LockPromise(c) BY <2>12 DEF LockPromise
  <2>13. CASE StoreValue(c) BY <2>13 DEF StoreValue
  <2>14. CASE StoreComplete(c) BY <2>14 DEF StoreComplete
  <2>15. CASE Signal(c) BY <2>15 DEF Signal
  <2>16. CASE Erase(c) BY <2>16 DEF Erase
  <2> QED BY <1>2, <2>1, <2>2, <2>3, <2>4, <2>5, <2>6, <2>7, <2>8, <2>9, <2>10,
     <2>11, <2>12, <2>13, <2>14, <2>15, <2>16 DEF Step, Caller, Reader
<1> QED BY <1>1, <1>2 DEF Next

\* Without collisions no two calls share a code.
LEMMA DistinctStep == TypeOK /\ CodeInv /\ DistinctCodes /\ [Next]_vars => DistinctCodes'
<1> SUFFICES ASSUME TypeOK, CodeInv, DistinctCodes, [Next]_vars PROVE DistinctCodes' OBVIOUS
<1> USE NullAssumption DEF TypeOK, CodeInv, DistinctCodes, SharedCode, caller, reader, state
<1>1. CASE UNCHANGED vars BY <1>1 DEF vars
<1>2. ASSUME NEW c \in Calls, Step(c) PROVE DistinctCodes'
  <2>1. CASE Register(c) BY <2>1 DEF Register
  <2>2. CASE Send(c) BY <2>2 DEF Send, CodeInv
  <2>3. CASE Discard(c) BY <2>3 DEF Discard
  <2>4. CASE WaitFor(c) BY <2>4 DEF WaitFor
  <2>5. CASE Wake(c) BY <2>5 DEF Wake
  <2>6. CASE Timeout(c) BY <2>6 DEF Timeout
  <2>7. CASE Get(c) BY <2>7 DEF Get
  <2>8. CASE Release(c) BY <2>8 DEF Release
  <2>9. CASE Answer(c) BY <2>9 DEF Answer
  <2>10. CASE Count(c) BY <2>10 DEF Count
  <2>11. CASE At(c) BY <2>11 DEF At
  <2>12. CASE LockPromise(c) BY <2>12 DEF LockPromise
  <2>13. CASE StoreValue(c) BY <2>13 DEF StoreValue
  <2>14. CASE StoreComplete(c) BY <2>14 DEF StoreComplete
  <2>15. CASE Signal(c) BY <2>15 DEF Signal
  <2>16. CASE Erase(c) BY <2>16 DEF Erase
  <2> QED BY <1>2, <2>1, <2>2, <2>3, <2>4, <2>5, <2>6, <2>7, <2>8, <2>9, <2>10,
     <2>11, <2>12, <2>13, <2>14, <2>15, <2>16 DEF Step, Caller, Reader
<1> QED BY <1>1, <1>2 DEF Next

LEMMA NextIInv == IInv /\ [Next]_vars => IInv'
BY TypeStep, CodeStep, EntryStep, PresentStep, StaleStep, TargetStep, ValueStep,
   CompleteStep, DistinctStep, TerminateStep DEF IInv

\* The invariant of EchoCall holds in every reachable state, for any number of
\* calls and codes and for every set of races.
THEOREM Invariance == Spec => []IInv
BY InitIInv, NextIInv, PTL DEF Spec

\* Every variable keeps its type (all of EchoCall's actions).
THEOREM TypeCorrect == Spec => []TypeOK
<1>1. IInv => TypeOK BY DEF IInv
<1> QED BY <1>1, Invariance, PTL

\* get() returns the answer to its own request or the default value, unless the
\* code collided or the stores of set_value were reordered.
THEOREM OwnAnswerHolds == Spec => []OwnAnswer
<1>1. IInv => OwnAnswer
  BY DEF IInv, ValueInv, AnswerTo, CompleteInv, OwnAnswer, SharedCode
<1> QED BY <1>1, Invariance, PTL

\* EventProcess terminates the process only if two calls share an echo code.
THEOREM TerminationNeedsCollision == Spec => []TerminatesOnlyOnCollision
<1>1. IInv => TerminatesOnlyOnCollision BY DEF IInv
<1> QED BY <1>1, Invariance, PTL

\* An answer finds the echo function of its call.
THEOREM NoAnswerMissedHolds == Spec => []NoAnswerMissed
<1>1. IInv => NoAnswerMissed
  <2> SUFFICES ASSUME IInv, NEW c \in Calls, rd[c] \in {"arrived", "counted"},
                      ~SharedCode(c)
               PROVE  echo_function[code[c]] = c \/ "erase" \in Races
    BY DEF NoAnswerMissed
  <2>1. pc[c] # "idle" BY DEF IInv, CodeInv
  <2> QED BY <2>1 DEF IInv, PresentInv
<1> QED BY <1>1, Invariance, PTL

\* An answered call leaves no echo function behind.
THEOREM NoStaleEntryHolds == Spec => []NoStaleEntry
<1>1. IInv => NoStaleEntry BY DEF IInv
<1> QED BY <1>1, Invariance, PTL

\* The second test of is_complete_ in co_future::get never fails.
THEOREM NeverBlockedHolds == Spec => []NeverBlocked
<1>1. IInv => NeverBlocked BY DEF IInv, CompleteInv, NeverBlocked
<1> QED BY <1>1, Invariance, PTL

(***************************************************************************)
(* Refinement: without collisions and reordered stores, EchoCall implements *)
(* the safety part of OneShotCall.                                          *)
(***************************************************************************)
\* With no shared code and no reordering, a written value is the call's own
\* answer, or the default.
LEMMA OwnValue ==
    ASSUME IInv, Races \cap {"collision", "stores"} = {}, NEW c \in Calls,
           is_complete[c]
    PROVE  \/ value[c] = Default
           \/ value[c] = c /\ rd[c] \notin {"unsent", "requested"}
<1>1. ~SharedCode(c) BY DEF IInv, DistinctCodes
<1>2. value[c] # Garbage BY DEF IInv, CompleteInv
<1>3. value[c] \in Calls => value[c] = c /\ rd[c] \notin {"unsent", "requested"}
  BY <1>1 DEF IInv, ValueInv, AnswerTo, SharedCode
<1> QED BY <1>2, <1>3 DEF IInv, TypeOK

LEMMA StepSimulation ==
    ASSUME IInv, [Next]_vars, Races \cap {"collision", "stores"} = {}
    PROVE  [OneShot!Next]_OneShot!avars
<1> USE DEF OneShot!Next, OneShot!avars
<1>1. CASE UNCHANGED vars BY <1>1 DEF vars
<1>2. ASSUME NEW c \in Calls, Step(c) PROVE [OneShot!Next]_OneShot!avars
  <2> USE DEF IInv, TypeOK, caller, reader, state
  <2>1. CASE Register(c)
    <3>1. OneShot!Invoke(c) BY <2>1 DEF Register, OneShot!Invoke
    <3> QED BY <3>1
  <2>2. CASE Send(c) BY <2>2 DEF Send, CodeInv
  <2>3. CASE Discard(c)
    <3>1. OneShot!Forget(c) BY <2>3 DEF Discard, OneShot!Forget
    <3> QED BY <3>1
  <2>4. CASE WaitFor(c) BY <2>4 DEF WaitFor
  <2>5. CASE Wake(c) BY <2>5 DEF Wake
  <2>6. CASE Timeout(c)
    <3>1. OneShot!Return(c) BY <2>6 DEF Timeout, OneShot!Return
    <3> QED BY <3>1
  <2>7. CASE Get(c)
    <3>1. is_complete[c] BY <2>7 DEF Get, CompleteInv
    <3>2. \/ value[c] = Default
          \/ value[c] = c /\ rd[c] \notin {"unsent", "requested"}
      BY <3>1, OwnValue
    <3>3. OneShot!Return(c) BY <2>7, <3>2 DEF Get, OneShot!Return
    <3> QED BY <3>3
  <2>8. CASE Release(c) BY <2>8 DEF Release
  <2>9. CASE Answer(c)
    <3>1. pc[c] # "idle" BY <2>9 DEF Answer, CodeInv
    <3>2. OneShot!Answer(c) BY <2>9, <3>1 DEF Answer, OneShot!Answer
    <3> QED BY <3>2
  <2>10. CASE Count(c) BY <2>10 DEF Count
  <2>11. CASE At(c) BY <2>11 DEF At
  <2>12. CASE LockPromise(c) BY <2>12 DEF LockPromise
  <2>13. CASE StoreValue(c) BY <2>13 DEF StoreValue
  <2>14. CASE StoreComplete(c) BY <2>14 DEF StoreComplete
  <2>15. CASE Signal(c) BY <2>15 DEF Signal
  <2>16. CASE Erase(c) BY <2>16 DEF Erase
  <2> QED BY <1>2, <2>1, <2>2, <2>3, <2>4, <2>5, <2>6, <2>7, <2>8, <2>9, <2>10,
     <2>11, <2>12, <2>13, <2>14, <2>15, <2>16 DEF Step, Caller, Reader
<1> QED BY <1>1, <1>2 DEF Next

\* SendRaw, EventProcess and co_future together are a one-shot call: a call
\* returns at most once, and returns its own answer or the default value.
THEOREM ImplementsOneShotSafe ==
    ASSUME Races \cap {"collision", "stores"} = {}
    PROVE  Spec => OneShot!Safe
<1>1. Init => OneShot!Init
  <2> SUFFICES ASSUME Init PROVE OneShot!Init OBVIOUS
  <2>1. \A c \in Calls : pc[c] = "idle" /\ rd[c] = "unsent" BY DEF Init
  <2>2. result = [c \in Calls |-> Null] BY DEF Init
  <2> QED BY <2>1, <2>2 DEF OneShot!Init
<1>2. IInv /\ [Next]_vars => [OneShot!Next]_OneShot!avars BY StepSimulation
<1> QED BY <1>1, <1>2, Invariance, PTL DEF Spec, OneShot!Safe

-----------------------------------------------------------------------------
(***************************************************************************)
(* ConnPool.  The map is exact until a lookup misses its entry; with it    *)
(* the ids are split between the queue and the borrowers.  Their number    *)
(* stays the same whatever a lookup returns.                               *)
(***************************************************************************)
\* A borrower has an id from pop to push, and a connection while it holds one.
PcInv ==
    \A b \in Borrowers :
        /\ id[b] = None <=> borrowing[b] \in {"idle", "wait"}
        /\ conn[b] = None <=> borrowing[b] # "hold"
        /\ ~Reconnects => borrowing[b] \notin {"erased", "freed", "connected"}

PoolTyped == PoolTypeOK /\ PcInv

\* An id is in the queue or with one borrower.
SplitInv ==
    /\ \A i \in Ids : queue[i] \in {0, 1}
    /\ \A b \in Borrowers : id[b] # None => queue[id[b]] = 0
    /\ \A b, c \in Borrowers : id[b] # None /\ id[b] = id[c] => b = c

Dangling(i) == \E b \in Borrowers : id[b] = i /\ borrowing[b] = "freed"
Unmapped(i) ==
    \E b \in Borrowers : id[b] = i /\ borrowing[b] \in {"erased", "freed", "connected"}

\* The connections of the pool are allocated, each at an address of its own.
PoolInv ==
    /\ \A i \in Ids : ~Dangling(i) => pool[i] \in live
    /\ \A i, j \in Ids :
          ~Dangling(i) /\ ~Dangling(j) /\ pool[i] = pool[j] => i = j

\* The map holds the connections that are not being replaced, and nothing else.
MapInv ==
    /\ \A i \in Ids : ~Unmapped(i) => conn_to_id[pool[i]] = i
    /\ \A a \in Addresses : conn_to_id[a] # None =>
          pool[conn_to_id[a]] = a /\ ~Unmapped(conn_to_id[a])

HoldInv == \A b \in Borrowers : borrowing[b] = "hold" => conn[b] = pool[id[b]]

ExactInv == SplitInv /\ PoolInv /\ MapInv /\ HoldInv

PoolIInv == PoolTyped /\ (~misled => ExactInv)

LEMMA PoolInitIInv == PoolInit => PoolIInv
<1> SUFFICES ASSUME PoolInit PROVE PoolIInv OBVIOUS
<1> USE NoneAssumption DEF PoolInit
<1>1. \A i \in Ids : pool[i] \in live BY DEF PoolInit
<1>2. \A i, j \in Ids : pool[i] = pool[j] => i = j BY DEF IsInjective
<1>3. \A i \in Ids : conn_to_id[pool[i]] = i
  <2> TAKE i \in Ids
  <2>1. conn_to_id[pool[i]] = CHOOSE j \in Ids : pool[j] = pool[i] BY <1>1
  <2>2. \A j \in Ids : pool[j] = pool[i] <=> j = i BY <1>2
  <2> QED BY <2>1, <2>2
<1>4. \A a \in Addresses : conn_to_id[a] # None => \E i \in Ids : a = pool[i]
  OBVIOUS
<1>5. conn_to_id \in [Addresses -> Ids \cup {None}]
  <2>1. \A a \in Addresses : conn_to_id[a] \in Ids \cup {None}
    <3> TAKE a \in Addresses
    <3>1. CASE a \in live
      <4>1. PICK i \in Ids : a = pool[i] BY <3>1
      <4> QED BY <1>3, <4>1
    <3>2. CASE a \notin live BY <3>2
    <3> QED BY <3>1, <3>2
  <2>2. conn_to_id = [a \in Addresses |-> conn_to_id[a]] OBVIOUS
  <2> QED BY <2>1, <2>2
<1>6. PoolTyped
  <2>1. queue \in [Ids -> Nat] /\ pool \in [Ids -> Addresses] OBVIOUS
  <2>2. live \subseteq Addresses /\ err \subseteq Addresses BY <2>1
  <2>3. /\ borrowing \in [Borrowers -> Steps] /\ exited \in BOOLEAN /\ misled \in BOOLEAN
        /\ id \in [Borrowers -> Ids \cup {None}]
        /\ conn \in [Borrowers -> Addresses \cup {None}]
        /\ on \in [Borrowers -> Threads \cup {None}]
    BY DEF Steps
  <2>4. PcInv BY DEF PcInv
  <2> QED BY <1>5, <2>1, <2>2, <2>3, <2>4 DEF PoolTyped, PoolTypeOK
<1>7. \A i \in Ids : ~Dangling(i) /\ ~Unmapped(i) BY DEF Dangling, Unmapped
<1>8. SplitInv /\ HoldInv BY DEF SplitInv, HoldInv
<1>9. PoolInv BY <1>1, <1>2, <1>7 DEF PoolInv
<1>10. MapInv BY <1>3, <1>4, <1>7 DEF MapInv
<1> QED BY <1>6, <1>8, <1>9, <1>10 DEF PoolIInv, ExactInv

\* What a lookup finds has the type of an id.
LEMMA FoundType ==
    PoolTypeOK => \A b \in Borrowers : conn[b] # None => Found(b) \subseteq Ids
BY ZeroAssumption DEF PoolTypeOK, Found, Entry

\* The entry of a connection is the id its borrower took.
LEMMA EntryExact ==
    ASSUME PoolTyped, ExactInv, NEW b \in Borrowers, borrowing[b] = "hold"
    PROVE  /\ conn[b] = pool[id[b]] /\ id[b] \in Ids
           /\ conn_to_id[conn[b]] = id[b]
           /\ Entry(conn[b]) = id[b]
<1> USE NoneAssumption DEF PoolTyped, PoolTypeOK, PcInv, ExactInv
<1>1. conn[b] = pool[id[b]] /\ id[b] \in Ids BY DEF HoldInv
<1>2. ~Unmapped(id[b]) BY <1>1 DEF Unmapped, SplitInv
<1>3. conn_to_id[conn[b]] = id[b] BY <1>1, <1>2 DEF MapInv
<1> QED BY <1>1, <1>3 DEF Entry

\* A lookup that does not miss its entry changes neither the map nor the id.
LEMMA LookUpExact ==
    ASSUME PoolTyped, ExactInv, NEW b \in Borrowers, LookUp(b), ~misled'
    PROVE  id' = id /\ conn_to_id' = conn_to_id
<1>1. borrowing[b] = "hold" BY DEF LookUp, IsAt
<1>2. Entry(conn[b]) = id[b] /\ conn_to_id[conn[b]] = id[b] BY <1>1, EntryExact
<1>3. PICK i \in Found(b) :
          /\ id' = [id EXCEPT ![b] = i]
          /\ conn_to_id' = [conn_to_id EXCEPT ![conn[b]] = i]
          /\ misled' = (misled \/ i # Entry(conn[b]))
  BY DEF LookUp
<1>4. i = id[b] BY <1>2, <1>3
<1> QED BY <1>2, <1>3, <1>4 DEF PoolTyped, PoolTypeOK

\* Every step keeps the types, whatever a lookup finds.
LEMMA PoolTypeStep == PoolTyped /\ [PoolNext]_poolVars => PoolTyped'
<1> SUFFICES ASSUME PoolTyped, [PoolNext]_poolVars PROVE PoolTyped' OBVIOUS
<1> USE NoneAssumption DEF PoolTyped, PoolTypeOK, PcInv, Steps, borrower, IsAt, Goto
<1>1. CASE UNCHANGED poolVars BY <1>1 DEF poolVars
<1>2. ASSUME NEW b \in Borrowers, GetConn(b) \/ Free(b) \/ Break(b) PROVE PoolTyped'
  <2>1. CASE Request(b) BY <2>1 DEF Request
  <2>2. CASE Pop(b) BY <2>2 DEF Pop
  <2>3. CASE Hold(b) BY <2>3 DEF Hold
  <2>4. CASE EraseEntry(b) BY <2>4 DEF EraseEntry
  <2>5. CASE FreeContext(b) BY <2>5 DEF FreeContext
  <2>6. CASE Connect(b) BY <2>6 DEF Connect
  <2>7. CASE ConnectFails(b) BY <2>7 DEF ConnectFails
  <2>8. CASE EmplaceEntry(b) BY <2>8 DEF EmplaceEntry
  <2>9. CASE LookUp(b) BY <2>9, FoundType DEF LookUp
  <2>10. CASE Push(b) BY <2>10 DEF Push
  <2>11. CASE Break(b) BY <2>11 DEF Break
  <2> QED BY <1>2, <2>1, <2>2, <2>3, <2>4, <2>5, <2>6, <2>7,
     <2>8, <2>9, <2>10, <2>11 DEF GetConn, Free
<1> QED BY <1>1, <1>2 DEF PoolNext

\* An id moves from the queue to one borrower and back.
LEMMA SplitStep == PoolTyped /\ ~misled' /\ ExactInv /\ [PoolNext]_poolVars => SplitInv'
<1> SUFFICES ASSUME PoolTyped, ~misled', ExactInv, [PoolNext]_poolVars PROVE SplitInv' OBVIOUS
<1> USE NoneAssumption DEF PoolTyped, PoolTypeOK, PcInv, Steps, ExactInv, SplitInv, PoolInv, MapInv, HoldInv, Dangling, Unmapped, borrower, IsAt, Goto
<1>1. CASE UNCHANGED poolVars BY <1>1 DEF poolVars
<1>2. ASSUME NEW b \in Borrowers, GetConn(b) \/ Free(b) \/ Break(b) PROVE SplitInv'
  <2>1. CASE Request(b) BY <2>1 DEF Request
  <2>2. CASE Pop(b) BY <2>2 DEF Pop
  <2>3. CASE Hold(b) BY <2>3 DEF Hold
  <2>4. CASE EraseEntry(b) BY <2>4 DEF EraseEntry
  <2>5. CASE FreeContext(b) BY <2>5 DEF FreeContext
  <2>6. CASE Connect(b) BY <2>6 DEF Connect
  <2>7. CASE ConnectFails(b) BY <2>7 DEF ConnectFails
  <2>8. CASE EmplaceEntry(b) BY <2>8 DEF EmplaceEntry
  <2>9. CASE LookUp(b)
    <3>1. id' = id /\ conn_to_id' = conn_to_id BY <2>9, LookUpExact
    <3>2. UNCHANGED <<queue, pool, live>> /\ borrowing' = [borrowing EXCEPT ![b] = "found"]
          /\ borrowing[b] = "hold"
      BY <2>9 DEF LookUp
    <3> QED BY <3>1, <3>2
  <2>10. CASE Push(b) BY <2>10 DEF Push
  <2>11. CASE Break(b) BY <2>11 DEF Break
  <2> QED BY <1>2, <2>1, <2>2, <2>3, <2>4, <2>5, <2>6, <2>7,
     <2>8, <2>9, <2>10, <2>11 DEF GetConn, Free
<1> QED BY <1>1, <1>2 DEF PoolNext

\* A new connection gets an address that is not in use.
LEMMA PoolStep == PoolTyped /\ ~misled' /\ ExactInv /\ [PoolNext]_poolVars => PoolInv'
<1> SUFFICES ASSUME PoolTyped, ~misled', ExactInv, [PoolNext]_poolVars PROVE PoolInv' OBVIOUS
<1> USE NoneAssumption DEF PoolTyped, PoolTypeOK, PcInv, Steps, ExactInv, SplitInv, PoolInv, MapInv, HoldInv, Dangling, Unmapped, borrower, IsAt, Goto
<1>1. CASE UNCHANGED poolVars BY <1>1 DEF poolVars
<1>2. ASSUME NEW b \in Borrowers, GetConn(b) \/ Free(b) \/ Break(b) PROVE PoolInv'
  <2>1. CASE Request(b) BY <2>1 DEF Request
  <2>2. CASE Pop(b) BY <2>2 DEF Pop
  <2>3. CASE Hold(b) BY <2>3 DEF Hold
  <2>4. CASE EraseEntry(b) BY <2>4 DEF EraseEntry
  <2>5. CASE FreeContext(b) BY <2>5 DEF FreeContext
  <2>6. CASE Connect(b) BY <2>6 DEF Connect
  <2>7. CASE ConnectFails(b) BY <2>7 DEF ConnectFails
  <2>8. CASE EmplaceEntry(b) BY <2>8 DEF EmplaceEntry
  <2>9. CASE LookUp(b) BY <2>9, EntryExact, LookUpExact DEF LookUp
  <2>10. CASE Push(b) BY <2>10 DEF Push
  <2>11. CASE Break(b) BY <2>11 DEF Break
  <2> QED BY <1>2, <2>1, <2>2, <2>3, <2>4, <2>5, <2>6, <2>7,
     <2>8, <2>9, <2>10, <2>11 DEF GetConn, Free
<1> QED BY <1>1, <1>2 DEF PoolNext

\* An entry is erased before its address can be used again.
LEMMA MapStep == PoolTyped /\ ~misled' /\ ExactInv /\ [PoolNext]_poolVars => MapInv'
<1> SUFFICES ASSUME PoolTyped, ~misled', ExactInv, [PoolNext]_poolVars PROVE MapInv' OBVIOUS
<1> USE NoneAssumption DEF PoolTyped, PoolTypeOK, PcInv, Steps, ExactInv, SplitInv, PoolInv, MapInv, HoldInv, Dangling, Unmapped, borrower, IsAt, Goto
<1>1. CASE UNCHANGED poolVars BY <1>1 DEF poolVars
<1>2. ASSUME NEW b \in Borrowers, GetConn(b) \/ Free(b) \/ Break(b) PROVE MapInv'
  <2>1. CASE Request(b) BY <2>1 DEF Request
  <2>2. CASE Pop(b) BY <2>2 DEF Pop
  <2>3. CASE Hold(b) BY <2>3 DEF Hold
  <2>4. CASE EraseEntry(b) BY <2>4 DEF EraseEntry
  <2>5. CASE FreeContext(b) BY <2>5 DEF FreeContext
  <2>6. CASE Connect(b) BY <2>6 DEF Connect
  <2>7. CASE ConnectFails(b) BY <2>7 DEF ConnectFails
  <2>8. CASE EmplaceEntry(b) BY <2>8 DEF EmplaceEntry
  <2>9. CASE LookUp(b)
    <3>1. id' = id /\ conn_to_id' = conn_to_id BY <2>9, LookUpExact
    <3>2. UNCHANGED <<queue, pool, live>> /\ borrowing' = [borrowing EXCEPT ![b] = "found"]
          /\ borrowing[b] = "hold"
      BY <2>9 DEF LookUp
    <3> QED BY <3>1, <3>2
  <2>10. CASE Push(b) BY <2>10 DEF Push
  <2>11. CASE Break(b) BY <2>11 DEF Break
  <2> QED BY <1>2, <2>1, <2>2, <2>3, <2>4, <2>5, <2>6, <2>7,
     <2>8, <2>9, <2>10, <2>11 DEF GetConn, Free
<1> QED BY <1>1, <1>2 DEF PoolNext

\* A borrower keeps the connection it was given.
LEMMA HoldStep == PoolTyped /\ ~misled' /\ ExactInv /\ [PoolNext]_poolVars => HoldInv'
<1> SUFFICES ASSUME PoolTyped, ~misled', ExactInv, [PoolNext]_poolVars PROVE HoldInv' OBVIOUS
<1> USE NoneAssumption DEF PoolTyped, PoolTypeOK, PcInv, Steps, ExactInv, SplitInv, PoolInv, MapInv, HoldInv, Dangling, Unmapped, borrower, IsAt, Goto
<1>1. CASE UNCHANGED poolVars BY <1>1 DEF poolVars
<1>2. ASSUME NEW b \in Borrowers, GetConn(b) \/ Free(b) \/ Break(b) PROVE HoldInv'
  <2>1. CASE Request(b) BY <2>1 DEF Request
  <2>2. CASE Pop(b) BY <2>2 DEF Pop
  <2>3. CASE Hold(b) BY <2>3 DEF Hold
  <2>4. CASE EraseEntry(b) BY <2>4 DEF EraseEntry
  <2>5. CASE FreeContext(b) BY <2>5 DEF FreeContext
  <2>6. CASE Connect(b) BY <2>6 DEF Connect
  <2>7. CASE ConnectFails(b) BY <2>7 DEF ConnectFails
  <2>8. CASE EmplaceEntry(b) BY <2>8 DEF EmplaceEntry
  <2>9. CASE LookUp(b) BY <2>9, EntryExact, LookUpExact DEF LookUp
  <2>10. CASE Push(b) BY <2>10 DEF Push
  <2>11. CASE Break(b) BY <2>11 DEF Break
  <2> QED BY <1>2, <2>1, <2>2, <2>3, <2>4, <2>5, <2>6, <2>7,
     <2>8, <2>9, <2>10, <2>11 DEF GetConn, Free
<1> QED BY <1>1, <1>2 DEF PoolNext

\* A lookup that has missed its entry is not forgotten.
LEMMA MisledStep == [PoolNext]_poolVars /\ ~misled' => ~misled
BY DEF PoolNext, GetConn, Free, Request, Pop, Hold, EraseEntry, FreeContext, Connect,
   ConnectFails, EmplaceEntry, LookUp, Push, Break, poolVars

\* The invariant of ConnPool holds in every reachable state, for any pool.
THEOREM PoolInvariance == PoolSpec => []PoolIInv
<1>1. PoolIInv /\ [PoolNext]_poolVars => PoolIInv'
  BY PoolTypeStep, MisledStep, SplitStep, PoolStep, MapStep, HoldStep DEF PoolIInv, ExactInv
<1> QED BY <1>1, PoolInitIInv, PTL DEF PoolSpec

\* Every variable of ConnPool keeps its type, even when map accesses overlap.
THEOREM PoolTypeCorrect == PoolSpec => []PoolTypeOK
<1>1. PoolIInv => PoolTypeOK BY DEF PoolIInv, PoolTyped
<1> QED BY <1>1, PoolInvariance, PTL

\* No two borrowers use one connection, and none uses a connection after
\* redisFree, until a lookup misses its entry in a map that is being changed
\* (Get erases the entry before it frees the address).
THEOREM ExclusiveHolds == PoolSpec => []Exclusive
<1>1. ASSUME PoolTyped, ExactInv, NEW b \in Borrowers, conn[b] # None
      PROVE  borrowing[b] = "hold" /\ id[b] \in Ids /\ conn[b] = pool[id[b]] /\ ~Dangling(id[b])
  <2>1. borrowing[b] = "hold" BY <1>1 DEF PoolTyped, PcInv
  <2>2. id[b] \in Ids /\ conn[b] = pool[id[b]]
    BY <1>1, <2>1, EntryExact
  <2>3. \A c \in Borrowers : id[c] = id[b] => c = b
    BY <1>1, <2>2, NoneAssumption DEF ExactInv, SplitInv
  <2> QED BY <2>1, <2>2, <2>3 DEF Dangling
<1>2. PoolIInv => Exclusive
  <2> SUFFICES ASSUME PoolTyped, ExactInv, ~misled PROVE Exclusive
    BY DEF PoolIInv, Exclusive
  <2>1. \A b \in Borrowers : conn[b] # None => conn[b] \in live
    BY <1>1 DEF ExactInv, PoolInv
  <2>2. ASSUME NEW b \in Borrowers, NEW c \in Borrowers,
               conn[b] # None, conn[b] = conn[c]
        PROVE  b = c
    <3>1. id[b] = id[c] /\ id[b] # None
      BY <1>1, <2>2, NoneAssumption DEF ExactInv, PoolInv
    <3> QED BY <3>1 DEF ExactInv, SplitInv
  <2> QED BY <2>1, <2>2 DEF Exclusive
<1> QED BY <1>2, PoolInvariance, PTL
-----------------------------------------------------------------------------
(***************************************************************************)
(* The size of the pool: Pop moves one element to a borrower and Push one  *)
(* back, whichever id it has.                                              *)
(***************************************************************************)
SizeInv ==
    /\ IsFiniteSet(Elements) /\ IsFiniteSet(Taken)
    /\ PoolKeepsItsSize

LEMMA InitSize == PoolInit => SizeInv
<1> SUFFICES ASSUME PoolInit PROVE SizeInv OBVIOUS
<1> DEFINE first == [i \in Ids |-> <<i, 1>>]
<1>1. Taken = {} BY DEF PoolInit, Taken
<1>2. Elements = {<<i, 1>> : i \in Ids}
  <2>1. \A i \in Ids : queue[i] = 1 BY DEF PoolInit
  <2>2. \A n : n \in 1 .. 1 <=> n = 1 OBVIOUS
  <2>3. \A i \in Ids : {<<i, n>> : n \in 1 .. queue[i]} = {<<i, 1>>} BY <2>1, <2>2
  <2> QED BY <2>3 DEF Elements
<1>3. first \in Bijection(Ids, Elements)
  BY <1>2 DEF Bijection, Injection, Surjection, IsInjective
<1>4. ExistsBijection(Ids, Elements) BY <1>3 DEF ExistsBijection
<1>5. IsFiniteSet(Elements) /\ Cardinality(Elements) = Cardinality(Ids)
  BY <1>4, IdsAssumption, FS_Bijection
<1>6. Cardinality(Ids) \in Nat BY IdsAssumption, FS_CardinalityType
<1> QED BY <1>1, <1>5, <1>6, FS_EmptySet DEF SizeInv, PoolKeepsItsSize

LEMMA SizeStep == PoolTyped /\ SizeInv /\ [PoolNext]_poolVars => SizeInv'
<1> SUFFICES ASSUME PoolTyped, SizeInv, [PoolNext]_poolVars PROVE SizeInv' OBVIOUS
<1> USE NoneAssumption DEF PoolTyped, PoolTypeOK, PcInv
<1>1. Cardinality(Elements) \in Nat /\ Cardinality(Taken) \in Nat
  BY FS_CardinalityType DEF SizeInv
<1>2. CASE UNCHANGED <<queue, id>> BY <1>2 DEF SizeInv, PoolKeepsItsSize, Elements, Taken
<1>3. ASSUME NEW b \in Borrowers, Pop(b) PROVE SizeInv'
  <2>1. PICK i \in Ids : /\ queue[i] > 0 /\ queue' = [queue EXCEPT ![i] = @ - 1]
                         /\ id' = [id EXCEPT ![b] = i]
    BY <1>3 DEF Pop
  <2>2. id[b] = None BY <1>3 DEF Pop, IsAt
  <2>3. Taken' = Taken \cup {b} /\ b \notin Taken BY <2>1, <2>2 DEF Taken
  <2>4. Elements' = Elements \ {<<i, queue[i]>>} /\ <<i, queue[i]>> \in Elements
    <3>1. queue'[i] = queue[i] - 1 /\ \A j \in Ids \ {i} : queue'[j] = queue[j] BY <2>1
    <3>2. \A n : n \in 1 .. queue'[i] <=> n \in 1 .. queue[i] /\ n # queue[i] BY <2>1, <3>1
    <3>3. queue[i] \in 1 .. queue[i] BY <2>1
    <3> QED BY <3>1, <3>2, <3>3 DEF Elements
  <2>5. IsFiniteSet(Taken') /\ Cardinality(Taken') = Cardinality(Taken) + 1
    BY <2>3, FS_AddElement DEF SizeInv
  <2>6. IsFiniteSet(Elements') /\ Cardinality(Elements') = Cardinality(Elements) - 1
    <3> DEFINE x == <<i, queue[i]>>
               S == Elements
    <3>1. IsFiniteSet(S) /\ x \in S BY <2>4 DEF SizeInv
    <3> HIDE DEF x, S
    <3>2. IsFiniteSet(S \ {x}) /\ Cardinality(S \ {x}) = Cardinality(S) - 1
      BY <3>1, FS_RemoveElement
    <3> QED BY <2>4, <3>2 DEF x, S
  <2> QED BY <1>1, <2>5, <2>6 DEF SizeInv, PoolKeepsItsSize
<1>4. ASSUME NEW b \in Borrowers, Push(b) PROVE SizeInv'
  <2> DEFINE i == id[b]
             n == queue[i] + 1
  <2>1. i \in Ids /\ queue' = [queue EXCEPT ![i] = n] /\ id' = [id EXCEPT ![b] = None]
    BY <1>4 DEF Push, IsAt
  <2> HIDE DEF i
  <2>2. id[b] # None BY <2>1 DEF i
  <2>3. Taken' = Taken \ {b} /\ b \in Taken BY <2>1, <2>2 DEF Taken
  <2>4. Elements' = Elements \cup {<<i, n>>} /\ <<i, n>> \notin Elements
    <3>1. queue'[i] = n /\ \A j \in Ids \ {i} : queue'[j] = queue[j] BY <2>1
    <3>2. \A k : k \in 1 .. queue'[i] <=> k \in 1 .. queue[i] \/ k = n BY <2>1, <3>1
    <3>3. n \notin 1 .. queue[i] BY <2>1
    <3> QED BY <2>1, <3>1, <3>2, <3>3 DEF Elements
  <2>5. IsFiniteSet(Taken') /\ Cardinality(Taken') = Cardinality(Taken) - 1
    BY <2>3, FS_RemoveElement DEF SizeInv
  <2>6. IsFiniteSet(Elements') /\ Cardinality(Elements') = Cardinality(Elements) + 1
    BY <2>4, FS_AddElement DEF SizeInv
  <2> QED BY <1>1, <2>5, <2>6 DEF SizeInv, PoolKeepsItsSize
<1>5. ASSUME NEW b \in Borrowers, LookUp(b) PROVE SizeInv'
  <2>1. id[b] # None /\ id'[b] # None /\ \A c \in Borrowers \ {b} : id'[c] = id[c]
    <3>1. borrowing[b] = "hold" /\ conn[b] \in Addresses BY <1>5 DEF LookUp, IsAt
    <3>2. PICK i \in Ids : id' = [id EXCEPT ![b] = i] BY <1>5, <3>1, FoundType DEF LookUp
    <3> QED BY <3>1, <3>2
  <2>2. Taken' = Taken BY <2>1 DEF Taken
  <2>3. Elements' = Elements BY <1>5 DEF LookUp, Elements
  <2> QED BY <2>2, <2>3 DEF SizeInv, PoolKeepsItsSize
<1> QED BY <1>2, <1>3, <1>4, <1>5
        DEF PoolNext, GetConn, Free, Request, Hold, EraseEntry, FreeContext, Connect,
            ConnectFails, EmplaceEntry, Break, borrower, poolVars

\* redis_conn_pool.h, conn_pool.h: for any number of connections, borrowers and addresses,
\* as many ids are in the queue or with borrowers as the pool has connections, even
\* when a lookup that overlaps a change of the map returns the wrong one.
THEOREM PoolKeepsItsSizeHolds == PoolSpec => []PoolKeepsItsSize
<1>1. SizeInv => PoolKeepsItsSize BY DEF SizeInv
<1>2. PoolIInv => PoolTyped BY DEF PoolIInv
<1> QED BY <1>1, <1>2, InitSize, SizeStep, PoolInvariance, PTL DEF PoolSpec
=============================================================================
