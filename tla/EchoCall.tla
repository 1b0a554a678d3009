------------------------------ MODULE EchoCall ------------------------------
(***************************************************************************)
(* The OneBot call path: an API call of ApiBot that awaits an answer, from *)
(* the registration of its echo code to the return of                      *)
(* CoFutureWrapper::get().                                                 *)
(*                                                                         *)
(*   bot/onebot_11/api_bot.h        SendRaw<Ret>, Echo, SetEchoFunction,   *)
(*                                  EchoFunction                           *)
(*   bot/onebot_11/future_wrapper.h CoFutureWrapper                        *)
(*   co_future.h                    shared_state, co_future, co_promise    *)
(*   bot/bot.h                      EventProcess (the retcode branch)      *)
(*                                                                         *)
(* A call is made by one coroutine; its answer, if the OneBot client sends *)
(* one, is read by another that runs on another scheduler thread (server.h *)
(* starts one per message).  The client answers a request at most once, in *)
(* any order, or never.  The reading coroutine is named by the call whose  *)
(* request it answers.                                                     *)
(***************************************************************************)
EXTENDS Naturals, FiniteSets

CONSTANTS
    Calls,    \* the API calls, one CoFutureWrapper each
    Codes,    \* echo codes: a microsecond clock plus a random multiple of 10 ms
    Null,     \* no call, no code, no result
    Default,  \* DefaultValue<T>()
    Garbage,  \* shared_state::value_ before it is assigned
    Races     \* the races of the code whose outcomes the model admits

(***************************************************************************)
(* "collision": two calls draw the same echo code (api_bot.h:259-263).     *)
(* "stores":    value_ and is_complete_ are plain members, so a reader may *)
(*              see the two stores of set_value in either order.           *)
(* "erase":     unsafe_erase may not run beside other operations of the    *)
(*              tbb map: an insertion that overlaps it may be lost.        *)
(***************************************************************************)
RaceKinds == {"collision", "stores", "erase"}

ASSUME RacesAssumption == Races \subseteq RaceKinds
ASSUME NullAssumption == Null \notin Calls /\ Null \notin Codes
ASSUME ValueAssumption ==
    /\ Default \notin Calls /\ Garbage \notin Calls
    /\ Default # Garbage /\ Default # Null /\ Garbage # Null

VARIABLES
    pc,             \* pc[c]: where the calling coroutine is
    code,           \* code[c]: msg["echo"] of the call
    echo_function,  \* Bot::echo_function_: the call captured under a code
    rd,             \* rd[c]: where the coroutine that reads c's answer is
    data,           \* data[c]: event["data"] of the answer to c
    target,         \* target[c]: the call whose promise that coroutine holds
    value,          \* shared_state::value_
    is_complete,    \* shared_state::is_complete_
    signaled,       \* the co::Event of the shared_state
    result,         \* what get() returned
    terminated      \* std::terminate: an exception left a noexcept function

vars == <<pc, code, echo_function, rd, data, target, value, is_complete,
          signaled, result, terminated>>
caller == <<pc, code, result>>
reader == <<rd, data, target, terminated>>
state == <<value, is_complete, signaled>>

\* An answer is "ok", has a null data, or data that DesiredValue rejects.
Answers == {"ok", "null", "malformed"}

CallerSteps == {"idle", "registered", "held", "waiting", "ready",
                "returned", "released"}
ReaderSteps == {"unsent", "requested", "arrived", "counted", "called", "store",
                "value_only", "complete_only", "signal", "erase", "done"}

(***************************************************************************)
(* The weak_ptr captured by the echo function can be locked as long as the *)
(* caller keeps its CoFutureWrapper.                                       *)
(***************************************************************************)
PromiseAlive(c) == pc[c] # "released"

Init ==
    /\ pc = [c \in Calls |-> "idle"]
    /\ code = [c \in Calls |-> Null]
    /\ echo_function = [k \in Codes |-> Null]
    /\ rd = [c \in Calls |-> "unsent"]
    /\ data = [c \in Calls |-> "null"]
    /\ target = [c \in Calls |-> Null]
    /\ value = [c \in Calls |-> Garbage]
    /\ is_complete = [c \in Calls |-> FALSE]
    /\ signaled = [c \in Calls |-> FALSE]
    /\ result = [c \in Calls |-> Null]
    /\ terminated = FALSE

-----------------------------------------------------------------------------
(***************************************************************************)
(* The calling coroutine                                                   *)
(***************************************************************************)

\* Mutant: codes of outstanding calls may coincide.
Register_AnyCode(c) ==
    /\ pc[c] = "idle"
    /\ \E k \in Codes : /\ code' = [code EXCEPT ![c] = k]
                        /\ echo_function' = [echo_function EXCEPT ![k] = c]
    /\ pc' = [pc EXCEPT ![c] = "registered"]
    /\ UNCHANGED <<reader, state, result>>

\* ApiBot::Echo: draw a code and store the function that fulfils the promise.
Register(c) ==
    /\ pc[c] = "idle"
    /\ \E k \in Codes :
        /\ "collision" \in Races \/ \A d \in Calls : code[d] # k
        /\ code' = [code EXCEPT ![c] = k]
        /\ \/ echo_function' = [echo_function EXCEPT ![k] = c]
           \/ /\ "erase" \in Races
              /\ \E d \in Calls : rd[d] = "erase"
              /\ UNCHANGED echo_function
    /\ pc' = [pc EXCEPT ![c] = "registered"]
    /\ UNCHANGED <<reader, state, result>>

\* SendRaw<Ret> after Echo: notify_->Run sends the request.
Send(c) ==
    /\ pc[c] = "registered"
    /\ pc' = [pc EXCEPT ![c] = "held"]
    /\ rd' = [rd EXCEPT ![c] = "requested"]
    /\ UNCHANGED <<code, result, echo_function, data, target, terminated, state>>

\* Mutant: the wrapper's destructor erases the echo function.
Discard_Erases(c) ==
    /\ pc[c] = "held"
    /\ pc' = [pc EXCEPT ![c] = "released"]
    /\ echo_function' = [echo_function EXCEPT ![code[c]] = Null]
    /\ UNCHANGED <<code, result, reader, state>>

\* The caller ignores the result: the wrapper dies, and its promise with it.
Discard(c) ==
    /\ pc[c] = "held"
    /\ pc' = [pc EXCEPT ![c] = "released"]
    /\ UNCHANGED <<code, result, echo_function, reader, state>>

\* CoFutureWrapper::get -> co_future::wait_for: the first test of is_complete_.
WaitFor(c) ==
    /\ pc[c] = "held"
    /\ pc' = [pc EXCEPT ![c] = IF is_complete[c] THEN "ready" ELSE "waiting"]
    /\ UNCHANGED <<code, result, echo_function, reader, state>>

\* event_.wait(ms) returns true; the event resets itself.
Wake(c) ==
    /\ pc[c] = "waiting"
    /\ signaled[c]
    /\ signaled' = [signaled EXCEPT ![c] = FALSE]
    /\ pc' = [pc EXCEPT ![c] = "ready"]
    /\ UNCHANGED <<code, result, echo_function, reader, value, is_complete>>

\* Mutant: the caller that gives up erases its echo function itself.
Timeout_Erases(c) ==
    /\ pc[c] = "waiting"
    /\ ~signaled[c]
    /\ pc' = [pc EXCEPT ![c] = "returned"]
    /\ result' = [result EXCEPT ![c] = Default]
    /\ echo_function' = [echo_function EXCEPT ![code[c]] = Null]
    /\ UNCHANGED <<code, reader, state>>

\* Mutant: wait() in place of wait_for().
Timeout_Never(c) == FALSE /\ UNCHANGED vars

\* event_.wait(ms) returns false after 60 s: get() returns DefaultValue<T>().
Timeout(c) ==
    /\ pc[c] = "waiting"
    /\ ~signaled[c]
    /\ pc' = [pc EXCEPT ![c] = "returned"]
    /\ result' = [result EXCEPT ![c] = Default]
    /\ UNCHANGED <<code, echo_function, reader, state>>

\* co_future::get tests is_complete_ again and, should the test fail, waits for
\* the event without a bound.
Get(c) ==
    /\ pc[c] = "ready"
    /\ is_complete[c] \/ signaled[c]
    /\ signaled' = [signaled EXCEPT ![c] = is_complete[c] /\ @]
    /\ pc' = [pc EXCEPT ![c] = "returned"]
    /\ result' = [result EXCEPT ![c] = value[c]]
    /\ UNCHANGED <<code, echo_function, reader, value, is_complete>>

\* The wrapper goes out of scope some time after get() returned.
Release(c) ==
    /\ pc[c] = "returned"
    /\ pc' = [pc EXCEPT ![c] = "released"]
    /\ UNCHANGED <<code, result, echo_function, reader, state>>

Caller(c) ==
    \/ Register(c) \/ Send(c) \/ Discard(c) \/ WaitFor(c) \/ Wake(c)
    \/ Timeout(c) \/ Get(c) \/ Release(c)

-----------------------------------------------------------------------------
(***************************************************************************)
(* The OneBot client and the coroutine that reads an answer                *)
(***************************************************************************)

\* The client answers a request, echoing its code.
Answer(c) ==
    /\ rd[c] = "requested"
    /\ \E a \in Answers : data' = [data EXCEPT ![c] = a]
    /\ rd' = [rd EXCEPT ![c] = "arrived"]
    /\ UNCHANGED <<caller, echo_function, target, terminated, state>>

\* echo_function_.count(echo_code)
Count(c) ==
    /\ rd[c] = "arrived"
    /\ rd' = [rd EXCEPT ![c] =
                IF echo_function[code[c]] # Null THEN "counted" ELSE "done"]
    /\ UNCHANGED <<caller, echo_function, data, target, terminated, state>>

\* Mutant: the entry is reached through begin() in place of its code.
At_Begin(c) ==
    /\ rd[c] = "counted"
    /\ \E k \in Codes : /\ echo_function[k] # Null
                        /\ target' = [target EXCEPT ![c] = echo_function[k]]
    /\ rd' = [rd EXCEPT ![c] = "called"]
    /\ UNCHANGED <<caller, echo_function, data, terminated, state>>

\* echo_function_.at(echo_code): throws when the entry is gone, and
\* EventProcess is noexcept.
At(c) ==
    /\ rd[c] = "counted"
    /\ IF echo_function[code[c]] # Null
         THEN /\ target' = [target EXCEPT ![c] = echo_function[code[c]]]
              /\ rd' = [rd EXCEPT ![c] = "called"]
              /\ UNCHANGED terminated
         ELSE /\ terminated' = TRUE
              /\ UNCHANGED <<target, rd>>
    /\ UNCHANGED <<caller, echo_function, data, state>>

\* Mutant: a dead promise ends the reading coroutine before unsafe_erase.
LockPromise_Returns(c) ==
    /\ rd[c] = "called"
    /\ rd' = [rd EXCEPT ![c] =
                IF PromiseAlive(target[c]) /\ data[c] # "malformed"
                  THEN "store" ELSE "done"]
    /\ UNCHANGED <<caller, echo_function, data, target, terminated, state>>

\* EchoFunction: lock the weak_ptr; data that DesiredValue rejects is caught
\* and logged, and the promise stays empty.
LockPromise(c) ==
    /\ rd[c] = "called"
    /\ rd' = [rd EXCEPT ![c] =
                IF PromiseAlive(target[c]) /\ data[c] # "malformed"
                  THEN "store" ELSE "erase"]
    /\ UNCHANGED <<caller, echo_function, data, target, terminated, state>>

\* What EchoFunction passes to set_value.
Fulfilment(c) == IF data[c] = "null" THEN Default ELSE c

\* Mutant: set_value forgets is_complete_.
StoreValue_Only(c) ==
    /\ rd[c] \in {"store", "complete_only"}
    /\ value' = [value EXCEPT ![target[c]] = Fulfilment(c)]
    /\ rd' = [rd EXCEPT ![c] = "signal"]
    /\ UNCHANGED <<caller, echo_function, data, target, terminated,
                   is_complete, signaled>>

\* co_promise::set_value, state_->value_ = value.
StoreValue(c) ==
    /\ rd[c] \in {"store", "complete_only"}
    /\ value' = [value EXCEPT ![target[c]] = Fulfilment(c)]
    /\ rd' = [rd EXCEPT ![c] = IF rd[c] = "store" THEN "value_only" ELSE "signal"]
    /\ UNCHANGED <<caller, echo_function, data, target, terminated,
                   is_complete, signaled>>

\* co_promise::set_value, state_->is_complete_ = true.
StoreComplete(c) ==
    /\ rd[c] = "value_only" \/ ("stores" \in Races /\ rd[c] = "store")
    /\ is_complete' = [is_complete EXCEPT ![target[c]] = TRUE]
    /\ rd' = [rd EXCEPT ![c] = IF rd[c] = "store" THEN "complete_only" ELSE "signal"]
    /\ UNCHANGED <<caller, echo_function, data, target, terminated,
                   value, signaled>>

\* co_promise::set_value, state_->event_.signal().
Signal(c) ==
    /\ rd[c] = "signal"
    /\ signaled' = [signaled EXCEPT ![target[c]] = TRUE]
    /\ rd' = [rd EXCEPT ![c] = "erase"]
    /\ UNCHANGED <<caller, echo_function, data, target, terminated,
                   value, is_complete>>

\* echo_function_.unsafe_erase(echo_code)
Erase(c) ==
    /\ rd[c] = "erase"
    /\ echo_function' = [echo_function EXCEPT ![code[c]] = Null]
    /\ rd' = [rd EXCEPT ![c] = "done"]
    /\ UNCHANGED <<caller, data, target, terminated, state>>

Reader(c) ==
    \/ Count(c) \/ At(c) \/ LockPromise(c) \/ StoreValue(c)
    \/ StoreComplete(c) \/ Signal(c) \/ Erase(c)

-----------------------------------------------------------------------------
Step(c) == Caller(c) \/ Answer(c) \/ Reader(c)
Next == ~terminated /\ \E c \in Calls : Step(c)

Spec == Init /\ [][Next]_vars

(***************************************************************************)
(* Fairness: the coroutine scheduler runs a ready coroutine, and the timer *)
(* of event_.wait(ms) expires.  Nothing makes a caller start, nor the      *)
(* client answer.                                                          *)
(***************************************************************************)
Started(c) == Caller(c) /\ pc[c] # "idle"

Fairness ==
    \A c \in Calls : /\ WF_vars(~terminated /\ Started(c))
                     /\ WF_vars(~terminated /\ Reader(c))

FairSpec == Spec /\ Fairness

-----------------------------------------------------------------------------
(***************************************************************************)
(* Properties                                                              *)
(***************************************************************************)

\* Every variable has its type.
TypeOK ==
    /\ pc \in [Calls -> CallerSteps]
    /\ code \in [Calls -> Codes \cup {Null}]
    /\ echo_function \in [Codes -> Calls \cup {Null}]
    /\ rd \in [Calls -> ReaderSteps]
    /\ data \in [Calls -> Answers]
    /\ target \in [Calls -> Calls \cup {Null}]
    /\ value \in [Calls -> Calls \cup {Default, Garbage}]
    /\ is_complete \in [Calls -> BOOLEAN]
    /\ signaled \in [Calls -> BOOLEAN]
    /\ result \in [Calls -> Calls \cup {Default, Garbage, Null}]
    /\ terminated \in BOOLEAN

SharedCode(c) == \E d \in Calls \ {c} : code[d] = code[c] /\ code[c] # Null

\* A call returns the answer to its own request or the default value, never
\* another call's answer nor memory set_value has not written, unless its code
\* collided or the two stores of set_value were seen out of order (SendRaw,
\* EventProcess and co_future together).
OwnAnswer ==
    \A c \in Calls :
        /\ result[c] \in Calls => result[c] = c \/ SharedCode(c)
        /\ result[c] = Garbage => "stores" \in Races

\* The lookup that EventProcess splits into count, at and unsafe_erase ends
\* the process only when two calls share an echo code.
TerminatesOnlyOnCollision == terminated => \E c \in Calls : SharedCode(c)

\* The answer to a call whose code is its own finds that call's echo function
\* (SendRaw registers before it sends, and only the answer erases it), unless an
\* overlapping unsafe_erase lost it.
NoAnswerMissed ==
    \A c \in Calls : rd[c] \in {"arrived", "counted"} /\ ~SharedCode(c) =>
        echo_function[code[c]] = c \/ "erase" \in Races

\* Once its answer has been read a call leaves no echo function behind, not
\* even one that arrives after the caller gave up (EventProcess erases it).
NoStaleEntry ==
    \A c \in Calls : rd[c] = "done" /\ ~SharedCode(c) =>
        \A k \in Codes : echo_function[k] # c

\* A call never waits without a bound: the second test of is_complete_, in
\* co_future::get, does not fail after wait_for has returned ready.
NeverBlocked == \A c \in Calls : pc[c] = "ready" => is_complete[c]

\* Every get() returns and every wrapper is released, whatever the client does,
\* unless an exception ends the process.
EveryCallEnds ==
    \A c \in Calls : pc[c] = "registered" ~> pc[c] = "released" \/ terminated

\* The calls do what OneShotCall promises: each is over after a while, returns
\* once, and returns its own answer or the default value.
OneShot == INSTANCE OneShotCall WITH
    status <- [c \in Calls |-> CASE pc[c] = "idle" -> "idle"
                                 [] pc[c] \in {"returned", "released"} -> "over"
                                 [] OTHER -> "pending"],
    answered <- [c \in Calls |-> rd[c] \notin {"unsent", "requested"}]

ImplementsOneShot == OneShot!Spec
=============================================================================
