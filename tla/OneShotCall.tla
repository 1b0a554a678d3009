---------------------------- MODULE OneShotCall ----------------------------
(***************************************************************************)
(* What an API call of ApiBot promises its caller: every call that is made *)
(* is over after a while, having returned at most once, and what it        *)
(* returned is the answer the client gave to this very call, or the        *)
(* default value.                                                          *)
(***************************************************************************)
CONSTANTS Calls, Null, Default

VARIABLES
    status,    \* status[c]: "idle", "pending" or "over"
    answered,  \* answered[c]: the client has answered this call
    result     \* result[c]: what the call returned

avars == <<status, answered, result>>

Init ==
    /\ status = [c \in Calls |-> "idle"]
    /\ answered = [c \in Calls |-> FALSE]
    /\ result = [c \in Calls |-> Null]

Invoke(c) ==
    /\ status[c] = "idle"
    /\ status' = [status EXCEPT ![c] = "pending"]
    /\ UNCHANGED <<answered, result>>

\* The client answers a call that was made, perhaps after it is over.
Answer(c) ==
    /\ status[c] # "idle"
    /\ ~answered[c]
    /\ answered' = [answered EXCEPT ![c] = TRUE]
    /\ UNCHANGED <<status, result>>

Return(c) ==
    /\ status[c] = "pending"
    /\ status' = [status EXCEPT ![c] = "over"]
    /\ \/ result' = [result EXCEPT ![c] = Default]
       \/ answered[c] /\ result' = [result EXCEPT ![c] = c]
    /\ UNCHANGED answered

\* The caller does not ask for the result.
Forget(c) ==
    /\ status[c] = "pending"
    /\ status' = [status EXCEPT ![c] = "over"]
    /\ UNCHANGED <<answered, result>>

Next == \E c \in Calls : Invoke(c) \/ Answer(c) \/ Return(c) \/ Forget(c)

Safe == Init /\ [][Next]_avars

Spec == Safe /\ \A c \in Calls : WF_avars(Return(c) \/ Forget(c))
=============================================================================
