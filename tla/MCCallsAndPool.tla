-------------------------- MODULE MCCallsAndPool --------------------------
(***************************************************************************)
(* Bounds for TLC of the two parts whose coroutines wait for an outside    *)
(* party: the API calls of EchoCall and the borrowers of ConnPool.  They   *)
(* share no state, so a behaviour follows one of them and the other stays  *)
(* where it starts: an interleaving of both would show nothing more.       *)
(***************************************************************************)
EXTENDS EchoCall, ConnPool

VARIABLE part

NoRaces == {}

\* The connections of a pool that is not followed are fixed.
CallsAndPoolInit ==
    /\ part \in {"calls", "pool"}
    /\ Init /\ PoolInit
    /\ part = "calls" => pool = CHOOSE p \in [Ids -> Addresses] : IsInjective(p)

CallsAndPoolNext ==
    /\ UNCHANGED part
    /\ \/ part = "calls" /\ Next /\ UNCHANGED poolVars
       \/ part = "pool" /\ PoolNext /\ UNCHANGED vars

\* In the part that is not followed nobody has started, so its fairness asks for
\* nothing.
CallsAndPoolSpec ==
    /\ CallsAndPoolInit
    /\ [][CallsAndPoolNext]_<<part, vars, poolVars>>
    /\ Fairness /\ PoolFairness
=============================================================================
