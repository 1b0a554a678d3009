------------------------------ MODULE ConnPool ------------------------------
(***************************************************************************)
(* The connection pools: a queue of free connection ids, a vector of       *)
(* connections, and a map from the address of a connection back to its id. *)
(*                                                                         *)
(*   db/db_conn/redis_conn_pool.h  RedisConnPool, which replaces a broken  *)
(*                                 connection when it is taken             *)
(*   db/db_conn/conn_pool.h, orm_pool.h  ConnPool, OrmPool, which never do *)
(*   db/db_conn/redis_conn.h, db/db.h    the objects that hold one         *)
(*                                                                         *)
(* redisFree gives an address back to the allocator, and a redisConnect of *)
(* another borrower may be given it again.  Nothing orders the accesses to *)
(* the map on several threads: a lookup that overlaps a change of it may   *)
(* miss its entry.                                                         *)
(*                                                                         *)
(* A borrower is a coroutine of one scheduler thread (coost).  The socket  *)
(* calls of commands and of redisConnect are hooked, so it suspends in     *)
(* them while it has an id; tbb's pop is not, so it blocks the thread, and *)
(* with it the coroutines that are suspended there.                        *)
(***************************************************************************)
EXTENDS Naturals, FiniteSets, Functions

CONSTANTS
    Borrowers,    \* coroutines that use a database
    Ids,          \* positions in the pool
    Addresses,    \* where connections may be allocated
    Zero,         \* the id 0, which operator[] inserts for an unknown address
    None,
    Threads,      \* the scheduler threads
    Reconnects    \* TRUE for RedisConnPool, FALSE for ConnPool

ASSUME ZeroAssumption == Zero \in Ids
ASSUME NoneAssumption ==
    None \notin Ids /\ None \notin Addresses /\ None \notin Borrowers /\ None \notin Threads
ASSUME IdsAssumption == IsFiniteSet(Ids)
ASSUME ReconnectsAssumption == Reconnects \in BOOLEAN

VARIABLES
    queue,      \* conn_id_queue_: how often an id is in it
    pool,       \* pool_: the address of each connection
    conn_to_id, \* conn_to_id_: the id of each address, None when it has no entry
    live,       \* addresses that are allocated
    err,        \* live connections that are broken
    borrowing, id, conn,   \* a borrower, the id it took and the reference it holds
    on,         \* the thread of a borrower
    exited,     \* the process has ended: exit(3)
    misled      \* history: a lookup has missed its entry

borrower == <<borrowing, id, conn, on>>
poolVars == <<queue, pool, conn_to_id, live, err, borrower, exited, misled>>

\* Init: one connection and one queue element per id.
PoolInit ==
    /\ queue = [i \in Ids |-> 1]
    /\ pool \in [Ids -> Addresses] /\ IsInjective(pool)
    /\ live = {pool[i] : i \in Ids}
    /\ conn_to_id = [a \in Addresses |->
           IF a \in live THEN CHOOSE i \in Ids : pool[i] = a ELSE None]
    /\ err = {}
    /\ borrowing = [b \in Borrowers |-> "idle"]
    /\ id = [b \in Borrowers |-> None]
    /\ conn = [b \in Borrowers |-> None]
    /\ on = [b \in Borrowers |-> None]
    /\ exited = FALSE /\ misled = FALSE

IsAt(b, step) == ~exited /\ borrowing[b] = step
Goto(b, step) == borrowing' = [borrowing EXCEPT ![b] = step]

\* Where a borrower is suspended: in a command, in redisConnect.  At the other
\* steps it runs, or blocks its thread in pop.
Suspended == {"idle", "hold", "connected"}

\* A thread resumes a coroutine when the one it runs has suspended or ended.
Available(t) == \A b \in Borrowers : on[b] = t => borrowing[b] \in Suspended

-----------------------------------------------------------------------------
(***************************************************************************)
(* Get                                                                     *)
(***************************************************************************)

Request(b) ==
    /\ IsAt(b, "idle") /\ Goto(b, "wait")
    /\ \E t \in Threads : Available(t) /\ on' = [on EXCEPT ![b] = t]
    /\ UNCHANGED <<queue, pool, conn_to_id, live, err, id, conn, exited, misled>>

\* pop: any id of the queue, since other borrowers come and go.
Pop(b) ==
    /\ IsAt(b, "wait") /\ Goto(b, "popped")
    /\ \E i \in Ids : /\ queue[i] > 0
                      /\ queue' = [queue EXCEPT ![i] = @ - 1]
                      /\ id' = [id EXCEPT ![b] = i]
    /\ UNCHANGED <<pool, conn_to_id, live, err, conn, on, exited, misled>>

\* The connection works, or the pool does not look.
Hold(b) ==
    /\ IsAt(b, "popped") /\ Goto(b, "hold")
    /\ ~Reconnects \/ pool[id[b]] \notin err
    /\ conn' = [conn EXCEPT ![b] = pool[id[b]]]
    /\ UNCHANGED <<queue, pool, conn_to_id, live, err, id, on, exited, misled>>

\* Mutant: the entry of the old connection stays.
EraseEntry_Keeps(b) ==
    /\ IsAt(b, "popped") /\ Goto(b, "erased")
    /\ Reconnects /\ pool[id[b]] \in err
    /\ UNCHANGED <<queue, pool, conn_to_id, live, err, id, conn, on, exited, misled>>

\* The connection is broken: its entry is erased ...
EraseEntry(b) ==
    /\ IsAt(b, "popped") /\ Goto(b, "erased")
    /\ Reconnects /\ pool[id[b]] \in err
    /\ conn_to_id' = [conn_to_id EXCEPT ![pool[id[b]]] = None]
    /\ UNCHANGED <<queue, pool, live, err, id, conn, on, exited, misled>>

\* ... and redisFree gives its memory back ...
FreeContext(b) ==
    /\ IsAt(b, "erased") /\ Goto(b, "freed")
    /\ live' = live \ {pool[id[b]]}
    /\ err' = err \ {pool[id[b]]}
    /\ UNCHANGED <<queue, pool, conn_to_id, id, conn, on, exited, misled>>

\* ... and redisConnect allocates a new one and suspends until it is connected ...
Connect(b) ==
    /\ IsAt(b, "freed") /\ Goto(b, "connected")
    /\ \E a \in Addresses \ live : /\ pool' = [pool EXCEPT ![id[b]] = a]
                                   /\ live' = live \cup {a}
    /\ UNCHANGED <<queue, conn_to_id, err, id, conn, on, exited, misled>>

\* ... or it could not, and the process ends; so it does with no memory left for
\* a connection (the log line reads the null pointer).
ConnectFails(b) ==
    /\ \/ IsAt(b, "connected") /\ Available(on[b])
       \/ IsAt(b, "freed") /\ Addresses \subseteq live
    /\ exited' = TRUE
    /\ UNCHANGED <<queue, pool, conn_to_id, live, err, borrower, misled>>

\* An entry for the new address, unless there is one.
EmplaceEntry(b) ==
    /\ IsAt(b, "connected") /\ Available(on[b]) /\ Goto(b, "hold")
    /\ conn_to_id' = [conn_to_id EXCEPT ![pool[id[b]]] = IF @ = None THEN id[b] ELSE @]
    /\ conn' = [conn EXCEPT ![b] = pool[id[b]]]
    /\ UNCHANGED <<queue, pool, live, err, id, on, exited, misled>>

-----------------------------------------------------------------------------
(***************************************************************************)
(* Free                                                                    *)
(***************************************************************************)

\* A borrower whose next step changes the map.
Changing(b) ==
    \/ borrowing[b] = "popped" /\ Reconnects /\ pool[id[b]] \in err
    \/ borrowing[b] = "connected" /\ Available(on[b])

\* What operator[] finds, or inserts for an unknown address ...
Entry(a) == IF conn_to_id[a] = None THEN Zero ELSE conn_to_id[a]

\* ... and what borrower b may find while another thread changes the map.
Found(b) ==
    {Entry(conn[b])} \cup
    {Zero : c \in {c \in Borrowers : on[c] # on[b] /\ Changing(c)}}

\* The destructor looks the id of its connection up ...
LookUp(b) ==
    /\ IsAt(b, "hold") /\ Available(on[b]) /\ Goto(b, "found")
    /\ \E i \in Found(b) :
          /\ id' = [id EXCEPT ![b] = i]
          /\ conn_to_id' = [conn_to_id EXCEPT ![conn[b]] = i]
          /\ misled' = (misled \/ i # Entry(conn[b]))
    /\ conn' = [conn EXCEPT ![b] = None]
    /\ UNCHANGED <<queue, pool, live, err, on, exited>>

\* Mutant: the id is pushed only if the connection works.
Push_Working(b) ==
    /\ IsAt(b, "found") /\ Goto(b, "idle")
    /\ queue' = [queue EXCEPT ![id[b]] = IF pool[id[b]] \in err THEN @ ELSE @ + 1]
    /\ id' = [id EXCEPT ![b] = None]
    /\ on' = [on EXCEPT ![b] = None]
    /\ UNCHANGED <<pool, conn_to_id, live, err, conn, exited, misled>>

\* ... and pushes it.
Push(b) ==
    /\ IsAt(b, "found") /\ Goto(b, "idle")
    /\ queue' = [queue EXCEPT ![id[b]] = @ + 1]
    /\ id' = [id EXCEPT ![b] = None]
    /\ on' = [on EXCEPT ![b] = None]
    /\ UNCHANGED <<pool, conn_to_id, live, err, conn, exited, misled>>

\* A command of the borrower fails: the peer has closed the connection.
Break(b) ==
    /\ IsAt(b, "hold") /\ Available(on[b]) /\ Reconnects
    /\ err' = err \cup {conn[b]}
    /\ UNCHANGED <<queue, pool, conn_to_id, live, borrower, exited, misled>>

GetConn(b) ==
    \/ Request(b) \/ Pop(b) \/ Hold(b) \/ EraseEntry(b) \/ FreeContext(b)
    \/ Connect(b) \/ ConnectFails(b) \/ EmplaceEntry(b)
Free(b) == LookUp(b) \/ Push(b)

PoolNext == \E b \in Borrowers : GetConn(b) \/ Free(b) \/ Break(b)

PoolSpec == PoolInit /\ [][PoolNext]_poolVars

(***************************************************************************)
(* Fairness: a thread resumes its coroutines in the order in which they    *)
(* became ready, so each of them goes on unless the thread stays blocked   *)
(* in pop; every command returns, by an answer or an error, and a borrower *)
(* sends finitely many; and the waiters of concurrent_bounded_queue are    *)
(* served in the order of their tickets.                                   *)
(***************************************************************************)
Proceed(b) == (GetConn(b) \/ Free(b)) /\ ~Request(b)

PoolFairness == \A b \in Borrowers : SF_poolVars(Proceed(b))

PoolFairSpec == PoolSpec /\ PoolFairness

-----------------------------------------------------------------------------
(***************************************************************************)
(* Properties                                                              *)
(***************************************************************************)
Steps == {"idle", "wait", "popped", "erased", "freed", "connected", "hold", "found"}

\* Every variable has its type.
PoolTypeOK ==
    /\ queue \in [Ids -> Nat]
    /\ pool \in [Ids -> Addresses]
    /\ conn_to_id \in [Addresses -> Ids \cup {None}]
    /\ live \subseteq Addresses /\ err \subseteq Addresses
    /\ borrowing \in [Borrowers -> Steps]
    /\ id \in [Borrowers -> Ids \cup {None}]
    /\ conn \in [Borrowers -> Addresses \cup {None}]
    /\ on \in [Borrowers -> Threads \cup {None}]
    /\ exited \in BOOLEAN /\ misled \in BOOLEAN

\* A connection is used by one borrower at a time, and not after redisFree,
\* although connections are replaced and addresses reused: Get and Free keep
\* the map exact until a lookup that overlaps a change of it misses its entry.
Exclusive ==
    ~misled =>
        /\ \A b \in Borrowers : conn[b] # None => conn[b] \in live
        /\ \A b, c \in Borrowers : conn[b] # None /\ conn[b] = conn[c] => b = c

\* The elements of the queue: an id for each time that it is in it.
Elements == UNION {{<<i, n>> : n \in 1 .. queue[i]} : i \in Ids}

Taken == {b \in Borrowers : id[b] # None}

\* The pool never shrinks: an id is in the queue or with a borrower, and as many
\* come back as were taken, even when an overlapping lookup returns the wrong one.
PoolKeepsItsSize ==
    Cardinality(Elements) + Cardinality(Taken) = Cardinality(Ids)

\* A borrower that cannot be resumed: its thread is blocked in pop.
Blocked(b) ==
    /\ borrowing[b] \in {"hold", "connected"}
    /\ \E c \in Borrowers : on[c] = on[b] /\ borrowing[c] = "wait"

\* Everyone waits for everyone: whatever connection there is, its borrower is
\* suspended on a thread that waits in pop for it or another one.
Deadlocked == Cardinality({b \in Borrowers : Blocked(b)}) = Cardinality(Ids)

\* Whoever asks for a connection gets one, unless the process ends or all
\* borrowers with a connection are suspended on threads that wait for one: a
\* pool that is empty for a while, a reconnect and a lost race of the map alone
\* leave nobody waiting.
EveryRequestServed ==
    \A b \in Borrowers :
        borrowing[b] = "wait" ~> borrowing[b] = "hold" \/ exited \/ Deadlocked
=============================================================================
