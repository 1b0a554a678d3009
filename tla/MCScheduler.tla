----------------------------- MODULE MCScheduler -----------------------------
(***************************************************************************)
(* Bounds of Scheduler for TLC: two or three tasks of different kinds,     *)
(* periods of one or two units, and ids that two tasks may share.          *)
(***************************************************************************)
EXTENDS Scheduler, TLC

CONSTANTS t1, t2, t3, i1, i2

\* An interval task and a cron task, as the modules register them, with a
\* one-off task that takes the id of the cron task.
MixedIds == (t1 :> i1) @@ (t2 :> i2) @@ (t3 :> i2)
MixedKinds == (t1 :> "interval") @@ (t2 :> "cron") @@ (t3 :> "in")
MixedPeriods == (t1 :> 1) @@ (t2 :> 2) @@ (t3 :> 1)

\* Two tasks with an id each.
PairIds == (t1 :> i1) @@ (t2 :> i2)
PairKinds == (t1 :> "interval") @@ (t2 :> "every")
PairPeriods == (t1 :> 1) @@ (t2 :> 2)
=============================================================================
