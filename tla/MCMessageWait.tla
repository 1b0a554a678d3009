---------------------------- MODULE MCMessageWait ----------------------------
(***************************************************************************)
(* Bounds of MessageWait for TLC: two users of one group, each of whom may *)
(* be waited for there or anywhere, by two waiters; and two messages.      *)
(***************************************************************************)
EXTENDS MessageWait
=============================================================================
