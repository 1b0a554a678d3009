----------------------------- MODULE MCEchoCall -----------------------------
(***************************************************************************)
(* Bounds of EchoCall for TLC.                                             *)
(***************************************************************************)
EXTENDS EchoCall

AllRaces == RaceKinds
=============================================================================
