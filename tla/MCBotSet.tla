------------------------------ MODULE MCBotSet ------------------------------
(***************************************************************************)
(* Bounds of BotSet for TLC: two connections and one task, which may be    *)
(* asleep between two bots when one of them closes.                        *)
(***************************************************************************)
EXTENDS BotSet
=============================================================================
