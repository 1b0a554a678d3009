---------------------------- MODULE MCBotManage -----------------------------
(***************************************************************************)
(* Bounds of BotManage for TLC: the bot is in a group where nobody speaks, *)
(* and friend requests are not approved by themselves.                     *)
(***************************************************************************)
EXTENDS BotManage

OnlyGroups == [friend |-> FALSE, group |-> TRUE, strict |-> FALSE]
=============================================================================
