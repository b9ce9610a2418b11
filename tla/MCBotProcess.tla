---------------------------- MODULE MCBotProcess ----------------------------
(***************************************************************************)
(* BotProcess for TLC, with two rooms; the homeserver's clock agrees with  *)
(* the bot's, or is ahead by the most that the waits allow.                *)
(***************************************************************************)
EXTENDS BotProcess

MCSkews == {0, 1}

=============================================================================
