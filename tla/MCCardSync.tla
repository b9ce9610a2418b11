---------------------------- MODULE MCCardSync ----------------------------
(***************************************************************************)
(* CardSync for TLC: two cards in Telegram, in Matrix one and its copy.    *)
(***************************************************************************)
EXTENDS CardSync

CONSTANTS t1, t2, m1, k1

=============================================================================
