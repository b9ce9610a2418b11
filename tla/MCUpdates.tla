------------------------------ MODULE MCUpdates -------------------------------
(***************************************************************************)
(* Updates for TLC: updates of one person, who is a configured admin.      *)
(***************************************************************************)
EXTENDS Updates

CONSTANTS u1, u2, u3, root

=============================================================================
