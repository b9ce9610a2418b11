----------------------------- MODULE MCSafeSend -----------------------------
(***************************************************************************)
(* SafeSend for TLC: every text of three characters up to MaxLength.       *)
(***************************************************************************)
EXTENDS SafeSend

=============================================================================
