------------------------------- MODULE MCRoles -------------------------------
(***************************************************************************)
(* Roles for TLC: people, languages and taps as interchangeable model      *)
(* values.                                                                 *)
(***************************************************************************)
EXTENDS Roles, TLC

CONSTANTS u1, u2, l1, l2, t1, t2, t3

Symmetry == Permutations(People) \cup Permutations(Languages) \cup Permutations(Taps)

=============================================================================
