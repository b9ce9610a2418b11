------------------------ MODULE MCSubmissionActions ------------------------
(***************************************************************************)
(* SubmissionActions for TLC: model values for people and invocations.     *)
(***************************************************************************)
EXTENDS SubmissionActions, TLC

CONSTANTS ann, bob, root, o1, o2, o3

\* Two colleagues and one admin; invocations are interchangeable, and so are
\* the colleagues.
Symmetry == Permutations(Ops) \cup Permutations({ann, bob})

=============================================================================
