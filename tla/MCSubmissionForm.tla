--------------------------- MODULE MCSubmissionForm ---------------------------
(***************************************************************************)
(* SubmissionForm for TLC: files and cases as interchangeable model values.*)
(***************************************************************************)
EXTENDS SubmissionForm, TLC

CONSTANTS f1, f2, c1, c2

Symmetry == Permutations(Files) \cup Permutations(Cases)

=============================================================================
