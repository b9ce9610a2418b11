----------------------------- MODULE MCMatrixDm -----------------------------
(***************************************************************************)
(* MatrixDm for TLC: two announces, told apart, with one file.             *)
(***************************************************************************)
EXTENDS MatrixDm

CONSTANTS a, b, f

=============================================================================
