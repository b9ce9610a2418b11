------------------------------ MODULE MCIntake ------------------------------
(***************************************************************************)
(* Intake for TLC: an appeal, and two anonymous complaints, one with two   *)
(* files by an author who gave a name before going back, one with none.    *)
(***************************************************************************)
EXTENDS Intake, TLC

CONSTANTS h1, h2, h3, ann, bob, f1, f2

MCForms ==
    {[by |-> ann, type |-> "appeal", anon |-> FALSE, named |-> TRUE, files |-> <<f1>>],
     [by |-> ann, type |-> "corruption", anon |-> TRUE, named |-> TRUE, files |-> <<f2, f1>>],
     [by |-> bob, type |-> "corruption", anon |-> TRUE, named |-> FALSE, files |-> <<>>]}

Symmetric == Permutations({h1, h2, h3})

=============================================================================
