------------------------------ MODULE MCRegistry ------------------------------
(***************************************************************************)
(* Registry for TLC: three appeals and a complaint, a page for each, and   *)
(* payloads of which some were never offered.  A pass that begins with two *)
(* appeals, while the third one is committed before its second page,       *)
(* shows a row again and ends on the third page.  A colleague closes one   *)
(* of the appeals.                                                         *)
(***************************************************************************)
EXTENDS Registry, TLC

CONSTANTS s1, s2

Mixed == [i \in Subs |-> IF i = 4 THEN "corruption" ELSE "appeal"]

\* A page that is not there, and a submission of another type.
Stray ==
    {[type |-> "appeal", status |-> "new", order |-> "desc", page |-> 3, open |-> 0],
     [type |-> "appeal", status |-> "all", order |-> "asc", page |-> 0, open |-> 4]}

Others == [i \in Subs |-> IF i = 2 THEN {"closed"} ELSE {}]

Symmetric == Permutations(Slots)

=============================================================================
