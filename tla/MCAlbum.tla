------------------------------- MODULE MCAlbum --------------------------------
(***************************************************************************)
(* Album for TLC: an album of four messages and one of two.                *)
(***************************************************************************)
EXTENDS Album, TLC

CONSTANTS m1, m2, m3, m4, n1, n2, g1, g2

MCAlbumOf == [m \in {m1, m2, m3, m4} |-> g1] @@ [m \in {n1, n2} |-> g2]

=============================================================================
