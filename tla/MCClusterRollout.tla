------------------------- MODULE MCClusterRollout -------------------------
(* Three members in two waves, and a place before them for a fourth.       *)
EXTENDS ClusterRollout

FourSlots == 1 .. 4
LastThree == 2 .. 4
=============================================================================
