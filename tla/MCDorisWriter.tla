---------------------------- MODULE MCDorisWriter ----------------------------
(* Three blocking calls and one that does not block, on two tables, and two  *)
(* calls of Close.  A row count is the number the call's name ends with.     *)
EXTENDS DorisWriter, TLC

CONSTANTS a2, c1, d3, e2, k1, k2, events, alerts

MCTableOf == [c \in Calls |-> IF c = e2 THEN alerts ELSE events]
MCRowsOf == (a2 :> 2) @@ (c1 :> 1) @@ (d3 :> 3) @@ (e2 :> 2)
=============================================================================
