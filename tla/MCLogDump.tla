----------------------------- MODULE MCLogDump -----------------------------
(* A dump that two captures in turn try to take.                   *)
EXTENDS LogDump, TLC

CONSTANTS a1, a2
=============================================================================
