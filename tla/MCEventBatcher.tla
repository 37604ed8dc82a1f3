--------------------------- MODULE MCEventBatcher ---------------------------
(* Four events in batches of up to three, a channel of two and a spool of    *)
(* two: the channel overflows, a batch fits the spool, needs an eviction, or *)
(* is too large for it.  The control plane refuses event 3.                  *)
EXTENDS EventBatcher

MCPoison == {3}
=============================================================================
