--------------------------- MODULE BatchDelivery ---------------------------
(***************************************************************************)
(* What the agent's event path promises, whatever its channel, its batches *)
(* in memory, its files and its retries do: an event is held in memory,    *)
(* kept on disk as part of one batch, delivered with that batch, or gone.  *)
(* A kept batch is delivered whole and in the order it was kept, and only  *)
(* the oldest one is ever given up.  EventBatcher implements it.           *)
(***************************************************************************)
EXTENDS Naturals, Sequences

CONSTANT Events

VARIABLES
    held,       \* events the process would take with it
    kept,       \* batches on disk that are not delivered yet, oldest first
    delivered,  \* batches the control plane has
    gone        \* events dropped, evicted or lost

vars == <<held, kept, delivered, gone>>

OnDisk == UNION {kept[n] : n \in 1 .. Len(kept)}

TypeOK ==
    /\ held \subseteq Events /\ gone \subseteq Events
    /\ kept \in Seq(SUBSET Events)
    /\ delivered \subseteq SUBSET Events

Init == held = {} /\ kept = <<>> /\ delivered = {} /\ gone = {}

-----------------------------------------------------------------------------
\* Stream.Publish: an event is taken or dropped.
Publish(e) ==
    /\ e \notin held \union gone \union OnDisk \union UNION delivered
    /\ \/ held' = held \union {e} /\ UNCHANGED gone
       \/ gone' = gone \union {e} /\ UNCHANGED held
    /\ UNCHANGED <<kept, delivered>>

\* Spool.AppendBytes
Keep(batch) ==
    /\ batch # {}
    /\ kept' = Append(kept, batch)
    /\ held' = held \ batch
    /\ UNCHANGED <<delivered, gone>>

\* A 2xx for a batch from the spool, or for one that found no room there.
DeliverKept ==
    /\ kept # <<>>
    /\ delivered' = delivered \union {Head(kept)}
    /\ kept' = Tail(kept)
    /\ UNCHANGED <<held, gone>>

DeliverHeld(batch) ==
    /\ batch # {}
    /\ delivered' = delivered \union {batch}
    /\ held' = held \ batch
    /\ UNCHANGED <<kept, gone>>

\* Spool.enforceBudget
Evict ==
    /\ kept # <<>>
    /\ gone' = gone \union Head(kept)
    /\ kept' = Tail(kept)
    /\ UNCHANGED <<held, delivered>>

\* The process ends, or a POST without a copy on disk is given up.
Lose(some) ==
    /\ gone' = gone \union some
    /\ held' = held \ some
    /\ UNCHANGED <<kept, delivered>>

Next ==
    \/ \E e \in Events : Publish(e)
    \/ \E some \in SUBSET held : Keep(some) \/ DeliverHeld(some) \/ Lose(some)
    \/ DeliverKept \/ Evict

Spec == Init /\ [][Next]_vars

-----------------------------------------------------------------------------
(* No event is in two places, and none in two batches: what is sent again  *)
(* has the replay key it had before, and what is counted as gone was never *)
(* delivered.                                                              *)
OnePlacePerEvent ==
    /\ held \intersect gone = {}
    /\ \A n \in 1 .. Len(kept) : kept[n] \intersect (held \union gone) = {}
    /\ \A b \in delivered : b \intersect (held \union gone) = {}
    /\ \A n \in 1 .. Len(kept), b \in delivered : kept[n] \intersect b = {}
    /\ \A m, n \in 1 .. Len(kept) : m # n => kept[m] \intersect kept[n] = {}
    /\ \A b, c \in delivered : b # c => b \intersect c = {}
=============================================================================
