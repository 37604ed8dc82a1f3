------------------------ MODULE BatchDeliveryProofs ------------------------
(***************************************************************************)
(* What BatchDelivery promises keeps every event in one place: whatever    *)
(* implements it sends no event in two batches and counts none as gone     *)
(* that was delivered.                                                     *)
(***************************************************************************)
EXTENDS BatchDelivery, TLAPS

IInv == TypeOK /\ OnePlacePerEvent

\* Nothing is anywhere at first.
LEMMA InitIInv == Init => IInv
BY DEF Init, IInv, TypeOK, OnePlacePerEvent

\* An event that is published was nowhere before.
LEMMA PublishKeeps ==
    ASSUME IInv, NEW e \in Events, Publish(e)
    PROVE  IInv'
<1> USE DEF IInv, TypeOK, Publish
<1>1. TypeOK'
  OBVIOUS
<1>2. \A n \in 1 .. Len(kept) : e \notin kept[n]
  BY DEF OnDisk
<1>3. \A b \in delivered : e \notin b
  OBVIOUS
<1>4. OnePlacePerEvent'
  BY <1>2, <1>3 DEF OnePlacePerEvent
<1> QED
  BY <1>1, <1>4

\* A batch moves from memory to the disk, behind all the others.
LEMMA KeepKeeps ==
    ASSUME IInv, NEW batch \in SUBSET held, Keep(batch)
    PROVE  IInv'
<1> USE DEF IInv, TypeOK, Keep
<1>1. TypeOK'
  <2>1. batch \in SUBSET Events
    OBVIOUS
  <2> QED
    BY <2>1
<1>2. /\ Len(kept') = Len(kept) + 1 /\ Len(kept) \in Nat
      /\ \A n \in 1 .. Len(kept) : kept'[n] = kept[n]
      /\ kept'[Len(kept) + 1] = batch
  OBVIOUS
<1>3. \A n \in 1 .. Len(kept') : n \in 1 .. Len(kept) \/ n = Len(kept) + 1
  BY <1>2
<1>4. \A n \in 1 .. Len(kept) : kept[n] \intersect batch = {}
  BY DEF OnePlacePerEvent
<1>5. \A b \in delivered : b \intersect batch = {}
  BY DEF OnePlacePerEvent
<1>6. batch \intersect (held' \union gone) = {} /\ held' \subseteq held
  BY DEF OnePlacePerEvent
<1>7. OnePlacePerEvent'
  <2>1. held' \intersect gone' = {}
    BY DEF OnePlacePerEvent
  <2>2. \A n \in 1 .. Len(kept') : kept'[n] \intersect (held' \union gone') = {}
    BY <1>2, <1>3, <1>6 DEF OnePlacePerEvent
  <2>3. \A b \in delivered' : b \intersect (held' \union gone') = {}
    BY <1>6 DEF OnePlacePerEvent
  <2>4. \A n \in 1 .. Len(kept'), b \in delivered' : kept'[n] \intersect b = {}
    BY <1>2, <1>3, <1>5 DEF OnePlacePerEvent
  <2>5. \A m, n \in 1 .. Len(kept') : m # n => kept'[m] \intersect kept'[n] = {}
    BY <1>2, <1>3, <1>4 DEF OnePlacePerEvent
  <2>6. \A b, c \in delivered' : b # c => b \intersect c = {}
    BY DEF OnePlacePerEvent
  <2> QED
    BY <2>1, <2>2, <2>3, <2>4, <2>5, <2>6 DEF OnePlacePerEvent
<1> QED
  BY <1>1, <1>7

\* What the tail of kept is.
LEMMA TailOfKept ==
    ASSUME TypeOK, kept # <<>>, kept' = Tail(kept)
    PROVE  /\ Head(kept) = kept[1] /\ 1 \in 1 .. Len(kept) /\ Head(kept) \subseteq Events
           /\ kept' \in Seq(SUBSET Events)
           /\ \A n \in 1 .. Len(kept') : /\ n + 1 \in 1 .. Len(kept) /\ n + 1 # 1
                                        /\ kept'[n] = kept[n + 1]
           /\ \A m, n \in 1 .. Len(kept') : m # n => m + 1 # n + 1
BY DEF TypeOK

\* The oldest batch on disk is delivered.
LEMMA DeliverKeptKeeps == IInv /\ DeliverKept => IInv'
<1> SUFFICES ASSUME IInv, DeliverKept PROVE IInv'
  OBVIOUS
<1> USE DEF IInv, DeliverKept
<1>1. /\ Head(kept) = kept[1] /\ 1 \in 1 .. Len(kept) /\ Head(kept) \subseteq Events
      /\ kept' \in Seq(SUBSET Events)
      /\ \A n \in 1 .. Len(kept') : /\ n + 1 \in 1 .. Len(kept) /\ n + 1 # 1
                                   /\ kept'[n] = kept[n + 1]
      /\ \A m, n \in 1 .. Len(kept') : m # n => m + 1 # n + 1
  BY TailOfKept
<1>2. TypeOK'
  BY <1>1 DEF TypeOK
<1>3. OnePlacePerEvent'
  BY <1>1 DEF OnePlacePerEvent
<1> QED
  BY <1>2, <1>3

\* A batch is delivered from memory.
LEMMA DeliverHeldKeeps ==
    ASSUME IInv, NEW batch \in SUBSET held, DeliverHeld(batch)
    PROVE  IInv'
<1> USE DEF IInv, DeliverHeld
<1>1. TypeOK'
  BY DEF TypeOK
<1>2. OnePlacePerEvent'
  BY DEF OnePlacePerEvent
<1> QED
  BY <1>1, <1>2

\* The oldest batch on disk is given up.
LEMMA EvictKeeps == IInv /\ Evict => IInv'
<1> SUFFICES ASSUME IInv, Evict PROVE IInv'
  OBVIOUS
<1> USE DEF IInv, Evict
<1>1. /\ Head(kept) = kept[1] /\ 1 \in 1 .. Len(kept) /\ Head(kept) \subseteq Events
      /\ kept' \in Seq(SUBSET Events)
      /\ \A n \in 1 .. Len(kept') : /\ n + 1 \in 1 .. Len(kept) /\ n + 1 # 1
                                   /\ kept'[n] = kept[n + 1]
      /\ \A m, n \in 1 .. Len(kept') : m # n => m + 1 # n + 1
  BY TailOfKept
<1>2. TypeOK'
  BY <1>1 DEF TypeOK
<1>3. OnePlacePerEvent'
  BY <1>1 DEF OnePlacePerEvent
<1> QED
  BY <1>2, <1>3

\* Some of what is in memory is lost.
LEMMA LoseKeeps ==
    ASSUME IInv, NEW some \in SUBSET held, Lose(some)
    PROVE  IInv'
<1> USE DEF IInv, Lose
<1>1. TypeOK'
  BY DEF TypeOK
<1>2. OnePlacePerEvent'
  BY DEF OnePlacePerEvent
<1> QED
  BY <1>1, <1>2

-----------------------------------------------------------------------------
\* No event is in two places and none in two batches, in every behaviour of
\* BatchDelivery and so of whatever implements it: the replay key of a batch, a digest
\* of its events, tells the control plane what it has had.
THEOREM OnePlace == Spec => []OnePlacePerEvent
<1>1. Init => IInv
  BY InitIInv
<1>2. IInv /\ [Next]_vars => IInv'
  <2> SUFFICES ASSUME IInv, [Next]_vars PROVE IInv'
    OBVIOUS
  <2>1. CASE Next
    BY <2>1, PublishKeeps, KeepKeeps, DeliverKeptKeeps, DeliverHeldKeeps, EvictKeeps, LoseKeeps
    DEF Next
  <2>2. CASE UNCHANGED vars
    BY <2>2 DEF IInv, TypeOK, OnePlacePerEvent, vars
  <2> QED
    BY <2>1, <2>2
<1>3. IInv => OnePlacePerEvent
  BY DEF IInv
<1> QED
  BY <1>1, <1>2, <1>3, PTL DEF Spec
=============================================================================
