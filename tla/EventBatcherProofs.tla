------------------------ MODULE EventBatcherProofs ------------------------
(***************************************************************************)
(* Proofs about the agent's event path, for any number of events, any      *)
(* sizes of channel, batch and spool, any attempts and any kills and       *)
(* failures.                                                               *)
(*                                                                         *)
(* BatcherInv is inductive.  Events are published in the order of their    *)
(* numbers and every stage keeps that order: what is in the channel is     *)
(* above what is pending, that is above every batch that was made          *)
(* (Ordered), and no two batches share an event (Keys).  The goroutine     *)
(* holds a batch only between two steps (Steps), and one from the spool is *)
(* its head; the spool is ordered, above everything evicted, and of what   *)
(* was spooled only its head may have arrived without having left (Queue). *)
(* What is lost is nowhere else (Apart).                                   *)
(***************************************************************************)
EXTENDS EventBatcher, SequenceTheorems, TLAPS

Holding == {"append", "post", "delete"}

Steps ==
    /\ pc # "flush" => Len(pending) < MaxRows
    /\ pc \in Holding <=> hand # <<>>
    /\ pc = "delete" => durable /\ hand \in ToSet(arrived)
    /\ durable => /\ pc \in {"post", "delete"}
                  /\ spool # <<>> /\ hand = Head(spool) /\ todo = Tail(spool)
    /\ pc = "next" => todo = spool

Below(S, T) == \A e \in S, f \in T : e < f

\* Every batch that was made, and the empty one.
Known == spooled \union ToSet(arrived) \union {hand}

Ordered ==
    /\ \A m, n \in 1 .. Len(stream) : m < n => stream[m] < stream[n]
    /\ Below(ToSet(pending), ToSet(stream))
    /\ \A b \in Known : Below(ToSet(b), ToSet(pending)) /\ Below(ToSet(b), ToSet(stream))
    /\ ToSet(stream) \union ToSet(pending) \union dropped \union lost \subseteq 1 .. published
    /\ \A b \in Known : ToSet(b) \subseteq 1 .. published

Keys == \A b, c \in Known : b # c => ToSet(b) \intersect ToSet(c) = {}

Lined ==
    /\ ToSet(spool) \subseteq spooled /\ evicted \subseteq spooled
    /\ <<>> \notin spooled \union ToSet(arrived)
    /\ \A m, n \in 1 .. Len(spool) : m < n => Below(ToSet(spool[m]), ToSet(spool[n]))
    /\ \A b \in evicted, n \in 1 .. Len(spool) : Below(ToSet(b), ToSet(spool[n]))
    /\ \A b \in spooled, n \in 1 .. Len(spool) :
          b \in ToSet(arrived) => b = spool[1] \/ Below(ToSet(b), ToSet(spool[n]))

\* A batch that is new is above what was spooled or arrived.
Fresh ==
    /\ pc = "append" =>
          \A b \in spooled \union ToSet(arrived) : Below(ToSet(b), ToSet(hand))
    /\ pc = "post" /\ ~durable => hand \notin spooled

Queue == Lined /\ Fresh

Apart ==
    LET away == dropped \union lost
    IN  /\ away \intersect (ToSet(stream) \union ToSet(pending) \union ToSet(hand)) = {}
        /\ \A b \in spooled : away \intersect ToSet(b) = {}

\* SpooledIsKept and NoEventVanishes, of the sets alone.
Kept == \A b \in spooled : b \in ToSet(spool) \union ToSet(arrived) \union evicted

Somewhere(e) ==
    \/ e \in ToSet(stream) \union ToSet(pending) \union ToSet(hand) \union dropped \union lost
    \/ \E b \in ToSet(spool) \union ToSet(arrived) \union evicted : e \in ToSet(b)

Accounted == \A e \in 1 .. published : Somewhere(e)

BatcherInv ==
    /\ TypeOK /\ Steps /\ Ordered /\ Keys /\ Queue /\ Apart
    /\ Kept /\ Accounted /\ SpoolArrivesInOrder

-----------------------------------------------------------------------------
(* Sequences, and the sets of what is in them.                             *)

\* What is in an empty, an extended and a shortened sequence.
LEMMA InSequence ==
    ASSUME NEW S, NEW s \in Seq(S)
    PROVE  /\ \A x : x \in ToSet(s) <=> \E n \in 1 .. Len(s) : s[n] = x
           /\ \A n \in 1 .. Len(s) : s[n] \in ToSet(s)
           /\ ToSet(s) \subseteq S
           /\ \A x : Contains(s, x) <=> x \in ToSet(s)
           /\ ToSet(s) = {} <=> s = <<>>
PROOF
<1>1. DOMAIN s = 1 .. Len(s) /\ \A n \in 1 .. Len(s) : s[n] \in S
  OBVIOUS
<1>2. \A x : x \in ToSet(s) <=> \E n \in 1 .. Len(s) : s[n] = x
  BY <1>1 DEF ToSet
<1>3. s = <<>> <=> Len(s) = 0
  OBVIOUS
<1>4. ToSet(s) = {} => Len(s) = 0
  <2> SUFFICES ASSUME Len(s) # 0 PROVE ToSet(s) # {}
    OBVIOUS
  <2>1. 1 \in 1 .. Len(s)
    OBVIOUS
  <2> QED BY <2>1, <1>2
<1> QED BY <1>1, <1>2, <1>3, <1>4 DEF Contains

LEMMA InNothing == ToSet(<<>>) = {}
PROOF
<1>1. <<>> \in Seq({})
  OBVIOUS
<1> QED BY <1>1, InSequence

\* An appended element is in the sequence, and nothing else is new.
LEMMA InAppended ==
    ASSUME NEW S, NEW s \in Seq(S), NEW x \in S
    PROVE  ToSet(Append(s, x)) = ToSet(s) \union {x}
PROOF
<1> DEFINE t == Append(s, x)
<1>1. /\ t \in Seq(S) /\ Len(t) = Len(s) + 1 /\ t[Len(t)] = x
      /\ \A n \in 1 .. Len(s) : t[n] = s[n]
  OBVIOUS
<1> HIDE DEF t
<1>2. Len(s) \in Nat /\ \A n \in 1 .. Len(t) : n \in 1 .. Len(s) \/ n = Len(t)
  BY <1>1
<1>3. Len(t) \in 1 .. Len(t) /\ \A n \in 1 .. Len(s) : n \in 1 .. Len(t)
  BY <1>1, <1>2
<1>4. \A y : y \in ToSet(t) <=> y \in ToSet(s) \union {x}
  BY <1>1, <1>2, <1>3, InSequence
<1> QED BY <1>4 DEF t

\* The head of a sequence and what is behind it.
LEMMA InShortened ==
    ASSUME NEW S, NEW s \in Seq(S), s # <<>>
    PROVE  /\ Head(s) = s[1] /\ 1 \in 1 .. Len(s) /\ Head(s) \in S
           /\ Tail(s) \in Seq(S) /\ Len(Tail(s)) = Len(s) - 1
           /\ \A n \in 1 .. Len(Tail(s)) : n + 1 \in 1 .. Len(s) /\ Tail(s)[n] = s[n + 1]
           /\ ToSet(s) = {Head(s)} \union ToSet(Tail(s))
PROOF
<1>1. /\ Head(s) = s[1] /\ 1 \in 1 .. Len(s) /\ Head(s) \in S
      /\ Tail(s) \in Seq(S) /\ Len(Tail(s)) = Len(s) - 1
      /\ \A n \in 1 .. Len(Tail(s)) : n + 1 \in 1 .. Len(s) /\ Tail(s)[n] = s[n + 1]
  OBVIOUS
<1>2. \A n \in 1 .. Len(s) : n = 1 \/ (n - 1 \in 1 .. Len(Tail(s)) /\ s[n] = Tail(s)[n - 1])
  BY <1>1
<1>3. /\ \A x : x \in ToSet(s) <=> \E n \in 1 .. Len(s) : s[n] = x
      /\ \A x : x \in ToSet(Tail(s)) <=> \E n \in 1 .. Len(Tail(s)) : Tail(s)[n] = x
  BY <1>1, InSequence
<1>4. ASSUME NEW y \in ToSet(s), y # Head(s) PROVE y \in ToSet(Tail(s))
  <2>1. PICK n \in 1 .. Len(s) : s[n] = y
    BY <1>3
  <2> QED BY <2>1, <1>1, <1>2, <1>3, <1>4
<1>5. Head(s) \in ToSet(s)
  BY <1>1, <1>3
<1>6. ASSUME NEW y \in ToSet(Tail(s)) PROVE y \in ToSet(s)
  <2>1. PICK n \in 1 .. Len(Tail(s)) : Tail(s)[n] = y
    BY <1>3
  <2> QED BY <2>1, <1>1, <1>3
<1>7. ToSet(s) = {Head(s)} \union ToSet(Tail(s))
  BY <1>4, <1>5, <1>6
<1> QED BY <1>1, <1>7

\* Removing the head of a sequence leaves its tail.
LEMMA WithoutHead ==
    ASSUME NEW S, NEW s \in Seq(S), s # <<>>
    PROVE  Without(s, Head(s)) = Tail(s)
PROOF
<1> DEFINE I == {n \in 1 .. Len(s) : s[n] = Head(s)}
<1>1. 1 \in I /\ \A n \in I : 1 =< n /\ n \in Int
  BY InShortened
<1>2. Min(I) = 1
  BY <1>1 DEF Min
<1>3. SelectInSeq(s, LAMBDA v : v = Head(s)) = 1
  BY <1>1, <1>2 DEF SelectInSeq
<1>4. RemoveAt(s, 1) = Tail(s)
  BY DEF RemoveAt
<1> QED BY <1>1, <1>3, <1>4 DEF Without, RemoveFirst

-----------------------------------------------------------------------------
(* Types, and where the goroutine is.                                      *)

\* What TypeOK says of the sets the sequences hold.
LEMMA TypedSets ==
    ASSUME TypeOK
    PROVE  /\ ToSet(spool) \subseteq Batch /\ ToSet(arrived) \subseteq Batch /\ Known \subseteq Batch
           /\ \A b \in Batch : ToSet(b) \subseteq Events /\ (ToSet(b) = {} <=> b = <<>>)
           /\ ToSet(stream) \subseteq Events /\ ToSet(pending) \subseteq Events
           /\ \A b : Contains(spool, b) <=> b \in ToSet(spool)
           /\ \A b : Contains(arrived, b) <=> b \in ToSet(arrived)
           /\ \A b : b \in ToSet(arrived) <=> \E n \in 1 .. Len(arrived) : arrived[n] = b
           /\ \A b : b \in ToSet(spool) <=> \E n \in 1 .. Len(spool) : spool[n] = b
PROOF
<1>1. ToSet(spool) \subseteq Batch /\ ToSet(arrived) \subseteq Batch
  BY InSequence DEF TypeOK
<1>2. \A b \in Batch : ToSet(b) \subseteq Events /\ (ToSet(b) = {} <=> b = <<>>)
  BY InSequence DEF Batch
<1>3. ToSet(stream) \subseteq Events /\ ToSet(pending) \subseteq Events
  BY InSequence DEF TypeOK, Batch
<1>4. \A b : /\ Contains(spool, b) <=> b \in ToSet(spool)
             /\ b \in ToSet(spool) <=> \E n \in 1 .. Len(spool) : spool[n] = b
  BY InSequence DEF TypeOK
<1>5. \A b : /\ Contains(arrived, b) <=> b \in ToSet(arrived)
             /\ b \in ToSet(arrived) <=> \E n \in 1 .. Len(arrived) : arrived[n] = b
  BY InSequence DEF TypeOK
<1> QED BY <1>1, <1>2, <1>3, <1>4, <1>5 DEF Known, TypeOK

\* What is deleted is the head of the spool.
LEMMA DeletesHead ==
    ASSUME TypeOK, Steps, pc = "delete"
    PROVE  /\ spool # <<>> /\ hand = Head(spool) /\ todo = Tail(spool)
           /\ Without(spool, hand) = Tail(spool)
           /\ hand \in ToSet(arrived)
BY WithoutHead DEF TypeOK, Steps

\* What a step reads from and writes to its sequences.
LEMMA Pieces ==
    ASSUME TypeOK
    PROVE  /\ <<>> \in Batch /\ <<>> \in Seq(Batch) /\ <<>> \in Seq(Events)
           /\ spool # <<>> => Head(spool) \in Batch /\ Tail(spool) \in Seq(Batch)
           /\ todo # <<>> => Head(todo) \in Batch /\ Tail(todo) \in Seq(Batch)
           /\ \A b \in Batch : Append(spool, b) \in Seq(Batch) /\ Append(arrived, b) \in Seq(Batch)
           /\ ToSet(hand) \subseteq Events
           /\ ToSet(stream) \subseteq Events /\ ToSet(pending) \subseteq Events
           /\ Len(pending) \in Nat /\ Len(stream) \in Nat
PROOF
<1>1. <<>> \in Batch /\ <<>> \in Seq(Batch) /\ <<>> \in Seq(Events)
  BY DEF Batch
<1>2. /\ spool # <<>> => Head(spool) \in Batch /\ Tail(spool) \in Seq(Batch)
      /\ todo # <<>> => Head(todo) \in Batch /\ Tail(todo) \in Seq(Batch)
      /\ \A b \in Batch : Append(spool, b) \in Seq(Batch) /\ Append(arrived, b) \in Seq(Batch)
  BY DEF TypeOK
<1>3. ToSet(hand) \subseteq Events
  BY TypedSets DEF TypeOK
<1>4. Len(pending) \in Nat /\ Len(stream) \in Nat
  BY DEF TypeOK, Batch
<1> QED BY <1>1, <1>2, <1>3, <1>4, TypedSets

\* The part of TypeOK that is about the goroutine.
RunTyped ==
    /\ pc \in Places
    /\ cont \in {"select", "flush", "exited"}
    /\ todo \in Seq(Batch)
    /\ hand \in Batch
    /\ durable \in BOOLEAN
    /\ attempt \in 0 .. MaxAttempts

LEMMA GotoTyped ==
    ASSUME TypeOK, NEW to \in Places, NEW then \in {"select", "flush", "exited"}, Goto(to, then)
    PROVE  RunTyped'
PROOF
<1>1. 0 \in 0 .. MaxAttempts
  BY BatcherAssumption
<1> QED BY <1>1, Pieces DEF Goto, RunTyped

LEMMA ReturnTyped ==
    ASSUME TypeOK, Return
    PROVE  RunTyped'
PROOF
<1>1. cont \in Places /\ (IF cont = "flush" THEN "select" ELSE cont) \in {"select", "flush", "exited"}
  BY DEF TypeOK, Places
<1> QED BY <1>1, GotoTyped DEF Return

LEMMA RetryTyped ==
    ASSUME TypeOK, Retry
    PROVE  RunTyped' /\ lost' \in SUBSET Events
PROOF
<1>1. CASE attempt + 1 < MaxAttempts
  BY <1>1, BatcherAssumption DEF Retry, TypeOK, RunTyped
<1>2. CASE ~(attempt + 1 < MaxAttempts)
  <2>1. Return /\ lost' = IF durable THEN lost ELSE lost \union ToSet(hand)
    BY <1>2 DEF Retry, GiveUp
  <2>2. lost \in SUBSET Events /\ ToSet(hand) \subseteq Events
    BY Pieces DEF TypeOK
  <2> QED BY <2>1, <2>2, ReturnTyped
<1> QED BY <1>1, <1>2

LEMMA ArrivesTyped ==
    ASSUME TypeOK, Arrives(hand)
    PROVE  arrived' \in Seq(Batch)
BY Pieces DEF Arrives, TypeOK

LEMMA FailTyped ==
    ASSUME TypeOK, Fail
    PROVE  stops' \in 0 .. MaxStops /\ failures' \in 0 .. MaxFailures
BY BatcherAssumption DEF Fail, TypeOK

LEMMA PublishTyped ==
    ASSUME TypeOK, Publish
    PROVE  TypeOK'
PROOF
<1>1. published + 1 \in Events /\ published' \in 0 .. MaxEvents
  BY BatcherAssumption DEF TypeOK, Publish, Events
<1>2. stream' \in Seq(Events) /\ Len(stream') =< BufferSize
  <2>1. CASE Len(stream) < BufferSize
    <3>1. stream' = Append(stream, published + 1)
      BY <2>1 DEF Publish
    <3>2. stream' \in Seq(Events) /\ Len(stream') = Len(stream) + 1 /\ Len(stream) \in Nat
      BY <3>1, <1>1 DEF TypeOK
    <3> QED BY <3>2, <2>1, BatcherAssumption
  <2>2. CASE ~(Len(stream) < BufferSize)
    BY <2>2 DEF TypeOK, Publish
  <2> QED BY <2>1, <2>2
<1>3. dropped' \in SUBSET Events
  BY <1>1 DEF TypeOK, Publish
<1> QED
  BY <1>1, <1>2, <1>3 DEF TypeOK, Publish, runVars, serverVars, faultVars

\* What append does to the types, and to the size of the batch.
LEMMA ReceiveTyped ==
    ASSUME TypeOK, Steps, Receive
    PROVE  TypeOK' /\ Len(pending') = Len(pending) + 1
PROOF
<1>1. stream' \in Seq(Events) /\ Len(stream') =< BufferSize /\ Head(stream) \in Events
  BY BatcherAssumption, InShortened DEF TypeOK, Receive
<1>2. pending' \in Batch /\ Len(pending') = Len(pending) + 1 /\ Len(pending) \in Nat
  BY <1>1 DEF TypeOK, Receive, Batch
<1>3. Len(pending') =< MaxRows
  BY <1>2, BatcherAssumption DEF Steps, Receive, TypeOK
<1>4. RunTyped'
  <2>1. (IF Len(pending) + 1 >= MaxRows THEN "flush" ELSE "select") \in Places
    BY DEF Places
  <2> QED BY <2>1, GotoTyped DEF Receive
<1> QED
  BY <1>1, <1>2, <1>3, <1>4 DEF TypeOK, RunTyped, Receive, lossVars, serverVars, faultVars

\* A process that ends leaves the spool and what arrived, and nothing in memory.
LEMMA EndTyped ==
    ASSUME TypeOK, ProcessEnds
    PROVE  /\ RunTyped' /\ lost' \in SUBSET Events
           /\ stream' = <<>> /\ pending' = <<>>
           /\ UNCHANGED <<published, spool, spooled, signal, dropped, evicted, arrived, rejected>>
PROOF
<1>1. RunTyped'
  BY GotoTyped DEF ProcessEnds, Places
<1>2. lost' \in SUBSET Events
  BY Pieces DEF ProcessEnds, InMemory, TypeOK
<1> QED BY <1>1, <1>2 DEF ProcessEnds, serverVars

LEMMA StepTyped ==
    ASSUME TypeOK, Steps, Next
    PROVE  TypeOK'
PROOF
<1> USE DEF memVars, runVars, lossVars, serverVars, faultVars
<1>0. <<>> \in Batch /\ <<>> \in Seq(Events) /\ Len(<<>>) = 0 /\ 0 \in 0 .. MaxAttempts
      /\ 0 =< MaxRows /\ 0 =< BufferSize
  BY Pieces, BatcherAssumption
<1>1. CASE Tick
  BY <1>1, GotoTyped DEF TypeOK, RunTyped, Tick, Places
<1>2. CASE Quit
  BY <1>2, GotoTyped DEF TypeOK, RunTyped, Quit, Places
<1>3. CASE FlushNothing
  BY <1>3, ReturnTyped DEF TypeOK, RunTyped, FlushNothing
<1>4. CASE AppendFails
  BY <1>4, FailTyped DEF TypeOK, RunTyped, AppendFails, Places
<1>5. CASE DrainReturns
  BY <1>5, ReturnTyped, FailTyped DEF TypeOK, RunTyped, DrainReturns
<1>6. CASE ListRecords
  BY <1>6 DEF TypeOK, RunTyped, ListRecords, Places
<1>7. CASE ReadRecord
  BY <1>7, <1>0, Pieces DEF TypeOK, RunTyped, ReadRecord, Places
<1>8. CASE Shutdown
  BY <1>8, BatcherAssumption DEF TypeOK, RunTyped, Shutdown
<1>9. CASE Restart
  BY <1>9, GotoTyped DEF TypeOK, RunTyped, Restart, Places
<1>10. CASE Flush
  BY <1>10, <1>0 DEF TypeOK, RunTyped, Flush, Places
<1>11. CASE Evict
  BY <1>11, Pieces DEF TypeOK, RunTyped, Evict
<1>12. CASE AppendRecord
  BY <1>12, GotoTyped, Pieces DEF TypeOK, RunTyped, AppendRecord, Places
<1>13. CASE DeleteRecord
  BY <1>13, DeletesHead, ReturnTyped, FailTyped, Pieces, <1>0 DEF TypeOK, RunTyped, DeleteRecord,
     Places
<1>14. CASE PostAccepted
  BY <1>14, ArrivesTyped, ReturnTyped DEF TypeOK, RunTyped, PostAccepted, Places
<1>15. CASE PostFails
  BY <1>15, ArrivesTyped, RetryTyped, FailTyped DEF TypeOK, RunTyped, PostFails
<1>16. CASE PostRejected
  BY <1>16, RetryTyped DEF TypeOK, RunTyped, PostRejected
<1>17. CASE PostAborted
  BY <1>17, ReturnTyped, Pieces DEF TypeOK, RunTyped, PostAborted, GiveUp
<1>18. CASE Kill
  <2>1. stops' \in 0 .. MaxStops /\ failures' \in 0 .. MaxFailures
    BY <1>18, BatcherAssumption DEF TypeOK, Kill
  <2> QED BY <1>18, <2>1, EndTyped, <1>0 DEF TypeOK, RunTyped, Kill
<1>19. CASE Exit
  BY <1>19, EndTyped, <1>0 DEF TypeOK, RunTyped, Exit
<1> QED
  BY PublishTyped, ReceiveTyped, <1>1, <1>2, <1>3, <1>4, <1>5, <1>6, <1>7, <1>8, <1>9, <1>10,
     <1>11, <1>12, <1>13, <1>14, <1>15, <1>16, <1>17, <1>18, <1>19
  DEF Next, Run, Drain, Post

-----------------------------------------------------------------------------
(* Where the goroutine is, and what it holds there.                        *)

\* drainSpool, flush or the process ends: nothing is held.
LEMMA LettingGo ==
    ASSUME NEW to \in Places \ Holding, NEW then, to # "next", Goto(to, then),
           Len(pending') < MaxRows
    PROVE  Steps'
BY DEF Goto, Steps, Holding

LEMMA ReturnLetsGo ==
    ASSUME TypeOK, Return
    PROVE  hand' = <<>> /\ durable' = FALSE /\ pc' \in {"select", "flush", "exited"}
BY DEF Return, Goto, TypeOK

\* drainSpool and flush return with nothing in hand.
LEMMA ReturnSteps ==
    ASSUME TypeOK, Steps, Return, pc # "flush" \/ pending = <<>>, UNCHANGED pending
    PROVE  Steps'
PROOF
<1>1. cont \in Places \ Holding /\ cont # "next"
  BY DEF TypeOK, Places, Holding
<1>2. Len(pending') < MaxRows
  BY BatcherAssumption DEF Steps
<1> QED BY <1>1, <1>2, LettingGo DEF Return

\* An attempt that failed is repeated or is the last one.
LEMMA RetrySteps ==
    ASSUME TypeOK, Steps, pc = "post", Retry, UNCHANGED <<pending, spool>>,
           ToSet(arrived) \subseteq ToSet(arrived')
    PROVE  Steps'
PROOF
<1>1. CASE attempt + 1 < MaxAttempts
  BY <1>1 DEF Retry, Steps
<1>2. CASE ~(attempt + 1 < MaxAttempts)
  BY <1>2, ReturnSteps DEF Retry, GiveUp
<1> QED BY <1>1, <1>2

\* What the control plane accepts is known to have arrived.
LEMMA ArrivalIsRecorded ==
    ASSUME TypeOK, Arrives(hand)
    PROVE  ToSet(arrived') = ToSet(arrived) \union {hand}
BY InAppended, TypedSets DEF Arrives, TypeOK

LEMMA ReceiveSteps ==
    ASSUME TypeOK, Steps, Receive
    PROVE  Steps'
PROOF
<1>1. Len(pending') = Len(pending) + 1 /\ Len(pending) \in Nat
  BY ReceiveTyped, Pieces
<1>2. pc' \in {"select", "flush"} /\ hand' = <<>> /\ durable' = FALSE
      /\ (pc' # "flush" => Len(pending) + 1 < MaxRows)
  BY <1>1, BatcherAssumption DEF Receive, Goto
<1> QED BY <1>1, <1>2 DEF Steps, Holding

LEMMA DeleteSteps ==
    ASSUME TypeOK, Steps, DeleteRecord
    PROVE  Steps'
PROOF
<1>1. CASE Return
  BY <1>1, ReturnSteps DEF DeleteRecord, memVars
<1>2. CASE /\ spool' = Tail(spool) /\ pc' = "next" /\ UNCHANGED <<todo, pending>>
           /\ hand' = <<>> /\ durable' = FALSE
  BY <1>2, DeletesHead DEF DeleteRecord, Steps, Holding
<1> QED BY <1>1, <1>2, DeletesHead DEF DeleteRecord, memVars

LEMMA StepSteps ==
    ASSUME TypeOK, Steps, Queue, Next
    PROVE  Steps'
PROOF
<1> USE DEF memVars, runVars, lossVars, serverVars, faultVars
<1>0. 0 < MaxRows /\ Len(<<>>) = 0
  BY BatcherAssumption
<1>1. CASE Publish
  BY <1>1 DEF Publish, Steps
<1>2. CASE Tick
  BY <1>2, LettingGo DEF Tick, Places, Holding, Steps
<1>3. CASE Quit
  BY <1>3, LettingGo DEF Quit, Places, Holding, Steps
<1>4. CASE FlushNothing
  BY <1>4, ReturnSteps DEF FlushNothing
<1>5. CASE Flush
  BY <1>5, <1>0 DEF Flush, Steps, Holding
<1>6. CASE Evict
  BY <1>6 DEF Evict, Steps, Holding
<1>7. CASE AppendRecord
  BY <1>7, LettingGo DEF AppendRecord, Places, Holding, Steps
<1>8. CASE AppendFails
  BY <1>8 DEF AppendFails, Steps, Holding
<1>9. CASE DrainReturns
  BY <1>9, ReturnSteps DEF DrainReturns
<1>10. CASE ListRecords
  BY <1>10 DEF ListRecords, Steps, Holding
<1>11. CASE ReadRecord
  <2>1. Head(spool) # <<>>
    BY <1>11, TypedSets, InShortened DEF ReadRecord, Queue, Lined, Steps, TypeOK
  <2> QED BY <1>11, <2>1 DEF ReadRecord, Steps, Holding
<1>12. CASE PostAccepted
  <2>1. CASE durable
    BY <1>12, <2>1, ArrivalIsRecorded DEF PostAccepted, Steps, Holding
  <2>2. CASE ~durable
    BY <1>12, <2>2, ReturnSteps DEF PostAccepted
  <2> QED BY <2>1, <2>2
<1>13. CASE PostFails
  BY <1>13, RetrySteps, ArrivalIsRecorded DEF PostFails
<1>14. CASE PostRejected
  BY <1>14, RetrySteps DEF PostRejected
<1>15. CASE PostAborted
  BY <1>15, ReturnSteps DEF PostAborted, GiveUp
<1>16. CASE Shutdown
  BY <1>16 DEF Shutdown, Steps
<1>17. CASE Kill \/ Exit
  BY <1>17, <1>0, LettingGo DEF Kill, Exit, ProcessEnds, Places, Holding
<1>18. CASE Restart
  BY <1>18, LettingGo DEF Restart, Places, Holding, Steps
<1> QED
  BY <1>1, <1>2, <1>3, <1>4, <1>5, <1>6, <1>7, <1>8, <1>9, <1>10, <1>11, <1>12, <1>13, <1>14,
     <1>15, <1>16, <1>17, <1>18, ReceiveSteps, DeleteSteps
  DEF Next, Run, Drain, Post

-----------------------------------------------------------------------------
(* What the steps do to the events: the actions of the goroutine that      *)
(* treat them alike are taken together.                                    *)

\* The goroutine lets go of what it holds, or goes on holding it.
LetsGo == hand' = <<>> /\ durable' = FALSE
Keeps == hand' = hand /\ durable' = durable

\* No event moves.
Quiet ==
    /\ UNCHANGED <<published, memVars, spool, spooled, lossVars, arrived>>
    /\ \/ Keeps /\ (pc' = "append" => pc = "append")
       \/ LetsGo /\ (hand = <<>> \/ durable)
       \/ hand = <<>> /\ spool # <<>> /\ hand' = Head(spool) /\ durable'

\* The record that has arrived is removed.
Removes ==
    /\ pc = "delete" /\ spool' = Tail(spool)
    /\ LetsGo
    /\ UNCHANGED <<published, memVars, spooled, lossVars, arrived>>

\* A POST: the batch in hand may arrive, and may be held on to or be given up.
Posts ==
    /\ pc = "post" /\ pc' # "append"
    /\ \/ UNCHANGED arrived
       \/ hand \notin ToSet(arrived) /\ arrived' = Append(arrived, hand)
    /\ \/ Keeps /\ UNCHANGED lost
       \/ LetsGo /\ durable /\ UNCHANGED lost
       \/ LetsGo /\ ~durable /\ lost' = lost \union ToSet(hand)
       \/ LetsGo /\ ~durable /\ hand \in ToSet(arrived') /\ UNCHANGED lost
    /\ UNCHANGED <<published, memVars, spool, spooled, dropped, evicted>>

\* The process ends.
Ends ==
    /\ lost' = lost \union InMemory
    /\ stream' = <<>> /\ pending' = <<>>
    /\ LetsGo
    /\ UNCHANGED <<published, spool, spooled, dropped, evicted, arrived>>

LEMMA ReturnQuiet ==
    ASSUME TypeOK, Steps, Return
    PROVE  LetsGo /\ pc' \notin Holding
BY DEF Return, Goto, LetsGo, TypeOK, Holding

\* A failed POST is tried again, or given up: only a batch that is not on disk is lost.
LEMMA RetryKinds ==
    ASSUME TypeOK, Steps, Retry \/ GiveUp, pc = "post"
    PROVE  /\ pc' # "append"
           /\ \/ Keeps /\ UNCHANGED lost
              \/ LetsGo /\ durable /\ UNCHANGED lost
              \/ LetsGo /\ ~durable /\ lost' = lost \union ToSet(hand)
PROOF
<1>1. CASE GiveUp
  BY <1>1, ReturnQuiet DEF GiveUp, Holding, TypeOK
<1>2. CASE Retry /\ attempt + 1 < MaxAttempts
  BY <1>2 DEF Retry, Keeps
<1> QED BY <1>1, <1>2 DEF Retry

\* A batch arrives for the first time, or again.
LEMMA ArrivalKinds ==
    ASSUME TypeOK, Arrives(hand)
    PROVE  /\ \/ UNCHANGED arrived
              \/ hand \notin ToSet(arrived) /\ arrived' = Append(arrived, hand)
           /\ hand \in ToSet(arrived')
BY TypedSets, ArrivalIsRecorded DEF Arrives

\* The steps, by what they do to the hand: the lemmas below take one kind at a time.
LEMMA StepKinds ==
    ASSUME TypeOK, Steps, Next
    PROVE  \/ Publish \/ Receive \/ Flush \/ Evict \/ AppendRecord
           \/ Quiet \/ Removes \/ Posts \/ Ends
PROOF
<1> USE DEF memVars, runVars, lossVars, serverVars, faultVars
<1>1. CASE Tick \/ Quit \/ Restart
  BY <1>1 DEF Tick, Quit, Restart, Goto, Quiet, LetsGo, Steps, Holding
<1>2. CASE FlushNothing
  BY <1>2, ReturnQuiet DEF FlushNothing, Quiet, Steps, Holding
<1>3. CASE AppendFails \/ Shutdown \/ ListRecords
  BY <1>3 DEF AppendFails, Shutdown, ListRecords, Quiet, Keeps
<1>4. CASE DrainReturns
  BY <1>4, ReturnQuiet DEF DrainReturns, Quiet, Steps, Holding
<1>5. CASE ReadRecord
  <2>1. hand = <<>> /\ todo = spool
    BY <1>5 DEF ReadRecord, Steps, Holding
  <2> QED BY <1>5, <2>1 DEF ReadRecord, Quiet
<1>6. CASE DeleteRecord
  <2>1. CASE spool' = Without(spool, hand) /\ hand' = <<>> /\ durable' = FALSE
    BY <1>6, <2>1, DeletesHead DEF DeleteRecord, Removes, LetsGo
  <2>2. CASE Return /\ UNCHANGED spool
    BY <1>6, <2>2, ReturnQuiet DEF DeleteRecord, Quiet, Steps
  <2> QED BY <1>6, <2>1, <2>2 DEF DeleteRecord
<1>7. CASE PostAccepted
  <2>1. CASE durable
    BY <1>7, <2>1, ArrivalKinds DEF PostAccepted, Posts, Keeps
  <2>2. CASE ~durable
    BY <1>7, <2>2, ArrivalKinds, ReturnQuiet DEF PostAccepted, Posts, Holding
  <2> QED BY <2>1, <2>2
<1>8. CASE PostFails
  BY <1>8, ArrivalKinds, RetryKinds DEF PostFails, Posts
<1>9. CASE PostRejected
  BY <1>9, RetryKinds DEF PostRejected, Posts
<1>10. CASE PostAborted
  BY <1>10, RetryKinds DEF PostAborted, Posts
<1>11. CASE Kill \/ Exit
  BY <1>11 DEF Kill, Exit, ProcessEnds, Goto, Ends, LetsGo
<1> QED
  BY <1>1, <1>2, <1>3, <1>4, <1>5, <1>6, <1>7, <1>8, <1>9, <1>10, <1>11
  DEF Next, Run, Drain, Post

\* A POST adds the batch in hand to what has arrived, or nothing.
LEMMA PostArrives ==
    ASSUME TypeOK, Posts
    PROVE  /\ ToSet(arrived) \subseteq ToSet(arrived')
           /\ ToSet(arrived') \subseteq ToSet(arrived) \union {hand}
PROOF
<1>1. hand \in Batch /\ arrived \in Seq(Batch)
  BY DEF TypeOK
<1>2. ToSet(Append(arrived, hand)) = ToSet(arrived) \union {hand}
  BY <1>1, InAppended
<1> QED BY <1>2 DEF Posts

-----------------------------------------------------------------------------
(* Order, and one key per event.                                           *)

\* Nothing is known that was not, and nothing is published.
LEMMA KnownKeepsOrder ==
    ASSUME Ordered, Keys, Known' \subseteq Known \union {<<>>}, UNCHANGED published,
           ToSet(stream') \subseteq ToSet(stream), ToSet(pending') \subseteq ToSet(pending),
           stream' = stream \/ stream' = <<>>,
           dropped' \union lost' \subseteq 1 .. published
    PROVE  Ordered' /\ Keys'
PROOF
<1>1. \A b \in Known' : b \in Known \/ ToSet(b) = {}
  BY InNothing
<1>2. Keys'
  BY <1>1 DEF Keys
<1>3. \A m, n \in 1 .. Len(stream') : m < n => stream'[m] < stream'[n]
  BY DEF Ordered
<1>4. Below(ToSet(pending'), ToSet(stream'))
  BY DEF Ordered, Below
<1>5. \A b \in Known' : Below(ToSet(b), ToSet(pending')) /\ Below(ToSet(b), ToSet(stream'))
  BY <1>1 DEF Ordered, Below
<1>6. \A b \in Known' : ToSet(b) \subseteq 1 .. published
  BY <1>1 DEF Ordered
<1> QED BY <1>2, <1>3, <1>4, <1>5, <1>6 DEF Ordered

\* A new event has the highest number.
LEMMA PublishOrder ==
    ASSUME TypeOK, Ordered, Keys, Publish
    PROVE  Ordered' /\ Keys'
PROOF
<1>1. Known' = Known /\ UNCHANGED <<pending, lost>>
  BY DEF Publish, Known, runVars, serverVars
<1>2. 1 .. published' = 1 .. published \union {published + 1} /\ published \in Nat
  <2>1. published \in Nat /\ published' = published + 1
    BY BatcherAssumption DEF Publish, TypeOK
  <2>2. \A n \in Nat : 1 .. n + 1 = 1 .. n \union {n + 1}
    OBVIOUS
  <2> QED BY <2>1, <2>2
<1>3. \A e \in 1 .. published : e < published + 1
  BY <1>2
<1>4. CASE stream' = stream
  <2>1. dropped' \subseteq dropped \union {published + 1}
    BY <1>4 DEF Publish
  <2> QED BY <1>1, <1>2, <1>4, <2>1 DEF Ordered, Keys
<1>5. CASE stream' = Append(stream, published + 1) /\ UNCHANGED dropped
  <2>1. published + 1 \in Events /\ stream \in Seq(Events)
    BY BatcherAssumption DEF Publish, TypeOK, Events
  <2>2. ToSet(stream') = ToSet(stream) \union {published + 1}
    BY <1>5, <2>1, InAppended
  <2>3. /\ Len(stream') = Len(stream) + 1 /\ stream'[Len(stream) + 1] = published + 1
        /\ \A n \in 1 .. Len(stream) : stream'[n] = stream[n]
        /\ Len(stream) \in Nat
    BY <1>5, <2>1
  <2>4. \A n \in 1 .. Len(stream) : stream[n] < published + 1
    BY <1>3, <2>1, InSequence DEF Ordered
  <2>5. \A m, n \in 1 .. Len(stream') : m < n => stream'[m] < stream'[n]
    <3> SUFFICES ASSUME NEW m \in 1 .. Len(stream'), NEW n \in 1 .. Len(stream'), m < n
                 PROVE  stream'[m] < stream'[n]
      OBVIOUS
    <3>1. m \in 1 .. Len(stream) /\ (n \in 1 .. Len(stream) \/ n = Len(stream) + 1)
      BY <2>3
    <3> QED BY <3>1, <2>3, <2>4 DEF Ordered
  <2>6. Below(ToSet(pending), ToSet(stream'))
    BY <1>3, <2>2 DEF Ordered, Below
  <2>7. \A b \in Known : Below(ToSet(b), ToSet(stream'))
    BY <1>3, <2>2 DEF Ordered, Below
  <2>8. Ordered'
    BY <1>1, <1>2, <1>5, <2>2, <2>5, <2>6, <2>7 DEF Ordered
  <2> QED BY <1>1, <2>8 DEF Keys
<1> QED BY <1>4, <1>5 DEF Publish

\* The oldest event of the channel becomes the last of the pending batch.
LEMMA ReceiveMoves ==
    ASSUME TypeOK, Receive
    PROVE  /\ ToSet(stream) = {Head(stream)} \union ToSet(stream')
           /\ ToSet(pending') = ToSet(pending) \union {Head(stream)}
           /\ Head(stream) = stream[1] /\ 1 \in 1 .. Len(stream)
           /\ \A n \in 1 .. Len(stream') : n + 1 \in 1 .. Len(stream) /\ stream'[n] = stream[n + 1]
           /\ \A e \in ToSet(stream') : \E n \in 1 .. Len(stream') : stream'[n] = e
           /\ hand' = <<>> /\ durable' = FALSE
PROOF
<1>1. stream \in Seq(Events) /\ stream # <<>> /\ stream' = Tail(stream)
  BY DEF Receive, TypeOK
<1>2. pending \in Seq(Events) /\ pending' = Append(pending, Head(stream))
  BY DEF Receive, TypeOK, Batch
<1>3. stream' \in Seq(Events) /\ Head(stream) \in Events
  BY <1>1, InShortened
<1>4. ToSet(pending') = ToSet(pending) \union {Head(stream)}
  BY <1>2, <1>3, InAppended
<1>5. \A e \in ToSet(stream') : \E n \in 1 .. Len(stream') : stream'[n] = e
  BY <1>3, InSequence
<1> QED BY <1>1, <1>4, <1>5, InShortened DEF Receive, Goto

\* It is below all that stays in the channel and above every batch made.
LEMMA ReceiveOrder ==
    ASSUME TypeOK, Ordered, Keys, Receive
    PROVE  Ordered' /\ Keys'
PROOF
<1>1. Known' \subseteq Known \union {<<>>} /\ UNCHANGED <<published, dropped, lost>>
  BY ReceiveMoves DEF Receive, Known, lossVars, serverVars
<1>2. \A b \in Known' : b \in Known \/ ToSet(b) = {}
  BY <1>1, InNothing
<1>3. \A m, n \in 1 .. Len(stream') : m < n => stream'[m] < stream'[n]
  BY ReceiveMoves DEF Ordered
<1>4. \A e \in ToSet(stream') : Head(stream) < e
  BY ReceiveMoves DEF Ordered
<1>5. Below(ToSet(pending'), ToSet(stream'))
  BY <1>4, ReceiveMoves DEF Ordered, Below
<1>6. \A b \in Known' : Below(ToSet(b), ToSet(pending')) /\ Below(ToSet(b), ToSet(stream'))
  BY <1>2, ReceiveMoves DEF Ordered, Below
<1>7. Ordered'
  BY <1>1, <1>2, <1>3, <1>5, <1>6, ReceiveMoves DEF Ordered
<1>8. Keys'
  BY <1>2 DEF Keys
<1> QED BY <1>7, <1>8

\* The pending batch becomes a batch: it is above all earlier ones, and shares none of their events.
LEMMA FlushOrder ==
    ASSUME TypeOK, Ordered, Keys, Flush
    PROVE  Ordered' /\ Keys'
PROOF
<1>1. Known' \subseteq Known \union {pending} /\ UNCHANGED <<published, stream, dropped, lost>>
  BY DEF Flush, Known, lossVars, serverVars
<1>2. ToSet(pending') = {}
  BY InNothing DEF Flush
<1>3. \A e \in ToSet(pending) : ~(e < e)
  BY TypedSets DEF Events
<1>4. \A b \in Known : ToSet(b) \intersect ToSet(pending) = {}
  BY <1>3 DEF Ordered, Below
<1>5. Keys'
  BY <1>1, <1>4 DEF Keys
<1>6. Ordered'
  BY <1>1, <1>2 DEF Ordered, Below
<1> QED BY <1>5, <1>6

\* Of what is known, a step keeps or forgets batches.
LEMMA StepOrder ==
    ASSUME TypeOK, Steps, Ordered, Keys, Queue, Next
    PROVE  Ordered' /\ Keys'
PROOF
<1> USE DEF memVars, lossVars, serverVars
<1>1. CASE AppendRecord \/ Evict
  <2>1. Known' \subseteq Known \union {<<>>}
    BY <1>1 DEF AppendRecord, Evict, Goto, Known, runVars
  <2> QED BY <1>1, <2>1, KnownKeepsOrder DEF AppendRecord, Evict, Ordered
<1>2. CASE Quiet \/ Removes
  <2>1. spool # <<>> => Head(spool) \in Known
    BY InShortened DEF TypeOK, Queue, Lined, Known
  <2>2. Known' \subseteq Known \union {<<>>}
    BY <1>2, <2>1 DEF Quiet, Removes, Keeps, LetsGo, Known
  <2> QED BY <1>2, <2>2, KnownKeepsOrder DEF Quiet, Removes, Ordered
<1>3. CASE Posts
  <2>1. ToSet(arrived') \subseteq ToSet(arrived) \union {hand}
    BY <1>3, PostArrives
  <2>2. Known' \subseteq Known \union {<<>>}
    BY <1>3, <2>1 DEF Posts, Keeps, LetsGo, Known
  <2>3. lost' \subseteq lost \union ToSet(hand)
    BY <1>3 DEF Posts
  <2>4. dropped' \union lost' \subseteq 1 .. published
    BY <1>3, <2>3 DEF Posts, Ordered, Known
  <2> QED BY <1>3, <2>2, <2>4, KnownKeepsOrder DEF Posts
<1>4. CASE Ends
  <2>1. Known' \subseteq Known \union {<<>>}
    BY <1>4 DEF Ends, LetsGo, Known
  <2>2. dropped' \union lost' \subseteq 1 .. published
    BY <1>4 DEF Ends, InMemory, Ordered, Known
  <2> QED BY <1>4, <2>1, <2>2, KnownKeepsOrder, InNothing DEF Ends
<1> QED
  BY <1>1, <1>2, <1>3, <1>4, StepKinds, PublishOrder, ReceiveOrder, FlushOrder

-----------------------------------------------------------------------------
(* The queue on the disk.                                                  *)

\* Nothing is above itself.
LEMMA NotBelowItself ==
    ASSUME NEW b \in Batch, b # <<>>
    PROVE  ~Below(ToSet(b), ToSet(b))
PROOF
<1>1. ToSet(b) \subseteq Events /\ ToSet(b) # {}
  BY InSequence DEF Batch
<1>2. \A e \in Events : ~(e < e)
  BY DEF Events
<1> QED BY <1>1, <1>2 DEF Below

\* The oldest record leaves, evicted or removed.
LEMMA TailIsLined ==
    ASSUME TypeOK, Lined, spool # <<>>, spool' = Tail(spool), UNCHANGED <<spooled, arrived>>,
           evicted' = evicted \/ evicted' = evicted \union {Head(spool)}
    PROVE  Lined'
PROOF
<1>1. /\ Head(spool) = spool[1] /\ 1 \in 1 .. Len(spool)
      /\ \A n \in 1 .. Len(spool') : n + 1 \in 1 .. Len(spool) /\ spool'[n] = spool[n + 1]
      /\ ToSet(spool) = {Head(spool)} \union ToSet(spool')
  BY InShortened DEF TypeOK
<1>2. \A n \in 1 .. Len(spool') : Below(ToSet(Head(spool)), ToSet(spool'[n]))
  BY <1>1 DEF Lined
<1>3. \A b \in evicted', n \in 1 .. Len(spool') : Below(ToSet(b), ToSet(spool'[n]))
  BY <1>1, <1>2 DEF Lined
<1>4. \A m, n \in 1 .. Len(spool') : m < n => Below(ToSet(spool'[m]), ToSet(spool'[n]))
  BY <1>1 DEF Lined
<1>5. \A b \in spooled', n \in 1 .. Len(spool') :
         b \in ToSet(arrived') => b = spool'[1] \/ Below(ToSet(b), ToSet(spool'[n]))
  BY <1>1, <1>2 DEF Lined
<1>6. ToSet(spool') \subseteq spooled' /\ evicted' \subseteq spooled'
  BY <1>1 DEF Lined
<1>7. <<>> \notin spooled' \union ToSet(arrived')
  BY DEF Lined
<1> QED BY <1>3, <1>4, <1>5, <1>6, <1>7 DEF Lined

\* A new batch goes to the end.
LEMMA AppendIsLined ==
    ASSUME TypeOK, Steps, Queue, AppendRecord
    PROVE  Lined'
PROOF
<1>1. /\ spool' = Append(spool, hand) /\ spooled' = spooled \union {hand}
      /\ UNCHANGED <<evicted, arrived>> /\ hand \in Batch /\ spool \in Seq(Batch)
  BY DEF AppendRecord, TypeOK, lossVars, serverVars
<1>2. ToSet(spool') = ToSet(spool) \union {hand}
  BY <1>1, InAppended
<1>3. /\ Len(spool') = Len(spool) + 1 /\ Len(spool) \in Nat
      /\ spool'[Len(spool) + 1] = hand
      /\ \A n \in 1 .. Len(spool) : spool'[n] = spool[n]
  BY <1>1
<1>4. hand # <<>>
  BY DEF Steps, Holding, AppendRecord
<1>5. \A b \in spooled \union ToSet(arrived) : Below(ToSet(b), ToSet(hand))
  BY DEF Queue, Fresh, AppendRecord
<1>6. hand \notin ToSet(arrived)
  BY <1>1, <1>4, <1>5, NotBelowItself
<1>7. \A n \in 1 .. Len(spool) : spool[n] \in spooled
  BY <1>1, InSequence DEF Queue, Lined
<1>8. \A n \in 1 .. Len(spool') : n \in 1 .. Len(spool) \/ n = Len(spool) + 1
  BY <1>3
<1>9. \A m, n \in 1 .. Len(spool') : m < n => Below(ToSet(spool'[m]), ToSet(spool'[n]))
  <2> SUFFICES ASSUME NEW m \in 1 .. Len(spool'), NEW n \in 1 .. Len(spool'), m < n
               PROVE  Below(ToSet(spool'[m]), ToSet(spool'[n]))
    OBVIOUS
  <2>1. m \in 1 .. Len(spool)
    BY <1>3
  <2> QED BY <2>1, <1>3, <1>5, <1>7, <1>8 DEF Queue, Lined
<1>10. \A b \in evicted', n \in 1 .. Len(spool') : Below(ToSet(b), ToSet(spool'[n]))
  BY <1>1, <1>3, <1>5, <1>8 DEF Queue, Lined
<1>11. \A b \in spooled', n \in 1 .. Len(spool') :
          b \in ToSet(arrived') => b = spool'[1] \/ Below(ToSet(b), ToSet(spool'[n]))
  <2> SUFFICES ASSUME NEW b \in spooled, b \in ToSet(arrived), NEW n \in 1 .. Len(spool')
               PROVE  b = spool'[1] \/ Below(ToSet(b), ToSet(spool'[n]))
    BY <1>1, <1>6
  <2>1. CASE n = Len(spool) + 1
    BY <2>1, <1>3, <1>5
  <2>2. CASE n \in 1 .. Len(spool)
    <3>1. 1 \in 1 .. Len(spool)
      BY <2>2, <1>3
    <3> QED BY <2>2, <3>1, <1>3 DEF Queue, Lined
  <2> QED BY <2>1, <2>2, <1>8
<1>12. ToSet(spool') \subseteq spooled' /\ evicted' \subseteq spooled'
  BY <1>1, <1>2 DEF Queue, Lined
<1>13. <<>> \notin spooled' \union ToSet(arrived')
  BY <1>1, <1>4 DEF Queue, Lined
<1> QED BY <1>9, <1>10, <1>11, <1>12, <1>13 DEF Lined

\* What arrives from the spool is its oldest record.
LEMMA PostIsLined ==
    ASSUME TypeOK, Steps, Queue, Posts
    PROVE  Lined'
PROOF
<1>1. ToSet(arrived') \subseteq ToSet(arrived) \union {hand}
  BY PostArrives
<1>2. hand # <<>> /\ (hand \in spooled => hand = spool[1])
  BY InShortened DEF Steps, Holding, Posts, Queue, Fresh, TypeOK
<1>3. UNCHANGED <<spool, spooled, evicted>>
  BY DEF Posts
<1> QED BY <1>1, <1>2, <1>3 DEF Queue, Lined

\* What is held on to is as new as it was.
LEMMA FreshWhileHeld ==
    ASSUME TypeOK, Steps, Steps', Queue, Keeps, pc' = "append" => pc = "append",
           UNCHANGED spooled, pc # "append" \/ UNCHANGED arrived
    PROVE  Fresh'
PROOF
<1>1. pc = "append" => hand \notin spooled
  BY NotBelowItself DEF TypeOK, Steps, Holding, Queue, Fresh
<1>2. pc' \in Holding => pc \in Holding
  BY DEF Steps, Keeps
<1>3. pc' = "post" /\ ~durable' => hand' \notin spooled'
  BY <1>1, <1>2 DEF Steps, Keeps, Holding, Queue, Fresh
<1>4. ASSUME pc' = "append"
      PROVE  \A b \in spooled' \union ToSet(arrived') : Below(ToSet(b), ToSet(hand'))
  BY <1>4 DEF Keeps, Queue, Fresh
<1> QED BY <1>3, <1>4 DEF Fresh

\* Without a batch in hand, or with one from the spool, there is none to be fresh.
LEMMA FreshWhenNothingHeld ==
    ASSUME Steps', hand' = <<>> \/ durable'
    PROVE  Fresh'
BY DEF Steps, Holding, Fresh

\* The spool stays in order: records are appended behind, and leave from the front.
LEMMA StepQueue ==
    ASSUME TypeOK, Steps, Steps', Ordered, Queue, Next
    PROVE  Queue'
PROOF
<1> USE DEF memVars, runVars, lossVars, serverVars
<1>1. CASE Publish
  <2>1. Lined'
    BY <1>1 DEF Publish, Queue, Lined
  <2> QED BY <1>1, <2>1, FreshWhileHeld DEF Publish, Keeps, Queue
<1>2. CASE Receive
  <2>1. Lined'
    BY <1>2 DEF Receive, Queue, Lined
  <2> QED BY <1>2, <2>1, ReceiveMoves, FreshWhenNothingHeld DEF Queue
<1>3. CASE Flush
  <2>1. Lined'
    BY <1>3 DEF Flush, Queue, Lined
  <2>2. Fresh'
    BY <1>3 DEF Flush, Fresh, Ordered, Known
  <2> QED BY <2>1, <2>2 DEF Queue
<1>4. CASE Evict
  <2>1. Lined'
    BY <1>4, TailIsLined DEF Evict, Queue
  <2>2. Fresh'
    BY <1>4 DEF Evict, Queue, Fresh
  <2> QED BY <2>1, <2>2 DEF Queue
<1>5. CASE AppendRecord
  <2>1. hand' = <<>>
    BY <1>5 DEF AppendRecord, Goto
  <2> QED BY <1>5, <2>1, AppendIsLined, FreshWhenNothingHeld DEF Queue
<1>6. CASE Quiet
  <2>1. Lined'
    BY <1>6 DEF Quiet, Queue, Lined
  <2> QED BY <1>6, <2>1, FreshWhileHeld, FreshWhenNothingHeld DEF Quiet, LetsGo, Queue
<1>7. CASE Removes
  <2>1. Lined'
    BY <1>7, TailIsLined, DeletesHead DEF Removes, Queue
  <2> QED BY <1>7, <2>1, FreshWhenNothingHeld DEF Removes, LetsGo, Queue
<1>8. CASE Posts
  BY <1>8, PostIsLined, FreshWhileHeld, FreshWhenNothingHeld DEF Posts, LetsGo, Queue
<1>9. CASE Ends
  <2>1. Lined'
    BY <1>9 DEF Ends, Queue, Lined
  <2> QED BY <1>9, <2>1, FreshWhenNothingHeld DEF Ends, LetsGo, Queue
<1> QED
  BY <1>1, <1>2, <1>3, <1>4, <1>5, <1>6, <1>7, <1>8, <1>9, StepKinds

-----------------------------------------------------------------------------
(* What is lost, what is kept, and in which order it arrives.              *)

\* The moves of the spool, as sets.
LEMMA SpoolMoves ==
    ASSUME TypeOK, Steps
    PROVE  /\ Evict => /\ ToSet(spool) = {Head(spool)} \union ToSet(spool')
                       /\ evicted' = evicted \union {Head(spool)}
           /\ Removes => /\ ToSet(spool) = {hand} \union ToSet(spool')
                         /\ hand \in ToSet(arrived)
           /\ AppendRecord => /\ ToSet(spool') = ToSet(spool) \union {hand}
                              /\ spooled' = spooled \union {hand}
                              /\ hand' = <<>> /\ pc = "append"
           /\ Posts => /\ ToSet(arrived) \subseteq ToSet(arrived')
                       /\ ToSet(arrived') \subseteq ToSet(arrived) \union {hand}
           /\ durable => hand \in ToSet(spool)
PROOF
<1>1. Evict => /\ ToSet(spool) = {Head(spool)} \union ToSet(spool')
               /\ evicted' = evicted \union {Head(spool)}
  BY InShortened DEF Evict, TypeOK
<1>2. Removes => /\ ToSet(spool) = {hand} \union ToSet(spool')
                 /\ hand \in ToSet(arrived)
  BY InShortened, DeletesHead DEF Removes, TypeOK
<1>3. AppendRecord => /\ ToSet(spool') = ToSet(spool) \union {hand}
                      /\ spooled' = spooled \union {hand}
                      /\ hand' = <<>> /\ pc = "append"
  BY InAppended DEF AppendRecord, Goto, TypeOK
<1>4. Posts => /\ ToSet(arrived) \subseteq ToSet(arrived')
               /\ ToSet(arrived') \subseteq ToSet(arrived) \union {hand}
  BY PostArrives
<1>5. durable => hand \in ToSet(spool)
  BY InShortened DEF Steps, TypeOK
<1> QED BY <1>1, <1>2, <1>3, <1>4, <1>5

\* A batch in hand that is not durable shares no event with a spooled one.
LEMMA HandIsApart ==
    ASSUME TypeOK, Steps, Ordered, Keys, Queue, ~durable
    PROVE  /\ hand # <<>> => hand \notin spooled
           /\ \A b \in spooled : ToSet(b) \intersect ToSet(hand) = {}
PROOF
<1>1. hand # <<>> => hand \notin spooled
  BY NotBelowItself DEF Steps, Holding, Queue, Fresh, TypeOK
<1>2. CASE hand = <<>>
  BY <1>2, InNothing
<1>3. CASE hand # <<>>
  BY <1>1, <1>3 DEF Keys, Known
<1> QED BY <1>1, <1>2, <1>3

\* Memory is above what was spooled.
LEMMA MemoryIsApart ==
    ASSUME TypeOK, Ordered
    PROVE  /\ \A b \in Known : ToSet(b) \intersect (ToSet(stream) \union ToSet(pending)) = {}
           /\ ToSet(pending) \intersect ToSet(stream) = {}
PROOF
<1>1. \A e \in ToSet(stream) \union ToSet(pending) : ~(e < e)
  BY TypedSets DEF Events
<1> QED BY <1>1 DEF Ordered, Below

\* What is dropped or lost was in one place, and has left it.
LEMMA StepApart ==
    ASSUME TypeOK, Steps, Ordered, Keys, Queue, Apart, Next
    PROVE  Apart'
PROOF
<1> USE DEF memVars, runVars, lossVars, serverVars
<1>1. CASE Publish
  <2>1. published + 1 \notin 1 .. published /\ published \in Nat
    BY BatcherAssumption DEF TypeOK
  <2>2. \A S : S \subseteq 1 .. published => published + 1 \notin S
    BY <2>1
  <2>3. \A b \in spooled \union {hand} : published + 1 \notin ToSet(b)
    BY <2>2 DEF Ordered, Known
  <2>4. published + 1 \notin ToSet(stream) \union ToSet(pending) \union dropped \union lost
    BY <2>2 DEF Ordered
  <2>5. CASE stream' = Append(stream, published + 1) /\ UNCHANGED dropped
    <3>1. ToSet(stream') = ToSet(stream) \union {published + 1}
      <4>1. published + 1 \in Events /\ stream \in Seq(Events)
        BY <1>1, BatcherAssumption DEF Publish, TypeOK, Events
      <4> QED BY <2>5, <4>1, InAppended
    <3> QED BY <1>1, <2>4, <2>5, <3>1 DEF Publish, Apart
  <2>6. CASE dropped' = dropped \union {published + 1} /\ UNCHANGED stream
    BY <1>1, <2>3, <2>4, <2>6 DEF Publish, Apart
  <2> QED BY <1>1, <2>5, <2>6 DEF Publish
<1>2. CASE Receive
  BY <1>2, ReceiveMoves, InNothing DEF Receive, Apart
<1>3. CASE Flush
  BY <1>3, InNothing DEF Flush, Apart
<1>4. CASE Evict
  BY <1>4 DEF Evict, Apart
<1>5. CASE AppendRecord
  BY <1>5, SpoolMoves, InNothing DEF AppendRecord, Apart
<1>6. CASE Quiet
  <2>1. spool # <<>> => Head(spool) \in spooled
    BY InShortened DEF TypeOK, Queue, Lined
  <2> QED BY <1>6, <2>1, InNothing DEF Quiet, Keeps, LetsGo, Apart
<1>7. CASE Removes
  BY <1>7, InNothing DEF Removes, LetsGo, Apart
<1>8. CASE Posts
  <2>1. CASE UNCHANGED lost
    BY <1>8, <2>1, InNothing DEF Posts, Keeps, LetsGo, Apart
  <2>2. CASE LetsGo /\ ~durable /\ lost' = lost \union ToSet(hand)
    <3>1. ToSet(hand) \intersect (ToSet(stream) \union ToSet(pending)) = {}
      BY MemoryIsApart DEF Known
    <3> QED BY <1>8, <2>2, <3>1, HandIsApart, InNothing DEF Posts, LetsGo, Apart
  <2> QED BY <1>8, <2>1, <2>2 DEF Posts
<1>9. CASE Ends
  <2>1. \A b \in spooled : ToSet(b) \intersect InMemory = {}
    BY MemoryIsApart, HandIsApart DEF InMemory, Known
  <2> QED BY <1>9, <2>1, InNothing DEF Ends, LetsGo, Apart
<1> QED
  BY <1>1, <1>2, <1>3, <1>4, <1>5, <1>6, <1>7, <1>8, <1>9, StepKinds

\* Only an eviction and a record that has arrived take a batch off the disk.
LEMMA StepKept ==
    ASSUME TypeOK, Steps, Kept, Next
    PROVE  Kept'
PROOF
<1> USE DEF memVars, runVars, lossVars, serverVars
<1>1. CASE Publish \/ Receive \/ Flush
  BY <1>1 DEF Publish, Receive, Flush, Kept
<1>2. CASE Evict \/ AppendRecord
  BY <1>2, SpoolMoves DEF Evict, AppendRecord, Kept
<1>3. CASE Quiet \/ Ends
  BY <1>3 DEF Quiet, Ends, Kept
<1>4. CASE Removes \/ Posts
  BY <1>4, SpoolMoves DEF Removes, Posts, Kept
<1> QED BY <1>1, <1>2, <1>3, <1>4, StepKinds

\* An event that leaves a place turns up in another.
LEMMA StepAccounted ==
    ASSUME TypeOK, Steps, Accounted, Next
    PROVE  Accounted'
PROOF
<1> USE DEF memVars, runVars, lossVars, serverVars
<1>1. CASE Publish
  <2>1. \A e \in 1 .. published' : e \in 1 .. published \/ e = published + 1
    <3>1. published \in Nat /\ published' = published + 1
      BY <1>1, BatcherAssumption DEF Publish, TypeOK
    <3> QED BY <3>1
  <2>2. ToSet(Append(stream, published + 1)) = ToSet(stream) \union {published + 1}
    <3>1. published + 1 \in Events /\ stream \in Seq(Events)
      BY <1>1, BatcherAssumption DEF Publish, TypeOK, Events
    <3> QED BY <3>1, InAppended
  <2> QED BY <1>1, <2>1, <2>2 DEF Publish, Accounted, Somewhere
<1>2. CASE Receive
  <2>1. hand = <<>>
    BY <1>2 DEF Receive, Steps, Holding
  <2> QED BY <1>2, <2>1, ReceiveMoves, InNothing DEF Receive, Accounted, Somewhere
<1>3. CASE Flush
  <2>1. hand = <<>>
    BY <1>3 DEF Flush, Steps, Holding
  <2> QED BY <1>3, <2>1, InNothing DEF Flush, Accounted, Somewhere
<1>4. CASE Evict
  BY <1>4, SpoolMoves DEF Evict, Accounted, Somewhere
<1>5. CASE AppendRecord
  BY <1>5, SpoolMoves DEF AppendRecord, Accounted, Somewhere
<1>6. CASE Quiet
  BY <1>6, SpoolMoves, InNothing DEF Quiet, Keeps, LetsGo, Accounted, Somewhere
<1>7. CASE Removes
  BY <1>7, SpoolMoves DEF Removes, LetsGo, Accounted, Somewhere
<1>8. CASE Posts
  BY <1>8, SpoolMoves DEF Posts, Keeps, LetsGo, Accounted, Somewhere
<1>9. CASE Ends
  BY <1>9, SpoolMoves DEF Ends, InMemory, Accounted, Somewhere
<1> QED
  BY <1>1, <1>2, <1>3, <1>4, <1>5, <1>6, <1>7, <1>8, <1>9, StepKinds

\* Below, of the first events.
LEMMA FirstBelow ==
    ASSUME NEW b \in Batch, NEW c \in Batch, b # <<>>, c # <<>>, Below(ToSet(b), ToSet(c))
    PROVE  b[1] < c[1]
PROOF
<1>1. 1 \in 1 .. Len(b) /\ 1 \in 1 .. Len(c)
  BY InShortened DEF Batch
<1>2. b[1] \in ToSet(b) /\ c[1] \in ToSet(c)
  BY <1>1, InSequence DEF Batch
<1> QED BY <1>2 DEF Below

\* What is posted from the spool is its head, and all that arrived before is below it.
LEMMA StepArrivesInOrder ==
    ASSUME TypeOK, Steps, Queue, SpoolArrivesInOrder, Next
    PROVE  SpoolArrivesInOrder'
PROOF
<1> USE DEF memVars, runVars, lossVars, serverVars
<1>1. \A n \in 1 .. Len(arrived) : arrived[n] \in ToSet(arrived) /\ arrived[n] \in Batch
  BY InSequence DEF TypeOK
<1>2. CASE UNCHANGED <<spooled, arrived>>
  BY <1>2 DEF SpoolArrivesInOrder
<1>3. CASE AppendRecord
  <2>1. hand \notin ToSet(arrived)
    BY <1>3, NotBelowItself DEF AppendRecord, Queue, Fresh, Steps, Holding, TypeOK
  <2>2. spooled' = spooled \union {hand} /\ arrived' = arrived
    BY <1>3 DEF AppendRecord
  <2> QED BY <1>1, <2>1, <2>2 DEF SpoolArrivesInOrder
<1>4. CASE Posts /\ hand \notin ToSet(arrived) /\ arrived' = Append(arrived, hand)
  <2>1. /\ Len(arrived') = Len(arrived) + 1 /\ Len(arrived) \in Nat
        /\ arrived'[Len(arrived) + 1] = hand
        /\ \A n \in 1 .. Len(arrived) : arrived'[n] = arrived[n]
    BY <1>4 DEF TypeOK
  <2>2. spooled' = spooled /\ hand # <<>> /\ hand \in Batch
    BY <1>4 DEF Posts, Steps, Holding, TypeOK
  <2>3. hand \in spooled => hand = spool[1] /\ 1 \in 1 .. Len(spool)
    BY <1>4, InShortened DEF Posts, Queue, Fresh, Steps, TypeOK
  <2>4. ASSUME NEW b \in spooled, b \in ToSet(arrived), hand \in spooled
        PROVE  b[1] < hand[1]
    <3>1. Below(ToSet(b), ToSet(hand))
      BY <1>4, <2>3, <2>4 DEF Queue, Lined
    <3>2. b \in Batch /\ b # <<>>
      BY <2>4 DEF TypeOK, Queue, Lined
    <3> QED BY <3>1, <3>2, <2>2, FirstBelow
  <2> SUFFICES ASSUME NEW m \in 1 .. Len(arrived'), NEW n \in 1 .. Len(arrived'), m < n,
                      {arrived'[m], arrived'[n]} \subseteq spooled
               PROVE  arrived'[m][1] < arrived'[n][1]
    BY <2>2 DEF SpoolArrivesInOrder
  <2>5. m \in 1 .. Len(arrived) /\ (n \in 1 .. Len(arrived) \/ n = Len(arrived) + 1)
    BY <2>1
  <2> QED BY <1>1, <2>1, <2>4, <2>5 DEF SpoolArrivesInOrder
<1> QED
  BY <1>2, <1>3, <1>4, StepKinds DEF Publish, Receive, Flush, Evict, Quiet, Removes, Posts, Ends

-----------------------------------------------------------------------------
(* The invariant of every behaviour.                                       *)

LEMMA InitInv == Init => BatcherInv
PROOF
<1> SUFFICES ASSUME Init PROVE BatcherInv
  OBVIOUS
<1>0. <<>> \in Batch /\ <<>> \in Seq(Batch) /\ <<>> \in Seq(Events) /\ Len(<<>>) = 0
  BY DEF Batch
<1>1. TypeOK
  <2>1. /\ 0 \in 0 .. MaxEvents /\ 0 \in 0 .. MaxAttempts
        /\ 0 \in 0 .. MaxStops /\ 0 \in 0 .. MaxFailures
        /\ 0 =< BufferSize /\ 0 =< MaxRows
    BY BatcherAssumption
  <2> QED BY <1>0, <2>1 DEF Init, TypeOK, Places
<1>2. Steps
  BY <1>0, BatcherAssumption DEF Init, Steps, Holding
<1>3. ToSet(<<>>) = {} /\ Known = {<<>>}
  BY InNothing DEF Init, Known
<1>4. Ordered /\ Keys /\ Queue /\ Apart
  BY <1>0, <1>3 DEF Init, Ordered, Keys, Queue, Lined, Fresh, Apart, Below
<1>5. Kept /\ Accounted /\ SpoolArrivesInOrder
  BY <1>0 DEF Init, Kept, Accounted, SpoolArrivesInOrder
<1> QED BY <1>1, <1>2, <1>4, <1>5 DEF BatcherInv

LEMMA StutterInv ==
    ASSUME BatcherInv, UNCHANGED vars
    PROVE  BatcherInv'
PROOF
<1> USE DEF vars, memVars, runVars, lossVars, serverVars, faultVars
<1>1. TypeOK' /\ Steps'
  BY DEF BatcherInv, TypeOK, Steps
<1>2. Ordered' /\ Keys' /\ Queue' /\ Apart'
  BY DEF BatcherInv, Ordered, Keys, Known, Queue, Lined, Fresh, Apart
<1>3. Kept' /\ Accounted' /\ SpoolArrivesInOrder'
  BY DEF BatcherInv, Kept, Accounted, Somewhere, SpoolArrivesInOrder
<1> QED BY <1>1, <1>2, <1>3 DEF BatcherInv

LEMMA StepInv ==
    ASSUME BatcherInv, Next
    PROVE  BatcherInv'
PROOF
<1>1. TypeOK' /\ Steps'
  BY StepTyped, StepSteps DEF BatcherInv
<1>2. Ordered' /\ Keys' /\ Queue' /\ Apart'
  BY <1>1, StepOrder, StepQueue, StepApart DEF BatcherInv
<1>3. Kept' /\ Accounted' /\ SpoolArrivesInOrder'
  BY StepKept, StepAccounted, StepArrivesInOrder DEF BatcherInv
<1> QED BY <1>1, <1>2, <1>3 DEF BatcherInv

LEMMA AlwaysBatcherInv == Spec => []BatcherInv
PROOF
<1>1. BatcherInv /\ [Next]_vars => BatcherInv'
  BY StepInv, StutterInv
<1> QED BY InitInv, <1>1, PTL DEF Spec

-----------------------------------------------------------------------------
(* The results.                                                            *)

\* The channel, the batches, the spool and the goroutine stay in their types: the channel
\* holds no more than its capacity and a batch no more than MaxRows events.
THEOREM BatcherTyped == Spec => []TypeOK
PROOF
<1>1. BatcherInv => TypeOK
  BY DEF BatcherInv
<1> QED BY <1>1, AlwaysBatcherInv, PTL

\* A spooled batch is on disk, accepted or evicted: no kill, failed POST or failed file
\* operation loses it.
THEOREM SpooledStays == Spec => []SpooledIsKept
PROOF
<1>1. BatcherInv => SpooledIsKept
  BY TypedSets DEF BatcherInv, Kept, SpooledIsKept
<1> QED BY <1>1, AlwaysBatcherInv, PTL

\* No event is in two batches, whatever is retried, spooled or replayed: what is posted
\* again has the replay key it had.
THEOREM OneKey == Spec => []OneKeyPerEvent
PROOF
<1>1. BatcherInv => OneKeyPerEvent
  <2> SUFFICES ASSUME BatcherInv PROVE OneKeyPerEvent
    OBVIOUS
  <2>1. \A b \in Known : ToSet(b) \intersect ToSet(pending) = {}
    BY MemoryIsApart DEF BatcherInv
  <2>2. ToSet(spool) \subseteq spooled
    BY DEF BatcherInv, Queue, Lined
  <2> QED BY <2>1, <2>2 DEF BatcherInv, Keys, Known, OneKeyPerEvent
<1> QED BY <1>1, AlwaysBatcherInv, PTL

\* Spooled batches first arrive in the order they were spooled.
THEOREM ArrivesInOrder == Spec => []SpoolArrivesInOrder
PROOF
<1>1. BatcherInv => SpoolArrivesInOrder
  BY DEF BatcherInv
<1> QED BY <1>1, AlwaysBatcherInv, PTL

\* Every published event is on its way, accepted, or counted as dropped, evicted or lost.
THEOREM EventsAccounted == Spec => []NoEventVanishes
PROOF
<1>1. BatcherInv => NoEventVanishes
  BY DEF BatcherInv, Accounted, Somewhere, NoEventVanishes, InBatches
<1> QED BY <1>1, AlwaysBatcherInv, PTL

-----------------------------------------------------------------------------
(* The refinement: what the steps do to the mapped variables.              *)

\* A sequence of batches and the sequence of their sets move together.
LEMMA SetsOf ==
    ASSUME NEW s \in Seq(Batch)
    PROVE  /\ AsSets(s) \in Seq(SUBSET Events)
           /\ Len(AsSets(s)) = Len(s)
           /\ \A n \in 1 .. Len(s) : AsSets(s)[n] = ToSet(s[n])
           /\ \A b \in Batch : AsSets(Append(s, b)) = Append(AsSets(s), ToSet(b))
           /\ s # <<>> => /\ AsSets(s) # <<>> /\ Head(AsSets(s)) = ToSet(Head(s))
                          /\ AsSets(Tail(s)) = Tail(AsSets(s))
PROOF
<1>1. \A b \in Batch : ToSet(b) \in SUBSET Events
  BY InSequence DEF Batch
<1>2. \A t \in Seq(Batch) : /\ AsSets(t) \in Seq(SUBSET Events)
                            /\ Len(AsSets(t)) = Len(t)
                            /\ \A n \in 1 .. Len(t) : AsSets(t)[n] = ToSet(t[n])
  <2> SUFFICES ASSUME NEW t \in Seq(Batch)
               PROVE  /\ AsSets(t) \in Seq(SUBSET Events)
                      /\ Len(AsSets(t)) = Len(t)
                      /\ \A n \in 1 .. Len(t) : AsSets(t)[n] = ToSet(t[n])
    OBVIOUS
  <2>1. \A n \in 1 .. Len(t) : ToSet(t[n]) \in SUBSET Events
    BY <1>1
  <2> QED BY <2>1, IsASeq DEF AsSets
<1>3. ASSUME NEW b \in Batch PROVE AsSets(Append(s, b)) = Append(AsSets(s), ToSet(b))
  <2> DEFINE t == Append(s, b)
             z == AsSets(s)
             x == AsSets(t)
             y == Append(z, ToSet(b))
  <2>1. /\ t \in Seq(Batch) /\ Len(t) = Len(s) + 1 /\ Len(s) \in Nat /\ t[Len(s) + 1] = b
        /\ \A n \in 1 .. Len(s) : t[n] = s[n]
    OBVIOUS
  <2>2. /\ z \in Seq(SUBSET Events) /\ Len(z) = Len(s) /\ \A n \in 1 .. Len(s) : z[n] = ToSet(s[n])
    BY <1>2
  <2> HIDE DEF t, z
  <2>3. /\ x \in Seq(SUBSET Events) /\ Len(x) = Len(s) + 1
        /\ \A n \in 1 .. Len(s) + 1 : x[n] = ToSet(t[n])
    BY <1>2, <2>1
  <2>4. /\ y \in Seq(SUBSET Events) /\ Len(y) = Len(s) + 1 /\ y[Len(s) + 1] = ToSet(b)
        /\ \A n \in 1 .. Len(s) : y[n] = z[n]
    BY <1>1, <2>1, <2>2
  <2> HIDE DEF x, y
  <2>5. \A n \in 1 .. Len(s) + 1 : n \in 1 .. Len(s) \/ n = Len(s) + 1
    BY <2>1
  <2>6. \A n \in 1 .. Len(s) + 1 : x[n] = y[n]
    BY <2>1, <2>2, <2>3, <2>4, <2>5
  <2>7. x = y
    BY <2>3, <2>4, <2>6, SeqEqual
  <2> QED BY <2>7 DEF x, y, t, z
<1>4. ASSUME s # <<>>
      PROVE  /\ AsSets(s) # <<>> /\ Head(AsSets(s)) = ToSet(Head(s))
             /\ AsSets(Tail(s)) = Tail(AsSets(s))
  <2> DEFINE t == Tail(s)
             z == AsSets(s)
             x == AsSets(t)
             y == Tail(z)
  <2>1. /\ Head(s) = s[1] /\ 1 \in 1 .. Len(s) /\ t \in Seq(Batch) /\ Len(t) = Len(s) - 1
        /\ \A n \in 1 .. Len(t) : n + 1 \in 1 .. Len(s) /\ t[n] = s[n + 1]
    BY <1>4, InShortened
  <2>2. /\ z \in Seq(SUBSET Events) /\ Len(z) = Len(s) /\ \A n \in 1 .. Len(s) : z[n] = ToSet(s[n])
    BY <1>2
  <2> HIDE DEF t, z
  <2>3. z # <<>> /\ Head(z) = ToSet(Head(s))
    BY <2>1, <2>2
  <2>4. /\ y \in Seq(SUBSET Events) /\ Len(y) = Len(s) - 1
        /\ \A n \in 1 .. Len(s) - 1 : y[n] = z[n + 1]
    BY <2>2, <2>3
  <2>5. /\ x \in Seq(SUBSET Events) /\ Len(x) = Len(s) - 1
        /\ \A n \in 1 .. Len(s) - 1 : x[n] = ToSet(t[n])
    BY <1>2, <2>1
  <2> HIDE DEF x, y
  <2>6. \A n \in 1 .. Len(s) - 1 : x[n] = y[n]
    BY <2>1, <2>2, <2>4, <2>5
  <2>7. x = y
    BY <2>4, <2>5, <2>6, SeqEqual
  <2> QED BY <2>3, <2>7 DEF x, y, t, z
<1> QED BY <1>2, <1>3, <1>4

\* Only the oldest record can have arrived.
LEMMA OnlyHeadArrived ==
    ASSUME BatcherInv, spool # <<>>
    PROVE  /\ Tail(spool) # <<>> => ~Contains(arrived, Head(Tail(spool)))
           /\ Tail(spool) \in Seq(Batch) /\ Head(spool) \in spooled /\ spool \in Seq(Batch)
           /\ Contains(arrived, Head(spool)) <=> Head(spool) \in ToSet(arrived)
PROOF
<1>1. spool \in Seq(Batch) /\ TypeOK /\ Lined
  BY DEF BatcherInv, TypeOK, Queue
<1>2. Tail(spool) \in Seq(Batch) /\ Head(spool) \in spooled /\ Head(spool) = spool[1]
  BY <1>1, InShortened DEF Lined
<1>3. Contains(arrived, Head(spool)) <=> Head(spool) \in ToSet(arrived)
  BY <1>1, TypedSets
<1>4. ASSUME Tail(spool) # <<>> PROVE ~Contains(arrived, Head(Tail(spool)))
  <2> DEFINE b == Head(Tail(spool))
  <2>1. b = spool[2] /\ 1 \in 1 .. Len(spool) /\ 2 \in 1 .. Len(spool)
    BY <1>1, <1>4
  <2>2. b \in spooled /\ b \in Batch /\ b # <<>>
    BY <1>1, <2>1, InSequence DEF Lined
  <2>3. ~Below(ToSet(b), ToSet(b))
    BY <2>2, NotBelowItself
  <2>4. Below(ToSet(spool[1]), ToSet(b))
    BY <1>1, <2>1 DEF Lined
  <2>5. b \notin ToSet(arrived)
    BY <1>1, <2>1, <2>2, <2>3, <2>4 DEF Lined
  <2> QED BY <1>1, <2>5, TypedSets
<1> QED BY <1>1, <1>2, <1>3, <1>4

\* The records of the spool that have not arrived, which BatchDelivery calls kept, step by step.
LEMMA UndeliveredMoves ==
    ASSUME BatcherInv
    PROVE  /\ Undelivered \in Seq(Batch)
           /\ \A n \in 1 .. Len(Undelivered) : Undelivered[n] \in spooled
           /\ UNCHANGED <<spool, arrived>> => UNCHANGED Undelivered
           /\ AppendRecord => Undelivered' = Append(Undelivered, hand)
           /\ Removes => UNCHANGED Undelivered
           /\ Evict => IF Head(spool) \in ToSet(arrived)
                       THEN UNCHANGED Undelivered
                       ELSE /\ Undelivered # <<>> /\ Head(Undelivered) = Head(spool)
                            /\ Undelivered' = Tail(Undelivered)
           /\ Posts /\ durable /\ hand \notin ToSet(arrived) /\ arrived' = Append(arrived, hand) =>
                  /\ Undelivered # <<>> /\ Head(Undelivered) = hand
                  /\ Undelivered' = Tail(Undelivered)
           /\ /\ Posts /\ ~durable /\ hand \notin ToSet(arrived)
              /\ arrived' = Append(arrived, hand)
              => UNCHANGED Undelivered
PROOF
<1> USE DEF Undelivered
<1>1. spool \in Seq(Batch) /\ TypeOK /\ Steps /\ Queue /\ ToSet(spool) \subseteq spooled
  BY DEF BatcherInv, TypeOK, Queue, Lined
<1>2. Undelivered \in Seq(Batch)
  BY <1>1, OnlyHeadArrived
<1>3. \A n \in 1 .. Len(Undelivered) : Undelivered[n] \in spooled
  <2>1. CASE Undelivered = spool
    BY <1>1, <2>1, InSequence
  <2>2. CASE Undelivered = Tail(spool) /\ spool # <<>>
    BY <1>1, <2>2, InSequence, InShortened
  <2> QED BY <2>1, <2>2
<1>4. AppendRecord => Undelivered' = Append(Undelivered, hand)
  <2> SUFFICES ASSUME AppendRecord PROVE Undelivered' = Append(Undelivered, hand)
    OBVIOUS
  <2>1. spool' = Append(spool, hand) /\ arrived' = arrived /\ hand \in Batch
    BY <1>1 DEF AppendRecord, TypeOK, serverVars
  <2>2. hand \notin ToSet(arrived)
    BY <1>1, NotBelowItself DEF AppendRecord, Queue, Fresh, Steps, Holding, TypeOK
  <2>3. ~Contains(arrived, hand)
    BY <1>1, <2>2, TypedSets
  <2>4. CASE spool = <<>>
    <3>1. spool' # <<>> /\ Head(spool') = hand
      BY <2>1, <2>4
    <3> QED BY <3>1, <2>1, <2>3, <2>4
  <2>5. CASE spool # <<>>
    <3>1. spool' # <<>> /\ Head(spool') = Head(spool) /\ Tail(spool') = Append(Tail(spool), hand)
      BY <1>1, <2>1, <2>5, HeadTailAppend
    <3> QED BY <3>1, <2>1, <2>5
  <2> QED BY <2>4, <2>5
<1>5. ASSUME spool # <<>>, Contains(arrived, Head(spool)), spool' = Tail(spool), arrived' = arrived
      PROVE  UNCHANGED Undelivered
  BY <1>5, OnlyHeadArrived
<1>6. Removes => UNCHANGED Undelivered
  BY <1>1, <1>5, DeletesHead, OnlyHeadArrived DEF Removes
<1>7. Evict => IF Head(spool) \in ToSet(arrived)
               THEN UNCHANGED Undelivered
               ELSE /\ Undelivered # <<>> /\ Head(Undelivered) = Head(spool)
                    /\ Undelivered' = Tail(Undelivered)
  <2> SUFFICES ASSUME Evict
               PROVE  IF Head(spool) \in ToSet(arrived)
                      THEN UNCHANGED Undelivered
                      ELSE /\ Undelivered # <<>> /\ Head(Undelivered) = Head(spool)
                           /\ Undelivered' = Tail(Undelivered)
    OBVIOUS
  <2>1. spool # <<>> /\ spool' = Tail(spool) /\ arrived' = arrived
    BY DEF Evict, serverVars
  <2>2. CASE Head(spool) \in ToSet(arrived)
    BY <1>5, <2>1, <2>2, OnlyHeadArrived
  <2>3. CASE Head(spool) \notin ToSet(arrived)
    BY <2>1, <2>3, OnlyHeadArrived
  <2> QED BY <2>2, <2>3
<1>8. ASSUME Posts, hand \notin ToSet(arrived), arrived' = Append(arrived, hand)
      PROVE  IF durable
             THEN /\ Undelivered # <<>> /\ Head(Undelivered) = hand
                  /\ Undelivered' = Tail(Undelivered)
             ELSE UNCHANGED Undelivered
  <2>1. ToSet(arrived') = ToSet(arrived) \union {hand} /\ arrived' \in Seq(Batch)
    BY <1>1, <1>8, InAppended DEF TypeOK
  <2>2. \A b : Contains(arrived', b) <=> b \in ToSet(arrived) \union {hand}
    BY <2>1, InSequence
  <2>3. \A b : Contains(arrived, b) <=> b \in ToSet(arrived)
    BY <1>1, TypedSets
  <2>4. spool' = spool
    BY <1>8 DEF Posts
  <2>5. CASE durable
    <3>1. spool # <<>> /\ hand = Head(spool)
      BY <1>1, <2>5 DEF Steps
    <3> QED BY <1>8, <2>2, <2>3, <2>4, <2>5, <3>1
  <2>6. CASE ~durable
    <3>1. spool # <<>> => Head(spool) # hand
      BY <1>1, <1>8, <2>6, OnlyHeadArrived DEF Posts, Queue, Fresh
    <3> QED BY <2>2, <2>3, <2>4, <2>6, <3>1
  <2> QED BY <2>5, <2>6
<1> QED BY <1>2, <1>3, <1>4, <1>6, <1>7, <1>8

\* A step of BatchDelivery, or none.
Simulates == Promise!Next \/ UNCHANGED <<Held, AsSets(Undelivered), Delivered, Gone>>

\* A published event is held, or gone when the channel is full.
LEMMA PublishSimulates ==
    ASSUME BatcherInv, Publish
    PROVE  Simulates
PROOF
<1> USE DEF memVars, runVars, lossVars, serverVars
<1> DEFINE e == published + 1
<1>1. e \in Events /\ published \in Nat /\ stream \in Seq(Events)
  BY BatcherAssumption DEF BatcherInv, Publish, TypeOK, Events
<1>2. \A S : S \subseteq 1 .. published => e \notin S
  BY <1>1
<1> HIDE DEF e
<1>3. /\ \A b \in Known : e \notin ToSet(b)
      /\ e \notin ToSet(stream) \union ToSet(pending) \union dropped \union lost
  BY <1>2 DEF BatcherInv, Ordered
<1>4. e \notin InMemory /\ e \notin Received /\ e \notin InBatches(evicted)
  BY <1>3 DEF InMemory, Received, InBatches, Known, BatcherInv, Queue, Lined
<1>5. e \notin Held \union Gone \union UNION Delivered
  BY <1>3, <1>4 DEF Held, Gone, Delivered, InBatches, Known
<1>6. e \notin Promise!OnDisk
  <2>1. \A n \in 1 .. Len(Undelivered) : e \notin ToSet(Undelivered[n])
    BY <1>3, UndeliveredMoves DEF Known
  <2> QED BY <2>1, UndeliveredMoves, SetsOf DEF Promise!OnDisk
<1>7. UNCHANGED <<Undelivered, Delivered, Received>> /\ UNCHANGED <<spool, arrived, lost, evicted>>
  BY UndeliveredMoves DEF Publish, Delivered, Received
<1>8. CASE stream' = Append(stream, e) /\ UNCHANGED dropped
  <2>1. ToSet(stream') = ToSet(stream) \union {e}
    BY <1>1, <1>8, InAppended
  <2>2. InMemory' = InMemory \union {e}
    BY <2>1 DEF InMemory, Publish
  <2>3. Held' = Held \union {e} /\ Gone' = Gone
    BY <1>4, <1>7, <1>8, <2>2 DEF Held, Gone
  <2> QED BY <1>1, <1>5, <1>6, <1>7, <2>3 DEF Simulates, Promise!Next, Promise!Publish, e
<1>9. CASE dropped' = dropped \union {e} /\ UNCHANGED stream
  <2>1. InMemory' = InMemory
    BY <1>9 DEF InMemory, Publish
  <2>2. Held' = Held /\ Gone' = Gone \union {e}
    BY <1>7, <1>9, <2>1 DEF Held, Gone
  <2> QED BY <1>1, <1>5, <1>6, <1>7, <2>2 DEF Simulates, Promise!Next, Promise!Publish, e
<1> QED BY <1>8, <1>9 DEF Publish, e

\* Nothing is moved for BatchDelivery.
LEMMA StutterSimulates ==
    ASSUME BatcherInv, UNCHANGED <<spool, arrived, lossVars>>, InMemory' = InMemory
    PROVE  Simulates
PROOF
<1>1. UNCHANGED <<Undelivered, Delivered, Received>>
  BY UndeliveredMoves DEF Delivered, Received
<1> QED BY <1>1 DEF Simulates, Held, Gone, lossVars

\* Between channel, pending batch and hand nothing happens to the promise.
LEMMA MovesInMemory ==
    ASSUME BatcherInv, Receive \/ Flush \/ Quiet
    PROVE  Simulates
PROOF
<1>1. TypeOK /\ Steps
  BY DEF BatcherInv
<1>2. CASE Receive
  <2>1. hand = <<>> /\ hand' = <<>>
    BY <1>1, <1>2, ReceiveMoves DEF Receive, Steps, Holding
  <2>2. InMemory' = InMemory
    BY <1>1, <1>2, <2>1, ReceiveMoves, InNothing DEF InMemory
  <2> QED BY <1>2, <2>2, StutterSimulates DEF Receive, lossVars, serverVars
<1>3. CASE Flush
  <2>1. hand = <<>> /\ durable = FALSE
    BY <1>1, <1>3 DEF Flush, Steps, Holding, TypeOK
  <2>2. InMemory' = InMemory
    BY <1>3, <2>1, InNothing DEF InMemory, Flush
  <2> QED BY <1>3, <2>2, StutterSimulates DEF Flush, lossVars, serverVars
<1>4. CASE Quiet
  <2>1. InMemory' = InMemory
    BY <1>4, InNothing DEF InMemory, Quiet, Keeps, LetsGo, memVars
  <2> QED BY <1>4, <2>1, StutterSimulates DEF Quiet, lossVars
<1> QED BY <1>2, <1>3, <1>4

\* A batch written to the spool is kept.
LEMMA AppendSimulates ==
    ASSUME BatcherInv, AppendRecord
    PROVE  Simulates
PROOF
<1>1. TypeOK /\ Steps /\ Ordered /\ Keys /\ Queue
  BY DEF BatcherInv
<1>2. /\ hand # <<>> /\ hand \in Batch /\ durable = FALSE /\ pc = "append"
      /\ hand' = <<>> /\ UNCHANGED <<stream, pending, arrived, dropped, evicted, lost>>
  BY <1>1 DEF AppendRecord, Goto, Steps, Holding, TypeOK, memVars, lossVars, serverVars
<1>3. ToSet(hand) # {} /\ hand \notin ToSet(arrived)
  BY <1>1, <1>2, TypedSets, NotBelowItself DEF Queue, Fresh
<1>4. \A b \in ToSet(arrived) : ToSet(b) \intersect ToSet(hand) = {}
  BY <1>1, <1>3 DEF Keys, Known
<1>5. ToSet(hand) \intersect (ToSet(stream) \union ToSet(pending)) = {}
  BY <1>1, MemoryIsApart DEF Known
<1>6. ToSet(hand) \intersect Received = {}
  BY <1>4 DEF Received, InBatches
<1>7. Held' = Held \ ToSet(hand) /\ ToSet(hand) \subseteq Held
  BY <1>2, <1>5, <1>6, InNothing DEF Held, InMemory, Received
<1>8. AsSets(Undelivered)' = Append(AsSets(Undelivered), ToSet(hand))
  BY <1>2, UndeliveredMoves, SetsOf
<1>9. UNCHANGED <<Delivered, Gone>>
  BY <1>2 DEF Delivered, Gone, Received
<1>10. Promise!Keep(ToSet(hand))
  BY <1>3, <1>7, <1>8, <1>9 DEF Promise!Keep
<1> QED BY <1>7, <1>10 DEF Simulates, Promise!Next

\* The oldest kept batch is gone, unless it had arrived.
LEMMA EvictSimulates ==
    ASSUME BatcherInv, Evict
    PROVE  Simulates
PROOF
<1>1. /\ UNCHANGED <<stream, pending, hand, durable, arrived, dropped, lost>>
      /\ evicted' = evicted \union {Head(spool)}
  BY DEF Evict, memVars, runVars, serverVars
<1>2. UNCHANGED <<Held, Delivered, Received>>
  BY <1>1 DEF Held, InMemory, Delivered, Received
<1>3. CASE Head(spool) \in ToSet(arrived)
  <2>1. Gone' = Gone
    BY <1>1, <1>2, <1>3 DEF Gone
  <2> QED BY <1>2, <1>3, <2>1, UndeliveredMoves DEF Simulates
<1>4. CASE Head(spool) \notin ToSet(arrived)
  <2>1. Gone' = Gone \union ToSet(Head(spool))
    BY <1>1, <1>2, <1>4 DEF Gone, InBatches
  <2>2. /\ AsSets(Undelivered) # <<>> /\ Head(AsSets(Undelivered)) = ToSet(Head(spool))
        /\ AsSets(Undelivered)' = Tail(AsSets(Undelivered))
    BY <1>4, UndeliveredMoves, SetsOf
  <2>3. Promise!Evict
    BY <1>2, <2>1, <2>2 DEF Promise!Evict
  <2> QED BY <2>3 DEF Simulates, Promise!Next
<1> QED BY <1>3, <1>4

\* A record that is deleted had arrived.
LEMMA RemoveSimulates ==
    ASSUME BatcherInv, Removes
    PROVE  Simulates
PROOF
<1>1. durable /\ UNCHANGED <<stream, pending, arrived, dropped, lost, evicted>>
  BY DEF BatcherInv, Steps, Removes, memVars, lossVars
<1>2. InMemory' = InMemory
  BY <1>1, InNothing DEF InMemory, Removes, LetsGo
<1>3. UNCHANGED <<Held, Delivered, Gone>>
  BY <1>1, <1>2 DEF Held, Delivered, Gone, Received
<1> QED BY <1>3, UndeliveredMoves DEF Simulates

\* What is in memory when the process ends is gone.
LEMMA EndSimulates ==
    ASSUME BatcherInv, Ends
    PROVE  Simulates
PROOF
<1>1. InMemory' = {} /\ Held \in SUBSET Held
  BY InNothing DEF InMemory, Ends, LetsGo
<1>2. UNCHANGED <<Undelivered, Delivered, Received>>
  BY UndeliveredMoves DEF Ends, Delivered, Received
<1>3. Held' = Held \ Held /\ Gone' = Gone \union Held
  BY <1>1, <1>2 DEF Held, Gone, Ends
<1>4. Promise!Lose(Held)
  BY <1>2, <1>3 DEF Promise!Lose
<1> QED BY <1>1, <1>4 DEF Simulates, Promise!Next

\* A POST that delivers nothing new.
LEMMA NoArrivalSimulates ==
    ASSUME BatcherInv, Posts, UNCHANGED arrived
    PROVE  Simulates
PROOF
<1>1. UNCHANGED <<stream, pending, spool, dropped, evicted>>
  BY DEF Posts, memVars
<1>2. CASE UNCHANGED lost /\ (Keeps \/ (LetsGo /\ durable))
  <2>1. InMemory' = InMemory
    BY <1>1, <1>2, InNothing DEF InMemory, Keeps, LetsGo
  <2> QED BY <1>1, <1>2, <2>1, StutterSimulates DEF lossVars
<1>3. CASE LetsGo /\ ~durable /\ hand \in ToSet(arrived) /\ UNCHANGED lost
  <2>1. ToSet(hand) \subseteq Received
    BY <1>3 DEF Received, InBatches
  <2>2. UNCHANGED <<Received, Undelivered, Delivered>>
    BY <1>1, UndeliveredMoves DEF Received, Delivered
  <2>3. Held' = Held
    BY <1>1, <1>3, <2>1, <2>2, InNothing DEF Held, InMemory, LetsGo
  <2> QED BY <1>1, <1>3, <2>2, <2>3 DEF Simulates, Gone
<1>4. CASE LetsGo /\ ~durable /\ lost' = lost \union ToSet(hand)
  <2> DEFINE some == ToSet(hand) \ Received
  <2>1. ToSet(hand) \intersect (ToSet(stream) \union ToSet(pending)) = {}
    BY MemoryIsApart DEF BatcherInv, Known
  <2>2. UNCHANGED <<Received, Undelivered, Delivered>>
    BY <1>1, UndeliveredMoves DEF Received, Delivered
  <2>3. Held' = Held \ some /\ some \in SUBSET Held
    BY <1>1, <1>4, <2>1, <2>2, InNothing DEF Held, InMemory, LetsGo
  <2>4. Gone' = Gone \union some
    BY <1>1, <1>4, <2>2 DEF Gone
  <2> HIDE DEF some
  <2>5. Promise!Lose(some)
    BY <2>2, <2>3, <2>4 DEF Promise!Lose
  <2> QED BY <2>3, <2>5 DEF Simulates, Promise!Next
<1>5. ToSet(arrived') = ToSet(arrived)
  OBVIOUS
<1>6. \/ UNCHANGED lost /\ (Keeps \/ (LetsGo /\ durable))
      \/ LetsGo /\ ~durable /\ hand \in ToSet(arrived) /\ UNCHANGED lost
      \/ LetsGo /\ ~durable /\ lost' = lost \union ToSet(hand)
  BY <1>5 DEF Posts
<1> QED BY <1>2, <1>3, <1>4, <1>6

\* What an arrival adds to what the control plane has.
LEMMA ArrivalAdds ==
    ASSUME BatcherInv, Posts, hand \notin ToSet(arrived), arrived' = Append(arrived, hand)
    PROVE  /\ ToSet(arrived') = ToSet(arrived) \union {hand}
           /\ Received' = Received \union ToSet(hand)
           /\ Delivered' = Delivered \union {ToSet(hand)}
           /\ hand \notin evicted /\ hand # <<>>
           /\ lost \intersect ToSet(hand) = {}
           /\ ToSet(hand) \intersect (ToSet(stream) \union ToSet(pending)) = {}
           /\ ToSet(hand) \intersect Received = {}
           /\ Gone' = Gone
PROOF
<1>1. TypeOK /\ Steps /\ Ordered /\ Keys /\ Queue /\ Apart
  BY DEF BatcherInv
<1>2. ToSet(arrived') = ToSet(arrived) \union {hand}
  BY <1>1, InAppended DEF TypeOK
<1>3. /\ Received' = Received \union ToSet(hand)
      /\ Delivered' = Delivered \union {ToSet(hand)}
  BY <1>2 DEF Received, InBatches, Delivered
<1>4. hand # <<>>
  BY <1>1 DEF Posts, Steps, Holding
<1>5. hand \notin evicted
  <2>1. CASE durable
    <3>1. hand = spool[1] /\ 1 \in 1 .. Len(spool)
      BY <1>1, <2>1, InShortened DEF Steps, TypeOK
    <3> QED BY <1>1, <1>4, <3>1, NotBelowItself DEF Queue, Lined, TypeOK
  <2>2. CASE ~durable
    BY <1>1, <2>2 DEF Posts, Queue, Lined, Fresh
  <2> QED BY <2>1, <2>2
<1>6. lost \intersect ToSet(hand) = {}
  BY <1>1 DEF Apart
<1>7. ToSet(hand) \intersect (ToSet(stream) \union ToSet(pending)) = {}
  BY <1>1, MemoryIsApart DEF Known
<1>8. ToSet(hand) \intersect Received = {}
  <2>1. \A b \in ToSet(arrived) : ToSet(b) \intersect ToSet(hand) = {}
    BY <1>1 DEF Keys, Known
  <2> QED BY <2>1 DEF Received, InBatches
<1>9. UNCHANGED <<dropped, evicted>> /\ (lost' = lost \/ lost' = lost \union ToSet(hand))
  BY DEF Posts
<1>10. evicted' \ ToSet(arrived') = evicted \ ToSet(arrived)
  BY <1>2, <1>5, <1>9
<1>11. lost' \ Received' = lost \ Received
  BY <1>3, <1>6, <1>9
<1>12. Gone' = Gone
  BY <1>9, <1>10, <1>11 DEF Gone
<1> QED BY <1>2, <1>3, <1>4, <1>5, <1>6, <1>7, <1>8, <1>12

\* A POST that delivers the batch in hand.
LEMMA ArrivalSimulates ==
    ASSUME BatcherInv, Posts, hand \notin ToSet(arrived), arrived' = Append(arrived, hand)
    PROVE  Simulates
PROOF
<1>1. UNCHANGED <<stream, pending>> /\ (Keeps \/ LetsGo)
  BY DEF Posts, memVars
<1>2. CASE durable
  <2>1. InMemory' = InMemory /\ InMemory \intersect ToSet(hand) = {}
    BY <1>1, <1>2, ArrivalAdds, InNothing DEF InMemory, Keeps, LetsGo
  <2>2. Held' = Held
    BY <2>1, ArrivalAdds DEF Held
  <2>3. /\ AsSets(Undelivered) # <<>> /\ Head(AsSets(Undelivered)) = ToSet(hand)
        /\ AsSets(Undelivered)' = Tail(AsSets(Undelivered))
    BY <1>2, UndeliveredMoves, SetsOf
  <2>4. Promise!DeliverKept
    BY <2>2, <2>3, ArrivalAdds DEF Promise!DeliverKept
  <2> QED BY <2>4 DEF Simulates, Promise!Next
<1>3. CASE ~durable
  <2>1. ToSet(hand) \subseteq InMemory
    BY <1>3 DEF InMemory
  <2>2. InMemory' = InMemory \/ InMemory' = InMemory \ ToSet(hand)
    BY <1>1, <1>3, ArrivalAdds, InNothing DEF InMemory, Keeps, LetsGo
  <2>3. Held' = Held \ ToSet(hand) /\ ToSet(hand) \subseteq Held
    BY <2>1, <2>2, ArrivalAdds DEF Held
  <2>4. UNCHANGED AsSets(Undelivered)
    BY <1>3, UndeliveredMoves
  <2>5. ToSet(hand) # {}
    BY ArrivalAdds, TypedSets DEF BatcherInv, TypeOK
  <2>6. Promise!DeliverHeld(ToSet(hand))
    BY <2>3, <2>4, <2>5, ArrivalAdds DEF Promise!DeliverHeld
  <2> QED BY <2>3, <2>6 DEF Simulates, Promise!Next
<1> QED BY <1>2, <1>3

LEMMA StepSimulates ==
    ASSUME BatcherInv, Next
    PROVE  Simulates
PROOF
<1>1. CASE Posts
  BY <1>1, NoArrivalSimulates, ArrivalSimulates DEF Posts
<1> QED
  BY <1>1, StepKinds, PublishSimulates, MovesInMemory, AppendSimulates, EvictSimulates,
     RemoveSimulates, EndSimulates DEF BatcherInv

LEMMA InitSimulates == Init => Promise!Init
PROOF
<1> SUFFICES ASSUME Init PROVE Promise!Init
  OBVIOUS
<1>1. ToSet(<<>>) = {} /\ InBatches({}) = {}
  BY InNothing DEF InBatches
<1>2. Undelivered = <<>> /\ AsSets(<<>>) = <<>>
  BY DEF Init, Undelivered, AsSets
<1>3. Held = {} /\ Delivered = {} /\ Gone = {}
  BY <1>1 DEF Init, Held, InMemory, Delivered, Gone
<1> QED BY <1>2, <1>3 DEF Promise!Init

\* The agent implements BatchDelivery: no interleaving of retries, evictions, file errors,
\* kills and restarts delivers a batch in part, before an older one on disk, or after it
\* was given up.
THEOREM BatcherImplements == Spec => DeliversInBatches
PROOF
<1>1. BatcherInv /\ [Next]_vars => [Promise!Next]_(Promise!vars)
  <2> SUFFICES ASSUME BatcherInv, [Next]_vars PROVE Simulates
    BY DEF Simulates, Promise!vars
  <2>1. CASE Next
    BY <2>1, StepSimulates
  <2>2. CASE UNCHANGED vars
    <3>1. UNCHANGED <<spool, arrived, lossVars, stream, pending, hand, durable>>
      BY <2>2 DEF vars, memVars, runVars, serverVars
    <3>2. InMemory' = InMemory
      BY <3>1 DEF InMemory
    <3> QED BY <3>1, <3>2, StutterSimulates
  <2> QED BY <2>1, <2>2
<1> QED
  BY InitSimulates, <1>1, AlwaysBatcherInv, PTL DEF Spec, DeliversInBatches, Promise!Spec

=============================================================================
