------------------------- MODULE DorisWriterProofs -------------------------
(***************************************************************************)
(* Close waits for every row it must, and rows change hands without being  *)
(* loaded twice: an inductive invariant of DorisWriter, and the safety     *)
(* properties that follow from it.                                         *)
(***************************************************************************)
EXTENDS DorisWriter, FiniteSetTheorems, TLAPS

\* Where the rows of a call can be, and that this is one kind of place.
Placed ==
    /\ \A t \in Tables, c \in Calls :
         c \in pending[t] \union snapshot[t] => call[c] = "nil"
    /\ \A b \in flights : b # {} /\ \A c \in b : call[c] = "nil"
    /\ \A t, u \in Tables : pending[t] \intersect snapshot[u] = {}
    /\ \A t, u \in Tables : t # u => snapshot[t] \intersect snapshot[u] = {}
    /\ \A t, u \in Tables : t # u => pending[t] \intersect pending[u] = {}
    /\ \A b \in flights, t \in Tables : b \intersect (pending[t] \union snapshot[t]) = {}

Kept ==
    \A c \in Calls : call[c] = "nil" =>
        \/ \E t \in Tables : c \in pending[t] \union snapshot[t]
        \/ \E b \in flights : c \in b
        \/ c \in Done

Counted == IsFiniteSet(flights) /\ flushWG = Cardinality(flights)

\* What has happened by the time Close and the loop are where they are.
Ordered ==
    /\ \A k \in Closers :
         /\ closer[k] \in {"wake", "stop", "loop", "flushes", "closed"} => closed
         /\ closer[k] \in {"flushes", "closed"} => loop = "returned"
         /\ closer[k] = "closed" => flights = {}
    /\ stopCh => closed
    /\ loop \in {"final", "returned"} => stopCh /\ \A t \in Tables : pending[t] = {}
    /\ loop \in {"select", "returned"} => \A t \in Tables : snapshot[t] = {}

IInv == TypeOK /\ Placed /\ Kept /\ Counted /\ Ordered /\ NoLostWakeup

-----------------------------------------------------------------------------
\* The writer starts with nothing buffered.
LEMMA InitIInv == Init => IInv
<1> SUFFICES ASSUME Init PROVE IInv
  OBVIOUS
<1> USE DEF Init
<1>1. TypeOK
  BY DEF TypeOK
<1>2. Placed /\ Kept /\ Ordered /\ NoLostWakeup
  BY DEF Placed, Kept, Ordered, NoLostWakeup
<1>3. Counted
  BY FS_EmptySet DEF Counted
<1> QED
  BY <1>1, <1>2, <1>3 DEF IInv

\* A call that is refused or waits leaves the rows where they are.
LEMMA RefusedKeeps ==
    ASSUME IInv, NEW c \in Calls, Refuse(c) \/ Backpressure(c) \/ Block(c)
    PROVE  IInv'
<1> USE DEF IInv, Refuse, Backpressure, Block, Runs, closeVars, loopVars, flushVars
<1>1. TypeOK'
  BY DEF TypeOK, Returned
<1>2. Placed'
  BY DEF Placed, TypeOK
<1>3. Kept'
  BY DEF Kept, Done, TypeOK
<1>4. Counted'
  BY DEF Counted
<1>5. Ordered'
  BY DEF Ordered
<1>6. NoLostWakeup'
  BY DEF NoLostWakeup, Full, TypeOK
<1> QED
  BY <1>1, <1>2, <1>3, <1>4, <1>5, <1>6

\* A call that buffers its rows.
LEMMA BufferKeeps ==
    ASSUME IInv, NEW c \in Calls, Buffer(c)
    PROVE  IInv'
<1> USE DEF IInv, Buffer, Runs, closeVars, loopVars, flushVars
<1>0. TableOf[c] \in Tables /\ RowsOf[c] \in Nat
  BY WriterAssumption
<1>1. TypeOK'
  BY <1>0 DEF TypeOK, Returned
<1>2. Placed'
  BY <1>0 DEF Placed, TypeOK
<1>3. Kept'
  BY <1>0 DEF Kept, Done, TypeOK
<1>4. Counted'
  BY DEF Counted
<1>5. Ordered'
  BY DEF Ordered
<1>6. NoLostWakeup'
  <2> SUFFICES ASSUME NEW d \in Calls, call'[d] = "waiting"
               PROVE  Full(d)'
    BY DEF NoLostWakeup
  <2>1. call[d] = "waiting" /\ d # c
    BY DEF TypeOK
  <2>2. Full(d)
    BY <2>1 DEF NoLostWakeup
  <2>3. TableOf[d] \in Tables /\ MaxPendingRows \in Nat
    BY WriterAssumption
  <2> QED
    BY <1>0, <2>2, <2>3 DEF Full, TypeOK
<1> QED
  BY <1>1, <1>2, <1>3, <1>4, <1>5, <1>6

\* A call that hands the whole buffer to a goroutine: nothing carries these rows
\* yet, so the goroutine counts once more.
LEMMA HandOffKeeps ==
    ASSUME IInv, NEW c \in Calls, HandOff(c)
    PROVE  IInv'
<1> USE DEF IInv, HandOff, Runs, closeVars, loopVars, flushVars
<1> DEFINE b == pending[TableOf[c]] \union {c}
<1>0. TableOf[c] \in Tables
  BY WriterAssumption
<1>a. call'[c] = "nil" /\ \A d \in Calls : call'[d] # "waiting"
  BY DEF Awaken, TypeOK
<1>b. \A d \in Calls : d # c => (call[d] = "nil" <=> call'[d] = "nil")
  BY DEF Awaken, TypeOK
<1>c. flights' = flights \union {b} /\ b \in SUBSET Calls /\ b # {}
  BY <1>0 DEF TypeOK
<1>d. call[c] # "nil"
  OBVIOUS
<1>e. b \notin flights
  BY <1>d DEF Placed
<1>1. TypeOK'
  BY <1>0, <1>c DEF TypeOK, Returned, Awaken
<1>2. Placed'
  <2>1. \A d \in b : call'[d] = "nil"
    BY <1>0, <1>a, <1>b, <1>c DEF Placed
  <2>2. \A t \in Tables : pending'[t] \subseteq pending[t]
    BY <1>0 DEF TypeOK
  <2>3. \A t \in Tables : b \intersect (pending'[t] \union snapshot[t]) = {}
    BY <1>0, <1>d DEF Placed, TypeOK
  <2>4. \A t \in Tables, d \in Calls :
          d \in pending'[t] \union snapshot'[t] => call'[d] = "nil"
    BY <1>a, <1>b, <2>2 DEF Placed
  <2>5. \A a \in flights' : a # {} /\ \A d \in a : call'[d] = "nil"
    BY <1>a, <1>b, <1>c, <2>1 DEF Placed, TypeOK
  <2>6. \A a \in flights', t \in Tables : a \intersect (pending'[t] \union snapshot'[t]) = {}
    BY <1>c, <2>2, <2>3 DEF Placed
  <2>7. /\ \A t, u \in Tables : pending'[t] \intersect snapshot'[u] = {}
        /\ \A t, u \in Tables : t # u => snapshot'[t] \intersect snapshot'[u] = {}
        /\ \A t, u \in Tables : t # u => pending'[t] \intersect pending'[u] = {}
    BY <2>2 DEF Placed
  <2> QED
    BY <2>4, <2>5, <2>6, <2>7 DEF Placed
<1>3. Kept'
  <2> SUFFICES ASSUME NEW d \in Calls, call'[d] = "nil"
               PROVE  \/ \E t \in Tables : d \in pending'[t] \union snapshot'[t]
                      \/ \E a \in flights' : d \in a
                      \/ d \in Done'
    BY DEF Kept
  <2>1. CASE d \in b
    BY <1>c, <2>1
  <2>2. CASE d \notin b
    <3>1. call[d] = "nil"
      BY <2>2, <1>b
    <3>2. \A t \in Tables : d \in pending[t] => d \in pending'[t]
      BY <1>0, <2>2 DEF TypeOK
    <3> QED
      BY <1>c, <3>1, <3>2 DEF Kept, Done
  <2> QED
    BY <2>1, <2>2
<1>4. Counted'
  <2>1. IsFiniteSet(flights')
    BY FS_AddElement DEF Counted
  <2>2. Cardinality(flights') = Cardinality(flights) + 1
    BY <1>c, <1>e, FS_AddElement DEF Counted
  <2> QED
    BY <2>1, <2>2 DEF Counted
<1>5. Ordered'
  BY <1>0 DEF Ordered
<1>6. NoLostWakeup'
  BY <1>a DEF NoLostWakeup
<1> QED
  BY <1>1, <1>2, <1>3, <1>4, <1>5, <1>6

\* flushAll takes the buffers; nobody waits on the full ones any longer.
LEMMA TakeAllKeeps ==
    ASSUME IInv, NEW arm \in {"tick", "final"}, TakeAll(arm)
    PROVE  IInv'
<1> USE DEF IInv, TakeAll, closeVars, flushVars
<1>a. \A c \in Calls : call'[c] # "waiting" /\ (call'[c] = "nil" <=> call[c] = "nil")
  BY DEF Awaken, TypeOK
<1>b. \A t \in Tables : snapshot[t] = {}
  BY DEF Ordered
<1>1. TypeOK'
  BY DEF TypeOK, Returned, Awaken
<1>2. Placed'
  BY <1>a DEF Placed, TypeOK
<1>3. Kept'
  BY <1>a, <1>b DEF Kept, Done
<1>4. Counted'
  BY DEF Counted
<1>5. Ordered'
  BY DEF Ordered
<1>6. NoLostWakeup'
  BY <1>a DEF NoLostWakeup
<1> QED
  BY <1>1, <1>2, <1>3, <1>4, <1>5, <1>6

\* flushAll starts a goroutine for a table.
LEMMA StartFlushKeeps ==
    ASSUME IInv, NEW t \in Tables, StartFlush(t)
    PROVE  IInv'
<1> USE DEF IInv, StartFlush, bufferVars, closeVars
<1>a. snapshot[t] \in SUBSET Calls /\ snapshot'[t] = {}
  BY DEF TypeOK
<1>b. \A u \in Tables : u # t => snapshot'[u] = snapshot[u]
  BY DEF TypeOK
<1>c. snapshot[t] \notin flights
  BY DEF Placed
<1>1. TypeOK'
  BY DEF TypeOK
<1>2. Placed'
  <2>1. \A u \in Tables : snapshot'[u] \subseteq snapshot[u]
    BY <1>a, <1>b
  <2>2. \A b \in flights' : b # {} /\ \A c \in b : call'[c] = "nil"
    BY <1>a DEF Placed
  <2>3. \A u \in Tables : snapshot[t] \intersect (pending'[u] \union snapshot'[u]) = {}
    BY <1>a, <1>b DEF Placed
  <2>4. \A b \in flights', u \in Tables : b \intersect (pending'[u] \union snapshot'[u]) = {}
    BY <2>1, <2>3 DEF Placed
  <2>5. /\ \A u \in Tables, c \in Calls :
             c \in pending'[u] \union snapshot'[u] => call'[c] = "nil"
        /\ \A u, v \in Tables : pending'[u] \intersect snapshot'[v] = {}
        /\ \A u, v \in Tables : u # v => snapshot'[u] \intersect snapshot'[v] = {}
        /\ \A u, v \in Tables : u # v => pending'[u] \intersect pending'[v] = {}
    BY <2>1 DEF Placed
  <2> QED
    BY <2>2, <2>4, <2>5 DEF Placed
<1>3. Kept'
  BY <1>a, <1>b DEF Kept, Done
<1>4. Counted'
  <2>1. IsFiniteSet(flights')
    BY FS_AddElement DEF Counted
  <2>2. Cardinality(flights') = Cardinality(flights) + 1
    BY <1>c, FS_AddElement DEF Counted
  <2> QED
    BY <2>1, <2>2 DEF Counted
<1>5. Ordered'
  <2>1. loop' \in {"tick", "final"} /\ loop' = loop
    OBVIOUS
  <2>2. \A k \in Closers : closer[k] # "closed"
    BY <2>1 DEF Ordered
  <2> QED
    BY <2>1, <2>2 DEF Ordered
<1>6. NoLostWakeup'
  BY DEF NoLostWakeup, Full
<1> QED
  BY <1>1, <1>2, <1>3, <1>4, <1>5, <1>6

LEMMA FlushAllReturnsKeeps ==
    ASSUME IInv, FlushAllReturns
    PROVE  IInv'
<1> USE DEF IInv, FlushAllReturns, bufferVars, closeVars, flushVars
<1>1. TypeOK'
  BY DEF TypeOK
<1>2. Placed' /\ Kept' /\ Counted'
  BY DEF Placed, Kept, Done, Counted
<1>3. Ordered'
  BY DEF Ordered
<1>4. NoLostWakeup'
  BY DEF NoLostWakeup, Full
<1> QED
  BY <1>1, <1>2, <1>3, <1>4

\* A goroutine ends: its rows have been tried, and it no longer counts.
LEMMA FlushKeeps ==
    ASSUME IInv, NEW b \in flights, NEW ok \in BOOLEAN, Flush(b, ok)
    PROVE  IInv'
<1> USE DEF IInv, Flush, bufferVars, closeVars, loopVars
<1>a. IsFiniteSet(flights') /\ Cardinality(flights') = Cardinality(flights) - 1
  BY FS_RemoveElement DEF Counted
<1>b. Cardinality(flights') \in Nat
  BY <1>a, FS_CardinalityType
<1>1. TypeOK'
  BY <1>a, <1>b DEF TypeOK, Counted
<1>2. Placed'
  BY DEF Placed
<1>3. Kept'
  BY DEF Kept, Done
<1>4. Counted'
  BY <1>a DEF Counted
<1>5. Ordered'
  BY DEF Ordered
<1>6. NoLostWakeup'
  BY DEF NoLostWakeup, Full
<1> QED
  BY <1>1, <1>2, <1>3, <1>4, <1>5, <1>6

\* Close sets the flag; whoever waits is woken by the step that follows.
LEMMA CloseKeeps ==
    ASSUME IInv, NEW k \in Closers, Close(k)
    PROVE  IInv'
<1> USE DEF IInv, Close, CloserGoes, bufferVars, loopVars, flushVars
<1>1. TypeOK'
  BY DEF TypeOK
<1>2. Placed' /\ Kept' /\ Counted'
  BY DEF Placed, Kept, Done, Counted
<1>3. Ordered'
  BY DEF Ordered, TypeOK
<1>4. NoLostWakeup'
  <2> SUFFICES ASSUME NEW c \in Calls, call[c] = "waiting"
               PROVE  Full(c) /\ \E j \in Closers : closer'[j] = "wake"
    BY DEF NoLostWakeup, Full
  <2>1. Full(c) /\ (closed => \E j \in Closers : closer[j] = "wake")
    BY DEF NoLostWakeup
  <2>2. \A j \in Closers : closer[j] = "wake" => closer'[j] = "wake"
    BY DEF TypeOK
  <2>3. ~closed => closer'[k] = "wake"
    BY DEF TypeOK
  <2> QED
    BY <2>1, <2>2, <2>3
<1> QED
  BY <1>1, <1>2, <1>3, <1>4

\* The broadcast, and the closing of stopCh.
LEMMA WakeWaitersKeeps ==
    ASSUME IInv, NEW k \in Closers, WakeWaiters(k)
    PROVE  IInv'
<1> USE DEF IInv, WakeWaiters, CloserGoes, loopVars, flushVars
<1>a. \A c \in Calls : call'[c] # "waiting" /\ (call'[c] = "nil" <=> call[c] = "nil")
  BY DEF Awaken, TypeOK
<1>1. TypeOK'
  BY DEF TypeOK, Awaken
<1>2. Placed'
  BY <1>a DEF Placed, TypeOK
<1>3. Kept' /\ Counted'
  BY <1>a DEF Kept, Done, Counted
<1>4. Ordered'
  BY DEF Ordered, TypeOK
<1>5. NoLostWakeup'
  BY <1>a DEF NoLostWakeup
<1> QED
  BY <1>1, <1>2, <1>3, <1>4, <1>5

LEMMA StopLoopKeeps ==
    ASSUME IInv, NEW k \in Closers, StopLoop(k)
    PROVE  IInv'
<1> USE DEF IInv, StopLoop, CloserGoes, bufferVars, loopVars, flushVars
<1>1. TypeOK'
  BY DEF TypeOK
<1>2. Placed' /\ Kept' /\ Counted'
  BY DEF Placed, Kept, Done, Counted
<1>3. Ordered'
  BY DEF Ordered, TypeOK
<1>4. NoLostWakeup'
  BY DEF NoLostWakeup, Full, TypeOK
<1> QED
  BY <1>1, <1>2, <1>3, <1>4

\* The two waits: for the loop, then for the goroutines; none is left when the
\* counter is zero, because the counter is their number.
LEMMA AwaitKeeps ==
    ASSUME IInv, NEW k \in Closers, AwaitLoop(k) \/ AwaitFlushes(k)
    PROVE  IInv'
<1> USE DEF IInv, AwaitLoop, AwaitFlushes, CloserGoes, bufferVars, loopVars, flushVars
<1>1. TypeOK'
  BY DEF TypeOK
<1>2. Placed' /\ Kept' /\ Counted'
  BY DEF Placed, Kept, Done, Counted
<1>3. Ordered'
  <2>1. flushWG = 0 => flights = {}
    BY FS_EmptySet DEF Counted
  <2> QED
    BY <2>1 DEF Ordered, TypeOK
<1>4. NoLostWakeup'
  BY DEF NoLostWakeup, Full, TypeOK
<1> QED
  BY <1>1, <1>2, <1>3, <1>4

-----------------------------------------------------------------------------
\* The invariant holds throughout.
THEOREM Invariant == Spec => []IInv
<1>1. IInv /\ [Next]_vars => IInv'
  <2> SUFFICES ASSUME IInv, [Next]_vars
               PROVE  IInv'
    OBVIOUS
  <2>1. ASSUME NEW c \in Calls, Enqueue(c) PROVE IInv'
    BY <2>1, RefusedKeeps, BufferKeeps, HandOffKeeps DEF Enqueue
  <2>2. CASE LoopStep
    BY <2>2, TakeAllKeeps, StartFlushKeeps, FlushAllReturnsKeeps DEF LoopStep
  <2>3. ASSUME NEW b \in flights, NEW ok \in BOOLEAN, Flush(b, ok) PROVE IInv'
    BY <2>3, FlushKeeps
  <2>4. ASSUME NEW k \in Closers, Close(k) \/ CloseStep(k) PROVE IInv'
    BY <2>4, CloseKeeps, WakeWaitersKeeps, StopLoopKeeps, AwaitKeeps DEF CloseStep
  <2>5. CASE UNCHANGED vars
    BY <2>5 DEF IInv, TypeOK, Placed, Kept, Counted, Ordered, NoLostWakeup, Full, Done,
                vars, bufferVars, closeVars, loopVars, flushVars
  <2> QED
    BY <2>1, <2>2, <2>3, <2>4, <2>5 DEF Next
<1> QED
  BY <1>1, InitIInv, PTL DEF Spec

\* The variables of the writer keep their types.
THEOREM TypeCorrect == Spec => []TypeOK
<1>1. IInv => TypeOK
  BY DEF IInv
<1> QED
  BY <1>1, Invariant, PTL

\* A call only waits while its buffer is full and a broadcast is still to come
\* (Enqueue's cond.Wait against flushAll, the hand-off and Close).
THEOREM WakeupKept == Spec => []NoLostWakeup
<1>1. IInv => NoLostWakeup
  BY DEF IInv
<1> QED
  BY <1>1, Invariant, PTL

\* When Close has returned, every row that was accepted has been tried against
\* Doris and no flush runs (Close, flushWG and the recheck in enqueue).
THEOREM CloseComplete == Spec => []CloseFlushesAll
<1>1. IInv => CloseFlushesAll
  <2> SUFFICES ASSUME IInv, NEW k \in Closers, closer[k] = "closed"
               PROVE  /\ \A c \in Calls : call[c] = "nil" => c \in Done
                      /\ flights = {} /\ flushWG = 0
    BY DEF CloseFlushesAll
  <2>1. loop = "returned" /\ flights = {}
    BY DEF IInv, Ordered
  <2>2. \A t \in Tables : pending[t] = {} /\ snapshot[t] = {}
    BY <2>1 DEF IInv, Ordered
  <2>3. flushWG = 0
    BY <2>1, FS_EmptySet DEF IInv, Counted
  <2> QED
    BY <2>1, <2>2, <2>3 DEF IInv, Kept
<1> QED
  BY <1>1, Invariant, PTL

-----------------------------------------------------------------------------
\* No goroutine carries another's rows, and what was tried against Doris is nowhere else.
Tried ==
    /\ \A b, d \in flights : b # d => b \intersect d = {}
    /\ flushed \intersect failed = {}
    /\ \A c \in Done : call[c] = "nil"
    /\ \A t \in Tables : Done \intersect (pending[t] \union snapshot[t]) = {}
    /\ \A b \in flights : Done \intersect b = {}

\* Rows change hands: a call that has just brought them, the buffers and the goroutines.
LEMMA EnqueueTries ==
    ASSUME IInv, Tried, NEW c \in Calls, Enqueue(c)
    PROVE  Tried'
<1>1. /\ TableOf[c] \in Tables /\ call \in [Calls -> {"new", "waiting", "woken"} \union Returned]
      /\ pending \in [Tables -> SUBSET Calls] /\ Done \subseteq Calls
  BY WriterAssumption DEF IInv, TypeOK, Done
<1>2. CASE Refuse(c) \/ Backpressure(c) \/ Block(c)
  BY <1>1, <1>2 DEF Refuse, Backpressure, Block, Runs, Tried, Done, closeVars, loopVars, flushVars
<1>3. CASE Buffer(c)
  <2>1. /\ call[c] # "nil" /\ call' = [call EXCEPT ![c] = "nil"]
        /\ pending' = [pending EXCEPT ![TableOf[c]] = @ \union {c}]
        /\ UNCHANGED <<snapshot, flights, flushed, failed>>
    BY <1>3 DEF Buffer, Runs, loopVars, flushVars
  <2>2. c \notin Done /\ Done' = Done
    BY <2>1 DEF Tried, Done
  <2> QED
    BY <1>1, <2>1, <2>2 DEF Tried
<1>4. CASE HandOff(c)
  <2> DEFINE b == pending[TableOf[c]] \union {c}
  <2>1. /\ call[c] # "nil" /\ call' = [Awaken(call) EXCEPT ![c] = "nil"]
        /\ pending' = [pending EXCEPT ![TableOf[c]] = {}]
        /\ flights' = flights \union {b}
        /\ UNCHANGED <<snapshot, flushed, failed>>
    BY <1>4 DEF HandOff, Runs, loopVars
  <2>2. c \notin Done /\ Done' = Done /\ \A d \in flights : c \notin d
    BY <2>1 DEF Tried, Done, IInv, Placed
  <2>3. \A d \in flights : b \intersect d = {}
    BY <1>1, <2>2 DEF IInv, Placed
  <2>4. Done \intersect b = {}
    BY <1>1, <2>2 DEF Tried
  <2>5. \A d \in Calls : call[d] = "nil" => call'[d] = "nil"
    BY <1>1, <2>1 DEF Awaken
  <2>6. \A t \in Tables : pending'[t] \subseteq pending[t]
    BY <1>1, <2>1
  <2> HIDE DEF b
  <2>7. \A d, e \in flights' : d # e => d \intersect e = {}
    BY <2>1, <2>3 DEF Tried
  <2> QED
    BY <1>1, <2>1, <2>2, <2>4, <2>5, <2>6, <2>7 DEF Tried
<1> QED
  BY <1>2, <1>3, <1>4 DEF Enqueue

\* flushAll and the goroutines.
LEMMA FlushTries ==
    ASSUME IInv, Tried, LoopStep \/ \E b \in flights, ok \in BOOLEAN : Flush(b, ok)
    PROVE  Tried'
<1>1. /\ call \in [Calls -> {"new", "waiting", "woken"} \union Returned] /\ Done \subseteq Calls
      /\ snapshot \in [Tables -> SUBSET Calls] /\ flights \subseteq SUBSET Calls
  BY DEF IInv, TypeOK, Done
<1>2. ASSUME NEW arm \in {"tick", "final"}, TakeAll(arm)
      PROVE  Tried'
  <2>1. \A d \in Calls : call[d] = "nil" => call'[d] = "nil"
    BY <1>1, <1>2 DEF TakeAll, Awaken
  <2>2. /\ snapshot' = pending /\ pending' = [t \in Tables |-> {}]
        /\ UNCHANGED <<flights, flushed, failed>>
    BY <1>2 DEF TakeAll, flushVars
  <2> QED
    BY <1>1, <2>1, <2>2 DEF Tried, Done
<1>3. ASSUME NEW t \in Tables, StartFlush(t)
      PROVE  Tried'
  <2>1. /\ snapshot' = [snapshot EXCEPT ![t] = {}] /\ flights' = flights \union {snapshot[t]}
        /\ UNCHANGED <<call, pending, flushed, failed>>
    BY <1>3 DEF StartFlush, bufferVars
  <2>2. \A b \in flights : b \intersect snapshot[t] = {}
    BY DEF IInv, Placed
  <2>3. \A b, d \in flights' : b # d => b \intersect d = {}
    BY <2>1, <2>2 DEF Tried
  <2>4. Done' = Done /\ Done \intersect snapshot[t] = {}
    BY <2>1 DEF Tried, Done
  <2> QED
    BY <1>1, <2>1, <2>3, <2>4 DEF Tried
<1>4. CASE FlushAllReturns
  BY <1>4 DEF FlushAllReturns, Tried, Done, bufferVars, flushVars
<1>5. ASSUME NEW b \in flights, NEW ok \in BOOLEAN, Flush(b, ok)
      PROVE  Tried'
  <2>1. /\ flights' = flights \ {b} /\ Done' = Done \union b
        /\ UNCHANGED <<call, pending, snapshot>>
        /\ flushed' \union failed' = flushed \union failed \union b
        /\ flushed' \intersect failed' \subseteq (flushed \intersect failed) \union (Done \intersect b)
    BY <1>5 DEF Flush, Done, bufferVars, loopVars
  <2>2. Done \intersect b = {} /\ \A d \in flights' : b \intersect d = {}
    BY <2>1 DEF Tried
  <2>3. /\ \A d \in b : call[d] = "nil"
        /\ \A t \in Tables : b \intersect (pending[t] \union snapshot[t]) = {}
    BY DEF IInv, Placed
  <2>4. flushed' \intersect failed' = {}
    BY <2>1, <2>2 DEF Tried
  <2> QED
    BY <2>1, <2>2, <2>3, <2>4 DEF Tried
<1> QED
  BY <1>2, <1>3, <1>4, <1>5 DEF LoopStep

\* Close moves no rows; with IInv the places stay apart.
LEMMA TriedHolds == Spec => []Tried
<1>1. Init => Tried
  BY DEF Init, Tried, Done
<1>2. IInv /\ Tried /\ [Next]_vars => Tried'
  <2> SUFFICES ASSUME IInv, Tried, [Next]_vars
               PROVE  Tried'
    OBVIOUS
  <2>1. ASSUME NEW k \in Closers, Close(k) \/ CloseStep(k)
        PROVE  Tried'
    <3>1. \A c \in Calls : call[c] = "nil" => call'[c] = "nil"
      BY <2>1 DEF IInv, TypeOK, Close, CloseStep, WakeWaiters, StopLoop, AwaitLoop, AwaitFlushes,
         Awaken, bufferVars
    <3>2. UNCHANGED <<pending, loopVars, flushVars>>
      BY <2>1 DEF Close, CloseStep, WakeWaiters, StopLoop, AwaitLoop, AwaitFlushes, bufferVars
    <3>3. Done \subseteq Calls
      BY DEF IInv, TypeOK, Done
    <3> QED
      BY <3>1, <3>2, <3>3 DEF Tried, Done, loopVars, flushVars
  <2>2. CASE UNCHANGED vars
    BY <2>2 DEF Tried, Done, vars, bufferVars, loopVars, flushVars
  <2> QED
    BY <2>1, <2>2, EnqueueTries, FlushTries DEF Next
<1> QED
  BY <1>1, <1>2, Invariant, PTL DEF Spec

\* The rows a call brought are in one buffer, in flushAll's copy, with one goroutine, or
\* were tried once: neither enqueue nor flushAll hands a batch over twice or loses it.
THEOREM OnePlace == Spec => []RowsInOnePlace
<1>1. IInv /\ Tried => RowsInOnePlace
  <2> SUFFICES ASSUME IInv, Tried, NEW c \in Calls, call[c] = "nil"
               PROVE  Cardinality({t \in Tables : c \in pending[t]})
                        + Cardinality({t \in Tables : c \in snapshot[t]})
                        + Cardinality({b \in flights : c \in b})
                        + (IF c \in flushed THEN 1 ELSE 0) + (IF c \in failed THEN 1 ELSE 0) = 1
    BY DEF RowsInOnePlace
  <2> DEFINE P == {t \in Tables : c \in pending[t]}
             S == {t \in Tables : c \in snapshot[t]}
             F == {b \in flights : c \in b}
  <2>0. /\ Cardinality({}) = 0
        /\ \A x : Cardinality({x}) = 1
    BY FS_EmptySet, FS_Singleton
  <2>1. ASSUME NEW t \in Tables, c \in pending[t]
        PROVE  P = {t} /\ S = {} /\ F = {} /\ c \notin flushed /\ c \notin failed
    BY <2>1 DEF IInv, Placed, Tried, Done
  <2>2. ASSUME NEW t \in Tables, c \in snapshot[t]
        PROVE  P = {} /\ S = {t} /\ F = {} /\ c \notin flushed /\ c \notin failed
    BY <2>2 DEF IInv, Placed, Tried, Done
  <2>3. ASSUME NEW b \in flights, c \in b
        PROVE  P = {} /\ S = {} /\ F = {b} /\ c \notin flushed /\ c \notin failed
    BY <2>3 DEF IInv, Placed, Tried, Done
  <2>4. ASSUME c \in Done
        PROVE  P = {} /\ S = {} /\ F = {} /\ ~(c \in flushed /\ c \in failed)
    BY <2>4 DEF Tried
  <2>5. \/ \E t \in Tables : c \in pending[t]
        \/ \E t \in Tables : c \in snapshot[t]
        \/ \E b \in flights : c \in b
        \/ c \in Done
    BY DEF IInv, Kept
  <2> HIDE DEF P, S, F
  <2> DEFINE Places == Cardinality(P) + Cardinality(S) + Cardinality(F)
                         + (IF c \in flushed THEN 1 ELSE 0) + (IF c \in failed THEN 1 ELSE 0)
  <2>6. ASSUME NEW t \in Tables, c \in pending[t]
        PROVE  Places = 1
    <3>1. Cardinality(P) = 1 /\ Cardinality(S) = 0 /\ Cardinality(F) = 0
      BY <2>0, <2>1, <2>6, Zenon
    <3> QED
      BY <2>1, <2>6, <3>1
  <2>7. ASSUME NEW t \in Tables, c \in snapshot[t]
        PROVE  Places = 1
    <3>1. Cardinality(P) = 0 /\ Cardinality(S) = 1 /\ Cardinality(F) = 0
      BY <2>0, <2>2, <2>7, Zenon
    <3> QED
      BY <2>2, <2>7, <3>1
  <2>8. ASSUME NEW b \in flights, c \in b
        PROVE  Places = 1
    <3>1. Cardinality(P) = 0 /\ Cardinality(S) = 0 /\ Cardinality(F) = 1
      BY <2>0, <2>3, <2>8, Zenon
    <3> QED
      BY <2>3, <2>8, <3>1
  <2>9. ASSUME c \in Done
        PROVE  Places = 1
    <3>1. Cardinality(P) = 0 /\ Cardinality(S) = 0 /\ Cardinality(F) = 0
      BY <2>0, <2>4, <2>9, Zenon
    <3> QED
      BY <2>4, <2>9, <3>1 DEF Done
  <2>10. Places = 1
    BY <2>5, <2>6, <2>7, <2>8, <2>9
  <2> QED
    BY <2>10 DEF P, S, F
<1> QED
  BY <1>1, Invariant, TriedHolds, PTL
=============================================================================
