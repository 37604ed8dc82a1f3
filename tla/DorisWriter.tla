----------------------------- MODULE DorisWriter -----------------------------
(***************************************************************************)
(* doris.Writer: goroutines call Enqueue with rows for a table, a ticker   *)
(* and an overflowing buffer hand the buffered rows to flush goroutines,   *)
(* and Close flushes what is left.  A step is one critical section of      *)
(* w.mu, or one operation on a channel, on the WaitGroup or on Doris.      *)
(***************************************************************************)
EXTENDS Integers, FiniteSets, FiniteSetsExt

CONSTANTS
    Calls,            \* calls of Enqueue and EnqueueNonBlocking
    TableOf,          \* the table of each call
    RowsOf,           \* how many rows it brings
    Blocking,         \* the calls of Enqueue
    Closers,          \* calls of Close
    Tables,
    MaxBatchRows,
    MaxPendingRows

ASSUME WriterAssumption ==
    /\ TableOf \in [Calls -> Tables]
    /\ RowsOf \in [Calls -> Nat \ {0}]
    /\ Blocking \subseteq Calls
    /\ MaxBatchRows \in Nat \ {0}
    /\ MaxPendingRows \in Nat \ {0}

VARIABLES
    call,      \* how far each call is, or what it returned
    pending,   \* the calls whose rows are in the buffer of each table
    depth,     \* len(w.pending[table])
    closed,    \* w.closed
    closer,    \* how far each call of Close is
    stopCh,    \* is it closed?
    loop,      \* in its select, in flushAll, or returned: doneCh is closed
    snapshot,  \* flushAll's buffers not yet given to a goroutine
    flights,   \* flush goroutines: the calls whose rows each carries
    flushWG,   \* the counter of w.flushWG
    flushed,   \* calls whose rows Doris loaded
    failed,    \* calls whose rows were in a load that failed
    healthy    \* w.healthyAtomic

bufferVars == <<call, pending, depth>>
closeVars == <<closed, closer, stopCh>>
loopVars == <<loop, snapshot>>
flushVars == <<flights, flushWG, flushed, failed, healthy>>
vars == <<bufferVars, closeVars, loopVars, flushVars>>

Returned == {"nil", "ErrBackpressure", "ErrWriterClosed"}

TypeOK ==
    /\ call \in [Calls -> {"new", "waiting", "woken"} \union Returned]
    /\ pending \in [Tables -> SUBSET Calls]
    /\ depth \in [Tables -> Nat]
    /\ closed \in BOOLEAN
    /\ closer \in [Closers -> {"new", "wake", "stop", "loop", "flushes", "closed", "no-op"}]
    /\ stopCh \in BOOLEAN
    /\ loop \in {"select", "tick", "final", "returned"}
    /\ snapshot \in [Tables -> SUBSET Calls]
    /\ flights \in SUBSET SUBSET Calls
    /\ flushWG \in Nat
    /\ flushed \in SUBSET Calls
    /\ failed \in SUBSET Calls
    /\ healthy \in BOOLEAN

Init ==
    /\ call = [c \in Calls |-> "new"]
    /\ pending = [t \in Tables |-> {}]
    /\ depth = [t \in Tables |-> 0]
    /\ closed = FALSE
    /\ closer = [k \in Closers |-> "new"]
    /\ stopCh = FALSE
    /\ loop = "select"
    /\ snapshot = [t \in Tables |-> {}]
    /\ flights = {}
    /\ flushWG = 0
    /\ flushed = {}
    /\ failed = {}
    /\ healthy = TRUE

-----------------------------------------------------------------------------
(* Enqueue.                                                                *)

\* A call holds the lock when it starts and when cond.Wait returns.
Runs(c) == call[c] \in {"new", "woken"}

Full(c) == depth[TableOf[c]] >= MaxPendingRows

Overflows(c) == depth[TableOf[c]] + RowsOf[c] >= MaxBatchRows

Awaken(calls) == [c \in Calls |-> IF calls[c] = "waiting" THEN "woken" ELSE calls[c]]

Refuse(c) ==
    /\ Runs(c) /\ closed
    /\ call' = [call EXCEPT ![c] = "ErrWriterClosed"]
    /\ UNCHANGED <<pending, depth, closeVars, loopVars, flushVars>>

Backpressure(c) ==
    /\ Runs(c) /\ ~closed /\ Full(c) /\ c \notin Blocking
    /\ call' = [call EXCEPT ![c] = "ErrBackpressure"]
    /\ UNCHANGED <<pending, depth, closeVars, loopVars, flushVars>>

\* Fault: a woken call looks at the buffer before it looks at closed.
BlockUnchecked(c) ==
    /\ Runs(c) /\ Full(c) /\ c \in Blocking
    /\ call' = [call EXCEPT ![c] = "waiting"]
    /\ UNCHANGED <<pending, depth, closeVars, loopVars, flushVars>>

\* cond.Wait.
Block(c) ==
    /\ Runs(c) /\ ~closed /\ Full(c) /\ c \in Blocking
    /\ call' = [call EXCEPT ![c] = "waiting"]
    /\ UNCHANGED <<pending, depth, closeVars, loopVars, flushVars>>

\* Fault: closed is not looked at again under the lock.
BufferUnchecked(c) ==
    /\ Runs(c) /\ ~Full(c) /\ ~Overflows(c)
    /\ call' = [call EXCEPT ![c] = "nil"]
    /\ pending' = [pending EXCEPT ![TableOf[c]] = @ \union {c}]
    /\ depth' = [depth EXCEPT ![TableOf[c]] = @ + RowsOf[c]]
    /\ UNCHANGED <<closeVars, loopVars, flushVars>>

Buffer(c) ==
    /\ Runs(c) /\ ~closed /\ ~Full(c) /\ ~Overflows(c)
    /\ call' = [call EXCEPT ![c] = "nil"]
    /\ pending' = [pending EXCEPT ![TableOf[c]] = @ \union {c}]
    /\ depth' = [depth EXCEPT ![TableOf[c]] = @ + RowsOf[c]]
    /\ UNCHANGED <<closeVars, loopVars, flushVars>>

\* Faults: the goroutine is not counted; the buffer keeps the batch.
HandOffUncounted(c) ==
    /\ Runs(c) /\ ~closed /\ ~Full(c) /\ Overflows(c)
    /\ call' = [Awaken(call) EXCEPT ![c] = "nil"]
    /\ pending' = [pending EXCEPT ![TableOf[c]] = {}]
    /\ depth' = [depth EXCEPT ![TableOf[c]] = 0]
    /\ flights' = flights \union {pending[TableOf[c]] \union {c}}
    /\ UNCHANGED <<flushWG, closeVars, loopVars, flushed, failed, healthy>>

HandOffUnclean(c) ==
    /\ Runs(c) /\ ~closed /\ ~Full(c) /\ Overflows(c)
    /\ call' = [Awaken(call) EXCEPT ![c] = "nil"]
    /\ depth' = [depth EXCEPT ![TableOf[c]] = 0]
    /\ flights' = flights \union {pending[TableOf[c]] \union {c}}
    /\ flushWG' = flushWG + 1
    /\ UNCHANGED <<pending, closeVars, loopVars, flushed, failed, healthy>>

\* The buffer reaches MaxBatchRows: a goroutine takes all of it to Doris.
HandOff(c) ==
    /\ Runs(c) /\ ~closed /\ ~Full(c) /\ Overflows(c)
    /\ call' = [Awaken(call) EXCEPT ![c] = "nil"]
    /\ pending' = [pending EXCEPT ![TableOf[c]] = {}]
    /\ depth' = [depth EXCEPT ![TableOf[c]] = 0]
    /\ flights' = flights \union {pending[TableOf[c]] \union {c}}
    /\ flushWG' = flushWG + 1
    /\ UNCHANGED <<closeVars, loopVars, flushed, failed, healthy>>

-----------------------------------------------------------------------------
(* The loop, its flushAll, and the goroutines it starts.                   *)

\* Fault: the buffers are emptied without a broadcast.
TakeAllQuietly(arm) ==
    /\ loop = "select"
    /\ \/ arm = "tick" /\ \E t \in Tables : pending[t] # {}
       \/ arm = "final" /\ stopCh
    /\ loop' = arm
    /\ snapshot' = pending
    /\ pending' = [t \in Tables |-> {}]
    /\ depth' = [t \in Tables |-> 0]
    /\ UNCHANGED <<call, closeVars, flushVars>>

\* flushAll, called from the arm of the ticker or from that of stopCh, takes
\* every buffer.
TakeAll(arm) ==
    /\ loop = "select"
    /\ \/ arm = "tick" /\ \E t \in Tables : pending[t] # {}
       \/ arm = "final" /\ stopCh
    /\ loop' = arm
    /\ snapshot' = pending
    /\ pending' = [t \in Tables |-> {}]
    /\ depth' = [t \in Tables |-> 0]
    /\ call' = Awaken(call)
    /\ UNCHANGED <<closeVars, flushVars>>

StartFlush(t) ==
    /\ loop \in {"tick", "final"} /\ snapshot[t] # {}
    /\ snapshot' = [snapshot EXCEPT ![t] = {}]
    /\ flights' = flights \union {snapshot[t]}
    /\ flushWG' = flushWG + 1
    /\ UNCHANGED <<loop, bufferVars, closeVars, flushed, failed, healthy>>

\* Fault: the arm of stopCh does not return.
FlushAllGoesOn ==
    /\ loop \in {"tick", "final"}
    /\ \A t \in Tables : snapshot[t] = {}
    /\ loop' = "select"
    /\ UNCHANGED <<snapshot, bufferVars, closeVars, flushVars>>

FlushAllReturns ==
    /\ loop \in {"tick", "final"}
    /\ \A t \in Tables : snapshot[t] = {}
    /\ loop' = IF loop = "final" THEN "returned" ELSE "select"
    /\ UNCHANGED <<snapshot, bufferVars, closeVars, flushVars>>

\* flushTable: one Stream Load, within 30s, not tried again.
Flush(b, ok) ==
    /\ b \in flights
    /\ flights' = flights \ {b}
    /\ flushWG' = flushWG - 1
    /\ flushed' = IF ok THEN flushed \union b ELSE flushed
    /\ failed' = IF ok THEN failed ELSE failed \union b
    /\ healthy' = ok
    /\ UNCHANGED <<bufferVars, closeVars, loopVars>>

-----------------------------------------------------------------------------
(* Close.                                                                  *)

CloserGoes(k, from, to) ==
    /\ closer[k] = from
    /\ closer' = [closer EXCEPT ![k] = to]

\* The compare-and-swap: one call closes the writer, the others return.
Close(k) ==
    /\ CloserGoes(k, "new", IF closed THEN "no-op" ELSE "wake")
    /\ closed' = TRUE
    /\ UNCHANGED <<stopCh, bufferVars, loopVars, flushVars>>

WakeWaiters(k) ==
    /\ CloserGoes(k, "wake", "stop")
    /\ call' = Awaken(call)
    /\ UNCHANGED <<closed, stopCh, pending, depth, loopVars, flushVars>>

StopLoop(k) ==
    /\ CloserGoes(k, "stop", "loop")
    /\ stopCh' = TRUE
    /\ UNCHANGED <<closed, bufferVars, loopVars, flushVars>>

AwaitLoop(k) ==
    /\ CloserGoes(k, "loop", "flushes")
    /\ loop = "returned"
    /\ UNCHANGED <<closed, stopCh, bufferVars, loopVars, flushVars>>

AwaitFlushes(k) ==
    /\ CloserGoes(k, "flushes", "closed")
    /\ flushWG = 0
    /\ UNCHANGED <<closed, stopCh, bufferVars, loopVars, flushVars>>

-----------------------------------------------------------------------------
Enqueue(c) == Refuse(c) \/ Backpressure(c) \/ Block(c) \/ Buffer(c) \/ HandOff(c)

LoopStep ==
    \/ \E arm \in {"tick", "final"} : TakeAll(arm)
    \/ \E t \in Tables : StartFlush(t)
    \/ FlushAllReturns

CloseStep(k) == WakeWaiters(k) \/ StopLoop(k) \/ AwaitLoop(k) \/ AwaitFlushes(k)

Next ==
    \/ \E c \in Calls : Enqueue(c)
    \/ LoopStep
    \/ \E b \in flights, ok \in BOOLEAN : Flush(b, ok)
    \/ \E k \in Closers : Close(k) \/ CloseStep(k)

Spec == Init /\ [][Next]_vars

(* Goroutines that can run do, the ticker ticks, and a flush ends within its *)
(* 30s.  Whether anybody calls Enqueue or Close is up to the callers.        *)
Fairness ==
    /\ \A c \in Calls : WF_vars(call[c] # "new" /\ Enqueue(c))
    /\ WF_vars(LoopStep)
    /\ WF_vars(\E b \in flights, ok \in BOOLEAN : Flush(b, ok))
    /\ \A k \in Closers : WF_vars(CloseStep(k))

FairSpec == Spec /\ Fairness

-----------------------------------------------------------------------------
(* What must hold.                                                         *)

Done == flushed \union failed

\* The rows of a call that returned nil are in one place: one buffer, flushAll's
\* copy of it, one flush goroutine, or they have been tried against Doris once.
\* Buffers change hands between goroutines without being loaded twice or lost.
RowsInOnePlace ==
    \A c \in Calls : call[c] = "nil" =>
        Cardinality({t \in Tables : c \in pending[t]})
          + Cardinality({t \in Tables : c \in snapshot[t]})
          + Cardinality({b \in flights : c \in b})
          + (IF c \in flushed THEN 1 ELSE 0) + (IF c \in failed THEN 1 ELSE 0) = 1

\* A call waits on the condition variable only while its table's buffer is full,
\* and, once the writer is closed, only until Close's broadcast: no wake-up is lost
\* between the check of closed, the wait and the two kinds of broadcast.
NoLostWakeup ==
    \A c \in Calls : call[c] = "waiting" =>
        /\ Full(c)
        /\ closed => \E k \in Closers : closer[k] = "wake"

\* When Close returns, the rows of every call that returned nil have been tried
\* against Doris, and no flush starts after it: the recheck of closed under the
\* lock and flushWG.Add before the unlock are what Wait relies on.
CloseFlushesAll ==
    (\E k \in Closers : closer[k] = "closed") =>
        /\ \A c \in Calls : call[c] = "nil" => c \in Done
        /\ flights = {} /\ flushWG = 0

\* A call that waits returns: room is made, or the writer is closed.
WaitersReturn == \A c \in Calls : call[c] = "waiting" ~> call[c] \in Returned

\* Close returns, whatever calls were waiting or flushing when it began.
CloseReturns == \A k \in Closers : closer[k] = "wake" ~> closer[k] = "closed"

-----------------------------------------------------------------------------
(* What a comment claims and the code does not do.                         *)

Held(t) ==
    LET held == UNION flights \union snapshot[t] \union pending[t]
    IN  MapThenSumSet(LAMBDA c : RowsOf[c], {c \in held : TableOf[c] = t})

\* "Blocks when the table buffer has hit MaxPendingRows so producers naturally back
\* off if Doris is slow or unavailable" (Enqueue): with as many rows of a table
\* waiting for Doris, no further rows are taken for it.
BacksOffWhenDorisIsSlow ==
    [][\A c \in Calls : call[c] # "nil" /\ call'[c] = "nil"
            => Held(TableOf[c]) < MaxPendingRows]_vars
=============================================================================
