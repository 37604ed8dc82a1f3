---------------------------- MODULE EventBatcher ----------------------------
(***************************************************************************)
(* The agent's way from its collectors to the control plane: the buffered  *)
(* channel of eventstream.Stream, the goroutine of Batcher.Run that        *)
(* gathers events into batches, and the directory of durablespool that     *)
(* keeps a batch until a POST of it was answered with a 2xx.               *)
(*                                                                         *)
(* A batch is the sequence of its events: eventReplayKey derives the key   *)
(* of a batch from nothing else.  The size of a record is its number of    *)
(* events.  The goroutine is alone with the spool, so a step is one file   *)
(* operation, one POST or one receive; the process may be killed between   *)
(* any two, and systemd starts it again.                                   *)
(***************************************************************************)
EXTENDS Integers, Sequences, SequencesExt

CONSTANTS
    MaxEvents,     \* events the collectors publish
    BufferSize,    \* capacity of the channel
    MaxRows,       \* a batch of this many events is flushed at once
    SpoolMax,      \* what the spool may hold
    MaxAttempts,   \* POSTs of a batch before postWithRetry gives up
    Poison,        \* events the control plane answers with a 4xx
    MaxStops,      \* bound on kills and shut-downs
    MaxFailures    \* bound on failed POSTs and file operations

ASSUME BatcherAssumption ==
    /\ {MaxEvents, MaxStops, MaxFailures} \subseteq Nat
    /\ {BufferSize, MaxRows, SpoolMax, MaxAttempts} \subseteq Nat \ {0}
    /\ Poison \subseteq 1 .. MaxEvents

VARIABLES
    published,  \* how many events were published so far
    stream,     \* the channel
    pending,    \* b.pending
    spool,      \* the records in the directory, in the order of their names
    pc, cont,   \* where Run is, and where it goes after drainSpool or flush
    todo,       \* the records drainSpool has still to replay
    hand,       \* the batch being written or posted
    durable,    \* did hand come from the spool?
    attempt,    \* POSTs of hand that failed in this postWithRetry
    signal,     \* was the context cancelled, or Stop called?
    dropped,    \* events Publish dropped
    evicted,    \* batches enforceBudget deleted
    spooled,    \* batches ever written to the spool
    lost,       \* events lost with the process or by a direct POST
    arrived,    \* batches the control plane accepted, in order of first arrival
    rejected,   \* batches it answered with a 4xx
    stops, failures

memVars == <<stream, pending>>
runVars == <<pc, cont, todo, hand, durable, attempt>>
lossVars == <<dropped, evicted, lost>>
serverVars == <<arrived, rejected>>
faultVars == <<stops, failures>>
vars == <<published, memVars, spool, spooled, runVars, signal, lossVars,
          serverVars, faultVars>>

Events == 1 .. MaxEvents
Batch == Seq(Events)
Places == {"select", "list", "next", "post", "delete", "flush", "append",
           "exited", "down"}

TypeOK ==
    /\ published \in 0 .. MaxEvents
    /\ stream \in Seq(Events) /\ Len(stream) =< BufferSize
    /\ pending \in Batch /\ Len(pending) =< MaxRows
    /\ spool \in Seq(Batch)
    /\ pc \in Places
    /\ cont \in {"select", "flush", "exited"}
    /\ todo \in Seq(Batch)
    /\ hand \in Batch
    /\ durable \in BOOLEAN
    /\ attempt \in 0 .. MaxAttempts
    /\ signal \in {"none", "cancel", "stop"}
    /\ dropped \in SUBSET Events
    /\ evicted \in SUBSET Batch
    /\ spooled \in SUBSET Batch
    /\ lost \in SUBSET Events
    /\ arrived \in Seq(Batch)
    /\ rejected \in SUBSET Batch
    /\ stops \in 0 .. MaxStops
    /\ failures \in 0 .. MaxFailures

Init ==
    /\ published = 0
    /\ stream = <<>>
    /\ pending = <<>>
    /\ spool = <<>>
    /\ pc = "list" /\ cont = "select"
    /\ todo = <<>>
    /\ hand = <<>>
    /\ durable = FALSE
    /\ attempt = 0
    /\ signal = "none"
    /\ dropped = {} /\ evicted = {} /\ spooled = {} /\ lost = {}
    /\ arrived = <<>> /\ rejected = {}
    /\ stops = 0 /\ failures = 0

-----------------------------------------------------------------------------
Cancelled == signal = "cancel"

Fail == failures < MaxFailures /\ failures' = failures + 1 /\ UNCHANGED stops

Goto(to, then) ==
    /\ pc' = to /\ cont' = then
    /\ todo' = <<>> /\ hand' = <<>> /\ durable' = FALSE /\ attempt' = 0

\* drainSpool or flush returns to its caller; the ticker's arm calls one and
\* then the other.
Return == Goto(cont, IF cont = "flush" THEN "select" ELSE cont)

\* os.Remove of the file of a record; one that is gone already is no error.
Without(records, b) == RemoveFirst(records, b)

SpoolSize == FoldSeq(LAMBDA b, n : Len(b) + n, 0, spool)

-----------------------------------------------------------------------------
(* The collectors and the select loop of Run.                              *)

\* A full channel drops the event that is being published.
Publish ==
    /\ published < MaxEvents /\ pc # "down"
    /\ published' = published + 1
    /\ IF Len(stream) < BufferSize
       THEN stream' = Append(stream, published + 1) /\ UNCHANGED dropped
       ELSE dropped' = dropped \union {published + 1} /\ UNCHANGED stream
    /\ UNCHANGED <<pending, spool, spooled, runVars, signal, evicted, lost,
                   serverVars, faultVars>>

\* Fault: the batch is flushed one event late.
ReceiveOneMore ==
    /\ pc = "select" /\ stream # <<>>
    /\ stream' = Tail(stream)
    /\ pending' = Append(pending, Head(stream))
    /\ Goto(IF Len(pending) >= MaxRows THEN "flush" ELSE "select", "select")
    /\ UNCHANGED <<published, spool, spooled, signal, lossVars, serverVars, faultVars>>

\* append, which calls flush when the batch is full.
Receive ==
    /\ pc = "select" /\ stream # <<>>
    /\ stream' = Tail(stream)
    /\ pending' = Append(pending, Head(stream))
    /\ Goto(IF Len(pending) + 1 >= MaxRows THEN "flush" ELSE "select", "select")
    /\ UNCHANGED <<published, spool, spooled, signal, lossVars, serverVars, faultVars>>

\* Fault: the ticker flushes, and leaves the spool for the next batch to drain.
TickWithoutDrain ==
    /\ pc = "select"
    /\ Goto("flush", "select")
    /\ UNCHANGED <<published, memVars, spool, spooled, signal, lossVars, serverVars, faultVars>>

Tick ==
    /\ pc = "select"
    /\ Goto("list", "flush")
    /\ UNCHANGED <<published, memVars, spool, spooled, signal, lossVars, serverVars, faultVars>>

\* The arms of ctx.Done() and of stopCh flush once more and return.
Quit ==
    /\ pc = "select" /\ signal # "none"
    /\ Goto("flush", "exited")
    /\ UNCHANGED <<published, memVars, spool, spooled, signal, lossVars, serverVars, faultVars>>

-----------------------------------------------------------------------------
(* flush: the batch goes to the spool, and the spool to the control plane;  *)
(* without room on the disk it is posted directly.                         *)

FlushNothing ==
    /\ pc = "flush" /\ pending = <<>>
    /\ Return
    /\ UNCHANGED <<published, memVars, spool, spooled, signal, lossVars, serverVars, faultVars>>

Flush ==
    /\ pc = "flush" /\ pending # <<>>
    /\ pc' = "append"
    /\ hand' = pending
    /\ pending' = <<>>
    /\ UNCHANGED <<published, stream, spool, spooled, cont, todo, durable, attempt,
                   signal, lossVars, serverVars, faultVars>>

Fits == SpoolSize + Len(hand) =< SpoolMax

\* Fault: it deletes the newest record first.
EvictNewest ==
    /\ pc = "append" /\ Len(hand) =< SpoolMax
    /\ ~Fits
    /\ spool' = Front(spool)
    /\ evicted' = evicted \union {Last(spool)}
    /\ UNCHANGED <<published, memVars, spooled, runVars, signal, dropped, lost,
                   serverVars, faultVars>>

\* enforceBudget makes room by deleting from the front.
Evict ==
    /\ pc = "append" /\ Len(hand) =< SpoolMax
    /\ ~Fits /\ spool # <<>>
    /\ spool' = Tail(spool)
    /\ evicted' = evicted \union {Head(spool)}
    /\ UNCHANGED <<published, memVars, spooled, runVars, signal, dropped, lost,
                   serverVars, faultVars>>

AppendRecord ==
    /\ pc = "append" /\ Fits
    /\ spool' = Append(spool, hand)
    /\ spooled' = spooled \union {hand}
    /\ Goto("list", cont)
    /\ UNCHANGED <<published, memVars, signal, lossVars, serverVars, faultVars>>

\* Faults: the batch is given back to pending and posted all the same; it is
\* neither spooled nor posted.
AppendFailsRequeues ==
    /\ pc = "append"
    /\ (Len(hand) > SpoolMax /\ UNCHANGED faultVars) \/ Fail
    /\ pc' = "post"
    /\ pending' = hand
    /\ UNCHANGED <<published, stream, spool, spooled, cont, todo, hand, durable,
                   attempt, signal, lossVars, serverVars>>

AppendFailsDrops ==
    /\ pc = "append"
    /\ (Len(hand) > SpoolMax /\ UNCHANGED faultVars) \/ Fail
    /\ Return
    /\ UNCHANGED <<published, memVars, spool, spooled, signal, lossVars, serverVars>>

\* A record that is too large, or a file operation that fails.
AppendFails ==
    /\ pc = "append"
    /\ \/ Len(hand) > SpoolMax /\ UNCHANGED faultVars
       \/ Fail
    /\ pc' = "post"
    /\ UNCHANGED <<published, memVars, spool, spooled, cont, todo, hand, durable,
                   attempt, signal, lossVars, serverVars>>

-----------------------------------------------------------------------------
(* drainSpool.  A cancelled context or a file operation that fails ends it. *)

DrainReturns ==
    /\ pc \in {"list", "next"}
    /\ \/ Cancelled /\ UNCHANGED faultVars
       \/ pc = "next" /\ todo = <<>> /\ UNCHANGED faultVars
       \/ (pc = "next" => todo # <<>>) /\ Fail
    /\ Return
    /\ UNCHANGED <<published, memVars, spool, spooled, signal, lossVars, serverVars>>

ListRecords ==
    /\ pc = "list" /\ ~Cancelled
    /\ pc' = "next"
    /\ todo' = spool
    /\ UNCHANGED <<published, memVars, spool, spooled, cont, hand, durable, attempt,
                   signal, lossVars, serverVars, faultVars>>

ReadRecord ==
    /\ pc = "next" /\ ~Cancelled /\ todo # <<>>
    /\ pc' = "post"
    /\ hand' = Head(todo)
    /\ todo' = Tail(todo)
    /\ durable' = TRUE
    /\ attempt' = 0
    /\ UNCHANGED <<published, memVars, spool, spooled, cont, signal, lossVars,
                   serverVars, faultVars>>

\* os.Remove may fail; the record is posted again by the next drain.
DeleteRecord ==
    /\ pc = "delete"
    /\ \/ /\ spool' = Without(spool, hand)
          /\ pc' = "next"
          /\ hand' = <<>> /\ durable' = FALSE /\ attempt' = 0
          /\ UNCHANGED <<cont, todo, faultVars>>
       \/ Fail /\ Return /\ UNCHANGED spool
    /\ UNCHANGED <<published, memVars, spooled, signal, lossVars, serverVars>>

-----------------------------------------------------------------------------
(* postWithRetry.                                                          *)

IsPoison(b) == \E n \in 1 .. Len(b) : b[n] \in Poison

Arrives(b) ==
    /\ ~IsPoison(b)
    /\ arrived' = IF Contains(arrived, b) THEN arrived ELSE Append(arrived, b)

\* Fault: drainSpool goes on with the batches after the one it could not post.
GiveUpOnOne ==
    /\ IF durable
       THEN pc' = "next" /\ UNCHANGED <<cont, todo, hand, durable, attempt>>
       ELSE Return
    /\ lost' = IF durable THEN lost ELSE lost \union ToSet(hand)

\* drainSpool stops at the first batch it cannot post and keeps it; a batch that
\* was posted directly is forgotten.
GiveUp ==
    /\ Return
    /\ lost' = IF durable THEN lost ELSE lost \union ToSet(hand)

\* Fault: a batch that used up its attempts is deleted like one that was sent.
RetryThenDelete ==
    IF attempt + 1 < MaxAttempts
    THEN /\ attempt' = attempt + 1
         /\ UNCHANGED <<pc, cont, todo, hand, durable, lost>>
    ELSE /\ pc' = "delete"
         /\ UNCHANGED <<cont, todo, hand, durable, attempt, lost>>

Retry ==
    IF attempt + 1 < MaxAttempts
    THEN /\ attempt' = attempt + 1
         /\ UNCHANGED <<pc, cont, todo, hand, durable, lost>>
    ELSE GiveUp

\* A 2xx reaches the agent.
PostAccepted ==
    /\ pc = "post" /\ ~Cancelled
    /\ Arrives(hand)
    /\ IF durable
       THEN pc' = "delete" /\ UNCHANGED <<cont, todo, hand, durable, attempt>>
       ELSE Return
    /\ UNCHANGED <<published, memVars, spool, spooled, signal, lossVars, rejected, faultVars>>

\* A transport error, a 429 or a 5xx; the batch may have been accepted.
PostFails ==
    /\ pc = "post" /\ ~Cancelled
    /\ Arrives(hand) \/ UNCHANGED arrived
    /\ Retry
    /\ Fail
    /\ UNCHANGED <<published, memVars, spool, spooled, signal, dropped, evicted, rejected>>

\* Any other status is an error like the ones above.
PostRejected ==
    /\ pc = "post" /\ ~Cancelled /\ IsPoison(hand)
    /\ rejected' = rejected \union {hand}
    /\ Retry
    /\ UNCHANGED <<published, memVars, spool, spooled, signal, dropped, evicted,
                   arrived, faultVars>>

\* A POST that was under way when the context was cancelled is a PostFails before.
PostAborted ==
    /\ pc = "post" /\ Cancelled
    /\ GiveUp
    /\ UNCHANGED <<published, memVars, spool, spooled, signal, dropped, evicted,
                   serverVars, faultVars>>

-----------------------------------------------------------------------------
(* The process.                                                            *)

\* SIGTERM cancels the context; Stop asks the batcher alone to finish.
Shutdown ==
    /\ pc # "down" /\ signal = "none" /\ stops < MaxStops
    /\ signal' \in {"cancel", "stop"}
    /\ stops' = stops + 1
    /\ UNCHANGED <<published, memVars, spool, spooled, runVars, lossVars, serverVars, failures>>

InMemory ==
    ToSet(stream) \union ToSet(pending) \union IF durable THEN {} ELSE ToSet(hand)

ProcessEnds ==
    /\ lost' = lost \union InMemory
    /\ stream' = <<>> /\ pending' = <<>>
    /\ Goto("down", "select")
    /\ UNCHANGED <<published, spool, spooled, signal, dropped, evicted, serverVars>>

Kill ==
    /\ pc # "down" /\ stops < MaxStops
    /\ stops' = stops + 1 /\ UNCHANGED failures
    /\ ProcessEnds

Exit == pc = "exited" /\ ProcessEnds /\ UNCHANGED faultVars

Restart ==
    /\ pc = "down"
    /\ Goto("list", "select")
    /\ signal' = "none"
    /\ UNCHANGED <<published, memVars, spool, spooled, lossVars, serverVars, faultVars>>

-----------------------------------------------------------------------------
Drain == DrainReturns \/ ListRecords \/ ReadRecord \/ DeleteRecord

Post == PostAccepted \/ PostFails \/ PostRejected \/ PostAborted

Run ==
    \/ Receive \/ Tick \/ Quit
    \/ FlushNothing \/ Flush \/ Evict \/ AppendRecord \/ AppendFails
    \/ Drain \/ Post

Next == Publish \/ Run \/ Shutdown \/ Kill \/ Exit \/ Restart

Spec == Init /\ [][Next]_vars

(* The goroutine runs, a process whose batcher returned ends, and systemd    *)
(* starts it again.  Go's select picks among its ready arms at random, so an *)
(* arm that is ready again and again is taken.  POSTs and file operations    *)
(* fail at most MaxFailures times.                                           *)
FairSpec ==
    Spec /\ WF_vars(Run) /\ SF_vars(Quit) /\ WF_vars(Exit) /\ WF_vars(Restart)

-----------------------------------------------------------------------------
(* What must hold.                                                         *)

InBatches(records) == UNION {ToSet(b) : b \in records}

\* A batch leaves the spool only when the control plane accepted it, or as the
\* oldest one of a full spool: no kill, failed POST or failed file operation between
\* AppendBytes, the POST and Delete loses it.
SpooledIsKept ==
    \A b \in spooled : Contains(spool, b) \/ Contains(arrived, b) \/ b \in evicted

\* No event is ever sent in two batches, whatever was retried, spooled or replayed
\* after a restart: re-posts carry the replay key the first POST had, which is all
\* the control plane's journal has to tell a duplicate.
OneKeyPerEvent ==
    \A b, c \in spooled \union ToSet(arrived) \union ToSet(spool) \union {hand, pending} :
        b # c => ToSet(b) \intersect ToSet(c) = {}

\* Spooled batches first reach the control plane in the order they were spooled:
\* drainSpool starts at the oldest and stops at the first it cannot post.
SpoolArrivesInOrder ==
    \A m, n \in 1 .. Len(arrived) :
        m < n /\ {arrived[m], arrived[n]} \subseteq spooled => arrived[m][1] < arrived[n][1]

\* A published event is on its way, accepted, counted as dropped or evicted, or it
\* was in memory when the process ended or its direct POST was given up: no path of
\* flush, postWithRetry or drainSpool loses one besides these.
NoEventVanishes ==
    \A e \in 1 .. published :
        e \in ToSet(stream) \union ToSet(pending) \union ToSet(hand)
              \union InBatches(ToSet(spool)) \union InBatches(ToSet(arrived))
              \union dropped \union InBatches(evicted) \union lost

\* A spooled event is accepted or evicted in the end, across restarts, unless an
\* event the control plane refuses stays in the spool before it or with it.
SpooledIsDelivered ==
    \A e \in Events : e \in InBatches(ToSet(spool)) ~>
        \/ e \in InBatches(ToSet(arrived) \union evicted)
        \/ \E n \in 1 .. Len(spool) : IsPoison(spool[n]) /\ spool[n][1] =< e

\* What BatchDelivery promises of all this.  A record that was accepted and not yet
\* deleted is delivered - drainSpool stops there, so it is the oldest one - and so is an
\* event whose direct POST was accepted although the agent gave it up.
Undelivered ==
    IF spool # <<>> /\ Contains(arrived, Head(spool)) THEN Tail(spool) ELSE spool
Received == InBatches(ToSet(arrived))
AsSets(records) == [n \in 1 .. Len(records) |-> ToSet(records[n])]
Held == InMemory \ Received
Delivered == {ToSet(b) : b \in ToSet(arrived)}
Gone == dropped \union (lost \ Received) \union InBatches(evicted \ ToSet(arrived))
Promise == INSTANCE BatchDelivery WITH
    held <- Held, kept <- AsSets(Undelivered), delivered <- Delivered, gone <- Gone

\* Every step of the agent is a step of BatchDelivery or changes nothing there: no
\* interleaving of retries, evictions, file errors, kills and restarts delivers a
\* batch in part, before an older one on disk, or after it was given up.
DeliversInBatches == Promise!Spec

-----------------------------------------------------------------------------
(* What a comment claims and the code does not do.                         *)

\* "RetryBackoff: exponential 0.5s -> 30s on 5xx + 429" (Batcher), and a "non-retryable"
\* status otherwise (postOnce): a batch that was answered with one is not posted again.
RejectedIsNotRetried ==
    [][PostAccepted \/ PostFails \/ PostRejected => hand \notin rejected]_vars
=============================================================================
