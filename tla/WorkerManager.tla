--------------------------- MODULE WorkerManager ---------------------------
(***************************************************************************)
(* worker.Manager with the in-memory backend: callers offer tasks to a     *)
(* bounded channel, Concurrency goroutines take them, run a task's job and *)
(* retry it, and SIGTERM, Stop or a kill end it all.                       *)
(*                                                                         *)
(* A task is one Enqueue or EnqueueAt call.  The queue is read under       *)
(* m.mu.RLock and used after the lock is released, so a call is two steps. *)
(* A job runs under a context of ten minutes, and the sleep of a delayed   *)
(* task is part of its job.  Time is nondeterministic: a processAt comes,  *)
(* or the ten minutes are over first.                                      *)
(***************************************************************************)
EXTENDS Integers, Sequences, FiniteSets

CONSTANTS
    Tasks,        \* the Enqueue and EnqueueAt calls
    Delayed,      \* those whose processAt lies in the future
    Workers,      \* Concurrency goroutines
    QueueSize,    \* capacity of the channel
    MaxAttempts,  \* calls of a job before executeTask gives up
    MaxStops      \* bound on kills and shut-downs

None == "none"

ASSUME WorkerAssumption ==
    /\ None \notin Tasks
    /\ Delayed \subseteq Tasks
    /\ IsFiniteSet(Workers)
    /\ {QueueSize, MaxAttempts} \subseteq Nat \ {0}
    /\ MaxStops \in Nat

VARIABLES
    started,    \* m.started
    live,       \* is m.ctx not cancelled?
    open,       \* is m.queue not closed?
    wg,         \* the counter of m.wg
    queue,      \* the tasks in m.queue
    call,       \* how the Enqueue call of a task stands
    due,        \* delayed tasks whose processAt has come
    place,      \* where a goroutine is
    hand,       \* the task it holds
    attempt,    \* which call of its job this is
    calls,      \* how often the job of a task was really called
    outcome,    \* how an accepted task ended
    stopping,   \* how far the shutdown of the process is
    stops

callVars == <<call, queue>>
workerVars == <<place, hand, attempt, calls, outcome>>
managerVars == <<started, live, open, wg, stopping, stops>>
workVars == <<started, live, open, wg, queue, call, due, place, hand, attempt, calls,
              outcome, stopping, stops>>

Busy == {"begin", "sleep", "job", "backoff"}

TypeOK ==
    /\ {started, live, open} \subseteq BOOLEAN
    /\ wg \in Nat
    /\ queue \in Seq(Tasks) /\ Len(queue) =< QueueSize
    /\ call \in [Tasks -> {None, "checked", "accepted", "refused", "panicked"}]
    /\ due \in SUBSET Delayed
    /\ place \in [Workers -> Busy \union {"idle", "exited"}]
    /\ hand \in [Workers -> Tasks \union {None}]
    /\ attempt \in [Workers -> 0 .. MaxAttempts]
    /\ calls \in [Tasks -> 0 .. MaxAttempts]
    /\ outcome \in [Tasks -> {None, "done", "failed", "cancelled", "lost"}]
    /\ stopping \in {None, "signalled", "flagged", "closed", "returned", "down"}
    /\ stops \in 0 .. MaxStops

\* startMemory: m.wg counts each goroutine before it is started, and the goroutines of
\* a fresh process wait for their first task.
Fresh ==
    /\ started' = TRUE /\ live' = TRUE /\ open' = TRUE
    /\ wg' = Cardinality(Workers)
    /\ queue' = <<>>
    /\ place' = [w \in Workers |-> "idle"]
    /\ hand' = [w \in Workers |-> None]
    /\ attempt' = [w \in Workers |-> 0]

Init ==
    /\ started = TRUE /\ live = TRUE /\ open = TRUE
    /\ wg = Cardinality(Workers)
    /\ queue = <<>>
    /\ call = [t \in Tasks |-> None]
    /\ due = {}
    /\ place = [w \in Workers |-> "idle"]
    /\ hand = [w \in Workers |-> None]
    /\ attempt = [w \in Workers |-> 0]
    /\ calls = [t \in Tasks |-> 0]
    /\ outcome = [t \in Tasks |-> None]
    /\ stopping = None
    /\ stops = 0

Up == stopping # "down"

-----------------------------------------------------------------------------
(* enqueue.                                                                *)

\* What is read under the lock.
Check(t) ==
    /\ Up /\ call[t] = None
    /\ call' = [call EXCEPT ![t] = IF started THEN "checked" ELSE "refused"]
    /\ UNCHANGED <<queue, due, workerVars, managerVars>>

\* The select after the unlock.  Of several arms that are ready any may be taken,
\* and a send on a queue that Stop closed in between panics.
Offer(t) ==
    /\ Up /\ call[t] = "checked"
    /\ \/ /\ open /\ Len(queue) < QueueSize
          /\ queue' = Append(queue, t)
          /\ call' = [call EXCEPT ![t] = "accepted"]
       \/ /\ ~live \/ (open /\ Len(queue) = QueueSize)
          /\ call' = [call EXCEPT ![t] = "refused"]
          /\ UNCHANGED queue
       \/ /\ ~open
          /\ call' = [call EXCEPT ![t] = "panicked"]
          /\ UNCHANGED queue
    /\ UNCHANGED <<due, workerVars, managerVars>>

ProcessAtComes(t) ==
    /\ t \in Delayed \ due
    /\ due' = due \union {t}
    /\ UNCHANGED <<callVars, workerVars, managerVars>>

-----------------------------------------------------------------------------
(* runWorker and executeTask.                                              *)

Move(w, to) == place' = [place EXCEPT ![w] = to]

\* Fault: the task stays in the channel for the next goroutine.
TakeLeaves(w) ==
    /\ Up /\ place[w] = "idle" /\ queue # <<>>
    /\ Move(w, "begin")
    /\ hand' = [hand EXCEPT ![w] = Head(queue)]
    /\ attempt' = [attempt EXCEPT ![w] = 1]
    /\ UNCHANGED <<callVars, due, calls, outcome, managerVars>>

\* A closed channel still yields what is in it, and select does not prefer the
\* arm of a cancelled context.
Take(w) ==
    /\ Up /\ place[w] = "idle" /\ queue # <<>>
    /\ queue' = Tail(queue)
    /\ Move(w, "begin")
    /\ hand' = [hand EXCEPT ![w] = Head(queue)]
    /\ attempt' = [attempt EXCEPT ![w] = 1]
    /\ UNCHANGED <<call, due, calls, outcome, managerVars>>

\* runWorker returns, and with it the deferred m.wg.Done.
Quit(w) ==
    /\ Up /\ place[w] = "idle"
    /\ ~live \/ (~open /\ queue = <<>>)
    /\ Move(w, "exited")
    /\ wg' = wg - 1
    /\ UNCHANGED <<callVars, due, hand, attempt, calls, outcome, started, live, open,
                   stopping, stops>>

\* The wrapper of a delayed task sleeps until its processAt.
Sleep(w) ==
    /\ Up /\ place[w] = "begin" /\ hand[w] \in Delayed \ due
    /\ Move(w, "sleep")
    /\ UNCHANGED <<callVars, due, hand, attempt, calls, outcome, managerVars>>

CallJob(w) ==
    /\ Up /\ place[w] \in {"begin", "sleep"}
    /\ hand[w] \notin Delayed \ due
    /\ Move(w, "job")
    /\ calls' = [calls EXCEPT ![hand[w]] = @ + 1]
    /\ UNCHANGED <<callVars, due, hand, attempt, outcome, managerVars>>

Finish(w, how) ==
    /\ place' = [place EXCEPT ![w] = "idle"]
    /\ hand' = [hand EXCEPT ![w] = None]
    /\ attempt' = [attempt EXCEPT ![w] = 0]
    /\ outcome' = [outcome EXCEPT ![hand[w]] = how]

\* Fault: the last attempt is not known for the last.
AttemptFailsAgain(w) ==
    IF attempt[w] > MaxAttempts
    THEN Finish(w, "failed")
    ELSE Move(w, "backoff") /\ UNCHANGED <<hand, attempt, outcome>>

\* An attempt that failed is followed by a back-off, or was the last.
AttemptFails(w) ==
    IF attempt[w] = MaxAttempts
    THEN Finish(w, "failed")
    ELSE Move(w, "backoff") /\ UNCHANGED <<hand, attempt, outcome>>

\* The manager is stopped, or the ten minutes of the job's context are over.
SleepEnds(w) ==
    /\ Up /\ place[w] = "sleep"
    /\ AttemptFails(w)
    /\ UNCHANGED <<callVars, due, calls, managerVars>>

JobReturns(w, ok) ==
    /\ Up /\ place[w] = "job"
    /\ IF ok THEN Finish(w, "done") ELSE AttemptFails(w)
    /\ UNCHANGED <<callVars, due, calls, managerVars>>

Retry(w) ==
    /\ Up /\ place[w] = "backoff"
    /\ Move(w, "begin")
    /\ attempt' = [attempt EXCEPT ![w] = @ + 1]
    /\ UNCHANGED <<callVars, due, hand, calls, outcome, managerVars>>

\* Fault: a goroutine whose retry is cancelled counts itself out, and yet goes on.
RetryCancelledDone(w) ==
    /\ Up /\ place[w] = "backoff" /\ ~live
    /\ Finish(w, "cancelled")
    /\ wg' = IF wg > 0 THEN wg - 1 ELSE wg
    /\ UNCHANGED <<callVars, due, calls, started, live, open, stopping, stops>>

RetryCancelled(w) ==
    /\ Up /\ place[w] = "backoff" /\ ~live
    /\ Finish(w, "cancelled")
    /\ UNCHANGED <<callVars, due, calls, managerVars>>

-----------------------------------------------------------------------------
(* The end of the process: main cancels the manager's context on a signal,  *)
(* stops the server, and then calls Stop.                                   *)

Signal ==
    /\ stopping = None /\ stops < MaxStops
    /\ stopping' = "signalled" /\ stops' = stops + 1
    /\ live' = FALSE
    /\ UNCHANGED <<started, open, wg, callVars, due, workerVars>>

StopFlags ==
    /\ stopping = "signalled"
    /\ stopping' = "flagged"
    /\ started' = FALSE
    /\ UNCHANGED <<live, open, wg, callVars, due, workerVars, stops>>

StopCloses ==
    /\ stopping = "flagged"
    /\ stopping' = "closed"
    /\ open' = FALSE
    /\ UNCHANGED <<started, live, wg, callVars, due, workerVars, stops>>

\* m.wg.Wait returned, which knows the counter and not the goroutines.
StopReturns ==
    /\ stopping = "closed" /\ wg = 0
    /\ stopping' = "returned"
    /\ UNCHANGED <<started, live, open, wg, callVars, due, workerVars, stops>>

\* What was in memory is gone: calls that were under way, tasks that were queued
\* or in the hand of a goroutine.
ProcessEnds ==
    /\ stopping' = "down"
    /\ call' = [t \in Tasks |-> IF call[t] = "checked" THEN "refused" ELSE call[t]]
    /\ outcome' = [t \in Tasks |->
           IF call[t] = "accepted" /\ outcome[t] = None THEN "lost" ELSE outcome[t]]
    /\ queue' = <<>> /\ wg' = 0
    /\ place' = [w \in Workers |-> "exited"]
    /\ hand' = [w \in Workers |-> None]
    /\ attempt' = [w \in Workers |-> 0]
    /\ UNCHANGED <<started, live, open, due, calls>>

\* Stop returned, or the fifteen seconds main gives it are over.
Exit == stopping \in {"closed", "returned"} /\ ProcessEnds /\ UNCHANGED stops

Kill == Up /\ stops < MaxStops /\ stops' = stops + 1 /\ ProcessEnds

Restart ==
    /\ stopping = "down"
    /\ Fresh
    /\ stopping' = None
    /\ UNCHANGED <<call, due, calls, outcome, stops>>

-----------------------------------------------------------------------------
Runs(w) ==
    \/ Take(w) \/ Quit(w)
    \/ Sleep(w) \/ CallJob(w) \/ SleepEnds(w)
    \/ \E ok \in BOOLEAN : JobReturns(w, ok)
    \/ Retry(w) \/ RetryCancelled(w)

Stops == StopFlags \/ StopCloses \/ StopReturns \/ Exit \/ Restart

Next ==
    \/ \E t \in Tasks : Check(t) \/ Offer(t) \/ ProcessAtComes(t)
    \/ \E w \in Workers : Runs(w)
    \/ Signal \/ Stops \/ Kill

Spec == Init /\ [][Next]_workVars

-----------------------------------------------------------------------------
(* What must hold.                                                         *)

Holders(t) == {w \in Workers : hand[w] = t}

\* An accepted task without an outcome is in the channel or in the hand of one
\* goroutine, never in two places and never nowhere, whatever was retried, cancelled
\* or lost with the process.
OnePlacePerTask ==
    \A t \in Tasks :
        Cardinality({n \in 1 .. Len(queue) : queue[n] = t}) + Cardinality(Holders(t))
            = IF call[t] = "accepted" /\ outcome[t] = None THEN 1 ELSE 0

\* "Stop signals workers to exit and waits for completion": once it returned without an
\* error an accepted task has its outcome, or is one that was never called and that no
\* goroutine holds.  None is called any more, although the closed channel would still
\* yield what is in it.
StopSettles ==
    stopping = "returned" =>
        \A t \in Tasks :
            call[t] = "accepted" => outcome[t] # None \/ (calls[t] = 0 /\ Holders(t) = {})

-----------------------------------------------------------------------------
(* What a comment claims and the code does not do.                         *)

\* "its handler sleeps until processAt (capped at the manager's stop signal)"
\* (EnqueueAt): while the manager runs, no task fails whose job was not even called.
FailedWasCalled ==
    [][\A t \in Tasks :
         outcome[t] = None /\ outcome'[t] = "failed" => calls[t] > 0 \/ ~live]_workVars
=============================================================================
