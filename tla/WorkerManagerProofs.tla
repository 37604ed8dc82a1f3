------------------------ MODULE WorkerManagerProofs ------------------------
(***************************************************************************)
(* An accepted task is in the channel or in the hand of one goroutine until *)
(* it has an outcome, and Stop returns only when every task that was called *)
(* has one, for any tasks, goroutines, size of the queue, attempts and      *)
(* shut-downs.                                                              *)
(***************************************************************************)
EXTENDS WorkerManager, FiniteSetTheorems, TLAPS

Pending(t) == call[t] = "accepted" /\ outcome[t] = None
InQueue(t) == \E n \in 1 .. Len(queue) : queue[n] = t
InHand(t) == \E w \in Workers : hand[w] = t

\* A goroutine holds a task while it is busy and only then.
Hands == \A w \in Workers : IF place[w] \in Busy THEN hand[w] \in Tasks ELSE hand[w] = None

\* No task is in two places.
Once ==
    /\ \A m, n \in 1 .. Len(queue) : m # n => queue[m] # queue[n]
    /\ \A v, w \in Workers : v # w /\ hand[v] = hand[w] => hand[v] = None
    /\ \A w \in Workers, n \in 1 .. Len(queue) : hand[w] # queue[n]

\* What is somewhere is pending, and what is pending is somewhere.
Known ==
    /\ \A n \in 1 .. Len(queue) : Pending(queue[n]) /\ calls[queue[n]] = 0
    /\ \A w \in Workers : hand[w] # None => Pending(hand[w])
    /\ \A t \in Tasks : Pending(t) => InQueue(t) \/ InHand(t)
    /\ \A t \in Tasks : call[t] # "accepted" => outcome[t] = None /\ calls[t] = 0

\* A job has been called at most once in each attempt.
Attempts ==
    \A w \in Workers : place[w] \in Busy =>
        /\ 1 <= attempt[w] /\ calls[hand[w]] <= attempt[w]
        /\ place[w] \in {"begin", "sleep"} => calls[hand[w]] < attempt[w]
        /\ place[w] = "backoff" => attempt[w] < MaxAttempts

\* How far the end of the process is.
Ends ==
    /\ ~open => stopping \in {"closed", "returned", "down"}
    /\ stopping \in {"returned", "down"} => \A w \in Workers : place[w] = "exited"
    /\ stopping = "down" => queue = <<>>

\* m.wg counts the goroutines that have not left: what Stop waits for is the counter.
Left == {w \in Workers : place[w] = "exited"}
Counted == wg = Cardinality(Workers \ Left)

IInv == TypeOK /\ Counted /\ Hands /\ Once /\ Known /\ Attempts /\ Ends

-----------------------------------------------------------------------------
\* Some of the goroutines are finitely many.
LEMMA SomeWorkers ==
    ASSUME NEW S \in SUBSET Workers
    PROVE  IsFiniteSet(S) /\ Cardinality(S) \in Nat
<1>1. IsFiniteSet(S)
  BY WorkerAssumption, FS_Subset
<1> QED
  BY <1>1, FS_CardinalityType

\* Where no goroutine leaves, comes or is counted, the counter stays right.
LEMMA CountStays ==
    ASSUME Counted, wg' = wg,
           \A w \in Workers : place'[w] = "exited" <=> place[w] = "exited"
    PROVE  Counted'
<1>1. Left' = Left
  BY DEF Left
<1> QED
  BY <1>1 DEF Counted

\* One goroutine leaves and is counted out.
LEMMA CountOut ==
    ASSUME Counted, NEW w \in Workers, place[w] # "exited", wg' = wg - 1,
           \A v \in Workers : place'[v] = IF v = w THEN "exited" ELSE place[v]
    PROVE  Counted' /\ wg' \in Nat
<1> DEFINE S == Workers \ Left
<1>1. Workers \ Left' = S \ {w} /\ w \in S
  BY DEF Left
<1>2. IsFiniteSet(S)
  BY SomeWorkers DEF Left
<1> HIDE DEF S
<1>3. Cardinality(S \ {w}) = Cardinality(S) - 1
  BY <1>1, <1>2, FS_RemoveElement
<1>4. wg = Cardinality(S)
  BY DEF Counted, S
<1>5. Cardinality(Workers \ Left') = wg'
  BY <1>1, <1>3, <1>4
<1>6. Workers \ Left' \in SUBSET Workers
  OBVIOUS
<1>7. Cardinality(Workers \ Left') \in Nat
  BY <1>6, SomeWorkers
<1> QED
  BY <1>5, <1>7 DEF Counted

\* A process that starts has counted all its goroutines.
LEMMA InitIInv == Init => IInv
<1> SUFFICES ASSUME Init PROVE IInv
  OBVIOUS
<1> USE WorkerAssumption DEF Init
<1>1. TypeOK
  <2>1. wg \in Nat
    BY SomeWorkers
  <2> QED
    BY <2>1 DEF TypeOK
<1>4. Counted
  <2>1. Workers \ Left = Workers
    BY DEF Left
  <2> QED
    BY <2>1 DEF Counted
<1>0. 1 .. Len(queue) = {}
  OBVIOUS
<1>2. Hands /\ Once /\ Attempts /\ Ends
  BY <1>0 DEF Hands, Once, Attempts, Ends, Busy, None
<1>3. Known
  BY <1>0 DEF Known, Pending, None
<1> QED
  BY <1>1, <1>2, <1>3, <1>4 DEF IInv

\* A call is checked, and refused or panicked without touching the queue.
LEMMA CallKeeps ==
    ASSUME IInv, NEW t \in Tasks, call[t] # "accepted",
           NEW to \in {"checked", "refused", "panicked"},
           call' = [call EXCEPT ![t] = to],
           UNCHANGED <<queue, due, workerVars, managerVars>>
    PROVE  IInv'
<1> USE DEF IInv, workerVars, managerVars
<1>1. TypeOK'
  BY DEF TypeOK
<1>2. \A s \in Tasks : (Pending(s) <=> Pending(s)') /\ (call'[s] = "accepted" => call[s] = "accepted")
                       /\ (call[s] = "accepted" => call'[s] = "accepted")
  BY DEF TypeOK, Pending
<1>3. Hands' /\ Once' /\ Attempts' /\ Ends' /\ Counted'
  BY CountStays DEF Hands, Once, Attempts, Ends
<1>4. \A n \in 1 .. Len(queue) : queue[n] \in Tasks
  BY DEF TypeOK
<1>5. \A w \in Workers : hand[w] # None => hand[w] \in Tasks
  BY DEF TypeOK
<1>6. Known'
  BY <1>2, <1>4, <1>5 DEF Known, InQueue, InHand
<1> QED
  BY <1>1, <1>3, <1>6

\* A task is accepted.
LEMMA AcceptKeeps ==
    ASSUME IInv, NEW t \in Tasks, call[t] # "accepted", open, Len(queue) < QueueSize,
           stopping # "down",
           queue' = Append(queue, t), call' = [call EXCEPT ![t] = "accepted"],
           UNCHANGED <<due, workerVars, managerVars>>
    PROVE  IInv'
<1> USE DEF IInv, workerVars, managerVars
<1>1. /\ Len(queue') = Len(queue) + 1 /\ Len(queue) \in Nat
      /\ \A n \in 1 .. Len(queue) : queue'[n] = queue[n] /\ queue[n] \in Tasks
      /\ queue'[Len(queue) + 1] = t
      /\ queue' \in Seq(Tasks)
  BY DEF TypeOK
<1>2. \A n \in 1 .. Len(queue') : n \in 1 .. Len(queue) \/ n = Len(queue) + 1
  BY <1>1
<1>3. TypeOK'
  <2>1. Len(queue') =< QueueSize
    BY <1>1, WorkerAssumption
  <2>2. call' \in [Tasks -> {None, "checked", "accepted", "refused", "panicked"}]
    BY DEF TypeOK
  <2> QED
    BY <1>1, <2>1, <2>2 DEF TypeOK
<1>4. Hands' /\ Attempts' /\ Ends' /\ Counted'
  BY CountStays DEF Hands, Attempts, Ends
<1>5. \A n \in 1 .. Len(queue) : queue[n] # t
  BY DEF Known, Pending
<1>6. \A w \in Workers : hand[w] # t
  BY WorkerAssumption DEF Known, Pending
<1>7. Once'
  BY <1>1, <1>2, <1>5, <1>6 DEF Once
<1>8. outcome[t] = None /\ calls[t] = 0
  BY DEF Known
<1>9. \A s \in Tasks : Pending(s)' <=> Pending(s) \/ s = t
  BY <1>8 DEF Pending, TypeOK
<1>10. \A s \in Tasks : (InQueue(s) => InQueue(s)') /\ (InHand(s) <=> InHand(s)')
  BY <1>1 DEF InQueue, InHand
<1>11. InQueue(t)'
  BY <1>1 DEF InQueue
<1>12. \A w \in Workers : hand[w] # None => hand[w] \in Tasks
  BY DEF TypeOK
<1>13. Known'
  <2>1. \A n \in 1 .. Len(queue') : /\ call'[queue'[n]] = "accepted"
                                     /\ outcome'[queue'[n]] = None /\ calls'[queue'[n]] = 0
    BY <1>1, <1>2, <1>8, <1>9 DEF Known, Pending
  <2>2. \A w \in Workers : hand'[w] # None =>
            call'[hand'[w]] = "accepted" /\ outcome'[hand'[w]] = None
    BY <1>9, <1>12 DEF Known, Pending
  <2>3. \A s \in Tasks : Pending(s)' => InQueue(s)' \/ InHand(s)'
    BY <1>9, <1>10, <1>11 DEF Known
  <2>4. \A s \in Tasks : call'[s] # "accepted" => outcome'[s] = None /\ calls'[s] = 0
    BY DEF Known, TypeOK
  <2> QED
    BY <2>1, <2>2, <2>3, <2>4 DEF Known, Pending
<1> QED
  BY <1>3, <1>4, <1>7, <1>13

\* A goroutine takes the oldest task.
LEMMA TakeKeeps ==
    ASSUME IInv, NEW w \in Workers, Take(w)
    PROVE  IInv'
<1> USE DEF IInv, Take, Move, managerVars
<1> DEFINE t == queue[1]
<1>1. /\ Head(queue) = t /\ t \in Tasks /\ 1 \in 1 .. Len(queue)
      /\ Len(queue') = Len(queue) - 1 /\ queue' \in Seq(Tasks)
      /\ \A n \in 1 .. Len(queue') : /\ n + 1 \in 1 .. Len(queue) /\ n + 1 # 1
                                    /\ queue'[n] = queue[n + 1]
      /\ \A n \in 1 .. Len(queue) : n = 1 \/ (n - 1 \in 1 .. Len(queue')
                                              /\ queue'[n - 1] = queue[n])
      /\ \A m, n \in 1 .. Len(queue') : m # n => m + 1 # n + 1
  BY DEF TypeOK
<1>2. /\ place' = [place EXCEPT ![w] = "begin"] /\ hand' = [hand EXCEPT ![w] = t]
      /\ attempt' = [attempt EXCEPT ![w] = 1]
  BY <1>1
<1>a. place[w] = "idle"
  OBVIOUS
<1>b. UNCHANGED <<call, due, calls, outcome, started, live, open, wg, stopping, stops>>
  OBVIOUS
<1> HIDE DEF t, Take
<1>3. TypeOK'
  <2>1. place' \in [Workers -> Busy \union {"idle", "exited"}]
    BY <1>2 DEF TypeOK, Busy
  <2>2. hand' \in [Workers -> Tasks \union {None}]
    BY <1>1, <1>2 DEF TypeOK
  <2>3. attempt' \in [Workers -> 0 .. MaxAttempts]
    BY <1>2, WorkerAssumption DEF TypeOK
  <2>4. Len(queue') =< QueueSize
    BY <1>1, WorkerAssumption DEF TypeOK
  <2> QED
    BY <1>1, <1>b, <2>1, <2>2, <2>3, <2>4 DEF TypeOK
<1>4. \A v \in Workers : /\ place'[v] = IF v = w THEN "begin" ELSE place[v]
                         /\ hand'[v] = IF v = w THEN t ELSE hand[v]
                         /\ attempt'[v] = IF v = w THEN 1 ELSE attempt[v]
  BY <1>2 DEF TypeOK
<1>5. hand[w] = None
  BY <1>a DEF Hands, Busy
<1>6. Pending(t) /\ calls[t] = 0
  BY <1>1 DEF Known, t
<1>7. Hands'
  BY <1>1, <1>4 DEF Hands, Busy
<1>8. Once'
  <2>1. \A v \in Workers : hand[v] # t
    BY <1>1 DEF Once, t
  <2>2. \A n \in 1 .. Len(queue') : queue'[n] # t
    BY <1>1 DEF Once, t
  <2>3. \A m, n \in 1 .. Len(queue') : m # n => queue'[m] # queue'[n]
    BY <1>1 DEF Once
  <2>4. \A u, v \in Workers : u # v /\ hand'[u] = hand'[v] => hand'[u] = None
    BY <1>4, <2>1 DEF Once
  <2>5. \A v \in Workers, n \in 1 .. Len(queue') : hand'[v] # queue'[n]
    BY <1>1, <1>4, <2>2 DEF Once
  <2> QED
    BY <2>3, <2>4, <2>5 DEF Once
<1>9. \A s : Pending(s)' <=> Pending(s)
  BY <1>b DEF Pending
<1>10. Known'
  <2>1. \A n \in 1 .. Len(queue') : /\ call'[queue'[n]] = "accepted"
                                     /\ outcome'[queue'[n]] = None /\ calls'[queue'[n]] = 0
    BY <1>1, <1>9, <1>b DEF Known, Pending
  <2>2. \A v \in Workers : hand'[v] # None => call'[hand'[v]] = "accepted" /\ outcome'[hand'[v]] = None
    BY <1>4, <1>6, <1>9 DEF Known, Pending
  <2>3. \A s \in Tasks : InQueue(s) => InQueue(s)' \/ InHand(s)'
    BY <1>1, <1>4 DEF InQueue, InHand, t
  <2>4. \A s \in Tasks : InHand(s) => InHand(s)'
    BY <1>4, <1>5, WorkerAssumption DEF InHand
  <2>5. \A s \in Tasks : Pending(s)' => InQueue(s)' \/ InHand(s)'
    BY <1>9, <2>3, <2>4 DEF Known
  <2> QED
    BY <1>b, <2>1, <2>2, <2>5 DEF Known, Pending
<1>11. Attempts'
  BY <1>4, <1>6, <1>b DEF Attempts, Busy
<1>12. Ends'
  <2>1. stopping \notin {"returned", "down"}
    BY <1>a DEF Ends
  <2> QED
    BY <1>b, <2>1 DEF Ends
<1>13. Counted'
  <2>1. \A v \in Workers : place'[v] = "exited" <=> place[v] = "exited"
    BY <1>4, <1>a
  <2> QED
    BY <1>b, <2>1, CountStays
<1> QED
  BY <1>3, <1>7, <1>8, <1>10, <1>11, <1>12, <1>13

\* A goroutine moves on with the task it holds.
LEMMA MoveKeeps ==
    ASSUME IInv, NEW w \in Workers, NEW to \in Busy \union {"exited"},
           place[w] # "exited", to = "exited" => place[w] = "idle",
           to \in Busy => place[w] \in Busy,
           place' = [place EXCEPT ![w] = to],
           attempt' \in [Workers -> 0 .. MaxAttempts], calls' \in [Tasks -> 0 .. MaxAttempts],
           \A v \in Workers \ {w} : attempt'[v] = attempt[v],
           \A s \in Tasks : s # hand[w] => calls'[s] = calls[s],
           to \in Busy => /\ 1 <= attempt'[w] /\ calls'[hand[w]] <= attempt'[w]
                          /\ to \in {"begin", "sleep"} => calls'[hand[w]] < attempt'[w]
                          /\ to = "backoff" => attempt'[w] < MaxAttempts,
           wg' = IF to = "exited" THEN wg - 1 ELSE wg,
           UNCHANGED <<callVars, due, hand, outcome, started, live, open, stopping, stops>>
    PROVE  IInv'
<1> USE DEF IInv, callVars
<1>2. \A v \in Workers : place'[v] = IF v = w THEN to ELSE place[v]
  BY DEF TypeOK
<1>0. Counted' /\ wg' \in Nat
  <2>1. CASE to = "exited"
    BY <1>2, <2>1, CountOut
  <2>2. CASE to # "exited"
    <3>1. \A v \in Workers : place'[v] = "exited" <=> place[v] = "exited"
      BY <1>2, <2>2
    <3> QED
      BY <2>2, <3>1, CountStays DEF TypeOK
  <2> QED
    BY <2>1, <2>2
<1>1. TypeOK'
  BY <1>0 DEF TypeOK, Busy
<1>3. Hands'
  BY <1>2 DEF Hands, Busy
<1>4. Once'
  BY DEF Once
<1>5. \A s : (Pending(s)' <=> Pending(s)) /\ (InQueue(s)' <=> InQueue(s))
             /\ (InHand(s)' <=> InHand(s))
  BY DEF Pending, InQueue, InHand
<1>6. \A n \in 1 .. Len(queue) : queue[n] \in Tasks /\ queue[n] # hand[w]
  BY DEF Once, TypeOK
<1>7. \A s \in Tasks : call[s] # "accepted" => s # hand[w]
  BY WorkerAssumption DEF Known, Pending
<1>8. Known'
  BY <1>5, <1>6, <1>7 DEF Known
<1>9. \A v \in Workers \ {w} : place[v] \in Busy => hand[v] \in Tasks /\ hand[v] # hand[w]
  BY WorkerAssumption DEF Once, Hands
<1>10. Attempts'
  <2> SUFFICES ASSUME NEW v \in Workers, place'[v] \in Busy
               PROVE  /\ 1 <= attempt'[v] /\ calls'[hand[v]] <= attempt'[v]
                      /\ place'[v] \in {"begin", "sleep"} => calls'[hand[v]] < attempt'[v]
                      /\ place'[v] = "backoff" => attempt'[v] < MaxAttempts
    BY DEF Attempts
  <2>1. CASE v = w
    BY <1>2, <2>1
  <2>2. CASE v # w
    BY <1>2, <1>9, <2>2 DEF Attempts
  <2> QED
    BY <2>1, <2>2
<1>11. Ends'
  BY <1>2 DEF Ends
<1> QED
  BY <1>0, <1>1, <1>3, <1>4, <1>8, <1>10, <1>11

\* A task ends.
LEMMA FinishKeeps ==
    ASSUME IInv, NEW w \in Workers, NEW how \in {"done", "failed", "cancelled"},
           place[w] \in Busy, Finish(w, how), UNCHANGED <<callVars, due, calls, managerVars>>
    PROVE  IInv'
<1> USE DEF IInv, Finish, callVars, managerVars
<1>1. hand[w] \in Tasks /\ hand[w] # None
  BY WorkerAssumption DEF Hands
<1>2. TypeOK'
  BY <1>1, WorkerAssumption DEF TypeOK, Busy
<1>3. \A v \in Workers : /\ place'[v] = IF v = w THEN "idle" ELSE place[v]
                         /\ hand'[v] = IF v = w THEN None ELSE hand[v]
                         /\ attempt'[v] = IF v = w THEN 0 ELSE attempt[v]
  BY DEF TypeOK
<1>4. \A s \in Tasks : outcome'[s] = IF s = hand[w] THEN how ELSE outcome[s]
  BY DEF TypeOK
<1>5. \A s \in Tasks : Pending(s)' <=> Pending(s) /\ s # hand[w]
  BY <1>4 DEF Pending, None
<1>6. \A n \in 1 .. Len(queue) : queue[n] \in Tasks /\ queue[n] # hand[w]
  BY DEF Once, TypeOK
<1>7. \A v \in Workers : hand'[v] # None => hand[v] = hand'[v] /\ hand[v] # hand[w]
                                            /\ hand[v] \in Tasks
  BY <1>1, <1>3 DEF Once, TypeOK
<1>8. Hands'
  BY <1>3 DEF Hands, Busy
<1>9. Once'
  <2>1. \A n \in 1 .. Len(queue) : queue[n] # None
    BY <1>6, WorkerAssumption
  <2> QED
    BY <1>3, <2>1 DEF Once
<1>10. Known'
  <2>1. \A n \in 1 .. Len(queue') : /\ call'[queue'[n]] = "accepted"
                                     /\ outcome'[queue'[n]] = None /\ calls'[queue'[n]] = 0
    BY <1>5, <1>6 DEF Known, Pending
  <2>2. \A v \in Workers : hand'[v] # None => call'[hand'[v]] = "accepted" /\ outcome'[hand'[v]] = None
    BY <1>5, <1>7 DEF Known, Pending
  <2>3. \A s \in Tasks : Pending(s)' => InQueue(s)' \/ InHand(s)'
    BY <1>3, <1>5 DEF Known, InQueue, InHand
  <2>4. call[hand[w]] = "accepted"
    BY <1>1 DEF Known, Pending
  <2>5. \A s \in Tasks : call'[s] # "accepted" => outcome'[s] = None /\ calls'[s] = 0
    BY <1>4, <2>4 DEF Known
  <2> QED
    BY <2>1, <2>2, <2>3, <2>5 DEF Known, Pending
<1>11. Attempts'
  BY <1>3 DEF Attempts, Busy
<1>12. Ends'
  BY <1>3 DEF Ends, Busy
<1>13. Counted'
  <2>1. \A v \in Workers : place'[v] = "exited" <=> place[v] = "exited"
    BY <1>3 DEF Busy
  <2> QED
    BY <2>1, CountStays
<1> QED
  BY <1>2, <1>8, <1>9, <1>10, <1>11, <1>12, <1>13

\* Signals and the steps of Stop change neither tasks nor goroutines.
LEMMA StopKeeps ==
    ASSUME IInv,
           \/ Signal \/ StopFlags \/ StopCloses \/ StopReturns
           \/ \E t \in Tasks : ProcessAtComes(t)
    PROVE  IInv'
<1> USE DEF IInv, callVars, workerVars, managerVars, Signal, StopFlags, StopCloses, StopReturns,
            ProcessAtComes
<1>1. TypeOK'
  <2>1. due' \subseteq Delayed /\ {started', live', open'} \subseteq BOOLEAN
    BY DEF TypeOK
  <2>2. stops' \in 0 .. MaxStops
    BY WorkerAssumption DEF TypeOK
  <2>3. stopping' \in {None, "signalled", "flagged", "closed", "returned", "down"}
    BY DEF TypeOK
  <2>4. UNCHANGED <<wg, queue, call, place, hand, attempt, calls, outcome>>
    OBVIOUS
  <2> QED
    BY <2>1, <2>2, <2>3, <2>4 DEF TypeOK
<1>2. UNCHANGED <<wg, queue, call, place, hand, attempt, calls, outcome>>
  OBVIOUS
<1>3. Hands' /\ Once' /\ Attempts' /\ Counted'
  BY <1>2, CountStays DEF Hands, Once, Attempts
<1>4. Known'
  BY <1>2 DEF Known, Pending, InQueue, InHand
<1>6. wg = 0 => \A w \in Workers : place[w] = "exited"
  <2>1. Workers \ Left \in SUBSET Workers
    OBVIOUS
  <2>2. IsFiniteSet(Workers \ Left)
    BY <2>1, SomeWorkers
  <2>3. wg = 0 => Workers \ Left = {}
    BY <2>2, FS_EmptySet DEF Counted
  <2> QED
    BY <2>3 DEF Left
<1>5. Ends'
  BY <1>6 DEF Ends, None
<1> QED
  BY <1>1, <1>3, <1>4, <1>5

\* The end of a process takes the queue and the goroutines with it.
LEMMA EndKeeps ==
    ASSUME IInv, ProcessEnds, stops' \in 0 .. MaxStops
    PROVE  IInv'
<1> USE DEF IInv, ProcessEnds
<1>0. 1 .. Len(queue') = {}
  OBVIOUS
<1>1. TypeOK'
  <2>1. \A t \in Tasks : call'[t] \in {None, "accepted", "refused", "panicked"}
    BY DEF TypeOK
  <2>2. outcome' \in [Tasks -> {None, "done", "failed", "cancelled", "lost"}]
    BY DEF TypeOK
  <2>3. place' \in [Workers -> Busy \union {"idle", "exited"}]
        /\ hand' \in [Workers -> Tasks \union {None}] /\ attempt' \in [Workers -> 0 .. MaxAttempts]
    BY WorkerAssumption
  <2>4. queue' \in Seq(Tasks) /\ Len(queue') =< QueueSize
    BY WorkerAssumption
  <2>5. call' \in [Tasks -> {None, "checked", "accepted", "refused", "panicked"}]
    BY DEF TypeOK
  <2> QED
    BY <2>2, <2>3, <2>4, <2>5 DEF TypeOK
<1>2. Hands' /\ Once' /\ Attempts' /\ Ends'
  BY <1>0 DEF Hands, Once, Attempts, Ends, Busy
<1>4. Counted'
  <2>1. Workers \ Left' = {} /\ wg' = 0
    BY DEF Left
  <2> QED
    BY <2>1, FS_EmptySet DEF Counted
<1>3. Known'
  <2>1. \A t \in Tasks : call'[t] = "accepted" <=> call[t] = "accepted"
    BY DEF TypeOK
  <2>2. \A t \in Tasks : ~(call'[t] = "accepted" /\ outcome'[t] = None)
    BY <2>1 DEF None
  <2>3. \A t \in Tasks : call'[t] # "accepted" => outcome'[t] = None /\ calls'[t] = 0
    BY <2>1 DEF Known
  <2> QED
    BY <1>0, <2>2, <2>3 DEF Known, Pending
<1> QED
  BY <1>1, <1>2, <1>3, <1>4

\* A fresh process starts with empty hands, and nothing was left in memory to lose.
LEMMA RestartKeeps == IInv /\ Restart => IInv'
<1> SUFFICES ASSUME IInv, Restart PROVE IInv'
  OBVIOUS
<1> USE DEF IInv, Restart, Fresh
<1>0. 1 .. Len(queue') = {} /\ 1 .. Len(queue) = {}
  BY DEF Ends
<1>1. TypeOK'
  <2>1. wg' \in Nat
    BY SomeWorkers
  <2> QED
    BY <2>1, WorkerAssumption DEF TypeOK, Busy
<1>6. Counted'
  <2>1. Workers \ Left' = Workers /\ wg' = Cardinality(Workers)
    BY DEF Left
  <2> QED
    BY <2>1 DEF Counted
<1>2. Hands' /\ Once' /\ Attempts' /\ Ends'
  BY <1>0 DEF Hands, Once, Attempts, Ends, Busy, None
<1>3. \A w \in Workers : hand[w] = None
  BY DEF Hands, Ends, Busy
<1>4. \A t \in Tasks : ~Pending(t)
  BY <1>0, <1>3, WorkerAssumption DEF Known, InQueue, InHand
<1>5. Known'
  BY <1>0, <1>4 DEF Known, Pending
<1> QED
  BY <1>1, <1>2, <1>5, <1>6

-----------------------------------------------------------------------------
LEMMA CallsKeep ==
    ASSUME IInv, NEW t \in Tasks, Check(t) \/ Offer(t)
    PROVE  IInv'
<1>1. CASE Check(t)
  <2>1. call[t] # "accepted"
    BY <1>1 DEF Check, None
  <2> QED
    BY <1>1, <2>1, CallKeeps DEF Check
<1>2. CASE Offer(t)
  <2>1. call[t] # "accepted" /\ stopping # "down"
    BY <1>2 DEF Offer, Up
  <2> QED
    BY <1>2, <2>1, CallKeeps, AcceptKeeps DEF Offer
<1> QED
  BY <1>1, <1>2

LEMMA RunsKeep ==
    ASSUME IInv, NEW w \in Workers, Runs(w)
    PROVE  IInv'
<1> USE DEF IInv, Up, Move, managerVars
<1>0. /\ place[w] \in Busy => /\ hand[w] \in Tasks /\ attempt[w] \in 1 .. MaxAttempts
                              /\ calls[hand[w]] \in 0 .. MaxAttempts
                              /\ calls[hand[w]] <= attempt[w]
                              /\ place[w] \in {"begin", "sleep"} => calls[hand[w]] < attempt[w]
                              /\ place[w] = "backoff" => attempt[w] < MaxAttempts
      /\ attempt \in [Workers -> 0 .. MaxAttempts] /\ calls \in [Tasks -> 0 .. MaxAttempts]
      /\ MaxAttempts \in Nat
  BY WorkerAssumption DEF Attempts, Hands, TypeOK
<1>1. CASE Take(w)
  BY <1>1, TakeKeeps
<1>2. CASE Quit(w)
  <2> USE <1>2 DEF Quit
  <2>1. "exited" \notin Busy
    BY DEF Busy
  <2>2. /\ UNCHANGED <<callVars, due, hand, outcome, started, live, open, stopping, stops>>
        /\ attempt' = attempt /\ calls' = calls /\ wg' = wg - 1
        /\ place' = [place EXCEPT ![w] = "exited"] /\ place[w] = "idle"
    OBVIOUS
  <2> HIDE DEF Quit
  <2> QED
    BY <1>0, <2>1, <2>2, MoveKeeps
<1>3. CASE Sleep(w)
  <2> USE <1>3 DEF Sleep
  <2>1. place[w] \in Busy /\ "sleep" \in Busy /\ place[w] = "begin"
    BY DEF Busy
  <2>2. UNCHANGED <<callVars, due, hand, outcome, managerVars>> /\ attempt' = attempt
        /\ calls' = calls /\ place' = [place EXCEPT ![w] = "sleep"]
    OBVIOUS
  <2>3. /\ place[w] # "exited" /\ 1 <= attempt[w]
        /\ calls[hand[w]] <= attempt[w] /\ calls[hand[w]] < attempt[w]
    BY <1>0, <2>1
  <2> HIDE DEF Sleep
  <2> QED
    BY <1>0, <2>1, <2>2, <2>3, MoveKeeps
<1>4. CASE CallJob(w)
  <2> USE <1>4 DEF CallJob
  <2>1. place[w] \in Busy /\ "job" \in Busy
    BY DEF Busy
  <2>2. calls' \in [Tasks -> 0 .. MaxAttempts] /\ calls'[hand[w]] = calls[hand[w]] + 1
        /\ \A s \in Tasks : s # hand[w] => calls'[s] = calls[s]
    BY <1>0, <2>1
  <2>3. calls'[hand[w]] <= attempt'[w]
    BY <1>0, <2>1, <2>2
  <2>4. UNCHANGED <<callVars, due, hand, outcome, managerVars>> /\ attempt' = attempt
        /\ place' = [place EXCEPT ![w] = "job"]
    OBVIOUS
  <2>5. place[w] # "exited" /\ 1 <= attempt[w]
    BY <1>0, <2>1
  <2> HIDE DEF CallJob
  <2> QED
    BY <1>0, <2>1, <2>2, <2>3, <2>4, <2>5, MoveKeeps
<1>5. ASSUME AttemptFails(w), place[w] \in Busy, UNCHANGED <<callVars, due, calls, managerVars>>
      PROVE  IInv'
  <2>1. CASE attempt[w] = MaxAttempts
    BY <1>5, <2>1, FinishKeeps DEF AttemptFails
  <2>2. CASE attempt[w] # MaxAttempts
    <3>1. "backoff" \in Busy
      BY DEF Busy
    <3>2. UNCHANGED <<callVars, due, hand, outcome, managerVars>> /\ attempt' = attempt
          /\ calls' = calls /\ place' = [place EXCEPT ![w] = "backoff"]
      BY <1>5, <2>2 DEF AttemptFails
    <3>3. attempt[w] < MaxAttempts
      BY <1>0, <1>5, <2>2
    <3>4. place[w] # "exited" /\ 1 <= attempt[w] /\ calls[hand[w]] <= attempt[w]
      BY <1>0, <1>5 DEF Busy
    <3> QED
      BY <1>0, <1>5, <3>1, <3>2, <3>3, <3>4, MoveKeeps
  <2> QED
    BY <2>1, <2>2
<1>6. CASE SleepEnds(w)
  BY <1>5, <1>6 DEF SleepEnds, Busy
<1>7. CASE \E ok \in BOOLEAN : JobReturns(w, ok)
  <2>1. place[w] \in Busy
    BY <1>7 DEF JobReturns, Busy
  <2> QED
    BY <1>5, <1>7, <2>1, FinishKeeps DEF JobReturns
<1>8. CASE Retry(w)
  <2> USE <1>8 DEF Retry
  <2>1. place[w] \in Busy /\ "begin" \in Busy
    BY DEF Busy
  <2>2. attempt' \in [Workers -> 0 .. MaxAttempts] /\ attempt'[w] = attempt[w] + 1
        /\ \A v \in Workers \ {w} : attempt'[v] = attempt[v]
    BY <1>0, <2>1
  <2>3. calls'[hand[w]] < attempt'[w] /\ 1 <= attempt'[w] /\ calls'[hand[w]] <= attempt'[w]
    BY <1>0, <2>1, <2>2
  <2> QED
    BY <1>0, <2>1, <2>2, <2>3, MoveKeeps
<1>9. CASE RetryCancelled(w)
  <2>1. place[w] \in Busy
    BY <1>9 DEF RetryCancelled, Busy
  <2> QED
    BY <1>9, <2>1, FinishKeeps DEF RetryCancelled
<1> QED
  BY <1>1, <1>2, <1>3, <1>4, <1>6, <1>7, <1>8, <1>9 DEF Runs

LEMMA StepKeeps == IInv /\ [Next]_workVars => IInv'
<1> SUFFICES ASSUME IInv, [Next]_workVars PROVE IInv'
  OBVIOUS
<1>1. CASE Exit
  BY <1>1, EndKeeps DEF Exit, IInv, TypeOK
<1>2. CASE Kill
  <2>1. stops' \in 0 .. MaxStops
    BY <1>2, WorkerAssumption DEF Kill, IInv, TypeOK
  <2> QED
    BY <1>2, <2>1, EndKeeps DEF Kill
<1>3. CASE UNCHANGED workVars
  BY <1>3 DEF IInv, TypeOK, Counted, Left, Hands, Once, Known, Attempts, Ends, Pending, InQueue,
             InHand, workVars
<1> QED
  BY <1>1, <1>2, <1>3, CallsKeep, RunsKeep, StopKeeps, RestartKeeps DEF Next, Stops

LEMMA Invariance == Spec => []IInv
<1>1. Init => IInv
  BY InitIInv
<1> QED
  BY <1>1, StepKeeps, PTL DEF Spec

-----------------------------------------------------------------------------
\* A set whose elements are all equal has one element at most.
LEMMA AtMostOne ==
    ASSUME NEW S, \A x, y \in S : x = y
    PROVE  Cardinality(S) = IF S = {} THEN 0 ELSE 1
<1>1. CASE S = {}
  BY <1>1, FS_EmptySet
<1>2. CASE S # {}
  <2>1. PICK x : S = {x}
    BY <1>2
  <2> QED
    BY <1>2, <2>1, FS_Singleton
<1> QED
  BY <1>1, <1>2

\* What IInv says of places, counted.
LEMMA PlacesCounted == IInv => OnePlacePerTask
<1> SUFFICES ASSUME IInv, NEW t \in Tasks
             PROVE  Cardinality({n \in 1 .. Len(queue) : queue[n] = t}) + Cardinality(Holders(t))
                        = IF call[t] = "accepted" /\ outcome[t] = None THEN 1 ELSE 0
  BY DEF OnePlacePerTask
<1> USE DEF IInv
<1> DEFINE Q == {n \in 1 .. Len(queue) : queue[n] = t}
           H == Holders(t)
<1>0. t # None
  BY WorkerAssumption
<1>1. Cardinality(Q) = IF Q = {} THEN 0 ELSE 1
  <2>1. \A m, n \in Q : m = n
    BY DEF Once
  <2> HIDE DEF Q
  <2> QED
    BY <2>1, AtMostOne
<1>2. Cardinality(H) = IF H = {} THEN 0 ELSE 1
  <2>1. \A v, w \in H : v = w
    BY <1>0 DEF Once, Holders
  <2> HIDE DEF H
  <2> QED
    BY <2>1, AtMostOne
<1>3. Q = {} \/ H = {}
  BY DEF Once, Holders
<1>4. Q # {} \/ H # {} <=> Pending(t)
  BY <1>0 DEF Known, InQueue, InHand, Holders
<1> QED
  BY <1>1, <1>2, <1>3, <1>4 DEF Pending

\* An accepted task without an outcome is in the channel or in the hand of one
\* goroutine, never in two places and never nowhere: enqueue, the goroutines, retries,
\* Stop and the end of the process hand it on or give it an outcome.
THEOREM OnePlace == Spec => []OnePlacePerTask
BY Invariance, PlacesCounted, PTL

\* What Stop's wait for the counter comes to: nobody is left to hold a task, so one
\* without an outcome lies in the channel, where none has been called.
LEMMA ReturnedSettles == IInv => StopSettles
<1> SUFFICES ASSUME IInv, stopping = "returned", NEW t \in Tasks, Pending(t)
             PROVE  calls[t] = 0 /\ Holders(t) = {}
  BY DEF StopSettles, Pending
<1> USE DEF IInv
<1>1. \A w \in Workers : hand[w] = None
  BY DEF Ends, Hands, Busy
<1>2. Holders(t) = {} /\ ~InHand(t)
  BY <1>1, WorkerAssumption DEF Holders, InHand
<1>3. InQueue(t)
  BY <1>2 DEF Known
<1> QED
  BY <1>2, <1>3 DEF Known, InQueue

\* Stop returns without an error only when every task that was called has its outcome,
\* and what is still queued then is never called: the counter it waits for is right
\* about the goroutines at every step, for any number of them.
THEOREM SettledStop == Spec => []StopSettles
BY Invariance, ReturnedSettles, PTL
=============================================================================
