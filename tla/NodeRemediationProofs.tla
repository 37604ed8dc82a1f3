----------------------- MODULE NodeRemediationProofs -----------------------
(***************************************************************************)
(* The composition of remediation with the worker manager only does what    *)
(* the manager does: its behaviours are behaviours of WorkerManager, so     *)
(* what is proved of the manager holds while dispatchers and jobs run on    *)
(* it, for any requests, nodes, cap and faults.  The second half adds what  *)
(* the jobs do with leases and records: which release may rob another job,  *)
(* when scripts run one after another, and that the end of a remediation    *)
(* gives its lease back and is written down.                                *)
(***************************************************************************)
EXTENDS NodeRemediation, WorkerManagerProofs

\* A goroutine that is about to offer a child holds one.
ChildHeld ==
    /\ step \in [Workers -> {None, "start", "run", "done", "broke", "verify", "rollback",
                             "offer", "back"}]
    /\ child \in [Workers -> Tasks \union {None}]
    /\ \A w \in Workers : step[w] = "offer" => child[w] \in Tasks

ChainInv == IInv /\ ChildHeld

-----------------------------------------------------------------------------
\* The verification and the rollbacks of a request are tasks.
LEMMA ChildrenType ==
    ASSUME IInv, NEW w \in Workers, place[w] = "job"
    PROVE  Children(w) \subseteq Tasks
<1>1. hand[w] \in Tasks
  BY DEF IInv, Hands, Busy
<1>2. RequestOf(hand[w]) \in Requests
  BY <1>1, RemediationAssumption DEF RequestOf
<1> QED
  BY <1>2, RemediationAssumption DEF Children

\* A dispatcher's call of Enqueue is one of the manager's calls.
LEMMA DispatchImplements ==
    ASSUME NEW r \in Requests, Dispatches(r)
    PROVE  [Next]_workVars /\ UNCHANGED stepVars
<1>0. Execute[r] \in Tasks
  BY RemediationAssumption
<1>1. CASE Count(r) \/ Acquire(r) \/ NotEnqueued(r)
  BY <1>1 DEF Count, Acquire, NotEnqueued
<1>2. CASE Enqueue(r)
  BY <1>0, <1>2 DEF Enqueue, Next
<1>3. CASE OfferExecute(r)
  BY <1>0, <1>3 DEF OfferExecute, Next
<1> QED
  BY <1>1, <1>2, <1>3 DEF Dispatches

\* What a job does on its way is nothing to the manager; its return is JobReturns.
LEMMA InnerImplements ==
    ASSUME ChildHeld, NEW w \in Workers,
           \/ \E s \in {"run", "done", "broke", "verify", "rollback"} : Step(w, s)
           \/ \E ok \in BOOLEAN : Return(w, ok)
    PROVE  [Next]_workVars /\ ChildHeld'
<1>1. CASE \E s \in {"run", "done", "broke", "verify", "rollback"} : Step(w, s)
  <2>1. PICK s \in {"run", "done", "broke", "verify", "rollback"} : Step(w, s)
    BY <1>1
  <2>2. UNCHANGED workVars /\ step' = [step EXCEPT ![w] = s] /\ child' = child
    BY <2>1 DEF Step
  <2> HIDE DEF Step
  <2>3. ChildHeld'
    BY <2>2 DEF ChildHeld
  <2> QED
    BY <2>2, <2>3
<1>2. CASE \E ok \in BOOLEAN : Return(w, ok)
  <2>1. [Next]_workVars
    BY <1>2 DEF Return, Next, Runs
  <2>2. step' = [step EXCEPT ![w] = None] /\ child' = [child EXCEPT ![w] = None]
    BY <1>2 DEF Return
  <2>3. ChildHeld'
    BY <2>2 DEF ChildHeld, None
  <2> QED
    BY <2>1, <2>3
<1> QED
  BY <1>1, <1>2

\* Every step of a job is a step of the goroutine that runs it, or of a call of Enqueue.
LEMMA WorksImplements ==
    ASSUME ChainInv, NEW w \in Workers, Works(w)
    PROVE  [Next]_workVars /\ ChildHeld'
<1> USE DEF ChainInv
<1>1. CASE Begin(w)
  <2>1. [Next]_workVars
    BY <1>1 DEF Begin, Next, Runs
  <2>2. ChildHeld'
    BY <1>1 DEF Begin, ChildHeld
  <2> QED
    BY <2>1, <2>2
<1>2. CASE Start(w)
  BY <1>2, InnerImplements DEF Start, InnerReturns
<1>3. CASE ScriptEnds(w)
  BY <1>3, InnerImplements DEF ScriptEnds, InnerReturns
<1>4. CASE VerifyEnds(w)
  BY <1>4, InnerImplements DEF VerifyEnds
<1>5. CASE ReleaseLease(w)
  BY <1>5, InnerImplements DEF ReleaseLease, Chained, At
<1>6. CASE Follow(w)
  <2>1. Children(w) \subseteq Tasks
    BY <1>6, ChildrenType DEF Follow
  <2>2. ASSUME NEW t \in Tasks, Check(t), child' = [child EXCEPT ![w] = t],
               step' = [step EXCEPT ![w] = IF started THEN "offer" ELSE "back"]
        PROVE  [Next]_workVars /\ ChildHeld'
    <3>1. [Next]_workVars
      BY <2>2 DEF Next
    <3>2. ChildHeld'
      BY <2>2 DEF ChildHeld
    <3> QED
      BY <3>1, <3>2
  <2>3. CASE \E ok \in BOOLEAN : Return(w, ok)
    BY <2>3, InnerImplements
  <2>4. ChainResult(w) \in BOOLEAN
    BY DEF ChainResult
  <2> QED
    BY <1>6, <2>1, <2>2, <2>3, <2>4 DEF Follow
<1>7. CASE OfferChild(w)
  <2>1. child[w] \in Tasks
    BY <1>7 DEF OfferChild, At, ChildHeld
  <2>2. [Next]_workVars
    BY <1>7, <2>1 DEF OfferChild, Next
  <2>3. ChildHeld'
    BY <1>7 DEF OfferChild, ChildHeld
  <2> QED
    BY <2>2, <2>3
<1>8. CASE Finished(w)
  <2>1. ChainResult(w) \in BOOLEAN
    BY DEF ChainResult
  <2> QED
    BY <1>8, <2>1, InnerImplements DEF Finished
<1> QED
  BY <1>1, <1>2, <1>3, <1>4, <1>5, <1>6, <1>7, <1>8 DEF Works

\* The panic of a job on the closed queue ends the process as the end of Stop's wait does.
LEMMA DiesImplements ==
    ASSUME ChainInv, Dies
    PROVE  [Next]_workVars /\ ChildHeld'
<1> USE DEF ChainInv
<1>1. ASSUME NEW w \in Workers, ChildPanics(w)
      PROVE  Exit
  <2>1. place[w] = "job" /\ ~open
    BY <1>1 DEF ChildPanics, At
  <2>2. stopping = "closed"
    BY <2>1 DEF IInv, Ends
  <2> QED
    BY <1>1, <2>2 DEF ChildPanics, Exit
<1>2. [Next]_workVars
  BY <1>1 DEF Dies, Next, Stops
<1>3. ChildHeld'
  BY DEF Dies, ChildHeld, None
<1> QED
  BY <1>2, <1>3

\* Each step of the composition is a step of the manager, or leaves it alone.
LEMMA ChainStep == ChainInv /\ [RemediationNext]_remediationVars => [Next]_workVars /\ ChildHeld'
<1> SUFFICES ASSUME ChainInv, [RemediationNext]_remediationVars
             PROVE  [Next]_workVars /\ ChildHeld'
  OBVIOUS
<1>1. CASE \E r \in Requests : Dispatches(r)
  BY <1>1, DispatchImplements DEF ChainInv, ChildHeld, stepVars
<1>2. CASE \E w \in Workers : Works(w)
  BY <1>2, WorksImplements
<1>3. CASE \E n \in Nodes : LeaseExpires(n)
  BY <1>3 DEF LeaseExpires, ChainInv, ChildHeld, stepVars
<1>4. CASE Manage
  <2>1. [Next]_workVars
    BY <1>4 DEF Manage, Next, Runs, Stops
  <2>2. UNCHANGED <<step, child>>
    BY <1>4 DEF Manage, chainVars, stepVars
  <2> QED
    BY <2>1, <2>2 DEF ChainInv, ChildHeld
<1>5. CASE Dies
  BY <1>5, DiesImplements
<1>6. CASE UNCHANGED remediationVars
  BY <1>6 DEF remediationVars, chainVars, stepVars, ChainInv, ChildHeld
<1> QED
  BY <1>1, <1>2, <1>3, <1>4, <1>5, <1>6 DEF RemediationNext

LEMMA ChainInit == RemediationInit => Init /\ ChainInv
<1> SUFFICES ASSUME RemediationInit PROVE Init /\ ChainInv
  OBVIOUS
<1>1. Init
  BY DEF RemediationInit
<1>2. ChildHeld
  BY DEF RemediationInit, ChildHeld, None
<1> QED
  BY <1>1, <1>2, InitIInv DEF ChainInv

-----------------------------------------------------------------------------
\* Dispatchers and jobs use the manager only as its callers may: every behaviour of the
\* composition, cut down to the manager's state, is one of WorkerManager.
THEOREM RemediationImplements == RemediationSpec => Spec
<1>1. ChainInv /\ [RemediationNext]_remediationVars => ChainInv'
  BY ChainStep, StepKeeps DEF ChainInv
<1> QED
  BY <1>1, ChainInit, ChainStep, PTL DEF RemediationSpec, Spec

\* No remediation task is lost or in two places, whatever is dispatched, chained,
\* retried or ended with the process.
THEOREM OneTaskOnePlace == RemediationSpec => []OnePlacePerTask
BY RemediationImplements, OnePlace, PTL

\* Once Stop has returned, the scripts, verifications and rollbacks that were called
\* have ended, and those still queued are never called.
THEOREM SettledRemediation == RemediationSpec => []StopSettles
BY RemediationImplements, SettledStop, PTL

-----------------------------------------------------------------------------
(* The inductive invariant of the composition.                             *)

Ended == {"done", "failed", "cancelled"}
Scripting == {"start", "run", "done", "broke"}

\* A goroutine is in a step of the job of its task, and only some tasks chain.
JobSteps ==
    \A w \in Workers :
        /\ place[w] = "job" <=> step[w] # None
        /\ place[w] = "job" => calls[hand[w]] > 0
        /\ step[w] \in {"done", "broke", "verify"} => IsExecute(hand[w])
        /\ step[w] \in {"rollback", "offer", "back"} => IsExecute(hand[w]) \/ IsVerify(hand[w])
        /\ step[w] \in {"offer", "back"} =>
               child[w] \in {Verify[RequestOf(hand[w])]} \union Rollbacks[RequestOf(hand[w])]
        /\ place[w] = "sleep" => hand[w] \in Delayed
        /\ place[w] = "backoff" => hand[w] \in Delayed \/ calls[hand[w]] > 0

\* A dispatcher has called Enqueue as far as it is, and has no lease before it asks.
Dispatched ==
    /\ ~open \/ stopping # None => stops > 0
    /\ \A r \in Requests :
        /\ dispatch[r] \in {"idle", "counted", "leased"} => call[Execute[r]] = None
        /\ dispatch[r] = "offering" => call[Execute[r]] = "checked"
        /\ dispatch[r] = "refused" => call[Execute[r]] = "refused"
        /\ dispatch[r] \in {"idle", "counted"} => r \notin expired /\ \A n \in Nodes : lease[n] # r

\* Whatever an attempt came to is written when the script or the verification is over.
Recorded(t) == row[t] = "ended" \/ t \in unrecorded
Records ==
    /\ \A t \in Tasks : outcome[t] \in Ended => Recorded(t) \/ calls[t] = 0
    /\ \A w \in Workers : hand[w] # None /\ step[w] \notin {"start", "run"} =>
           Recorded(hand[w]) \/ calls[hand[w]] = 0

\* A request has given its lease back, or could not, once a script of it has ended.
LeaseOver(r) == r \in unreleased \/ \A n \in Nodes : lease[n] # r
Leases ==
    /\ \A n \in Nodes : lease[n] # None => target[lease[n]] = n
    /\ \A r \in Requests :
        /\ dispatch[r] = "over" /\ call[Execute[r]] # "accepted" => LeaseOver(r) \/ stops > 0
        /\ outcome[Execute[r]] \in Ended =>
               LeaseOver(r) \/ (Execute[r] \in Delayed /\ calls[Execute[r]] = 0)
        /\ \A w \in Workers : hand[w] = Execute[r] /\ step[w] \notin Scripting =>
               LeaseOver(r) \/ calls[Execute[r]] = 0

\* A request that acquired the lease and has not come to its release has it still, was
\* too late, or was robbed by one that was.
Unreturned(r) ==
    \/ dispatch[r] \in {"leased", "offering", "refused"}
    \/ /\ Pending(Execute[r])
       /\ calls[Execute[r]] =< 1
       /\ \A w \in Workers : hand[w] = Execute[r] =>
              calls[Execute[r]] = 0 \/ step[w] \in Scripting
Robbed ==
    \A r \in Requests : Unreturned(r) =>
        \/ lease[target[r]] = r
        \/ r \in expired
        \/ \E q \in Requests : target[q] = target[r] /\ Late(q) /\ lease[target[r]] # q

\* The first call of a script enqueues a rollback at most once, by itself or by the
\* verification it enqueued.
Before(r) ==
    \/ calls[Execute[r]] = 0
    \/ \E w \in Workers : hand[w] = Execute[r] /\ step[w] \notin {None, "offer", "back"}
Verifying(r) ==
    \/ call[Verify[r]] = "checked"
    \/ Pending(Verify[r]) /\ \A w \in Workers : hand[w] = Verify[r] => step[w] \notin {"offer", "back"}
OneRollback ==
    \A r \in Requests : calls[Execute[r]] =< 1 =>
        /\ \A a, b \in Rollbacks[r] : call[a] # None /\ call[b] # None => a = b
        /\ Before(r) \/ Verifying(r) => \A b \in Rollbacks[r] : call[b] = None
        /\ Before(r) => call[Verify[r]] = None

Chaining == JobSteps /\ Dispatched /\ Records /\ Leases /\ Robbed /\ OneRollback

\* A task is lost only with a process.
Lost == \A t \in Tasks : outcome[t] = "lost" => stops > 0

RInv == ChainInv /\ RemediationTypeOK /\ Lost /\ Chaining

-----------------------------------------------------------------------------
\* The tasks of a request are its own, and what each is for.
LEMMA TaskFacts ==
    /\ \A t \in Tasks : /\ RequestOf(t) \in Requests
                        /\ \/ t = Execute[RequestOf(t)] \/ t = Verify[RequestOf(t)]
                           \/ t \in Rollbacks[RequestOf(t)]
    /\ \A r \in Requests :
        /\ Execute[r] \in Tasks /\ Verify[r] \in Tasks /\ Rollbacks[r] \subseteq Tasks
        /\ RequestOf(Execute[r]) = r /\ RequestOf(Verify[r]) = r
        /\ \A b \in Rollbacks[r] : RequestOf(b) = r /\ b # Execute[r] /\ b # Verify[r]
        /\ Execute[r] # Verify[r]
<1>1. \A t \in Tasks : RequestOf(t) \in Requests /\ t \in TasksOf(RequestOf(t))
  <2> SUFFICES ASSUME NEW t \in Tasks PROVE RequestOf(t) \in Requests /\ t \in TasksOf(RequestOf(t))
    OBVIOUS
  <2>1. \E r \in Requests : t \in TasksOf(r)
    BY RemediationAssumption
  <2> QED
    BY <2>1 DEF RequestOf
<1>2. \A r \in Requests : TasksOf(r) \subseteq Tasks
  BY RemediationAssumption
<1>3. \A r \in Requests, t \in Tasks : t \in TasksOf(r) => RequestOf(t) = r
  BY <1>1, RemediationAssumption
<1> QED
  BY <1>1, <1>2, <1>3, RemediationAssumption DEF TasksOf

\* How a job returns to executeTask: it ends its task, or waits to be called again.
LEMMA ReturnEffect ==
    ASSUME RInv, NEW w \in Workers, NEW ok \in BOOLEAN, Return(w, ok)
    PROVE  /\ UNCHANGED <<started, live, open, queue, call, due, calls, stopping, stops>>
           /\ hand[w] \in Tasks /\ outcome[hand[w]] = None
           /\ \A v \in Workers : step'[v] = IF v = w THEN None ELSE step[v]
           /\ \A v \in Workers \ {w} : place'[v] = place[v] /\ hand'[v] = hand[v]
                                       /\ child'[v] = child[v] /\ hand'[v] # hand[w]
           /\ \A t \in Tasks : t # hand[w] => outcome'[t] = outcome[t]
           /\ \/ hand'[w] = hand[w] /\ place'[w] = "backoff" /\ outcome' = outcome /\ ~ok
              \/ hand'[w] = None /\ place'[w] = "idle" /\ outcome'[hand[w]] \in {"done", "failed"}
<1> USE DEF RInv, Chaining, ChainInv, IInv
<1>1. place[w] = "job" /\ hand[w] \in Tasks /\ hand[w] # None
  BY WorkerAssumption DEF Return, JobReturns, Hands, Busy
<1>2. outcome[hand[w]] = None
  BY <1>1 DEF Known, Pending
<1>3. \A v \in Workers \ {w} : hand[v] # hand[w]
  BY <1>1 DEF Once
<1>4. /\ UNCHANGED <<started, live, open, queue, call, due, calls, stopping, stops>>
      /\ step' = [step EXCEPT ![w] = None] /\ child' = [child EXCEPT ![w] = None]
      /\ \/ /\ place' = [place EXCEPT ![w] = "idle"] /\ hand' = [hand EXCEPT ![w] = None]
            /\ \E how \in {"done", "failed"} : outcome' = [outcome EXCEPT ![hand[w]] = how]
         \/ place' = [place EXCEPT ![w] = "backoff"] /\ hand' = hand /\ outcome' = outcome /\ ~ok
  BY DEF Return, JobReturns, Finish, AttemptFails, Move, callVars, managerVars
<1>5. /\ place \in [Workers -> Busy \union {"idle", "exited"}]
      /\ hand \in [Workers -> Tasks \union {None}]
      /\ outcome \in [Tasks -> {None, "done", "failed", "cancelled", "lost"}]
      /\ DOMAIN step = Workers /\ DOMAIN child = Workers
  BY DEF TypeOK, ChildHeld
<1> QED
  BY <1>1, <1>2, <1>3, <1>4, <1>5

\* Goroutine w goes on in its job, to step s, or returns from it.
Carries(w, s) ==
    /\ place[w] = "job"
    /\ UNCHANGED <<open, call, due, calls, stopping, stops, target, dispatch, expired>>
    /\ \A v \in Workers : step'[v] = IF v = w THEN s ELSE step[v]
    /\ \A v \in Workers \ {w} : place'[v] = place[v] /\ hand'[v] = hand[v] /\ child'[v] = child[v]
    /\ \A t \in Tasks : t # hand[w] => outcome'[t] = outcome[t]
    /\ \/ /\ hand'[w] = hand[w] /\ outcome'[hand[w]] = outcome[hand[w]]
          /\ place'[w] = IF s = None THEN "backoff" ELSE "job"
       \/ s = None /\ hand'[w] = None /\ place'[w] = "idle" /\ outcome'[hand[w]] \in {"done", "failed"}

\* What w holds in its job is a task of its own.
LEMMA JobFacts ==
    ASSUME RInv, NEW w \in Workers, place[w] = "job"
    PROVE  /\ hand[w] \in Tasks /\ hand[w] # None
           /\ call[hand[w]] = "accepted" /\ outcome[hand[w]] = None
           /\ calls[hand[w]] > 0 /\ step[w] # None
           /\ \A v \in Workers \ {w} : hand[v] # hand[w]
<1> USE DEF RInv, Chaining, ChainInv, IInv
<1>1. hand[w] \in Tasks /\ hand[w] # None
  BY WorkerAssumption DEF Hands, Busy
<1>2. \A v \in Workers \ {w} : hand[v] # hand[w]
  BY <1>1 DEF Once
<1>3. call[hand[w]] = "accepted" /\ outcome[hand[w]] = None
  BY <1>1 DEF Known, Pending
<1> QED
  BY <1>1, <1>2, <1>3 DEF JobSteps

\* A job that goes on, or returns, under the conditions that its steps below meet.
LEMMA CarryKeeps ==
    ASSUME RInv, NEW w \in Workers,
           NEW s \in {None, "run", "done", "broke", "verify", "rollback"}, Carries(w, s),
           s \in {"done", "broke", "verify"} => IsExecute(hand[w]),
           s = "rollback" => IsExecute(hand[w]) \/ IsVerify(hand[w]),
           s \in Scripting => step[w] \in Scripting,
           s # None => step[w] \notin {"offer", "back"},
           step[w] \in {"offer", "back"} /\ IsVerify(hand[w]) => hand'[w] = None,
           \A t \in Tasks : t # hand[w] /\ Recorded(t) => Recorded(t)',
           \A t \in Tasks : t = hand[w] /\ s # "run" => Recorded(t)',
           \A n \in Nodes : lease'[n] = lease[n] \/ lease'[n] = None,
           unreleased \subseteq unreleased',
           \A r \in Requests : Execute[r] = hand[w] /\ s \notin Scripting => LeaseOver(r)'
    PROVE  JobSteps' /\ Dispatched' /\ Records' /\ Leases' /\ OneRollback'
           /\ \A r \in Requests : (Unreturned(r)' => Unreturned(r)) /\ (Late(r) => Late(r)')
<1> USE DEF RInv, Chaining
<1>1. /\ hand[w] \in Tasks /\ hand[w] # None
      /\ call[hand[w]] = "accepted" /\ outcome[hand[w]] = None
      /\ calls[hand[w]] > 0 /\ step[w] # None
      /\ \A v \in Workers \ {w} : hand[v] # hand[w]
  BY JobFacts DEF Carries
<1>2. JobSteps'
  BY <1>1 DEF Carries, JobSteps, IsExecute, IsVerify, None
<1>a. None \notin Requests
  BY RemediationAssumption
<1>b. \A v \in Workers : hand[v] \in Tasks \union {None}
  BY DEF ChainInv, IInv, TypeOK
<1>3. Dispatched'
  BY <1>a DEF Carries, Dispatched
<1>4. Records'
  <2>1. \A t \in Tasks : outcome'[t] \in Ended => Recorded(t)' \/ calls'[t] = 0
    BY <1>1 DEF Carries, Records, Ended, None
  <2>2. \A t \in Tasks : \A v \in Workers : hand'[v] = t /\ t # None /\ step'[v] \notin {"start", "run"}
            => Recorded(t)' \/ calls'[t] = 0
    BY <1>1 DEF Carries, Records
  <2> QED
    BY <1>1, <1>b, <2>1, <2>2 DEF Carries, Records, Recorded
<1>5. \A r \in Requests : LeaseOver(r) => LeaseOver(r)'
  BY <1>a DEF LeaseOver
<1>6. Leases'
  <2>1. \A n \in Nodes : lease'[n] # None => target'[lease'[n]] = n
    BY DEF Carries, Leases
  <2>2. \A r \in Requests : Execute[r] \in Tasks
    BY TaskFacts
  <2>3. \A r \in Requests : dispatch'[r] = "over" /\ call'[Execute[r]] # "accepted" => LeaseOver(r)' \/ stops' > 0
    BY <1>5 DEF Carries, Leases
  <2>4. \A r \in Requests : outcome'[Execute[r]] \in Ended =>
            LeaseOver(r)' \/ (Execute[r] \in Delayed /\ calls'[Execute[r]] = 0)
    BY <1>1, <1>5, <2>2 DEF Carries, Leases, Ended, Scripting, None
  <2>5. \A r \in Requests : \A v \in Workers : hand'[v] = Execute[r] /\ step'[v] \notin Scripting =>
            LeaseOver(r)' \/ calls'[Execute[r]] = 0
    BY <1>1, <1>5, <2>2, WorkerAssumption DEF Carries, Leases
  <2> QED
    BY <2>1, <2>3, <2>4, <2>5 DEF Leases
<1>7. \A r \in Requests : (Before(r)' => Before(r)) /\ (Verifying(r)' => Verifying(r))
  <2> SUFFICES ASSUME NEW r \in Requests PROVE (Before(r)' => Before(r)) /\ (Verifying(r)' => Verifying(r))
    OBVIOUS
  <2>1. Before(r)' => Before(r)
    BY <1>1 DEF Before, Carries
  <2>2. Verify[r] \in Tasks /\ (hand[w] = Verify[r] => IsVerify(hand[w]))
    BY TaskFacts DEF IsVerify
  <2>3. Verifying(r)' => Verifying(r)
    BY <1>1, <2>2 DEF Verifying, Carries, Pending, None
  <2> QED
    BY <2>1, <2>3
<1>8. OneRollback'
  BY <1>7 DEF OneRollback, Carries
<1>9. \A r \in Requests : Unreturned(r)' => Unreturned(r)
  <2> SUFFICES ASSUME NEW r \in Requests, Unreturned(r)' PROVE Unreturned(r)
    OBVIOUS
  <2>1. Execute[r] \in Tasks
    BY TaskFacts
  <2> QED
    BY <1>1, <2>1 DEF Unreturned, Carries, Pending, None
<1>10. \A r \in Requests : Late(r) => Late(r)'
  BY DEF Late, Carries
<1> QED
  BY <1>2, <1>3, <1>4, <1>6, <1>8, <1>9, <1>10

\* A lease that stays where it is leaves no request robbed that was not.
LEMMA RobbedKeeps ==
    ASSUME Robbed, UNCHANGED <<lease, target>>, expired \subseteq expired',
           \A r \in Requests : (Unreturned(r)' => Unreturned(r)) /\ (Late(r) => Late(r)')
    PROVE  Robbed'
BY DEF Robbed

\* A request that releases the lease of its node robs another only if one is late.
LEMMA ReleaseRobs ==
    ASSUME RInv, NEW p \in Requests, lease' = [lease EXCEPT ![target[p]] = None],
           UNCHANGED target, expired \subseteq expired', Unreturned(p) \/ Late(p), ~Unreturned(p)',
           \A r \in Requests : (Unreturned(r)' => Unreturned(r)) /\ (Late(r) => Late(r)')
    PROVE  Robbed'
<1> USE DEF RInv, Chaining
<1>1. target[p] \in Nodes /\ DOMAIN lease = Nodes
  BY DEF RemediationTypeOK
<1>2. \A r \in Requests \ {p} : target[r] \in Nodes
  BY DEF RemediationTypeOK
<1> SUFFICES ASSUME NEW r \in Requests, Unreturned(r)'
             PROVE  \/ lease'[target[r]] = r
                    \/ r \in expired'
                    \/ \E q \in Requests : target[q] = target[r] /\ Late(q)' /\ lease'[target[r]] # q
  BY DEF Robbed
<1>3. CASE target[r] # target[p]
  <2>1. lease'[target[r]] = lease[target[r]]
    BY <1>1, <1>2, <1>3
  <2> QED
    BY <2>1 DEF Robbed
<1>4. CASE target[r] = target[p]
  <2>1. \A q \in Requests : lease'[target[r]] # q
    BY <1>1, <1>4, RemediationAssumption
  <2>2. r # p
    OBVIOUS
  <2>3. r \in expired \/ \E q \in Requests : target[q] = target[r] /\ Late(q)
    BY <1>4, <2>2 DEF Robbed, Late
  <2> QED
    BY <2>1, <2>3
<1> QED
  BY <1>3, <1>4

LEMMA StepCarries ==
    ASSUME RInv, NEW w \in Workers, place[w] = "job", UNCHANGED <<target, dispatch, expired>>,
           NEW s \in {"run", "done", "broke", "verify", "rollback"}, Step(w, s)
    PROVE  Carries(w, s)
<1>1. DOMAIN step = Workers
  BY DEF RInv, ChainInv, ChildHeld
<1> QED
  BY <1>1 DEF Step, workVars, Carries, None

LEMMA ReturnCarries ==
    ASSUME RInv, NEW w \in Workers, UNCHANGED <<target, dispatch, expired>>,
           NEW ok \in BOOLEAN, Return(w, ok)
    PROVE  place[w] = "job" /\ Carries(w, None) /\ (ok => hand'[w] = None)
<1>1. place[w] = "job"
  BY DEF Return, JobReturns
<1> QED
  BY <1>1, ReturnEffect DEF Carries

\* The inner job of a script returns to its chain, that of a rollback to executeTask.
LEMMA InnerCarries ==
    ASSUME RInv, NEW w \in Workers, place[w] = "job", UNCHANGED <<target, dispatch, expired>>,
           NEW ok \in BOOLEAN, InnerReturns(w, ok)
    PROVE  \E s \in {None, "done", "broke"} :
              /\ Carries(w, s) /\ (s # None => IsExecute(hand[w]))
              /\ (s = None => ~IsExecute(hand[w]))
BY StepCarries, ReturnCarries DEF InnerReturns, None

\* A last status is written, or known not to be.
LEMMA WriteRecords ==
    ASSUME RInv, NEW t \in Tasks, Write(t, "ended") \/ Unwritten(t)
    PROVE  \A u \in Tasks : u = t \/ Recorded(u) => Recorded(u)'
<1>1. row \in [Tasks -> {None, "queued", "running", "ended"}]
  BY DEF RInv, RemediationTypeOK
<1> QED
  BY <1>1 DEF Write, Unwritten, Recorded

\* A step of a job that leaves the leases alone.
LEMMA LeasesAside ==
    ASSUME RInv, NEW w \in Workers, UNCHANGED leaseVars,
           NEW s \in {None, "run", "done", "broke", "verify", "rollback"}, Carries(w, s),
           s \in {"done", "broke", "verify"} => IsExecute(hand[w]),
           s = "rollback" => IsExecute(hand[w]) \/ IsVerify(hand[w]),
           s \in Scripting => step[w] \in Scripting,
           s # None => step[w] \notin {"offer", "back"},
           step[w] \in {"offer", "back"} /\ IsVerify(hand[w]) => hand'[w] = None,
           \A t \in Tasks : t # hand[w] /\ Recorded(t) => Recorded(t)',
           \A t \in Tasks : t = hand[w] /\ s # "run" => Recorded(t)',
           IsExecute(hand[w]) => s \in Scripting \/ step[w] \notin Scripting
    PROVE  Chaining'
<1> USE DEF RInv, Chaining, leaseVars
<1>1. hand[w] \in Tasks /\ calls[hand[w]] > 0
  BY JobFacts DEF Carries
<1>2. calls[hand[w]] # 0
  <2>1. calls[hand[w]] \in Nat
    BY <1>1, WorkerAssumption DEF RemediationTypeOK, TypeOK
  <2> QED
    BY <1>1, <2>1
<1>3. \A r \in Requests : Execute[r] = hand[w] /\ s \notin Scripting => LeaseOver(r)
  BY <1>2, TaskFacts DEF Leases, IsExecute
<1>4. \A r \in Requests : LeaseOver(r) <=> LeaseOver(r)'
  BY DEF LeaseOver
<1>5. \A n \in Nodes : lease'[n] = lease[n] \/ lease'[n] = None
  OBVIOUS
<1>6. JobSteps' /\ Dispatched' /\ Records' /\ Leases' /\ OneRollback'
      /\ \A r \in Requests : (Unreturned(r)' => Unreturned(r)) /\ (Late(r) => Late(r)')
  BY <1>3, <1>4, <1>5, CarryKeeps
<1>7. UNCHANGED <<lease, target>> /\ expired \subseteq expired'
  BY DEF Carries
<1>8. Robbed'
  BY <1>6, <1>7, RobbedKeeps
<1> QED
  BY <1>6, <1>8

LEMMA StartKeeps ==
    ASSUME RInv, NEW w \in Workers, Start(w)
    PROVE  Chaining'
<1>1. place[w] = "job" /\ step[w] = "start" /\ UNCHANGED <<target, dispatch, expired, leaseVars>>
  BY DEF Start, At, leaseVars
<1>2. hand[w] \in Tasks
  BY <1>1, JobFacts
<1>3. CASE JobWorks /\ Write(hand[w], "running") /\ Step(w, "run")
  <2>1. Carries(w, "run")
    BY <1>1, <1>3, StepCarries
  <2>2. \A t \in Tasks : t # hand[w] /\ Recorded(t) => Recorded(t)'
    BY <1>3 DEF Write, Recorded, RInv, RemediationTypeOK
  <2> QED
    BY <1>1, <2>1, <2>2, LeasesAside DEF Scripting, None
<1>4. CASE JobFault /\ Unwritten(hand[w]) /\ InnerReturns(w, FALSE)
  <2>1. \A t \in Tasks : t = hand[w] \/ Recorded(t) => Recorded(t)'
    BY <1>2, <1>4, WriteRecords
  <2>2. PICK s \in {None, "done", "broke"} : Carries(w, s) /\ (s # None <=> IsExecute(hand[w]))
    BY <1>1, <1>4, InnerCarries
  <2> QED
    BY <1>1, <2>1, <2>2, LeasesAside DEF Scripting, None
<1> QED
  BY <1>3, <1>4 DEF Start

LEMMA ScriptKeeps ==
    ASSUME RInv, NEW w \in Workers, ScriptEnds(w)
    PROVE  Chaining'
<1>1. place[w] = "job" /\ step[w] = "run" /\ UNCHANGED <<target, dispatch, expired, leaseVars>>
  BY DEF ScriptEnds, At, leaseVars
<1>2. hand[w] \in Tasks
  BY <1>1, JobFacts
<1>3. \A t \in Tasks : t = hand[w] \/ Recorded(t) => Recorded(t)'
  BY <1>2, WriteRecords DEF ScriptEnds
<1>4. PICK ok \in BOOLEAN : InnerReturns(w, ok)
  BY DEF ScriptEnds
<1>5. PICK s \in {None, "done", "broke"} : Carries(w, s) /\ (s # None <=> IsExecute(hand[w]))
  BY <1>1, <1>4, InnerCarries
<1> QED
  BY <1>1, <1>3, <1>5, LeasesAside DEF Scripting, None

LEMMA VerifyKeeps ==
    ASSUME RInv, NEW w \in Workers, VerifyEnds(w)
    PROVE  Chaining'
<1>1. /\ place[w] = "job" /\ step[w] = "run" /\ IsVerify(hand[w])
      /\ UNCHANGED <<target, dispatch, expired, leaseVars>>
  BY DEF VerifyEnds, At, leaseVars
<1>2. hand[w] \in Tasks
  BY <1>1, JobFacts
<1>3. ~IsExecute(hand[w])
  BY <1>1, <1>2, TaskFacts DEF IsExecute, IsVerify
<1>4. \A t \in Tasks : t = hand[w] \/ Recorded(t) => Recorded(t)'
  BY <1>2, WriteRecords DEF VerifyEnds
<1>5. CASE \E ok \in BOOLEAN : Return(w, ok)
  <2>1. Carries(w, None)
    BY <1>1, <1>5, ReturnCarries
  <2> QED
    BY <1>1, <1>3, <1>4, <2>1, LeasesAside DEF Scripting, None
<1>6. CASE Step(w, "rollback")
  <2>1. Carries(w, "rollback")
    BY <1>1, <1>6, StepCarries
  <2> QED
    BY <1>1, <1>3, <1>4, <2>1, LeasesAside DEF Scripting, None
<1> QED
  BY <1>5, <1>6 DEF VerifyEnds

\* The release: whoever holds the lease of the node, loses it.
LEMMA ReleaseKeeps ==
    ASSUME RInv, NEW w \in Workers, ReleaseLease(w)
    PROVE  Chaining'
<1> USE DEF RInv, Chaining
<1>1. /\ place[w] = "job" /\ step[w] \in {"done", "broke"}
      /\ UNCHANGED <<target, dispatch, expired, rowVars>>
  BY DEF ReleaseLease, At, Release, Unreleased
<1>2. /\ hand[w] \in Tasks /\ calls[hand[w]] > 0 /\ call[hand[w]] = "accepted"
      /\ outcome[hand[w]] = None /\ \A v \in Workers \ {w} : hand[v] # hand[w]
  BY <1>1, JobFacts
<1>3. PICK p \in Requests : p = RequestOf(hand[w]) /\ IsExecute(hand[w]) /\ hand[w] = Execute[p]
  BY <1>1, <1>2, TaskFacts DEF JobSteps, IsExecute
<1>4. calls[hand[w]] \in Nat \ {0}
  BY <1>2, WorkerAssumption DEF RemediationTypeOK, TypeOK
<1>5. PICK s \in {None, "verify", "rollback"} : Carries(w, s)
  BY <1>1, StepCarries, ReturnCarries DEF ReleaseLease, Chained, At
<1>6. /\ \A t \in Tasks : Recorded(t) => Recorded(t)'
      /\ \A t \in Tasks : t = hand[w] => Recorded(t)
  BY <1>1, <1>2, <1>4, WorkerAssumption DEF Recorded, rowVars, Records
<1>7. \/ lease' = [lease EXCEPT ![target[p]] = None] /\ unreleased' = unreleased
      \/ lease' = lease /\ unreleased' = unreleased \union {p}
  BY <1>3 DEF ReleaseLease, Release, Unreleased, NodeOf
<1>8. LeaseOver(p)'
  <2>1. \A n \in Nodes : lease[n] = p => n = target[p]
    BY <1>3, RemediationAssumption DEF Leases
  <2>2. DOMAIN lease = Nodes /\ None # p
    BY <1>3, RemediationAssumption DEF RemediationTypeOK
  <2> QED
    BY <1>7, <2>1, <2>2 DEF LeaseOver
<1>9. \A r \in Requests : Execute[r] = hand[w] => r = p
  BY <1>3, TaskFacts
<1>10. (\A n \in Nodes : lease'[n] = lease[n] \/ lease'[n] = None) /\ unreleased \subseteq unreleased'
  BY <1>7 DEF RemediationTypeOK
<1>11. JobSteps' /\ Dispatched' /\ Records' /\ Leases' /\ OneRollback'
       /\ \A r \in Requests : (Unreturned(r)' => Unreturned(r)) /\ (Late(r) => Late(r)')
  <2>1. /\ s \notin {"done", "broke"} /\ s \notin Scripting /\ s # "run"
        /\ step[w] \notin {"offer", "back"}
    BY <1>1 DEF Scripting, None
  <2>2. \A r \in Requests : Execute[r] = hand[w] => LeaseOver(r)'
    BY <1>8, <1>9
  <2> QED
    BY <1>3, <1>5, <1>6, <1>10, <2>1, <2>2, CarryKeeps
<1>12. Robbed'
  <2>1. CASE lease' = lease
    BY <1>1, <1>11, <2>1, RobbedKeeps
  <2>2. CASE lease' = [lease EXCEPT ![target[p]] = None]
    <3>1. Unreturned(p) \/ Late(p)
      BY <1>1, <1>2, <1>3, <1>4 DEF Unreturned, Late, Pending, Scripting
    <3>2. dispatch'[p] \notin {"leased", "offering", "refused"}
      BY <1>1, <1>2, <1>3 DEF Dispatched, None
    <3>3. ~Pending(Execute[p])' \/ hand'[w] = Execute[p]
      BY <1>3, <1>5 DEF Carries, Pending, None
    <3>4. step'[w] \notin Scripting /\ calls'[Execute[p]] # 0
      BY <1>3, <1>4, <1>5 DEF Carries, Scripting, None
    <3>5. ~Unreturned(p)'
      BY <3>2, <3>3, <3>4 DEF Unreturned
    <3> QED
      BY <1>1, <1>3, <1>11, <2>2, <3>1, <3>5, ReleaseRobs
  <2> QED
    BY <1>7, <2>1, <2>2
<1> QED
  BY <1>11, <1>12

LEMMA FinishedKeeps ==
    ASSUME RInv, NEW w \in Workers, Finished(w)
    PROVE  Chaining'
<1> USE DEF RInv, Chaining
<1>1. /\ place[w] = "job" /\ step[w] = "back" /\ UNCHANGED <<target, dispatch, expired, leaseVars>>
  BY DEF Finished, At, leaseVars
<1>2. hand[w] \in Tasks /\ calls[hand[w]] \in Nat \ {0}
  BY <1>1, JobFacts, WorkerAssumption DEF RemediationTypeOK, TypeOK
<1>3. child[w] \in Tasks
  BY <1>1, <1>2, TaskFacts DEF JobSteps
<1>4. \A t \in Tasks : Recorded(t) => Recorded(t)'
  <2>1. CASE UNCHANGED rowVars
    BY <2>1 DEF rowVars, Recorded
  <2>2. CASE Write(child[w], "ended") \/ Unwritten(child[w])
    BY <1>3, <2>2, WriteRecords
  <2> QED
    BY <2>1, <2>2 DEF Finished
<1>5. \A t \in Tasks : t = hand[w] => Recorded(t)'
  BY <1>1, <1>2, <1>4, WorkerAssumption DEF Records
<1>6. ChainResult(w) \in BOOLEAN /\ Return(w, ChainResult(w))
  BY DEF ChainResult, Finished
<1>7. IsVerify(hand[w]) => ChainResult(w)
  BY <1>2, TaskFacts DEF ChainResult, IsVerify, IsExecute
<1>8. Carries(w, None) /\ (IsVerify(hand[w]) => hand'[w] = None)
  BY <1>1, <1>6, <1>7, ReturnCarries
<1> QED
  BY <1>1, <1>4, <1>5, <1>8, LeasesAside DEF Scripting, None

\* A script that is followed by nothing, because its next task could not be made.
LEMMA FollowFails ==
    ASSUME RInv, NEW w \in Workers, Follow(w), Return(w, ChainResult(w)) /\ UNCHANGED row
    PROVE  Chaining'
<1> USE DEF RInv, Chaining
<1>1. /\ place[w] = "job" /\ step[w] \in {"verify", "rollback"}
      /\ UNCHANGED <<target, dispatch, expired, leaseVars, row, unrecorded>>
  BY DEF Follow, leaseVars
<1>2. hand[w] \in Tasks /\ calls[hand[w]] \in Nat \ {0}
  BY <1>1, JobFacts, WorkerAssumption DEF RemediationTypeOK, TypeOK
<1>3. \A t \in Tasks : Recorded(t) => Recorded(t)'
  BY <1>1 DEF Recorded
<1>4. \A t \in Tasks : t = hand[w] => Recorded(t)'
  BY <1>1, <1>2, <1>3, WorkerAssumption DEF Records
<1>5. ChainResult(w) \in BOOLEAN
  BY DEF ChainResult
<1>6. Carries(w, None)
  BY <1>1, <1>5, ReturnCarries
<1> QED
  BY <1>1, <1>3, <1>4, <1>6, LeasesAside DEF Scripting, None

\* A verification or a rollback is offered for the first time.
LEMMA FollowKeeps ==
    ASSUME RInv, NEW w \in Workers, NEW t \in Children(w), Check(t), place[w] = "job",
           step[w] \in {"verify", "rollback"}, row' = [row EXCEPT ![t] = "queued"],
           child' = [child EXCEPT ![w] = t],
           step' = [step EXCEPT ![w] = IF started THEN "offer" ELSE "back"],
           UNCHANGED <<target, dispatch, leaseVars, unrecorded>>
    PROVE  Chaining'
<1> USE DEF RInv, Chaining
<1>1. /\ hand[w] \in Tasks /\ hand[w] # None
      /\ call[hand[w]] = "accepted" /\ outcome[hand[w]] = None
      /\ calls[hand[w]] > 0 /\ \A v \in Workers \ {w} : hand[v] # hand[w]
  BY JobFacts
<1>2. PICK p \in Requests : p = RequestOf(hand[w])
  BY <1>1, TaskFacts
<1>3. /\ t \in {Verify[p]} \union Rollbacks[p] /\ t \in Tasks /\ RequestOf(t) = p
      /\ \A r \in Requests : t # Execute[r]
      /\ \A r \in Requests : t = Verify[r] \/ t \in Rollbacks[r] => r = p
      /\ step[w] = "verify" => t = Verify[p]
      /\ step[w] = "rollback" => t \in Rollbacks[p]
  BY <1>2, TaskFacts DEF Children
<1>4. /\ UNCHANGED <<started, live, open, queue, due, place, hand, attempt, calls, outcome,
                     stopping, stops, target, dispatch, lease, expired, unreleased, unrecorded>>
      /\ call[t] = None
      /\ call'[t] \in {"checked", "refused"} /\ \A u \in Tasks : u # t => call'[u] = call[u]
  BY <1>3 DEF Check, workerVars, managerVars, leaseVars, ChainInv, IInv, TypeOK
<1>5. /\ step'[w] \in {"offer", "back"} /\ child'[w] = t
      /\ \A v \in Workers \ {w} : step'[v] = step[v] /\ child'[v] = child[v]
  BY DEF ChainInv, ChildHeld
<1>6. calls[hand[w]] \in Nat \ {0}
  BY <1>1, WorkerAssumption DEF RemediationTypeOK, TypeOK
<1>7. JobSteps'
  BY <1>1, <1>2, <1>3, <1>4, <1>5 DEF JobSteps, IsExecute, IsVerify, None
<1>8. Dispatched'
  BY <1>3, <1>4, TaskFacts DEF Dispatched
<1>9. outcome[t] = None /\ calls[t] = 0 /\ \A v \in Workers : hand[v] # t
  <2>1. call[t] # "accepted" /\ t # None
    BY <1>3, <1>4, WorkerAssumption DEF None
  <2> QED
    BY <1>3, <2>1 DEF ChainInv, IInv, Known, Pending
<1>10. Records'
  <2>1. \A u \in Tasks : u # t /\ Recorded(u) => Recorded(u)'
    BY <1>3, <1>4 DEF Recorded, RemediationTypeOK
  <2>2. \A u \in Tasks : outcome'[u] \in Ended => Recorded(u)' \/ calls'[u] = 0
    BY <1>4, <1>9, <2>1 DEF Records
  <2>3. \A u \in Tasks : \A v \in Workers : hand'[v] = u /\ u # None /\ step'[v] \notin {"start", "run"}
            => Recorded(u)' \/ calls'[u] = 0
    BY <1>4, <1>5, <1>9, <2>1 DEF Records
  <2>4. \A v \in Workers : hand[v] \in Tasks \union {None}
    BY DEF ChainInv, IInv, TypeOK
  <2> QED
    BY <1>4, <2>2, <2>3, <2>4 DEF Records, Recorded
<1>11. Leases'
  <2>1. \A r \in Requests : (LeaseOver(r) => LeaseOver(r)') /\ call'[Execute[r]] = call[Execute[r]]
    BY <1>3, <1>4, TaskFacts DEF LeaseOver
  <2> QED
    BY <1>4, <1>5, <2>1 DEF Leases, Scripting
<1>12. \A u \in Tasks : Pending(u)' <=> Pending(u)
  BY <1>4 DEF Pending, None
<1>13. Robbed'
  <2>1. \A r \in Requests : (Unreturned(r)' => Unreturned(r)) /\ (Late(r) => Late(r)')
    BY <1>4, <1>5, <1>12, TaskFacts DEF Unreturned, Late, Scripting
  <2>2. expired \subseteq expired'
    BY <1>4
  <2> QED
    BY <1>4, <2>1, <2>2, RobbedKeeps
<1>14. OneRollback'
  <2> SUFFICES ASSUME NEW r \in Requests, calls[Execute[r]] =< 1
               PROVE  /\ \A a, b \in Rollbacks[r] : call'[a] # None /\ call'[b] # None => a = b
                      /\ Before(r)' \/ Verifying(r)' => \A b \in Rollbacks[r] : call'[b] = None
                      /\ Before(r)' => call'[Verify[r]] = None
    BY <1>4 DEF OneRollback
  <2>0. /\ Verify[r] \in Tasks /\ Execute[r] \in Tasks /\ Rollbacks[r] \subseteq Tasks
        /\ Verify[r] \notin Rollbacks[r]
    BY TaskFacts
  <2>1. Before(r)' => Before(r)
    BY <1>4, <1>5 DEF Before
  <2>2. CASE r # p
    <3>1. \A u \in {Verify[r]} \union Rollbacks[r] : call'[u] = call[u]
      BY <1>3, <1>4, <2>0, <2>2
    <3>2. Verifying(r)' => Verifying(r)
      <4>1. Verify[r] # hand[w]
        BY <1>2, <2>2, TaskFacts
      <4> QED
        BY <1>4, <1>5, <1>12, <2>0, <3>1, <4>1 DEF Verifying
    <3> QED
      BY <2>1, <3>1, <3>2 DEF OneRollback
  <2>3. CASE r = p /\ step[w] = "verify"
    <3>1. hand[w] = Execute[p] /\ t = Verify[p]
      BY <1>2, <1>3, <2>3 DEF JobSteps, IsExecute
    <3>2. Before(r)
      BY <2>3, <3>1 DEF Before, None
    <3>3. \A b \in Rollbacks[r] : call'[b] = None
      BY <1>4, <2>0, <2>3, <3>1, <3>2 DEF OneRollback
    <3>4. ~Before(r)'
      BY <1>1, <1>4, <1>5, <1>6, <2>3, <3>1 DEF Before
    <3> QED
      BY <3>3, <3>4
  <2>4. CASE r = p /\ step[w] = "rollback"
    <3>1. t \in Rollbacks[r] /\ (hand[w] = Execute[r] \/ hand[w] = Verify[r])
      BY <1>2, <1>3, <2>4 DEF JobSteps, IsExecute, IsVerify
    <3>2. Before(r) \/ Verifying(r)
      BY <1>1, <2>4, <3>1 DEF Before, Verifying, Pending, None
    <3>3. \A b \in Rollbacks[r] : b # t => call'[b] = None
      BY <1>4, <2>0, <3>2 DEF OneRollback
    <3>4. call'[Verify[r]] = call[Verify[r]]
      BY <1>4, <2>0, <3>1
    <3>5. ~Before(r)'
      <4>1. CASE hand[w] = Execute[r]
        BY <1>1, <1>4, <1>5, <1>6, <4>1 DEF Before
      <4>2. CASE hand[w] = Verify[r]
        BY <1>1, <2>1, <4>2 DEF OneRollback, None
      <4> QED
        BY <3>1, <4>1, <4>2
    <3>6. ~Verifying(r)'
      <4>1. CASE hand[w] = Execute[r]
        <5>1. call[Verify[r]] = None
          BY <2>4, <4>1 DEF Before, OneRollback, None
        <5> QED
          BY <3>4, <5>1 DEF Verifying, Pending, None
      <4>2. CASE hand[w] = Verify[r]
        BY <1>1, <1>4, <1>5, <3>4, <4>2 DEF Verifying, Pending, None
      <4> QED
        BY <3>1, <4>1, <4>2
    <3> QED
      BY <3>3, <3>5, <3>6
  <2> QED
    BY <2>2, <2>3, <2>4
<1> QED
  BY <1>7, <1>8, <1>10, <1>11, <1>13, <1>14

LEMMA OfferChildKeeps ==
    ASSUME RInv, NEW w \in Workers, OfferChild(w)
    PROVE  Chaining'
<1> USE DEF RInv, Chaining
<1>1. place[w] = "job" /\ step[w] = "offer" /\ step' = [step EXCEPT ![w] = "back"]
  BY DEF OfferChild, At
<1>2. /\ hand[w] \in Tasks /\ hand[w] # None
      /\ call[hand[w]] = "accepted" /\ \A v \in Workers \ {w} : hand[v] # hand[w]
  BY <1>1, JobFacts
<1>3. PICK p \in Requests : p = RequestOf(hand[w])
  BY <1>2, TaskFacts
<1>4. PICK t \in Tasks : /\ t = child[w] /\ t \in {Verify[p]} \union Rollbacks[p]
                         /\ \A r \in Requests : t # Execute[r] /\ (t = Verify[r] => r = p)
  BY <1>1, <1>2, <1>3, TaskFacts DEF JobSteps
<1>5. /\ UNCHANGED <<open, due, place, hand, calls, outcome, stopping, stops, target, dispatch,
                     lease, expired, unreleased, row, unrecorded, child>>
      /\ call[t] = "checked" /\ call'[t] \in {"accepted", "refused"}
      /\ \A u \in Tasks : u # t => call'[u] = call[u]
  BY <1>4 DEF OfferChild, Offer, workerVars, managerVars, leaseVars, rowVars, ChainInv, IInv,
              TypeOK
<1>6. /\ step'[w] = "back" /\ \A v \in Workers \ {w} : step'[v] = step[v]
  BY <1>1 DEF ChainInv, ChildHeld
<1>7. JobSteps'
  BY <1>1, <1>5, <1>6 DEF JobSteps, IsExecute, IsVerify, None
<1>8. Dispatched'
  BY <1>4, <1>5, TaskFacts DEF Dispatched
<1>9. Records'
  BY <1>1, <1>5, <1>6 DEF Records, Recorded
<1>10. \A r \in Requests : (LeaseOver(r) => LeaseOver(r)') /\ call'[Execute[r]] = call[Execute[r]]
  BY <1>4, <1>5, TaskFacts DEF LeaseOver
<1>11. Leases'
  BY <1>1, <1>5, <1>6, <1>10 DEF Leases, Scripting
<1>12. \A r \in Requests : (Unreturned(r)' => Unreturned(r)) /\ (Late(r) => Late(r)')
  BY <1>1, <1>5, <1>6, <1>10 DEF Unreturned, Late, Pending, Scripting
<1>13. expired \subseteq expired'
  BY <1>5
<1>14. Robbed'
  BY <1>5, <1>12, <1>13, RobbedKeeps
<1>15. \A r \in Requests : (Before(r)' => Before(r)) /\ (Verifying(r)' => Verifying(r))
  <2> SUFFICES ASSUME NEW r \in Requests
               PROVE  (Before(r)' => Before(r)) /\ (Verifying(r)' => Verifying(r))
    OBVIOUS
  <2>1. Before(r)' => Before(r)
    BY <1>5, <1>6 DEF Before
  <2>2. Verifying(r)' => Verifying(r)
    BY <1>1, <1>4, <1>5, <1>6, TaskFacts DEF Verifying, Pending
  <2> QED
    BY <2>1, <2>2
<1>16. \A u \in Tasks : call'[u] = None <=> call[u] = None
  BY <1>5 DEF None
<1>17. OneRollback'
  BY <1>5, <1>15, <1>16, TaskFacts DEF OneRollback
<1> QED
  BY <1>7, <1>8, <1>9, <1>11, <1>14, <1>17

LEMMA BeginKeeps ==
    ASSUME RInv, NEW w \in Workers, Begin(w)
    PROVE  Chaining'
<1> USE DEF RInv, Chaining
<1>1. /\ place[w] \in {"begin", "sleep"}
      /\ UNCHANGED <<open, call, due, hand, outcome, stopping, stops, target, dispatch,
                     lease, expired, unreleased, row, unrecorded, child>>
  BY DEF Begin, CallJob, callVars, managerVars, leaseVars, rowVars
<1>2. hand[w] \in Tasks /\ hand[w] # None
  BY <1>1, WorkerAssumption DEF ChainInv, IInv, Hands, Busy
<1>3. call[hand[w]] = "accepted" /\ outcome[hand[w]] = None
      /\ \A v \in Workers \ {w} : hand[v] # hand[w]
  BY <1>2 DEF ChainInv, IInv, Known, Pending, Once
<1>4. /\ place'[w] = "job" /\ step'[w] = "start"
      /\ \A v \in Workers \ {w} : place'[v] = place[v] /\ step'[v] = step[v]
      /\ calls'[hand[w]] = calls[hand[w]] + 1
      /\ \A u \in Tasks : u # hand[w] => calls'[u] = calls[u]
  BY <1>2 DEF Begin, CallJob, Move, ChainInv, IInv, TypeOK, ChildHeld
<1>5. \A u \in Tasks : calls[u] \in Nat
  BY WorkerAssumption DEF RemediationTypeOK, TypeOK
<1>6. step[w] = None
  BY <1>1 DEF JobSteps
<1>7. \A v \in Workers : hand[v] \in Tasks \union {None}
  BY DEF RemediationTypeOK, TypeOK
<1>8. \A v \in Workers : step[v] # None => place[v] = "job" /\ hand[v] \in Tasks
  BY DEF JobSteps, ChainInv, IInv, Hands, Busy
<1>9. JobSteps'
  <2> SUFFICES ASSUME NEW v \in Workers, v # w
               PROVE  /\ place'[v] = "job" <=> step'[v] # None
                      /\ place'[v] = "job" => calls'[hand'[v]] > 0
                      /\ step'[v] \in {"done", "broke", "verify"} => IsExecute(hand[v])
                      /\ step'[v] \in {"rollback", "offer", "back"} => IsExecute(hand[v]) \/ IsVerify(hand[v])
                      /\ step'[v] \in {"offer", "back"} => child'[v] \in
                             {Verify[RequestOf(hand[v])]} \union Rollbacks[RequestOf(hand[v])]
                      /\ place'[v] = "sleep" => hand'[v] \in Delayed
                      /\ place'[v] = "backoff" => hand'[v] \in Delayed \/ calls'[hand'[v]] > 0
    BY <1>1, <1>2, <1>4, <1>5 DEF JobSteps, IsExecute, IsVerify, None
  <2>1. place[v] \in {"job", "backoff"} => hand[v] \in Tasks
    BY DEF ChainInv, IInv, Hands, Busy
  <2> QED
    BY <1>1, <1>3, <1>4, <2>1 DEF JobSteps
<1>10. Dispatched'
  BY <1>1 DEF Dispatched
<1>11. Records'
  <2>1. \A u \in Tasks : Recorded(u) <=> Recorded(u)'
    BY <1>1 DEF Recorded
  <2>2. \A u \in Tasks : outcome'[u] \in Ended => Recorded(u)' \/ calls'[u] = 0
    BY <1>1, <1>3, <1>4, <2>1 DEF Records, Ended, None
  <2>3. \A u \in Tasks : \A v \in Workers : hand'[v] = u /\ u # None /\ step'[v] \notin {"start", "run"}
            => Recorded(u)' \/ calls'[u] = 0
    BY <1>1, <1>3, <1>4, <2>1 DEF Records
  <2> QED
    BY <1>1, <1>7, <2>2, <2>3 DEF Records, Recorded
<1>12. Leases'
  <2>1. \A r \in Requests : (LeaseOver(r) <=> LeaseOver(r)') /\ Execute[r] \in Tasks
    BY <1>1, TaskFacts DEF LeaseOver
  <2> QED
    BY <1>1, <1>3, <1>4, <2>1 DEF Leases, Scripting, Ended, None
<1>13. \A r \in Requests : (Unreturned(r)' => Unreturned(r)) /\ (Late(r) => Late(r)')
  <2> SUFFICES ASSUME NEW r \in Requests
               PROVE  (Unreturned(r)' => Unreturned(r)) /\ (Late(r) => Late(r)')
    OBVIOUS
  <2>1. Execute[r] \in Tasks
    BY TaskFacts
  <2>2. CASE hand[w] = Execute[r]
    BY <1>1, <1>3, <1>4, <1>5, <2>1, <2>2 DEF Unreturned, Late, Pending
  <2>3. CASE hand[w] # Execute[r]
    BY <1>1, <1>4, <2>1, <2>3 DEF Unreturned, Late, Pending
  <2> QED
    BY <2>2, <2>3
<1>14. Robbed'
  BY <1>1, <1>13, RobbedKeeps
<1>15. OneRollback'
  <2> SUFFICES ASSUME NEW r \in Requests, calls'[Execute[r]] =< 1
               PROVE  /\ \A a, b \in Rollbacks[r] : call[a] # None /\ call[b] # None => a = b
                      /\ Before(r)' \/ Verifying(r)' => \A b \in Rollbacks[r] : call[b] = None
                      /\ Before(r)' => call[Verify[r]] = None
    BY <1>1 DEF OneRollback
  <2>1. Execute[r] \in Tasks
    BY TaskFacts
  <2>2. calls[Execute[r]] =< 1 /\ (hand[w] = Execute[r] => Before(r))
    BY <1>4, <1>5, <2>1 DEF Before
  <2>3. hand[w] # Execute[r] => (Before(r)' => Before(r))
    BY <1>1, <1>4, <2>1 DEF Before
  <2>4. Verifying(r)' => Verifying(r)
    BY <1>1, <1>4, <1>6 DEF Verifying, Pending, None
  <2> QED
    BY <2>2, <2>3, <2>4 DEF OneRollback
<1> QED
  BY <1>9, <1>10, <1>11, <1>12, <1>14, <1>15

\* What a task that was not accepted yet is: in no hand, without an outcome, not called.
LEMMA Unaccepted ==
    ASSUME RInv, NEW t \in Tasks, call[t] # "accepted"
    PROVE  outcome[t] = None /\ calls[t] = 0 /\ \A w \in Workers : hand[w] # t
BY WorkerAssumption DEF RInv, ChainInv, IInv, Known, Pending

\* A dispatcher that leaves the manager's state alone, except for the call of its task.
LEMMA DispatchKeeps ==
    ASSUME RInv, NEW r \in Requests, dispatch[r] # "over", call[Execute[r]] # "accepted",
           UNCHANGED <<open, due, place, hand, calls, outcome, stopping, stops, target, expired,
                       step, child>>,
           \A q \in Requests \ {r} : dispatch'[q] = dispatch[q],
           \A t \in Tasks \ {Execute[r]} : call'[t] = call[t],
           \A t \in Tasks : Recorded(t) /\ t # Execute[r] => Recorded(t)'
    PROVE  /\ JobSteps' /\ Records' /\ OneRollback'
           /\ \A q \in Requests \ {r} : Unreturned(q)' => Unreturned(q)
           /\ \A q \in Requests : Late(q) => Late(q)'
<1> USE DEF RInv, Chaining
<1>1. Execute[r] \in Tasks
  BY TaskFacts
<1>2. outcome[Execute[r]] = None /\ calls[Execute[r]] = 0 /\ \A w \in Workers : hand[w] # Execute[r]
  BY <1>1, Unaccepted
<1>3. JobSteps'
  BY DEF JobSteps, IsExecute, IsVerify
<1>4. Records'
  <2>1. \A t \in Tasks : outcome'[t] \in Ended => Recorded(t)' \/ calls'[t] = 0
    BY <1>2 DEF Records
  <2>2. \A t \in Tasks : \A w \in Workers : hand'[w] = t /\ t # None /\ step'[w] \notin {"start", "run"}
            => Recorded(t)' \/ calls'[t] = 0
    BY <1>2 DEF Records
  <2>3. \A w \in Workers : hand[w] \in Tasks \union {None}
    BY DEF RemediationTypeOK, TypeOK
  <2> QED
    BY <2>1, <2>2, <2>3 DEF Records, Recorded
<1>5. OneRollback'
  <2>1. \A q \in Requests : \A t \in {Verify[q]} \union Rollbacks[q] : call'[t] = call[t]
    BY TaskFacts
  <2> QED
    BY <2>1 DEF OneRollback, Before, Verifying, Pending
<1>6. \A q \in Requests \ {r} : Unreturned(q)' => Unreturned(q)
  <2>1. \A q \in Requests \ {r} : call'[Execute[q]] = call[Execute[q]]
    BY TaskFacts
  <2> QED
    BY <2>1 DEF Unreturned, Pending
<1>7. \A q \in Requests : Late(q) => Late(q)'
  BY DEF Late
<1> QED
  BY <1>3, <1>4, <1>5, <1>6, <1>7

LEMMA CountKeeps ==
    ASSUME RInv, NEW r \in Requests, Count(r)
    PROVE  Chaining'
<1> USE DEF RInv, Chaining
<1>1. /\ dispatch[r] = "idle"
      /\ UNCHANGED <<open, call, due, place, hand, calls, outcome, stopping, stops, target,
                     lease, expired, unreleased, unrecorded, step, child>>
      /\ row' = row \/ row' = [row EXCEPT ![Execute[r]] = "queued"]
      /\ \E to \in {"counted", "over"} : dispatch' = [dispatch EXCEPT ![r] = to]
  BY DEF Count, Go, workVars, leaseVars, stepVars
<1>2. /\ dispatch'[r] \in {"counted", "over"}
      /\ \A q \in Requests \ {r} : dispatch'[q] = dispatch[q]
  BY <1>1 DEF RemediationTypeOK
<1>3. call[Execute[r]] = None /\ r \notin expired /\ \A n \in Nodes : lease[n] # r
  BY <1>1 DEF Dispatched
<1>4. \A t \in Tasks : Recorded(t) /\ t # Execute[r] => Recorded(t)'
  BY <1>1 DEF Recorded, RemediationTypeOK
<1>5. /\ JobSteps' /\ Records' /\ OneRollback'
      /\ \A q \in Requests \ {r} : Unreturned(q)' => Unreturned(q)
      /\ \A q \in Requests : Late(q) => Late(q)'
  BY <1>1, <1>2, <1>3, <1>4, DispatchKeeps DEF None
<1>6. Dispatched'
  BY <1>1, <1>2, <1>3 DEF Dispatched
<1>7. Leases'
  <2>1. \A q \in Requests : (LeaseOver(q) <=> LeaseOver(q)') /\ LeaseOver(r)
    BY <1>1, <1>3 DEF LeaseOver
  <2> QED
    BY <1>1, <1>2, <2>1 DEF Leases
<1>8. ~Unreturned(r)'
  BY <1>1, <1>2, <1>3 DEF Unreturned, Pending, None
<1>9. Robbed'
  <2>1. \A q \in Requests : (Unreturned(q)' => Unreturned(q)) /\ (Late(q) => Late(q)')
    BY <1>5, <1>8
  <2> QED
    BY <1>1, <2>1, RobbedKeeps
<1> QED
  BY <1>5, <1>6, <1>7, <1>9

\* A request gets the lease, and may not learn of it: nobody who has not returned has it,
\* unless robbed.
LEMMA AcquireKeeps ==
    ASSUME RInv, NEW r \in Requests, Acquire(r)
    PROVE  Chaining'
<1> USE DEF RInv, Chaining
<1>1. /\ dispatch[r] = "counted"
      /\ UNCHANGED <<open, call, due, place, hand, calls, outcome, stopping, stops, target,
                     expired, step, child>>
      /\ UNCHANGED rowVars \/ Write(Execute[r], "ended") \/ Unwritten(Execute[r])
      /\ \/ /\ lease[target[r]] = None /\ lease' = [lease EXCEPT ![target[r]] = r]
            /\ \/ dispatch' = [dispatch EXCEPT ![r] = "leased"] /\ unreleased' = unreleased
               \/ /\ dispatch' = [dispatch EXCEPT ![r] = "over"]
                  /\ unreleased' = unreleased \union {r}
         \/ /\ UNCHANGED <<lease, unreleased>>
            /\ dispatch' = [dispatch EXCEPT ![r] = "over"]
  BY DEF Acquire, Go, workVars, stepVars
<1>2. call[Execute[r]] = None /\ r \notin expired /\ \A n \in Nodes : lease[n] # r
  BY <1>1 DEF Dispatched
<1>3. Execute[r] \in Tasks /\ target[r] \in Nodes /\ DOMAIN lease = Nodes
      /\ DOMAIN dispatch = Requests
  BY TaskFacts DEF RemediationTypeOK
<1>4. \A t \in Tasks : Recorded(t) => Recorded(t)'
  <2>1. CASE UNCHANGED rowVars
    BY <2>1 DEF rowVars, Recorded
  <2>2. CASE Write(Execute[r], "ended") \/ Unwritten(Execute[r])
    BY <1>3, <2>2, WriteRecords
  <2> QED
    BY <1>1, <2>1, <2>2
<1>5. \A q \in Requests \ {r} : dispatch'[q] = dispatch[q]
  BY <1>1, <1>3
<1>6. /\ JobSteps' /\ Records' /\ OneRollback'
      /\ \A q \in Requests \ {r} : Unreturned(q)' => Unreturned(q)
      /\ \A q \in Requests : Late(q) => Late(q)'
  BY <1>1, <1>2, <1>4, <1>5, DispatchKeeps DEF None
<1>7. outcome[Execute[r]] = None /\ calls[Execute[r]] = 0 /\ \A w \in Workers : hand[w] # Execute[r]
  BY <1>2, <1>3, Unaccepted DEF None
<1>8. CASE UNCHANGED <<lease, unreleased>> /\ dispatch' = [dispatch EXCEPT ![r] = "over"]
  <2>0. dispatch'[r] = "over"
    BY <1>3, <1>8
  <2>1. Dispatched'
    BY <1>1, <1>5, <1>8, <2>0 DEF Dispatched
  <2>2. \A q \in Requests : (LeaseOver(q) <=> LeaseOver(q)') /\ LeaseOver(r)
    BY <1>1, <1>2, <1>8 DEF LeaseOver
  <2>3. Leases'
    BY <1>1, <1>5, <1>8, <2>2 DEF Leases
  <2>4. ~Unreturned(r)'
    BY <1>1, <1>2, <2>0 DEF Unreturned, Pending, None
  <2>5. Robbed'
    <3>1. \A q \in Requests : (Unreturned(q)' => Unreturned(q)) /\ (Late(q) => Late(q)')
      BY <1>6, <2>4
    <3> QED
      BY <1>1, <1>8, <3>1, RobbedKeeps
  <2> QED
    BY <1>6, <2>1, <2>3, <2>5
<1>9. CASE /\ lease[target[r]] = None /\ lease' = [lease EXCEPT ![target[r]] = r]
           /\ \/ dispatch' = [dispatch EXCEPT ![r] = "leased"] /\ unreleased' = unreleased
              \/ /\ dispatch' = [dispatch EXCEPT ![r] = "over"]
                 /\ unreleased' = unreleased \union {r}
  <2>0. /\ dispatch'[r] = "leased" \/ (dispatch'[r] = "over" /\ r \in unreleased')
        /\ unreleased \subseteq unreleased'
        /\ \A n \in Nodes : lease'[n] = IF n = target[r] THEN r ELSE lease[n]
    BY <1>3, <1>9
  <2>1. Dispatched'
    BY <1>1, <1>2, <1>5, <2>0 DEF Dispatched
  <2>2. \A q \in Requests \ {r} : LeaseOver(q) => LeaseOver(q)'
    BY <1>1, <2>0 DEF LeaseOver
  <2>3. Leases'
    <3>1. \A q \in Requests \ {r} : Execute[q] # Execute[r]
      BY TaskFacts
    <3>2. \A n \in Nodes : lease'[n] # None => target'[lease'[n]] = n
      BY <1>1, <2>0 DEF Leases
    <3>3. \A q \in Requests : dispatch'[q] = "over" /\ call'[Execute[q]] # "accepted" =>
              LeaseOver(q)' \/ stops' > 0
      BY <1>1, <1>5, <2>0, <2>2 DEF Leases, LeaseOver
    <3>4. \A q \in Requests : outcome'[Execute[q]] \in Ended =>
              LeaseOver(q)' \/ (Execute[q] \in Delayed /\ calls'[Execute[q]] = 0)
      BY <1>1, <1>7, <2>2 DEF Leases, Ended, None
    <3>5. \A q \in Requests : \A w \in Workers : hand'[w] = Execute[q] /\ step'[w] \notin Scripting =>
              LeaseOver(q)' \/ calls'[Execute[q]] = 0
      BY <1>1, <1>7, <2>2 DEF Leases
    <3> QED
      BY <3>2, <3>3, <3>4, <3>5 DEF Leases
  <2>4. ~Late(r)
    BY <1>2, <1>7 DEF Late
  <2>5. Robbed'
    <3> SUFFICES ASSUME NEW q \in Requests, Unreturned(q)'
                 PROVE  \/ lease'[target[q]] = q
                        \/ q \in expired
                        \/ \E p \in Requests : target[p] = target[q] /\ Late(p)' /\ lease'[target[q]] # p
      BY <1>1 DEF Robbed
    <3>1. lease[target[r]] # q
      BY <1>9, RemediationAssumption
    <3>2. target[q] \in Nodes
      BY DEF RemediationTypeOK
    <3>3. CASE q = r
      BY <1>3, <2>0, <3>3
    <3>4. CASE q # r
      <4>1. Unreturned(q)
        BY <1>6, <3>4
      <4>2. \/ lease[target[q]] = q
            \/ q \in expired
            \/ \E p \in Requests : target[p] = target[q] /\ Late(p) /\ lease[target[q]] # p
        BY <4>1 DEF Robbed
      <4> QED
        BY <1>6, <2>0, <2>4, <3>1, <3>2, <4>2
    <3> QED
      BY <3>3, <3>4
  <2> QED
    BY <1>6, <2>1, <2>3, <2>5
<1> QED
  BY <1>1, <1>8, <1>9

\* The dispatcher's call of Enqueue, before and after the unlock.
LEMMA EnqueueKeeps ==
    ASSUME RInv, NEW r \in Requests, Enqueue(r) \/ OfferExecute(r)
    PROVE  Chaining'
<1> USE DEF RInv, Chaining
<1>0. Execute[r] \in Tasks /\ DOMAIN dispatch = Requests /\ DOMAIN call = Tasks
  BY TaskFacts DEF RemediationTypeOK, TypeOK
<1>1. /\ UNCHANGED <<open, due, place, hand, calls, outcome, stopping, stops, target, lease,
                     expired, unreleased, row, unrecorded, step, child>>
      /\ \A q \in Requests \ {r} : dispatch'[q] = dispatch[q]
      /\ \A t \in Tasks \ {Execute[r]} : call'[t] = call[t]
  BY <1>0 DEF Enqueue, Check, OfferExecute, Offer, Go, workerVars, managerVars, leaseVars, rowVars,
              stepVars
<1>2. /\ dispatch[r] \in {"leased", "offering"} /\ call[Execute[r]] \in {None, "checked"}
      /\ \/ dispatch'[r] = "offering" /\ call'[Execute[r]] = "checked"
         \/ dispatch'[r] = "refused" /\ call'[Execute[r]] = "refused"
         \/ dispatch'[r] = "over" /\ call'[Execute[r]] = "accepted"
         \/ dispatch'[r] = "over" /\ call'[Execute[r]] = "panicked" /\ ~open
  BY <1>0 DEF Enqueue, Check, OfferExecute, Offer, Go
<1>3. outcome[Execute[r]] = None /\ calls[Execute[r]] = 0 /\ \A w \in Workers : hand[w] # Execute[r]
  BY <1>0, <1>2, Unaccepted DEF None
<1>4. \A t \in Tasks : Recorded(t) /\ t # Execute[r] => Recorded(t)'
  BY <1>1 DEF Recorded
<1>5. /\ JobSteps' /\ Records' /\ OneRollback'
      /\ \A q \in Requests \ {r} : Unreturned(q)' => Unreturned(q)
      /\ \A q \in Requests : Late(q) => Late(q)'
  BY <1>1, <1>2, <1>4, DispatchKeeps DEF None
<1>6. \A q \in Requests \ {r} : call'[Execute[q]] = call[Execute[q]]
  BY <1>1, TaskFacts
<1>7. Dispatched'
  BY <1>1, <1>2, <1>6 DEF Dispatched
<1>8. Leases'
  <2>1. \A q \in Requests : LeaseOver(q) <=> LeaseOver(q)'
    BY <1>1 DEF LeaseOver
  <2>2. \A n \in Nodes : lease'[n] # None => target'[lease'[n]] = n
    BY <1>1 DEF Leases
  <2>3. \A q \in Requests : dispatch'[q] = "over" /\ call'[Execute[q]] # "accepted" =>
            LeaseOver(q)' \/ stops' > 0
    BY <1>1, <1>2, <1>6, <2>1 DEF Leases, Dispatched
  <2> QED
    BY <1>1, <2>1, <2>2, <2>3 DEF Leases
<1>9. Robbed'
  <2>1. \A q \in Requests : (Unreturned(q)' => Unreturned(q)) /\ (Late(q) => Late(q)')
    BY <1>2, <1>5 DEF Unreturned
  <2> QED
    BY <1>1, <2>1, RobbedKeeps
<1> QED
  BY <1>5, <1>7, <1>8, <1>9

LEMMA NotEnqueuedKeeps ==
    ASSUME RInv, NEW r \in Requests, NotEnqueued(r)
    PROVE  Chaining'
<1> USE DEF RInv, Chaining
<1>0. Execute[r] \in Tasks /\ DOMAIN dispatch = Requests /\ target[r] \in Nodes /\ DOMAIN lease = Nodes
  BY TaskFacts DEF RemediationTypeOK
<1>1. /\ UNCHANGED <<open, call, due, place, hand, calls, outcome, stopping, stops, target,
                     expired, step, child>>
      /\ dispatch[r] = "refused" /\ dispatch'[r] = "over"
      /\ \A q \in Requests \ {r} : dispatch'[q] = dispatch[q]
      /\ Write(Execute[r], "ended") \/ Unwritten(Execute[r])
      /\ \/ lease' = [lease EXCEPT ![target[r]] = None] /\ unreleased' = unreleased
         \/ lease' = lease /\ unreleased' = unreleased \union {r}
  BY <1>0 DEF NotEnqueued, Go, workVars, stepVars, Release, Unreleased
<1>2. call[Execute[r]] = "refused"
  BY <1>1 DEF Dispatched
<1>3. \A t \in Tasks : Recorded(t) => Recorded(t)'
  BY <1>0, <1>1, WriteRecords
<1>4. /\ JobSteps' /\ Records' /\ OneRollback'
      /\ \A q \in Requests \ {r} : Unreturned(q)' => Unreturned(q)
      /\ \A q \in Requests : Late(q) => Late(q)'
  BY <1>1, <1>2, <1>3, DispatchKeeps
<1>5. None \notin Requests /\ \A n \in Nodes : lease'[n] = lease[n] \/ lease'[n] = None
  BY <1>1, RemediationAssumption DEF RemediationTypeOK
<1>6. Dispatched'
  BY <1>1, <1>5 DEF Dispatched
<1>7. (\A q \in Requests : LeaseOver(q) => LeaseOver(q)') /\ LeaseOver(r)'
  <2>1. \A n \in Nodes : lease[n] = r => n = target[r]
    BY <1>5 DEF Leases
  <2> QED
    BY <1>0, <1>1, <1>5, <2>1 DEF LeaseOver
<1>8. Leases'
  <2>1. \A n \in Nodes : lease'[n] # None => target'[lease'[n]] = n
    BY <1>1, <1>5 DEF Leases
  <2> QED
    BY <1>1, <1>7, <2>1 DEF Leases
<1>9. Robbed'
  <2>1. \A q \in Requests : (Unreturned(q)' => Unreturned(q)) /\ (Late(q) => Late(q)')
    BY <1>1, <1>4 DEF Unreturned
  <2>2. CASE lease' = lease
    BY <1>1, <2>1, <2>2, RobbedKeeps
  <2>3. CASE lease' = [lease EXCEPT ![target[r]] = None]
    <3>1. Unreturned(r) /\ ~Unreturned(r)'
      BY <1>1, <1>2 DEF Unreturned, Pending
    <3> QED
      BY <1>1, <2>1, <2>3, <3>1, ReleaseRobs
  <2> QED
    BY <1>1, <2>2, <2>3
<1> QED
  BY <1>4, <1>6, <1>8, <1>9

\* A lease that expires makes its request late.
LEMMA ExpiryKeeps ==
    ASSUME RInv, NEW n \in Nodes, LeaseExpires(n)
    PROVE  Chaining'
<1> USE DEF RInv, Chaining
<1>1. /\ UNCHANGED <<open, call, due, place, hand, calls, outcome, stopping, stops, target,
                     dispatch, unreleased, row, unrecorded, step, child>>
      /\ lease[n] # None /\ expired' = expired \union {lease[n]}
      /\ lease' = [lease EXCEPT ![n] = None]
  BY DEF LeaseExpires, workVars, rowVars, stepVars
<1>2. PICK p \in Requests : p = lease[n] /\ target[p] = n
  BY <1>1 DEF RemediationTypeOK, Leases
<1>3. None \notin Requests /\ \A m \in Nodes : lease'[m] = IF m = n THEN None ELSE lease[m]
  BY <1>1, RemediationAssumption DEF RemediationTypeOK
<1>4. JobSteps' /\ Records' /\ OneRollback'
  BY <1>1 DEF JobSteps, Records, Recorded, OneRollback, Before, Verifying, Pending
<1>5. Dispatched'
  BY <1>1, <1>2, <1>3 DEF Dispatched
<1>6. Leases'
  <2>1. \A q \in Requests : LeaseOver(q) => LeaseOver(q)'
    BY <1>1, <1>3 DEF LeaseOver
  <2> QED
    BY <1>1, <1>3, <2>1 DEF Leases
<1>7. Robbed'
  <2> SUFFICES ASSUME NEW r \in Requests, Unreturned(r)'
               PROVE  \/ lease'[target[r]] = r
                      \/ r \in expired'
                      \/ \E q \in Requests : target[q] = target[r] /\ Late(q)' /\ lease'[target[r]] # q
    BY <1>1 DEF Robbed
  <2>1. Unreturned(r)
    BY <1>1 DEF Unreturned, Pending
  <2>2. \A q \in Requests : Late(q) => Late(q)'
    BY <1>1 DEF Late
  <2>3. target[r] \in Nodes
    BY DEF RemediationTypeOK
  <2>4. CASE target[r] = n /\ lease[n] = r
    BY <1>1, <2>4
  <2>5. CASE ~(target[r] = n /\ lease[n] = r)
    BY <1>1, <1>3, <2>1, <2>2, <2>3, <2>5 DEF Robbed
  <2> QED
    BY <2>4, <2>5
<1> QED
  BY <1>4, <1>5, <1>6, <1>7

\* Goroutine w moves outside of jobs: it takes a task, waits with it, or ends it.
LEMMA WaitKeeps ==
    ASSUME RInv, NEW w \in Workers, place[w] # "job", place'[w] # "job",
           UNCHANGED <<open, call, calls, stopping, stops, chainVars>>,
           \A v \in Workers \ {w} : place'[v] = place[v] /\ hand'[v] = hand[v],
           \A t \in Tasks : t # hand[w] => outcome'[t] = outcome[t],
           place'[w] = "sleep" => hand'[w] \in Delayed,
           place'[w] = "backoff" => hand'[w] \in Delayed \/ calls[hand'[w]] > 0,
           \/ hand'[w] = hand[w] /\ outcome'[hand[w]] = outcome[hand[w]]
           \/ /\ hand[w] \in Tasks /\ hand'[w] = None /\ outcome'[hand[w]] \in Ended
              /\ hand[w] \in Delayed \/ calls[hand[w]] # 0
           \/ /\ hand[w] = None /\ hand'[w] \in Tasks /\ calls[hand'[w]] = 0
    PROVE  Chaining'
<1> USE DEF RInv, Chaining
<1>1. /\ UNCHANGED <<target, dispatch, lease, expired, unreleased, row, unrecorded, step, child>>
      /\ step[w] = None
  BY DEF chainVars, leaseVars, rowVars, stepVars, JobSteps
<1>2. /\ \A v \in Workers : hand[v] \in Tasks \union {None} /\ hand'[v] \in Tasks \union {None}
      /\ None \notin Tasks /\ \A q \in Requests : Execute[q] \in Tasks /\ Verify[q] \in Tasks
  <2>1. \A v \in Workers : hand[v] \in Tasks \union {None}
    BY DEF RemediationTypeOK, TypeOK
  <2>2. \A v \in Workers : hand'[v] \in Tasks \union {None}
    BY <2>1
  <2> QED
    BY <2>1, <2>2, WorkerAssumption, TaskFacts
<1>3. \A t \in Tasks : outcome'[t] = outcome[t]
                       \/ (t = hand[w] /\ hand'[w] = None /\ outcome'[t] \in Ended
                           /\ (t \in Delayed \/ calls[t] # 0))
  BY <1>2
<1>4. JobSteps'
  BY <1>1 DEF JobSteps, IsExecute, IsVerify, None
<1>5. Dispatched'
  BY <1>1 DEF Dispatched
<1>6. Records'
  <2>1. \A t \in Tasks : Recorded(t) <=> Recorded(t)'
    BY <1>1 DEF Recorded
  <2>2. \A t \in Tasks : outcome'[t] \in Ended => Recorded(t)' \/ calls'[t] = 0
    BY <1>1, <1>2, <1>3, <2>1 DEF Records, None
  <2>3. \A t \in Tasks : \A v \in Workers : hand'[v] = t /\ t # None /\ step'[v] \notin {"start", "run"}
            => Recorded(t)' \/ calls'[t] = 0
    BY <1>1, <1>2, <2>1 DEF Records
  <2> QED
    BY <1>2, <2>2, <2>3 DEF Records, Recorded
<1>7. Leases'
  <2>1. \A q \in Requests : LeaseOver(q) <=> LeaseOver(q)'
    BY <1>1 DEF LeaseOver
  <2>2. \A n \in Nodes : lease'[n] # None => target'[lease'[n]] = n
    BY <1>1 DEF Leases
  <2>3. \A q \in Requests : dispatch'[q] = "over" /\ call'[Execute[q]] # "accepted" =>
            LeaseOver(q)' \/ stops' > 0
    BY <1>1, <2>1 DEF Leases
  <2>4. \A q \in Requests : outcome'[Execute[q]] \in Ended =>
            LeaseOver(q)' \/ (Execute[q] \in Delayed /\ calls'[Execute[q]] = 0)
    BY <1>1, <1>2, <1>3, <2>1 DEF Leases, Scripting, None
  <2>5. \A q \in Requests : \A v \in Workers : hand'[v] = Execute[q] /\ step'[v] \notin Scripting =>
            LeaseOver(q)' \/ calls'[Execute[q]] = 0
    BY <1>1, <1>2, <2>1 DEF Leases
  <2> QED
    BY <2>2, <2>3, <2>4, <2>5 DEF Leases
<1>8. \A t \in Tasks : Pending(t)' => Pending(t)
  BY <1>3 DEF Pending, Ended, None
<1>9. \A q \in Requests : (Unreturned(q)' => Unreturned(q)) /\ (Late(q) => Late(q)')
  <2> SUFFICES ASSUME NEW q \in Requests
               PROVE  (Unreturned(q)' => Unreturned(q)) /\ (Late(q) => Late(q)')
    OBVIOUS
  <2>1. Late(q) => Late(q)'
    BY <1>1 DEF Late
  <2>2. ASSUME Unreturned(q)', hand[w] = Execute[q], hand'[w] = None PROVE Unreturned(q)
    BY <1>1, <1>2, <1>3, <2>2 DEF Unreturned, Pending, Ended, None
  <2>3. ASSUME Unreturned(q)', hand[w] # Execute[q] \/ hand'[w] # None PROVE Unreturned(q)
    BY <1>1, <1>2, <1>8, <2>3 DEF Unreturned
  <2> QED
    BY <2>1, <2>2, <2>3
<1>10. Robbed'
  BY <1>1, <1>9, RobbedKeeps
<1>11. OneRollback'
  <2>1. \A q \in Requests : (Before(q)' => Before(q)) /\ (Verifying(q)' => Verifying(q))
    <3> SUFFICES ASSUME NEW q \in Requests
                 PROVE  (Before(q)' => Before(q)) /\ (Verifying(q)' => Verifying(q))
      OBVIOUS
    <3>1. Before(q)' => Before(q)
      BY <1>1, <1>2 DEF Before
    <3>2. Verifying(q)' => Verifying(q)
      BY <1>1, <1>2, <1>8 DEF Verifying, None
    <3> QED
      BY <3>1, <3>2
  <2> QED
    BY <2>1 DEF OneRollback
<1> QED
  BY <1>4, <1>5, <1>6, <1>7, <1>10, <1>11

\* The manager's own steps with a task: they change neither leases nor rows.
LEMMA AttemptsKeep ==
    ASSUME RInv, NEW w \in Workers, UNCHANGED chainVars,
           Take(w) \/ Quit(w) \/ Sleep(w) \/ SleepEnds(w) \/ Retry(w) \/ RetryCancelled(w)
    PROVE  Chaining'
<1> USE DEF RInv, Chaining, ChainInv, IInv
<1>1. /\ place \in [Workers -> Busy \union {"idle", "exited"}]
      /\ hand \in [Workers -> Tasks \union {None}]
      /\ outcome \in [Tasks -> {None, "done", "failed", "cancelled", "lost"}]
      /\ calls \in [Tasks -> 0 .. MaxAttempts] /\ MaxAttempts \in Nat
      /\ queue \in Seq(Tasks)
  BY WorkerAssumption DEF TypeOK
<1>2. UNCHANGED <<open, call, calls, stopping, stops>>
  BY DEF Take, Quit, Sleep, SleepEnds, Retry, RetryCancelled, callVars, managerVars
<1>3. place[w] \in {"begin", "sleep", "backoff"} => hand[w] \in Tasks
  BY DEF Hands, Busy
<1>4. ASSUME NEW how \in {"failed", "cancelled"}, Finish(w, how),
             place[w] \in {"sleep", "backoff"}
      PROVE  Chaining'
  <2>1. /\ hand[w] \in Tasks /\ (hand[w] \in Delayed \/ calls[hand[w]] # 0)
    BY <1>1, <1>3, <1>4 DEF JobSteps
  <2>2. /\ place'[w] = "idle" /\ hand'[w] = None /\ outcome'[hand[w]] = how
        /\ \A v \in Workers \ {w} : place'[v] = place[v] /\ hand'[v] = hand[v]
        /\ \A t \in Tasks : t # hand[w] => outcome'[t] = outcome[t]
    BY <1>1, <1>4, <2>1 DEF Finish
  <2> QED
    BY <1>2, <1>4, <2>1, <2>2, WaitKeeps DEF Ended
<1>5. ASSUME NEW to, Move(w, to), UNCHANGED <<hand, outcome>>, place[w] # "job", to # "job",
             to = "sleep" => hand[w] \in Delayed,
             to = "backoff" => hand[w] \in Delayed \/ calls[hand[w]] > 0
      PROVE  Chaining'
  <2>1. place'[w] = to /\ \A v \in Workers \ {w} : place'[v] = place[v]
    BY <1>1, <1>5 DEF Move
  <2> QED
    BY <1>2, <1>5, <2>1, WaitKeeps
<1>6. CASE Take(w)
  <2>1. place[w] = "idle" /\ hand[w] = None
    BY <1>6 DEF Take, Hands, Busy
  <2>2. Head(queue) \in Tasks /\ calls[Head(queue)] = 0
    <3>1. Head(queue) = queue[1] /\ 1 \in 1 .. Len(queue)
      BY <1>1, <1>6 DEF Take
    <3> QED
      BY <1>1, <3>1 DEF Known
  <2>3. /\ place'[w] = "begin" /\ hand'[w] = Head(queue) /\ outcome' = outcome
        /\ \A v \in Workers \ {w} : place'[v] = place[v] /\ hand'[v] = hand[v]
    BY <1>1, <1>6 DEF Take, Move
  <2> QED
    BY <1>2, <2>1, <2>2, <2>3, WaitKeeps
<1>7. CASE Quit(w)
  BY <1>5, <1>7 DEF Quit
<1>8. CASE Sleep(w)
  BY <1>5, <1>8 DEF Sleep
<1>9. CASE SleepEnds(w)
  BY <1>4, <1>5, <1>9 DEF SleepEnds, AttemptFails, JobSteps
<1>10. CASE Retry(w)
  BY <1>5, <1>10 DEF Retry
<1>11. CASE RetryCancelled(w)
  BY <1>4, <1>11 DEF RetryCancelled
<1> QED
  BY <1>6, <1>7, <1>8, <1>9, <1>10, <1>11

LEMMA ManageKeeps == RInv /\ Manage => Chaining'
<1> SUFFICES ASSUME RInv, Manage PROVE Chaining'
  OBVIOUS
<1> USE DEF RInv, Chaining
<1>1. UNCHANGED chainVars
  BY DEF Manage
<1>2. UNCHANGED <<target, dispatch, lease, expired, unreleased, row, unrecorded, step, child>>
  BY <1>1 DEF chainVars, leaseVars, rowVars, stepVars
<1>3. ASSUME UNCHANGED <<call, place, hand, calls, outcome>>, stops' = stops \/ stops' = stops + 1,
             ~open' \/ stopping' # None => stops' > 0
      PROVE  Chaining'
  <2>1. JobSteps' /\ Records' /\ OneRollback'
    BY <1>2, <1>3 DEF JobSteps, Records, Recorded, OneRollback, Before, Verifying, Pending
  <2>2. Dispatched'
    BY <1>2, <1>3 DEF Dispatched
  <2>3. stops > 0 => stops' > 0
    BY <1>3 DEF RemediationTypeOK, TypeOK
  <2>4. Leases'
    BY <1>2, <1>3, <2>3 DEF Leases, LeaseOver
  <2>5. \A q \in Requests : (Unreturned(q)' => Unreturned(q)) /\ (Late(q) => Late(q)')
    BY <1>2, <1>3 DEF Unreturned, Pending, Late
  <2>6. Robbed'
    BY <1>2, <2>5, RobbedKeeps
  <2> QED
    BY <2>1, <2>2, <2>4, <2>6
<1>4. stops \in Nat
  BY WorkerAssumption DEF RemediationTypeOK, TypeOK
<1>5. CASE \E t \in Tasks : ProcessAtComes(t)
  BY <1>3, <1>5 DEF ProcessAtComes, callVars, workerVars, managerVars, Dispatched
<1>6. CASE Signal \/ StopFlags \/ StopCloses \/ StopReturns
  BY <1>3, <1>4, <1>6 DEF Signal, StopFlags, StopCloses, StopReturns, callVars, workerVars,
                         Dispatched, None
<1>7. CASE Restart
  <2>1. \A w \in Workers : place[w] = "exited" /\ hand[w] = None /\ step[w] = None
    BY <1>7 DEF Restart, ChainInv, IInv, Ends, Hands, Busy, JobSteps
  <2>2. /\ UNCHANGED <<call, calls, outcome, stops>> /\ open' = TRUE /\ stopping' = None
        /\ \A w \in Workers : place'[w] = "idle" /\ hand'[w] = None
    BY <1>7 DEF Restart, Fresh
  <2>3. JobSteps'
    BY <1>2, <2>1, <2>2 DEF JobSteps, IsExecute, IsVerify, None
  <2>4. Dispatched'
    BY <1>2, <2>2 DEF Dispatched
  <2>5. Records' /\ Leases'
    BY <1>2, <2>1, <2>2 DEF Records, Recorded, Leases, LeaseOver
  <2>6. OneRollback'
    BY <1>2, <2>1, <2>2 DEF OneRollback, Before, Verifying, Pending
  <2>7. \A q \in Requests : (Unreturned(q)' => Unreturned(q)) /\ (Late(q) => Late(q)')
    BY <1>2, <2>1, <2>2 DEF Unreturned, Pending, Late
  <2>8. Robbed'
    BY <1>2, <2>7, RobbedKeeps
  <2> QED
    BY <2>3, <2>4, <2>5, <2>6, <2>8
<1> QED
  BY <1>1, <1>5, <1>6, <1>7, AttemptsKeep DEF Manage

\* A process ends with its jobs and its dispatchers.
LEMMA DiesKeeps == RInv /\ Dies => Chaining'
<1> SUFFICES ASSUME RInv, Dies PROVE Chaining'
  OBVIOUS
<1> USE DEF RInv, Chaining
<1>1. /\ UNCHANGED <<target, lease, expired, unreleased, row, unrecorded, calls>>
      /\ \A r \in Requests : dispatch'[r] = IF dispatch[r] = "idle" THEN "idle" ELSE "over"
      /\ \A w \in Workers : step'[w] = None
      /\ ProcessEnds
  BY DEF Dies, Exit, Kill, ChildPanics, ProcessEnds, leaseVars, rowVars
<1>2. /\ \A w \in Workers : place'[w] = "exited" /\ hand'[w] = None
      /\ \A t \in Tasks : /\ call'[t] = IF call[t] = "checked" THEN "refused" ELSE call[t]
                          /\ outcome'[t] = IF call[t] = "accepted" /\ outcome[t] = None
                                           THEN "lost" ELSE outcome[t]
  BY <1>1 DEF ProcessEnds
<1>3. None \notin Tasks /\ \A q \in Requests : Execute[q] \in Tasks /\ Verify[q] \in Tasks
                                               /\ Rollbacks[q] \subseteq Tasks
  BY WorkerAssumption, TaskFacts
<1>4. stops' > 0
  BY WorkerAssumption DEF Dies, Exit, Kill, ChildPanics, Dispatched, None, RemediationTypeOK, TypeOK
<1>5. JobSteps'
  BY <1>1, <1>2 DEF JobSteps, IsExecute, IsVerify, None
<1>6. Dispatched'
  BY <1>1, <1>2, <1>3, <1>4 DEF Dispatched, None
<1>7. Records'
  <2>1. \A t \in Tasks : outcome'[t] \in Ended => outcome[t] \in Ended
    BY <1>2 DEF Ended
  <2> QED
    BY <1>1, <1>2, <2>1 DEF Records, Recorded
<1>8. Leases'
  <2>1. \A t \in Tasks : outcome'[t] \in Ended => outcome[t] \in Ended
    BY <1>2 DEF Ended
  <2> QED
    BY <1>1, <1>2, <1>3, <1>4, <2>1 DEF Leases, LeaseOver
<1>9. \A t \in Tasks : ~Pending(t)'
  BY <1>2 DEF Pending, None
<1>10. Robbed'
  <2>1. \A q \in Requests : ~Unreturned(q)'
    BY <1>1, <1>3, <1>9 DEF Unreturned
  <2> QED
    BY <2>1 DEF Robbed
<1>11. OneRollback'
  <2>1. \A t \in Tasks : call'[t] # "checked" /\ (call'[t] = None <=> call[t] = None)
    BY <1>2 DEF None
  <2>2. \A q \in Requests : (Before(q)' => Before(q)) /\ ~Verifying(q)'
    BY <1>1, <1>2, <1>3, <1>9, <2>1 DEF Before, Verifying
  <2> QED
    BY <1>1, <1>3, <2>1, <2>2 DEF OneRollback
<1> QED
  BY <1>5, <1>6, <1>7, <1>8, <1>10, <1>11

-----------------------------------------------------------------------------
LEMMA FaultType ==
    ASSUME RInv, Fault \/ JobFault \/ JobWorks \/ UNCHANGED faults
    PROVE  faults' \in 0 .. MaxFaults
<1>1. faults \in 0 .. MaxFaults /\ MaxFaults \in Nat
  BY RemediationAssumption DEF RInv, RemediationTypeOK
<1> QED
  BY <1>1 DEF Fault, JobFault, JobWorks

\* What the composition adds to the manager's state.
LeaseTypes ==
    /\ target \in [Requests -> Nodes]
    /\ dispatch \in [Requests -> {"idle", "counted", "leased", "offering", "refused", "over"}]
    /\ lease \in [Nodes -> Requests \union {None}]
    /\ row \in [Tasks -> {None, "queued", "running", "ended"}]
    /\ expired \subseteq Requests /\ unreleased \subseteq Requests
    /\ unrecorded \subseteq Tasks
    /\ faults \in 0 .. MaxFaults

LEMMA DispatchTypes ==
    ASSUME RInv, NEW r \in Requests, Dispatches(r)
    PROVE  LeaseTypes'
<1>0. LeaseTypes /\ Execute[r] \in Tasks
  BY TaskFacts DEF RInv, RemediationTypeOK, LeaseTypes
<1>1. CASE Count(r)
  <2>1. faults' \in 0 .. MaxFaults
    BY <1>1, FaultType DEF Count
  <2> QED
    BY <1>0, <1>1, <2>1 DEF Count, Go, leaseVars, LeaseTypes
<1>2. CASE Acquire(r)
  <2>1. faults' \in 0 .. MaxFaults
    BY <1>2, FaultType DEF Acquire
  <2>2. row' \in [Tasks -> {None, "queued", "running", "ended"}] /\ unrecorded' \subseteq Tasks
    BY <1>0, <1>2 DEF Acquire, Write, Unwritten, rowVars, LeaseTypes
  <2> QED
    BY <1>0, <1>2, <2>1, <2>2 DEF Acquire, Go, LeaseTypes
<1>3. CASE Enqueue(r)
  BY <1>0, <1>3 DEF Enqueue, Go, leaseVars, rowVars, LeaseTypes
<1>4. CASE OfferExecute(r)
  BY <1>0, <1>4 DEF OfferExecute, Go, leaseVars, rowVars, LeaseTypes
<1>5. CASE NotEnqueued(r)
  <2>1. faults' \in 0 .. MaxFaults
    BY <1>5, FaultType DEF NotEnqueued
  <2>2. row' \in [Tasks -> {None, "queued", "running", "ended"}] /\ unrecorded' \subseteq Tasks
    BY <1>0, <1>5 DEF NotEnqueued, Write, Unwritten, LeaseTypes
  <2>3. lease' \in [Nodes -> Requests \union {None}] /\ unreleased' \subseteq Requests
        /\ expired' \subseteq Requests
    BY <1>0, <1>5 DEF NotEnqueued, Release, Unreleased, LeaseTypes
  <2> QED
    BY <1>0, <1>5, <2>1, <2>2, <2>3 DEF NotEnqueued, Go, LeaseTypes
<1> QED
  BY <1>1, <1>2, <1>3, <1>4, <1>5 DEF Dispatches

LEMMA WorkTypes ==
    ASSUME RInv, NEW w \in Workers, Works(w)
    PROVE  LeaseTypes'
<1>0. LeaseTypes
  BY DEF RInv, RemediationTypeOK, LeaseTypes
<1>1. place[w] = "job" => hand[w] \in Tasks /\ RequestOf(hand[w]) \in Requests
  BY JobFacts, TaskFacts
<1>2. CASE Begin(w)
  BY <1>0, <1>2 DEF Begin, leaseVars, rowVars, LeaseTypes
<1>3. ASSUME NEW t \in Tasks, NEW status \in {"running", "ended"}, Write(t, status) \/ Unwritten(t),
             JobWorks \/ JobFault, UNCHANGED <<target, dispatch, leaseVars>>
      PROVE  LeaseTypes'
  <2>1. faults' \in 0 .. MaxFaults
    BY <1>3, FaultType
  <2> QED
    BY <1>0, <1>3, <2>1 DEF Write, Unwritten, leaseVars, LeaseTypes
<1>4. CASE Start(w)
  BY <1>1, <1>3, <1>4 DEF Start, At
<1>5. CASE ScriptEnds(w)
  BY <1>1, <1>3, <1>5 DEF ScriptEnds, At
<1>6. CASE VerifyEnds(w)
  BY <1>1, <1>3, <1>6 DEF VerifyEnds, At
<1>7. CASE ReleaseLease(w)
  <2>1. faults' \in 0 .. MaxFaults
    BY <1>7, FaultType DEF ReleaseLease
  <2>2. lease' \in [Nodes -> Requests \union {None}] /\ unreleased' \subseteq Requests
        /\ expired' \subseteq Requests
    BY <1>0, <1>1, <1>7 DEF ReleaseLease, At, Release, Unreleased, LeaseTypes
  <2> QED
    BY <1>0, <1>7, <2>1, <2>2 DEF ReleaseLease, rowVars, LeaseTypes
<1>8. CASE Follow(w)
  <2>1. faults' \in 0 .. MaxFaults
    BY <1>8, FaultType DEF Follow
  <2>2. row' \in [Tasks -> {None, "queued", "running", "ended"}]
    BY <1>0, <1>8 DEF Follow, LeaseTypes
  <2> QED
    BY <1>0, <1>8, <2>1, <2>2 DEF Follow, leaseVars, LeaseTypes
<1>9. CASE OfferChild(w)
  BY <1>0, <1>9 DEF OfferChild, leaseVars, rowVars, LeaseTypes
<1>10. CASE Finished(w)
  <2>1. child[w] \in Tasks
    BY <1>1, <1>10, TaskFacts DEF Finished, At, RInv, Chaining, JobSteps
  <2> QED
    BY <1>0, <1>3, <1>10, <2>1 DEF Finished, leaseVars, rowVars, LeaseTypes
<1> QED
  BY <1>2, <1>4, <1>5, <1>6, <1>7, <1>8, <1>9, <1>10 DEF Works

LEMMA TypesKeep ==
    ASSUME RInv, [RemediationNext]_remediationVars
    PROVE  ChainInv' /\ RemediationTypeOK'
<1>0. LeaseTypes
  BY DEF RInv, RemediationTypeOK, LeaseTypes
<1>1. ChainInv'
  BY ChainStep, StepKeeps DEF RInv, ChainInv
<1>2. LeaseTypes'
  <2>1. CASE \E n \in Nodes : LeaseExpires(n)
    BY <1>0, <2>1 DEF LeaseExpires, rowVars, LeaseTypes
  <2>2. CASE Manage
    BY <1>0, <2>2 DEF Manage, chainVars, leaseVars, rowVars, LeaseTypes
  <2>3. CASE Dies
    BY <1>0, <2>3 DEF Dies, leaseVars, rowVars, LeaseTypes
  <2>4. CASE UNCHANGED remediationVars
    BY <1>0, <2>4 DEF remediationVars, chainVars, leaseVars, rowVars, LeaseTypes
  <2> QED
    BY <2>1, <2>2, <2>3, <2>4, DispatchTypes, WorkTypes DEF RemediationNext
<1> QED
  BY <1>1, <1>2 DEF ChainInv, IInv, ChildHeld, LeaseTypes, RemediationTypeOK

LEMMA LostKeeps ==
    ASSUME RInv, [RemediationNext]_remediationVars
    PROVE  Lost'
<1> USE DEF RInv, Chaining, Lost
<1>1. [Next]_workVars
  BY ChainStep
<1>2. stops \in Nat /\ outcome \in [Tasks -> {None, "done", "failed", "cancelled", "lost"}]
  BY WorkerAssumption DEF RemediationTypeOK, TypeOK
<1>3. stops' = stops \/ stops' = stops + 1
  BY <1>1 DEF Next, Check, Offer, ProcessAtComes, Runs, Take, Quit, Sleep, CallJob, SleepEnds,
         JobReturns, Retry, RetryCancelled, Signal, Stops, StopFlags, StopCloses, StopReturns,
         Exit, Restart, Kill, managerVars, workVars
<1>4. CASE Exit \/ Kill
  <2>1. stops' > 0
    BY <1>2, <1>4 DEF Exit, Kill, Dispatched, None
  <2> QED
    BY <2>1
<1>5. CASE ~(Exit \/ Kill)
  <2>1. \/ outcome' = outcome
        \/ \E w \in Workers, how \in {"done", "failed", "cancelled"} :
              outcome' = [outcome EXCEPT ![hand[w]] = how]
    BY <1>1, <1>5 DEF Next, Check, Offer, ProcessAtComes, Runs, Take, Quit, Sleep, CallJob,
       SleepEnds,
         JobReturns, Retry, RetryCancelled, Signal, Stops, StopFlags, StopCloses, StopReturns,
         Restart, Finish, AttemptFails, callVars, workerVars, workVars
  <2>2. \A t \in Tasks : outcome'[t] = "lost" => outcome[t] = "lost"
    BY <1>2, <2>1
  <2> QED
    BY <1>2, <1>3, <2>2
<1> QED
  BY <1>4, <1>5

LEMMA WorksKeep ==
    ASSUME RInv, NEW w \in Workers, Works(w)
    PROVE  Chaining'
<1>1. CASE Follow(w)
  <2>1. place[w] = "job" /\ step[w] \in {"verify", "rollback"}
        /\ UNCHANGED <<target, dispatch, leaseVars, unrecorded>>
    BY <1>1 DEF Follow
  <2> QED
    BY <1>1, <2>1, FollowKeeps, FollowFails DEF Follow
<1> QED
  BY <1>1, BeginKeeps, StartKeeps, ScriptKeeps, VerifyKeeps, ReleaseKeeps, OfferChildKeeps,
     FinishedKeeps DEF Works

LEMMA RemediationKeeps == RInv /\ [RemediationNext]_remediationVars => RInv'
<1> SUFFICES ASSUME RInv, [RemediationNext]_remediationVars PROVE RInv'
  OBVIOUS
<1>1. Chaining'
  <2>1. CASE UNCHANGED remediationVars
    BY <2>1 DEF remediationVars, workVars, chainVars, leaseVars, rowVars, stepVars, RInv, Chaining,
         JobSteps, Dispatched, Records, Recorded, Leases, LeaseOver, Robbed, Unreturned, Pending, Late,
         OneRollback, Before, Verifying, IsExecute, IsVerify
  <2>2. CASE \E r \in Requests : Dispatches(r)
    BY <2>2, CountKeeps, AcquireKeeps, EnqueueKeeps, NotEnqueuedKeeps DEF Dispatches
  <2> QED
    BY <2>1, <2>2, WorksKeep, ExpiryKeeps, ManageKeeps, DiesKeeps DEF RemediationNext
<1> QED
  BY <1>1, TypesKeep, LostKeeps DEF RInv

LEMMA RemediationInitKeeps == RemediationInit => RInv
<1> SUFFICES ASSUME RemediationInit PROVE RInv
  OBVIOUS
<1>1. ChainInv
  BY ChainInit
<1> USE DEF RemediationInit, Init
<1>2. RemediationTypeOK
  <2>1. TypeOK
    BY <1>1 DEF ChainInv, IInv
  <2>2. faults \in 0 .. MaxFaults
    BY RemediationAssumption
  <2> QED
    BY <2>1, <2>2 DEF RemediationTypeOK, None
<1>3. None \notin Tasks /\ None \notin Requests
      /\ \A r \in Requests : /\ Execute[r] \in Tasks /\ Verify[r] \in Tasks
                             /\ Rollbacks[r] \subseteq Tasks
  BY WorkerAssumption, RemediationAssumption, TaskFacts
<1>4. JobSteps /\ Dispatched /\ Lost
  BY <1>3 DEF JobSteps, Dispatched, Lost, None
<1>5. Records /\ Leases
  BY <1>3 DEF Records, Leases, Ended, None
<1>6. Robbed /\ OneRollback
  BY <1>3 DEF Robbed, Unreturned, Pending, OneRollback, None
<1> QED
  BY <1>1, <1>2, <1>4, <1>5, <1>6 DEF RInv, Chaining

LEMMA RemediationInvariance == RemediationSpec => []RInv
BY RemediationInitKeeps, RemediationKeeps, PTL DEF RemediationSpec

-----------------------------------------------------------------------------
\* Dispatchers, goroutines, the lease table and the job rows stay in the states the
\* code knows, and no more database calls fail than the bound allows.
THEOREM RemediationTyped == RemediationSpec => []RemediationTypeOK
<1>1. RInv => RemediationTypeOK
  BY DEF RInv
<1> QED
  BY <1>1, RemediationInvariance, PTL

\* The row of a task that ended says so, whatever was retried, rolled back or enqueued
\* from its job, unless the write itself failed or its job was never called.
THEOREM EndsAreRecorded == RemediationSpec => []EndedIsRecorded
<1>1. RInv => EndedIsRecorded
  BY DEF RInv, Chaining, Records, Recorded, Ended, EndedIsRecorded
<1> QED
  BY <1>1, RemediationInvariance, PTL

\* A lease is held by a dispatcher or a script that is still to come to its release;
\* only the ways the property lists leave one behind.
THEOREM LeaseEnds == RemediationSpec => []LeaseEndsWithJob
<1>1. ASSUME RInv PROVE LeaseEndsWithJob
  <2> USE <1>1 DEF RInv, Chaining
  <2> SUFFICES ASSUME NEW n \in Nodes, lease[n] # None, lease[n] \notin unreleased,
                      dispatch[lease[n]] = "over",
                      ~(Execute[lease[n]] \in Delayed /\ calls[Execute[lease[n]]] = 0)
               PROVE  \/ call[Execute[lease[n]]] = "accepted" /\ outcome[Execute[lease[n]]] = None
                      \/ stops > 0 /\ (call[Execute[lease[n]]] # "accepted"
                                       \/ outcome[Execute[lease[n]]] = "lost")
    BY DEF LeaseEndsWithJob
  <2>1. PICK r \in Requests : r = lease[n]
    BY DEF RemediationTypeOK
  <2>2. ~LeaseOver(r)
    BY <2>1 DEF LeaseOver
  <2>3. outcome[Execute[r]] \in {None, "done", "failed", "cancelled", "lost"} /\ Execute[r] \in Tasks
    BY TaskFacts DEF RemediationTypeOK, TypeOK
  <2> QED
    BY <2>1, <2>2, <2>3 DEF Leases, Lost, Ended
<1> QED
  BY <1>1, RemediationInvariance, PTL

\* Two scripts run on one node at once only if a rollback takes part or a request of
\* that node outlived its lease: the lease serialises everything else, whatever the
\* tasks, goroutines, faults and restarts.
THEOREM Serial == RemediationSpec => []SerialPerNode
<1>1. ASSUME RInv PROVE SerialPerNode
  <2> USE <1>1 DEF RInv, Chaining
  <2> SUFFICES ASSUME NEW v \in Workers, NEW w \in Workers, v # w, InScript(v), InScript(w),
                      NodeOf(hand[v]) = NodeOf(hand[w]),
                      \A r \in Requests : target[r] = NodeOf(hand[v]) => ~Late(r),
                      IsExecute(hand[v]) \/ RequestOf(hand[v]) = RequestOf(hand[w]),
                      IsExecute(hand[w]) \/ RequestOf(hand[v]) = RequestOf(hand[w])
               PROVE  FALSE
    BY DEF SerialPerNode
  <2>1. /\ place[v] = "job" /\ place[w] = "job" /\ step[v] = "run" /\ step[w] = "run"
        /\ ~IsVerify(hand[v]) /\ ~IsVerify(hand[w])
    BY DEF InScript, At
  <2>2. /\ hand[v] \in Tasks /\ hand[w] \in Tasks /\ hand[v] # hand[w]
        /\ call[hand[v]] = "accepted" /\ call[hand[w]] = "accepted"
        /\ outcome[hand[v]] = None /\ outcome[hand[w]] = None
        /\ \A u \in Workers : (hand[u] = hand[v] => u = v) /\ (hand[u] = hand[w] => u = w)
    BY <2>1, JobFacts
  <2>3. PICK p \in Requests, q \in Requests :
            p = RequestOf(hand[v]) /\ q = RequestOf(hand[w]) /\ target[p] = target[q]
    BY <2>2, TaskFacts DEF NodeOf
  <2>4. \A r \in Requests : target[r] = target[p] => ~Late(r)
    BY <2>3 DEF NodeOf
  <2>5. calls[Execute[p]] =< 1 /\ calls[Execute[q]] =< 1
    <3>1. calls[Execute[p]] \in Nat /\ calls[Execute[q]] \in Nat
      BY TaskFacts, WorkerAssumption DEF RemediationTypeOK, TypeOK
    <3> QED
      BY <2>3, <2>4, <3>1 DEF Late
  <2>6. CASE p # q
    <3>1. hand[v] = Execute[p] /\ hand[w] = Execute[q]
      BY <2>3, <2>6 DEF IsExecute
    <3>2. Unreturned(p) /\ Unreturned(q)
      BY <2>1, <2>2, <2>5, <3>1 DEF Unreturned, Pending, Scripting
    <3>3. lease[target[p]] = p /\ lease[target[q]] = q
      BY <2>3, <2>4, <3>2 DEF Robbed, Late
    <3> QED
      BY <2>3, <2>6, <3>3
  <2>7. CASE p = q
    <3>1. /\ hand[v] = Execute[p] \/ hand[v] \in Rollbacks[p]
          /\ hand[w] = Execute[p] \/ hand[w] \in Rollbacks[p]
      BY <2>1, <2>2, <2>3, <2>7, TaskFacts DEF IsVerify
    <3>2. hand[v] = Execute[p] \/ hand[w] = Execute[p] => Before(p)
      BY <2>1 DEF Before, None
    <3> QED
      BY <2>2, <2>5, <3>1, <3>2 DEF OneRollback, None
  <2> QED
    BY <2>6, <2>7
<1> QED
  BY <1>1, RemediationInvariance, PTL

\* A lease is taken from the request that holds it only by its own release or expiry, or
\* by a request that outlived its own lease on that node.
THEOREM LateRobs == RemediationSpec => OnlyLateReleaseRobs
<1>1. ASSUME RInv, [RemediationNext]_remediationVars, NEW n \in Nodes,
             lease[n] # None, lease'[n] # lease[n]
      PROVE  \/ lease[n] \in expired'
             \/ dispatch[lease[n]] = "refused"
             \/ \E w \in Workers : hand[w] = Execute[lease[n]] /\ step[w] \in {"done", "broke"}
             \/ \E q \in Requests \ {lease[n]} : target[q] = n /\ Late(q)
  <2> USE <1>1 DEF RInv, Chaining
  <2>1. PICK r \in Requests : r = lease[n]
    BY DEF RemediationTypeOK
  <2>2. DOMAIN lease = Nodes
    BY DEF RemediationTypeOK
  <2>3. \A q \in Requests \ {r} : Unreturned(q) /\ target[q] = n =>
            \E p \in Requests \ {r} : target[p] = n /\ Late(p)
    BY <2>1 DEF Robbed, Late
  <2>4. ASSUME NEW m \in Nodes, LeaseExpires(m) PROVE r \in expired'
    BY <2>1, <2>2, <2>4 DEF LeaseExpires
  <2>5. ASSUME NEW q \in Requests, NotEnqueued(q)
        PROVE  dispatch[r] = "refused" \/ \E p \in Requests \ {r} : target[p] = n /\ Late(p)
    <3>1. dispatch[q] = "refused" /\ n = target[q]
      BY <2>2, <2>5 DEF NotEnqueued, Release, Unreleased
    <3> QED
      BY <2>3, <3>1 DEF Unreturned
  <2>6. ASSUME NEW w \in Workers, ReleaseLease(w)
        PROVE  \/ hand[w] = Execute[r] /\ step[w] \in {"done", "broke"}
               \/ \E p \in Requests \ {r} : target[p] = n /\ Late(p)
    <3>1. /\ place[w] = "job" /\ step[w] \in {"done", "broke"}
          /\ n = target[RequestOf(hand[w])]
      BY <2>2, <2>6 DEF ReleaseLease, At, Release, Unreleased, NodeOf
    <3>2. /\ hand[w] \in Tasks /\ call[hand[w]] = "accepted" /\ outcome[hand[w]] = None
          /\ \A v \in Workers \ {w} : hand[v] # hand[w]
      BY <3>1, JobFacts
    <3>3. PICK q \in Requests : q = RequestOf(hand[w]) /\ hand[w] = Execute[q]
      BY <3>1, <3>2, TaskFacts DEF JobSteps, IsExecute
    <3>4. calls[Execute[q]] \in Nat
      BY <3>2, <3>3, WorkerAssumption DEF RemediationTypeOK, TypeOK
    <3>5. Unreturned(q) \/ Late(q)
      BY <3>1, <3>2, <3>3, <3>4 DEF Unreturned, Late, Pending, Scripting
    <3> QED
      BY <2>3, <3>1, <3>3, <3>5
  <2>7. ASSUME UNCHANGED lease PROVE FALSE
    BY <2>7
  <2>8. ASSUME NEW q \in Requests, Acquire(q) PROVE FALSE
    BY <2>2, <2>8 DEF Acquire
  <2>9. CASE \E q \in Requests : Dispatches(q)
    BY <2>1, <2>5, <2>7, <2>8, <2>9 DEF Dispatches, Count, Enqueue, OfferExecute, leaseVars
  <2>10. CASE \E w \in Workers : Works(w)
    BY <2>1, <2>6, <2>7, <2>10 DEF Works, Begin, Start, ScriptEnds, VerifyEnds, Follow, OfferChild,
         Finished, leaseVars
  <2>11. CASE (\E m \in Nodes : LeaseExpires(m)) \/ Manage \/ Dies \/ UNCHANGED remediationVars
    BY <2>1, <2>4, <2>7, <2>11 DEF Manage, Dies, remediationVars, chainVars, leaseVars
  <2> QED
    BY <2>9, <2>10, <2>11 DEF RemediationNext
<1>2. RInv /\ [RemediationNext]_remediationVars =>
          \A n \in Nodes :
              LET r == lease[n] IN
              r # None /\ lease'[n] # r =>
                 \/ r \in expired'
                 \/ dispatch[r] = "refused"
                 \/ \E w \in Workers : hand[w] = Execute[r] /\ step[w] \in {"done", "broke"}
                 \/ \E q \in Requests \ {r} : target[q] = n /\ Late(q)
  BY <1>1
<1> QED
  BY <1>2, RemediationInvariance, PTL DEF RemediationSpec, OnlyLateReleaseRobs
=============================================================================
