-------------------------- MODULE NodeRemediation --------------------------
(***************************************************************************)
(* Remediation of compliance findings, on top of the worker manager: a     *)
(* dispatcher counts the tenant's leases, takes the lease of the node and  *)
(* enqueues the script; the goroutine that ran it releases the lease and   *)
(* enqueues a verification or a rollback.                                  *)
(*                                                                         *)
(* The manager's own steps are those of WorkerManager; this module says    *)
(* what the jobs do while a goroutine is in "job" and who calls Enqueue.   *)
(* The database is shared, so leases and job rows outlive the process.     *)
(***************************************************************************)
EXTENDS WorkerManager

CONSTANTS
    Requests,     \* remediations asked for
    Automatic,    \* those a failing result triggered; the others are manual
    Reversible,   \* those whose script has a rollback body
    Nodes,
    Execute,      \* the execute task of a request,
    Verify,       \*   its verification,
    Rollbacks,    \*   and its rollbacks, one for each time one may be enqueued
    Cap,          \* remediationTenantCap
    MaxFaults     \* bound on database calls that fail

TasksOf(r) == {Execute[r], Verify[r]} \union Rollbacks[r]

ASSUME RemediationAssumption ==
    /\ Automatic \subseteq Requests /\ Reversible \subseteq Requests
    /\ Execute \in [Requests -> Tasks] /\ Verify \in [Requests -> Tasks]
    /\ Rollbacks \in [Requests -> SUBSET Tasks]
    /\ \A r \in Requests : /\ Execute[r] # Verify[r]
                            /\ {Execute[r], Verify[r]} \intersect Rollbacks[r] = {}
                            /\ Cardinality(Rollbacks[r]) = MaxAttempts
    /\ None \notin Requests
    /\ Tasks = UNION {TasksOf(r) : r \in Requests}
    /\ \A q, r \in Requests : q # r => TasksOf(q) \intersect TasksOf(r) = {}
    /\ Delayed \subseteq {Execute[r] : r \in Automatic}
    /\ Cap \in Nat \ {0} /\ MaxFaults \in Nat

VARIABLES
    target,       \* the node of a request
    dispatch,     \* how far its dispatcher is
    lease,        \* the request that holds the lease of a node
    row,          \* status of the job row of a task
    step,         \* where in its job a goroutine is
    child,        \* the task it enqueues from there
    expired,      \* requests whose lease ran out
    unreleased,   \* requests that could not give their lease back
    unrecorded,   \* tasks whose last status was not written
    faults

leaseVars == <<lease, expired, unreleased>>
rowVars == <<row, unrecorded>>
stepVars == <<step, child>>
chainVars == <<target, dispatch, leaseVars, rowVars, stepVars, faults>>
remediationVars == <<workVars, chainVars>>

RequestOf(t) == CHOOSE r \in Requests : t \in TasksOf(r)
NodeOf(t) == target[RequestOf(t)]
IsExecute(t) == t = Execute[RequestOf(t)]
IsVerify(t) == t = Verify[RequestOf(t)]

RemediationTypeOK ==
    /\ TypeOK
    /\ target \in [Requests -> Nodes]
    /\ dispatch \in [Requests -> {"idle", "counted", "leased", "offering", "refused", "over"}]
    /\ lease \in [Nodes -> Requests \union {None}]
    /\ row \in [Tasks -> {None, "queued", "running", "ended"}]
    /\ step \in [Workers -> {None, "start", "run", "done", "broke", "verify", "rollback",
                             "offer", "back"}]
    /\ child \in [Workers -> Tasks \union {None}]
    /\ expired \subseteq Requests /\ unreleased \subseteq Requests
    /\ unrecorded \subseteq Tasks
    /\ faults \in 0 .. MaxFaults

RemediationInit ==
    /\ Init
    /\ target \in [Requests -> Nodes]
    /\ dispatch = [r \in Requests |-> "idle"]
    /\ lease = [n \in Nodes |-> None]
    /\ row = [t \in Tasks |-> None]
    /\ step = [w \in Workers |-> None]
    /\ child = [w \in Workers |-> None]
    /\ expired = {} /\ unreleased = {} /\ unrecorded = {}
    /\ faults = 0

-----------------------------------------------------------------------------
(* Database calls.  A job's context is cancelled with the manager's.       *)

Fault == faults < MaxFaults /\ faults' = faults + 1
JobFault == IF live THEN Fault ELSE UNCHANGED faults
JobWorks == live /\ UNCHANGED faults

Write(t, status) == row' = [row EXCEPT ![t] = status] /\ unrecorded' = unrecorded \ {t}
Unwritten(t) == unrecorded' = unrecorded \union {t} /\ UNCHANGED row

\* ReleaseRemediationLease deletes by node, whoever holds the lease.
Release(n) == lease' = [lease EXCEPT ![n] = None] /\ UNCHANGED <<expired, unreleased>>
Unreleased(r) ==
    /\ unreleased' = unreleased \union {r}
    /\ UNCHANGED <<lease, expired>>

\* The time to live is over.  AcquireRemediationLease sweeps such a row and
\* CountTenantLeases skips it, so it is no lease any more.
LeaseExpires(n) ==
    /\ lease[n] # None
    /\ expired' = expired \union {lease[n]}
    /\ lease' = [lease EXCEPT ![n] = None]
    /\ UNCHANGED <<workVars, target, dispatch, unreleased, rowVars, stepVars, faults>>

-----------------------------------------------------------------------------
(* The dispatcher: dispatchRemediationTask, handleExecuteRemediationScript.  *)

Go(r, to) == dispatch' = [dispatch EXCEPT ![r] = to]

\* The cap is read before the job row is created.  If it cannot be read an automatic
\* remediation goes on and a manual one is refused.
Count(r) ==
    /\ stopping = None /\ dispatch[r] = "idle"
    /\ \/ /\ \/ Cardinality({n \in Nodes : lease[n] # None}) < Cap /\ UNCHANGED faults
             \/ r \in Automatic /\ Fault
          /\ row' = [row EXCEPT ![Execute[r]] = "queued"]
          /\ Go(r, "counted")
       \/ /\ \/ Cardinality({n \in Nodes : lease[n] # None}) >= Cap /\ UNCHANGED faults
             \/ Fault
          /\ Go(r, "over")
          /\ UNCHANGED row
    /\ UNCHANGED <<workVars, target, leaseVars, unrecorded, stepVars>>

\* Fault: a lease that is held is taken over.
AcquireAnyway(r) ==
    /\ Up /\ dispatch[r] = "counted"
    /\ lease' = [lease EXCEPT ![target[r]] = r]
    /\ Go(r, "leased")
    /\ UNCHANGED <<workVars, target, expired, unreleased, rowVars, stepVars, faults>>

\* Fault: a dispatcher that found the lease held cleans up behind itself.
AcquireCleansUp(r) ==
    /\ Up /\ dispatch[r] = "counted"
    /\ \/ /\ lease[target[r]] = None
          /\ lease' = [lease EXCEPT ![target[r]] = r]
          /\ Go(r, "leased")
          /\ UNCHANGED rowVars
       \/ /\ lease[target[r]] # None
          /\ Write(Execute[r], "ended")
          /\ lease' = [lease EXCEPT ![target[r]] = None]
          /\ Go(r, "over")
    /\ UNCHANGED <<workVars, target, expired, unreleased, stepVars, faults>>

\* AcquireRemediationLease, or the job is cancelled.  A commit whose answer was lost
\* leaves a lease that its dispatcher does not know of.
Acquire(r) ==
    LET Grant == lease[target[r]] = None /\ lease' = [lease EXCEPT ![target[r]] = r]
    IN  /\ Up /\ dispatch[r] = "counted"
        /\ \/ Grant /\ Go(r, "leased") /\ UNCHANGED <<unreleased, rowVars, faults>>
           \/ /\ lease[target[r]] # None /\ Write(Execute[r], "ended")
              /\ Go(r, "over") /\ UNCHANGED <<lease, unreleased, faults>>
           \/ /\ Fault /\ (Write(Execute[r], "ended") \/ Unwritten(Execute[r]))
              /\ \/ UNCHANGED <<lease, unreleased>>
                 \/ Grant /\ unreleased' = unreleased \union {r}
              /\ Go(r, "over")
        /\ UNCHANGED <<workVars, target, expired, stepVars>>

Enqueue(r) ==
    /\ dispatch[r] = "leased"
    /\ Check(Execute[r])
    /\ Go(r, IF started THEN "offering" ELSE "refused")
    /\ UNCHANGED <<target, leaseVars, rowVars, stepVars, faults>>

\* net/http recovers the panic of a send on the closed queue: the handler ends there.
OfferExecute(r) ==
    /\ dispatch[r] = "offering"
    /\ Offer(Execute[r])
    /\ Go(r, IF call'[Execute[r]] = "refused" THEN "refused" ELSE "over")
    /\ UNCHANGED <<target, leaseVars, rowVars, stepVars, faults>>

\* The job row is failed and the lease released.  An error of either is ignored; a
\* client that disconnected cancels both.
NotEnqueued(r) ==
    /\ Up /\ dispatch[r] = "refused"
    /\ \/ Write(Execute[r], "ended") /\ Release(target[r]) /\ UNCHANGED faults
       \/ Fault /\ Unwritten(Execute[r]) /\ (Release(target[r]) \/ Unreleased(r))
       \/ Fault /\ Write(Execute[r], "ended") /\ Unreleased(r)
    /\ Go(r, "over")
    /\ UNCHANGED <<workVars, target, stepVars>>

-----------------------------------------------------------------------------
(* The job of a task: buildRemediationJobExecution for a script and its    *)
(* rollback, inside chainRemediationExecution for a script, and            *)
(* buildComplianceVerifyJob.                                               *)

At(w, s) == place[w] = "job" /\ step[w] = s
Step(w, s) == step' = [step EXCEPT ![w] = s] /\ UNCHANGED <<child, workVars>>

\* The job returns to executeTask.
Return(w, ok) ==
    /\ JobReturns(w, ok)
    /\ step' = [step EXCEPT ![w] = None]
    /\ child' = [child EXCEPT ![w] = None]

\* The inner job returns: to the chain if it is a script's.
InnerReturns(w, ok) ==
    IF IsExecute(hand[w]) THEN Step(w, IF ok THEN "done" ELSE "broke") ELSE Return(w, ok)

Begin(w) ==
    /\ CallJob(w)
    /\ step' = [step EXCEPT ![w] = "start"]
    /\ UNCHANGED <<target, dispatch, leaseVars, rowVars, child, faults>>

\* The job row is set running.
Start(w) ==
    /\ At(w, "start")
    /\ \/ JobWorks /\ Write(hand[w], "running") /\ Step(w, "run")
       \/ JobFault /\ Unwritten(hand[w]) /\ InnerReturns(w, FALSE)
    /\ UNCHANGED <<target, dispatch, leaseVars>>

\* The script has run and its result is written.  A script that exits non-zero fails
\* its row but not its job; an error of the engine fails both; and so does a result
\* that cannot be written, although the script ran.
ScriptEnds(w) ==
    /\ At(w, "run") /\ ~IsVerify(hand[w])
    /\ \/ \E ok \in BOOLEAN : JobWorks /\ Write(hand[w], "ended") /\ InnerReturns(w, ok)
       \/ JobFault /\ Unwritten(hand[w]) /\ InnerReturns(w, FALSE)
    /\ UNCHANGED <<target, dispatch, leaseVars>>

\* Fault: a verification that could not be evaluated returns before it is recorded.
VerifyEndsUnrecorded(w) ==
    /\ At(w, "run") /\ IsVerify(hand[w])
    /\ JobWorks
    /\ \/ Return(w, FALSE) /\ UNCHANGED rowVars
       \/ Write(hand[w], "ended") /\ Return(w, TRUE)
    /\ UNCHANGED <<target, dispatch, leaseVars>>

\* The rule is evaluated again.  The row of a verification succeeds whatever it found.
VerifyEnds(w) ==
    /\ At(w, "run") /\ IsVerify(hand[w])
    /\ \/ JobWorks /\ Write(hand[w], "ended") /\ Return(w, FALSE)
       \/ JobFault /\ Unwritten(hand[w]) /\ Return(w, FALSE)
       \/ \E passed \in BOOLEAN :
             /\ JobWorks /\ Write(hand[w], "ended")
             /\ IF passed \/ RequestOf(hand[w]) \notin Reversible
                THEN Return(w, TRUE)
                ELSE Step(w, "rollback")
    /\ UNCHANGED <<target, dispatch, leaseVars>>

Chained(w) ==
    LET r == RequestOf(hand[w]) IN
    IF r \in Automatic /\ (At(w, "done") \/ r \in Reversible)
    THEN Step(w, IF At(w, "done") THEN "verify" ELSE "rollback")
    ELSE Return(w, At(w, "done"))

\* Fault: only a script that succeeded gives its lease back.
ReleaseIfDone(w) ==
    /\ At(w, "done") \/ At(w, "broke")
    /\ JobWorks
    /\ IF At(w, "done") THEN Release(NodeOf(hand[w])) ELSE UNCHANGED leaseVars
    /\ Chained(w)
    /\ UNCHANGED <<target, dispatch, rowVars>>

\* The lease of the node is released after every attempt, whatever became of it.
ReleaseLease(w) ==
    /\ At(w, "done") \/ At(w, "broke")
    /\ \/ JobWorks /\ Release(NodeOf(hand[w]))
       \/ JobFault /\ Unreleased(RequestOf(hand[w]))
    /\ Chained(w)
    /\ UNCHANGED <<target, dispatch, rowVars>>

Children(w) ==
    LET r == RequestOf(hand[w])
    IN  IF step[w] = "verify" THEN {Verify[r]} ELSE Rollbacks[r]

\* After a failed script the job fails too, so that the script is tried again.
ChainResult(w) == ~(IsExecute(hand[w]) /\ (step[w] = "rollback" \/ child[w] \in
                        Rollbacks[RequestOf(hand[w])]))

\* enqueueComplianceVerify, enqueueRemediationRollback: the row of the child is
\* created and the child is offered to the queue this goroutine serves.
Follow(w) ==
    /\ place[w] = "job" /\ step[w] \in {"verify", "rollback"}
    /\ \/ /\ JobWorks
          /\ \E t \in Children(w) :
                /\ Check(t)
                /\ row' = [row EXCEPT ![t] = "queued"]
                /\ child' = [child EXCEPT ![w] = t]
          /\ step' = [step EXCEPT ![w] = IF started THEN "offer" ELSE "back"]
       \/ JobFault /\ Return(w, ChainResult(w)) /\ UNCHANGED row
    /\ UNCHANGED <<target, dispatch, leaseVars, unrecorded>>

OfferChild(w) ==
    /\ At(w, "offer")
    /\ Offer(child[w])
    /\ call'[child[w]] # "panicked"
    /\ step' = [step EXCEPT ![w] = "back"]
    /\ UNCHANGED <<target, dispatch, leaseVars, rowVars, child, faults>>

\* An error of Enqueue is logged, and the job returns what it would have anyway.
Finished(w) ==
    /\ At(w, "back")
    /\ IF call[child[w]] # "refused"
       THEN UNCHANGED <<rowVars, faults>>
       ELSE \/ JobWorks /\ Write(child[w], "ended")
            \/ JobFault /\ Unwritten(child[w])
    /\ Return(w, ChainResult(w))
    /\ UNCHANGED <<target, dispatch, leaseVars>>

-----------------------------------------------------------------------------
(* The steps of the manager that touch nothing else, and the end of the    *)
(* process, which also ends the dispatchers.                               *)

Manage ==
    /\ \/ \E t \in Tasks : ProcessAtComes(t)
       \/ \E w \in Workers :
             Take(w) \/ Quit(w) \/ Sleep(w) \/ SleepEnds(w) \/ Retry(w) \/ RetryCancelled(w)
       \/ Signal \/ StopFlags \/ StopCloses \/ StopReturns \/ Restart
    /\ UNCHANGED chainVars

\* Nothing recovers the panic of a goroutine that sends on the closed queue.
ChildPanics(w) ==
    /\ At(w, "offer") /\ ~open
    /\ ProcessEnds /\ UNCHANGED stops

Dies ==
    /\ Exit \/ Kill \/ \E w \in Workers : ChildPanics(w)
    /\ dispatch' = [r \in Requests |-> IF dispatch[r] = "idle" THEN "idle" ELSE "over"]
    /\ step' = [w \in Workers |-> None]
    /\ child' = [w \in Workers |-> None]
    /\ UNCHANGED <<target, leaseVars, rowVars, faults>>

Works(w) ==
    \/ Begin(w) \/ Start(w) \/ ScriptEnds(w) \/ VerifyEnds(w)
    \/ ReleaseLease(w) \/ Follow(w) \/ OfferChild(w) \/ Finished(w)

Dispatches(r) ==
    Count(r) \/ Acquire(r) \/ Enqueue(r) \/ OfferExecute(r) \/ NotEnqueued(r)

RemediationNext ==
    \/ \E r \in Requests : Dispatches(r)
    \/ \E w \in Workers : Works(w)
    \/ \E n \in Nodes : LeaseExpires(n)
    \/ Manage \/ Dies

RemediationSpec == RemediationInit /\ [][RemediationNext]_remediationVars

-----------------------------------------------------------------------------
(* What must hold, next to OnePlacePerTask and StopSettles.                *)

InScript(w) == At(w, "run") /\ ~IsVerify(hand[w])

\* Did a request outlive its lease: by time, or by a second attempt?
Late(r) == r \in expired \/ calls[Execute[r]] > 1

\* "Serialises remediation jobs to one-in-flight per node" (the lease table): two
\* scripts run on a node at once only if one is a rollback, which takes no lease, or
\* if a request on that node outlived its lease.
SerialPerNode ==
    \A v, w \in Workers :
        v # w /\ InScript(v) /\ InScript(w) /\ NodeOf(hand[v]) = NodeOf(hand[w]) =>
            \/ ~IsExecute(hand[v]) /\ RequestOf(hand[v]) # RequestOf(hand[w])
            \/ ~IsExecute(hand[w]) /\ RequestOf(hand[v]) # RequestOf(hand[w])
            \/ \E r \in Requests : target[r] = NodeOf(hand[v]) /\ Late(r)

\* A release deletes by node, yet a lease goes only at the hand of its own request, or
\* of one on that node that outlived its lease.
OnlyLateReleaseRobs ==
    [][\A n \in Nodes :
         LET r == lease[n] IN
         r # None /\ lease'[n] # r =>
            \/ r \in expired'
            \/ dispatch[r] = "refused"
            \/ \E w \in Workers : hand[w] = Execute[r] /\ step[w] \in {"done", "broke"}
            \/ \E q \in Requests \ {r} : target[q] = n /\ Late(q)]_remediationVars

\* A request holds a lease only while its dispatcher runs or its script is queued or
\* running.  What keeps one longer is a release that failed, a lease granted in a lost
\* answer, a dispatcher or a script that ended with its process or its manager, and a
\* delayed script that was given up in its sleep.
LeaseEndsWithJob ==
    \A n \in Nodes :
        LET r == lease[n]  t == Execute[r] IN
        r # None =>
            \/ r \in unreleased
            \/ dispatch[r] # "over"
            \/ call[t] = "accepted" /\ outcome[t] = None
            \/ stops > 0 /\ (call[t] # "accepted" \/ outcome[t] = "lost")
            \/ t \in Delayed /\ calls[t] = 0

\* The row of a task that ended says so, unless its last status could not be written
\* or its job was never called.
EndedIsRecorded ==
    \A t \in Tasks :
        outcome[t] \in {"done", "failed", "cancelled"} =>
            row[t] = "ended" \/ t \in unrecorded \/ calls[t] = 0
=============================================================================
