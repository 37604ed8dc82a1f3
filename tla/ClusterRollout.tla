-------------------------- MODULE ClusterRollout --------------------------
(***************************************************************************)
(* One rollout of a template over the members of a cluster, wave by wave.  *)
(* Two jobs drive it: advance starts a wave and applies the template to    *)
(* its members, gate_check looks at them until they pass or the wave has   *)
(* run too long.  Each ends by enqueueing at most one successor, so what   *)
(* runs is a set of chains; a chain begins with a request.  Operators      *)
(* abort, resume and edit the rollout meanwhile, and the cluster is scaled.*)
(*                                                                         *)
(* A row is read by one statement and written by another, with no          *)
(* condition on what was read: each is a step.  Jobs and their delays live *)
(* in the memory of the process (the worker's memory backend).             *)
(***************************************************************************)
EXTENDS Integers, FiniteSets

CONSTANTS
    Slots,         \* places in the order (role, position), each for one node
    Original,      \* the places filled when the rollout is created
    WaveSize,
    MaxRequests,   \* bound on the requests of operators
    MaxFaults,     \* bound on statements, enqueues and processes that fail
    MaxScales      \* bound on members that join or leave

ASSUME ClusterRolloutAssumption ==
    /\ IsFiniteSet(Slots) /\ Slots \subseteq Nat /\ Original \subseteq Slots
    /\ WaveSize \in Nat \ {0}
    /\ {MaxRequests, MaxFaults, MaxScales} \subseteq Nat

VARIABLES
    state,       \* cluster_rollouts.state, "none" before the row exists
    current,     \* cluster_rollouts.current_wave
    wave,        \* state of the wave rows, "none" if there is none
    checked,     \* member_ids of the wave rows
    overdue,     \* waves whose started_at is a gate timeout ago
    members,     \* places that hold a member
    chain,       \* the job of a chain: where it is, its wave and its members
    request,     \* where a request is, the wave it read or names, the status it asks
    passed,      \* waves whose gate has passed
    applied,     \* members the template was applied to
    vouched,     \* members a gate has passed for
    gone,        \* members that left
    still,       \* was the rollout aborted with nothing else under way?
    edited,      \* did an operator set the status of a wave?
    crossed,     \* did two resumes overlap?
    faults, scales

rolloutVars == <<state, current>>
waveVars == <<wave, checked, overdue>>
nodeVars == <<applied, vouched>>
memberVars == <<members, gone, scales>>
history == <<still, edited, crossed>>
vars == <<rolloutVars, waveVars, chain, request, passed, nodeVars, memberVars, history, faults>>

\* One past the last wave that can have members.
Waves == 0 .. Cardinality(Slots)
Requests == 1 .. MaxRequests
Chains == 1 .. MaxRequests
WaveStates == {"running", "healthy", "unhealthy", "aborted"}
Ended == {"aborted", "completed"}
Queued == {"advance", "gate"}
Free == [at |-> "free", wave |-> 0, batch |-> {}]
Idle == [at |-> "idle", wave |-> 0, to |-> "running"]

TypeOK ==
    /\ state \in {"none", "pending", "running", "halted"} \cup Ended
    /\ current \in Waves
    /\ wave \in [Waves -> WaveStates \cup {"none"}]
    /\ checked \in [Waves -> SUBSET Slots]
    /\ overdue \subseteq Waves
    /\ chain \in [Chains -> [at : {"free", "finish", "flip", "seek", "reset", "create", "apply",
                                   "check", "pass", "point", "fail", "halt"} \cup Queued,
                             wave : Waves, batch : SUBSET Slots]]
    /\ request \in [Requests -> [at : {"new", "idle", "launch", "abort", "sweep", "strike",
                                       "resume", "edit", "mirror"},
                                 wave : Waves, to : WaveStates \ {"healthy"}]]
    /\ members \subseteq Slots /\ gone \subseteq Slots \ members
    /\ passed \subseteq Waves /\ applied \subseteq Slots /\ vouched \subseteq Slots
    /\ {still, edited, crossed} \subseteq BOOLEAN
    /\ faults \in 0 .. MaxFaults /\ scales \in 0 .. MaxScales
    /\ \A n \in Waves : wave[n] = "none" => checked[n] = {} /\ n \notin overdue

Init ==
    /\ state = "none" /\ current = 0
    /\ wave = [n \in Waves |-> "none"] /\ checked = [n \in Waves |-> {}] /\ overdue = {}
    /\ members = Original /\ gone = {} /\ scales = 0
    /\ chain = [c \in Chains |-> Free]
    /\ request = [r \in Requests |-> [Idle EXCEPT !.at = "new"]]
    /\ passed = {} /\ applied = {} /\ vouched = {}
    /\ still = FALSE /\ edited = FALSE /\ crossed = FALSE
    /\ faults = 0

-----------------------------------------------------------------------------
Live == {c \in Chains : chain[c].at # "free"}
Go(c, at) == chain' = [chain EXCEPT ![c].at = at]
Stop(c) == chain' = [chain EXCEPT ![c] = Free]
Ask(r, at) == request' = [request EXCEPT ![r].at = at]

Fails == faults < MaxFaults /\ faults' = faults + 1

\* A statement whose error is logged and otherwise ignored.
Logged(write, skip) == (write /\ UNCHANGED faults) \/ (skip /\ Fails)

\* The job rollouts end with: what it enqueues takes its place in the chain.
Enqueue(c, job, n) == chain' = [chain EXCEPT ![c] = [at |-> job, wave |-> n, batch |-> {}]]

\* members[start:end] of the wave, in their order.
Place(m) == Cardinality({k \in members : k < m})

\* Fault: the first member of the window is left out.
WindowLate(n) == {m \in members : n * WaveSize < Place(m) /\ Place(m) < (n + 1) * WaveSize}

Window(n) == {m \in members : n * WaveSize <= Place(m) /\ Place(m) < (n + 1) * WaveSize}

-----------------------------------------------------------------------------
(* buildClusterRolloutAdvanceJob                                           *)

\* Fault: the state of the rollout is not looked at.
AdvanceReadsOn(c) ==
    /\ chain[c].at = "advance"
    /\ LET batch == Window(chain[c].wave)
       IN  chain' = [chain EXCEPT ![c].at = IF batch = {} THEN "finish" ELSE "flip",
                                  ![c].batch = batch]
    /\ UNCHANGED <<rolloutVars, waveVars, request, passed, nodeVars, memberVars, history, faults>>

\* The rollout and the members are read.
AdvanceReads(c) ==
    /\ chain[c].at = "advance"
    /\ LET batch == Window(chain[c].wave)
       IN  IF state \in Ended
           THEN Stop(c)
           ELSE chain' = [chain EXCEPT ![c].at = IF batch = {} THEN "finish" ELSE "flip",
                                       ![c].batch = batch]
    /\ UNCHANGED <<rolloutVars, waveVars, request, passed, nodeVars, memberVars, history, faults>>

\* No members are left for this wave.
AdvanceFinishes(c) ==
    /\ chain[c].at = "finish"
    /\ Logged(state' = "completed", UNCHANGED state)
    /\ Stop(c)
    /\ UNCHANGED <<current, waveVars, request, passed, nodeVars, memberVars, history>>

AdvanceFlips(c) ==
    /\ chain[c].at = "flip"
    /\ Logged(state' = "running" /\ current' = chain[c].wave, UNCHANGED rolloutVars)
    /\ Go(c, "seek")
    /\ UNCHANGED <<waveVars, request, passed, nodeVars, memberVars, history>>

AdvanceSeeks(c) ==
    /\ chain[c].at = "seek"
    /\ Go(c, IF wave[chain[c].wave] = "none" THEN "create" ELSE "reset")
    /\ UNCHANGED <<rolloutVars, waveVars, request, passed, nodeVars, memberVars, history, faults>>

\* The row keeps its members and started_at.
AdvanceResets(c) ==
    /\ chain[c].at = "reset"
    /\ wave' = [wave EXCEPT ![chain[c].wave] = "running"]
    /\ Go(c, "apply")
    /\ UNCHANGED <<rolloutVars, checked, overdue, request, passed, nodeVars, memberVars,
                   history, faults>>

\* (rollout_id, wave_number) is unique: of two inserts the second fails, and its job.
AdvanceCreates(c) ==
    /\ chain[c].at = "create"
    /\ IF wave[chain[c].wave] = "none"
       THEN /\ wave' = [wave EXCEPT ![chain[c].wave] = "running"]
            /\ checked' = [checked EXCEPT ![chain[c].wave] = chain[c].batch]
            /\ Go(c, "apply")
       ELSE Stop(c) /\ UNCHANGED <<wave, checked>>
    /\ UNCHANGED <<rolloutVars, overdue, request, passed, nodeVars, memberVars, history, faults>>

\* Fault: the wave's gate is never looked at.
AdvanceAppliesOnly(c) ==
    /\ chain[c].at = "apply"
    /\ applied' = applied \cup chain[c].batch
    /\ Stop(c)
    /\ UNCHANGED <<rolloutVars, waveVars, request, passed, vouched, memberVars, history, faults>>

\* Whether the adapter succeeds is only counted; the gate check follows its delay.
AdvanceApplies(c) ==
    /\ chain[c].at = "apply"
    /\ applied' = applied \cup chain[c].batch
    /\ Enqueue(c, "gate", chain[c].wave)
    /\ UNCHANGED <<rolloutVars, waveVars, request, passed, vouched, memberVars, history, faults>>

-----------------------------------------------------------------------------
(* buildClusterRolloutGateCheckJob                                         *)

GateReads(c) ==
    /\ chain[c].at = "gate"
    /\ IF state = "aborted" THEN Stop(c) ELSE Go(c, "check")
    /\ UNCHANGED <<rolloutVars, waveVars, request, passed, nodeVars, memberVars, history, faults>>

\* Nothing the gate looks at is in the rollout: it may pass or not.
GateChecks(c) ==
    /\ chain[c].at = "check"
    /\ LET n == chain[c].wave
       IN  \/ /\ wave[n] # "running"
              /\ Stop(c)
              /\ UNCHANGED <<passed, vouched>>
           \/ /\ wave[n] = "running"
              /\ passed' = passed \cup {n}
              /\ vouched' = vouched \cup checked[n]
              /\ Go(c, "pass")
           \/ /\ wave[n] = "running"
              /\ IF n \in overdue THEN Go(c, "fail") ELSE Enqueue(c, "gate", n)
              /\ UNCHANGED <<passed, vouched>>
    /\ UNCHANGED <<rolloutVars, waveVars, request, applied, memberVars, history, faults>>

GateMarksHealthy(c) ==
    /\ chain[c].at = "pass"
    /\ Logged(wave' = [wave EXCEPT ![chain[c].wave] = "healthy"], UNCHANGED wave)
    /\ Go(c, "point")
    /\ UNCHANGED <<rolloutVars, checked, overdue, request, passed, nodeVars, memberVars, history>>

\* The pointer moves on and the next advance is enqueued.
GatePoints(c) ==
    /\ chain[c].at = "point"
    /\ LET next == chain[c].wave + 1
       IN  Logged(current' = next, UNCHANGED current) /\ Enqueue(c, "advance", next)
    /\ UNCHANGED <<state, waveVars, request, passed, nodeVars, memberVars, history>>

GateMarksUnhealthy(c) ==
    /\ chain[c].at = "fail"
    /\ Logged(wave' = [wave EXCEPT ![chain[c].wave] = "unhealthy"], UNCHANGED wave)
    /\ Go(c, "halt")
    /\ UNCHANGED <<rolloutVars, checked, overdue, request, passed, nodeVars, memberVars, history>>

\* Fault: the gate check is enqueued again although it has halted the rollout.
GateHaltsNot(c) ==
    /\ chain[c].at = "halt"
    /\ Logged(state' = "halted", UNCHANGED state)
    /\ Enqueue(c, "gate", chain[c].wave)
    /\ UNCHANGED <<current, waveVars, request, passed, nodeVars, memberVars, history>>

GateHalts(c) ==
    /\ chain[c].at = "halt"
    /\ Logged(state' = "halted", UNCHANGED state)
    /\ Stop(c)
    /\ UNCHANGED <<current, waveVars, request, passed, nodeVars, memberVars, history>>

JobStep(c) ==
    \/ AdvanceReads(c) \/ AdvanceFinishes(c) \/ AdvanceFlips(c) \/ AdvanceSeeks(c)
    \/ AdvanceResets(c) \/ AdvanceCreates(c) \/ AdvanceApplies(c)
    \/ GateReads(c) \/ GateChecks(c) \/ GateMarksHealthy(c) \/ GatePoints(c)
    \/ GateMarksUnhealthy(c) \/ GateHalts(c)

-----------------------------------------------------------------------------
(* The requests of operators.  They have no identity: they come in turn.   *)

Comes(r) == request[r].at = "new" /\ \A q \in 1 .. r - 1 : request[q].at # "new"
Others(r) == {request[q].at : q \in Requests \ {r}} \ {"new", "idle"}

Create(r) ==
    /\ Comes(r) /\ state = "none"
    /\ state' = "pending" /\ current' = 0
    /\ Ask(r, "launch")
    /\ UNCHANGED <<waveVars, chain, passed, nodeVars, memberVars, history, faults>>

\* enqueueClusterRolloutAdvance, for a rollout that is created or resumed
Launch(r) ==
    /\ request[r].at = "launch"
    /\ \E c \in Chains :
          /\ chain[c].at = "free" /\ \A d \in 1 .. c - 1 : d \in Live
          /\ Enqueue(c, "advance", request[r].wave)
    /\ request' = [request EXCEPT ![r] = Idle]
    /\ UNCHANGED <<rolloutVars, waveVars, passed, nodeVars, memberVars, history, faults>>

AbortReads(r) ==
    /\ Comes(r) /\ state \notin Ended \cup {"none"}
    /\ request' = [request EXCEPT ![r] = [Idle EXCEPT !.at = "abort", !.wave = current]]
    /\ UNCHANGED <<rolloutVars, waveVars, chain, passed, nodeVars, memberVars, history, faults>>

\* Nothing else is past the point where it would have seen the abort.
AbortWrites(r) ==
    /\ request[r].at = "abort"
    /\ state' = "aborted"
    /\ still' = /\ Others(r) = {} /\ \A c \in Live : chain[c].at \in Queued
                /\ request[r].wave = current
    /\ Ask(r, "sweep")
    /\ UNCHANGED <<current, waveVars, chain, passed, nodeVars, memberVars, edited, crossed, faults>>

\* Fault: the wave of the abort is not looked for.
AbortSweepsNot(r) ==
    /\ request[r].at = "sweep"
    /\ request' = [request EXCEPT ![r] = Idle]
    /\ UNCHANGED <<rolloutVars, waveVars, chain, passed, nodeVars, memberVars, history, faults>>

AbortSweeps(r) ==
    /\ request[r].at = "sweep"
    /\ IF wave[request[r].wave] = "running"
       THEN Ask(r, "strike")
       ELSE request' = [request EXCEPT ![r] = Idle]
    /\ UNCHANGED <<rolloutVars, waveVars, chain, passed, nodeVars, memberVars, history, faults>>

AbortStrikes(r) ==
    /\ request[r].at = "strike"
    /\ wave' = [wave EXCEPT ![request[r].wave] = "aborted"]
    /\ request' = [request EXCEPT ![r] = Idle]
    /\ UNCHANGED <<rolloutVars, checked, overdue, chain, passed, nodeVars, memberVars, history,
                   faults>>

ResumeReads(r) ==
    /\ Comes(r) /\ state = "halted"
    /\ request' = [request EXCEPT ![r] = [Idle EXCEPT !.at = "resume", !.wave = current]]
    /\ crossed' = (crossed \/ "resume" \in Others(r))
    /\ UNCHANGED <<rolloutVars, waveVars, chain, passed, nodeVars, memberVars, still, edited, faults>>

\* Fault: the wave after the one that was halted is resumed.
ResumeWritesNext(r) ==
    /\ request[r].at = "resume"
    /\ state' = "running"
    /\ request' = [request EXCEPT ![r].at = "launch", ![r].wave = @ + 1]
    /\ UNCHANGED <<current, waveVars, chain, passed, nodeVars, memberVars, history, faults>>

ResumeWrites(r) ==
    /\ request[r].at = "resume"
    /\ state' = "running"
    /\ Ask(r, "launch")
    /\ UNCHANGED <<current, waveVars, chain, passed, nodeVars, memberVars, history, faults>>

\* handleUpdateRolloutWave: a status for the wave, and one for the rollout
EditWave(r) ==
    /\ Comes(r)
    /\ \E n \in Waves, to \in {"running", "unhealthy", "aborted"} :
          /\ wave[n] # "none"
          /\ wave' = [wave EXCEPT ![n] = to]
          /\ request' = [request EXCEPT ![r] = [at |-> "mirror", wave |-> n, to |-> to]]
    /\ edited' = TRUE /\ still' = FALSE
    /\ UNCHANGED <<rolloutVars, checked, overdue, chain, passed, nodeVars, memberVars, crossed,
                   faults>>

EditRollout(r) ==
    /\ request[r].at = "mirror"
    /\ state' = CASE request[r].to = "running" -> "running"
                  [] request[r].to = "unhealthy" -> "halted"
                  [] request[r].to = "aborted" -> "aborted"
    /\ request' = [request EXCEPT ![r] = Idle]
    /\ UNCHANGED <<current, waveVars, chain, passed, nodeVars, memberVars, history, faults>>

Arrive(r) == Create(r) \/ AbortReads(r) \/ ResumeReads(r) \/ EditWave(r)
RequestStep(r) ==
    \/ Launch(r) \/ AbortWrites(r) \/ AbortSweeps(r) \/ AbortStrikes(r)
    \/ ResumeWrites(r) \/ EditRollout(r)

-----------------------------------------------------------------------------
(* What happens to them all.                                               *)

\* A statement fails whose error the request or the job returns.
RequestFails(r) ==
    /\ request[r].at \notin {"new", "idle"}
    /\ Fails
    /\ request' = [request EXCEPT ![r] = Idle]
    /\ UNCHANGED <<rolloutVars, waveVars, chain, passed, nodeVars, memberVars, history>>

\* The queue is full, the manager stops, or a statement fails.
JobEnds(c) ==
    /\ c \in Live
    /\ Fails
    /\ Stop(c)
    /\ UNCHANGED <<rolloutVars, waveVars, request, passed, nodeVars, memberVars, history>>

Restart ==
    /\ Fails
    /\ chain' = [c \in Chains |-> Free]
    /\ request' = [r \in Requests |-> IF request[r].at = "new" THEN request[r] ELSE Idle]
    /\ UNCHANGED <<rolloutVars, waveVars, passed, nodeVars, memberVars, history>>

TimePasses(n) ==
    /\ wave[n] # "none" /\ n \notin overdue
    /\ overdue' = overdue \cup {n}
    /\ UNCHANGED <<rolloutVars, wave, checked, chain, request, passed, nodeVars, memberVars,
                   history, faults>>

\* Scale jobs and the deletion of nodes; a place that was left is not filled again.
MemberJoins(m) ==
    /\ scales < MaxScales /\ scales' = scales + 1
    /\ m \notin members \cup gone
    /\ members' = members \cup {m}
    /\ UNCHANGED <<rolloutVars, waveVars, chain, request, passed, nodeVars, gone, history, faults>>

\* Fault: the row of a member that is gone is kept.
MemberLeavesRow(m) ==
    /\ scales < MaxScales /\ scales' = scales + 1
    /\ m \in members
    /\ gone' = gone \cup {m}
    /\ UNCHANGED <<rolloutVars, waveVars, chain, request, passed, nodeVars, members, history,
                   faults>>

MemberLeaves(m) ==
    /\ scales < MaxScales /\ scales' = scales + 1
    /\ m \in members
    /\ members' = members \ {m} /\ gone' = gone \cup {m}
    /\ UNCHANGED <<rolloutVars, waveVars, chain, request, passed, nodeVars, history, faults>>

Next ==
    \/ \E c \in Chains : JobStep(c) \/ JobEnds(c)
    \/ \E r \in Requests : Arrive(r) \/ RequestStep(r) \/ RequestFails(r)
    \/ Restart
    \/ \E n \in Waves : TimePasses(n)
    \/ \E m \in Slots : MemberJoins(m) \/ MemberLeaves(m)

Spec == Init /\ [][Next]_vars

\* Workers run what is queued, handlers go on, and time passes.  No operator, fault or
\* change of the cluster ever has to come.
Fairness ==
    /\ \A c \in Chains : WF_vars(JobStep(c))
    /\ \A r \in Requests : WF_vars(RequestStep(r))
    /\ \A n \in Waves : WF_vars(TimePasses(n))
FairSpec == Spec /\ Fairness

-----------------------------------------------------------------------------
(* No wave begins before the gate of every wave before it has passed,      *)
(* whatever is aborted, resumed, edited, lost or run twice: the pointer    *)
(* that a resume reads and the number a gate passes on never skip a wave.  *)
WavesInOrder ==
    \A n \in Waves : wave[n] # "none" => 0 .. n - 1 \subseteq passed

(* A rollout that completes has applied the template to every member it    *)
(* began with, and a gate has passed for it, unless a member before it     *)
(* left: the windows are cut anew from the members of the moment, and a    *)
(* member that moves up into a window already rolled is passed over.       *)
NoMemberOvertaken ==
    state = "completed" =>
        \A m \in Original \cap members :
            \/ m \in applied \cap vouched
            \/ \E k \in gone : k < m

(* One job at a time works on the rollout, and one wave at a time runs,    *)
(* unless two resumes read it halted before either wrote, or an operator   *)
(* set the status of a wave under a running job.  A lost update of a wave  *)
(* row may leave an earlier wave running as well.                          *)
OneChain ==
    \/ crossed \/ edited
    \/ /\ Cardinality(Live) <= 1
       /\ faults = 0 => Cardinality({n \in Waves : wave[n] = "running"}) <= 1

(* An abort that no job and no request crosses stays: from then on the     *)
(* rollout is aborted and the template is applied to no further member.    *)
QuietAbortHolds ==
    [][still /\ still' => state' = "aborted" /\ applied' = applied]_vars

(* Such an abort leaves no wave running once its request is through.       *)
AbortStopsWave ==
    still /\ faults = 0 /\ ~crossed /\ ~edited =>
        \/ \E r \in Requests : request[r].at \in {"sweep", "strike"}
        \/ \A n \in Waves : wave[n] # "running"

(* A rollout that has begun settles - it completes, halts or is aborted -  *)
(* if no step of it fails and no operator edits its waves, except that an  *)
(* abort which crosses an advance may mark the wave and lose the rollout's *)
(* own state: that one says running for ever.                              *)
RolloutSettles ==
    state \in {"pending", "running"} ~>
        \/ state \in {"halted", "completed", "aborted"}
        \/ faults > 0 \/ edited
        \/ \E n \in Waves : wave[n] = "aborted"
=============================================================================
