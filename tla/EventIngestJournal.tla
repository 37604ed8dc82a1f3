------------------------- MODULE EventIngestJournal -------------------------
(***************************************************************************)
(* The control plane's event ingest journal: the table                     *)
(* event_ingest_batches, the request handlers that write a batch to it     *)
(* before fanning it out (handleEventsIngest), and the drainers that       *)
(* replay the rows a handler did not finish (EventIngestReplayScheduler).  *)
(*                                                                         *)
(* A batch is known by its replay key: the agent derives the key from the  *)
(* events, so every re-post of a batch carries the same key.  Each step    *)
(* below is one call a process makes to Postgres, to Doris or to its       *)
(* client; other processes run between two calls, and a replica may die    *)
(* between two calls.                                                      *)
(***************************************************************************)
EXTENDS Integers, FiniteSets, Sequences

CONSTANTS
    Keys,            \* replay keys, one per batch the agents hold
    Ids,             \* journal row ids (uuid.New), never reused
    KeyOf,           \* the key each id is generated for, when it is
    Handlers,        \* goroutines serving POST /api/v1/events/ingest
    Drainers,        \* goroutines running a sweep of the replay scheduler
    Replicas,        \* control plane processes
    ReplicaOf,       \* the replica each goroutine runs in
    Tables,          \* the Doris tables, in the order they are loaded
    RawTables,       \* tables the events of a batch as posted go to
    FanoutTables,    \* tables the prepared events go to
    RawRows,         \* events in each batch as posted
    AddedRows,       \* security and anomaly events that preparing it adds
    MaxRows,         \* maxEventIngestRows
    SlowHandlers,    \* may a row turn 30s old while a goroutine works on it?
    MaxCrashes,      \* bound on replica crashes
    MaxFailures,     \* bound on failed Doris loads and failed journal writes
    NoId             \* the row of a goroutine that has none

Procs == Handlers \union Drainers

TableSet == {Tables[n] : n \in 1 .. Len(Tables)}

ASSUME ProcsAssumption ==
    /\ Handlers \intersect Drainers = {}
    /\ ReplicaOf \in [Procs -> Replicas]
    /\ KeyOf \in [Ids -> Keys]
    /\ NoId \notin Ids

ASSUME TablesAssumption ==
    /\ Tables \in Seq(TableSet)
    /\ RawTables \subseteq FanoutTables
    /\ FanoutTables \subseteq TableSet

ASSUME RowsAssumption ==
    /\ RawRows \in [Keys -> Nat]
    /\ AddedRows \in [Keys -> Nat]
    /\ MaxRows \in Nat
    /\ MaxCrashes \in Nat
    /\ MaxFailures \in Nat

-----------------------------------------------------------------------------
(* The journal and what Doris holds.  A row is "free" before its id is     *)
(* generated and "pruned" once the retention job has deleted it.           *)

Pending == {"received", "local_completed", "pending_doris"}
Statuses == Pending \union {"free", "accepted", "failed", "pruned"}

\* A payload is the body as posted or the prepared, normalized events.
Forms == {"raw", "fanout"}

Row == [status : Statuses, payload : Forms, due : BOOLEAN, aged : BOOLEAN]

PCs == {"idle", "apply", "markLocal", "flush", "markPending", "markFailed",
        "reply"}

VARIABLES
    journal,   \* row of each id
    labels,    \* Stream Load labels Doris has finished
    loads,     \* how often the rows of an id went into each Doris table
    applied,   \* how often the local side effects of an id ran
    lostLocal, \* ids some MarkEventIngestLocalComplete of which failed
    acked,     \* keys whose agent read a 2xx and may forget the batch
    pc, cur,   \* where each goroutine is, and the row it works on
    form,      \* the events it has in hand
    at,        \* the index of the table it loads next
    snap,      \* a drainer's rows of PendingEventIngestBatches still to do
    crashes, failures   \* faults so far

dorisVars == <<labels, loads>>
ghostVars == <<applied, lostLocal, acked>>
procVars == <<pc, cur, form, at, snap>>
faultVars == <<crashes, failures>>
vars == <<journal, dorisVars, ghostVars, procVars, faultVars>>

SnapRow == [id : Ids, status : Pending, payload : Forms]

TypeOK ==
    /\ journal \in [Ids -> Row]
    /\ labels \in SUBSET (TableSet \X Ids)
    /\ loads \in [Ids -> [TableSet -> Nat]]
    /\ applied \in [Ids -> Nat]
    /\ lostLocal \in SUBSET Ids
    /\ acked \in SUBSET Keys
    /\ pc \in [Procs -> PCs]
    /\ cur \in [Procs -> Ids \union {NoId}]
    /\ form \in [Procs -> Forms]
    /\ at \in [Procs -> 1 .. Len(Tables) + 1]
    /\ snap \in [Procs -> SUBSET SnapRow]
    /\ crashes \in Nat
    /\ failures \in Nat

Init ==
    /\ journal = [i \in Ids |-> [status |-> "free", payload |-> "raw",
                                 due |-> TRUE, aged |-> FALSE]]
    /\ labels = {}
    /\ loads = [i \in Ids |-> [t \in TableSet |-> 0]]
    /\ applied = [i \in Ids |-> 0]
    /\ lostLocal = {}
    /\ acked = {}
    /\ pc = [p \in Procs |-> "idle"]
    /\ cur = [p \in Procs |-> NoId]
    /\ form = [p \in Procs |-> "raw"]
    /\ at = [p \in Procs |-> 1]
    /\ snap = [p \in Procs |-> {}]
    /\ crashes = 0
    /\ failures = 0

-----------------------------------------------------------------------------
(* What the code computes from a row.                                      *)

\* The row of the journal, if there is one: UPDATE ... WHERE id finds it.
Exists(i) == journal[i].status \notin {"free", "pruned"}

\* ON CONFLICT on the unique index over the replay key.
KeyInJournal(k) == \E i \in Ids : KeyOf[i] = k /\ Exists(i)

TablesOf(f) == IF f = "raw" THEN RawTables ELSE FanoutTables

\* decodeIngestedEventPayload refuses a payload of more than MaxRows rows.
Decodes(k, f) ==
    RawRows[k] + (IF f = "fanout" THEN AddedRows[k] ELSE 0) =< MaxRows

\* Fault: a label that also names the process, as Writer.makeLabel's do.
LabelPerProcess(p, t) == <<t, cur[p], p>>

\* doris.LabelFor: the label names the table and the row, not the attempt.
LabelFor(p, t) == <<t, cur[p]>>

\* Faults: the query selects whatever the status, rows just received, or misses
\* the rows completed locally.
IsDueInAnyStatus(i) == Exists(i) /\ journal[i].aged /\ journal[i].due

IsDueAtOnce(i) == journal[i].status \in Pending /\ journal[i].due

IsDueUnlessLocal(i) ==
    /\ journal[i].status \in {"received", "pending_doris"}
    /\ journal[i].aged
    /\ journal[i].due

\* PendingEventIngestBatches.
IsDue(i) ==
    /\ journal[i].status \in Pending
    /\ journal[i].aged
    /\ journal[i].due

Update(i, st, pl, d) ==
    journal' = IF Exists(i)
               THEN [journal EXCEPT ![i] = [status |-> st, payload |-> pl,
                                            due |-> d, aged |-> @.aged]]
               ELSE journal

\* A handler answers once it is done with its row; a drainer takes its next.
Finish(p) ==
    /\ pc' = [pc EXCEPT ![p] = IF p \in Handlers THEN "reply" ELSE "idle"]
    /\ cur' = [cur EXCEPT ![p] = IF p \in Handlers THEN cur[p] ELSE NoId]
    /\ form' = [form EXCEPT ![p] = "raw"]
    /\ at' = [at EXCEPT ![p] = 1]
    /\ UNCHANGED snap

Goto(p, to) ==
    /\ pc' = [pc EXCEPT ![p] = to]
    /\ UNCHANGED <<cur, form, at, snap>>

Fail == failures < MaxFailures /\ failures' = failures + 1 /\ UNCHANGED crashes

-----------------------------------------------------------------------------
(* The request handler.                                                    *)

\* A batch whose key is not in the journal is written to it first.
Record(p, k, i) ==
    /\ p \in Handlers /\ pc[p] = "idle"
    /\ Decodes(k, "raw")
    /\ ~KeyInJournal(k)
    /\ KeyOf[i] = k /\ journal[i].status = "free"
    /\ journal' = [journal EXCEPT ![i].status = "received"]
    /\ pc' = [pc EXCEPT ![p] = "apply"]
    /\ cur' = [cur EXCEPT ![p] = i]
    /\ form' = [form EXCEPT ![p] = "fanout"]
    /\ at' = [at EXCEPT ![p] = 1]
    /\ UNCHANGED <<snap, dorisVars, ghostVars, faultVars>>

\* A batch the journal holds is answered with its stored receipt.
ReplayReceipt(p, k) ==
    /\ p \in Handlers /\ pc[p] = "idle"
    /\ Decodes(k, "raw")
    /\ KeyInJournal(k)
    /\ acked' = acked \union {k}
    /\ UNCHANGED <<journal, dorisVars, applied, lostLocal, procVars, faultVars>>

\* The response to a batch just recorded; it may not reach the agent.
Reply(p) ==
    /\ pc[p] = "reply"
    /\ pc' = [pc EXCEPT ![p] = "idle"]
    /\ cur' = [cur EXCEPT ![p] = NoId]
    /\ acked' \in {acked, acked \union {KeyOf[cur[p]]}}
    /\ UNCHANGED <<journal, dorisVars, applied, lostLocal, form, at, snap, faultVars>>

-----------------------------------------------------------------------------
(* The fan-out, common to handlers and drainers.                           *)

\* Rollups, detections and eventbus: an error is logged and not returned.
ApplyLocal(p) ==
    /\ pc[p] = "apply"
    /\ Goto(p, "markLocal")
    /\ \/ /\ applied' = [applied EXCEPT ![cur[p]] = @ + 1]
          /\ UNCHANGED faultVars
       \/ Fail /\ UNCHANGED applied
    /\ UNCHANGED <<journal, dorisVars, lostLocal, acked>>

\* MarkEventIngestLocalComplete; a failure is logged and the flush goes on.
MarkLocalComplete(p) ==
    /\ pc[p] = "markLocal"
    /\ Goto(p, "flush")
    /\ \/ /\ Update(cur[p], "local_completed", "fanout", TRUE)
          /\ UNCHANGED <<lostLocal, faultVars>>
       \/ /\ Fail
          /\ lostLocal' = lostLocal \union {cur[p]}
          /\ UNCHANGED journal
    /\ UNCHANGED <<dorisVars, applied, acked>>

\* A table the events in hand have no rows for is passed over.
SkipTable(p) ==
    /\ pc[p] = "flush" /\ at[p] =< Len(Tables)
    /\ Tables[at[p]] \notin TablesOf(form[p])
    /\ at' = [at EXCEPT ![p] = @ + 1]
    /\ UNCHANGED <<journal, dorisVars, ghostVars, pc, cur, form, snap, faultVars>>

\* One Stream Load. Doris runs a label once; answered for a finished label,
\* the load counts as accepted.
StreamLoad(p) ==
    LET t == Tables[at[p]]
    IN  /\ t \in TablesOf(form[p])
        /\ labels' = labels \union {LabelFor(p, t)}
        /\ loads' = IF LabelFor(p, t) \in labels THEN loads
                    ELSE [loads EXCEPT ![cur[p]][t] = @ + 1]

LoadTable(p) ==
    /\ pc[p] = "flush" /\ at[p] =< Len(Tables)
    /\ StreamLoad(p)
    /\ at' = [at EXCEPT ![p] = @ + 1]
    /\ UNCHANGED <<journal, ghostVars, pc, cur, form, snap, faultVars>>

\* Doris refuses the load, or loads the rows and the answer is lost: the
\* first error ends the flush.
LoadFails(p) ==
    /\ pc[p] = "flush" /\ at[p] =< Len(Tables)
    /\ Tables[at[p]] \in TablesOf(form[p])
    /\ StreamLoad(p) \/ UNCHANGED dorisVars
    /\ Goto(p, "markPending")
    /\ Fail
    /\ UNCHANGED <<journal, ghostVars>>

-----------------------------------------------------------------------------
(* MarkEventIngestStatus: an unconditional UPDATE of the row by its id.     *)
(* The payload column stays.                                               *)

MarkStatus(p, st, d) ==
    /\ \/ Update(cur[p], st, journal[cur[p]].payload, d) /\ UNCHANGED faultVars
       \/ Fail /\ UNCHANGED journal
    /\ Finish(p)
    /\ UNCHANGED <<dorisVars, ghostVars>>

\* Fault: the last table is taken for loaded.
MarkAcceptedEarly(p) ==
    /\ pc[p] = "flush" /\ at[p] = Len(Tables)
    /\ MarkStatus(p, "accepted", TRUE)

MarkAccepted(p) ==
    /\ pc[p] = "flush" /\ at[p] = Len(Tables) + 1
    /\ MarkStatus(p, "accepted", TRUE)

MarkPending(p) == pc[p] = "markPending" /\ MarkStatus(p, "pending_doris", FALSE)

MarkFailed(p) == pc[p] = "markFailed" /\ MarkStatus(p, "failed", TRUE)

-----------------------------------------------------------------------------
(* A drainer sweeps the rows that are due and replays them one by one, as   *)
(* it read them at the start of the sweep.                                 *)

SnapOf(i) == [id |-> i, status |-> journal[i].status, payload |-> journal[i].payload]

Sweep(d) ==
    /\ pc[d] = "idle" /\ snap[d] = {}
    /\ \E i \in Ids : IsDue(i)
    /\ snap' = [snap EXCEPT ![d] = {SnapOf(i) : i \in {j \in Ids : IsDue(j)}}]
    /\ UNCHANGED <<journal, dorisVars, ghostVars, pc, cur, form, at, faultVars>>

Take(d, s, to, f) ==
    /\ pc[d] = "idle" /\ s \in snap[d]
    /\ snap' = [snap EXCEPT ![d] = @ \ {s}]
    /\ cur' = [cur EXCEPT ![d] = s.id]
    /\ pc' = [pc EXCEPT ![d] = to]
    /\ form' = [form EXCEPT ![d] = f]
    /\ at' = [at EXCEPT ![d] = 1]
    /\ UNCHANGED <<journal, dorisVars, ghostVars, faultVars>>

\* Fault: the status of the row is not looked at.
ReplayWhatever(d, s) ==
    /\ Decodes(KeyOf[s.id], s.payload)
    /\ Take(d, s, "apply", "fanout")

\* A row never completed locally goes through the whole fan-out again.
Replay(d, s) ==
    /\ s.status = "received" /\ Decodes(KeyOf[s.id], s.payload)
    /\ Take(d, s, "apply", "fanout")

\* Any other row is flushed to Doris from its payload.
ReplayDorisOnly(d, s) ==
    /\ s.status # "received" /\ Decodes(KeyOf[s.id], s.payload)
    /\ Take(d, s, "flush", s.payload)

ReplayUndecodable(d, s) ==
    /\ ~Decodes(KeyOf[s.id], s.payload)
    /\ Take(d, s, "markFailed", s.payload)

-----------------------------------------------------------------------------
(* Time, retention and crashes.                                            *)

\* received_at falls behind the scheduler's cut-off.
Age(i) ==
    /\ Exists(i) /\ ~journal[i].aged
    /\ SlowHandlers \/ \A p \in Procs : cur[p] # i
    /\ journal' = [journal EXCEPT ![i].aged = TRUE]
    /\ UNCHANGED <<dorisVars, ghostVars, procVars, faultVars>>

\* next_attempt_at, the back-off of a pending_doris row, is reached.
Backoff(i) ==
    /\ Exists(i) /\ ~journal[i].due
    /\ journal' = [journal EXCEPT ![i].due = TRUE]
    /\ UNCHANGED <<dorisVars, ghostVars, procVars, faultVars>>

\* Fault: retention goes by the age alone.
PruneByAge(i) ==
    /\ Exists(i) /\ journal[i].aged
    /\ journal' = [journal EXCEPT ![i].status = "pruned"]
    /\ UNCHANGED <<dorisVars, ghostVars, procVars, faultVars>>

\* PruneAcceptedEventIngestBatches.
Prune(i) ==
    /\ journal[i].status = "accepted" /\ journal[i].aged
    /\ journal' = [journal EXCEPT ![i].status = "pruned"]
    /\ UNCHANGED <<dorisVars, ghostVars, procVars, faultVars>>

\* A replica dies: its goroutines are gone, Postgres and Doris keep theirs.
Crash(r) ==
    LET dead == {p \in Procs : ReplicaOf[p] = r}
    IN  /\ crashes < MaxCrashes
        /\ \E p \in dead : pc[p] # "idle" \/ snap[p] # {}
        /\ pc' = [p \in Procs |-> IF p \in dead THEN "idle" ELSE pc[p]]
        /\ cur' = [p \in Procs |-> IF p \in dead THEN NoId ELSE cur[p]]
        /\ form' = [p \in Procs |-> IF p \in dead THEN "raw" ELSE form[p]]
        /\ at' = [p \in Procs |-> IF p \in dead THEN 1 ELSE at[p]]
        /\ snap' = [p \in Procs |-> IF p \in dead THEN {} ELSE snap[p]]
        /\ crashes' = crashes + 1
        /\ UNCHANGED <<journal, dorisVars, ghostVars, failures>>

-----------------------------------------------------------------------------
FanoutStep(p) ==
    \/ ApplyLocal(p) \/ MarkLocalComplete(p)
    \/ SkipTable(p) \/ LoadTable(p) \/ LoadFails(p)
    \/ MarkAccepted(p) \/ MarkPending(p) \/ MarkFailed(p)

DrainStep(d) ==
    \/ Sweep(d)
    \/ \E s \in snap[d] : Replay(d, s) \/ ReplayDorisOnly(d, s) \/ ReplayUndecodable(d, s)

Next ==
    \/ \E p \in Handlers, k \in Keys : ReplayReceipt(p, k)
    \/ \E p \in Handlers, k \in Keys, i \in Ids : Record(p, k, i)
    \/ \E p \in Handlers : Reply(p)
    \/ \E p \in Procs : FanoutStep(p)
    \/ \E d \in Drainers : DrainStep(d)
    \/ \E i \in Ids : Age(i) \/ Backoff(i) \/ Prune(i)
    \/ \E r \in Replicas : Crash(r)

Spec == Init /\ [][Next]_vars

(* A goroutine that runs goes on running, the scheduler's ticker fires, and  *)
(* time passes.  Nothing obliges an agent to post or a replica to crash.     *)
Fairness ==
    /\ \A p \in Procs : WF_vars(FanoutStep(p))
    /\ \A p \in Handlers : WF_vars(Reply(p))
    /\ \A d \in Drainers : WF_vars(DrainStep(d))
    /\ \A i \in Ids : WF_vars(Age(i)) /\ WF_vars(Backoff(i))

FairSpec == Spec /\ Fairness

-----------------------------------------------------------------------------
(* What must hold.                                                         *)

\* Everything the row must bring to Doris is there.  Where the write of the
\* prepared payload failed, only the events as posted are promised.
Delivered(i) ==
    \A t \in IF i \in lostLocal THEN RawTables ELSE FanoutTables : loads[i][t] > 0

\* A batch the agent was told to forget is in the journal, or was pruned from
\* it after all its rows reached Doris (RecordEventIngest before the reply,
\* PruneAcceptedEventIngestBatches).
AckedMeansKept ==
    \A k \in acked : \E i \in Ids :
        KeyOf[i] = k /\ (Exists(i) \/ (journal[i].status = "pruned" /\ Delivered(i)))

\* A row marked accepted, by its handler or by any drainer with an old copy of
\* it, has all its rows in Doris: nothing takes it up again afterwards.
AcceptedMeansLoaded ==
    \A i \in Ids : journal[i].status \in {"accepted", "pruned"} => Delivered(i)

\* However often handlers and drainers load a row between time-outs, crashes and
\* overlapping sweeps, Doris takes its rows once per table (LabelFor).
LoadedAtMostOnce ==
    \A i \in Ids, t \in TableSet : loads[i][t] =< 1

\* Only a crash before MarkEventIngestLocalComplete, or the loss of that write and
\* of the one after it, makes the local side effects of a row run again: a re-post
\* of the batch does not, and neither does a Doris-only replay.
LocalEffectsBounded ==
    \A i \in Ids : applied[i] =< 1 + crashes + failures \div 2

\* When no goroutine outlives the cut-off and one drainer runs, an accepted row is
\* final: nobody puts it back among the rows to replay.
AcceptedIsFinal ==
    [][\A i \in Ids : journal[i].status \in {"accepted", "pruned"}
                        => journal'[i].status \in {"accepted", "pruned"}]_vars

\* A recorded row is settled in the end: the journal forgets none, whatever step
\* a crash or a failed write interrupted (PendingEventIngestBatches).
RecordedIsSettled ==
    \A i \in Ids : journal[i].status = "received" ~>
        \/ journal[i].status \in {"accepted", "pruned"}
        \/ journal[i].status = "failed" /\ ~Decodes(KeyOf[i], "fanout")

-----------------------------------------------------------------------------
(* What the comments claim and the code does not do.                       *)

\* "The journal lets a controlplane replica restart mid-flush without dropping a
\* batch" (0053_event_ingest.up.sql): no row leaves the retry path undelivered.
NoBatchDropped ==
    \A i \in Ids : journal[i].status = "failed" => Delivered(i)

\* The payload is replaced so that "a later Doris-only replay has the exact rows it
\* must flush" (MarkEventIngestLocalComplete): accepted means all the prepared rows.
ReplayFlushesExactRows ==
    \A i \in Ids : journal[i].status = "accepted"
        => \A t \in FanoutTables : loads[i][t] > 0
=============================================================================
