---------------------- MODULE EventIngestJournalProofs ----------------------
(* The safety of the ingest journal, for any number of keys, rows, request   *)
(* handlers, drainers, replicas, tables and faults.                          *)
EXTENDS EventIngestJournal, TLAPS

(***************************************************************************)
(* The inductive invariant.  AcceptedMeansLoaded alone is not inductive:   *)
(* MarkAccepted writes what a goroutine believes, so the invariant says    *)
(* what each goroutine has loaded so far, and why one that flushes a raw   *)
(* payload can only do so after a lost MarkEventIngestLocalComplete.       *)
(***************************************************************************)

\* The prepared payload was written, or a write of it is known to be lost.
LocalKnown(i) == journal[i].payload = "fanout" \/ i \in lostLocal

\* A goroutine that is not idle works on a row that was recorded.
BusyHasRow ==
    \A p \in Procs : pc[p] # "idle" => cur[p] \in Ids /\ journal[cur[p]].status # "free"

\* Before the flush, a goroutine holds the prepared events.
FormInHand ==
    \A p \in Procs :
        /\ pc[p] \in {"apply", "markLocal"} => form[p] = "fanout" /\ at[p] = 1
        /\ pc[p] = "flush" /\ form[p] = "raw" => cur[p] \in lostLocal

\* The tables before the next one are loaded.
FlushProgress ==
    \A p \in Procs : pc[p] = "flush" =>
        \A n \in 1 .. (at[p] - 1) :
            Tables[n] \in TablesOf(form[p]) => loads[cur[p]][Tables[n]] > 0

\* From the flush on, the fate of the prepared payload is decided.
PastLocal ==
    \A p \in Procs : pc[p] \in {"flush", "markPending"} => LocalKnown(cur[p])

RowsKnown ==
    \A i \in Ids :
        journal[i].status \in {"local_completed", "pending_doris", "accepted", "pruned"}
            => LocalKnown(i)

\* A copy of a row tells the truth about it for ever after.
SnapsKnown ==
    \A p \in Procs : \A s \in snap[p] :
        /\ journal[s.id].status # "free"
        /\ s.status # "received" =>
            /\ LocalKnown(s.id)
            /\ s.payload = "raw" => s.id \in lostLocal

\* Doris counts one load for each finished label.
LoadsMatchLabels ==
    \A i \in Ids, t \in TableSet :
        \/ loads[i][t] = 0 /\ <<t, i>> \notin labels
        \/ loads[i][t] = 1 /\ <<t, i>> \in labels

AckedRecorded ==
    \A k \in acked : \E i \in Ids : KeyOf[i] = k /\ journal[i].status # "free"

IInv ==
    /\ TypeOK
    /\ BusyHasRow
    /\ FormInHand
    /\ FlushProgress
    /\ PastLocal
    /\ RowsKnown
    /\ SnapsKnown
    /\ LoadsMatchLabels
    /\ AckedRecorded
    /\ AcceptedMeansLoaded
-----------------------------------------------------------------------------
(* What goroutines know of a row stays true: rows are not freed, payloads    *)
(* stay prepared and lost writes stay lost.                                  *)

RowsOnlyGrow ==
    /\ \A i \in Ids : journal[i].status # "free" => journal'[i].status # "free"
    /\ \A i \in Ids : LocalKnown(i) => LocalKnown(i)'
    /\ lostLocal \subseteq lostLocal'

LEMMA SnapsStayTrue ==
    ASSUME TypeOK, SnapsKnown, RowsOnlyGrow,
           \A p \in Procs : snap'[p] \subseteq snap[p]
    PROVE  SnapsKnown'
<1> SUFFICES ASSUME NEW p \in Procs, NEW s \in snap'[p]
             PROVE  /\ journal'[s.id].status # "free"
                    /\ s.status # "received" =>
                        /\ LocalKnown(s.id)'
                        /\ s.payload = "raw" => s.id \in lostLocal'
  BY DEF SnapsKnown, LocalKnown
<1>1. s \in snap[p] /\ snap[p] \subseteq SnapRow
  BY DEF TypeOK
<1>2. s.id \in Ids
  BY <1>1 DEF SnapRow
<1> QED  BY <1>1, <1>2 DEF SnapsKnown, RowsOnlyGrow

-----------------------------------------------------------------------------
(* What a step does to a row, without the record syntax.                   *)

\* The rows after a step that gives row i the status st, or leaves it alone.
StatusStep(i, st) ==
    /\ journal' \in [Ids -> Row]
    /\ \A j \in Ids :
        /\ journal'[j].payload = journal[j].payload
        /\ \/ journal'[j].status = journal[j].status
           \/ j = i /\ journal'[j].status = st

\* MarkStatus touches one row, and only one that exists.
LEMMA MarkStatusEffect ==
    ASSUME TypeOK, NEW p \in Procs, cur[p] \in Ids, NEW st \in Statuses,
           NEW d \in BOOLEAN, MarkStatus(p, st, d)
    PROVE  /\ StatusStep(cur[p], st)
           /\ failures' \in Nat /\ crashes' = crashes
<1>1. journal[cur[p]].payload \in Forms
  BY DEF TypeOK, Row
<1>2. StatusStep(cur[p], st)
  <2>1. CASE Update(cur[p], st, journal[cur[p]].payload, d)
    <3>1. CASE Exists(cur[p])
      <4> DEFINE row == [status |-> st, payload |-> journal[cur[p]].payload,
                         due |-> d, aged |-> journal[cur[p]].aged]
      <4>1. journal' = [journal EXCEPT ![cur[p]] = row]
        BY <2>1, <3>1 DEF Update
      <4>2. row \in Row /\ row.status = st /\ row.payload = journal[cur[p]].payload
        BY <1>1 DEF TypeOK, Row
      <4> HIDE DEF row
      <4> QED  BY <4>1, <4>2 DEF StatusStep, TypeOK
    <3>2. CASE ~Exists(cur[p])
      BY <2>1, <3>2 DEF StatusStep, Update, TypeOK
    <3> QED  BY <3>1, <3>2
  <2>2. CASE UNCHANGED journal
    BY <2>2 DEF StatusStep, TypeOK
  <2> QED  BY <2>1, <2>2 DEF MarkStatus
<1>3. failures' \in Nat /\ crashes' = crashes
  BY DEF MarkStatus, Fail, faultVars, TypeOK
<1> QED  BY <1>2, <1>3

\* A Stream Load leaves one load for the table's label of this row.
LEMMA StreamLoadEffect ==
    ASSUME TypeOK, LoadsMatchLabels, NEW p \in Procs, cur[p] \in Ids,
           at[p] \in 1 .. Len(Tables), StreamLoad(p)
    PROVE  /\ loads' \in [Ids -> [TableSet -> Nat]]
           /\ labels' \in SUBSET (TableSet \X Ids)
           /\ LoadsMatchLabels'
           /\ loads'[cur[p]][Tables[at[p]]] > 0
           /\ \A i \in Ids, t \in TableSet : loads[i][t] > 0 => loads'[i][t] > 0
<1> DEFINE t == Tables[at[p]]
<1>1. t \in TableSet
  BY DEF TableSet
<1>2. labels' = labels \union {<<t, cur[p]>>}
  BY DEF StreamLoad, LabelFor
<1>3. loads' = IF <<t, cur[p]>> \in labels THEN loads
               ELSE [loads EXCEPT ![cur[p]] = [loads[cur[p]] EXCEPT ![t] = loads[cur[p]][t] + 1]]
  BY DEF StreamLoad, LabelFor
<1> HIDE DEF t
<1>4. labels' \in SUBSET (TableSet \X Ids)
  BY <1>1, <1>2 DEF TypeOK
<1>5. loads' \in [Ids -> [TableSet -> Nat]]
  <2>1. [loads[cur[p]] EXCEPT ![t] = loads[cur[p]][t] + 1] \in [TableSet -> Nat]
    BY <1>1 DEF TypeOK
  <2> QED  BY <1>3, <2>1 DEF TypeOK
<1>6. LoadsMatchLabels' /\ loads'[cur[p]][t] > 0
  BY <1>1, <1>2, <1>3 DEF LoadsMatchLabels, TypeOK
<1>7. \A i \in Ids, u \in TableSet : loads[i][u] > 0 => loads'[i][u] > 0
  BY <1>1, <1>3 DEF TypeOK
<1> QED  BY <1>4, <1>5, <1>6, <1>7 DEF t

-----------------------------------------------------------------------------
(* The three updates that leave a row's payload alone: a status mark, the    *)
(* passing of time and the retention job.                                    *)

LEMMA MarkStatusKeeps ==
    ASSUME IInv, NEW p \in Procs, pc[p] # "idle",
           NEW st \in {"accepted", "pending_doris", "failed"}, NEW d \in BOOLEAN,
           st # "failed" => LocalKnown(cur[p]),
           st = "accepted" => Delivered(cur[p]),
           MarkStatus(p, st, d)
    PROVE  IInv'
<1>1. cur[p] \in Ids /\ journal[cur[p]].status # "free"
  BY DEF IInv, BusyHasRow
<1>2. /\ StatusStep(cur[p], st)
      /\ failures' \in Nat /\ crashes' = crashes
  BY <1>1, MarkStatusEffect DEF IInv, Statuses, Pending
<1>3. /\ pc' = [pc EXCEPT ![p] = IF p \in Handlers THEN "reply" ELSE "idle"]
      /\ cur' = [cur EXCEPT ![p] = IF p \in Handlers THEN cur[p] ELSE NoId]
      /\ form' = [form EXCEPT ![p] = "raw"]
      /\ at' = [at EXCEPT ![p] = 1]
      /\ UNCHANGED <<snap, labels, loads, applied, lostLocal, acked>>
  BY DEF MarkStatus, Finish, dorisVars, ghostVars
<1>4. TypeOK'
  BY <1>1, <1>2, <1>3, TablesAssumption DEF IInv, TypeOK, StatusStep, PCs, Forms, Procs
<1>5. BusyHasRow'
  BY <1>1, <1>2, <1>3 DEF IInv, TypeOK, BusyHasRow, StatusStep, PCs
<1>6. FormInHand' /\ FlushProgress'
  BY <1>1, <1>3 DEF IInv, TypeOK, FormInHand, FlushProgress, TablesOf, PCs
<1>7. PastLocal'
  BY <1>1, <1>2, <1>3 DEF IInv, TypeOK, PastLocal, BusyHasRow, StatusStep, LocalKnown, PCs
<1>8. RowsKnown'
  BY <1>1, <1>2, <1>3 DEF IInv, RowsKnown, StatusStep, LocalKnown
<1>9. SnapsKnown'
  BY <1>2, <1>3, SnapsStayTrue DEF IInv, RowsOnlyGrow, StatusStep, LocalKnown, Statuses
<1>10. LoadsMatchLabels'
  BY <1>3 DEF IInv, LoadsMatchLabels
<1>11. AckedRecorded'
  BY <1>1, <1>2, <1>3 DEF IInv, AckedRecorded, StatusStep
<1>12. AcceptedMeansLoaded'
  BY <1>1, <1>2, <1>3 DEF IInv, AcceptedMeansLoaded, Delivered, StatusStep
<1> QED  BY <1>4, <1>5, <1>6, <1>7, <1>8, <1>9, <1>10, <1>11, <1>12 DEF IInv

LEMMA RowTimeKeeps ==
    ASSUME IInv, NEW i \in Ids, NEW st, StatusStep(i, st),
           st = journal[i].status \/ (st = "pruned" /\ journal[i].status = "accepted"),
           UNCHANGED <<dorisVars, ghostVars, procVars, faultVars>>
    PROVE  IInv'
<1>1. UNCHANGED <<labels, loads, applied, lostLocal, acked, pc, cur, form, at, snap,
                  crashes, failures>>
  BY DEF dorisVars, ghostVars, procVars, faultVars
<1>2. TypeOK'
  BY <1>1 DEF IInv, TypeOK, StatusStep
<1>3. BusyHasRow'
  BY <1>1 DEF IInv, BusyHasRow, StatusStep
<1>4. FormInHand' /\ FlushProgress' /\ LoadsMatchLabels'
  BY <1>1 DEF IInv, FormInHand, FlushProgress, LoadsMatchLabels
<1>5. PastLocal'
  BY <1>1 DEF IInv, PastLocal, BusyHasRow, StatusStep, LocalKnown
<1>6. RowsKnown'
  BY <1>1 DEF IInv, RowsKnown, StatusStep, LocalKnown
<1>7. SnapsKnown'
  BY <1>1, SnapsStayTrue DEF IInv, RowsOnlyGrow, StatusStep, LocalKnown
<1>8. AckedRecorded'
  BY <1>1 DEF IInv, AckedRecorded, StatusStep
<1>9. AcceptedMeansLoaded'
  BY <1>1 DEF IInv, AcceptedMeansLoaded, Delivered, StatusStep
<1> QED  BY <1>2, <1>3, <1>4, <1>5, <1>6, <1>7, <1>8, <1>9 DEF IInv

LEMMA AgeKeeps == ASSUME IInv, NEW i \in Ids, Age(i) PROVE IInv'
<1>1. StatusStep(i, journal[i].status)
  BY DEF Age, StatusStep, IInv, TypeOK, Row
<1> QED  BY <1>1, RowTimeKeeps DEF Age

LEMMA BackoffKeeps == ASSUME IInv, NEW i \in Ids, Backoff(i) PROVE IInv'
<1>1. StatusStep(i, journal[i].status)
  BY DEF Backoff, StatusStep, IInv, TypeOK, Row
<1> QED  BY <1>1, RowTimeKeeps DEF Backoff

LEMMA PruneKeeps == ASSUME IInv, NEW i \in Ids, Prune(i) PROVE IInv'
<1>1. StatusStep(i, "pruned")
  BY DEF Prune, StatusStep, IInv, TypeOK, Row, Statuses
<1> QED  BY <1>1, RowTimeKeeps DEF Prune

-----------------------------------------------------------------------------
(* A drainer takes up the next row of its sweep.                             *)

LEMMA TakeKeeps ==
    ASSUME IInv, NEW d \in Procs, NEW s \in snap[d],
           NEW to \in {"apply", "flush", "markFailed"}, NEW f \in Forms,
           to = "apply" => f = "fanout",
           to = "flush" => s.status # "received" /\ f = s.payload,
           Take(d, s, to, f)
    PROVE  IInv'
<1>1. /\ pc' = [pc EXCEPT ![d] = to]
      /\ cur' = [cur EXCEPT ![d] = s.id]
      /\ form' = [form EXCEPT ![d] = f]
      /\ at' = [at EXCEPT ![d] = 1]
      /\ snap' = [snap EXCEPT ![d] = snap[d] \ {s}]
      /\ UNCHANGED <<journal, labels, loads, applied, lostLocal, acked, crashes, failures>>
  BY DEF Take, dorisVars, ghostVars, faultVars
<1>2. s.id \in Ids /\ journal[s.id].status # "free"
  <2>1. s \in SnapRow
    BY DEF IInv, TypeOK
  <2> QED  BY <2>1 DEF SnapRow, IInv, SnapsKnown
<1>3. to = "flush" => LocalKnown(s.id) /\ (f = "raw" => s.id \in lostLocal)
  BY DEF IInv, SnapsKnown
<1>4. TypeOK'
  <2>1. snap' \in [Procs -> SUBSET SnapRow]
    BY <1>1 DEF IInv, TypeOK
  <2> QED  BY <1>1, <1>2, <2>1, TablesAssumption DEF IInv, TypeOK, PCs, Forms
<1>5. BusyHasRow'
  BY <1>1, <1>2 DEF IInv, TypeOK, BusyHasRow
<1>6. FormInHand' /\ FlushProgress'
  BY <1>1, <1>3 DEF IInv, TypeOK, FormInHand, FlushProgress, TablesOf
<1>7. PastLocal'
  BY <1>1, <1>3 DEF IInv, TypeOK, PastLocal, LocalKnown
<1>8. RowsKnown' /\ LoadsMatchLabels' /\ AckedRecorded' /\ AcceptedMeansLoaded'
  BY <1>1 DEF IInv, RowsKnown, LocalKnown, LoadsMatchLabels, AckedRecorded,
              AcceptedMeansLoaded, Delivered
<1>9. SnapsKnown'
  BY <1>1, SnapsStayTrue DEF IInv, TypeOK, RowsOnlyGrow, LocalKnown
<1> QED  BY <1>4, <1>5, <1>6, <1>7, <1>8, <1>9 DEF IInv

LEMMA SweepKeeps == ASSUME IInv, NEW d \in Procs, Sweep(d) PROVE IInv'
<1> DEFINE new == {SnapOf(i) : i \in {j \in Ids : IsDue(j)}}
<1>1. /\ snap' = [snap EXCEPT ![d] = new]
      /\ UNCHANGED <<journal, labels, loads, applied, lostLocal, acked, pc, cur, form, at,
                     crashes, failures>>
  BY DEF Sweep, dorisVars, ghostVars, faultVars
<1>2. ASSUME NEW s \in new
      PROVE  /\ s \in SnapRow
             /\ journal[s.id].status # "free"
             /\ s.status # "received" =>
                    LocalKnown(s.id) /\ (s.payload = "raw" => s.id \in lostLocal)
  <2>1. PICK i \in Ids : IsDue(i) /\ s = SnapOf(i)
    OBVIOUS
  <2>2. s \in SnapRow /\ s.id = i /\ s.status = journal[i].status
        /\ s.payload = journal[i].payload /\ s.status \in Pending
    BY <2>1 DEF SnapOf, SnapRow, IsDue, IInv, TypeOK, Row
  <2> QED  BY <2>2 DEF Pending, IInv, RowsKnown, LocalKnown
<1> HIDE DEF new
<1>3. TypeOK'
  BY <1>1, <1>2 DEF IInv, TypeOK
<1>4. SnapsKnown'
  <2> SUFFICES ASSUME NEW p \in Procs, NEW s \in snap'[p]
               PROVE  /\ journal[s.id].status # "free"
                      /\ s.status # "received" =>
                          LocalKnown(s.id) /\ (s.payload = "raw" => s.id \in lostLocal)
    BY <1>1 DEF SnapsKnown, LocalKnown
  <2>1. CASE p = d
    BY <1>1, <1>2, <2>1 DEF IInv, TypeOK
  <2>2. CASE p # d
    BY <1>1, <2>2 DEF IInv, TypeOK, SnapsKnown
  <2> QED  BY <2>1, <2>2
<1>5. BusyHasRow' /\ FormInHand' /\ FlushProgress' /\ PastLocal'
  BY <1>1 DEF IInv, BusyHasRow, FormInHand, FlushProgress, TablesOf, PastLocal, LocalKnown
<1>6. RowsKnown' /\ LoadsMatchLabels' /\ AckedRecorded' /\ AcceptedMeansLoaded'
  BY <1>1 DEF IInv, RowsKnown, LocalKnown, LoadsMatchLabels, AckedRecorded,
              AcceptedMeansLoaded, Delivered
<1> QED  BY <1>3, <1>4, <1>5, <1>6 DEF IInv

-----------------------------------------------------------------------------
(* The request handler.                                                      *)

LEMMA RecordKeeps ==
    ASSUME IInv, NEW p \in Procs, NEW k \in Keys, NEW i \in Ids, Record(p, k, i)
    PROVE  IInv'
<1>1. /\ pc' = [pc EXCEPT ![p] = "apply"]
      /\ cur' = [cur EXCEPT ![p] = i]
      /\ form' = [form EXCEPT ![p] = "fanout"]
      /\ at' = [at EXCEPT ![p] = 1]
      /\ UNCHANGED <<snap, labels, loads, applied, lostLocal, acked, crashes, failures>>
  BY DEF Record, dorisVars, ghostVars, faultVars
<1>2. StatusStep(i, "received") /\ journal'[i].status = "received"
  BY DEF Record, StatusStep, IInv, TypeOK, Row, Statuses, Pending
<1>3. RowsOnlyGrow
  BY <1>1, <1>2 DEF RowsOnlyGrow, StatusStep, LocalKnown
<1>4. TypeOK'
  BY <1>1, <1>2, TablesAssumption DEF IInv, TypeOK, PCs, Forms, StatusStep
<1>5. BusyHasRow'
  BY <1>1, <1>2, <1>3 DEF IInv, TypeOK, BusyHasRow, RowsOnlyGrow
<1>6. FormInHand' /\ FlushProgress'
  BY <1>1 DEF IInv, TypeOK, FormInHand, FlushProgress, TablesOf
<1>7. PastLocal'
  BY <1>1, <1>3 DEF IInv, TypeOK, BusyHasRow, PastLocal, RowsOnlyGrow
<1>8. RowsKnown' /\ AcceptedMeansLoaded'
  BY <1>1, <1>2 DEF IInv, RowsKnown, LocalKnown, AcceptedMeansLoaded, Delivered, StatusStep
<1>9. SnapsKnown'
  BY <1>1, <1>3, SnapsStayTrue DEF IInv
<1>10. LoadsMatchLabels' /\ AckedRecorded'
  BY <1>1, <1>3 DEF IInv, LoadsMatchLabels, AckedRecorded, RowsOnlyGrow
<1> QED  BY <1>4, <1>5, <1>6, <1>7, <1>8, <1>9, <1>10 DEF IInv

\* Steps that touch neither the journal nor what goroutines hold of it.
LEMMA ReplayReceiptKeeps ==
    ASSUME IInv, NEW p \in Procs, NEW k \in Keys, ReplayReceipt(p, k)
    PROVE  IInv'
<1>1. /\ acked' = acked \union {k}
      /\ UNCHANGED <<journal, labels, loads, applied, lostLocal, pc, cur, form, at, snap,
                     crashes, failures>>
  BY DEF ReplayReceipt, dorisVars, procVars, faultVars
<1>2. AckedRecorded'
  BY <1>1 DEF ReplayReceipt, KeyInJournal, Exists, IInv, AckedRecorded
<1>3. TypeOK'
  BY <1>1 DEF IInv, TypeOK
<1>4. BusyHasRow' /\ FormInHand' /\ FlushProgress' /\ PastLocal' /\ SnapsKnown'
  BY <1>1 DEF IInv, BusyHasRow, FormInHand, FlushProgress, TablesOf, PastLocal, LocalKnown,
              SnapsKnown
<1>5. RowsKnown' /\ LoadsMatchLabels' /\ AcceptedMeansLoaded'
  BY <1>1 DEF IInv, RowsKnown, LocalKnown, LoadsMatchLabels, AcceptedMeansLoaded, Delivered
<1> QED  BY <1>2, <1>3, <1>4, <1>5 DEF IInv

LEMMA ReplyKeeps == ASSUME IInv, NEW p \in Procs, Reply(p) PROVE IInv'
<1>1. /\ pc' = [pc EXCEPT ![p] = "idle"]
      /\ cur' = [cur EXCEPT ![p] = NoId]
      /\ acked' = acked \/ acked' = acked \union {KeyOf[cur[p]]}
      /\ UNCHANGED <<journal, labels, loads, applied, lostLocal, form, at, snap,
                     crashes, failures>>
  BY DEF Reply, dorisVars, faultVars
<1>2. cur[p] \in Ids /\ journal[cur[p]].status # "free"
  BY DEF Reply, IInv, BusyHasRow
<1>3. KeyOf[cur[p]] \in Keys
  BY <1>2, ProcsAssumption
<1>4. AckedRecorded'
  <2> SUFFICES ASSUME NEW k \in acked'
               PROVE  \E i \in Ids : KeyOf[i] = k /\ journal[i].status # "free"
    BY <1>1 DEF AckedRecorded
  <2>1. k \in acked \/ k = KeyOf[cur[p]]
    BY <1>1
  <2> QED  BY <1>2, <2>1 DEF IInv, AckedRecorded
<1>5. TypeOK'
  BY <1>1, <1>3 DEF IInv, TypeOK, PCs
<1>6. BusyHasRow' /\ FormInHand'
  BY <1>1 DEF IInv, TypeOK, BusyHasRow, FormInHand
<1>7. FlushProgress' /\ PastLocal'
  BY <1>1 DEF IInv, TypeOK, FlushProgress, TablesOf, PastLocal, LocalKnown
<1>8. SnapsKnown' /\ RowsKnown' /\ LoadsMatchLabels' /\ AcceptedMeansLoaded'
  BY <1>1 DEF IInv, SnapsKnown, RowsKnown, LocalKnown, LoadsMatchLabels,
              AcceptedMeansLoaded, Delivered
<1> QED  BY <1>4, <1>5, <1>6, <1>7, <1>8 DEF IInv

-----------------------------------------------------------------------------
(* The fan-out.                                                              *)

LEMMA ApplyLocalKeeps == ASSUME IInv, NEW p \in Procs, ApplyLocal(p) PROVE IInv'
<1>1. /\ pc[p] = "apply" /\ pc' = [pc EXCEPT ![p] = "markLocal"]
      /\ UNCHANGED <<journal, labels, loads, lostLocal, acked, cur, form, at, snap, crashes>>
  BY DEF ApplyLocal, Goto, Fail, dorisVars, faultVars
<1>2. applied' \in [Ids -> Nat] /\ failures' \in Nat
  BY DEF ApplyLocal, Fail, faultVars, IInv, TypeOK, BusyHasRow
<1>3. TypeOK'
  BY <1>1, <1>2 DEF IInv, TypeOK, PCs
<1>4. BusyHasRow' /\ FormInHand'
  BY <1>1 DEF IInv, TypeOK, BusyHasRow, FormInHand
<1>5. FlushProgress' /\ PastLocal'
  BY <1>1 DEF IInv, TypeOK, FlushProgress, TablesOf, PastLocal, LocalKnown
<1>6. SnapsKnown' /\ RowsKnown' /\ LoadsMatchLabels' /\ AckedRecorded' /\ AcceptedMeansLoaded'
  BY <1>1 DEF IInv, SnapsKnown, RowsKnown, LocalKnown, LoadsMatchLabels, AckedRecorded,
              AcceptedMeansLoaded, Delivered
<1> QED  BY <1>3, <1>4, <1>5, <1>6 DEF IInv

LEMMA MarkLocalCompleteKeeps ==
    ASSUME IInv, NEW p \in Procs, MarkLocalComplete(p)
    PROVE  IInv'
<1>1. /\ pc[p] = "markLocal" /\ pc' = [pc EXCEPT ![p] = "flush"]
      /\ UNCHANGED <<labels, loads, applied, acked, cur, form, at, snap, crashes>>
  BY DEF MarkLocalComplete, Goto, Fail, dorisVars, faultVars
<1> PICK i \in Ids : i = cur[p]
  BY <1>1 DEF IInv, BusyHasRow
<1>2. journal[i].status # "free" /\ form[p] = "fanout" /\ at[p] = 1
  BY <1>1 DEF IInv, BusyHasRow, FormInHand
<1>3. /\ journal' \in [Ids -> Row]
      /\ lostLocal' \in SUBSET Ids /\ failures' \in Nat
      /\ lostLocal \subseteq lostLocal'
      /\ \A j \in Ids :
          /\ \/ journal'[j] = journal[j]
             \/ /\ j = i /\ Exists(i)
                /\ journal'[i].status = "local_completed" /\ journal'[i].payload = "fanout"
          /\ j = i /\ Exists(i) => LocalKnown(i)'
  <2>1. CASE Update(i, "local_completed", "fanout", TRUE) /\ UNCHANGED <<lostLocal, faultVars>>
    <3>1. CASE Exists(i)
      <4> DEFINE row == [status |-> "local_completed", payload |-> "fanout",
                         due |-> TRUE, aged |-> journal[i].aged]
      <4>1. journal' = [journal EXCEPT ![i] = row]
        BY <2>1, <3>1 DEF Update
      <4>2. row \in Row /\ row.status = "local_completed" /\ row.payload = "fanout"
        BY <1>2 DEF IInv, TypeOK, Row, Statuses, Pending, Forms
      <4> HIDE DEF row
      <4> QED  BY <1>2, <2>1, <3>1, <4>1, <4>2 DEF IInv, TypeOK, LocalKnown, faultVars
    <3>2. CASE ~Exists(i)
      BY <2>1, <3>2 DEF Update, IInv, TypeOK, faultVars
    <3> QED  BY <3>1, <3>2
  <2>2. CASE Fail /\ lostLocal' = lostLocal \union {i} /\ UNCHANGED journal
    BY <1>2, <2>2 DEF Fail, IInv, TypeOK, LocalKnown
  <2> QED  BY <2>1, <2>2 DEF MarkLocalComplete
<1>4. LocalKnown(i)'
  <2>1. CASE Exists(i)
    BY <1>2, <1>3, <2>1
  <2>2. CASE ~Exists(i)
    BY <1>2, <1>3, <2>2 DEF Exists, IInv, RowsKnown, LocalKnown
  <2> QED  BY <2>1, <2>2
<1>5. RowsOnlyGrow
  BY <1>3 DEF RowsOnlyGrow, LocalKnown, Exists
<1>6. TypeOK'
  BY <1>1, <1>3 DEF IInv, TypeOK, PCs
<1>7. BusyHasRow'
  BY <1>1, <1>2, <1>5 DEF IInv, TypeOK, BusyHasRow, RowsOnlyGrow
<1>8. FormInHand' /\ FlushProgress'
  <2>1. FormInHand'
    BY <1>1, <1>2, <1>5 DEF IInv, TypeOK, FormInHand, RowsOnlyGrow
  <2>2. FlushProgress'
    <3> SUFFICES ASSUME NEW q \in Procs, pc'[q] = "flush", NEW n \in 1 .. (at[q] - 1),
                        Tables[n] \in TablesOf(form[q])
                 PROVE  loads[cur[q]][Tables[n]] > 0
      BY <1>1 DEF FlushProgress, TablesOf
    <3>1. q # p
      BY <1>2
    <3>2. pc[q] = "flush"
      BY <1>1, <3>1 DEF IInv, TypeOK
    <3> QED  BY <3>2 DEF IInv, FlushProgress
  <2> QED  BY <2>1, <2>2
<1>9. PastLocal'
  BY <1>1, <1>2, <1>4, <1>5 DEF IInv, TypeOK, BusyHasRow, PastLocal, RowsOnlyGrow
<1>10. SnapsKnown'
  BY <1>1, <1>5, SnapsStayTrue DEF IInv
<1>11. RowsKnown'
  BY <1>3, <1>5 DEF IInv, RowsKnown, RowsOnlyGrow, LocalKnown
<1>12. LoadsMatchLabels' /\ AckedRecorded'
  BY <1>1, <1>5 DEF IInv, LoadsMatchLabels, AckedRecorded, RowsOnlyGrow
<1>13. AcceptedMeansLoaded'
  <2> SUFFICES ASSUME NEW j \in Ids, journal'[j].status \in {"accepted", "pruned"}
               PROVE  Delivered(j)'
    BY DEF AcceptedMeansLoaded
  <2>1. journal[j].status \in {"accepted", "pruned"}
    BY <1>3
  <2>2. Delivered(j)
    BY <2>1 DEF IInv, AcceptedMeansLoaded
  <2> QED  BY <1>1, <1>3, <2>2, TablesAssumption DEF Delivered
<1> QED  BY <1>6, <1>7, <1>8, <1>9, <1>10, <1>11, <1>12, <1>13 DEF IInv

LEMMA SkipTableKeeps == ASSUME IInv, NEW p \in Procs, SkipTable(p) PROVE IInv'
<1>1. /\ pc[p] = "flush" /\ at[p] =< Len(Tables) /\ at' = [at EXCEPT ![p] = at[p] + 1]
      /\ Tables[at[p]] \notin TablesOf(form[p])
      /\ UNCHANGED <<journal, labels, loads, applied, lostLocal, acked, pc, cur, form, snap,
                     crashes, failures>>
  BY DEF SkipTable, dorisVars, ghostVars, faultVars
<1>2. at[p] \in 1 .. Len(Tables) + 1 /\ Len(Tables) \in Nat
  BY TablesAssumption DEF IInv, TypeOK
<1>3. TypeOK'
  BY <1>1, <1>2 DEF IInv, TypeOK
<1>4. BusyHasRow' /\ FormInHand' /\ PastLocal'
  BY <1>1 DEF IInv, TypeOK, BusyHasRow, FormInHand, PastLocal, LocalKnown
<1>5. FlushProgress'
  BY <1>1, <1>2 DEF IInv, TypeOK, FlushProgress, TablesOf
<1>6. SnapsKnown' /\ RowsKnown' /\ LoadsMatchLabels' /\ AckedRecorded' /\ AcceptedMeansLoaded'
  BY <1>1 DEF IInv, SnapsKnown, RowsKnown, LocalKnown, LoadsMatchLabels, AckedRecorded,
              AcceptedMeansLoaded, Delivered
<1> QED  BY <1>3, <1>4, <1>5, <1>6 DEF IInv

\* What is loaded stays loaded: the rest of the invariant rides on it.
LEMMA LoadsGrowKeeps ==
    ASSUME IInv,
           \A i \in Ids, t \in TableSet : loads[i][t] > 0 => loads'[i][t] > 0,
           UNCHANGED <<journal, lostLocal, acked, snap>>
    PROVE  SnapsKnown' /\ RowsKnown' /\ AckedRecorded' /\ AcceptedMeansLoaded'
<1>1. SnapsKnown' /\ RowsKnown' /\ AckedRecorded'
  BY DEF IInv, SnapsKnown, RowsKnown, LocalKnown, AckedRecorded
<1>2. AcceptedMeansLoaded'
  BY TablesAssumption DEF IInv, AcceptedMeansLoaded, Delivered
<1> QED  BY <1>1, <1>2

LEMMA LoadTableKeeps == ASSUME IInv, NEW p \in Procs, LoadTable(p) PROVE IInv'
<1>1. /\ pc[p] = "flush" /\ at[p] =< Len(Tables) /\ at' = [at EXCEPT ![p] = at[p] + 1]
      /\ UNCHANGED <<journal, applied, lostLocal, acked, pc, cur, form, snap, crashes, failures>>
  BY DEF LoadTable, ghostVars, faultVars
<1>2. at[p] \in 1 .. Len(Tables) /\ Len(Tables) \in Nat /\ cur[p] \in Ids
  BY <1>1, TablesAssumption DEF IInv, TypeOK, BusyHasRow
<1>3. /\ loads' \in [Ids -> [TableSet -> Nat]]
      /\ labels' \in SUBSET (TableSet \X Ids)
      /\ LoadsMatchLabels'
      /\ loads'[cur[p]][Tables[at[p]]] > 0
      /\ \A i \in Ids, t \in TableSet : loads[i][t] > 0 => loads'[i][t] > 0
  BY <1>2, StreamLoadEffect DEF LoadTable, IInv
<1>4. TypeOK'
  BY <1>1, <1>2, <1>3 DEF IInv, TypeOK
<1>5. BusyHasRow' /\ FormInHand' /\ PastLocal'
  BY <1>1 DEF IInv, TypeOK, BusyHasRow, FormInHand, PastLocal, LocalKnown
<1>6. FlushProgress'
  <2> SUFFICES ASSUME NEW q \in Procs, pc[q] = "flush", NEW n \in 1 .. (at'[q] - 1),
                      Tables[n] \in TablesOf(form[q])
               PROVE  loads'[cur[q]][Tables[n]] > 0
    BY <1>1 DEF FlushProgress, TablesOf
  <2>1. at'[q] \in 1 .. Len(Tables) + 1 /\ cur[q] \in Ids
    BY <1>4, <1>1 DEF TypeOK, IInv, BusyHasRow
  <2>2. n \in 1 .. Len(Tables) /\ Tables[n] \in TableSet
    BY <1>2, <2>1 DEF TableSet
  <2>3. CASE n < at[q]
    <3>1. n \in 1 .. (at[q] - 1)
      BY <2>2, <2>3 DEF IInv, TypeOK
    <3> QED  BY <1>3, <2>1, <2>2, <3>1 DEF IInv, FlushProgress
  <2>4. CASE ~(n < at[q])
    <3>1. q = p /\ n = at[p]
      BY <1>1, <1>2, <2>1, <2>4 DEF IInv, TypeOK
    <3> QED  BY <1>3, <3>1
  <2> QED  BY <2>3, <2>4
<1>7. SnapsKnown' /\ RowsKnown' /\ AckedRecorded' /\ AcceptedMeansLoaded'
  BY <1>1, <1>3, LoadsGrowKeeps
<1> QED  BY <1>3, <1>4, <1>5, <1>6, <1>7 DEF IInv

LEMMA LoadFailsKeeps == ASSUME IInv, NEW p \in Procs, LoadFails(p) PROVE IInv'
<1>1. /\ pc[p] = "flush" /\ at[p] =< Len(Tables) /\ pc' = [pc EXCEPT ![p] = "markPending"]
      /\ UNCHANGED <<journal, applied, lostLocal, acked, cur, form, at, snap, crashes>>
      /\ failures' \in Nat
  BY DEF LoadFails, Goto, Fail, ghostVars, IInv, TypeOK
<1>2. at[p] \in 1 .. Len(Tables) /\ cur[p] \in Ids
  BY <1>1, TablesAssumption DEF IInv, TypeOK, BusyHasRow
<1>3. /\ loads' \in [Ids -> [TableSet -> Nat]]
      /\ labels' \in SUBSET (TableSet \X Ids)
      /\ LoadsMatchLabels'
      /\ \A i \in Ids, t \in TableSet : loads[i][t] > 0 => loads'[i][t] > 0
  <2>1. CASE StreamLoad(p)
    BY <1>2, <2>1, StreamLoadEffect DEF IInv
  <2>2. CASE UNCHANGED dorisVars
    BY <2>2 DEF dorisVars, IInv, TypeOK, LoadsMatchLabels
  <2> QED  BY <2>1, <2>2 DEF LoadFails
<1>4. TypeOK'
  BY <1>1, <1>3 DEF IInv, TypeOK, PCs
<1>5. BusyHasRow' /\ FormInHand' /\ PastLocal'
  BY <1>1 DEF IInv, TypeOK, BusyHasRow, FormInHand, PastLocal, LocalKnown
<1>6. FlushProgress'
  <2> SUFFICES ASSUME NEW q \in Procs, pc'[q] = "flush", NEW n \in 1 .. (at[q] - 1),
                      Tables[n] \in TablesOf(form[q])
               PROVE  loads'[cur[q]][Tables[n]] > 0
    BY <1>1 DEF FlushProgress, TablesOf
  <2>1. pc[q] = "flush" /\ cur[q] \in Ids
    BY <1>1 DEF IInv, TypeOK, BusyHasRow
  <2>2. n \in 1 .. Len(Tables) /\ Tables[n] \in TableSet
    BY TablesAssumption DEF TableSet, IInv, TypeOK
  <2> QED  BY <1>3, <2>1, <2>2 DEF IInv, FlushProgress
<1>7. SnapsKnown' /\ RowsKnown' /\ AckedRecorded' /\ AcceptedMeansLoaded'
  BY <1>1, <1>3, LoadsGrowKeeps
<1> QED  BY <1>3, <1>4, <1>5, <1>6, <1>7 DEF IInv

\* A goroutine that marks its row accepted has loaded every table of the events it
\* holds: all the prepared ones, or the raw ones of a row whose write was lost.
LEMMA MarkAcceptedKeeps == ASSUME IInv, NEW p \in Procs, MarkAccepted(p) PROVE IInv'
<1>1. pc[p] = "flush" /\ at[p] = Len(Tables) + 1 /\ MarkStatus(p, "accepted", TRUE)
  BY DEF MarkAccepted
<1>2. \A t \in TableSet : t \in TablesOf(form[p]) => loads[cur[p]][t] > 0
  <2> SUFFICES ASSUME NEW t \in TableSet, t \in TablesOf(form[p])
               PROVE  loads[cur[p]][t] > 0
    OBVIOUS
  <2>1. PICK n \in 1 .. Len(Tables) : t = Tables[n]
    BY DEF TableSet
  <2>2. n \in 1 .. (at[p] - 1)
    BY <1>1, TablesAssumption
  <2> QED  BY <1>1, <2>1, <2>2 DEF IInv, FlushProgress
<1>3. Delivered(cur[p])
  <2>1. CASE form[p] = "raw"
    BY <1>1, <1>2, <2>1, TablesAssumption DEF IInv, FormInHand, Delivered, TablesOf
  <2>2. CASE form[p] = "fanout"
    BY <1>2, <2>2, TablesAssumption DEF Delivered, TablesOf
  <2> QED  BY <2>1, <2>2 DEF IInv, TypeOK, Forms
<1>4. LocalKnown(cur[p])
  BY <1>1 DEF IInv, PastLocal
<1> QED  BY <1>1, <1>3, <1>4, MarkStatusKeeps

LEMMA MarkPendingKeeps == ASSUME IInv, NEW p \in Procs, MarkPending(p) PROVE IInv'
<1>1. pc[p] = "markPending" /\ LocalKnown(cur[p])
  BY DEF MarkPending, IInv, PastLocal
<1> QED  BY <1>1, MarkStatusKeeps DEF MarkPending

LEMMA MarkFailedKeeps == ASSUME IInv, NEW p \in Procs, MarkFailed(p) PROVE IInv'
  BY MarkStatusKeeps DEF MarkFailed

-----------------------------------------------------------------------------
(* A replica dies.                                                           *)

LEMMA CrashKeeps == ASSUME IInv, NEW r \in Replicas, Crash(r) PROVE IInv'
<1>1. /\ \A p \in Procs :
          \/ pc'[p] = "idle" /\ cur'[p] = NoId /\ snap'[p] = {} /\ form'[p] = "raw" /\ at'[p] = 1
          \/ /\ pc'[p] = pc[p] /\ cur'[p] = cur[p] /\ snap'[p] = snap[p]
             /\ form'[p] = form[p] /\ at'[p] = at[p]
      /\ UNCHANGED <<journal, labels, loads, applied, lostLocal, acked, failures>>
      /\ crashes' \in Nat
  BY DEF Crash, dorisVars, ghostVars, IInv, TypeOK
<1>2. TypeOK'
  <2>1. /\ pc' \in [Procs -> PCs] /\ cur' \in [Procs -> Ids \union {NoId}]
        /\ form' \in [Procs -> Forms]
    BY DEF Crash, IInv, TypeOK, PCs, Forms
  <2>2. at' \in [Procs -> 1 .. Len(Tables) + 1] /\ snap' \in [Procs -> SUBSET SnapRow]
    BY TablesAssumption DEF Crash, IInv, TypeOK
  <2> QED  BY <1>1, <2>1, <2>2 DEF IInv, TypeOK
<1>3. BusyHasRow' /\ FormInHand' /\ FlushProgress' /\ PastLocal'
  BY <1>1 DEF IInv, BusyHasRow, FormInHand, FlushProgress, TablesOf, PastLocal, LocalKnown
<1>4. SnapsKnown'
  BY <1>1, SnapsStayTrue DEF IInv, RowsOnlyGrow, LocalKnown
<1>5. RowsKnown' /\ LoadsMatchLabels' /\ AckedRecorded' /\ AcceptedMeansLoaded'
  BY <1>1 DEF IInv, RowsKnown, LocalKnown, LoadsMatchLabels, AckedRecorded,
              AcceptedMeansLoaded, Delivered
<1> QED  BY <1>2, <1>3, <1>4, <1>5 DEF IInv

-----------------------------------------------------------------------------
(* The invariant holds of every behaviour.                                   *)

LEMMA InitIInv == Init => IInv
<1> SUFFICES ASSUME Init PROVE IInv
  OBVIOUS
<1>1. TypeOK
  BY TablesAssumption DEF Init, TypeOK, Row, Statuses, Pending, Forms, PCs
<1>2. BusyHasRow /\ FormInHand /\ FlushProgress /\ PastLocal /\ SnapsKnown
  BY DEF Init, BusyHasRow, FormInHand, FlushProgress, PastLocal, SnapsKnown
<1>3. RowsKnown /\ LoadsMatchLabels /\ AckedRecorded /\ AcceptedMeansLoaded
  BY DEF Init, RowsKnown, LoadsMatchLabels, AckedRecorded, AcceptedMeansLoaded
<1> QED  BY <1>1, <1>2, <1>3 DEF IInv

LEMMA NextIInv == IInv /\ [Next]_vars => IInv'
<1> SUFFICES ASSUME IInv, [Next]_vars PROVE IInv'
  OBVIOUS
<1>1. CASE \E p \in Handlers, k \in Keys : ReplayReceipt(p, k)
  BY <1>1, ReplayReceiptKeeps DEF Procs
<1>2. CASE \E p \in Handlers, k \in Keys, i \in Ids : Record(p, k, i)
  BY <1>2, RecordKeeps DEF Procs
<1>3. CASE \E p \in Handlers : Reply(p)
  BY <1>3, ReplyKeeps DEF Procs
<1>4. ASSUME NEW p \in Procs, FanoutStep(p) PROVE IInv'
  BY <1>4, ApplyLocalKeeps, MarkLocalCompleteKeeps, SkipTableKeeps, LoadTableKeeps,
     LoadFailsKeeps, MarkAcceptedKeeps, MarkPendingKeeps, MarkFailedKeeps DEF FanoutStep
<1>5. ASSUME NEW d \in Drainers, DrainStep(d) PROVE IInv'
  <2>1. d \in Procs
    BY DEF Procs
  <2>2. CASE Sweep(d)
    BY <2>1, <2>2, SweepKeeps
  <2>3. ASSUME NEW s \in snap[d], Replay(d, s) PROVE IInv'
    BY <2>1, <2>3, TakeKeeps DEF Replay, Forms
  <2>4. ASSUME NEW s \in snap[d], ReplayDorisOnly(d, s) \/ ReplayUndecodable(d, s) PROVE IInv'
    <3>1. s.payload \in Forms
      BY <2>1 DEF IInv, TypeOK, SnapRow
    <3>2. CASE ReplayDorisOnly(d, s)
      <4>1. s.status # "received" /\ Take(d, s, "flush", s.payload)
        BY <3>2 DEF ReplayDorisOnly
      <4> QED  BY <2>1, <3>1, <4>1, TakeKeeps
    <3>3. CASE ReplayUndecodable(d, s)
      <4>1. Take(d, s, "markFailed", s.payload)
        BY <3>3 DEF ReplayUndecodable
      <4> QED  BY <2>1, <3>1, <4>1, TakeKeeps
    <3> QED  BY <2>4, <3>2, <3>3
  <2> QED  BY <1>5, <2>2, <2>3, <2>4 DEF DrainStep
<1>6. CASE \E i \in Ids : Age(i) \/ Backoff(i) \/ Prune(i)
  BY <1>6, AgeKeeps, BackoffKeeps, PruneKeeps
<1>7. CASE \E r \in Replicas : Crash(r)
  BY <1>7, CrashKeeps
<1>8. CASE UNCHANGED vars
  <2> USE <1>8 DEF vars, dorisVars, ghostVars, procVars, faultVars
  <2>1. TypeOK'
    BY DEF IInv, TypeOK
  <2>2. BusyHasRow' /\ FormInHand' /\ FlushProgress' /\ PastLocal' /\ SnapsKnown'
    BY DEF IInv, BusyHasRow, FormInHand, FlushProgress, TablesOf, PastLocal, LocalKnown,
           SnapsKnown
  <2>3. RowsKnown' /\ LoadsMatchLabels' /\ AckedRecorded' /\ AcceptedMeansLoaded'
    BY DEF IInv, RowsKnown, LocalKnown, LoadsMatchLabels, AckedRecorded,
           AcceptedMeansLoaded, Delivered
  <2> QED  BY <2>1, <2>2, <2>3 DEF IInv
<1> QED  BY <1>1, <1>2, <1>3, <1>4, <1>5, <1>6, <1>7, <1>8 DEF Next

LEMMA IInvHolds == Spec => []IInv
  BY InitIInv, NextIInv, PTL DEF Spec

\* Every variable of the journal keeps its type.
THEOREM TypeCorrect == Spec => []TypeOK
<1>1. IInv => TypeOK
  BY DEF IInv
<1> QED  BY <1>1, IInvHolds, PTL

\* A row nobody will take up again (accepted, or pruned after that) has all its rows
\* in Doris, for any number of handlers, drainers and replicas that overlap on it.
THEOREM AcceptedLoaded == Spec => []AcceptedMeansLoaded
<1>1. IInv => AcceptedMeansLoaded
  BY DEF IInv
<1> QED  BY <1>1, IInvHolds, PTL

\* Whatever retries, time-outs and crashes happen, Doris takes each row's events
\* once per table.
THEOREM LoadedOnce == Spec => []LoadedAtMostOnce
<1>1. IInv => LoadedAtMostOnce
  <2> SUFFICES ASSUME IInv, NEW i \in Ids, NEW t \in TableSet PROVE loads[i][t] =< 1
    BY DEF LoadedAtMostOnce
  <2>1. loads[i][t] = 0 \/ loads[i][t] = 1
    BY DEF IInv, LoadsMatchLabels
  <2> QED  BY <2>1
<1> QED  BY <1>1, IInvHolds, PTL

\* A batch whose agent read a 2xx is in the journal or was delivered and pruned.
THEOREM AckedKept == Spec => []AckedMeansKept
<1>1. IInv => AckedMeansKept
  BY DEF IInv, AckedRecorded, AckedMeansKept, AcceptedMeansLoaded, Exists
<1> QED  BY <1>1, IInvHolds, PTL

-----------------------------------------------------------------------------
(***************************************************************************)
(* When no goroutine outlives the cut-off and one drainer runs.  A row is  *)
(* then in one hand at a time, and a sweep's copy of it stays true: what   *)
(* is settled is not touched again, and what its local side effects cost   *)
(* in faults can be counted.                                               *)
(***************************************************************************)

\* The premise under which the run journal_settles checks both properties.
SoleDrainer == ~SlowHandlers /\ \A d, e \in Drainers : d = e

Working == {"apply", "markLocal", "flush", "markPending", "markFailed"}

\* A row is in one hand at most.
OneHand ==
    /\ \A p \in Procs : pc[p] = "idle" => cur[p] = NoId
    /\ \A d \in Drainers : pc[d] # "reply"
    /\ \A p, q \in Procs : p # q /\ cur[p] = cur[q] => cur[p] = NoId

\* Handlers hold rows before the cut-off, the drainer rows behind it.
CutOff ==
    /\ \A i \in Ids : journal[i].status = "free" => ~journal[i].aged
    /\ \A h \in Handlers : cur[h] \in Ids => ~journal[cur[h]].aged
    /\ \A d \in Drainers : cur[d] \in Ids => journal[cur[d]].aged

\* What a sweep has read is still so, and nobody works on it.
FreshCopies ==
    /\ \A h \in Handlers : snap[h] = {}
    /\ \A d \in Drainers : \A s \in snap[d] :
        /\ s.status = journal[s.id].status
        /\ journal[s.id].aged
        /\ \A p \in Procs : cur[p] # s.id
        /\ \A t \in snap[d] : t.id = s.id => t = s

\* Nobody works on a row that is settled.
Unsettled ==
    \A p \in Procs :
        /\ pc[p] \in Working => journal[cur[p]].status \in Pending
        /\ pc[p] \in {"apply", "markLocal"} => journal[cur[p]].status = "received"

\* A crash is worth two failed writes, and n is what the row owes at most.
Paid(i, n) == 2 * applied[i] =< 2 * crashes + failures + n

\* A run of the local side effects is paid for by a crash, or by two failed writes;
\* the first of them is noticed when the flush begins, the second when it ends.
Tally ==
    \A i \in Ids :
        /\ Paid(i, 2)
        /\ journal[i].status = "free" => applied[i] = 0
        /\ journal[i].status = "received" =>
            \/ Paid(i, 0)
            \/ Paid(i, 1) /\ \E p \in Procs : pc[p] \in {"flush", "markPending"} /\ cur[p] = i
            \/ \E p \in Procs : pc[p] = "markLocal" /\ cur[p] = i

SoleInv == OneHand /\ CutOff /\ FreshCopies /\ Unsettled /\ Tally

-----------------------------------------------------------------------------
\* What an UPDATE does to the rows, without the record syntax.
LEMMA UpdateEffect ==
    ASSUME TypeOK, NEW i \in Ids, Exists(i), NEW st \in Statuses, NEW pl \in Forms,
           NEW d \in BOOLEAN, Update(i, st, pl, d)
    PROVE  \A j \in Ids :
             /\ journal'[j].aged = journal[j].aged
             /\ journal'[j].status = IF j = i THEN st ELSE journal[j].status
<1>1. /\ journal \in [Ids -> Row]
      /\ journal' = [journal EXCEPT ![i] = [status |-> st, payload |-> pl,
                                            due |-> d, aged |-> @.aged]]
  BY DEF TypeOK, Update
<1> QED
  BY <1>1 DEF Row

\* What is known of a goroutine that works on a row.
LEMMA WorkingHasRow ==
    ASSUME IInv, SoleInv, NEW p \in Procs, pc[p] \in Working
    PROVE  cur[p] \in Ids /\ cur[p] # NoId /\ Exists(cur[p])
<1>1. cur[p] \in Ids /\ journal[cur[p]].status \in Pending
  BY DEF IInv, BusyHasRow, SoleInv, Unsettled, Working
<1> QED
  BY <1>1, ProcsAssumption DEF Exists, Pending

\* A batch is recorded under an id nobody has seen.
LEMMA RecordSole ==
    ASSUME SoleDrainer, IInv, SoleInv, NEW p \in Handlers, NEW k \in Keys, NEW i \in Ids,
           Record(p, k, i)
    PROVE  SoleInv'
<1>1. /\ p \in Procs /\ pc[p] = "idle" /\ journal[i].status = "free"
      /\ journal \in [Ids -> Row] /\ pc \in [Procs -> PCs]
      /\ cur \in [Procs -> Ids \union {NoId}]
      /\ applied \in [Ids -> Nat] /\ crashes \in Nat /\ failures \in Nat
      /\ snap \in [Procs -> SUBSET SnapRow]
  BY DEF Record, IInv, TypeOK, Procs
<1>2. /\ pc' = [pc EXCEPT ![p] = "apply"] /\ cur' = [cur EXCEPT ![p] = i]
      /\ UNCHANGED <<snap, applied, crashes, failures>>
      /\ \A j \in Ids : /\ journal'[j].aged = journal[j].aged
                        /\ journal'[j].status = IF j = i THEN "received" ELSE journal[j].status
  BY <1>1 DEF Record, ghostVars, faultVars, Row
<1>3. \A q \in Procs : cur[q] # i
  BY <1>1, ProcsAssumption DEF IInv, BusyHasRow, SoleInv, OneHand
<1>4. \A d \in Procs : \A s \in snap[d] : s.id \in Ids /\ s.id # i
  BY <1>1 DEF IInv, SnapsKnown, SnapRow
<1>5. OneHand'
  BY <1>1, <1>2, <1>3, ProcsAssumption DEF SoleInv, OneHand, Procs
<1>6. CutOff'
  BY <1>1, <1>2, <1>3, ProcsAssumption DEF SoleInv, CutOff, Procs
<1>7. FreshCopies'
  BY <1>1, <1>2, <1>3, <1>4, ProcsAssumption DEF SoleInv, FreshCopies, Procs
<1>8. Unsettled'
  BY <1>1, <1>2, <1>3 DEF SoleInv, Unsettled, Working, Pending, IInv, BusyHasRow
<1>9. Tally'
  BY <1>1, <1>2, <1>3 DEF SoleInv, Tally, Paid
<1> QED
  BY <1>5, <1>6, <1>7, <1>8, <1>9 DEF SoleInv

\* A handler that answers lets go of its row.
LEMMA ReplySole ==
    ASSUME SoleDrainer, IInv, SoleInv, NEW p \in Handlers, Reply(p)
    PROVE  SoleInv'
<1>1. /\ p \in Procs /\ pc[p] = "reply" /\ pc \in [Procs -> PCs]
      /\ cur \in [Procs -> Ids \union {NoId}]
      /\ pc' = [pc EXCEPT ![p] = "idle"] /\ cur' = [cur EXCEPT ![p] = NoId]
      /\ UNCHANGED <<journal, snap, applied, crashes, failures>>
  BY DEF Reply, IInv, TypeOK, Procs, faultVars
<1>2. OneHand'
  BY <1>1 DEF SoleInv, OneHand, Procs
<1>3. CutOff'
  BY <1>1, ProcsAssumption DEF SoleInv, CutOff, Procs
<1>4. FreshCopies'
  <2>1. \A d \in Procs : \A s \in snap[d] : s.id \in Ids
    BY DEF IInv, TypeOK, SnapRow
  <2> QED
    BY <1>1, <2>1, ProcsAssumption DEF SoleInv, FreshCopies, Procs
<1>5. Unsettled' /\ Tally'
  BY <1>1 DEF SoleInv, Unsettled, Working, Tally, Paid
<1> QED
  BY <1>2, <1>3, <1>4, <1>5 DEF SoleInv

\* The local side effects run: nobody else holds the row, so it owed nothing.
LEMMA ApplyLocalSole ==
    ASSUME SoleDrainer, IInv, SoleInv, NEW p \in Procs, ApplyLocal(p)
    PROVE  SoleInv'
<1>1. /\ pc[p] = "apply" /\ pc \in [Procs -> PCs] /\ cur \in [Procs -> Ids \union {NoId}]
      /\ applied \in [Ids -> Nat] /\ crashes \in Nat /\ failures \in Nat
      /\ pc' = [pc EXCEPT ![p] = "markLocal"] /\ crashes' = crashes
      /\ UNCHANGED <<journal, cur, snap>>
  BY DEF ApplyLocal, Goto, IInv, TypeOK, Fail, faultVars
<1>2. cur[p] \in Ids /\ cur[p] # NoId /\ journal[cur[p]].status = "received"
  BY <1>1, WorkingHasRow DEF SoleInv, Unsettled, Working
<1>3. OneHand' /\ CutOff' /\ FreshCopies' /\ Unsettled'
  BY <1>1 DEF SoleInv, OneHand, CutOff, FreshCopies, Unsettled, Working
<1>4. Tally'
  <2>1. \A q \in Procs : cur[q] = cur[p] => q = p
    BY <1>2 DEF SoleInv, OneHand
  <2>2. Paid(cur[p], 0)
    BY <1>1, <1>2, <2>1 DEF SoleInv, Tally
  <2>3. CASE applied' = [applied EXCEPT ![cur[p]] = @ + 1] /\ UNCHANGED faultVars
    <3>1. 2 * applied'[cur[p]] =< 2 * crashes' + failures' + 2
      BY <1>1, <1>2, <2>2, <2>3 DEF Paid, faultVars
    <3>2. \A i \in Ids \ {cur[p]} : applied'[i] = applied[i]
      BY <1>1, <2>3
    <3>3. UNCHANGED <<crashes, failures>>
      BY <2>3 DEF faultVars
    <3>4. \A i \in Ids \ {cur[p]} : \A n \in {0, 1, 2} : Paid(i, n) => Paid(i, n)'
      BY <3>2, <3>3 DEF Paid
    <3>5. Paid(cur[p], 2)'
      BY <1>1, <3>1 DEF Paid
    <3>6. pc'[p] = "markLocal" /\ \A q \in Procs : pc[q] # "apply" => pc'[q] = pc[q]
      BY <1>1
    <3> QED
      BY <1>1, <1>2, <3>2, <3>4, <3>5, <3>6 DEF SoleInv, Tally
  <2>4. CASE Fail /\ UNCHANGED applied
    BY <1>1, <1>2, <2>1, <2>2, <2>4 DEF SoleInv, Tally, Paid, Fail
  <2> QED
    BY <2>3, <2>4 DEF ApplyLocal
<1> QED
  BY <1>3, <1>4 DEF SoleInv

\* The row is marked, or the first of two writes has failed.
LEMMA MarkLocalSole ==
    ASSUME SoleDrainer, IInv, SoleInv, NEW p \in Procs, MarkLocalComplete(p)
    PROVE  SoleInv'
<1>1. /\ pc[p] = "markLocal" /\ pc \in [Procs -> PCs] /\ cur \in [Procs -> Ids \union {NoId}]
      /\ applied \in [Ids -> Nat] /\ crashes \in Nat /\ failures \in Nat
      /\ pc' = [pc EXCEPT ![p] = "flush"] /\ UNCHANGED <<cur, snap, applied, crashes>>
  BY DEF MarkLocalComplete, Goto, IInv, TypeOK, Fail, faultVars
<1>2. cur[p] \in Ids /\ cur[p] # NoId /\ Exists(cur[p])
  BY <1>1, WorkingHasRow DEF Working
<1>3. \A q \in Procs : cur[q] = cur[p] => q = p
  BY <1>2 DEF SoleInv, OneHand
<1>4. \A d \in Procs : \A s \in snap[d] : s.id \in Ids /\ s.id # cur[p]
  BY <1>1 DEF SoleInv, FreshCopies, IInv, TypeOK, SnapRow, Procs
<1>5. CASE Update(cur[p], "local_completed", "fanout", TRUE) /\ UNCHANGED faultVars
  <2>1. \A j \in Ids :
          /\ journal'[j].aged = journal[j].aged
          /\ journal'[j].status = IF j = cur[p] THEN "local_completed" ELSE journal[j].status
    BY <1>2, <1>5, UpdateEffect DEF IInv, Statuses, Pending, Forms
  <2>2. OneHand'
    BY <1>1 DEF SoleInv, OneHand
  <2>3. CutOff'
    BY <1>1, <2>1 DEF SoleInv, CutOff, Procs
  <2>4. FreshCopies'
    BY <1>1, <1>4, <2>1 DEF SoleInv, FreshCopies, Procs
  <2>5. Unsettled'
    BY <1>1, <1>2, <1>3, <2>1 DEF SoleInv, Unsettled, Working, Pending, IInv, BusyHasRow
  <2>6. Tally'
    BY <1>1, <1>2, <1>3, <1>5, <2>1 DEF SoleInv, Tally, Paid, faultVars
  <2> QED
    BY <2>2, <2>3, <2>4, <2>5, <2>6 DEF SoleInv
<1>6. CASE Fail /\ UNCHANGED journal
  <2>1. OneHand' /\ CutOff' /\ FreshCopies' /\ Unsettled'
    BY <1>1, <1>6 DEF SoleInv, OneHand, CutOff, FreshCopies, Unsettled, Working
  <2>2. Tally'
    BY <1>1, <1>2, <1>3, <1>6 DEF SoleInv, Tally, Paid, Fail
  <2> QED
    BY <2>1, <2>2 DEF SoleInv
<1> QED
  BY <1>5, <1>6 DEF MarkLocalComplete

\* A goroutine on its way through the tables keeps its row as it is.
LEMMA FlushSole ==
    ASSUME SoleDrainer, IInv, SoleInv, NEW p \in Procs,
           SkipTable(p) \/ LoadTable(p) \/ LoadFails(p)
    PROVE  SoleInv'
<1>1. /\ pc[p] = "flush" /\ pc \in [Procs -> PCs]
      /\ applied \in [Ids -> Nat] /\ crashes \in Nat /\ failures \in Nat
      /\ pc' = pc \/ pc' = [pc EXCEPT ![p] = "markPending"]
      /\ UNCHANGED <<journal, cur, snap, applied, crashes>>
      /\ failures' = failures \/ failures' = failures + 1
  BY DEF SkipTable, LoadTable, LoadFails, Goto, IInv, TypeOK, Fail, ghostVars, faultVars
<1>2. OneHand' /\ CutOff' /\ FreshCopies'
  <2>1. \A q \in Procs : /\ pc'[q] = "idle" => pc[q] = "idle"
                         /\ pc'[q] = "reply" => pc[q] = "reply"
    BY <1>1
  <2>2. OneHand'
    BY <1>1, <2>1 DEF SoleInv, OneHand, Procs
  <2>3. CutOff' /\ FreshCopies'
    BY <1>1 DEF SoleInv, CutOff, FreshCopies
  <2> QED
    BY <2>2, <2>3
<1>4. Unsettled'
  BY <1>1 DEF SoleInv, Unsettled, Working
<1>3. Tally'
  BY <1>1 DEF SoleInv, Tally, Paid
<1> QED
  BY <1>2, <1>3, <1>4 DEF SoleInv

\* MarkEventIngestStatus settles the row, or its failure is the second.
LEMMA MarkStatusSole ==
    ASSUME SoleDrainer, IInv, SoleInv, NEW p \in Procs,
           pc[p] \in {"flush", "markPending", "markFailed"},
           NEW st \in {"accepted", "pending_doris", "failed"}, NEW d \in BOOLEAN,
           MarkStatus(p, st, d)
    PROVE  SoleInv'
<1>1. /\ pc \in [Procs -> PCs] /\ cur \in [Procs -> Ids \union {NoId}]
      /\ applied \in [Ids -> Nat] /\ crashes \in Nat /\ failures \in Nat
      /\ pc' = [pc EXCEPT ![p] = IF p \in Handlers THEN "reply" ELSE "idle"]
      /\ cur' = [cur EXCEPT ![p] = IF p \in Handlers THEN cur[p] ELSE NoId]
      /\ UNCHANGED <<snap, applied, crashes>>
      /\ failures' = failures \/ failures' = failures + 1
  BY DEF MarkStatus, Finish, IInv, TypeOK, Fail, ghostVars, faultVars
<1>2. cur[p] \in Ids /\ cur[p] # NoId /\ Exists(cur[p])
  BY <1>1, WorkingHasRow DEF Working
<1>3. \A q \in Procs : cur[q] = cur[p] => q = p
  BY <1>2 DEF SoleInv, OneHand
<1>4. \A e \in Procs : \A s \in snap[e] : s.id \in Ids /\ s.id # cur[p]
  BY <1>1 DEF SoleInv, FreshCopies, IInv, TypeOK, SnapRow, Procs
<1>5. \A q \in Procs : cur'[q] \in {cur[q], NoId} /\ (p \in Handlers => cur'[q] = cur[q])
  BY <1>1
<1>6. OneHand'
  BY <1>1, <1>5, ProcsAssumption DEF SoleInv, OneHand, Procs
<1>7. \A j \in Ids :
          /\ journal'[j].aged = journal[j].aged
          /\ j # cur[p] => journal'[j].status = journal[j].status
  <2>1. CASE Update(cur[p], st, journal[cur[p]].payload, d)
    BY <1>2, <2>1, UpdateEffect DEF IInv, TypeOK, Row, Statuses, Pending
  <2> QED
    BY <2>1 DEF MarkStatus
<1>8. \/ journal'[cur[p]].status = st
      \/ journal' = journal /\ failures' = failures + 1
  <2>1. CASE Update(cur[p], st, journal[cur[p]].payload, d)
    BY <1>2, <2>1, UpdateEffect DEF IInv, TypeOK, Row, Statuses, Pending
  <2> QED
    BY <2>1 DEF MarkStatus, Fail
<1>9. CutOff'
  <2>1. journal'[cur[p]].status # "free"
    BY <1>2, <1>8 DEF Exists
  <2> QED
    BY <1>2, <1>5, <1>7, <2>1, ProcsAssumption DEF SoleInv, CutOff, Procs
<1>10. FreshCopies'
  BY <1>1, <1>4, <1>5, <1>7, ProcsAssumption DEF SoleInv, FreshCopies, Procs
<1>11. Unsettled'
  <2>1. \A q \in Procs \ {p} : pc'[q] = pc[q] /\ cur'[q] = cur[q]
    BY <1>1
  <2>2. pc'[p] \notin Working
    BY <1>1 DEF Working
  <2>3. \A q \in Procs : pc[q] \in Working => cur[q] \in Ids
    BY DEF IInv, BusyHasRow, Working
  <2> QED
    BY <1>3, <1>7, <2>1, <2>2, <2>3 DEF SoleInv, Unsettled, Working
<1>12. Tally'
  <2> SUFFICES ASSUME NEW i \in Ids
               PROVE  /\ Paid(i, 2)'
                      /\ journal'[i].status = "free" => applied'[i] = 0
                      /\ journal'[i].status = "received" =>
                          \/ Paid(i, 0)'
                          \/ /\ Paid(i, 1)'
                             /\ \E q \in Procs : pc'[q] \in {"flush", "markPending"} /\ cur'[q] = i
                          \/ \E q \in Procs : pc'[q] = "markLocal" /\ cur'[q] = i
    BY DEF Tally
  <2>1. Paid(i, 2)'
    BY <1>1 DEF SoleInv, Tally, Paid
  <2>2. CASE i # cur[p]
    <3>1. journal'[i].status = journal[i].status
      BY <1>7, <2>2
    <3>2. \A q \in Procs : cur[q] = i => pc'[q] = pc[q] /\ cur'[q] = i
      BY <1>1, <2>2
    <3> QED
      BY <1>1, <2>1, <3>1, <3>2 DEF SoleInv, Tally, Paid
  <2>3. CASE i = cur[p]
    <3>1. CASE journal'[cur[p]].status = st
      BY <2>1, <2>3, <3>1
    <3>2. CASE journal' = journal /\ failures' = failures + 1
      <4>1. journal[i].status = "received" => Paid(i, 1)
        BY <1>1, <1>3, <2>3 DEF SoleInv, Tally, Paid
      <4>2. journal[i].status = "received" => Paid(i, 0)'
        BY <1>1, <3>2, <4>1 DEF Paid
      <4> QED
        BY <1>2, <2>1, <2>3, <3>2, <4>2 DEF Exists
    <3> QED
      BY <1>8, <3>1, <3>2
  <2> QED
    BY <2>2, <2>3
<1> QED
  BY <1>6, <1>9, <1>10, <1>11, <1>12 DEF SoleInv

\* The one drainer reads rows behind the cut-off while it holds none.
LEMMA SweepSole ==
    ASSUME SoleDrainer, IInv, SoleInv, NEW d \in Drainers, Sweep(d)
    PROVE  SoleInv'
<1>1. /\ d \in Procs /\ pc[d] = "idle" /\ snap \in [Procs -> SUBSET SnapRow]
      /\ snap' = [snap EXCEPT ![d] = {SnapOf(i) : i \in {j \in Ids : IsDue(j)}}]
      /\ UNCHANGED <<journal, applied, pc, cur, crashes, failures>>
  BY DEF Sweep, IInv, TypeOK, Procs, ghostVars, faultVars
<1>2. OneHand' /\ CutOff' /\ Unsettled' /\ Tally'
  BY <1>1 DEF SoleInv, OneHand, CutOff, Unsettled, Working, Tally, Paid
<1>3. FreshCopies'
  <2>1. \A h \in Handlers : snap'[h] = {}
    BY <1>1, ProcsAssumption DEF SoleInv, FreshCopies, Procs
  <2>2. ASSUME NEW s \in snap'[d]
        PROVE  /\ s.id \in Ids /\ s = SnapOf(s.id) /\ s.status = journal[s.id].status
               /\ journal[s.id].aged
    BY <1>1, <2>2 DEF SnapOf, IsDue
  <2>3. \A p \in Procs : cur[p] \in Ids => ~journal[cur[p]].aged
    BY <1>1, ProcsAssumption DEF SoleInv, OneHand, CutOff, SoleDrainer, Procs
  <2> QED
    BY <1>1, <2>1, <2>2, <2>3 DEF SoleDrainer, FreshCopies
<1> QED
  BY <1>2, <1>3 DEF SoleInv

\* It takes one of them up as it read it, which is how it still is.
LEMMA TakeSole ==
    ASSUME SoleDrainer, IInv, SoleInv, NEW d \in Drainers, NEW s \in snap[d],
           Replay(d, s) \/ ReplayDorisOnly(d, s) \/ ReplayUndecodable(d, s)
    PROVE  SoleInv'
<1>0. s.payload \in Forms
  BY DEF IInv, TypeOK, SnapRow, Procs
<1>1. PICK to \in Working, f \in Forms : /\ Take(d, s, to, f)
                                         /\ to # "markLocal"
                                         /\ to = "apply" => s.status = "received"
  BY <1>0 DEF Replay, ReplayDorisOnly, ReplayUndecodable, Working, Forms
<1>2. /\ d \in Procs /\ pc[d] = "idle" /\ snap \in [Procs -> SUBSET SnapRow]
      /\ pc \in [Procs -> PCs] /\ cur \in [Procs -> Ids \union {NoId}]
      /\ snap' = [snap EXCEPT ![d] = @ \ {s}]
      /\ cur' = [cur EXCEPT ![d] = s.id] /\ pc' = [pc EXCEPT ![d] = to]
      /\ UNCHANGED <<journal, applied, crashes, failures>>
  <2>1. /\ pc[d] = "idle" /\ snap' = [snap EXCEPT ![d] = @ \ {s}]
        /\ cur' = [cur EXCEPT ![d] = s.id] /\ pc' = [pc EXCEPT ![d] = to]
        /\ UNCHANGED <<journal, applied, crashes, failures>>
    BY <1>1 DEF Take, ghostVars, faultVars
  <2> QED
    BY <2>1 DEF IInv, TypeOK, Procs
<1>3. /\ s.id \in Ids /\ s.status \in Pending /\ s.status = journal[s.id].status
      /\ journal[s.id].aged /\ \A p \in Procs : cur[p] # s.id
      /\ \A t \in snap[d] : t.id = s.id => t = s
  BY <1>2 DEF SoleInv, FreshCopies, SnapRow
<1>4. OneHand'
  BY <1>1, <1>2, <1>3, ProcsAssumption DEF SoleInv, OneHand, Procs, Working
<1>5. CutOff'
  BY <1>2, <1>3, ProcsAssumption DEF SoleInv, CutOff, Procs
<1>6. FreshCopies'
  <2>1. \A h \in Handlers : snap'[h] = {}
    BY <1>2, ProcsAssumption DEF SoleInv, FreshCopies, Procs
  <2>2. ASSUME NEW t \in snap'[d], NEW p \in Procs
        PROVE  cur'[p] # t.id
    <3>1. t \in snap[d] /\ t.id # s.id
      BY <1>2, <1>3, <2>2
    <3> QED
      BY <1>2, <3>1 DEF SoleInv, FreshCopies
  <2> QED
    BY <1>2, <2>1, <2>2 DEF SoleInv, FreshCopies, SoleDrainer
<1>7. Unsettled'
  <2>1. \A p \in Procs \ {d} : pc'[p] = pc[p] /\ cur'[p] = cur[p]
    BY <1>2
  <2>2. pc'[d] = to /\ cur'[d] = s.id
    BY <1>2
  <2>3. journal' = journal
    BY <1>2
  <2> QED
    BY <1>1, <1>3, <2>1, <2>2, <2>3 DEF SoleInv, Unsettled
<1>8. Tally'
  BY <1>2, <1>3 DEF SoleInv, Tally, Paid
<1> QED
  BY <1>4, <1>5, <1>6, <1>7, <1>8 DEF SoleInv

\* Time and retention: no row in a hand passes the cut-off.
LEMMA RowTimeSole ==
    ASSUME SoleDrainer, IInv, SoleInv, NEW i \in Ids, Age(i) \/ Backoff(i) \/ Prune(i)
    PROVE  SoleInv'
<1>1. /\ journal \in [Ids -> Row] /\ Exists(i)
      /\ UNCHANGED <<pc, cur, snap, applied, crashes, failures>>
  BY DEF Age, Backoff, Prune, Exists, IInv, TypeOK, ghostVars, procVars, faultVars
<1>2. \A p \in Procs : \A s \in snap[p] : s.id \in Ids /\ s.status \in Pending
  BY DEF IInv, TypeOK, SnapRow
<1>3. CASE Age(i)
  <2>1. \A p \in Procs : cur[p] # i
    BY <1>3 DEF Age, SoleDrainer
  <2>2. \A j \in Ids : /\ journal'[j].status = journal[j].status
                       /\ journal'[j].aged = IF j = i THEN TRUE ELSE journal[j].aged
    BY <1>1, <1>3 DEF Age, Row
  <2>3. OneHand' /\ Tally'
    BY <1>1, <2>2 DEF SoleInv, OneHand, Tally, Paid
  <2>4. CutOff'
    BY <1>1, <2>1, <2>2 DEF SoleInv, CutOff, Procs, Exists
  <2>5. FreshCopies'
    <3>1. \A j \in Ids : journal[j].aged => journal'[j].aged
      BY <2>2
    <3>2. \A j \in Ids : journal'[j].status = journal[j].status
      BY <2>2
    <3> QED
      BY <1>1, <1>2, <3>1, <3>2 DEF SoleInv, FreshCopies, Procs
  <2>6. Unsettled'
    BY <1>1, <2>2 DEF SoleInv, Unsettled, Working, IInv, BusyHasRow
  <2> QED
    BY <2>3, <2>4, <2>5, <2>6 DEF SoleInv
<1>4. CASE Backoff(i)
  <2>1. \A j \in Ids : /\ journal'[j].status = journal[j].status
                       /\ journal'[j].aged = journal[j].aged
    BY <1>1, <1>4 DEF Backoff, Row
  <2>2. OneHand' /\ Tally'
    BY <1>1, <2>1 DEF SoleInv, OneHand, Tally, Paid
  <2>3. CutOff'
    BY <1>1, <2>1 DEF SoleInv, CutOff, Procs
  <2>4. FreshCopies'
    BY <1>1, <1>2, <2>1 DEF SoleInv, FreshCopies, Procs
  <2>5. Unsettled'
    BY <1>1, <2>1 DEF SoleInv, Unsettled, Working, IInv, BusyHasRow
  <2> QED
    BY <2>2, <2>3, <2>4, <2>5 DEF SoleInv
<1>5. CASE Prune(i)
  <2>1. /\ journal[i].status = "accepted"
        /\ \A j \in Ids :
             /\ journal'[j].status = IF j = i THEN "pruned" ELSE journal[j].status
             /\ journal'[j].aged = journal[j].aged
    BY <1>1, <1>5 DEF Prune, Row
  <2>2. OneHand' /\ Tally'
    BY <1>1, <2>1 DEF SoleInv, OneHand, Tally, Paid
  <2>3. CutOff'
    BY <1>1, <2>1 DEF SoleInv, CutOff, Procs
  <2>4. FreshCopies'
    BY <1>1, <1>2, <2>1 DEF SoleInv, FreshCopies, Procs, Pending
  <2>5. Unsettled'
    BY <1>1, <2>1 DEF SoleInv, Unsettled, Working, Pending, IInv, BusyHasRow
  <2> QED
    BY <2>2, <2>3, <2>4, <2>5 DEF SoleInv
<1> QED
  BY <1>3, <1>4, <1>5

\* A crash costs what its goroutines owed.
LEMMA CrashSole ==
    ASSUME SoleDrainer, IInv, SoleInv, NEW r \in Replicas, Crash(r)
    PROVE  SoleInv'
<1>1. /\ applied \in [Ids -> Nat] /\ crashes \in Nat /\ failures \in Nat
      /\ UNCHANGED <<journal, applied, failures>> /\ crashes' = crashes + 1
      /\ \A p \in Procs :
           \/ pc'[p] = "idle" /\ cur'[p] = NoId /\ snap'[p] = {}
           \/ pc'[p] = pc[p] /\ cur'[p] = cur[p] /\ snap'[p] = snap[p]
  BY DEF Crash, IInv, TypeOK, ghostVars
<1>2. \A p \in Procs : \A s \in snap[p] : s.id \in Ids
  BY DEF IInv, TypeOK, SnapRow
<1>3. OneHand'
  BY <1>1 DEF SoleInv, OneHand, Procs
<1>4. CutOff'
  BY <1>1, ProcsAssumption DEF SoleInv, CutOff, Procs
<1>5. FreshCopies'
  BY <1>1, <1>2, ProcsAssumption DEF SoleInv, FreshCopies, Procs
<1>6. Unsettled'
  BY <1>1 DEF SoleInv, Unsettled, Working
<1>7. Tally'
  BY <1>1 DEF SoleInv, Tally, Paid
<1> QED
  BY <1>3, <1>4, <1>5, <1>6, <1>7 DEF SoleInv

\* Nothing is recorded and nobody works.
LEMMA InitSole == Init => SoleInv
BY ProcsAssumption DEF Init, SoleInv, OneHand, CutOff, FreshCopies, Unsettled, Working, Tally,
   Paid, Procs

\* Every step keeps it; a receipt given for a row the journal holds touches none of it.
LEMMA NextSole ==
    ASSUME SoleDrainer, IInv, SoleInv, [Next]_vars
    PROVE  SoleInv'
<1>1. ASSUME NEW p \in Handlers, NEW k \in Keys, ReplayReceipt(p, k)
      PROVE  SoleInv'
  BY <1>1 DEF ReplayReceipt, procVars, faultVars, SoleInv, OneHand, CutOff, FreshCopies,
      Unsettled, Working, Tally, Paid
<1>2. ASSUME NEW p \in Procs, MarkAccepted(p) \/ MarkPending(p) \/ MarkFailed(p)
      PROVE  SoleInv'
  BY <1>2, MarkStatusSole DEF MarkAccepted, MarkPending, MarkFailed
<1>3. ASSUME NEW p \in Procs, FanoutStep(p)
      PROVE  SoleInv'
  BY <1>2, <1>3, ApplyLocalSole, MarkLocalSole, FlushSole DEF FanoutStep
<1>4. ASSUME NEW d \in Drainers, DrainStep(d)
      PROVE  SoleInv'
  BY <1>4, SweepSole, TakeSole DEF DrainStep
<1>5. CASE UNCHANGED vars
  BY <1>5 DEF vars, ghostVars, procVars, faultVars, SoleInv, OneHand, CutOff, FreshCopies,
      Unsettled, Working, Tally, Paid
<1> QED
  BY <1>1, <1>3, <1>4, <1>5, RecordSole, ReplySole, RowTimeSole, CrashSole DEF Next

\* What the two theorems below rest on.
LEMMA SoleInvHolds == SoleDrainer => (Spec => []SoleInv)
<1> SUFFICES ASSUME SoleDrainer
             PROVE  Spec => []SoleInv
  OBVIOUS
<1>1. IInv /\ SoleInv /\ [Next]_vars => SoleInv'
  BY NextSole
<1> QED
  BY <1>1, InitSole, IInvHolds, PTL DEF Spec

\* With one drainer, and no goroutine that outlives the cut-off, only a crash or two
\* failed writes make the local side effects of a row run again: a re-post of the
\* batch and a Doris-only replay do not.
THEOREM EffectsBounded == SoleDrainer => (Spec => []LocalEffectsBounded)
<1> SUFFICES ASSUME SoleDrainer
             PROVE  Spec => []LocalEffectsBounded
  OBVIOUS
<1>1. IInv /\ SoleInv => LocalEffectsBounded
  <2> SUFFICES ASSUME IInv, SoleInv, NEW i \in Ids
               PROVE  applied[i] =< 1 + crashes + failures \div 2
    BY DEF LocalEffectsBounded
  <2>1. applied[i] \in Nat /\ crashes \in Nat /\ failures \in Nat
    BY DEF IInv, TypeOK
  <2>2. 2 * applied[i] =< 2 * crashes + failures + 2
    BY DEF SoleInv, Tally, Paid
  <2> QED
    BY <2>1, <2>2
<1> QED
  BY <1>1, IInvHolds, SoleInvHolds, PTL

\* Under the same premise an accepted row is final: no handler and no replay puts it
\* back among the rows to replay.
THEOREM AcceptedStays == SoleDrainer => (Spec => AcceptedIsFinal)
<1> SUFFICES ASSUME SoleDrainer
             PROVE  Spec => AcceptedIsFinal
  OBVIOUS
<1> DEFINE Final == \A i \in Ids : journal[i].status \in {"accepted", "pruned"}
                                     => journal'[i].status \in {"accepted", "pruned"}
<1>1. IInv /\ SoleInv /\ [Next]_vars => [Final]_vars
  <2> SUFFICES ASSUME IInv, SoleInv, Next, NEW i \in Ids,
                      journal[i].status \in {"accepted", "pruned"}
               PROVE  journal'[i].status \in {"accepted", "pruned"}
    OBVIOUS
  <2>0. journal \in [Ids -> Row] /\ journal[i].status \notin Pending \union {"free"}
    BY DEF IInv, TypeOK, Pending
  <2>1. ASSUME NEW p \in Procs, pc[p] \in Working
        PROVE  cur[p] \in Ids /\ cur[p] # i /\ Exists(cur[p]) /\ journal[cur[p]].payload \in Forms
    BY <2>0, <2>1, WorkingHasRow DEF SoleInv, Unsettled, IInv, TypeOK, Row
  <2>2. ASSUME NEW p \in Procs, FanoutStep(p)
        PROVE  journal'[i].status = journal[i].status
    <3>1. CASE MarkLocalComplete(p)
      BY <2>1, <3>1, UpdateEffect DEF MarkLocalComplete, Working, IInv, Statuses, Pending, Forms
    <3>2. ASSUME NEW st \in Statuses, NEW d \in BOOLEAN, pc[p] \in Working, MarkStatus(p, st, d)
          PROVE  journal'[i].status = journal[i].status
      BY <2>1, <3>2, UpdateEffect DEF MarkStatus, IInv
    <3>3. CASE MarkAccepted(p) \/ MarkPending(p) \/ MarkFailed(p)
      BY <3>2, <3>3 DEF MarkAccepted, MarkPending, MarkFailed, Working, Statuses, Pending
    <3> QED
      BY <2>2, <3>1, <3>3 DEF FanoutStep, ApplyLocal, SkipTable, LoadTable, LoadFails
  <2>3. ASSUME NEW p \in Handlers, NEW k \in Keys, NEW j \in Ids, Record(p, k, j)
        PROVE  journal'[i].status = journal[i].status
    BY <2>0, <2>3 DEF Record
  <2>4. ASSUME NEW j \in Ids, Age(j) \/ Backoff(j) \/ Prune(j)
        PROVE  journal'[i].status \in {"accepted", "pruned"}
    BY <2>0, <2>4 DEF Age, Backoff, Prune, Row
  <2>5. ASSUME NEW d \in Drainers, DrainStep(d)
        PROVE  journal' = journal
    BY <2>5 DEF DrainStep, Sweep, Replay, ReplayDorisOnly, ReplayUndecodable, Take
  <2> QED
    BY <2>2, <2>3, <2>4, <2>5 DEF Next, ReplayReceipt, Reply, Crash
<1> QED
  BY <1>1, IInvHolds, SoleInvHolds, PTL DEF Spec, AcceptedIsFinal
=============================================================================
