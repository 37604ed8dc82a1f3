--------------------------- MODULE LogDumpProofs ---------------------------
(***************************************************************************)
(* Proofs about one raw log dump, for any captures, any number of chunks   *)
(* and any bounds on restarts and faults.                                  *)
(*                                                                         *)
(* The invariants of the runs say nothing of the captures and of the       *)
(* maintenance under way, so they are not inductive.  DumpInv adds what    *)
(* the code's order of steps keeps: as long as no lease ran out under a    *)
(* completion, the capture that completes is the latest one and its lease  *)
(* stands (Claims), it lists its own chunks and the artifact is its own    *)
(* (Built); the maintenance removes files and rows only of a dump that it  *)
(* made "deleting" (Cleaning); and an artifact that no row names has a     *)
(* handler that still removes it, or is stray (Leftovers).                 *)
(***************************************************************************)
EXTENDS LogDump, TLAPS

\* A dump of the control plane is never claimed, one of an agent never captured by the
\* control plane.
Roles ==
    /\ source = "node_agent" => server = "over"
    /\ source = Server => status # "capturing" /\ \A c \in Captures : pc[c] = "idle"

Claims ==
    /\ status = "capturing" => token = latest
    /\ overran = {} =>
          \A c \in Captures : pc[c] \in Completing =>
             /\ c = latest
             /\ status \notin {"requested", "captured"}
             /\ status = "capturing" => leased

Built ==
    /\ overran = {} =>
          \A c \in Captures :
             /\ pc[c] \in {"listed", "assembled"} => listed[c] = c
             /\ pc[c] = "assembled" /\ status = "capturing" => file = c
    /\ server = "start" => status # "captured"
    /\ server = "written" => status # "captured"
    /\ server = "written" /\ status = "requested" => file = Server
    /\ status = "captured" => path # None

Cleaning ==
    /\ clean = "listed" => past \/ status \in {"expired", "deleting"}
    /\ clean = "expired" => status \in {"expired", "deleting"}
    /\ clean \in {"marked", "removed"} => status = "deleting"
    /\ clean # "idle" => status # "gone"

\* Someone still has to record or to remove the artifact.
InHand == server = "written" \/ \E c \in Captures : pc[c] \in {"assembled", "discarding"}

Removed == clean = "removed" \/ status = "gone"

Leftovers ==
    /\ Removed => \A c \in Captures : chunks[c] = 0
    /\ path = None \/ Removed => file = None \/ stray \/ InHand

JobRuns ==
    source = "node_agent" /\ status \in {"requested", "capturing"} => job \in {"queued", "cancelled"}

DumpInv ==
    /\ TypeOK /\ Roles /\ Claims /\ Built /\ Cleaning /\ Leftovers
    /\ JobRuns /\ JobTellsOfArtifact /\ CapturedIsIntact

-----------------------------------------------------------------------------
(* Every action keeps DumpInv.                                             *)

\* Claim: a claim finds no completion under way, unless one overran its lease.
LEMMA ClaimKeeps ==
    ASSUME DumpInv, NEW c \in Captures, Claim(c)
    PROVE  DumpInv'
<1>1. TypeOK'
  BY DEF TypeOK, Go, fileVars, cleanVars, history, Claim, DumpInv
<1>2. Roles'
  BY DEF Roles, Server, Claim, DumpInv
<1>3. Claims'
  BY DEF Claims, Go, history, Claim, DumpInv
<1>4. Built'
  BY DEF Built, Claims, Completing, Go, history, Claim, DumpInv
<1>5. Cleaning'
  BY DEF Cleaning, cleanVars, Claim, DumpInv
<1>6. Leftovers'
  BY DEF Leftovers, Removed, InHand, Go, fileVars, cleanVars, history, Claim, DumpInv
<1>7. JobRuns'
  BY DEF JobRuns, Claim, DumpInv
<1>8. JobTellsOfArtifact'
  BY DEF JobTellsOfArtifact, Claim, DumpInv
<1>9. CapturedIsIntact'
  BY DEF CapturedIsIntact, Claim, DumpInv
<1> QED BY <1>1, <1>2, <1>3, <1>4, <1>5, <1>6, <1>7, <1>8, <1>9 DEF DumpInv

\* PutChunk: chunks are stored only while the dump is being captured.
LEMMA PutChunkKeeps ==
    ASSUME DumpInv, NEW c \in Captures, PutChunk(c)
    PROVE  DumpInv'
<1>1. TypeOK'
  BY LogDumpAssumption DEF TypeOK, rowVars, captureVars, cleanVars, history, PutChunk, DumpInv
<1>2. Leftovers'
  BY DEF Leftovers, Removed, InHand, Cleaning, Owns, rowVars, captureVars, cleanVars,
      history, PutChunk, DumpInv
<1>3. (Roles /\ Claims /\ Built /\ Cleaning /\ JobRuns /\ JobTellsOfArtifact /\
    CapturedIsIntact)'
  BY DEF Roles, Claims, Built, Cleaning, JobRuns, JobTellsOfArtifact, CapturedIsIntact,
      rowVars, captureVars, cleanVars, history, PutChunk, DumpInv
<1> QED BY <1>1, <1>2, <1>3 DEF DumpInv

\* AgentLeaves: the capture ends and leaves everything as it is.
LEMMA AgentLeavesKeeps ==
    ASSUME DumpInv, NEW c \in Captures, AgentLeaves(c)
    PROVE  DumpInv'
<1>1. TypeOK'
  BY DEF TypeOK, Go, rowVars, fileVars, cleanVars, history, AgentLeaves, DumpInv
<1>2. Roles'
  BY DEF Roles, rowVars, AgentLeaves, DumpInv
<1>3. Claims'
  BY DEF Claims, Completing, Go, rowVars, history, AgentLeaves, DumpInv
<1>4. Built'
  BY DEF Built, Go, rowVars, fileVars, history, AgentLeaves, DumpInv
<1>5. Leftovers'
  BY DEF Leftovers, Removed, InHand, Go, rowVars, fileVars, cleanVars, history, AgentLeaves,
      DumpInv
<1>6. (Cleaning /\ JobRuns /\ JobTellsOfArtifact /\ CapturedIsIntact)'
  BY DEF Cleaning, JobRuns, JobTellsOfArtifact, CapturedIsIntact, rowVars, fileVars,
      cleanVars, history, AgentLeaves, DumpInv
<1> QED BY <1>1, <1>2, <1>3, <1>4, <1>5, <1>6 DEF DumpInv

\* AgentFails: its chunks go with the capture that failed.
LEMMA AgentFailsKeeps ==
    ASSUME DumpInv, NEW c \in Captures, AgentFails(c)
    PROVE  DumpInv'
<1>1. TypeOK'
  <2>1. chunks' \in [Captures -> 0 .. Chunks]
    BY LogDumpAssumption DEF DropChunks, AgentFails
  <2>2. pc' \in [Captures -> {"idle", "claimed", "cleaning", "ended"} \union Completing]
    BY DEF Go, AgentFails, TypeOK, DumpInv
  <2>3. job' \in {None, "queued", "succeeded", "failed", "cancelled"}
    BY DEF EndJob, AgentFails, TypeOK, DumpInv
  <2> QED
    BY <2>1, <2>2, <2>3 DEF cleanVars, history, AgentFails, TypeOK, DumpInv
<1>2. Roles'
  BY DEF Roles, AgentFails, DumpInv
<1>3. Claims'
  BY DEF Claims, Go, Owns, history, AgentFails, DumpInv
<1>4. Built'
  BY DEF Built, Go, history, AgentFails, DumpInv
<1>5. Cleaning'
  BY DEF Cleaning, Owns, cleanVars, AgentFails, DumpInv
<1>6. Leftovers'
  BY DEF Leftovers, Removed, InHand, Go, DropChunks, cleanVars, history, AgentFails, DumpInv
<1>7. JobRuns'
  BY DEF JobRuns, AgentFails, DumpInv
<1>8. JobTellsOfArtifact'
  BY DEF JobTellsOfArtifact, EndJob, Owns, AgentFails, DumpInv
<1>9. CapturedIsIntact'
  BY DEF CapturedIsIntact, AgentFails, DumpInv
<1> QED BY <1>1, <1>2, <1>3, <1>4, <1>5, <1>6, <1>7, <1>8, <1>9 DEF DumpInv

\* Renew: from here on the capture completes, with its lease renewed.
LEMMA RenewKeeps ==
    ASSUME DumpInv, NEW c \in Captures, Renew(c)
    PROVE  DumpInv'
<1>1. TypeOK'
  BY DEF TypeOK, Completing, Go, rowVars, fileVars, cleanVars, history, Renew, DumpInv
<1>2. Roles'
  BY DEF Roles, rowVars, Renew, DumpInv
<1>3. Claims'
  BY DEF Claims, Go, Owns, rowVars, history, Renew, DumpInv
<1>4. Built'
  BY DEF Built, Go, rowVars, fileVars, history, Renew, DumpInv
<1>5. Leftovers'
  BY DEF Leftovers, Removed, InHand, Go, rowVars, fileVars, cleanVars, history, Renew, DumpInv
<1>6. (Cleaning /\ JobRuns /\ JobTellsOfArtifact /\ CapturedIsIntact)'
  BY DEF Cleaning, JobRuns, JobTellsOfArtifact, CapturedIsIntact, rowVars, fileVars,
      cleanVars, history, Renew, DumpInv
<1> QED BY <1>1, <1>2, <1>3, <1>4, <1>5, <1>6 DEF DumpInv

\* ListChunks: the chunks of the current generation are its own.
LEMMA ListChunksKeeps ==
    ASSUME DumpInv, NEW c \in Captures, ListChunks(c)
    PROVE  DumpInv'
<1>1. TypeOK'
  BY DEF TypeOK, Completing, Go, rowVars, fileVars, cleanVars, history, ListChunks, DumpInv
<1>2. Roles'
  BY DEF Roles, rowVars, ListChunks, DumpInv
<1>3. Claims'
  BY DEF Claims, TypeOK, Go, rowVars, history, ListChunks, DumpInv
<1>4. Built'
  BY DEF Built, Claims, TypeOK, Go, rowVars, fileVars, history, ListChunks, DumpInv
<1>5. Leftovers'
  BY DEF Leftovers, Removed, InHand, TypeOK, Go, rowVars, fileVars, cleanVars, history,
      ListChunks, DumpInv
<1>6. (Cleaning /\ JobRuns /\ JobTellsOfArtifact /\ CapturedIsIntact)'
  BY DEF Cleaning, JobRuns, JobTellsOfArtifact, CapturedIsIntact, rowVars, fileVars,
      cleanVars, history, ListChunks, DumpInv
<1> QED BY <1>1, <1>2, <1>3, <1>4, <1>5, <1>6 DEF DumpInv

\* Assemble: the artifact is the one of the capture that completes.
LEMMA AssembleKeeps ==
    ASSUME DumpInv, NEW c \in Captures, Assemble(c)
    PROVE  DumpInv'
<1>1. TypeOK'
  BY DEF TypeOK, Completing, Go, rowVars, cleanVars, history, Assemble, DumpInv
<1>2. Roles'
  BY DEF Roles, rowVars, Assemble, DumpInv
<1>3. Claims'
  BY DEF Claims, TypeOK, Go, rowVars, history, Assemble, DumpInv
<1>4. Built'
  BY DEF Built, Claims, Roles, TypeOK, Go, rowVars, history, Assemble, DumpInv
<1>5. Leftovers'
  BY DEF Leftovers, Removed, InHand, TypeOK, Go, rowVars, cleanVars, history, Assemble, DumpInv
<1>6. CapturedIsIntact'
  BY DEF CapturedIsIntact, Claims, Completing, rowVars, history, Assemble, DumpInv
<1>7. (Cleaning /\ JobRuns /\ JobTellsOfArtifact)'
  BY DEF Cleaning, JobRuns, JobTellsOfArtifact, rowVars, cleanVars, history, Assemble, DumpInv
<1> QED BY <1>1, <1>2, <1>3, <1>4, <1>5, <1>6, <1>7 DEF DumpInv

\* Complete: the row names the artifact that is there.
LEMMA CompleteKeeps ==
    ASSUME DumpInv, NEW c \in Captures, Complete(c)
    PROVE  DumpInv'
<1>1. TypeOK'
  <2>1. pc' \in [Captures -> {"idle", "claimed", "cleaning", "ended"} \union Completing]
    BY DEF Go, Completing, Complete, TypeOK, DumpInv
  <2>2. job' \in {None, "queued", "succeeded", "failed", "cancelled"}
    BY DEF EndJob, Complete, TypeOK, DumpInv
  <2>3. faults' \in 0 .. MaxFaults
    BY LogDumpAssumption DEF Fault, Complete, TypeOK, DumpInv
  <2>4. path' \in Captures \union {None, Server} /\ token' \in Captures \union {None}
    BY DEF Complete, TypeOK, DumpInv
  <2>5. status' \in {status, "captured"} /\ leased' \in {leased, FALSE}
    BY DEF Complete
  <2>6. UNCHANGED <<source, latest, past, file, chunks, listed, server, cancel, clean, knows,
                    overran, stray, crashes>>
    BY DEF fileVars, cleanVars, Complete
  <2>7. TypeOK
    BY DEF DumpInv
  <2>8. {token', latest'} \subseteq Captures \union {None}
    BY <2>4, <2>6, <2>7 DEF TypeOK
  <2>9. {path', file'} \subseteq Captures \union {None, Server}
    BY <2>4, <2>6, <2>7 DEF TypeOK
  <2>10. {leased', past', knows', stray'} \subseteq BOOLEAN
    BY <2>5, <2>6, <2>7 DEF TypeOK
  <2>11. status' \in {"requested", "capturing", "captured", "failed", "expired", "deleting", "gone"}
    BY <2>5, <2>7 DEF TypeOK
  <2> QED
    BY <2>1, <2>2, <2>3, <2>6, <2>7, <2>8, <2>9, <2>10, <2>11 DEF TypeOK
<1>2. Roles'
  BY DEF Roles, Complete, DumpInv
<1>3. Claims'
  BY DEF Claims, TypeOK, Completing, Go, Complete, DumpInv
<1>4. Built'
  BY LogDumpAssumption DEF Built, Roles, TypeOK, Go, Complete, DumpInv
<1>5. Cleaning'
  BY DEF Cleaning, cleanVars, Complete, DumpInv
<1>6. Leftovers'
  <2>1. Removed' => Removed
    BY DEF Removed, cleanVars, Complete, DumpInv
  <2>2. CASE path' = None \/ Removed'
    <3>1. pc'[c] = "discarding" /\ path' = path
      BY <2>1, <2>2, LogDumpAssumption
      DEF Go, Removed, Cleaning, Built, None, cleanVars, Complete, TypeOK, DumpInv
    <3> QED
      BY <3>1 DEF Leftovers, InHand, Removed, fileVars, cleanVars, Complete, DumpInv
  <2>3. CASE ~(path' = None \/ Removed')
    BY <2>3 DEF Leftovers
  <2> QED
    BY <2>2, <2>3
<1>7. JobRuns'
  BY DEF JobRuns, Complete, DumpInv
<1>8. JobTellsOfArtifact'
  BY LogDumpAssumption DEF JobTellsOfArtifact, JobRuns, EndJob, Complete, DumpInv
<1>9. CapturedIsIntact'
  BY DEF CapturedIsIntact, Built, fileVars, Complete, DumpInv
<1> QED BY <1>1, <1>2, <1>3, <1>4, <1>5, <1>6, <1>7, <1>8, <1>9 DEF DumpInv

\* Discard: an artifact is removed that no captured row names, unless a lease was overrun.
LEMMA DiscardKeeps ==
    ASSUME DumpInv, NEW c \in Captures, Discard(c)
    PROVE  DumpInv'
<1>1. TypeOK'
  BY DEF TypeOK, Go, rowVars, cleanVars, history, Discard, DumpInv
<1>2. Roles'
  BY DEF Roles, rowVars, Discard, DumpInv
<1>3. Claims'
  BY DEF Claims, Completing, Go, rowVars, history, Discard, DumpInv
<1>4. Built'
  BY DEF Built, Claims, Roles, TypeOK, Go, rowVars, history, Discard, DumpInv
<1>5. Leftovers'
  BY DEF Leftovers, Removed, rowVars, cleanVars, Discard, DumpInv
<1>6. CapturedIsIntact'
  BY DEF CapturedIsIntact, Claims, Completing, rowVars, history, Discard, DumpInv
<1>7. (Cleaning /\ JobRuns /\ JobTellsOfArtifact)'
  BY DEF Cleaning, JobRuns, JobTellsOfArtifact, rowVars, cleanVars, history, Discard, DumpInv
<1> QED BY <1>1, <1>2, <1>3, <1>4, <1>5, <1>6, <1>7 DEF DumpInv

\* RemoveChunks: no one needs the chunks of a capture that is over.
LEMMA RemoveChunksKeeps ==
    ASSUME DumpInv, NEW c \in Captures, RemoveChunks(c)
    PROVE  DumpInv'
<1>1. TypeOK'
  BY LogDumpAssumption DEF TypeOK, Go, DropChunks, rowVars, cleanVars, history, RemoveChunks,
      DumpInv
<1>2. Roles'
  BY DEF Roles, rowVars, RemoveChunks, DumpInv
<1>3. Claims'
  BY DEF Claims, Completing, Go, rowVars, history, RemoveChunks, DumpInv
<1>4. Built'
  BY DEF Built, Go, rowVars, history, RemoveChunks, DumpInv
<1>5. Leftovers'
  BY DEF Leftovers, Removed, InHand, Go, DropChunks, rowVars, cleanVars, history,
      RemoveChunks, DumpInv
<1>6. (Cleaning /\ JobRuns /\ JobTellsOfArtifact /\ CapturedIsIntact)'
  BY DEF Cleaning, JobRuns, JobTellsOfArtifact, CapturedIsIntact, rowVars, cleanVars,
      history, RemoveChunks, DumpInv
<1> QED BY <1>1, <1>2, <1>3, <1>4, <1>5, <1>6 DEF DumpInv

\* ServerWrites: the artifact is written before the row names it.
LEMMA ServerWritesKeeps ==
    ASSUME DumpInv, ServerWrites
    PROVE  DumpInv'
<1>1. TypeOK'
  BY DEF TypeOK, cleanVars, history, ServerWrites, DumpInv
<1>2. Roles'
  BY DEF Roles, ServerWrites, DumpInv
<1>3. Claims'
  BY DEF Claims, history, ServerWrites, DumpInv
<1>4. Built'
  BY DEF Built, Roles, TypeOK, ServerWrites, DumpInv
<1>5. Cleaning'
  BY DEF Cleaning, cleanVars, ServerWrites, DumpInv
<1>6. Leftovers'
  BY DEF Leftovers, Removed, InHand, cleanVars, history, ServerWrites, DumpInv
<1>7. JobRuns'
  BY DEF JobRuns, ServerWrites, DumpInv
<1>8. JobTellsOfArtifact'
  BY DEF JobTellsOfArtifact, ServerWrites, DumpInv
<1>9. CapturedIsIntact'
  BY DEF CapturedIsIntact, Built, ServerWrites, DumpInv
<1> QED BY <1>1, <1>2, <1>3, <1>4, <1>5, <1>6, <1>7, <1>8, <1>9 DEF DumpInv

\* ServerMarks: the row names what was written, or that is removed.
LEMMA ServerMarksKeeps ==
    ASSUME DumpInv, ServerMarks
    PROVE  DumpInv'
<1>1. TypeOK'
  BY LogDumpAssumption DEF TypeOK, Fault, cleanVars, ServerMarks, DumpInv
<1>2. Roles'
  BY DEF Roles, ServerMarks, DumpInv
<1>3. Claims'
  BY DEF Claims, ServerMarks, DumpInv
<1>4. Built'
  BY DEF Built, Roles, TypeOK, None, Server, ServerMarks, DumpInv
<1>5. Cleaning'
  BY DEF Cleaning, cleanVars, ServerMarks, DumpInv
<1>6. Leftovers'
  BY DEF Leftovers, Removed, Cleaning, None, Server, cleanVars, ServerMarks, DumpInv
<1>7. JobRuns'
  BY DEF JobRuns, ServerMarks, DumpInv
<1>8. JobTellsOfArtifact'
  BY DEF JobTellsOfArtifact, Roles, ServerMarks, DumpInv
<1>9. CapturedIsIntact'
  BY DEF CapturedIsIntact, Built, ServerMarks, DumpInv
<1> QED BY <1>1, <1>2, <1>3, <1>4, <1>5, <1>6, <1>7, <1>8, <1>9 DEF DumpInv

\* CancelReads: nothing is written yet.
LEMMA CancelReadsKeeps ==
    ASSUME DumpInv, CancelReads
    PROVE  DumpInv'
<1>1. TypeOK'
  BY DEF TypeOK, rowVars, fileVars, captureVars, cleanVars, history, CancelReads, DumpInv
<1>2. (Roles /\ Claims /\ Built /\ Cleaning /\ Leftovers /\ JobRuns /\ JobTellsOfArtifact /\
    CapturedIsIntact)'
  BY DEF Roles, Claims, Built, Cleaning, Leftovers, JobRuns, JobTellsOfArtifact,
      CapturedIsIntact, Removed, InHand, rowVars, fileVars, captureVars, cleanVars, history,
          CancelReads, DumpInv
<1> QED BY <1>1, <1>2 DEF DumpInv

\* CancelWrites: a cancelled job agrees with any dump.
LEMMA CancelWritesKeeps ==
    ASSUME DumpInv, CancelWrites
    PROVE  DumpInv'
<1>1. TypeOK'
  BY DEF TypeOK, fileVars, captureVars, cleanVars, history, CancelWrites, DumpInv
<1>2. JobRuns'
  BY DEF JobRuns, CancelWrites, DumpInv
<1>3. JobTellsOfArtifact'
  BY DEF JobTellsOfArtifact, CancelWrites, DumpInv
<1>4. (Roles /\ Claims /\ Built /\ Cleaning /\ Leftovers /\ CapturedIsIntact)'
  BY DEF Roles, Claims, Built, Cleaning, Leftovers, CapturedIsIntact, Removed, InHand,
      fileVars, captureVars, cleanVars, history, CancelWrites, DumpInv
<1> QED BY <1>1, <1>2, <1>3, <1>4 DEF DumpInv

\* ClaimExpires: a completion whose lease ends is counted in overran.
LEMMA ClaimExpiresKeeps ==
    ASSUME DumpInv, ClaimExpires
    PROVE  DumpInv'
<1>1. TypeOK'
  <2>1. overran' \subseteq Captures /\ leased' = FALSE
    BY DEF ClaimExpires, TypeOK, DumpInv
  <2>2. UNCHANGED <<source, status, job, token, latest, past, path, file, chunks, pc, listed,
                    server, cancel, clean, knows, stray, crashes, faults>>
    BY DEF fileVars, captureVars, cleanVars, ClaimExpires
  <2>3. TypeOK
    BY DEF DumpInv
  <2>4. {leased', past', knows', stray'} \subseteq BOOLEAN
    BY <2>1, <2>2, <2>3 DEF TypeOK
  <2>5. {token', latest'} \subseteq Captures \union {None}
    BY <2>2, <2>3 DEF TypeOK
  <2>6. {path', file'} \subseteq Captures \union {None, Server}
    BY <2>2, <2>3 DEF TypeOK
  <2> QED
    BY <2>1, <2>2, <2>3, <2>4, <2>5, <2>6 DEF TypeOK
<1>2. Claims'
  BY DEF Claims, captureVars, ClaimExpires, DumpInv
<1>3. Built'
  BY DEF Built, fileVars, captureVars, ClaimExpires, DumpInv
<1>4. CapturedIsIntact'
  BY DEF CapturedIsIntact, fileVars, ClaimExpires, DumpInv
<1>5. (Roles /\ Cleaning /\ Leftovers /\ JobRuns /\ JobTellsOfArtifact)'
  BY DEF Roles, Cleaning, Leftovers, JobRuns, JobTellsOfArtifact, Removed, InHand, fileVars,
      captureVars, cleanVars, ClaimExpires, DumpInv
<1> QED BY <1>1, <1>2, <1>3, <1>4, <1>5 DEF DumpInv

\* RetentionEnds: only time passes.
LEMMA RetentionEndsKeeps ==
    ASSUME DumpInv, RetentionEnds
    PROVE  DumpInv'
<1>1. TypeOK'
  BY DEF TypeOK, fileVars, captureVars, cleanVars, history, RetentionEnds, DumpInv
<1>2. Cleaning'
  BY DEF Cleaning, cleanVars, RetentionEnds, DumpInv
<1>3. (Roles /\ Claims /\ Built /\ Leftovers /\ JobRuns /\ JobTellsOfArtifact /\
    CapturedIsIntact)'
  BY DEF Roles, Claims, Built, Leftovers, JobRuns, JobTellsOfArtifact, CapturedIsIntact,
      Removed, InHand, fileVars, captureVars, cleanVars, history, RetentionEnds, DumpInv
<1> QED BY <1>1, <1>2, <1>3 DEF DumpInv

\* ReadExpires: a read expires what is past its retention.
LEMMA ReadExpiresKeeps ==
    ASSUME DumpInv, ReadExpires
    PROVE  DumpInv'
<1>1. TypeOK'
  BY DEF TypeOK, Expire, EndJob, fileVars, captureVars, cleanVars, history, ReadExpires, DumpInv
<1>2. Roles'
  BY DEF Roles, Expire, captureVars, ReadExpires, DumpInv
<1>3. Claims'
  BY DEF Claims, Expire, captureVars, history, ReadExpires, DumpInv
<1>4. Built'
  BY DEF Built, Expire, captureVars, history, ReadExpires, DumpInv
<1>5. Cleaning'
  BY DEF Cleaning, Expire, cleanVars, ReadExpires, DumpInv
<1>6. Leftovers'
  BY DEF Leftovers, Removed, InHand, Expire, fileVars, captureVars, cleanVars, history,
      ReadExpires, DumpInv
<1>7. JobRuns'
  BY DEF JobRuns, Expire, ReadExpires, DumpInv
<1>8. JobTellsOfArtifact'
  BY DEF JobTellsOfArtifact, Expire, EndJob, ReadExpires, DumpInv
<1>9. CapturedIsIntact'
  BY DEF CapturedIsIntact, Expire, ReadExpires, DumpInv
<1> QED BY <1>1, <1>2, <1>3, <1>4, <1>5, <1>6, <1>7, <1>8, <1>9 DEF DumpInv

\* TimeOut: a capture ends, and its job with it.
LEMMA TimeOutKeeps ==
    ASSUME DumpInv, TimeOut
    PROVE  DumpInv'
<1>1. TypeOK'
  BY DEF TypeOK, EndJob, fileVars, captureVars, cleanVars, history, TimeOut, DumpInv
<1>2. Roles'
  BY DEF Roles, captureVars, TimeOut, DumpInv
<1>3. Claims'
  BY DEF Claims, captureVars, history, TimeOut, DumpInv
<1>4. Built'
  BY DEF Built, captureVars, history, TimeOut, DumpInv
<1>5. Cleaning'
  BY DEF Cleaning, cleanVars, TimeOut, DumpInv
<1>6. Leftovers'
  BY DEF Leftovers, Removed, InHand, fileVars, captureVars, cleanVars, history, TimeOut, DumpInv
<1>7. JobRuns'
  BY DEF JobRuns, TimeOut, DumpInv
<1>8. JobTellsOfArtifact'
  BY DEF JobTellsOfArtifact, EndJob, TimeOut, DumpInv
<1>9. CapturedIsIntact'
  BY DEF CapturedIsIntact, TimeOut, DumpInv
<1> QED BY <1>1, <1>2, <1>3, <1>4, <1>5, <1>6, <1>7, <1>8, <1>9 DEF DumpInv

\* ListCandidate: the copy is of a dump that is past its retention or being deleted.
LEMMA ListCandidateKeeps ==
    ASSUME DumpInv, ListCandidate
    PROVE  DumpInv'
<1>1. TypeOK'
  BY DEF TypeOK, rowVars, fileVars, captureVars, history, ListCandidate, DumpInv
<1>2. Cleaning'
  BY DEF Cleaning, rowVars, ListCandidate, DumpInv
<1>3. Leftovers'
  BY DEF Leftovers, Removed, InHand, rowVars, fileVars, captureVars, history, ListCandidate,
      DumpInv
<1>4. (Roles /\ Claims /\ Built /\ JobRuns /\ JobTellsOfArtifact /\ CapturedIsIntact)'
  BY DEF Roles, Claims, Built, JobRuns, JobTellsOfArtifact, CapturedIsIntact, rowVars,
      fileVars, captureVars, history, ListCandidate, DumpInv
<1> QED BY <1>1, <1>2, <1>3, <1>4 DEF DumpInv

\* ExpireCandidate: after it the dump is expired or being deleted.
LEMMA ExpireCandidateKeeps ==
    ASSUME DumpInv, ExpireCandidate
    PROVE  DumpInv'
<1>1. TypeOK'
  BY DEF TypeOK, Expire, EndJob, fileVars, captureVars, history, ExpireCandidate, DumpInv
<1>2. Roles'
  BY DEF Roles, Expire, captureVars, ExpireCandidate, DumpInv
<1>3. Claims'
  BY DEF Claims, Expire, captureVars, history, ExpireCandidate, DumpInv
<1>4. Built'
  BY DEF Built, Expire, fileVars, captureVars, history, ExpireCandidate, DumpInv
<1>5. Cleaning'
  BY DEF Cleaning, Expire, ExpireCandidate, DumpInv
<1>6. Leftovers'
  BY DEF Leftovers, Removed, InHand, Expire, fileVars, captureVars, history, ExpireCandidate,
      DumpInv
<1>7. JobRuns'
  BY DEF JobRuns, Expire, ExpireCandidate, DumpInv
<1>8. JobTellsOfArtifact'
  BY DEF JobTellsOfArtifact, Expire, EndJob, ExpireCandidate, DumpInv
<1>9. CapturedIsIntact'
  BY DEF CapturedIsIntact, Expire, fileVars, history, ExpireCandidate, DumpInv
<1> QED BY <1>1, <1>2, <1>3, <1>4, <1>5, <1>6, <1>7, <1>8, <1>9 DEF DumpInv

\* MarkDeleting: after it the dump is being deleted.
LEMMA MarkDeletingKeeps ==
    ASSUME DumpInv, MarkDeleting
    PROVE  DumpInv'
<1>1. TypeOK'
  BY DEF TypeOK, fileVars, captureVars, history, MarkDeleting, DumpInv
<1>2. Roles'
  BY DEF Roles, captureVars, MarkDeleting, DumpInv
<1>3. Claims'
  BY DEF Claims, captureVars, history, MarkDeleting, DumpInv
<1>4. Built'
  BY DEF Built, captureVars, history, MarkDeleting, DumpInv
<1>5. Cleaning'
  BY DEF Cleaning, MarkDeleting, DumpInv
<1>6. Leftovers'
  BY DEF Leftovers, Removed, InHand, fileVars, captureVars, history, MarkDeleting, DumpInv
<1>7. JobRuns'
  BY DEF JobRuns, MarkDeleting, DumpInv
<1>8. JobTellsOfArtifact'
  BY DEF JobTellsOfArtifact, MarkDeleting, DumpInv
<1>9. CapturedIsIntact'
  BY DEF CapturedIsIntact, MarkDeleting, DumpInv
<1> QED BY <1>1, <1>2, <1>3, <1>4, <1>5, <1>6, <1>7, <1>8, <1>9 DEF DumpInv

\* RemoveFiles: what no row names is stray, or a handler's.
LEMMA RemoveFilesKeeps ==
    ASSUME DumpInv, RemoveFiles
    PROVE  DumpInv'
<1>1. TypeOK'
  <2>1. chunks' \in [Captures -> 0 .. Chunks]
    BY LogDumpAssumption DEF DropChunks, fileVars, RemoveFiles, TypeOK, DumpInv
  <2>2. file' \in Captures \union {None, Server} /\ stray' \in BOOLEAN
    BY DEF fileVars, rowVars, RemoveFiles, TypeOK, DumpInv
  <2>3. faults' \in 0 .. MaxFaults
    BY LogDumpAssumption DEF Fault, RemoveFiles, TypeOK, DumpInv
  <2> QED
    BY <2>1, <2>2, <2>3 DEF rowVars, captureVars, RemoveFiles, TypeOK, DumpInv
<1>2. Built'
  <2>1. status = "deleting" /\ UNCHANGED <<status, pc, listed, server, overran>>
    BY DEF Cleaning, rowVars, captureVars, RemoveFiles, DumpInv
  <2> QED
    BY <2>1 DEF Built, DumpInv
<1>3. Cleaning'
  BY DEF Cleaning, rowVars, RemoveFiles, DumpInv
<1>4. Leftovers'
  BY DEF Leftovers, Removed, InHand, DropChunks, rowVars, fileVars, captureVars, RemoveFiles,
      DumpInv
<1>5. CapturedIsIntact'
  BY DEF CapturedIsIntact, Cleaning, rowVars, RemoveFiles, DumpInv
<1>6. (Roles /\ Claims /\ JobRuns /\ JobTellsOfArtifact)'
  BY DEF Roles, Claims, JobRuns, JobTellsOfArtifact, rowVars, fileVars, captureVars,
      RemoveFiles, DumpInv
<1> QED BY <1>1, <1>2, <1>3, <1>4, <1>5, <1>6 DEF DumpInv

\* DeleteRow: the row goes after the files.
LEMMA DeleteRowKeeps ==
    ASSUME DumpInv, DeleteRow
    PROVE  DumpInv'
<1>1. TypeOK'
  BY DEF TypeOK, fileVars, captureVars, history, DeleteRow, DumpInv
<1>2. Roles'
  BY DEF Roles, captureVars, DeleteRow, DumpInv
<1>3. Claims'
  BY DEF Claims, captureVars, history, DeleteRow, DumpInv
<1>4. Built'
  BY DEF Built, captureVars, history, DeleteRow, DumpInv
<1>5. Cleaning'
  BY DEF Cleaning, DeleteRow, DumpInv
<1>6. Leftovers'
  BY DEF Leftovers, Removed, InHand, fileVars, captureVars, history, DeleteRow, DumpInv
<1>7. JobRuns'
  BY DEF JobRuns, DeleteRow, DumpInv
<1>8. JobTellsOfArtifact'
  BY DEF JobTellsOfArtifact, DeleteRow, DumpInv
<1>9. CapturedIsIntact'
  BY DEF CapturedIsIntact, DeleteRow, DumpInv
<1> QED BY <1>1, <1>2, <1>3, <1>4, <1>5, <1>6, <1>7, <1>8, <1>9 DEF DumpInv

\* Crash: what the handlers had in hand is stray.
LEMMA CrashKeeps ==
    ASSUME DumpInv, Crash
    PROVE  DumpInv'
<1>1. TypeOK'
  BY LogDumpAssumption DEF TypeOK, rowVars, fileVars, Crash, DumpInv
<1>2. Roles'
  BY DEF Roles, Completing, rowVars, Crash, DumpInv
<1>3. Claims'
  BY DEF Claims, Completing, rowVars, Crash, DumpInv
<1>4. Built'
  BY DEF Built, rowVars, fileVars, Crash, DumpInv
<1>5. Cleaning'
  BY DEF Cleaning, Crash, DumpInv
<1>6. Leftovers'
  BY DEF Leftovers, Removed, InHand, rowVars, fileVars, Crash, DumpInv
<1>7. (JobRuns /\ JobTellsOfArtifact /\ CapturedIsIntact)'
  BY DEF JobRuns, JobTellsOfArtifact, CapturedIsIntact, rowVars, fileVars, Crash, DumpInv
<1> QED BY <1>1, <1>2, <1>3, <1>4, <1>5, <1>6, <1>7 DEF DumpInv
LEMMA InitIsGood == Init => DumpInv
PROOF
<1> SUFFICES ASSUME Init PROVE DumpInv
  OBVIOUS
<1>1. TypeOK
  <2>1. 0 \in 0 .. Chunks /\ crashes \in 0 .. MaxCrashes /\ faults \in 0 .. MaxFaults
    BY LogDumpAssumption DEF Init
  <2> QED
    BY <2>1 DEF Init, TypeOK, Server, None
<1>2. Roles /\ JobRuns /\ JobTellsOfArtifact /\ CapturedIsIntact
  BY DEF Init, Roles, JobRuns, JobTellsOfArtifact, CapturedIsIntact, Server, None
<1>3. Claims /\ Built /\ Cleaning /\ Leftovers
  BY DEF Init, Claims, Built, Cleaning, Leftovers, Removed, InHand, Completing
<1> QED BY <1>1, <1>2, <1>3 DEF DumpInv

LEMMA StutterKeeps ==
    ASSUME DumpInv, UNCHANGED vars
    PROVE  DumpInv'
PROOF
<1>1. TypeOK'
  BY DEF DumpInv, TypeOK, vars, rowVars, fileVars, captureVars, cleanVars, history
<1>2. (Roles /\ Claims /\ Built /\ Cleaning)'
  BY DEF DumpInv, Roles, Claims, Built, Cleaning, vars, rowVars, fileVars, captureVars,
         cleanVars, history
<1>3. (Leftovers /\ JobRuns /\ JobTellsOfArtifact /\ CapturedIsIntact)'
  BY DEF DumpInv, Leftovers, Removed, InHand, JobRuns, JobTellsOfArtifact, CapturedIsIntact,
         vars, rowVars, fileVars, captureVars, cleanVars, history
<1> QED BY <1>1, <1>2, <1>3 DEF DumpInv

LEMMA StepKeeps ==
    ASSUME DumpInv, Next
    PROVE  DumpInv'
PROOF
<1>1. ASSUME NEW c \in Captures, Acts(c) PROVE DumpInv'
  BY <1>1, ClaimKeeps, PutChunkKeeps, AgentLeavesKeeps, AgentFailsKeeps, RenewKeeps,
     ListChunksKeeps, AssembleKeeps, CompleteKeeps, DiscardKeeps, RemoveChunksKeeps
  DEF Acts, Handles
<1>2. CASE Maintains
  BY <1>2, ListCandidateKeeps, ExpireCandidateKeeps, MarkDeletingKeeps, RemoveFilesKeeps,
     DeleteRowKeeps DEF Maintains
<1> QED
  BY <1>1, <1>2, ServerWritesKeeps, ServerMarksKeeps, CancelReadsKeeps, CancelWritesKeeps,
     ClaimExpiresKeeps, RetentionEndsKeeps, ReadExpiresKeeps, TimeOutKeeps, CrashKeeps
  DEF Next

LEMMA AlwaysDumpInv == Spec => []DumpInv
PROOF
<1>1. DumpInv /\ [Next]_vars => DumpInv'
  BY StepKeeps, StutterKeeps
<1> QED BY InitIsGood, <1>1, PTL DEF Spec

-----------------------------------------------------------------------------
(* The results.                                                            *)

\* The row, its job, the artifact and everyone who writes them stay in their types.
THEOREM DumpTyped == Spec => []TypeOK
PROOF
<1>1. DumpInv => TypeOK
  BY DEF DumpInv
<1> QED BY <1>1, AlwaysDumpInv, PTL

\* The artifact of a captured dump is the one its row names: no failed commit, stale
\* completion or maintenance removed or replaced it, unless a completion went on after
\* its lease ran out.
THEOREM CapturedStaysIntact == Spec => []CapturedIsIntact
PROOF
<1>1. DumpInv => CapturedIsIntact
  BY DEF DumpInv
<1> QED BY <1>1, AlwaysDumpInv, PTL

\* A dump is captured only with a job that succeeded or was cancelled, and a job succeeds
\* only with an artifact, whatever cancellation, time-out and expiry do to either.
THEOREM JobAndArtifactAgree == Spec => []JobTellsOfArtifact
PROOF
<1>1. DumpInv => JobTellsOfArtifact
  BY DEF DumpInv
<1> QED BY <1>1, AlwaysDumpInv, PTL

\* A deleted dump leaves no chunk, and no artifact but a stray one, once the handlers
\* that were under way have ended.
THEOREM NothingStays == Spec => []NothingLeftBehind
PROOF
<1>1. DumpInv => NothingLeftBehind
  BY DEF DumpInv, Leftovers, Removed, InHand, Completing, NothingLeftBehind
<1> QED BY <1>1, AlwaysDumpInv, PTL

=============================================================================
