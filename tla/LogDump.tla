------------------------------ MODULE LogDump ------------------------------
(***************************************************************************)
(* One raw log dump: its row, its job, the artifact on disk and everyone   *)
(* who writes them.  An agent claims the dump, uploads chunks and asks for *)
(* completion; a lease lets the next agent take over; an operator may      *)
(* cancel the job; the maintenance of the control plane times captures out *)
(* and deletes what has expired.                                           *)
(*                                                                         *)
(* A handler reads the clock once, when it starts, and the artifact has    *)
(* one path per dump whoever writes it.  Row changes are single statements *)
(* or transactions and atomic; files and rows are not written together.    *)
(***************************************************************************)
EXTENDS Integers, FiniteSets

CONSTANTS
    Captures,     \* runs of executeLogDumpAction, each with the generation it claims
    Chunks,       \* chunks of a capture
    MaxCrashes,   \* bound on restarts of the control plane
    MaxFaults     \* bound on files that cannot be removed and commits that fail

None == "none"
Server == "control_plane"

ASSUME LogDumpAssumption ==
    /\ IsFiniteSet(Captures) /\ {None, Server} \intersect Captures = {}
    /\ Chunks \in Nat \ {0}
    /\ {MaxCrashes, MaxFaults} \subseteq Nat

VARIABLES
    source,      \* who captures: "node_agent" or "control_plane"
    status,      \* agent_log_dumps.status, "gone" once the row is deleted
    job,         \* status of its job
    token,       \* the capture whose claim token the row holds
    latest,      \* the capture of the current claim generation
    leased,      \* claim_expires_at > now
    past,        \* expires_at =< now
    path,        \* does the row name an artifact, and whose digest?
    file,        \* whose data the artifact holds
    chunks,      \* how many chunks of a capture are stored
    pc,          \* where a capture is
    listed,      \* whose chunks its completion listed
    server,      \* where the capture of the control plane is
    cancel,      \* where a cancellation of the job is
    clean,       \* where the maintenance is
    knows,       \* does its copy of the row name an artifact?
    overran,     \* captures whose lease ran out while they completed
    stray,       \* was an artifact left that no row names?
    crashes, faults

rowVars == <<source, status, job, token, latest, leased, past, path>>
fileVars == <<file, chunks>>
captureVars == <<pc, listed, server>>
cleanVars == <<clean, knows>>
history == <<overran, stray, crashes, faults>>
vars == <<rowVars, fileVars, captureVars, cancel, cleanVars, history>>

Completing == {"renewed", "listed", "assembled", "discarding"}

TypeOK ==
    /\ source \in {"node_agent", Server}
    /\ status \in {"requested", "capturing", "captured", "failed", "expired", "deleting", "gone"}
    /\ job \in {None, "queued", "succeeded", "failed", "cancelled"}
    /\ {token, latest} \subseteq Captures \union {None}
    /\ {leased, past, knows, stray} \subseteq BOOLEAN
    /\ {path, file} \subseteq Captures \union {None, Server}
    /\ chunks \in [Captures -> 0 .. Chunks]
    /\ pc \in [Captures -> {"idle", "claimed", "cleaning", "ended"} \union Completing]
    /\ listed \in [Captures -> Captures \union {None}]
    /\ server \in {"start", "written", "over"}
    /\ cancel \in {"idle", "read", "over"}
    /\ clean \in {"idle", "listed", "expired", "marked", "removed"}
    /\ overran \subseteq Captures
    /\ crashes \in 0 .. MaxCrashes /\ faults \in 0 .. MaxFaults

\* CreateAgentLogDumpWithJob, or the row of a dump the control plane captures.
Init ==
    /\ \/ source = "node_agent" /\ job = "queued" /\ server = "over" /\ cancel = "idle"
       \/ source = Server /\ job = None /\ server = "start" /\ cancel = "over"
    /\ status = "requested"
    /\ token = None /\ latest = None /\ path = None /\ file = None
    /\ leased = FALSE /\ past = FALSE /\ knows = FALSE /\ stray = FALSE
    /\ chunks = [c \in Captures |-> 0]
    /\ pc = [c \in Captures |-> "idle"]
    /\ listed = [c \in Captures |-> None]
    /\ clean = "idle"
    /\ overran = {} /\ crashes = 0 /\ faults = 0

\* setTerminalLogDumpJobTx leaves a job alone that is terminal already.
EndJob(how) == job' = IF job = "queued" THEN how ELSE job

Fault == faults < MaxFaults /\ faults' = faults + 1

Go(c, to) == pc' = [pc EXCEPT ![c] = to]

DropChunks == chunks' = [c \in Captures |-> 0]

-----------------------------------------------------------------------------
(* Time.                                                                   *)

\* The two minutes of a claim are over.
ClaimExpires ==
    /\ leased
    /\ leased' = FALSE
    /\ overran' = overran \union {c \in Captures : c = token /\ pc[c] \in Completing}
    /\ UNCHANGED <<source, status, job, token, latest, past, path, fileVars, captureVars,
                   cancel, cleanVars, stray, crashes, faults>>

RetentionEnds ==
    /\ ~past
    /\ past' = TRUE
    /\ UNCHANGED <<source, status, job, token, latest, leased, path, fileVars, captureVars,
                   cancel, cleanVars, history>>

-----------------------------------------------------------------------------
(* A capture by the agent and the handlers it calls.                       *)

\* Fault: a claim is taken over while its lease stands.
ClaimAnyway(c) ==
    /\ source = "node_agent" /\ pc[c] = "idle" /\ ~past
    /\ status \in {"requested", "capturing"}
    /\ status' = "capturing"
    /\ token' = c /\ latest' = c /\ leased' = TRUE
    /\ Go(c, "claimed")
    /\ UNCHANGED <<source, job, past, path, fileVars, listed, server, cancel, cleanVars, history>>

\* A heartbeat lists the dump and the agent claims it.
Claim(c) ==
    /\ source = "node_agent" /\ pc[c] = "idle" /\ ~past
    /\ status = "requested" \/ (status = "capturing" /\ ~leased)
    /\ status' = "capturing"
    /\ token' = c /\ latest' = c /\ leased' = TRUE
    /\ Go(c, "claimed")
    /\ UNCHANGED <<source, job, past, path, fileVars, listed, server, cancel, cleanVars, history>>

\* What RenewLogDumpClaim, PutLogDumpChunk and FailClaimedLogDumpAndJob ask of a caller.
Owns(c) == status = "capturing" /\ token = c /\ leased /\ ~past

\* Fault: a chunk that is sent again is counted again.
PutChunkAgain(c) ==
    /\ pc[c] = "claimed" /\ chunks[c] =< Chunks
    /\ Owns(c)
    /\ chunks' = [chunks EXCEPT ![c] = @ + 1]
    /\ UNCHANGED <<rowVars, file, captureVars, cancel, cleanVars, history>>

\* A chunk is written, and kept if its row can be inserted.
PutChunk(c) ==
    /\ pc[c] = "claimed" /\ chunks[c] < Chunks
    /\ Owns(c)
    /\ chunks' = [chunks EXCEPT ![c] = @ + 1]
    /\ UNCHANGED <<rowVars, file, captureVars, cancel, cleanVars, history>>

\* The agent is refused, fails to reach the server or dies: it leaves the capture to
\* the next claim.
AgentLeaves(c) ==
    /\ pc[c] = "claimed"
    /\ Go(c, "ended")
    /\ UNCHANGED <<rowVars, fileVars, listed, server, cancel, cleanVars, history>>

\* The agent could not take its snapshot.
AgentFails(c) ==
    /\ pc[c] = "claimed" /\ Owns(c)
    /\ status' = "failed" /\ token' = None /\ leased' = FALSE
    /\ EndJob("failed")
    /\ DropChunks
    /\ Go(c, "ended")
    /\ UNCHANGED <<source, latest, past, path, file, listed, server, cancel, cleanVars, history>>

\* handleAgentLogDumpComplete: the claim is renewed, before anything else,
Renew(c) ==
    /\ pc[c] = "claimed" /\ chunks[c] = Chunks
    /\ Owns(c)
    /\ Go(c, "renewed")
    /\ UNCHANGED <<rowVars, fileVars, listed, server, cancel, cleanVars, history>>

\* the chunks of the current generation are listed and counted,
ListChunks(c) ==
    /\ pc[c] = "renewed"
    /\ IF status # "gone" /\ chunks[latest] = Chunks
       THEN Go(c, "listed") /\ listed' = [listed EXCEPT ![c] = latest]
       ELSE Go(c, "ended") /\ UNCHANGED listed
    /\ UNCHANGED <<rowVars, fileVars, server, cancel, cleanVars, history>>

\* put together and renamed to the artifact, which is removed again if its digest is
\* not the one the agent computed,
Assemble(c) ==
    /\ pc[c] = "listed"
    /\ \/ /\ chunks[listed[c]] = Chunks /\ listed[c] = c
          /\ file' = c
          /\ Go(c, "assembled")
       \/ /\ chunks[listed[c]] = Chunks /\ listed[c] # c
          /\ file' = None
          /\ Go(c, "ended")
       \/ /\ chunks[listed[c]] # Chunks
          /\ Go(c, "ended")
          /\ UNCHANGED file
    /\ UNCHANGED <<rowVars, chunks, listed, server, cancel, cleanVars, history>>

\* and CompleteLogDumpAndJob records it.  Its clock is the handler's, so that no lease
\* runs out for it and no retention ends; only a claim that was taken over, a dump that
\* is no longer capturing or a failed commit refuses.  One that is captured already
\* passes unseen.
Complete(c) ==
    /\ pc[c] = "assembled"
    /\ \/ /\ status = "capturing" /\ token = c
          /\ status' = "captured" /\ token' = None /\ leased' = FALSE
          /\ path' = c
          /\ EndJob("succeeded")
          /\ Go(c, "cleaning")
          /\ UNCHANGED faults
       \/ /\ status = "captured"
          /\ Go(c, "cleaning")
          /\ UNCHANGED <<status, token, leased, path, job, faults>>
       \/ /\ \/ status # "captured" /\ ~(status = "capturing" /\ token = c) /\ UNCHANGED faults
             \/ Fault
          /\ Go(c, "discarding")
          /\ UNCHANGED <<status, token, leased, path, job>>
    /\ UNCHANGED <<source, latest, past, fileVars, listed, server, cancel, cleanVars,
                   overran, stray, crashes>>

\* What could not be recorded is removed, by path.
Discard(c) ==
    /\ pc[c] = "discarding"
    /\ file' = None
    /\ Go(c, "ended")
    /\ UNCHANGED <<rowVars, chunks, listed, server, cancel, cleanVars, history>>

RemoveChunks(c) ==
    /\ pc[c] = "cleaning"
    /\ DropChunks
    /\ Go(c, "ended")
    /\ UNCHANGED <<rowVars, file, listed, server, cancel, cleanVars, history>>

-----------------------------------------------------------------------------
(* A capture by the control plane itself, inside the request that asks.    *)

ServerWrites ==
    /\ server = "start"
    /\ \/ file' = Server /\ server' = "written" /\ UNCHANGED status
       \/ /\ status' = IF status = "requested" THEN "failed" ELSE status
          /\ server' = "over"
          /\ UNCHANGED file
    /\ UNCHANGED <<source, job, token, latest, leased, past, path, chunks, pc, listed, cancel,
                   cleanVars, history>>

ServerMarks ==
    /\ server = "written"
    /\ server' = "over"
    /\ \/ /\ status = "requested" /\ ~past
          /\ status' = "captured" /\ path' = Server
          /\ UNCHANGED <<file, faults>>
       \/ /\ \/ (status # "requested" \/ past) /\ UNCHANGED faults
             \/ Fault
          /\ file' = None
          /\ UNCHANGED <<status, path>>
    /\ UNCHANGED <<source, job, token, latest, leased, past, chunks, pc, listed, cancel,
                   cleanVars, overran, stray, crashes>>

-----------------------------------------------------------------------------
(* handleCancelJob reads the job, and then writes it whatever it is by now. *)

CancelReads ==
    /\ cancel = "idle" /\ job = "queued"
    /\ cancel' = "read"
    /\ UNCHANGED <<rowVars, fileVars, captureVars, cleanVars, history>>

CancelWrites ==
    /\ cancel = "read"
    /\ cancel' = "over"
    /\ job' = "cancelled"
    /\ UNCHANGED <<source, status, token, latest, leased, past, path, fileVars, captureVars,
                   cleanVars, history>>

-----------------------------------------------------------------------------
(* Expiry, on a read or by runLogDumpMaintenanceOnce.                      *)

\* Fault: a time-out that was listed is applied to whatever the dump is by now.
TimeOutAnyway ==
    /\ source = "node_agent" /\ status \in {"capturing", "captured"}
    /\ status' = "failed" /\ token' = None /\ leased' = FALSE
    /\ EndJob("failed")
    /\ UNCHANGED <<source, latest, past, path, fileVars, captureVars, cancel, cleanVars, history>>

\* Thirty minutes after the first claim.  Retention may end after the dump was listed.
TimeOut ==
    /\ source = "node_agent" /\ status = "capturing"
    /\ status' = "failed" /\ token' = None /\ leased' = FALSE
    /\ EndJob("failed")
    /\ UNCHANGED <<source, latest, past, path, fileVars, captureVars, cancel, cleanVars, history>>

\* ExpireLogDump.
Expire ==
    IF status \in {"expired", "deleting", "gone"} \/ ~past
    THEN UNCHANGED <<status, token, leased, job>>
    ELSE /\ status' = "expired" /\ token' = None /\ leased' = FALSE
         /\ EndJob("failed")

ReadExpires ==
    /\ past /\ status \notin {"expired", "deleting", "gone"}
    /\ Expire
    /\ UNCHANGED <<source, latest, past, path, fileVars, captureVars, cancel, cleanVars, history>>

\* Fault: a dump whose clean-up failed once is no candidate any more.
ListOnce ==
    /\ clean = "idle" /\ status # "gone"
    /\ past /\ status # "deleting"
    /\ clean' = "listed"
    /\ knows' = (path # None)
    /\ UNCHANGED <<rowVars, fileVars, captureVars, cancel, history>>

\* The maintenance lists what has expired or is being deleted, and works on its copies.
ListCandidate ==
    /\ clean = "idle" /\ status # "gone"
    /\ past \/ status \in {"expired", "deleting"}
    /\ clean' = "listed"
    /\ knows' = (path # None)
    /\ UNCHANGED <<rowVars, fileVars, captureVars, cancel, history>>

\* Fault: an expired dump leaves its job alone.
ExpireCandidateAlone ==
    /\ clean = "listed"
    /\ clean' = "expired"
    /\ status' = IF status \in {"expired", "deleting"} THEN status ELSE "expired"
    /\ token' = None /\ leased' = FALSE
    /\ UNCHANGED <<source, job, latest, past, path, fileVars, captureVars, cancel, knows, history>>

ExpireCandidate ==
    /\ clean = "listed"
    /\ clean' = "expired"
    /\ Expire
    /\ UNCHANGED <<source, latest, past, path, fileVars, captureVars, cancel, knows, history>>

MarkDeleting ==
    /\ clean = "expired"
    /\ clean' = "marked"
    /\ status' = "deleting"
    /\ UNCHANGED <<source, job, token, latest, leased, past, path, fileVars, captureVars,
                   cancel, knows, history>>

\* Fault: the row is deleted although its files are still there.
RemoveOrNot ==
    /\ clean = "marked"
    /\ clean' = "removed"
    /\ \/ Fault /\ UNCHANGED fileVars
       \/ DropChunks /\ file' = (IF knows THEN None ELSE file) /\ UNCHANGED faults
    /\ UNCHANGED <<rowVars, captureVars, cancel, knows, overran, stray, crashes>>

\* The artifact the copy names, and the chunks.  What cannot be removed is tried again
\* in a later pass.
RemoveFiles ==
    /\ clean = "marked"
    /\ \/ /\ clean' = "removed"
          /\ file' = IF knows THEN None ELSE file
          /\ stray' = (stray \/ (~knows /\ path # None))
          /\ DropChunks
          /\ UNCHANGED faults
       \/ /\ Fault
          /\ clean' = "idle"
          /\ UNCHANGED <<fileVars, stray>>
    /\ UNCHANGED <<rowVars, captureVars, cancel, knows, overran, crashes>>

\* Chunk rows go with the row of their dump.
DeleteRow ==
    /\ clean = "removed"
    /\ clean' = "idle"
    /\ status' = "gone"
    /\ UNCHANGED <<source, job, token, latest, leased, past, path, fileVars, captureVars,
                   cancel, knows, history>>

-----------------------------------------------------------------------------
(* The control plane restarts: handlers and the maintenance end where they  *)
(* are; an agent that waits for one of them gives up.                       *)

Crash ==
    /\ crashes < MaxCrashes
    /\ crashes' = crashes + 1
    /\ pc' = [c \in Captures |->
                 IF pc[c] \in Completing \union {"cleaning"} THEN "ended" ELSE pc[c]]
    /\ server' = "over"
    /\ cancel' = IF cancel = "read" THEN "over" ELSE cancel
    /\ clean' = "idle"
    /\ stray' = (stray \/ server = "written"
                    \/ \E c \in Captures : pc[c] \in {"assembled", "discarding"})
    /\ UNCHANGED <<rowVars, fileVars, listed, knows, overran, faults>>

Handles(c) ==
    \/ ListChunks(c) \/ Assemble(c) \/ Complete(c) \/ Discard(c) \/ RemoveChunks(c)

Acts(c) ==
    \/ Claim(c) \/ PutChunk(c) \/ AgentLeaves(c) \/ AgentFails(c) \/ Renew(c) \/ Handles(c)

Maintains == ListCandidate \/ ExpireCandidate \/ MarkDeleting \/ RemoveFiles \/ DeleteRow

Next ==
    \/ \E c \in Captures : Acts(c)
    \/ ServerWrites \/ ServerMarks
    \/ CancelReads \/ CancelWrites
    \/ ClaimExpires \/ RetentionEnds \/ ReadExpires \/ TimeOut
    \/ Maintains \/ Crash

Spec == Init /\ [][Next]_vars

(* Retention ends, the hourly maintenance comes and goes on, and a handler  *)
(* that began ends.  No agent need ever call.                               *)
FairSpec ==
    /\ Spec
    /\ WF_vars(RetentionEnds)
    /\ WF_vars(Maintains)
    /\ WF_vars(ServerWrites \/ ServerMarks)
    /\ \A c \in Captures : WF_vars(Handles(c))

-----------------------------------------------------------------------------
(* What must hold.                                                         *)

\* A captured dump can be downloaded and is what its digest says: neither a failed
\* commit, nor a stale completion, nor the maintenance removed or replaced the file, as
\* long as no completion went on after its lease ran out.
CapturedIsIntact ==
    status = "captured" => file = path \/ overran # {}

\* "This prevents a captured artifact with a still-running job (or a succeeded job
\* without a captured artifact) after restart" (CompleteLogDumpAndJob), whatever
\* cancellation, time-out and expiry do to either.
JobTellsOfArtifact ==
    source = "node_agent" =>
        /\ status = "captured" => job \in {"succeeded", "cancelled"}
        /\ job = "succeeded" => path # None /\ status \in {"captured", "expired", "deleting", "gone"}

\* A dump that is deleted leaves nothing on disk once the handlers that were under way
\* have ended.  What may stay is an artifact of a handler that ended with its process, or
\* one recorded after the maintenance copied the row.
NothingLeftBehind ==
    status = "gone" /\ (\A c \in Captures : pc[c] \notin Completing \union {"cleaning"})
            /\ server # "written" =>
        /\ \A c \in Captures : chunks[c] = 0
        /\ file = None \/ stray

\* A job does not stay queued: the dump is captured, fails or expires.
JobSettles == <>[](job # "queued")

\* Retention ends every dump, whatever could not be removed at first.
EveryDumpIsDeleted == <>(status = "gone")
=============================================================================
