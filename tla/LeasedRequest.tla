---------------------------- MODULE LeasedRequest -----------------------------
(****************************************************************************)
(* The request row that DataExportJob, MatterExportJob and MailboxImportJob *)
(* share between replicas. A worker claims a pending row with an update     *)
(* that carries the version it read, renews the claim while it works, and   *)
(* finishes it the same way; a claim that was not renewed in time is        *)
(* reclaimed. "latest" are the workers whose copy of the row carries its    *)
(* current version: an update by any other throws and changes nothing. A    *)
(* call to the repository that throws has had no effect.                    *)
(****************************************************************************)
EXTENDS Naturals, FiniteSets

CONSTANTS
    Workers,       \* replicas running the job
    MaxAttempts,   \* max_attempts
    MaxFaults      \* bound: crashes and failing calls

ASSUME LeaseAssumption == MaxAttempts \in Nat \ {0} /\ MaxFaults \in Nat

VARIABLES
    row,      \* status, processingAttempts, blobKey (its attempt), pendingAttestationMailboxUids
    age,      \* since dateModified: 0, 1 (a quarter of the lease: renew), 2 (the lease, or the grace)
    latest,
    at,       \* where each worker is
    mine,     \* the attempt each worker claimed
    faults

leaseVars == <<row, age, latest, at, mine, faults>>

Final == {"ready", "completed", "failed"}
LeaseInit ==
    /\ row = [is |-> "pending", att |-> 0, blob |-> 0, owed |-> {}]
    /\ age = 0 /\ latest = {} /\ faults = 0
    /\ at = [x \in Workers |-> "idle"] /\ mine = [x \in Workers |-> 0]

Moves(x, to) == at' = [at EXCEPT ![x] = to]
Fault == faults < MaxFaults /\ faults' = faults + 1
\* A version-checked update by a worker that has the current version.
Writes(x, new) == x \in latest /\ row' = new /\ latest' = {x} /\ age' = 0

\* Time passes. Only a row that somebody waits for ages.
Passes ==
    /\ age < 2 /\ (row.is = "processing" \/ row.owed # {}) /\ age' = age + 1
    /\ UNCHANGED <<row, latest, at, mine, faults>>
\* run(), processRequest(): the claim. Read and update are one step: a stale update throws, and so does the
\* markFailed() that run() answers it with.
Claim(x, to) ==
    /\ at[x] = "idle" /\ row.is = "pending"
    /\ row' = [row EXCEPT !.is = "processing", !.att = @ + 1] /\ latest' = {x} /\ age' = 0
    /\ mine' = [mine EXCEPT ![x] = row.att + 1] /\ Moves(x, to) /\ UNCHANGED faults
\* The mailbox, folder or matter is gone, or the claim's own call failed: markFailed() of the row as read.
FailUnclaimed(x, to) ==
    /\ at[x] = "idle" /\ row.is = "pending" /\ Fault
    /\ row' = [row EXCEPT !.is = "failed"] /\ latest' = {} /\ age' = 0 /\ Moves(x, to) /\ UNCHANGED mine
\* renewLease(), once a quarter of the lease has passed.
RenewLease(x) == age > 0 /\ Writes(x, row) /\ UNCHANGED <<at, mine, faults>>
Abandoned_UnlessLast == row.is = "processing" /\ age = 2 /\ row.att < MaxAttempts
Abandoned == row.is = "processing" /\ age = 2
\* reclaimAbandonedRequests(): back to pending, or failed after the last attempt.
Reclaim(x, to) ==
    /\ at[x] = "idle" /\ Abandoned
    /\ row' = [row EXCEPT !.is = IF row.att >= MaxAttempts THEN "failed" ELSE "pending"]
    /\ Moves(x, IF row'.is = "failed" THEN to ELSE "idle")
    /\ latest' = {} /\ age' = 0 /\ UNCHANGED <<mine, faults>>
\* markFailed(): quietly nothing if another has the row.
MarkFailed(x, won) ==
    IF x \in latest
    THEN Writes(x, [row EXCEPT !.is = "failed"]) /\ Moves(x, won) /\ UNCHANGED <<mine, faults>>
    ELSE Moves(x, "idle") /\ UNCHANGED <<row, age, latest, mine, faults>>
\* The process dies; the row and what was stored stay.
Crash(x) ==
    /\ at[x] # "idle" /\ Fault /\ Moves(x, "idle") /\ latest' = latest \ {x}
    /\ UNCHANGED <<row, age, mine>>
================================================================================
