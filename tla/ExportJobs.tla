------------------------------- MODULE ExportJobs ------------------------------
(****************************************************************************)
(* DataExportJob and MatterExportJob on one request. A matter's export also *)
(* owes the escrow audit log one entry per mailbox its bundle includes; a   *)
(* mailbox's export is the case of a bundle that owes nothing.              *)
(****************************************************************************)
EXTENDS LeasedRequest

CONSTANTS Custodians   \* mailboxes of the matter

VARIABLES
    store,      \* bundles in the blob store: the attempt in their key, the mailboxes included
    todo,       \* each worker's mailboxes still to attest
    still,      \* each worker's mailboxes whose attestation failed
    attested    \* mailboxes with a MATTER_EXPORT_READY entry in the escrow audit log

jobVars == <<store, todo, still, attested>>
exportVars == <<leaseVars, jobVars>>

NoBoxes == [x \in Workers |-> {}]
ExportInit == LeaseInit /\ store = {} /\ todo = NoBoxes /\ still = NoBoxes /\ attested = {}

ClaimExport(x) == Claim(x, "build") /\ UNCHANGED jobVars
FailExport(x) == FailUnclaimed(x, "idle") /\ UNCHANGED jobVars
ReclaimExport(x) == Reclaim(x, "idle") /\ UNCHANGED jobVars
\* The bundle's generator renews between pages (mbox) or mailboxes (matter); a JSON export never does.
RenewExport(x) == at[x] = "build" /\ RenewLease(x) /\ UNCHANGED jobVars

BlobKey_Unscoped(x) == 1
\* blobStore.put() of the bundle under the attempt's own key.
BlobKey(x) == mine[x]
Put(x) ==
    /\ at[x] = "build" /\ Moves(x, "finish")
    /\ \E boxes \in SUBSET Custodians : store' = store \cup {[key |-> BlobKey(x), boxes |-> boxes]}
    /\ UNCHANGED <<row, age, latest, mine, faults, todo, still, attested>>
\* The generator throws (lease lost, content over a limit) or the store does, with or without what was written.
PutFails(x) ==
    /\ at[x] = "build" /\ Moves(x, "cleanup")
    /\ \/ x \notin latest /\ UNCHANGED faults
       \/ Fault
    /\ store' \in {store, store \cup {[key |-> BlobKey(x), boxes |-> {}]}}
    /\ UNCHANGED <<row, age, latest, mine, todo, still, attested>>
\* The update to ready, which also writes the attestations the bundle owes.
Finish(x) ==
    /\ at[x] = "finish"
    /\ \/ \E b \in store :
              /\ b.key = BlobKey(x)
              /\ Writes(x, [row EXCEPT !.is = "ready", !.blob = BlobKey(x), !.owed = b.boxes])
              /\ Moves(x, IF b.boxes = {} THEN "idle" ELSE "attest")
              /\ todo' = [todo EXCEPT ![x] = b.boxes] /\ UNCHANGED faults
       \/ x \notin latest /\ Moves(x, "cleanup") /\ UNCHANGED <<row, age, latest, faults, todo>>
    /\ UNCHANGED <<mine, store, still, attested>>
FinishFails(x) ==
    /\ at[x] = "finish" /\ Fault /\ Moves(x, "cleanup")
    /\ UNCHANGED <<row, age, latest, mine, jobVars>>
\* deleteBlobQuietly(), then markFailed() of the lease as held.
Deletable(x) == {b \in store : b.key = BlobKey(x)}
DeleteBlobQuietly(x) ==
    /\ at[x] = "cleanup" /\ Moves(x, "mark")
    /\ \/ store' = store \ Deletable(x) /\ UNCHANGED faults
       \/ Fault /\ UNCHANGED store
    /\ UNCHANGED <<row, age, latest, mine, todo, still, attested>>
MarkExportFailed(x) == at[x] = "mark" /\ MarkFailed(x, "idle") /\ UNCHANGED jobVars

--------------------------------------------------------------------------------
(* MatterExportJob's attestations *)

\* attestOwed(): a ready row left owing beyond the grace is claimed by its version. To overrun the grace is a fault.
AttestOwed(x) ==
    /\ at[x] = "idle" /\ row.is = "ready" /\ row.owed # {} /\ age = 2
    /\ IF \E y \in latest : at[y] \in {"attest", "checkpoint"} THEN Fault ELSE UNCHANGED faults
    /\ latest' = {x} /\ age' = 0 /\ Moves(x, "attest") /\ todo' = [todo EXCEPT ![x] = row.owed]
    /\ UNCHANGED <<row, mine, store, still, attested>>
\* attestPending(): an entry per mailbox; one that fails stays owed.
Attest(x) ==
    /\ at[x] = "attest"
    /\ \E b \in todo[x] :
        /\ todo' = [todo EXCEPT ![x] = @ \ {b}]
        /\ Moves(x, IF todo[x] # {b} /\ age > 0 THEN "checkpoint" ELSE "attest")
        /\ \/ attested' = attested \cup {b} /\ UNCHANGED <<still, faults>>
           \/ Fault /\ still' = [still EXCEPT ![x] = @ \cup {b}] /\ UNCHANGED attested
    /\ UNCHANGED <<row, age, latest, mine, store>>
Remaining_DropsFailed(x) == todo[x]
\* strikeOffAttestations(): at the end, and at a checkpoint on the way. What is not attested yet stays owed.
Remaining(x) == still[x] \cup todo[x]
StrikeOff(x) ==
    /\ at[x] = "checkpoint" \/ (at[x] = "attest" /\ todo[x] = {})
    /\ LET won == x \in latest IN
       /\ IF won THEN Writes(x, [row EXCEPT !.owed = Remaining(x)]) ELSE UNCHANGED <<row, age, latest>>
       /\ IF won /\ todo[x] # {} THEN Moves(x, "attest") /\ UNCHANGED <<todo, still>>
          ELSE Moves(x, "idle") /\ todo' = [todo EXCEPT ![x] = {}] /\ still' = [still EXCEPT ![x] = {}]
    /\ UNCHANGED <<mine, faults, store, attested>>
CrashExport(x) ==
    /\ Crash(x) /\ todo' = [todo EXCEPT ![x] = {}] /\ still' = [still EXCEPT ![x] = {}]
    /\ UNCHANGED <<store, attested>>

ExportStep(x) ==
    \/ ClaimExport(x) \/ ReclaimExport(x) \/ Put(x) \/ Finish(x) \/ DeleteBlobQuietly(x) \/ MarkExportFailed(x)
    \/ AttestOwed(x) \/ Attest(x) \/ StrikeOff(x)
ExportFault(x) == FailExport(x) \/ RenewExport(x) \/ PutFails(x) \/ FinishFails(x) \/ CrashExport(x)
ExportTime == Passes /\ UNCHANGED jobVars
ExportNext == ExportTime \/ \E x \in Workers : ExportStep(x) \/ ExportFault(x)
ExportFair == WF_exportVars(ExportTime) /\ \A x \in Workers : WF_exportVars(ExportStep(x))
ExportSpec == ExportInit /\ [][ExportNext]_exportVars /\ ExportFair

--------------------------------------------------------------------------------
(* What the requester sees: the verdict of the row, and download()'s blob   *)
(* (an import's result is its messages: see ImportJob).                     *)
Verdict == IF row.is \in Final THEN IF row.is = "failed" THEN "failed" ELSE "ready" ELSE "open"
Downloadable == row.is = "ready" /\ \E b \in store : b.key = row.blob
Content == IF Downloadable THEN row.blob ELSE IF row.is = "completed" THEN 1 ELSE 0
Result == INSTANCE OneResult WITH verdict <- Verdict, content <- Content


\* However leases lapse, workers overrun, calls fail and processes die, a request gets at most one verdict,
\* and the bundle of a ready one can be downloaded ever after (BaseDataExportRoute.download()). So does an import.
ImplementsOneResult == Result!ResultSafe
\* A ready bundle has, for each mailbox it includes, an entry in the escrow audit log or a note that one is
\* owed, whoever writes the row and wherever it dies.
BundleAttested ==
    \A b \in store : row.is = "ready" /\ b.key = row.blob => b.boxes \subseteq attested \cup row.owed
\* Only a crash or a failed delete leaves a bundle behind that no row refers to.
Orphans == {b \in store : row.is # "ready" \/ b.key # row.blob}
NoOrphanBundle == (\A x \in Workers : at[x] = "idle") => Cardinality(Orphans) <= faults
\* Bundles and audit entries together (DataExportJob, MatterExportJob).
ExportAccounted == BundleAttested /\ NoOrphanBundle
\* With faults that end, every request has its verdict in the end, as OneResult promises it, and an entry that
\* is owed is written.
OwedIsWritten == row.owed # {} ~> row.owed = {}
ExportEnds == Result!ResultSpec /\ OwedIsWritten
================================================================================
