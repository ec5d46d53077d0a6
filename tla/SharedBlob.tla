------------------------------- MODULE SharedBlob -------------------------------
(****************************************************************************)
(* The raw message of one SMTP transaction, stored once and shared: by the  *)
(* queue entries BaseMailIngestRoute stages for its recipients, and by the  *)
(* messages and quarantine entries ScanQueueJob makes of them.  Rows are    *)
(* purged by their users, RetentionEnforcementJob, QuarantineRetentionJob   *)
(* and ErasureExecutionJob, each of which deletes the blob when it finds no *)
(* other row that references it.                                            *)
(*                                                                          *)
(* A reference check is one query per source: rows move between the sources *)
(* while it runs.                                                           *)
(****************************************************************************)
EXTENDS Naturals, Sequences, FiniteSets, TLC

CONSTANTS
    Mailboxes,  \* the recipients of the transaction
    Purgers,    \* requests and job replicas that purge rows
    None,       \* no mailbox
    MaxPurges,  \* bound: purges
    MaxFaults   \* bound: failures of the blob store or datastore, dead processes and requests

ASSUME SharedBlobAssumption ==
    /\ None \notin Mailboxes
    /\ MaxPurges \in Nat /\ MaxFaults \in Nat

VARIABLES
    blob,       \* whether the blob exists
    rows,       \* the rows that name it, of each kind: the mailboxes that have one
    open,       \* the mailboxes whose entry is not DELIVERED
    parked,     \* those of them whose entry ScanQueueJob has given up on
    trash,      \* the mailboxes whose message is soft-deleted
    erased,     \* the mailboxes whose erasure has been claimed
    request,    \* the transaction: new, unput, put (this request stored the blob), failed, done
    at,         \* where each purger is: idle, row (deletes the row), check, delete (the blob)
    pos,        \* the source its check has come to
    kind, box,  \* the row it purges
    first,      \* the purgers that delete the content before the row
    early,      \* the purgers whose check began before the transaction was staged
    condemned,  \* history: rows whose own purge deleted the blob
    raced,      \* history: a purge that began before the transaction was staged deleted the blob
    untidy,     \* history: a row was deleted without its content, or beside another purge
    purges, faults

stored == <<rows, open, parked, trash, erased>>
purger == <<at, pos, kind, box, first, early>>
past   == <<condemned, raced, untidy>>
vars   == <<blob, stored, request, purger, past, purges, faults>>

Kinds == {"ingest", "quarantine", "message"}

Init ==
    /\ blob = FALSE
    /\ rows = [k \in Kinds |-> {}] /\ open = {} /\ parked = {} /\ trash = {} /\ erased = {}
    /\ request = "new"
    /\ at = [p \in Purgers |-> "idle"] /\ pos = [p \in Purgers |-> 1]
    /\ kind = [p \in Purgers |-> "message"]
    /\ box = [p \in Purgers |-> None]
    /\ first = {} /\ early = {}
    /\ condemned = [k \in Kinds |-> {}] /\ raced = FALSE /\ untidy = FALSE
    /\ purges = 0 /\ faults = 0

Fault == faults < MaxFaults /\ faults' = faults + 1

--------------------------------------------------------------------------------
(* deliver(): one entry per recipient, the blob stored before the first that needs it. *)

RequestStarts ==
    /\ request \in {"new", "failed"} /\ request' = "unput"
    /\ UNCHANGED <<blob, stored, purger, past, purges, faults>>

\* ensureDirectBlob(): once per request, for a recipient that has no entry yet.
Puts ==
    /\ request = "unput" /\ rows["ingest"] # Mailboxes
    /\ blob' = TRUE /\ request' = "put"
    /\ UNCHANGED <<stored, purger, past, purges, faults>>

\* queueIngestEntry(): a retried transaction finds the entries it already made.
Stages(m) ==
    /\ request = "put" /\ m \notin rows["ingest"]
    /\ rows' = [rows EXCEPT !["ingest"] = @ \cup {m}] /\ open' = open \cup {m}
    /\ UNCHANGED <<blob, parked, trash, erased, request, purger, past, purges, faults>>

RequestEnds ==
    /\ request \in {"unput", "put"} /\ rows["ingest"] = Mailboxes /\ request' = "done"
    /\ UNCHANGED <<blob, stored, purger, past, purges, faults>>

\* It fails part-way; the MTA retries it.
RequestFails ==
    /\ request \in {"unput", "put"} /\ Fault /\ request' = "failed"
    /\ UNCHANGED <<blob, stored, purger, past, purges>>

--------------------------------------------------------------------------------
(* ScanQueueJob: the row is made before the entry is closed. *)

\* A message, or a quarantine entry; an attempt that fails before it closes the entry is
\* followed by another.  Nothing is filed into a mailbox that is being erased: IngestQueue
\* has the worker that looked just before.
Files(m, k) ==
    /\ m \in open \ (parked \cup erased) /\ m \notin rows[k]
    /\ rows' = [rows EXCEPT ![k] = @ \cup {m}]
    /\ UNCHANGED <<blob, open, parked, trash, erased, request, purger, past, purges, faults>>

\* Also with nothing filed: a control message, or one a rule discards.
Closes(m) ==
    /\ m \in open \ parked /\ open' = open \ {m}
    /\ UNCHANGED <<blob, rows, parked, trash, erased, request, purger, past, purges, faults>>

Parks(m) ==
    /\ m \in open \ parked /\ parked' = parked \cup {m}
    /\ UNCHANGED <<blob, rows, open, trash, erased, request, purger, past, purges, faults>>

\* A message in the trash is recoverable and keeps its content.
SoftDeletes(m) ==
    /\ m \in rows["message"] \ trash /\ trash' = trash \cup {m}
    /\ UNCHANGED <<blob, rows, open, parked, erased, request, purger, past, purges, faults>>

Restores(m) ==
    /\ m \in trash /\ trash' = trash \ {m}
    /\ UNCHANGED <<blob, rows, open, parked, erased, request, purger, past, purges, faults>>

--------------------------------------------------------------------------------
(* Purges. *)

ErasureClaims(m) ==
    /\ m \notin erased /\ erased' = erased \cup {m}
    /\ UNCHANGED <<blob, rows, open, parked, trash, request, purger, past, purges, faults>>

\* What is purged: any message; any quarantine entry; after the transaction, an entry that is
\* closed or parked, and every entry of a mailbox that is being erased.
Purgeable(k, m) ==
    /\ m \in rows[k]
    /\ k = "ingest" => request = "done" /\ m \notin open \ (parked \cup erased)

\* A user's purge deletes the message first; a job's deletes the content first, so that a
\* failure leaves the row to be purged again.
Begins(p, k, m) ==
    /\ purges < MaxPurges /\ purges' = purges + 1
    /\ at[p] = "idle" /\ Purgeable(k, m)
    /\ kind' = [kind EXCEPT ![p] = k] /\ box' = [box EXCEPT ![p] = m]
    /\ untidy' = IF \E q \in Purgers : at[q] # "idle" THEN TRUE ELSE untidy
    /\ UNCHANGED <<blob, stored, request, pos, early, condemned, raced, faults>>

UserPurges(p, m) ==
    /\ Begins(p, "message", m)
    /\ at' = [at EXCEPT ![p] = "row"] /\ UNCHANGED first

JobPurges(p, k, m) ==
    /\ Begins(p, k, m)
    /\ at' = [at EXCEPT ![p] = "check"] /\ first' = first \cup {p}

\* The purge is over.
Rests(p) ==
    /\ at' = [at EXCEPT ![p] = "idle"] /\ pos' = [pos EXCEPT ![p] = 1]
    /\ kind' = [kind EXCEPT ![p] = "message"] /\ box' = [box EXCEPT ![p] = None]
    /\ first' = first \ {p} /\ early' = early \ {p}

Moves(p, where) == at' = [at EXCEPT ![p] = where] /\ UNCHANGED <<pos, kind, box, first, early>>

Order_MessageFirst == <<"message", "quarantine", "ingest">>

\* messageBlobReferenceSources(): the direction in which rows move.
Order == <<"ingest", "quarantine", "message">>

\* An entry references the blob until it is DELIVERED, a message also in the trash.
Referring(k) == IF k = "ingest" THEN open ELSE rows[k]

Excluded_Nothing(p, k) == {}

\* The row a job purges does not count.
Excluded(p, k) == IF p \in first /\ kind[p] = k THEN {box[p]} ELSE {}

\* isBlobKeyReferenced(), one source.
Sees(p) == Referring(Order[pos[p]]) \ Excluded(p, Order[pos[p]]) # {}

\* The blob stays: a job goes on to the row, a user's purge is over.
Keeps(p) ==
    /\ at[p] = "check" /\ Sees(p)
    /\ IF p \in first THEN Moves(p, "row") ELSE Rests(p)
    /\ UNCHANGED <<blob, stored, request, past, purges, faults>>

Looks(p) ==
    /\ at[p] = "check" /\ ~Sees(p)
    /\ early' = IF request # "done" THEN early \cup {p} ELSE early
    /\ IF pos[p] < Len(Order)
         THEN pos' = [pos EXCEPT ![p] = @ + 1] /\ UNCHANGED at
         ELSE at' = [at EXCEPT ![p] = "delete"] /\ UNCHANGED pos
    /\ UNCHANGED <<blob, stored, request, kind, box, first, past, purges, faults>>

DeletesBlob(p) ==
    /\ at[p] = "delete"
    /\ blob' = FALSE
    /\ condemned' = IF p \in first THEN [condemned EXCEPT ![kind[p]] = @ \cup {box[p]}] ELSE condemned
    /\ raced' = IF p \in early THEN TRUE ELSE raced
    /\ IF p \in first THEN Moves(p, "row") ELSE Rests(p)
    /\ UNCHANGED <<stored, request, untidy, purges, faults>>

\* The purged row takes its status and its trash flag with it.
DeletesRow(p) ==
    /\ at[p] = "row"
    /\ rows' = [rows EXCEPT ![kind[p]] = @ \ {box[p]}]
    /\ open' = IF kind[p] = "ingest" THEN open \ {box[p]} ELSE open
    /\ parked' = IF kind[p] = "ingest" THEN parked \ {box[p]} ELSE parked
    /\ trash' = IF kind[p] = "message" THEN trash \ {box[p]} ELSE trash
    /\ IF p \in first THEN Rests(p) ELSE Moves(p, "check")
    /\ UNCHANGED <<blob, erased, request, past, purges, faults>>

\* A query or a delete fails, or the process dies: what a user's purge has not deleted by
\* then stays for good, a job finds the row again.
PurgeFails(p) ==
    /\ at[p] # "idle" /\ Fault /\ Rests(p)
    /\ untidy' = IF p \notin first /\ at[p] # "row" THEN TRUE ELSE untidy
    /\ UNCHANGED <<blob, stored, request, condemned, raced, purges>>

\* DELETE of a quarantine entry: the row alone.
DropsHeld(m) ==
    /\ m \in rows["quarantine"]
    /\ rows' = [rows EXCEPT !["quarantine"] = @ \ {m}] /\ untidy' = TRUE
    /\ UNCHANGED <<blob, open, parked, trash, erased, request, purger, condemned, raced, purges, faults>>

--------------------------------------------------------------------------------

Staging == RequestStarts \/ Puts \/ RequestEnds \/ RequestFails \/ \E m \in Mailboxes : Stages(m)

Handling(m) ==
    \/ \E k \in {"message", "quarantine"} : Files(m, k)
    \/ Closes(m) \/ Parks(m) \/ SoftDeletes(m) \/ Restores(m) \/ DropsHeld(m) \/ ErasureClaims(m)

Purging(p) ==
    \/ \E m \in Mailboxes : UserPurges(p, m) \/ \E k \in Kinds : JobPurges(p, k, m)
    \/ Keeps(p) \/ Looks(p) \/ DeletesBlob(p) \/ DeletesRow(p) \/ PurgeFails(p)

Next == Staging \/ (\E m \in Mailboxes : Handling(m)) \/ (\E p \in Purgers : Purging(p))

Spec == Init /\ [][Next]_vars

\* For TLC: those who may be exchanged for one another.
BlobSymmetry == Permutations(Mailboxes) \cup Permutations(Purgers)

--------------------------------------------------------------------------------

TypeOK ==
    /\ blob \in BOOLEAN
    /\ rows \in [Kinds -> SUBSET Mailboxes] /\ condemned \in [Kinds -> SUBSET Mailboxes]
    /\ open \subseteq rows["ingest"] /\ parked \subseteq open /\ trash \subseteq rows["message"]
    /\ erased \subseteq Mailboxes
    /\ request \in {"new", "unput", "put", "failed", "done"}
    /\ at \in [Purgers -> {"idle", "row", "check", "delete"}] /\ pos \in [Purgers -> 1..3]
    /\ kind \in [Purgers -> Kinds] /\ box \in [Purgers -> Mailboxes \cup {None}]
    /\ \A p \in Purgers : at[p] # "idle" => box[p] \in Mailboxes
    /\ first \subseteq Purgers /\ early \subseteq Purgers
    /\ raced \in BOOLEAN /\ untidy \in BOOLEAN
    /\ purges \in 0..MaxPurges /\ faults \in 0..MaxFaults

\* Every row that references the blob has it, but for a row whose own purge deleted it.
Intact == blob \/ \A k \in Kinds : Referring(k) \subseteq condemned[k]

\* However deliveries, retries, soft deletes, restores and purges interleave, no purge takes
\* the content from under another row, once the transaction has been staged before the check.
KeepsOthers == ~raced => Intact

\* No content outlives its rows: when the last row is gone the blob is, unless purges ran at
\* the same time, a user's purge failed half-way or an entry was dropped without its content.
Collected ==
    /\ ~untidy /\ request = "done"
    /\ rows = [k \in Kinds |-> {}] /\ \A p \in Purgers : at[p] = "idle"
    => ~blob
=================================================================================
