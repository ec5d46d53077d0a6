------------------------------ MODULE IngestQueue ------------------------------
(****************************************************************************)
(* One entry of the ingest queue: an accepted message for one mailbox, and  *)
(* the workers of ScanQueueJob (or, for a zero-access recipient, the        *)
(* requests of the MTA) that claim it, scan it and file it, while           *)
(* ErasureExecutionJob may erase the mailbox.                               *)
(*                                                                          *)
(* Workers write the entry with the version they last wrote: a worker is in *)
(* the set fresh while its version still is the entry's.  Times are kept as *)
(* the time left.                                                           *)
(****************************************************************************)
EXTENDS Naturals, FiniteSets

CONSTANTS
    Workers,      \* replicas of ScanQueueJob, or overlapping requests of the MTA
    Kinds,        \* which entries there may be: sealed (zero-access) ones, plain ones
    Lease,        \* mail:jobs:scan_queue:lease_seconds, in halves of a lease: even
    MaxAttempts,  \* mail:jobs:scan_queue:max_attempts
    Backoff,      \* mail:jobs:scan_queue:retry_backoff_seconds
    DeferWait,    \* mail:jobs:scan_queue:erasure_defer_seconds
    DeferMax,     \* mail:jobs:scan_queue:erasure_defer_max_seconds
    MaxFaults,    \* bound: failures of the datastore, blob store, scanner or transport
    MaxCrashes,   \* bound: workers that die
    MaxErasure,   \* bound: steps of an erasure request
    MaxTries,     \* bound: requests of the MTA
    Poison        \* whether scanning the message may kill any worker that tries

ASSUME IngestQueueAssumption ==
    /\ Kinds \subseteq BOOLEAN /\ Poison \in BOOLEAN
    /\ Lease \in Nat \ {0} /\ MaxAttempts \in Nat \ {0} /\ Backoff \in Nat \ {0}
    /\ DeferWait \in Nat \ {0} /\ DeferMax \in Nat
    /\ MaxFaults \in Nat /\ MaxCrashes \in Nat /\ MaxErasure \in Nat /\ MaxTries \in Nat

\* A fact of arithmetic about the backoff's doubling, written down for the proofs.
ASSUME PowersAssumption == \A n \in 0..MaxAttempts : 2 ^ n \in Nat

VARIABLES
    entry,      \* the IngestQueueEntry: status, attempts, lease, next, parked, and sealed for
                \* a zero-access entry, which is processed inside its ingest request only
    age,        \* how old the entry is, up to DeferMax
    pc,         \* where each worker stands in processEntry()
    fresh,      \* the workers whose version is the entry's
    held,       \* how long each worker has had its lease, up to half of it
    verdict,    \* what each worker's scan and rules decided
    owes,       \* the workers whose charge.bytes is set
    effect,     \* the side effect each worker is at: forward, then reply
    scanned, quarantined,  \* the ScanResult and QuarantineEntry rows of the entry
    copies,     \* rows of the message in the mailbox
    charges,    \* how often the message's size is in the mailbox's usedBytes
    marker,     \* the charge marker blob
    marks,      \* the side effects whose marker blob is written
    sent,       \* history: how often each side effect was carried out
    erasure,    \* the mailbox's erasure: none, waiting, running, purged, halfway (begun and handed back),
                \* resumed, failed, gone
    mta,        \* whether the MTA still has the message
    overran,    \* history: a worker was taken over while still at work
    slipped,    \* history: a worker stopped between an act and its marker
    faults, crashes, steps, tries

rows    == <<scanned, quarantined, copies, charges, marker, marks, sent>>
locals  == <<verdict, owes, effect>>
bounds  == <<faults, crashes, steps, tries>>
world   == <<age, erasure, mta, bounds>>
vars    == <<entry, pc, fresh, held, locals, rows, world, overran, slipped>>

Effects == {"forward", "reply"}
Working == {"check1", "scan", "renew", "check2", "act", "hold", "kept", "deliver", "marker", "charge",
            "mark", "file", "create", "owner", "effect", "sending", "marking", "close",
            "refund", "refunding", "unmark", "record"}

\* The message is filed: a row under the uid derived from the entry's exists.
filed == copies > 0

\* processEntry() up to the moment it hands over to deliverMessage(), and its try block.
InDelivery == {"deliver", "marker", "charge", "mark", "file", "create", "owner"}

Init ==
    /\ \E k \in Kinds :
          entry = [status |-> "PENDING", attempts |-> 0, lease |-> 0, next |-> 0, parked |-> FALSE, sealed |-> k]
    /\ age = 0
    /\ pc = [w \in Workers |-> "idle"]
    /\ fresh = {}
    /\ held = [w \in Workers |-> 0]
    /\ verdict = [w \in Workers |-> "none"]
    /\ owes = {}
    /\ effect = [w \in Workers |-> "forward"]
    /\ scanned = FALSE /\ quarantined = FALSE /\ copies = 0
    /\ charges = 0 /\ marker = FALSE /\ marks = {} /\ sent = [e \in Effects |-> 0]
    /\ erasure = "none" /\ mta = entry.sealed
    /\ overran = FALSE /\ slipped = FALSE
    /\ faults = 0 /\ crashes = 0 /\ steps = 0 /\ tries = 0

--------------------------------------------------------------------------------

Goto(w, label) == pc' = [pc EXCEPT ![w] = label]

\* A write of the entry by w, which must hold its version.
Writes(w, e) == w \in fresh /\ entry' = e /\ fresh' = {w}

\* w is through with the entry.
Idle(w) ==
    /\ Goto(w, "idle")
    /\ verdict' = [verdict EXCEPT ![w] = "none"]
    /\ effect' = [effect EXCEPT ![w] = "forward"]
    /\ owes' = owes \ {w}

\* The request answers for all recipients of the transaction: one that failed, or a lost
\* answer, makes the MTA come back for this entry as well.
Answers == mta' \in {mta, FALSE}

Fault == faults < MaxFaults /\ faults' = faults + 1 /\ UNCHANGED <<crashes, steps, tries>>

--------------------------------------------------------------------------------
(* Claiming. *)

\* findDueEntries(): new, due again, or abandoned by a worker whose lease lapsed.
Due == \/ entry.status = "PENDING"
       \/ entry.status = "FAILED" /\ ~entry.parked /\ entry.next = 0
       \/ entry.status = "SCANNING" /\ entry.lease = 0

Finds(w) ==
    /\ ~entry.sealed /\ pc[w] = "idle" /\ Due
    /\ Goto(w, "read") /\ fresh' = fresh \cup {w}
    /\ UNCHANGED <<entry, held, locals, rows, world, overran, slipped>>

\* processInline(): the MTA's request takes any entry that is not delivered and not under
\* a running lease.
InlineReads(w) ==
    /\ entry.sealed /\ mta /\ pc[w] = "idle" /\ tries < MaxTries /\ tries' = tries + 1
    /\ entry.status \notin {"DELIVERED", "PURGED"} /\ ~(entry.status = "SCANNING" /\ entry.lease > 0)
    /\ Goto(w, "read") /\ fresh' = fresh \cup {w}
    /\ UNCHANGED <<entry, held, locals, rows, age, erasure, mta, faults, crashes, steps, overran, slipped>>

\* A request that finds the entry delivered answers at once.
InlineAnswers(w) ==
    /\ entry.sealed /\ mta /\ pc[w] = "idle" /\ entry.status = "DELIVERED"
    /\ mta' = FALSE
    /\ UNCHANGED <<entry, pc, fresh, held, locals, rows, age, erasure, bounds, overran, slipped>>

Claimed_Uncounted(e) == [e EXCEPT !.status = "SCANNING", !.lease = Lease]
Claimed(e) == [e EXCEPT !.status = "SCANNING", !.lease = Lease, !.attempts = @ + 1]

\* claimEntry(): attempts counts claims, so that an entry that kills its workers is parked.
Exhausted(e) == ~e.sealed /\ e.attempts + 1 > MaxAttempts

Claims(w) ==
    /\ pc[w] = "read" /\ ~Exhausted(entry)
    /\ Writes(w, Claimed(entry))
    /\ Goto(w, "check1") /\ held' = [held EXCEPT ![w] = 0]
    /\ overran' = IF \E q \in Workers \ {w} : pc[q] \in Working THEN TRUE ELSE overran
    /\ UNCHANGED <<locals, rows, world, slipped>>

Parks(w) ==
    /\ pc[w] = "read" /\ Exhausted(entry)
    /\ Writes(w, [entry EXCEPT !.status = "FAILED", !.parked = TRUE, !.lease = 0])
    /\ Idle(w)
    /\ UNCHANGED <<held, rows, world, overran, slipped>>

\* Another worker was faster.
ClaimLost(w) ==
    /\ pc[w] = "read" /\ w \notin fresh
    /\ Idle(w)
    /\ UNCHANGED <<entry, fresh, held, rows, world, overran, slipped>>

--------------------------------------------------------------------------------
(* The mailbox under erasure; the lease; the scan. *)

Drop_AnyRequest == erasure # "none"

\* erasureDisposition(): dropped while the cascade runs or once the mailbox is gone,
\* deferred for a bounded time while a request only waits.
Drop  == erasure \in {"running", "resumed", "purged", "gone"}
Defer == erasure \in {"waiting", "halfway"} /\ age < DeferMax

Drops(w) ==
    /\ pc[w] \in {"check1", "check2"} /\ Drop
    /\ Writes(w, [entry EXCEPT !.status = "DELIVERED", !.lease = 0])
    /\ marker' = FALSE /\ marks' = {}
    /\ Idle(w)
    /\ Answers
    /\ UNCHANGED <<held, scanned, quarantined, copies, charges, sent, age, erasure, bounds, overran, slipped>>

\* deferEntry(): due again later, the claim not counted as an attempt.
Defers(w) ==
    /\ pc[w] \in {"check1", "check2"} /\ ~Drop /\ Defer
    /\ Writes(w, [entry EXCEPT !.status = "FAILED", !.parked = FALSE, !.lease = 0,
                               !.next = DeferWait, !.attempts = IF @ > 0 THEN @ - 1 ELSE 0])
    /\ Idle(w)
    /\ UNCHANGED <<held, rows, world, overran, slipped>>

Proceeds(w) ==
    /\ pc[w] \in {"check1", "check2"} /\ ~Drop /\ ~Defer
    /\ Goto(w, IF pc[w] = "check1" THEN "scan" ELSE "act")
    /\ UNCHANGED <<entry, fresh, held, locals, rows, world, overran, slipped>>

\* The scan, the transport rules' quarantine, the sender lists: what is to become of the
\* message.  A later attempt scans again and may decide otherwise.
Verdicts == {"quarantine", "control", "junk", "deliver", "discard"}

Scans(w) ==
    /\ pc[w] = "scan"
    /\ \E v \in Verdicts : verdict' = [verdict EXCEPT ![w] = v]
    /\ Goto(w, "renew")
    /\ UNCHANGED <<entry, fresh, held, owes, effect, rows, world, overran, slipped>>

\* renewLeaseIfDue(): past half of the lease it is extended, by its owner only.
Renewed(w) ==
    IF held[w] * 2 < Lease
      THEN UNCHANGED <<entry, fresh, held>>
      ELSE Writes(w, [entry EXCEPT !.lease = Lease]) /\ held' = [held EXCEPT ![w] = 0]

Renews(w) ==
    /\ pc[w] = "renew" /\ Renewed(w)
    /\ Goto(w, "check2")
    /\ UNCHANGED <<locals, rows, world, overran, slipped>>

\* The ScanResult is recorded once; then the verdict decides.
Acts(w) ==
    /\ pc[w] = "act"
    /\ scanned' = TRUE
    /\ Goto(w, CASE verdict[w] = "quarantine" -> "hold"
                 [] verdict[w] = "control" -> "close"
                 [] OTHER -> "deliver")
    /\ UNCHANGED <<entry, fresh, held, locals, quarantined, copies, charges, marker, marks, sent, world, overran, slipped>>

\* A quarantine entry under the uid derived from the entry, once: for the verdict, or for
\* a message the mailbox's quota has no room for.
Holds(w) ==
    /\ pc[w] = "hold"
    /\ quarantined' = TRUE
    /\ Goto(w, IF verdict[w] = "quarantine" THEN "close" ELSE "kept")
    /\ UNCHANGED <<entry, fresh, held, locals, scanned, copies, charges, marker, marks, sent, world, overran, slipped>>

\* The checkpoint after a message is held for its size.
ChecksHeld(w) ==
    /\ pc[w] = "kept" /\ Renewed(w)
    /\ Goto(w, "close")
    /\ UNCHANGED <<locals, rows, world, overran, slipped>>

--------------------------------------------------------------------------------
(* deliverMessage(). *)

\* The lookup that makes filing idempotent.
DeliverLooks(w) ==
    /\ pc[w] = "deliver"
    /\ Goto(w, IF verdict[w] = "discard" \/ filed THEN "owner" ELSE "marker")
    /\ UNCHANGED <<entry, fresh, held, locals, rows, world, overran, slipped>>

MarkerFound == marker

\* A charge no failed attempt has handed back is not made again.
ChargeLooks(w) ==
    /\ pc[w] = "marker"
    /\ owes' = IF MarkerFound THEN owes \cup {w} ELSE owes
    /\ Goto(w, IF MarkerFound THEN "mark" ELSE "charge")
    /\ UNCHANGED <<entry, fresh, held, verdict, effect, rows, world, overran, slipped>>

\* chargeMailboxQuota(): room for the message, none, or no mailbox.
Charges(w) ==
    /\ pc[w] = "charge" /\ erasure # "gone"
    /\ charges' = charges + 1 /\ owes' = owes \cup {w}
    /\ Goto(w, "mark")
    /\ UNCHANGED <<entry, fresh, held, verdict, effect, scanned, quarantined, copies, marker, marks, sent, world, overran, slipped>>

OverQuota(w) ==
    /\ pc[w] = "charge" /\ erasure # "gone"
    /\ Goto(w, "hold")
    /\ UNCHANGED <<entry, fresh, held, locals, rows, world, overran, slipped>>

MailboxGone(w) ==
    /\ pc[w] = "charge" /\ erasure = "gone"
    /\ Goto(w, "close")
    /\ UNCHANGED <<entry, fresh, held, locals, rows, world, overran, slipped>>

MarksCharge(w) ==
    /\ pc[w] = "mark"
    /\ marker' = TRUE
    /\ Goto(w, "file")
    /\ UNCHANGED <<entry, fresh, held, locals, scanned, quarantined, copies, charges, marks, sent, world, overran, slipped>>

\* The checkpoint before the message is filed: a worker may still stall behind it.
ChecksFiling(w) ==
    /\ pc[w] = "file" /\ Renewed(w)
    /\ Goto(w, "create")
    /\ UNCHANGED <<locals, rows, world, overran, slipped>>

Duplicate_Allowed == FALSE
\* The row's uid is derived from the entry's: a second create fails.
Duplicate == filed

Files(w) ==
    /\ pc[w] = "create" /\ ~Duplicate
    /\ copies' = copies + 1
    /\ Goto(w, "owner")
    /\ UNCHANGED <<entry, fresh, held, locals, scanned, quarantined, charges, marker, marks, sent, world, overran, slipped>>

\* The checkpoint before the side effects.  Junk has none.
ChecksOwner(w) ==
    /\ pc[w] = "owner" /\ Renewed(w)
    /\ Goto(w, IF verdict[w] = "junk" THEN "close" ELSE "effect")
    /\ UNCHANGED <<locals, rows, world, overran, slipped>>

--------------------------------------------------------------------------------
(* forwardByRuleOnce(), then maybeSendAutoReplyOnce(): act, then record. *)

NextEffect(w) ==
    IF effect[w] = "forward"
      THEN effect' = [effect EXCEPT ![w] = "reply"] /\ Goto(w, "effect")
      ELSE UNCHANGED effect /\ Goto(w, "close")

EffectDone(w) == effect[w] \in marks

\* Done by an earlier attempt, or nothing to do.
SkipsEffect(w) ==
    /\ pc[w] = "effect"
    /\ NextEffect(w)
    /\ UNCHANGED <<entry, fresh, held, verdict, owes, rows, world, overran, slipped>>

StartsEffect(w) ==
    /\ pc[w] = "effect" /\ ~EffectDone(w)
    /\ Goto(w, "sending")
    /\ UNCHANGED <<entry, fresh, held, locals, rows, world, overran, slipped>>

Sends(w) ==
    /\ pc[w] = "sending"
    /\ sent' = [sent EXCEPT ![effect[w]] = @ + 1]
    /\ Goto(w, "marking")
    /\ UNCHANGED <<entry, fresh, held, locals, scanned, quarantined, copies, charges, marker, marks, world, overran, slipped>>

MarksEffect(w) ==
    /\ pc[w] = "marking"
    /\ marks' = marks \cup {effect[w]}
    /\ NextEffect(w)
    /\ UNCHANGED <<entry, fresh, held, verdict, owes, scanned, quarantined, copies, charges, marker, sent, world, overran, slipped>>

\* markDelivered(): the entry is closed, then its markers are removed.
Closes(w) ==
    /\ pc[w] = "close"
    /\ Writes(w, [entry EXCEPT !.status = "DELIVERED", !.lease = 0])
    /\ marker' = FALSE /\ marks' = {}
    /\ Idle(w)
    /\ Answers
    /\ UNCHANGED <<held, scanned, quarantined, copies, charges, sent, age, erasure, bounds, overran, slipped>>

--------------------------------------------------------------------------------
(* Failure. *)

\* A step throws: a write with a stale version, a second create, or a fault.
StepThrows(w) ==
    \/ /\ w \notin fresh
       /\ \/ pc[w] = "close"
          \/ pc[w] \in {"renew", "kept", "file", "owner"} /\ held[w] * 2 >= Lease
          \/ pc[w] \in {"check1", "check2"} /\ (Drop \/ Defer)
       /\ UNCHANGED bounds
    \/ pc[w] = "create" /\ Duplicate /\ UNCHANGED bounds
    \/ pc[w] \in Working \ {"refund", "refunding", "unmark", "record"} /\ Fault

\* The catch of processEntry() hands a charge back; then the failure is recorded.
Fails(w) ==
    /\ StepThrows(w)
    /\ LET delivering == pc[w] \in InDelivery \/ (pc[w] \in {"effect", "sending", "marking"} /\ effect[w] = "forward")
       IN  Goto(w, IF delivering /\ w \in owes THEN "refund" ELSE "record")
    /\ slipped' = IF pc[w] = "marking" THEN TRUE ELSE slipped
    /\ UNCHANGED <<entry, fresh, held, locals, rows, age, erasure, mta, overran>>

\* refundUnfiledDelivery(): not for a message that is filed after all.
RefundLooks(w) ==
    /\ pc[w] = "refund"
    /\ Goto(w, IF filed THEN "record" ELSE "refunding")
    /\ UNCHANGED <<entry, fresh, held, locals, rows, world, overran, slipped>>

Refunds(w) ==
    /\ pc[w] = "refunding"
    /\ charges' = IF charges > 0 THEN charges - 1 ELSE 0
    /\ Goto(w, "unmark")
    /\ UNCHANGED <<entry, fresh, held, locals, scanned, quarantined, copies, marker, marks, sent, world, overran, slipped>>

Unmarks(w) ==
    /\ pc[w] = "unmark"
    /\ marker' = FALSE
    /\ Goto(w, "record")
    /\ UNCHANGED <<entry, fresh, held, locals, scanned, quarantined, copies, charges, marks, sent, world, overran, slipped>>

\* A refund that fails is logged: the marker then says the charge still stands.
RefundFails(w) ==
    /\ pc[w] \in {"refund", "refunding", "unmark"} /\ Fault
    /\ Goto(w, "record")
    /\ slipped' = IF pc[w] = "unmark" \/ ~marker THEN TRUE ELSE slipped
    /\ UNCHANGED <<entry, fresh, held, locals, rows, age, erasure, mta, overran>>

FailedEntry(e) ==
    [e EXCEPT !.status = "FAILED", !.lease = 0,
              !.parked = e.attempts >= MaxAttempts,
              !.next = IF e.attempts >= MaxAttempts THEN 0 ELSE (Backoff * 2 ^ e.attempts) \div 2]

Records_AnyVersion(w) ==
    /\ pc[w] = "record"
    /\ entry' = FailedEntry(entry) /\ fresh' = {w}
    /\ Idle(w)
    /\ UNCHANGED <<held, rows, world, overran, slipped>>

\* recordFailure(): only while the entry is still this worker's claim.
Records(w) ==
    /\ pc[w] = "record"
    /\ Writes(w, FailedEntry(entry))
    /\ Idle(w)
    /\ UNCHANGED <<held, rows, world, overran, slipped>>

RecordLost(w) ==
    /\ pc[w] = "record"
    /\ \/ w \notin fresh /\ UNCHANGED bounds
       \/ w \in fresh /\ Fault
    /\ Idle(w)
    /\ UNCHANGED <<entry, fresh, held, rows, age, erasure, mta, overran, slipped>>

Crash(w) ==
    /\ pc[w] # "idle"
    /\ \/ crashes < MaxCrashes /\ crashes' = crashes + 1
       \/ Poison /\ pc[w] = "scan" /\ UNCHANGED crashes
    /\ slipped' = IF \/ pc[w] \in {"mark", "marking", "unmark"}
                     \/ pc[w] \in {"refund", "refunding"} /\ ~marker
                    THEN TRUE ELSE slipped
    /\ Idle(w)
    /\ UNCHANGED <<entry, fresh, held, rows, age, erasure, mta, faults, steps, tries, overran>>

--------------------------------------------------------------------------------
(* ErasureExecutionJob, as the entry sees it. *)

ErasureStep == steps < MaxErasure /\ steps' = steps + 1

\* Approved; claimed; handed back (under a legal hold, or with rows left) or its claim gone
\* stale, before or after the purge; denied before it; failed for an operator.
ErasureMoves ==
    /\ ErasureStep
    /\ \/ erasure = "none" /\ erasure' = "waiting"
       \/ erasure = "waiting" /\ erasure' = "running"
       \/ erasure = "running" /\ erasure' \in {"waiting", "none"}
       \/ erasure = "halfway" /\ erasure' = "resumed"
       \/ erasure = "resumed" /\ erasure' = "halfway"
       \/ erasure = "purged" /\ erasure' \in {"halfway", "failed"}
    /\ UNCHANGED <<entry, age, pc, fresh, held, locals, rows, mta, faults, crashes, tries, overran, slipped>>

\* The cascade purges the messages first.
ErasurePurges ==
    /\ ErasureStep /\ erasure \in {"running", "resumed"} /\ erasure' = "purged"
    /\ copies' = 0
    /\ UNCHANGED <<entry, age, pc, fresh, held, locals, scanned, quarantined, charges, marker, marks, sent, mta,
                   faults, crashes, tries, overran, slipped>>

\* Last come the quarantine, the queue's entries and the mailbox itself.
ErasureEnds ==
    /\ ErasureStep /\ erasure = "purged" /\ erasure' = "gone"
    /\ entry' = [entry EXCEPT !.status = "PURGED"] /\ fresh' = {}
    /\ quarantined' = FALSE
    /\ UNCHANGED <<age, pc, held, locals, scanned, copies, charges, marker, marks, sent, mta, faults, crashes, tries, overran, slipped>>

--------------------------------------------------------------------------------

Less(n) == IF n > 0 THEN n - 1 ELSE 0

\* Time passes while something waits for it.
Tick ==
    /\ entry.lease > 0 \/ entry.next > 0
    /\ entry' = [entry EXCEPT !.lease = Less(@), !.next = Less(@)]
    /\ held' = [w \in Workers |-> IF held[w] * 2 < Lease THEN held[w] + 1 ELSE held[w]]
    /\ age' = IF age < DeferMax THEN age + 1 ELSE age
    /\ UNCHANGED <<pc, fresh, locals, rows, erasure, mta, bounds, overran, slipped>>

Work(w) ==
    \/ Finds(w) \/ Claims(w) \/ Parks(w) \/ ClaimLost(w) \/ Drops(w) \/ Defers(w) \/ Proceeds(w)
    \/ Scans(w) \/ Renews(w) \/ Acts(w) \/ Holds(w) \/ ChecksHeld(w) \/ DeliverLooks(w) \/ ChargeLooks(w)
    \/ Charges(w) \/ OverQuota(w) \/ MailboxGone(w) \/ MarksCharge(w) \/ ChecksFiling(w) \/ Files(w) \/ ChecksOwner(w)
    \/ SkipsEffect(w) \/ StartsEffect(w) \/ Sends(w) \/ MarksEffect(w) \/ Closes(w)
    \/ Fails(w) \/ RefundLooks(w) \/ Refunds(w) \/ Unmarks(w) \/ RefundFails(w)
    \/ Records(w) \/ RecordLost(w) \/ InlineReads(w) \/ InlineAnswers(w)

Next ==
    \/ \E w \in Workers : Work(w) \/ Crash(w)
    \/ ErasureMoves \/ ErasurePurges \/ ErasureEnds
    \/ Tick

Spec == Init /\ [][Next]_vars

\* The job runs at every interval, the MTA retries, time passes.
Fairness == (\A w \in Workers : WF_vars(Work(w))) /\ WF_vars(Tick)

FairSpec == Spec /\ Fairness

--------------------------------------------------------------------------------

TypeOK ==
    /\ entry \in [status : {"PENDING", "SCANNING", "FAILED", "DELIVERED", "PURGED"}, attempts : Nat,
                  lease : 0..Lease, next : Nat, parked : BOOLEAN, sealed : BOOLEAN]
    /\ ~entry.sealed => entry.attempts <= MaxAttempts
    /\ pc \in [Workers -> {"idle", "read"} \cup Working] /\ fresh \subseteq Workers
    /\ age \in 0..DeferMax /\ held \in [Workers -> 0..Lease]
    /\ verdict \in [Workers -> Verdicts \cup {"none"}] /\ effect \in [Workers -> Effects]
    /\ owes \subseteq Workers
    /\ scanned \in BOOLEAN /\ quarantined \in BOOLEAN /\ copies \in Nat /\ charges \in Nat
    /\ marker \in BOOLEAN /\ marks \subseteq Effects /\ sent \in [Effects -> Nat]
    /\ erasure \in {"none", "waiting", "running", "purged", "halfway", "resumed", "failed", "gone"} /\ mta \in BOOLEAN
    /\ overran \in BOOLEAN /\ slipped \in BOOLEAN
    /\ faults \in 0..MaxFaults /\ crashes \in 0..MaxCrashes
    /\ steps \in 0..MaxErasure /\ tries \in 0..MaxTries

\* "A retry never files a second copy": whatever attempts fail, die or overlap, the
\* mailbox holds one row of the message.
OneCopy == copies <= 1

\* A rule forward and an automatic reply go out at most once per entry, across retries,
\* unless an attempt stopped between the sending and its marker or was taken over.
EffectsOnce == ~overran /\ ~slipped => \A e \in Effects : sent[e] <= 1

\* The message's size counts once against the mailbox's quota, and does count once the
\* entry is closed with the message filed, however often attempts fail, are refunded and
\* are retried - unless one stopped between a charge (or refund) and its marker, or was
\* taken over.
ChargedOnce ==
    ~overran /\ ~slipped =>
        /\ charges <= 1
        /\ entry.status = "DELIVERED" /\ filed => charges = 1

\* What one entry of the queue does to its mailbox, it does once, whatever attempts of ScanQueueJob it takes.
DeliveredOnce == TypeOK /\ OneCopy /\ EffectsOnce /\ ChargedOnce

\* A closed entry stays closed: a worker that was taken over never reopens or fails it.
ClosedStays == [][entry.status = "DELIVERED" => entry'.status \in {"DELIVERED", "PURGED"}]_vars

\* A zero-access message exists nowhere but at the MTA until it is filed: the MTA is told
\* to drop it only when its entry is closed (or erased with its mailbox).
MtaKeeps == entry.sealed /\ ~mta => entry.status \in {"DELIVERED", "PURGED"}

\* No accepted message is lost: unless an erasure of the mailbox has begun, an entry is
\* closed only with the message filed or held for review, or by the worker that read it
\* as a control message or as one the owner's rules discard.
Accounted ==
    [][(entry.status # "DELIVERED" /\ entry'.status = "DELIVERED" /\ erasure \in {"none", "waiting"}) =>
          \/ filed \/ quarantined
          \/ \E w \in Workers : pc[w] = "close" /\ pc'[w] = "idle" /\ verdict[w] \in {"control", "discard"}]_vars

\* The message is in the mailbox or the quarantine, or at the MTA, or its end was decided.
NothingLost == []MtaKeeps /\ Accounted

\* Every entry in the queue is closed or parked for an operator: also one that kills each worker that
\* scans it, and one whose mailbox waits for an erasure that a legal hold blocks.
Settled == entry.status \in {"DELIVERED", "PURGED"} \/ entry.parked
Settles == <>[](entry.sealed \/ Settled)
================================================================================
