----------------------------- MODULE ScheduledSend -----------------------------
(****************************************************************************)
(* One outgoing message of a mailbox, and everybody who may write its row   *)
(* while it is sent: the replicas of ScheduledSendJob, immediate sends      *)
(* (POST /:id/send handled by BaseMessageRoute), the user, trusted callers  *)
(* and the jobs that merely stamp the row.                                  *)
(*                                                                          *)
(* Every write of the sending code is optimistic: RepoUtils.update() is     *)
(* given the version that was read and fails when the row has another one.  *)
(* The version number itself is not kept.  An actor is in the set fresh     *)
(* while nobody has written the row since it last read or wrote it, which   *)
(* is what the comparison of two versions decides.                          *)
(****************************************************************************)
EXTENDS Naturals, TLC

CONSTANTS
    Jobs,          \* replicas of ScheduledSendJob
    Requests,      \* requests of an immediate send
    JobLease,      \* mail:jobs:scheduled_send:lease_ms
    SendLease,     \* the lease an immediate send takes
    MaxAttempts,   \* mail:jobs:scheduled_send:max_attempts
    Backoff,       \* mail:jobs:scheduled_send:retry_backoff_ms
    MaxDefer,      \* how far ahead a send may be deferred
    Trusted,       \* whether trusted callers move the message
    MaxOps,        \* bound: operations of users
    MaxFaults,     \* bound: failures of the datastore or the blob store
    MaxCrashes,    \* bound: processes that die
    MaxStalls      \* bound: times a claim's lease lapses on a process still at work

ASSUME ScheduledSendAssumption ==
    /\ Jobs \cap Requests = {}
    /\ JobLease \in Nat \ {0} /\ SendLease \in Nat \ {0}
    /\ MaxAttempts \in Nat \ {0} /\ Backoff \in Nat \ {0}
    /\ MaxDefer \in Nat /\ MaxOps \in Nat /\ MaxFaults \in Nat /\ MaxCrashes \in Nat
    /\ MaxStalls \in Nat
    /\ Trusted \in BOOLEAN

VARIABLES
    row,        \* the message's row
    now,        \* the clock the processes share
    pc,         \* where each actor stands in relayDueMessage() or relaySend()
    fresh,      \* the actors whose version of the row still is the row's
    lease,      \* the lease an actor's claim wrote
    tries,      \* the attempt a bounded retry loop is at
    relayed,    \* the actors whose relayedAt/accepted is set: the transport has the message
    permanent,  \* the actors recording a failure no retry can fix
    deleting,   \* a DELETE request has checked the row and not yet deleted it
    ops, faults, crashes, stalls,
    relays,     \* history: how often the transport accepted the message
    lost,       \* history: an acceptance no row and no actor remembers
    overran,    \* history: an actor was still at work on a relay when its lease lapsed
    falseNotice \* history: an undelivered notice was filed for an accepted message

local   == <<pc, fresh, lease, tries, relayed, permanent>>
bounds  == <<ops, faults, crashes, stalls>>
history == <<relays, lost, overran, falseNotice>>
vars    == <<row, now, local, deleting, bounds, history>>

Actors  == Jobs \cup Requests
NoTime  == 0      \* a null date; the clock starts at 1
Folders == {"Drafts", "Outbox", "Sent", "Other"}
FILING_ATTEMPTS == 3
MARK_ATTEMPTS   == 3

Claimed == {"claimed", "mark", "file", "filing", "failing", "recording",
            "release", "releasing", "remark", "remarking"}

Row == [folder: Folders, state: {"live", "deleted", "purged"},
        sst: Nat, lease: Nat, attempts: Nat, error: BOOLEAN,
        relayedAt: BOOLEAN, sentByServer: BOOLEAN]

Init ==
    /\ row = [folder |-> "Drafts", state |-> "live", sst |-> NoTime, lease |-> NoTime,
              attempts |-> 0, error |-> FALSE, relayedAt |-> FALSE, sentByServer |-> FALSE]
    /\ now = 1
    /\ pc = [p \in Actors |-> "idle"]
    /\ fresh = {}
    /\ lease = [p \in Actors |-> NoTime]
    /\ tries = [p \in Actors |-> 0]
    /\ relayed = {}
    /\ permanent = {}
    /\ deleting = FALSE
    /\ ops = 0 /\ faults = 0 /\ crashes = 0 /\ stalls = 0
    /\ relays = 0 /\ lost = FALSE /\ overran = FALSE /\ falseNotice = FALSE

--------------------------------------------------------------------------------
(* What the code's conditions ask of the row. *)

Live(r) == r.state = "live"

InFlight_Ignored(r) == FALSE
InFlight(r) == r.lease > now

Due_NeverRetried(r) == Live(r) /\ r.sst # NoTime /\ r.sst <= now /\ ~r.error
Due(r) == Live(r) /\ r.sst # NoTime /\ r.sst <= now

Recorded(r) == r.relayedAt \/ r.sentByServer

StillClaimed_AnyLease(p) == Live(row) /\ row.folder = "Outbox"

\* The row is still in the Outbox p claimed it in and carries the lease p's claim wrote.
StillClaimed(p) == Live(row) /\ row.folder = "Outbox" /\ row.lease = lease[p]

\* A send that failed for good: nothing due, nothing leased, an error recorded.
FailedInOutbox(r) == r.folder = "Outbox" /\ r.sst = NoTime /\ ~InFlight(r) /\ r.error

--------------------------------------------------------------------------------
(* The ways a step leaves the state. *)

\* A version-checked write p wins: every other version of the row is stale now.
Write(p, r) == row' = r /\ fresh' = {p}

\* A write by somebody who keeps no version.
WriteBy(r) == row' = r /\ fresh' = {}

Read(p) == fresh' = fresh \cup {p} /\ UNCHANGED row

\* p goes on, at attempt n of the loop it is in.
Goto(p, label, n) ==
    /\ pc' = [pc EXCEPT ![p] = label]
    /\ tries' = [tries EXCEPT ![p] = n]
    /\ UNCHANGED <<lease, relayed, permanent, lost>>

\* p is through with the message; r is the row it leaves.
Finish(p, r) ==
    /\ pc' = [pc EXCEPT ![p] = "idle"]
    /\ lease' = [lease EXCEPT ![p] = NoTime]
    /\ tries' = [tries EXCEPT ![p] = 0]
    /\ relayed' = relayed \ {p}
    /\ permanent' = permanent \ {p}
    /\ lost' = IF p \in relayed /\ ~Recorded(r) THEN TRUE ELSE lost

\* The datastore or the blob store fails an operation.
Fault == faults < MaxFaults /\ faults' = faults + 1

\* p's version-checked write fails: its version is stale, or the datastore fails it.
WriteFails(p) == \/ p \notin fresh /\ UNCHANGED faults
                 \/ p \in fresh /\ Fault

\* Nothing but p's own position, the row and the versions held change.
Quiet == UNCHANGED <<now, deleting, ops, crashes, stalls, relays, overran>>

--------------------------------------------------------------------------------
(* ScheduledSendJob: a due row is read, validated and claimed or refused. *)

\* run() and enqueue(): the row is due when it is read; it is relayed from that copy.
JobReads(p) ==
    /\ p \in Jobs /\ pc[p] = "idle" /\ Due(row)
    /\ Read(p) /\ Goto(p, "read", 0)
    /\ UNCHANGED <<faults, falseNotice>> /\ Quiet

\* refuse(): out of the queue, unsent, the reason recorded.
Refused(r) == [r EXCEPT !.sst = NoTime, !.lease = NoTime, !.attempts = 0, !.error = TRUE]

\* The notice refuse() files in the sender's Inbox says nobody received the message.
Notify == falseNotice' = IF relays > 0 THEN TRUE ELSE falseNotice

\* validateForRelay() refuses: not in its mailbox's Outbox, or, unless only the filing is
\* left, the mailbox, the recipients or the From address do not pass.
JobRefuses(p) ==
    /\ p \in Jobs /\ pc[p] = "read" /\ p \in fresh
    /\ row.folder # "Outbox" \/ ~row.relayedAt
    /\ Write(p, Refused(row)) /\ Finish(p, row') /\ Notify
    /\ UNCHANGED faults /\ Quiet

JobClaims_Unversioned(p) ==
    /\ p \in Jobs /\ pc[p] = "read" /\ row.folder = "Outbox"
    /\ Write(p, [row EXCEPT !.sst = now + JobLease, !.lease = now + JobLease])
    /\ pc' = [pc EXCEPT ![p] = IF row.relayedAt THEN "file" ELSE "claimed"]
    /\ lease' = [lease EXCEPT ![p] = now + JobLease]
    /\ relayed' = IF row.relayedAt THEN relayed \cup {p} ELSE relayed
    /\ UNCHANGED <<tries, permanent, lost, faults, falseNotice>> /\ Quiet

\* The claim: the row leaves the due queue for the lease's duration.
JobClaims(p) ==
    /\ p \in Jobs /\ pc[p] = "read" /\ p \in fresh /\ row.folder = "Outbox"
    /\ Write(p, [row EXCEPT !.sst = now + JobLease, !.lease = now + JobLease])
    /\ pc' = [pc EXCEPT ![p] = IF row.relayedAt THEN "file" ELSE "claimed"]
    /\ lease' = [lease EXCEPT ![p] = now + JobLease]
    /\ relayed' = IF row.relayedAt THEN relayed \cup {p} ELSE relayed
    /\ UNCHANGED <<tries, permanent, lost, faults, falseNotice>> /\ Quiet

\* A claim or a refusal that fails ends the work; the row stays as it is.
ReadLoses(p) ==
    /\ pc[p] = "read" /\ WriteFails(p)
    /\ Finish(p, row) /\ UNCHANGED <<row, fresh, falseNotice>> /\ Quiet

\* The stored MIME's originator headers, or a body sealed since: refused under the claim.
JobRefusesClaimed(p) ==
    /\ p \in Jobs /\ pc[p] = "claimed" /\ p \in fresh
    /\ Write(p, Refused(row)) /\ Finish(p, row') /\ Notify
    /\ UNCHANGED faults /\ Quiet

\* A refusal that cannot be written is caught and recorded as a failed attempt.
JobRefusalFails(p) ==
    /\ p \in Jobs /\ pc[p] = "claimed" /\ WriteFails(p)
    /\ Goto(p, "failing", 0)
    /\ UNCHANGED <<row, fresh, falseNotice>> /\ Quiet

--------------------------------------------------------------------------------
(* BaseMessageRoute.relaySend(): an immediate send claims a draft by moving it *)
(* into the Outbox under a lease, due to nobody.                               *)

RequestReads(p) ==
    /\ p \in Requests /\ pc[p] = "idle" /\ ops < MaxOps
    /\ Live(row) /\ row.folder = "Drafts" /\ ~row.relayedAt /\ row.sst <= now
    /\ ops' = ops + 1
    /\ Read(p) /\ Goto(p, "read", 0)
    /\ UNCHANGED <<now, deleting, faults, crashes, stalls, relays, overran, falseNotice>>

RequestClaims(p) ==
    /\ p \in Requests /\ pc[p] = "read" /\ p \in fresh
    /\ Write(p, [row EXCEPT !.folder = "Outbox", !.sst = NoTime, !.lease = now + SendLease])
    /\ pc' = [pc EXCEPT ![p] = "claimed"]
    /\ lease' = [lease EXCEPT ![p] = now + SendLease]
    /\ UNCHANGED <<tries, relayed, permanent, lost, faults, falseNotice>> /\ Quiet

--------------------------------------------------------------------------------
(* The relay, and the marker written the moment the transport accepts. *)

\* scanAndRelay() throws before the transport accepted: a job records the attempt, a
\* request gives the draft back.
RelayFails(p) ==
    /\ pc[p] = "claimed"
    /\ permanent' \in IF p \in Jobs THEN {permanent, permanent \cup {p}} ELSE {permanent}
    /\ pc' = [pc EXCEPT ![p] = IF p \in Jobs THEN "failing" ELSE "release"]
    /\ UNCHANGED <<row, fresh, lease, tries, relayed, lost, faults, falseNotice>> /\ Quiet

RelayAccepts(p) ==
    /\ pc[p] = "claimed"
    /\ relays' = relays + 1
    /\ relayed' = relayed \cup {p}
    /\ pc' = [pc EXCEPT ![p] = "mark"]
    /\ tries' = [tries EXCEPT ![p] = 1]
    /\ UNCHANGED <<row, now, fresh, lease, permanent, deleting, bounds, lost, overran, falseNotice>>

\* recordRelayed(): the job writes the marker alone; a request also makes the row due when
\* its lease lapses, so that a job finishes what a dead process leaves.
Marked(p, r) == [r EXCEPT !.relayedAt = TRUE, !.sst = IF p \in Requests THEN lease[p] ELSE @]

MarkWrites(p) ==
    /\ pc[p] = "mark" /\ p \in fresh
    /\ Write(p, Marked(p, row)) /\ Goto(p, "file", 0)
    /\ UNCHANGED <<faults, falseNotice>> /\ Quiet

\* A failed write is tried again on the row as it is now, soft-deleted or not.
MarkAgain(p) == tries[p] < MARK_ATTEMPTS /\ row.state # "purged" /\ ~row.relayedAt

MarkRetries(p) ==
    /\ pc[p] = "mark" /\ WriteFails(p) /\ MarkAgain(p)
    /\ Read(p) /\ Goto(p, "mark", tries[p] + 1)
    /\ UNCHANGED falseNotice /\ Quiet

MarkGivesUp(p) ==
    /\ pc[p] = "mark" /\ WriteFails(p) /\ ~MarkAgain(p)
    /\ Goto(p, "file", 0)
    /\ UNCHANGED <<row, fresh, falseNotice>> /\ Quiet

\* A re-read that throws leaves scanAndRelay(): a job goes on to the filing, a request
\* records the relay once more.
MarkReadFails(p) ==
    /\ pc[p] = "mark" /\ p \notin fresh /\ Fault
    /\ Goto(p, IF p \in Jobs THEN "file" ELSE "remark", 0)
    /\ UNCHANGED <<row, fresh, falseNotice>> /\ Quiet

--------------------------------------------------------------------------------
(* Filing into Sent Items, only while the claim stands. *)

FileReads(p) ==
    /\ pc[p] = "file" /\ StillClaimed(p)
    /\ Read(p) /\ Goto(p, "filing", 1)
    /\ UNCHANGED <<faults, falseNotice>> /\ Quiet

\* A version conflict re-reads the row and files again while the claim stands.
FileRetries(p) ==
    /\ pc[p] = "filing" /\ p \notin fresh /\ tries[p] < FILING_ATTEMPTS /\ StillClaimed(p)
    /\ Read(p) /\ Goto(p, "filing", tries[p] + 1)
    /\ UNCHANGED <<faults, falseNotice>> /\ Quiet

\* The row read is under another claim, or under none: nothing is written.
NotClaimed(p) ==
    /\ \/ pc[p] \in {"file", "failing"}
       \/ pc[p] = "filing" /\ p \notin fresh /\ tries[p] < FILING_ATTEMPTS
    /\ ~StillClaimed(p)
    /\ Finish(p, row)
    /\ UNCHANGED <<row, fresh, faults, falseNotice>> /\ Quiet

\* A job clears the attempts and the error too; a request leaves what a draft carries.
Filed(p, r) ==
    [r EXCEPT !.folder = "Sent", !.sst = NoTime, !.lease = NoTime, !.relayedAt = FALSE,
              !.sentByServer = TRUE,
              !.attempts = IF p \in Jobs THEN 0 ELSE @,
              !.error = IF p \in Jobs THEN FALSE ELSE @]

Files(p) ==
    /\ pc[p] = "filing" /\ p \in fresh
    /\ Write(p, Filed(p, row)) /\ Finish(p, row')
    /\ UNCHANGED <<faults, falseNotice>> /\ Quiet

\* Where a filing that failed is recorded.
UnfiledLabel(p) == IF p \in Jobs THEN "failing" ELSE "remark"

\* The last conflict, or a row, blob or Sent Items folder that cannot be read or written.
FilingFails(p) ==
    /\ pc[p] \in {"file", "filing"}
    /\ \/ Fault
       \/ /\ pc[p] = "filing" /\ p \notin fresh /\ tries[p] >= FILING_ATTEMPTS
          /\ UNCHANGED faults
    /\ Goto(p, UnfiledLabel(p), 0)
    /\ UNCHANGED <<row, fresh, falseNotice>> /\ Quiet

--------------------------------------------------------------------------------
(* recordFailedAttempt() of the job: best effort, under the claim only. *)

FailReads(p) ==
    /\ pc[p] = "failing" /\ StillClaimed(p)
    /\ Read(p) /\ Goto(p, "recording", 0)
    /\ UNCHANGED <<faults, falseNotice>> /\ Quiet

Exhausted(p) == p \in permanent \/ row.attempts + 1 >= MaxAttempts

\* The message the job took was due, so its due time never lies ahead of the clock.
FailedAttempt(p, r) ==
    [r EXCEPT !.relayedAt = IF p \in relayed THEN TRUE ELSE @,
              !.sst = IF Exhausted(p) THEN NoTime ELSE now + (row.attempts + 1) * Backoff,
              !.lease = NoTime,
              !.attempts = IF Exhausted(p) THEN 0 ELSE @ + 1,
              !.error = TRUE]

FailRecords_AlwaysNotifies(p) ==
    /\ pc[p] = "recording" /\ p \in fresh
    /\ Write(p, FailedAttempt(p, row)) /\ Finish(p, row')
    /\ IF Exhausted(p) THEN Notify ELSE UNCHANGED falseNotice
    /\ UNCHANGED faults /\ Quiet

FailRecords(p) ==
    /\ pc[p] = "recording" /\ p \in fresh
    /\ Write(p, FailedAttempt(p, row)) /\ Finish(p, row')
    /\ IF Exhausted(p) /\ p \notin relayed THEN Notify ELSE UNCHANGED falseNotice
    /\ UNCHANGED faults /\ Quiet

\* A record that cannot be read for or written is only logged, as is a release.
RecordFails(p) ==
    /\ \/ pc[p] \in {"recording", "releasing"} /\ WriteFails(p)
       \/ pc[p] \in {"failing", "release"} /\ Fault
    /\ Finish(p, row) /\ UNCHANGED <<row, fresh, falseNotice>> /\ Quiet

--------------------------------------------------------------------------------
(* An immediate send that failed: releaseClaim() and markRelayed(). *)

\* Only the folder is compared: the row may by now be in the Outbox for another reason.
ReleaseReads(p) ==
    /\ pc[p] = "release" /\ Live(row) /\ row.folder = "Outbox"
    /\ Read(p) /\ Goto(p, "releasing", 0)
    /\ UNCHANGED <<faults, falseNotice>> /\ Quiet

Releases(p) ==
    /\ pc[p] = "releasing" /\ p \in fresh
    /\ Write(p, [row EXCEPT !.folder = "Drafts", !.lease = NoTime]) /\ Finish(p, row')
    /\ UNCHANGED <<faults, falseNotice>> /\ Quiet

RemarkReads(p) ==
    /\ pc[p] = "remark" /\ tries[p] < MARK_ATTEMPTS /\ row.state # "purged"
    /\ Read(p) /\ Goto(p, "remarking", tries[p] + 1)
    /\ UNCHANGED <<faults, falseNotice>> /\ Quiet

\* Moved meanwhile, gone, or tried often enough.
RequestGivesUp(p) ==
    /\ \/ pc[p] = "release" /\ ~(Live(row) /\ row.folder = "Outbox")
       \/ pc[p] = "remark" /\ (tries[p] >= MARK_ATTEMPTS \/ row.state = "purged")
    /\ Finish(p, row)
    /\ UNCHANGED <<row, fresh, faults, falseNotice>> /\ Quiet

\* Marked relayed and, while still in the Outbox, due at once and under no lease.
Remarked(r) == [r EXCEPT !.relayedAt = TRUE,
                         !.sst = IF r.folder = "Outbox" THEN now ELSE @,
                         !.lease = IF r.folder = "Outbox" THEN NoTime ELSE @]

Remarks(p) ==
    /\ pc[p] = "remarking" /\ p \in fresh
    /\ Write(p, Remarked(row)) /\ Finish(p, row')
    /\ UNCHANGED <<faults, falseNotice>> /\ Quiet

RemarkFails(p) ==
    /\ pc[p] = "remarking" /\ WriteFails(p)
    /\ Goto(p, "remark", tries[p])
    /\ UNCHANGED <<row, fresh, falseNotice>> /\ Quiet

RemarkReadFails(p) ==
    /\ pc[p] = "remark" /\ tries[p] < MARK_ATTEMPTS /\ Fault
    /\ Goto(p, "remark", tries[p] + 1)
    /\ UNCHANGED <<row, fresh, falseNotice>> /\ Quiet

--------------------------------------------------------------------------------
(* Users, trusted callers, other jobs.  A request that reads the row, checks it and *)
(* writes it with the version read is one step: it commits only if nothing was      *)
(* written in between, and otherwise changes nothing.                               *)

UserStep == /\ ops < MaxOps /\ ops' = ops + 1
            /\ UNCHANGED <<now, pc, lease, tries, relayed, permanent, faults, crashes, stalls, history>>

\* send() in the background (d = 0) or deferred: the draft, or a message that failed for
\* good, waits in the Outbox for its time with a fresh retry budget.
Queue(d) ==
    /\ Live(row) /\ ~row.relayedAt
    /\ row.folder = "Drafts" \/ FailedInOutbox(row)
    /\ WriteBy([row EXCEPT !.folder = "Outbox", !.sst = now + d, !.attempts = 0,
                           !.error = FALSE, !.lease = NoTime])
    /\ UserStep /\ UNCHANGED deleting

\* A user moves the message out of the Outbox, which cancels the send.
Cancel(f) ==
    /\ Live(row) /\ row.folder = "Outbox" /\ ~InFlight(row) /\ ~row.relayedAt
    /\ WriteBy([row EXCEPT !.folder = f, !.sst = NoTime, !.attempts = 0, !.error = FALSE,
                           !.lease = NoTime])
    /\ UserStep /\ UNCHANGED deleting

\* A draft thrown away, a sent message moved on.
Discard ==
    /\ Live(row) /\ row.folder \in {"Drafts", "Sent"} /\ ~InFlight(row)
    /\ WriteBy([row EXCEPT !.folder = "Other"])
    /\ UserStep /\ UNCHANGED deleting

\* A trusted caller's move skips the scheduled-send rules: what is scheduled stays scheduled.
TrustedMove(f) ==
    /\ Trusted /\ Live(row) /\ row.folder = "Outbox" /\ ~InFlight(row)
    /\ WriteBy([row EXCEPT !.folder = f])
    /\ UserStep /\ UNCHANGED deleting

\* A flag change or an index stamp: only the version moves.
Touch == Live(row) /\ WriteBy(row) /\ UserStep /\ UNCHANGED deleting

\* DELETE reads and checks the row, then deletes whatever is there.
DeleteChecks ==
    /\ Live(row) /\ ~InFlight(row) /\ ~deleting /\ deleting' = TRUE
    /\ UserStep /\ UNCHANGED <<row, fresh>>

DeleteApplies ==
    /\ deleting /\ deleting' = FALSE
    /\ IF Live(row)
         THEN \E s \in {"deleted", "purged"} : WriteBy([row EXCEPT !.state = s])
         ELSE UNCHANGED <<row, fresh>>
    /\ UNCHANGED <<now, pc, lease, tries, relayed, permanent, bounds, history>>

Restore == row.state = "deleted" /\ WriteBy([row EXCEPT !.state = "live"])
           /\ UserStep /\ UNCHANGED deleting

--------------------------------------------------------------------------------
(* Crashes and time. *)

Crash(p) ==
    /\ pc[p] # "idle" /\ crashes < MaxCrashes /\ crashes' = crashes + 1
    /\ Finish(p, row)
    /\ UNCHANGED <<row, fresh, now, deleting, ops, faults, stalls, relays, overran, falseNotice>>

\* p may still hand the message to the transport, may hold the only memory of an
\* acceptance, or may still give the draft back.
AtRisk(p) == \/ pc[p] \in {"claimed", "release", "releasing"}
             \/ p \in relayed /\ ~Recorded(row)

Lapsing(p) == pc[p] \in Claimed /\ lease[p] = now + 1

\* The clock runs while something waits for it.
Tick ==
    /\ row.sst > now \/ row.lease > now \/ \E p \in Actors : lease[p] > now
    /\ now' = now + 1
    /\ IF \E p \in Actors : Lapsing(p)
         THEN stalls < MaxStalls /\ stalls' = stalls + 1
         ELSE UNCHANGED stalls
    /\ overran' = IF \E p \in Actors : AtRisk(p) /\ lease[p] <= now + 1 THEN TRUE ELSE overran
    /\ UNCHANGED <<row, local, deleting, ops, faults, crashes, relays, lost, falseNotice>>

--------------------------------------------------------------------------------

\* The steps of the code that sends; each waits for nobody.
Work(p) ==
    \/ JobReads(p) \/ JobRefuses(p) \/ JobClaims(p) \/ ReadLoses(p)
    \/ JobRefusesClaimed(p) \/ JobRefusalFails(p) \/ RequestClaims(p)
    \/ RelayFails(p) \/ RelayAccepts(p) \/ MarkWrites(p) \/ MarkRetries(p) \/ MarkGivesUp(p)
    \/ MarkReadFails(p) \/ FileReads(p) \/ FileRetries(p) \/ Files(p) \/ NotClaimed(p) \/ FilingFails(p)
    \/ FailReads(p) \/ FailRecords(p) \/ RecordFails(p)
    \/ ReleaseReads(p) \/ Releases(p) \/ RemarkReads(p) \/ Remarks(p) \/ RemarkFails(p)
    \/ RemarkReadFails(p) \/ RequestGivesUp(p)

User ==
    \/ \E d \in 0..MaxDefer : Queue(d)
    \/ \E f \in {"Drafts", "Other"} : Cancel(f)
    \/ \E f \in {"Drafts", "Other"} : TrustedMove(f)
    \/ Discard \/ Touch \/ DeleteChecks \/ DeleteApplies \/ Restore

Next ==
    \/ \E p \in Actors : Work(p) \/ RequestReads(p) \/ Crash(p)
    \/ User
    \/ Tick

Spec == Init /\ [][Next]_vars

\* For TLC: those who may be exchanged for one another.
SendSymmetry == Permutations(Jobs) \cup Permutations(Requests)

\* The scheduler runs the job at every interval, a started request runs on, time passes.
Fairness == (\A p \in Actors : WF_vars(Work(p))) /\ WF_vars(Tick)

FairSpec == Spec /\ Fairness

--------------------------------------------------------------------------------

RowOK == row \in Row /\ fresh \subseteq Actors

LocalOK ==
    /\ pc \in [Actors -> {"idle", "read"} \cup Claimed]
    /\ lease \in [Actors -> Nat]
    /\ tries \in [Actors -> 0..3]
    /\ relayed \subseteq Actors
    /\ permanent \subseteq Actors
    /\ lost \in BOOLEAN

WorldOK ==
    /\ now \in Nat \ {0} /\ deleting \in BOOLEAN
    /\ ops \in 0..MaxOps /\ faults \in 0..MaxFaults
    /\ crashes \in 0..MaxCrashes /\ stalls \in 0..MaxStalls
    /\ relays \in Nat /\ overran \in BOOLEAN /\ falseNotice \in BOOLEAN

TypeOK == RowOK /\ LocalOK /\ WorldOK

\* The transport accepts a message at most once, whatever replicas, requests, cancels,
\* deletes, restores and crashes interleave - unless a process died (or its writes failed)
\* between the acceptance and its marker, or a relay outlived its lease.
AtMostOnceRelay == relays > 1 => lost \/ overran

(* The inductive strengthening of AtMostOnceRelay.  Until a relay is recorded on the *)
(* row, and while no relay outlived its lease, the unexpired claim is exclusive.     *)

Open       == ~overran /\ ~Recorded(row)
Holding(p) == pc[p] \in Claimed /\ now < lease[p]

\* An actor whose claim has not lapsed finds the row in the Outbox under its own lease,
\* due when the lease lapses or later, or, under an immediate send, to nobody.
HolderInv ==
    Open => \A p \in Actors : Holding(p) =>
        /\ row.folder = "Outbox" /\ row.lease = lease[p]
        /\ row.sst >= lease[p] \/ (p \in Requests /\ row.sst = NoTime)

SoleInv == Open => \A p, q \in Actors : Holding(p) /\ Holding(q) => p = q
RiskInv == Open => \A p \in Actors : AtRisk(p) => now < lease[p]

\* What an actor learnt from the row it read holds as long as its version is current.
ReadInv ==
    \A p \in fresh :
        /\ pc[p] = "read" /\ p \in Jobs => Due(row)
        /\ pc[p] = "read" /\ p \in Requests => row.folder = "Drafts" /\ ~row.relayedAt
        /\ pc[p] \in {"filing", "recording"} => row.folder = "Outbox" /\ row.lease = lease[p]
        /\ pc[p] = "releasing" => row.folder = "Outbox"

PlaceInv ==
    /\ row.sentByServer => row.folder \in {"Sent", "Other"}
    /\ \A p \in relayed : pc[p] \in Claimed \ {"claimed", "release", "releasing"}
    /\ \A p \in Actors : pc[p] \in {"mark", "file", "filing", "remark", "remarking"} => p \in relayed

\* A claim has a lease; one that still is the row's, or that has not lapsed, is of a row with
\* no relay recorded, or its actor knows of the relay.
LeaseInv == \A p \in Actors : pc[p] \in Claimed => lease[p] # NoTime
FirstInv ==
    ~overran => \A p \in Actors \ relayed :
        pc[p] \in Claimed /\ (now < lease[p] \/ (row.folder = "Outbox" /\ row.lease = lease[p]))
            => ~Recorded(row)

\* A recorded relay leaves nobody about to relay; an acceptance is recorded or remembered.
ClosedInv == ~overran /\ Recorded(row) => \A p \in Actors : pc[p] \notin {"claimed", "mark"}
MemoryInv == ~overran /\ ~lost /\ relays > 0 => Recorded(row) \/ relayed # {}
OnceInv   == ~overran /\ ~lost => relays <= 1

ClaimInv == /\ HolderInv /\ SoleInv /\ RiskInv /\ ReadInv /\ PlaceInv
           /\ LeaseInv /\ FirstInv /\ ClosedInv /\ MemoryInv /\ OnceInv

\* Every field keeps its type, and the claim on the row is exclusive where ScheduledSendJob relies on it.
SendInv == TypeOK /\ ClaimInv

\* The transport is only ever handed the message by the actor whose unexpired claim the
\* row carries, in the Outbox, with no relay recorded (relayDueMessage(), relayClaimed()).
RelayUnderClaim ==
    [][\A p \in Actors : pc[p] = "claimed" /\ pc'[p] = "mark" /\ ~overran =>
          row.folder = "Outbox" /\ row.lease = lease[p] /\ now < lease[p] /\ ~Recorded(row)]_vars

\* A message in the Outbox is never silently dropped: it is due some time, it carries an
\* error the user can see, or an immediate send's lease tells that it was being sent.
NeverSilentlyDropped ==
    Live(row) /\ row.folder = "Outbox" => row.sst # NoTime \/ row.error \/ row.lease # NoTime

\* A relay recorded on a message still in the Outbox is never forgotten there: a job has it
\* to file at some time, or its failure to be filed is on the row.
RelayedIsFiled ==
    Live(row) /\ row.folder = "Outbox" /\ row.relayedAt /\ ~overran =>
        row.sst # NoTime \/ row.error

\* An undelivered notice is filed for a message the transport accepted only when the
\* acceptance was not recorded in time, or a trusted caller has moved the message.
NoFalseNotice == [][falseNotice' # falseNotice => lost \/ overran \/ row.folder # "Outbox"]_vars

\* What became of a message can always be told from its row, and is never told wrongly.
OutcomeTold == [](NeverSilentlyDropped /\ RelayedIsFiled) /\ NoFalseNotice

\* A message that is waiting in the Outbox is eventually filed, failed for good, taken out
\* of the Outbox or deleted.
Waiting == Live(row) /\ row.folder = "Outbox" /\ row.sst # NoTime
Settles == Waiting ~> ~Waiting
=================================================================================
