--------------------------------- MODULE MCLive --------------------------------
(****************************************************************************)
(* What happens in the end, each part on its own: to a message in the       *)
(* Outbox, and to an entry of the ingest queue.  The variables of the send  *)
(* path begin with s, those of the queue with q.                            *)
(****************************************************************************)
EXTENDS Naturals
CONSTANTS Jobs, Requests, JobLease, SendLease, MaxDefer, Trusted, MaxOps, MaxStalls,
          Workers, Kinds, Lease, DeferWait, DeferMax, MaxErasure, MaxTries, Poison,
          MaxAttempts, Backoff, MaxFaults
VARIABLES part,
    sRow, sNow, sPc, sFresh, sLease, sTries, sRelayed, sPermanent, sDeleting, sOps, sFaults,
    sCrashes, sStalls, sRelays, sLost, sOverran, sFalseNotice,
    qEntry, qAge, qPc, qFresh, qHeld, qVerdict, qOwes, qEffect, qScanned, qQuarantined, qCopies,
    qCharges, qMarker, qMarks, qSent, qErasure, qMta, qOverran, qSlipped, qFaults, qCrashes, qSteps,
    qTries

Send == INSTANCE ScheduledSend WITH MaxCrashes <- 1,
    row <- sRow, now <- sNow, pc <- sPc, fresh <- sFresh, lease <- sLease, tries <- sTries, relayed <-
    sRelayed, permanent <- sPermanent, deleting <- sDeleting, ops <- sOps, faults <- sFaults, crashes <-
    sCrashes, stalls <- sStalls, relays <- sRelays, lost <- sLost, overran <- sOverran, falseNotice <-
    sFalseNotice
Queue == INSTANCE IngestQueue WITH MaxCrashes <- 0,
    entry <- qEntry, age <- qAge, pc <- qPc, fresh <- qFresh, held <- qHeld, verdict <- qVerdict, owes <-
    qOwes, effect <- qEffect, scanned <- qScanned, quarantined <- qQuarantined, copies <- qCopies, charges <-
    qCharges, marker <- qMarker, marks <- qMarks, sent <- qSent, erasure <- qErasure, mta <- qMta, overran <-
    qOverran, slipped <- qSlipped, faults <- qFaults, crashes <- qCrashes, steps <- qSteps, tries <- qTries

sendVars == <<sRow, sNow, sPc, sFresh, sLease, sTries, sRelayed, sPermanent, sDeleting, sOps, sFaults,
              sCrashes, sStalls, sRelays, sLost, sOverran, sFalseNotice>>
queueVars == <<qEntry, qAge, qPc, qFresh, qHeld, qVerdict, qOwes, qEffect, qScanned, qQuarantined, qCopies,
               qCharges, qMarker, qMarks, qSent, qErasure, qMta, qOverran, qSlipped, qFaults, qCrashes,
               qSteps, qTries>>

MCInit == part \in {"send", "queue"} /\ Send!Init /\ Queue!Init /\ (part # "queue" => qEntry.sealed)
MCNext ==
    \/ part = "send" /\ Send!Next /\ UNCHANGED <<part, queueVars>>
    \/ part = "queue" /\ Queue!Next /\ UNCHANGED <<part, sendVars>>
MCVars == <<part, sendVars, queueVars>>
\* Each module's own fairness, in its part.
SendFairness ==
    /\ \A p \in Jobs \cup Requests : WF_sendVars(part = "send" /\ Send!Work(p))
    /\ WF_sendVars(part = "send" /\ Send!Tick)
QueueFairness ==
    /\ \A w \in Workers : WF_queueVars(part = "queue" /\ Queue!Work(w))
    /\ WF_queueVars(part = "queue" /\ Queue!Tick)
MCSpec == MCInit /\ [][MCNext]_MCVars /\ SendFairness /\ QueueFairness

\* A message waiting in the Outbox is eventually filed, failed for good, taken out of it or deleted (ScheduledSendJob).
SendSettles == Send!Settles
\* Every entry of the queue is eventually closed or parked for an operator: also one that kills each worker that scans it,
\* and one whose mailbox waits for an erasure that a legal hold blocks (ScanQueueJob).
QueueSettles == Queue!Settles
================================================================================
