-------------------------- MODULE ScheduledSendProofs --------------------------
(****************************************************************************)
(* Theorems about ScheduledSend for any number of replicas and requests and *)
(* any leases, retry budgets and bounds.                                    *)
(****************************************************************************)
EXTENDS ScheduledSend, TLAPS

Labels == {"idle", "read"} \cup Claimed

\* Goto() keeps what an actor remembers in its type.
LEMMA GotoType ==
    ASSUME LocalOK, NEW p \in Actors, NEW label \in Labels, NEW n \in 0..3, Goto(p, label, n)
    PROVE  LocalOK'
<1>1. pc' \in [Actors -> Labels]
      BY DEF LocalOK, Goto, Labels
<1>2. tries' \in [Actors -> 0..3]
      BY DEF LocalOK, Goto
<1> QED
      BY <1>1, <1>2 DEF LocalOK, Goto, Labels

\* So does Finish(), whatever row it leaves.
LEMMA FinishType ==
    ASSUME LocalOK, NEW p \in Actors, NEW r, Finish(p, r)
    PROVE  LocalOK'
<1>1. pc' \in [Actors -> Labels]
      BY DEF LocalOK, Finish, Labels
<1>2. tries' \in [Actors -> 0..3]
      BY DEF LocalOK, Finish
<1>3. lease' \in [Actors -> Nat]
      BY DEF LocalOK, Finish, NoTime
<1>4. relayed' \subseteq Actors /\ permanent' \subseteq Actors /\ lost' \in BOOLEAN
      BY DEF LocalOK, Finish
<1> QED
      BY <1>1, <1>2, <1>3, <1>4 DEF LocalOK, Labels

\* Reads and version-checked writes keep the row and the set of fresh versions in theirs.
LEMMA ReadType == ASSUME RowOK, NEW p \in Actors, Read(p) PROVE RowOK'
      BY DEF RowOK, Read

\* A write of a row leaves a row.
LEMMA WriteType ==
    ASSUME NEW p \in Actors, NEW r \in Row, Write(p, r) \/ WriteBy(r) PROVE RowOK'
      BY DEF RowOK, Write, WriteBy

\* A claim's update of the row is a row.
LEMMA ClaimType ==
    ASSUME row \in Row, now \in Nat
    PROVE  /\ [row EXCEPT !.sst = now + JobLease, !.lease = now + JobLease] \in Row
           /\ [row EXCEPT !.folder = "Outbox", !.sst = NoTime, !.lease = now + SendLease] \in Row
<1>1. now + JobLease \in Nat /\ now + SendLease \in Nat
      BY ScheduledSendAssumption
<1> QED
      BY <1>1 DEF Row, Folders, NoTime

\* The row of a failed attempt, for any next time and number of attempts.
LEMMA AttemptType ==
    ASSUME NEW r \in Row, NEW s \in Nat, NEW n \in Nat, NEW t,
           \/ t = [r EXCEPT !.sst = s, !.lease = NoTime, !.attempts = n, !.error = TRUE]
           \/ t = [r EXCEPT !.relayedAt = TRUE, !.sst = s, !.lease = NoTime, !.attempts = n,
                            !.error = TRUE]
    PROVE  t \in Row
<1>1. CASE t = [r EXCEPT !.sst = s, !.lease = NoTime, !.attempts = n, !.error = TRUE]
      BY <1>1 DEF Row, NoTime
<1>2. CASE t = [r EXCEPT !.relayedAt = TRUE, !.sst = s, !.lease = NoTime, !.attempts = n,
                         !.error = TRUE]
      BY <1>2 DEF Row, NoTime
<1> QED
      BY <1>1, <1>2

\* A failed attempt, with its next time or parked, is a row.
LEMMA FailedAttemptType ==
    ASSUME TypeOK, NEW p \in Actors PROVE FailedAttempt(p, row) \in Row
<1>0. row \in Row
      BY DEF TypeOK, RowOK
<1>1. row.attempts \in Nat /\ now \in Nat
      BY DEF TypeOK, RowOK, WorldOK, Row
<1>2. PICK s \in Nat : s = IF Exhausted(p) THEN NoTime ELSE now + (row.attempts + 1) * Backoff
      BY <1>1, ScheduledSendAssumption DEF NoTime
<1>3. PICK n \in Nat : n = IF Exhausted(p) THEN 0 ELSE row.attempts + 1
      BY <1>1
<1>4. CASE p \in relayed
  <2>1. FailedAttempt(p, row) = [row EXCEPT !.relayedAt = TRUE, !.sst = s, !.lease = NoTime,
                                            !.attempts = n, !.error = TRUE]
        BY <1>0, <1>2, <1>3, <1>4 DEF FailedAttempt
  <2> QED
        BY <1>0, <2>1, AttemptType
<1>5. CASE p \notin relayed
  <2>1. FailedAttempt(p, row) = [row EXCEPT !.sst = s, !.lease = NoTime, !.attempts = n,
                                            !.error = TRUE]
        BY <1>0, <1>2, <1>3, <1>5 DEF FailedAttempt, Row
  <2> QED
        BY <1>0, <2>1, AttemptType
<1> QED
      BY <1>4, <1>5

\* Every other update of the row is a row.
LEMMA RowType ==
    ASSUME TypeOK, NEW p \in Actors
    PROVE  /\ Refused(row) \in Row /\ Marked(p, row) \in Row /\ Filed(p, row) \in Row
           /\ Remarked(row) \in Row
<1> USE DEF TypeOK, RowOK, LocalOK, WorldOK, Row, Folders, NoTime
<1>1. Refused(row) \in Row
      BY DEF Refused
<1>2. Marked(p, row) \in Row
      BY DEF Marked
<1>3. Filed(p, row) \in Row
      BY DEF Filed
<1>5. Remarked(row) \in Row
      BY DEF Remarked
<1> QED
      BY <1>1, <1>2, <1>3, <1>5

\* The type invariant is inductive: each step of relayDueMessage(), relaySend(), the
\* users and the clock leaves every variable in its range.
LEMMA TypeStep == TypeOK /\ [Next]_vars => TypeOK'
<1> SUFFICES ASSUME TypeOK, [Next]_vars PROVE TypeOK'
    OBVIOUS
<1>0. RowOK /\ LocalOK /\ WorldOK
      BY DEF TypeOK
<1>1. CASE UNCHANGED vars
      BY <1>0, <1>1 DEF vars, local, bounds, history, TypeOK, RowOK, LocalOK, WorldOK
<1>2. ASSUME NEW p \in Actors, JobReads(p) PROVE TypeOK'
  <2>1. RowOK'
        BY <1>0, <1>2, ReadType DEF JobReads
  <2>2. LocalOK'
        BY <1>0, <1>2, GotoType DEF JobReads, Labels, Claimed
  <2>3. WorldOK'
        BY <1>0, <1>2, ScheduledSendAssumption DEF JobReads, WorldOK, Quiet
  <2> QED
        BY <2>1, <2>2, <2>3 DEF TypeOK
<1>3. ASSUME NEW p \in Actors, JobRefuses(p) PROVE TypeOK'
  <2>1. RowOK'
        BY <1>3, RowType, WriteType DEF JobRefuses
  <2>2. LocalOK'
        BY <1>0, <1>3, FinishType DEF JobRefuses
  <2>3. WorldOK'
        BY <1>0, <1>3, ScheduledSendAssumption DEF JobRefuses, WorldOK, Notify, Quiet
  <2> QED
        BY <2>1, <2>2, <2>3 DEF TypeOK
<1>4. ASSUME NEW p \in Actors, JobClaims(p) PROVE TypeOK'
  <2>1. RowOK'
        BY <1>0, <1>4, ClaimType, WriteType DEF JobClaims, RowOK, WorldOK
  <2>2. LocalOK'
        BY <1>0, <1>4, ScheduledSendAssumption DEF JobClaims, LocalOK, WorldOK, Claimed
  <2>3. WorldOK'
        BY <1>0, <1>4, ScheduledSendAssumption DEF JobClaims, WorldOK, Quiet
  <2> QED
        BY <2>1, <2>2, <2>3 DEF TypeOK
<1>5. ASSUME NEW p \in Actors, ReadLoses(p) PROVE TypeOK'
  <2>1. RowOK'
        BY <1>0, <1>5 DEF ReadLoses, RowOK
  <2>2. LocalOK'
        BY <1>0, <1>5, FinishType DEF ReadLoses
  <2>3. WorldOK'
        BY <1>0, <1>5, ScheduledSendAssumption DEF ReadLoses, WorldOK, WriteFails, Fault, Quiet
  <2> QED
        BY <2>1, <2>2, <2>3 DEF TypeOK
<1>6. ASSUME NEW p \in Actors, JobRefusesClaimed(p) PROVE TypeOK'
  <2>1. RowOK'
        BY <1>6, RowType, WriteType DEF JobRefusesClaimed
  <2>2. LocalOK'
        BY <1>0, <1>6, FinishType DEF JobRefusesClaimed
  <2>3. WorldOK'
        BY <1>0, <1>6, ScheduledSendAssumption DEF JobRefusesClaimed, WorldOK, Notify, Quiet
  <2> QED
        BY <2>1, <2>2, <2>3 DEF TypeOK
<1>7. ASSUME NEW p \in Actors, JobRefusalFails(p) PROVE TypeOK'
  <2>1. RowOK'
        BY <1>0, <1>7 DEF JobRefusalFails, RowOK
  <2>2. LocalOK'
        BY <1>0, <1>7, GotoType DEF JobRefusalFails, Labels, Claimed
  <2>3. WorldOK'
        BY <1>0, <1>7, ScheduledSendAssumption DEF JobRefusalFails, WorldOK, WriteFails, Fault, Quiet
  <2> QED
        BY <2>1, <2>2, <2>3 DEF TypeOK
<1>8. ASSUME NEW p \in Actors, RequestReads(p) PROVE TypeOK'
  <2>1. RowOK'
        BY <1>0, <1>8, ReadType DEF RequestReads
  <2>2. LocalOK'
        BY <1>0, <1>8, GotoType DEF RequestReads, Labels, Claimed
  <2>3. WorldOK'
        BY <1>0, <1>8, ScheduledSendAssumption DEF RequestReads, WorldOK
  <2> QED
        BY <2>1, <2>2, <2>3 DEF TypeOK
<1>9. ASSUME NEW p \in Actors, RequestClaims(p) PROVE TypeOK'
  <2>1. RowOK'
        BY <1>0, <1>9, ClaimType, WriteType DEF RequestClaims, RowOK, WorldOK
  <2>2. LocalOK'
        BY <1>0, <1>9, ScheduledSendAssumption DEF RequestClaims, LocalOK, WorldOK, Claimed
  <2>3. WorldOK'
        BY <1>0, <1>9, ScheduledSendAssumption DEF RequestClaims, WorldOK, Quiet
  <2> QED
        BY <2>1, <2>2, <2>3 DEF TypeOK
<1>10. ASSUME NEW p \in Actors, RelayFails(p) PROVE TypeOK'
  <2>1. RowOK'
        BY <1>0, <1>10 DEF RelayFails, RowOK
  <2>2. LocalOK'
        BY <1>0, <1>10, ScheduledSendAssumption DEF RelayFails, LocalOK, WorldOK, Claimed
  <2>3. WorldOK'
        BY <1>0, <1>10, ScheduledSendAssumption DEF RelayFails, WorldOK, Quiet
  <2> QED
        BY <2>1, <2>2, <2>3 DEF TypeOK
<1>11. ASSUME NEW p \in Actors, RelayAccepts(p) PROVE TypeOK'
  <2>1. RowOK'
        BY <1>0, <1>11 DEF RelayAccepts, RowOK
  <2>2. LocalOK'
        BY <1>0, <1>11, ScheduledSendAssumption DEF RelayAccepts, LocalOK, WorldOK, Claimed
  <2>3. WorldOK'
        BY <1>0, <1>11, ScheduledSendAssumption DEF RelayAccepts, WorldOK, bounds
  <2> QED
        BY <2>1, <2>2, <2>3 DEF TypeOK
<1>12. ASSUME NEW p \in Actors, MarkWrites(p) PROVE TypeOK'
  <2>1. RowOK'
        BY <1>12, RowType, WriteType DEF MarkWrites
  <2>2. LocalOK'
        BY <1>0, <1>12, GotoType DEF MarkWrites, Labels, Claimed
  <2>3. WorldOK'
        BY <1>0, <1>12, ScheduledSendAssumption DEF MarkWrites, WorldOK, Quiet
  <2> QED
        BY <2>1, <2>2, <2>3 DEF TypeOK
<1>13. ASSUME NEW p \in Actors, MarkRetries(p) PROVE TypeOK'
  <2>0. tries[p] + 1 \in 0..3
        BY <1>0, <1>13 DEF MarkRetries, LocalOK, MARK_ATTEMPTS, FILING_ATTEMPTS, MarkAgain
  <2>1. RowOK'
        BY <1>0, <1>13, ReadType DEF MarkRetries
  <2>2. LocalOK'
        BY <1>0, <2>0, <1>13, GotoType DEF MarkRetries, Labels, Claimed
  <2>3. WorldOK'
        BY <1>0, <1>13, ScheduledSendAssumption DEF MarkRetries, WorldOK, WriteFails, Fault, Quiet
  <2> QED
        BY <2>1, <2>2, <2>3 DEF TypeOK
<1>14. ASSUME NEW p \in Actors, MarkGivesUp(p) PROVE TypeOK'
  <2>1. RowOK'
        BY <1>0, <1>14 DEF MarkGivesUp, RowOK
  <2>2. LocalOK'
        BY <1>0, <1>14, GotoType DEF MarkGivesUp, Labels, Claimed
  <2>3. WorldOK'
        BY <1>0, <1>14, ScheduledSendAssumption DEF MarkGivesUp, WorldOK, WriteFails, Fault, Quiet
  <2> QED
        BY <2>1, <2>2, <2>3 DEF TypeOK
<1>15. ASSUME NEW p \in Actors, MarkReadFails(p) PROVE TypeOK'
  <2>1. RowOK'
        BY <1>0, <1>15 DEF MarkReadFails, RowOK
  <2>2. LocalOK'
        BY <1>0, <1>15, GotoType DEF MarkReadFails, Labels, Claimed
  <2>3. WorldOK'
        BY <1>0, <1>15, ScheduledSendAssumption DEF MarkReadFails, WorldOK, Fault, Quiet
  <2> QED
        BY <2>1, <2>2, <2>3 DEF TypeOK
<1>16. ASSUME NEW p \in Actors, FileReads(p) PROVE TypeOK'
  <2>1. RowOK'
        BY <1>0, <1>16, ReadType DEF FileReads
  <2>2. LocalOK'
        BY <1>0, <1>16, GotoType DEF FileReads, Labels, Claimed
  <2>3. WorldOK'
        BY <1>0, <1>16, ScheduledSendAssumption DEF FileReads, WorldOK, Quiet
  <2> QED
        BY <2>1, <2>2, <2>3 DEF TypeOK
<1>17. ASSUME NEW p \in Actors, FileRetries(p) PROVE TypeOK'
  <2>0. tries[p] + 1 \in 0..3
        BY <1>0, <1>17 DEF FileRetries, LocalOK, MARK_ATTEMPTS, FILING_ATTEMPTS, MarkAgain
  <2>1. RowOK'
        BY <1>0, <1>17, ReadType DEF FileRetries
  <2>2. LocalOK'
        BY <1>0, <2>0, <1>17, GotoType DEF FileRetries, Labels, Claimed
  <2>3. WorldOK'
        BY <1>0, <1>17, ScheduledSendAssumption DEF FileRetries, WorldOK, Quiet
  <2> QED
        BY <2>1, <2>2, <2>3 DEF TypeOK
<1>18. ASSUME NEW p \in Actors, Files(p) PROVE TypeOK'
  <2>1. RowOK'
        BY <1>18, RowType, WriteType DEF Files
  <2>2. LocalOK'
        BY <1>0, <1>18, FinishType DEF Files
  <2>3. WorldOK'
        BY <1>0, <1>18, ScheduledSendAssumption DEF Files, WorldOK, Quiet
  <2> QED
        BY <2>1, <2>2, <2>3 DEF TypeOK
<1>19. ASSUME NEW p \in Actors, NotClaimed(p) PROVE TypeOK'
  <2>1. RowOK'
        BY <1>0, <1>19 DEF NotClaimed, RowOK
  <2>2. LocalOK'
        BY <1>0, <1>19, FinishType DEF NotClaimed
  <2>3. WorldOK'
        BY <1>0, <1>19, ScheduledSendAssumption DEF NotClaimed, WorldOK, Quiet
  <2> QED
        BY <2>1, <2>2, <2>3 DEF TypeOK
<1>20. ASSUME NEW p \in Actors, FilingFails(p) PROVE TypeOK'
  <2>1. RowOK'
        BY <1>0, <1>20 DEF FilingFails, RowOK
  <2>2. LocalOK'
        BY <1>0, <1>20, GotoType DEF FilingFails, Labels, Claimed, UnfiledLabel
  <2>3. WorldOK'
        BY <1>0, <1>20, ScheduledSendAssumption DEF FilingFails, WorldOK, Fault, Quiet
  <2> QED
        BY <2>1, <2>2, <2>3 DEF TypeOK
<1>21. ASSUME NEW p \in Actors, FailReads(p) PROVE TypeOK'
  <2>1. RowOK'
        BY <1>0, <1>21, ReadType DEF FailReads
  <2>2. LocalOK'
        BY <1>0, <1>21, GotoType DEF FailReads, Labels, Claimed
  <2>3. WorldOK'
        BY <1>0, <1>21, ScheduledSendAssumption DEF FailReads, WorldOK, Quiet
  <2> QED
        BY <2>1, <2>2, <2>3 DEF TypeOK
<1>22. ASSUME NEW p \in Actors, FailRecords(p) PROVE TypeOK'
  <2>1. RowOK'
        BY <1>22, FailedAttemptType, WriteType DEF FailRecords
  <2>2. LocalOK'
        BY <1>0, <1>22, FinishType DEF FailRecords
  <2>3. WorldOK'
        BY <1>0, <1>22, ScheduledSendAssumption DEF FailRecords, WorldOK, Notify, Quiet
  <2> QED
        BY <2>1, <2>2, <2>3 DEF TypeOK
<1>23. ASSUME NEW p \in Actors, RecordFails(p) PROVE TypeOK'
  <2>1. RowOK'
        BY <1>0, <1>23 DEF RecordFails, RowOK
  <2>2. LocalOK'
        BY <1>0, <1>23, FinishType DEF RecordFails
  <2>3. WorldOK'
        BY <1>0, <1>23, ScheduledSendAssumption DEF RecordFails, WorldOK, WriteFails, Fault, Quiet
  <2> QED
        BY <2>1, <2>2, <2>3 DEF TypeOK
<1>24. ASSUME NEW p \in Actors, ReleaseReads(p) PROVE TypeOK'
  <2>1. RowOK'
        BY <1>0, <1>24, ReadType DEF ReleaseReads
  <2>2. LocalOK'
        BY <1>0, <1>24, GotoType DEF ReleaseReads, Labels, Claimed
  <2>3. WorldOK'
        BY <1>0, <1>24, ScheduledSendAssumption DEF ReleaseReads, WorldOK, Quiet
  <2> QED
        BY <2>1, <2>2, <2>3 DEF TypeOK
<1>25. ASSUME NEW p \in Actors, Releases(p) PROVE TypeOK'
  <2>1. RowOK'
        BY <1>0, <1>25, ScheduledSendAssumption DEF Releases, Write, RowOK, WorldOK, Row, Folders, NoTime
  <2>2. LocalOK'
        BY <1>0, <1>25, FinishType DEF Releases
  <2>3. WorldOK'
        BY <1>0, <1>25, ScheduledSendAssumption DEF Releases, WorldOK, Quiet
  <2> QED
        BY <2>1, <2>2, <2>3 DEF TypeOK
<1>26. ASSUME NEW p \in Actors, RemarkReads(p) PROVE TypeOK'
  <2>0. tries[p] + 1 \in 0..3
        BY <1>0, <1>26 DEF RemarkReads, LocalOK, MARK_ATTEMPTS, FILING_ATTEMPTS, MarkAgain
  <2>1. RowOK'
        BY <1>0, <1>26, ReadType DEF RemarkReads
  <2>2. LocalOK'
        BY <1>0, <2>0, <1>26, GotoType DEF RemarkReads, Labels, Claimed
  <2>3. WorldOK'
        BY <1>0, <1>26, ScheduledSendAssumption DEF RemarkReads, WorldOK, Quiet
  <2> QED
        BY <2>1, <2>2, <2>3 DEF TypeOK
<1>27. ASSUME NEW p \in Actors, Remarks(p) PROVE TypeOK'
  <2>1. RowOK'
        BY <1>27, RowType, WriteType DEF Remarks
  <2>2. LocalOK'
        BY <1>0, <1>27, FinishType DEF Remarks
  <2>3. WorldOK'
        BY <1>0, <1>27, ScheduledSendAssumption DEF Remarks, WorldOK, Quiet
  <2> QED
        BY <2>1, <2>2, <2>3 DEF TypeOK
<1>28. ASSUME NEW p \in Actors, RemarkFails(p) PROVE TypeOK'
  <2>0. tries[p] \in 0..3
        BY <1>0, <1>28 DEF RemarkFails, LocalOK, MARK_ATTEMPTS, FILING_ATTEMPTS, MarkAgain
  <2>1. RowOK'
        BY <1>0, <1>28 DEF RemarkFails, RowOK
  <2>2. LocalOK'
        BY <1>0, <2>0, <1>28, GotoType DEF RemarkFails, Labels, Claimed
  <2>3. WorldOK'
        BY <1>0, <1>28, ScheduledSendAssumption DEF RemarkFails, WorldOK, WriteFails, Fault, Quiet
  <2> QED
        BY <2>1, <2>2, <2>3 DEF TypeOK
<1>29. ASSUME NEW p \in Actors, RemarkReadFails(p) PROVE TypeOK'
  <2>0. tries[p] + 1 \in 0..3
        BY <1>0, <1>29 DEF RemarkReadFails, LocalOK, MARK_ATTEMPTS, FILING_ATTEMPTS, MarkAgain
  <2>1. RowOK'
        BY <1>0, <1>29 DEF RemarkReadFails, RowOK
  <2>2. LocalOK'
        BY <1>0, <2>0, <1>29, GotoType DEF RemarkReadFails, Labels, Claimed
  <2>3. WorldOK'
        BY <1>0, <1>29, ScheduledSendAssumption DEF RemarkReadFails, WorldOK, Fault, Quiet
  <2> QED
        BY <2>1, <2>2, <2>3 DEF TypeOK
<1>30. ASSUME NEW p \in Actors, RequestGivesUp(p) PROVE TypeOK'
  <2>1. RowOK'
        BY <1>0, <1>30 DEF RequestGivesUp, RowOK
  <2>2. LocalOK'
        BY <1>0, <1>30, FinishType DEF RequestGivesUp
  <2>3. WorldOK'
        BY <1>0, <1>30, ScheduledSendAssumption DEF RequestGivesUp, WorldOK, Quiet
  <2> QED
        BY <2>1, <2>2, <2>3 DEF TypeOK
<1>31. ASSUME NEW p \in Actors, Crash(p) PROVE TypeOK'
  <2>1. RowOK'
        BY <1>0, <1>31 DEF Crash, RowOK
  <2>2. LocalOK'
        BY <1>0, <1>31, FinishType DEF Crash
  <2>3. WorldOK'
        BY <1>0, <1>31, ScheduledSendAssumption DEF Crash, WorldOK
  <2> QED
        BY <2>1, <2>2, <2>3 DEF TypeOK
<1>32. ASSUME NEW d \in 0..MaxDefer, Queue(d) PROVE TypeOK'
  <2>1. RowOK'
    <3>1. now + d \in Nat
          BY <1>0, ScheduledSendAssumption DEF WorldOK
    <3> QED
          BY <1>0, <1>32, <3>1 DEF Queue, WriteBy, RowOK, Row, Folders, NoTime
  <2>2. LocalOK'
        BY <1>0, <1>32 DEF Queue, UserStep, history, LocalOK
  <2>3. WorldOK'
        BY <1>0, <1>32, ScheduledSendAssumption DEF Queue, UserStep, history, WorldOK
  <2> QED
        BY <2>1, <2>2, <2>3 DEF TypeOK
<1>33. ASSUME NEW f \in {"Drafts", "Other"}, Cancel(f) PROVE TypeOK'
  <2>1. RowOK'
        BY <1>0, <1>33, ScheduledSendAssumption DEF Cancel, WriteBy, RowOK, WorldOK, Row, Folders, NoTime
  <2>2. LocalOK'
        BY <1>0, <1>33 DEF Cancel, UserStep, history, LocalOK
  <2>3. WorldOK'
        BY <1>0, <1>33, ScheduledSendAssumption DEF Cancel, UserStep, history, WorldOK
  <2> QED
        BY <2>1, <2>2, <2>3 DEF TypeOK
<1>34. ASSUME NEW f \in {"Drafts", "Other"}, TrustedMove(f) PROVE TypeOK'
  <2>1. RowOK'
        BY <1>0, <1>34, ScheduledSendAssumption DEF TrustedMove, WriteBy, RowOK, WorldOK, Row, Folders, NoTime
  <2>2. LocalOK'
        BY <1>0, <1>34 DEF TrustedMove, UserStep, history, LocalOK
  <2>3. WorldOK'
        BY <1>0, <1>34, ScheduledSendAssumption DEF TrustedMove, UserStep, history, WorldOK
  <2> QED
        BY <2>1, <2>2, <2>3 DEF TypeOK
<1>35. CASE Discard
  <2>1. RowOK'
        BY <1>0, <1>35, ScheduledSendAssumption DEF Discard, WriteBy, RowOK, WorldOK, Row, Folders, NoTime
  <2>2. LocalOK'
        BY <1>0, <1>35 DEF Discard, UserStep, history, LocalOK
  <2>3. WorldOK'
        BY <1>0, <1>35, ScheduledSendAssumption DEF Discard, UserStep, history, WorldOK
  <2> QED
        BY <2>1, <2>2, <2>3 DEF TypeOK
<1>36. CASE Touch
  <2>1. RowOK'
        BY <1>0, <1>36, ScheduledSendAssumption DEF Touch, WriteBy, RowOK, WorldOK, Row, Folders, NoTime
  <2>2. LocalOK'
        BY <1>0, <1>36 DEF Touch, UserStep, history, LocalOK
  <2>3. WorldOK'
        BY <1>0, <1>36, ScheduledSendAssumption DEF Touch, UserStep, history, WorldOK
  <2> QED
        BY <2>1, <2>2, <2>3 DEF TypeOK
<1>37. CASE DeleteChecks
  <2>1. RowOK'
        BY <1>0, <1>37, ScheduledSendAssumption DEF DeleteChecks, WriteBy, RowOK, WorldOK, Row, Folders, NoTime
  <2>2. LocalOK'
        BY <1>0, <1>37 DEF DeleteChecks, UserStep, history, LocalOK
  <2>3. WorldOK'
        BY <1>0, <1>37, ScheduledSendAssumption DEF DeleteChecks, UserStep, history, WorldOK
  <2> QED
        BY <2>1, <2>2, <2>3 DEF TypeOK
<1>38. CASE DeleteApplies
  <2>1. RowOK'
        BY <1>0, <1>38, ScheduledSendAssumption DEF DeleteApplies, WriteBy, RowOK, WorldOK, Row, Folders, NoTime
  <2>2. LocalOK'
        BY <1>0, <1>38 DEF DeleteApplies, bounds, history, LocalOK
  <2>3. WorldOK'
        BY <1>0, <1>38, ScheduledSendAssumption DEF DeleteApplies, bounds, history, WorldOK
  <2> QED
        BY <2>1, <2>2, <2>3 DEF TypeOK
<1>39. CASE Restore
  <2>1. RowOK'
        BY <1>0, <1>39, ScheduledSendAssumption DEF Restore, WriteBy, RowOK, WorldOK, Row, Folders, NoTime
  <2>2. LocalOK'
        BY <1>0, <1>39 DEF Restore, UserStep, history, LocalOK
  <2>3. WorldOK'
        BY <1>0, <1>39, ScheduledSendAssumption DEF Restore, UserStep, history, WorldOK
  <2> QED
        BY <2>1, <2>2, <2>3 DEF TypeOK
<1>40. CASE Tick
  <2>1. RowOK' /\ LocalOK'
        BY <1>0, <1>40 DEF Tick, local, RowOK, LocalOK
  <2>2. now' \in Nat \ {0}
        BY <1>0, <1>40 DEF Tick, WorldOK
  <2>4. overran' \in BOOLEAN
        BY <1>0, <1>40 DEF Tick, WorldOK
  <2>3. stalls' \in 0..MaxStalls
        BY <1>0, <1>40, ScheduledSendAssumption DEF Tick, WorldOK
  <2> QED
        BY <1>0, <1>40, <2>1, <2>2, <2>3, <2>4 DEF Tick, TypeOK, WorldOK
<1> QED
      BY <1>1, <1>2, <1>3, <1>4, <1>5, <1>6, <1>7, <1>8, <1>9, <1>10, <1>11, <1>12,
         <1>13, <1>14, <1>15, <1>16, <1>17, <1>18, <1>19, <1>20, <1>21, <1>22, <1>23,
         <1>24, <1>25, <1>26, <1>27, <1>28, <1>29, <1>30, <1>31, <1>32, <1>33, <1>34,
         <1>35, <1>36, <1>37, <1>38, <1>39, <1>40 DEF Next, Work, User

\* Every variable keeps its type in every behaviour.
THEOREM TypeCorrect == Spec => []TypeOK
<1>1. Init => TypeOK
  <2> SUFFICES ASSUME Init PROVE TypeOK
      OBVIOUS
  <2>1. RowOK
        BY DEF Init, RowOK, Row, Folders, NoTime
  <2>2. pc \in [Actors -> Labels]
        BY DEF Init, Labels
  <2>3. lease \in [Actors -> Nat] /\ tries \in [Actors -> 0..3]
        BY DEF Init, NoTime
  <2>4. relayed \subseteq Actors /\ permanent \subseteq Actors /\ lost \in BOOLEAN
        BY DEF Init
  <2>5. now \in Nat \ {0} /\ relays \in Nat
        BY DEF Init
  <2>6. deleting \in BOOLEAN /\ overran \in BOOLEAN /\ falseNotice \in BOOLEAN
        BY DEF Init
  <2>7. /\ ops \in 0..MaxOps /\ faults \in 0..MaxFaults
        /\ crashes \in 0..MaxCrashes /\ stalls \in 0..MaxStalls
        BY ScheduledSendAssumption DEF Init
  <2> QED
        BY <2>1, <2>2, <2>3, <2>4, <2>5, <2>6, <2>7 DEF TypeOK, LocalOK, WorldOK, Labels
<1> QED
      BY <1>1, TypeStep, PTL DEF Spec

-----------------------------------------------------------------------------
(****************************************************************************)
(* The exclusive claim: a message is relayed at most once unless a process  *)
(* dies between the acceptance and its marker, or a relay outlives its      *)
(* lease.  ClaimInv is inductive; the lemmas below group the actions by     *)
(* what they do to the claim rather than by where they are in the code.     *)
(****************************************************************************)

\* What the arithmetic on times needs of the types.
LEMMA Times ==
    ASSUME TypeOK
    PROVE  /\ now \in Nat /\ relays \in Nat
           /\ row.sst \in Nat /\ row.lease \in Nat
           /\ \A p \in Actors : lease[p] \in Nat
           /\ pc \in [Actors -> Labels] /\ lease \in [Actors -> Nat]
           /\ relayed \subseteq Actors /\ fresh \subseteq Actors
      BY DEF TypeOK, RowOK, LocalOK, WorldOK, Row, Labels

\* Nobody else's claim is running while p holds one.
LEMMA Sole ==
    ASSUME TypeOK, ClaimInv, Open, NEW p \in Actors, Holding(p) \/ (AtRisk(p) /\ pc[p] \in Claimed)
    PROVE  \A q \in Actors \ {p} : ~Holding(q)
      BY Times DEF ClaimInv, SoleInv, RiskInv, Holding

\* A claim under way goes on: the row stays as it is and so does the claim.
LEMMA MoveOn ==
    ASSUME TypeOK, ClaimInv, NEW p \in Actors, NEW label \in Claimed \ {"claimed"},
           pc[p] \in Claimed,
           pc' = [pc EXCEPT ![p] = label],
           UNCHANGED <<row, now, lease, relayed, relays, lost, overran>>,
           label = "mark" => pc[p] = "mark",
           label \in {"mark", "file", "filing", "remark", "remarking"} => p \in relayed,
           label \in {"release", "releasing"} => pc[p] \in {"claimed", "release", "releasing"},
           fresh' \subseteq fresh \cup {p},
           p \in fresh' /\ label \in {"filing", "recording"} =>
               row.folder = "Outbox" /\ row.lease = lease[p],
           p \in fresh' /\ label = "releasing" => row.folder = "Outbox"
    PROVE  ClaimInv'
<1>0. pc \in [Actors -> Labels] /\ relayed \subseteq Actors
      BY Times
<1>1. \A q \in Actors : Holding(q)' => Holding(q)
      BY <1>0 DEF Holding
<1>2. \A q \in Actors : AtRisk(q)' => AtRisk(q)
      BY <1>0 DEF AtRisk, Recorded
<1>3. Open' = Open
      BY DEF Open, Recorded
<1>4. HolderInv' /\ SoleInv' /\ RiskInv'
      BY <1>1, <1>2, <1>3 DEF ClaimInv, HolderInv, SoleInv, RiskInv
<1>5. ReadInv'
      BY <1>0, Times DEF ClaimInv, ReadInv, Due, Live, Claimed
<1>6. PlaceInv'
      BY <1>0 DEF ClaimInv, PlaceInv, Claimed
<1>7. ClosedInv'
      BY <1>0 DEF ClaimInv, ClosedInv, Recorded
<1>8. MemoryInv' /\ OnceInv'
      BY DEF ClaimInv, MemoryInv, OnceInv, Recorded
<1>9. LeaseInv' /\ FirstInv'
      BY <1>0, Times DEF ClaimInv, LeaseInv, FirstInv, Recorded, Claimed
<1> QED
      BY <1>4, <1>5, <1>6, <1>7, <1>8, <1>9 DEF ClaimInv

\* An actor lets go of the message without writing its row.
LEMMA LetGo ==
    ASSUME TypeOK, ClaimInv, NEW p \in Actors, Finish(p, row), fresh' \subseteq fresh,
           UNCHANGED <<row, now, relays, overran>>
    PROVE  ClaimInv'
<1>0. pc \in [Actors -> Labels] /\ relayed \subseteq Actors /\ lease \in [Actors -> Nat]
      BY Times
<1>a. /\ pc' = [pc EXCEPT ![p] = "idle"] /\ lease' = [lease EXCEPT ![p] = NoTime]
      /\ relayed' = relayed \ {p}
      BY DEF Finish
<1>1. \A q \in Actors : Holding(q)' => Holding(q) /\ lease'[q] = lease[q]
      BY <1>0, <1>a DEF Holding, Claimed
<1>2. \A q \in Actors : AtRisk(q)' => AtRisk(q) /\ lease'[q] = lease[q]
      BY <1>0, <1>a DEF AtRisk, Recorded
<1>3. Open' = Open
      BY DEF Open, Recorded
<1>4. HolderInv' /\ SoleInv' /\ RiskInv'
      BY <1>1, <1>2, <1>3 DEF ClaimInv, HolderInv, SoleInv, RiskInv
<1>5. ReadInv'
      BY <1>0, <1>a, Times DEF ClaimInv, ReadInv, Due, Live
<1>6. PlaceInv'
      BY <1>0, <1>a DEF ClaimInv, PlaceInv
<1>7. ClosedInv'
      BY <1>0, <1>a DEF ClaimInv, ClosedInv, Recorded
<1>8. ~lost' => ~lost /\ (p \in relayed => Recorded(row))
      BY DEF Finish
<1>9. MemoryInv' /\ OnceInv'
      BY <1>8, <1>a DEF ClaimInv, MemoryInv, OnceInv, Recorded
<1>10. LeaseInv' /\ FirstInv'
      BY <1>0, <1>a, Times DEF ClaimInv, LeaseInv, FirstInv, Recorded, Claimed
<1> QED
      BY <1>4, <1>5, <1>6, <1>7, <1>9, <1>10 DEF ClaimInv

\* An actor's last write of the row, with nobody else's claim running until a relay is
\* recorded; a recorded relay stays recorded.
LEMMA LastWrite ==
    ASSUME TypeOK, ClaimInv, NEW p \in Actors, Finish(p, row'), fresh' = {p},
           UNCHANGED <<now, relays, overran>>,
           Open => \A q \in Actors \ {p} : ~Holding(q),
           Recorded(row) => Recorded(row'),
           row'.sentByServer => row'.folder \in {"Sent", "Other"},
           row'.folder = "Outbox" => row'.lease = NoTime
    PROVE  ClaimInv'
<1>0. pc \in [Actors -> Labels] /\ relayed \subseteq Actors /\ lease \in [Actors -> Nat]
      BY Times
<1>a. /\ pc' = [pc EXCEPT ![p] = "idle"] /\ lease' = [lease EXCEPT ![p] = NoTime]
      /\ relayed' = relayed \ {p}
      BY DEF Finish
<1>1. Open' => Open
      BY DEF Open, Recorded
<1>2. Open => \A q \in Actors : ~Holding(q)'
      BY <1>0, <1>a DEF Holding, Claimed
<1>3. \A q \in Actors : AtRisk(q)' /\ Open' => AtRisk(q) /\ lease'[q] = lease[q] /\ q # p
      BY <1>0, <1>a, <1>1 DEF AtRisk, Open
<1>4. HolderInv' /\ SoleInv' /\ RiskInv'
      BY <1>1, <1>2, <1>3 DEF ClaimInv, HolderInv, SoleInv, RiskInv
<1>5. ReadInv'
      BY <1>0, <1>a DEF ReadInv
<1>6. PlaceInv'
      BY <1>0, <1>a DEF ClaimInv, PlaceInv
<1>7. ClosedInv'
  <2>1. ASSUME Open, NEW q \in Actors, q # p, pc[q] \in {"claimed", "mark"} PROVE FALSE
        BY <2>1, Times DEF ClaimInv, RiskInv, PlaceInv, AtRisk, Holding, Open, Claimed
  <2>2. CASE Recorded(row)
        BY <2>2, <1>0, <1>a DEF ClaimInv, ClosedInv
  <2>3. CASE overran
        BY <2>3 DEF ClosedInv
  <2>4. CASE Open
        BY <2>1, <2>4, <1>0, <1>a DEF ClosedInv
  <2> QED
        BY <2>2, <2>3, <2>4 DEF Open
<1>8. ~lost' => ~lost /\ (p \in relayed => Recorded(row'))
      BY DEF Finish
<1>9. MemoryInv' /\ OnceInv'
      BY <1>8, <1>a DEF ClaimInv, MemoryInv, OnceInv, Recorded
<1>10. LeaseInv'
      BY <1>0, <1>a DEF ClaimInv, LeaseInv, Claimed
<1>11. FirstInv'
  <2>1. SUFFICES ASSUME ~overran, NEW q \in Actors \ relayed', pc'[q] \in Claimed,
                        now < lease'[q] \/ (row'.folder = "Outbox" /\ row'.lease = lease'[q]), Recorded(row')
                 PROVE  FALSE
        BY DEF FirstInv, Recorded
  <2>2. q # p /\ pc[q] \in Claimed /\ lease[q] # NoTime /\ lease'[q] = lease[q] /\ q \notin relayed
        BY <1>0, <1>a, <2>1 DEF ClaimInv, LeaseInv, Claimed
  <2>3. Holding(q)
        BY <2>1, <2>2 DEF Holding
  <2>4. Recorded(row)
        BY <2>1, <2>2, <2>3 DEF Open
  <2> QED
        BY <2>1, <2>2, <2>3, <2>4 DEF ClaimInv, FirstInv, Holding
<1> QED
      BY <1>4, <1>5, <1>6, <1>7, <1>9, <1>10, <1>11 DEF ClaimInv

\* Somebody without a claim writes the row: it is not in the Outbox, it is under no
\* running lease, or neither its place nor its times change.
LEMMA Outsider ==
    ASSUME TypeOK, ClaimInv, fresh' = {},
           UNCHANGED <<now, pc, lease, relayed, relays, lost, overran>>,
           \/ row.folder # "Outbox"
           \/ ~InFlight(row)
           \/ row'.folder = row.folder /\ row'.sst = row.sst /\ row'.lease = row.lease,
           row'.relayedAt = row.relayedAt, row'.sentByServer = row.sentByServer,
           row'.sentByServer => row'.folder \in {"Sent", "Other"},
           row'.folder = "Outbox" => row'.lease = NoTime \/ (row.folder = "Outbox" /\ row'.lease = row.lease)
    PROVE  ClaimInv'
<1>1. Open' = Open /\ Recorded(row)' = Recorded(row)
      BY DEF Open, Recorded
<1>2. \A q \in Actors : Holding(q)' = Holding(q) /\ AtRisk(q)' = AtRisk(q)
      BY <1>1 DEF Holding, AtRisk
<1>3. HolderInv'
      BY <1>1, <1>2, Times DEF ClaimInv, HolderInv, InFlight, Holding
<1>4. SoleInv' /\ RiskInv' /\ ClosedInv' /\ MemoryInv' /\ OnceInv'
      BY <1>1, <1>2 DEF ClaimInv, SoleInv, RiskInv, ClosedInv, MemoryInv, OnceInv
<1>5. ReadInv' /\ PlaceInv'
      BY DEF ClaimInv, ReadInv, PlaceInv
<1>6. LeaseInv' /\ FirstInv'
      BY <1>1, Times DEF ClaimInv, LeaseInv, FirstInv
<1> QED
      BY <1>3, <1>4, <1>5, <1>6 DEF ClaimInv

\* Nothing the invariant speaks of changes.
LEMMA Unaffected ==
    ASSUME ClaimInv, UNCHANGED <<row, fresh, now, pc, lease, relayed, relays, lost, overran>>
    PROVE  ClaimInv'
<1>1. HolderInv' /\ SoleInv' /\ RiskInv'
      BY DEF ClaimInv, HolderInv, SoleInv, RiskInv, Open, Holding, AtRisk, Recorded
<1>2. ReadInv' /\ PlaceInv'
      BY DEF ClaimInv, ReadInv, PlaceInv, Due, Live
<1>3. ClosedInv' /\ MemoryInv' /\ OnceInv'
      BY DEF ClaimInv, ClosedInv, MemoryInv, OnceInv, Recorded
<1>4. LeaseInv' /\ FirstInv'
      BY DEF ClaimInv, LeaseInv, FirstInv, Recorded
<1> QED
      BY <1>1, <1>2, <1>3, <1>4 DEF ClaimInv

\* An idle actor reads the row: a job one that is due, a request a draft.
LEMMA StartRead ==
    ASSUME TypeOK, ClaimInv, NEW p \in Actors, pc[p] = "idle",
           pc' = [pc EXCEPT ![p] = "read"], fresh' = fresh \cup {p},
           UNCHANGED <<row, now, lease, relayed, relays, lost, overran>>,
           p \in Jobs => Due(row),
           p \in Requests => row.folder = "Drafts" /\ ~row.relayedAt
    PROVE  ClaimInv'
<1>0. pc \in [Actors -> Labels] /\ relayed \subseteq Actors
      BY Times
<1>1. \A q \in Actors : Holding(q)' => Holding(q)
      BY <1>0 DEF Holding, Claimed
<1>2. \A q \in Actors : AtRisk(q)' => AtRisk(q)
      BY <1>0 DEF AtRisk, Recorded
<1>3. Open' = Open
      BY DEF Open, Recorded
<1>4. HolderInv' /\ SoleInv' /\ RiskInv'
      BY <1>1, <1>2, <1>3 DEF ClaimInv, HolderInv, SoleInv, RiskInv
<1>5. ReadInv'
      BY <1>0, Times DEF ClaimInv, ReadInv, Due, Live
<1>6. PlaceInv'
      BY <1>0 DEF ClaimInv, PlaceInv, Claimed
<1>7. ClosedInv'
      BY <1>0 DEF ClaimInv, ClosedInv, Recorded
<1>8. MemoryInv' /\ OnceInv'
      BY DEF ClaimInv, MemoryInv, OnceInv, Recorded
<1>9. LeaseInv' /\ FirstInv'
      BY <1>0, Times DEF ClaimInv, LeaseInv, FirstInv, Recorded, Claimed
<1> QED
      BY <1>4, <1>5, <1>6, <1>7, <1>8, <1>9 DEF ClaimInv

\* An actor that read a row nobody claims takes the claim: the row is in the Outbox under
\* its lease, due to nobody before the lease lapses.
LEMMA TakeClaim ==
    ASSUME TypeOK, ClaimInv, NEW p \in Actors, pc[p] = "read", NEW t \in Nat, t > now,
           pc' = [pc EXCEPT ![p] = IF row.relayedAt THEN "file" ELSE "claimed"],
           lease' = [lease EXCEPT ![p] = t],
           relayed' = IF row.relayedAt THEN relayed \cup {p} ELSE relayed,
           fresh' = {p},
           UNCHANGED <<now, relays, lost, overran>>,
           row'.folder = "Outbox", row'.lease = t, row'.sst >= t \/ (p \in Requests /\ row'.sst = NoTime),
           row'.relayedAt = row.relayedAt, row'.sentByServer = row.sentByServer,
           ~row.sentByServer,
           Open => \A q \in Actors : ~Holding(q)
    PROVE  ClaimInv'
<1>0. pc \in [Actors -> Labels] /\ relayed \subseteq Actors /\ lease \in [Actors -> Nat]
      BY Times
<1>1. Open' = Open /\ Recorded(row)' = Recorded(row)
      BY DEF Open, Recorded
<1>2. \A q \in Actors \ {p} : Holding(q)' = Holding(q) /\ AtRisk(q)' = AtRisk(q) /\ lease'[q] = lease[q]
      BY <1>0, <1>1 DEF Holding, AtRisk
<1>3. HolderInv' /\ SoleInv'
      BY <1>0, <1>1, <1>2 DEF HolderInv, SoleInv
<1>4. RiskInv'
      BY <1>0, <1>1, <1>2 DEF ClaimInv, RiskInv
<1>5. ReadInv'
      BY <1>0 DEF ReadInv
<1>6. PlaceInv'
      BY <1>0 DEF ClaimInv, PlaceInv, Claimed
<1>7. ClosedInv'
      BY <1>0, <1>1 DEF ClaimInv, ClosedInv, Recorded
<1>8. MemoryInv' /\ OnceInv'
      BY <1>1 DEF ClaimInv, MemoryInv, OnceInv
<1>9. LeaseInv'
      BY <1>0, Times DEF ClaimInv, LeaseInv, NoTime
<1>10. FirstInv'
  <2>1. SUFFICES ASSUME ~overran, NEW q \in Actors \ relayed', pc'[q] \in Claimed,
                        now < lease'[q] \/ row'.lease = lease'[q], Recorded(row)
                 PROVE  FALSE
        BY <1>1 DEF FirstInv
  <2>2. row.relayedAt /\ relayed' = relayed \cup {p}
        BY <2>1 DEF Recorded
  <2>3. q # p /\ pc[q] \in Claimed /\ lease'[q] = lease[q] /\ q \notin relayed
        BY <1>0, <2>1, <2>2
  <2>4. now < lease[q]
        BY <2>1, <2>3, Times
  <2> QED
        BY <2>1, <2>3, <2>4 DEF ClaimInv, FirstInv
<1> QED
      BY <1>3, <1>4, <1>5, <1>6, <1>7, <1>8, <1>9, <1>10 DEF ClaimInv

\* The transport accepts: the claim that was running is the only one, so it is the first.
LEMMA Accepts ==
    ASSUME TypeOK, ClaimInv, NEW p \in Actors, RelayAccepts(p)
    PROVE  ClaimInv'
<1>0. pc \in [Actors -> Labels] /\ relayed \subseteq Actors /\ relays \in Nat
      BY Times
<1>a. /\ pc[p] = "claimed" /\ pc' = [pc EXCEPT ![p] = "mark"] /\ relayed' = relayed \cup {p}
      /\ relays' = relays + 1 /\ UNCHANGED <<row, now, fresh, lease, lost, overran>>
      BY DEF RelayAccepts
<1>1. Open' = Open /\ (~overran => Open)
      BY <1>a DEF ClaimInv, ClosedInv, Open, Recorded
<1>2. \A q \in Actors : Holding(q)' = Holding(q)
      BY <1>0, <1>a DEF Holding, Claimed
<1>3. \A q \in Actors : AtRisk(q)' => AtRisk(q)
      BY <1>0, <1>a DEF AtRisk, Recorded
<1>4. HolderInv' /\ SoleInv' /\ RiskInv'
      BY <1>a, <1>1, <1>2, <1>3 DEF ClaimInv, HolderInv, SoleInv, RiskInv
<1>5. ReadInv'
      BY <1>0, <1>a DEF ClaimInv, ReadInv, Due, Live
<1>6. PlaceInv'
      BY <1>0, <1>a DEF ClaimInv, PlaceInv, Claimed
<1>7. ClosedInv'
      BY <1>a, <1>1 DEF ClosedInv, Open, Recorded
<1>8. MemoryInv'
      BY <1>a DEF MemoryInv
<1>9. OnceInv'
  <2>1. SUFFICES ASSUME ~overran, ~lost PROVE relays = 0
        BY <1>0, <1>a, <2>1 DEF OnceInv
  <2>2. Open
        BY <1>1, <2>1
  <2>3. ASSUME NEW q \in relayed PROVE FALSE
    <3>1. q # p /\ q \in Actors /\ pc[q] \in Claimed
          BY <1>0, <1>a, <2>3 DEF ClaimInv, PlaceInv
    <3>2. AtRisk(q) /\ AtRisk(p) /\ pc[p] \in Claimed
          BY <1>a, <2>2, <2>3 DEF AtRisk, Open, Claimed
    <3>3. Holding(q)
          BY <3>1, <3>2, <2>2 DEF ClaimInv, RiskInv, Holding
    <3> QED
          BY <3>1, <3>2, <3>3, <2>2, Sole
  <2> QED
        BY <1>0, <2>1, <2>2, <2>3 DEF ClaimInv, MemoryInv, Open
<1>10. LeaseInv' /\ FirstInv'
      BY <1>0, <1>a, Times DEF ClaimInv, LeaseInv, FirstInv, Recorded, Claimed
<1> QED
      BY <1>4, <1>5, <1>6, <1>7, <1>8, <1>9, <1>10 DEF ClaimInv

\* The marker is written: no other claim was running, and none starts a relay any more.
LEMMA Marks ==
    ASSUME TypeOK, ClaimInv, NEW p \in Actors, MarkWrites(p)
    PROVE  ClaimInv'
<1>0. pc \in [Actors -> Labels] /\ relayed \subseteq Actors /\ row \in Row
      BY Times DEF TypeOK, RowOK
<1>a. /\ pc[p] = "mark" /\ pc' = [pc EXCEPT ![p] = "file"] /\ fresh' = {p}
      /\ UNCHANGED <<now, lease, relayed, relays, lost, overran>>
      BY DEF MarkWrites, Write, Goto, Quiet
<1>b. /\ row'.relayedAt /\ row'.sentByServer = row.sentByServer /\ row'.folder = row.folder
      /\ row'.lease = row.lease
      BY <1>0 DEF MarkWrites, Write, Marked, Row
<1>1. ~Open' /\ Recorded(row')
      BY <1>b DEF Open, Recorded
<1>2. p \in relayed
      BY <1>a DEF ClaimInv, PlaceInv
<1>3. HolderInv' /\ SoleInv' /\ RiskInv'
      BY <1>1 DEF HolderInv, SoleInv, RiskInv
<1>4. ReadInv'
      BY <1>0, <1>a DEF ReadInv
<1>5. PlaceInv'
      BY <1>0, <1>a, <1>b, <1>2 DEF ClaimInv, PlaceInv, Claimed
<1>6. ClosedInv'
  <2>1. SUFFICES ASSUME ~overran, NEW q \in Actors, q # p, pc[q] \in {"claimed", "mark"}
                 PROVE  FALSE
        BY <1>0, <1>a DEF ClosedInv
  <2>2. Open
        BY <1>a, <2>1 DEF ClaimInv, ClosedInv, Open
  <2>3. AtRisk(p) /\ pc[p] \in Claimed /\ AtRisk(q) /\ pc[q] \in Claimed
        BY <1>a, <1>2, <2>1, <2>2 DEF ClaimInv, PlaceInv, AtRisk, Open, Claimed
  <2>4. Holding(q)
        BY <2>2, <2>3 DEF ClaimInv, RiskInv, Holding
  <2> QED
        BY <2>1, <2>2, <2>3, <2>4, Sole
<1>7. MemoryInv' /\ OnceInv'
      BY <1>a, <1>1 DEF ClaimInv, MemoryInv, OnceInv
<1>8. LeaseInv'
      BY <1>0, <1>a DEF ClaimInv, LeaseInv, Claimed
<1>9. FirstInv'
  <2>1. SUFFICES ASSUME ~overran, NEW q \in Actors \ relayed, q # p, pc[q] \in Claimed,
                        now < lease[q] \/ row.lease = lease[q]
                 PROVE  FALSE
        BY <1>0, <1>a, <1>b, <1>2, Times DEF FirstInv
  <2>2. Open /\ AtRisk(p) /\ pc[p] \in Claimed
        BY <1>a, <1>2, <2>1 DEF ClaimInv, ClosedInv, Open, AtRisk, Claimed
  <2>3. Holding(p) /\ row.lease = lease[p] /\ now < lease[p]
        BY <2>2 DEF ClaimInv, RiskInv, HolderInv, Holding
  <2>4. Holding(q)
        BY <2>1, <2>3 DEF Holding
  <2> QED
        BY <2>1, <2>2, <2>4, Sole
<1> QED
      BY <1>3, <1>4, <1>5, <1>6, <1>7, <1>8, <1>9 DEF ClaimInv

\* Time passes: claims lapse, and one that lapses under a relay is an overrun.
LEMMA Ticks ==
    ASSUME TypeOK, ClaimInv, Tick
    PROVE  ClaimInv'
<1>a. /\ now' = now + 1 /\ UNCHANGED <<row, fresh, pc, lease, relayed, relays, lost>>
      /\ ~overran' => ~overran /\ \A q \in Actors : AtRisk(q) => ~(lease[q] <= now + 1)
      BY DEF Tick, local
<1>1. (Open' => Open) /\ Recorded(row)' = Recorded(row)
      BY <1>a DEF Open, Recorded
<1>2. \A q \in Actors : (Holding(q)' => Holding(q)) /\ AtRisk(q)' = AtRisk(q)
      BY <1>a, <1>1, Times DEF Holding, AtRisk
<1>3. HolderInv' /\ SoleInv'
      BY <1>a, <1>1, <1>2 DEF ClaimInv, HolderInv, SoleInv
<1>4. RiskInv'
      BY <1>a, <1>1, <1>2, Times DEF RiskInv, Open
<1>5. ReadInv'
      BY <1>a, Times DEF ClaimInv, ReadInv, Due, Live
<1>6. PlaceInv' /\ ClosedInv' /\ MemoryInv' /\ OnceInv'
      BY <1>a, <1>1 DEF ClaimInv, PlaceInv, ClosedInv, MemoryInv, OnceInv
<1>7. LeaseInv' /\ FirstInv'
      BY <1>a, <1>1, Times DEF ClaimInv, LeaseInv, FirstInv
<1> QED
      BY <1>3, <1>4, <1>5, <1>6, <1>7 DEF ClaimInv

\* A write of a user or a trusted caller leaves every running claim alone.
LEMMA UserSafe == ASSUME TypeOK, ClaimInv, User PROVE ClaimInv'
<1>0. row \in Row
      BY DEF TypeOK, RowOK
<1>s. row.sentByServer => row.folder \in {"Sent", "Other"}
      BY DEF ClaimInv, PlaceInv
<1>1. ASSUME NEW d \in 0..MaxDefer, Queue(d) PROVE ClaimInv'
      BY <1>0, <1>1, <1>s, Outsider DEF Queue, FailedInOutbox, WriteBy, UserStep, history, Row
<1>2. ASSUME NEW f \in {"Drafts", "Other"}, Cancel(f) PROVE ClaimInv'
      BY <1>0, <1>2, <1>s, Outsider DEF Cancel, WriteBy, UserStep, history, Row
<1>3. ASSUME NEW f \in {"Drafts", "Other"}, TrustedMove(f) PROVE ClaimInv'
      BY <1>0, <1>3, <1>s, Outsider DEF TrustedMove, WriteBy, UserStep, history, Row
<1>4. CASE Discard
      BY <1>0, <1>4, <1>s, Outsider DEF Discard, WriteBy, UserStep, history, Row
<1>5. CASE Touch
      BY <1>0, <1>5, <1>s, Outsider DEF Touch, WriteBy, UserStep, history
<1>6. CASE DeleteChecks
      BY <1>6, Unaffected DEF DeleteChecks, UserStep, history
<1>7. CASE DeleteApplies
  <2>1. CASE Live(row)
    <3>1. PICK s \in {"deleted", "purged"} : WriteBy([row EXCEPT !.state = s])
          BY <1>7, <2>1 DEF DeleteApplies
    <3> QED
          BY <1>0, <1>7, <3>1, <1>s, Outsider DEF DeleteApplies, WriteBy, history, Row
  <2>2. CASE ~Live(row)
        BY <1>7, <2>2, Unaffected DEF DeleteApplies, history
  <2> QED
        BY <2>1, <2>2
<1>8. CASE Restore
      BY <1>0, <1>8, <1>s, Outsider DEF Restore, WriteBy, UserStep, history, Row
<1> QED
      BY <1>1, <1>2, <1>3, <1>4, <1>5, <1>6, <1>7, <1>8 DEF User

\* A step of the sending code keeps the claim exclusive.
LEMMA WorkSafe ==
    ASSUME TypeOK, ClaimInv, NEW p \in Actors, Work(p) \/ RequestReads(p) \/ Crash(p)
    PROVE  ClaimInv'
<1>0. row \in Row /\ Jobs \cap Requests = {}
      BY ScheduledSendAssumption DEF TypeOK, RowOK
<1>p. pc[p] \in {"mark", "file", "filing", "remark", "remarking"} => p \in relayed
      BY DEF ClaimInv, PlaceInv
<1>s. row.sentByServer => row.folder \in {"Sent", "Other"}
      BY DEF ClaimInv, PlaceInv
<1>r. p \in fresh =>
        /\ pc[p] = "read" /\ p \in Jobs => Due(row)
        /\ pc[p] = "read" /\ p \in Requests => row.folder = "Drafts" /\ ~row.relayedAt
        /\ pc[p] \in {"filing", "recording"} => row.folder = "Outbox" /\ row.lease = lease[p]
        /\ pc[p] = "releasing" => row.folder = "Outbox"
      BY DEF ClaimInv, ReadInv
<1>d. Open /\ (Due(row) \/ row.folder # "Outbox") => \A q \in Actors : ~Holding(q)
      BY Times DEF ClaimInv, HolderInv, Holding, Due
<1>c. Open /\ pc[p] \in Claimed /\ (AtRisk(p) \/ row.lease = lease[p]) =>
          \A q \in Actors \ {p} : ~Holding(q)
  <2>1. SUFFICES ASSUME Open, pc[p] \in Claimed, AtRisk(p) \/ row.lease = lease[p],
                        NEW q \in Actors \ {p}, Holding(q)
                 PROVE  Holding(p)
        BY <2>1, Sole
  <2>2. row.lease = lease[q] /\ now < lease[q]
        BY <2>1 DEF ClaimInv, HolderInv, Holding
  <2> QED
        BY <2>1, <2>2 DEF ClaimInv, RiskInv, Holding
<1>1. CASE JobReads(p)
      BY <1>0, <1>1, StartRead DEF JobReads, Read, Goto, Quiet
<1>2. CASE RequestReads(p)
      BY <1>0, <1>2, StartRead DEF RequestReads, Read, Goto
<1>3. CASE JobRefuses(p)
  <2>1. Recorded(row) => Recorded(row')
        BY <1>0, <1>3 DEF JobRefuses, Write, Refused, Recorded, Row
  <2>2. /\ row'.sentByServer => row'.folder \in {"Sent", "Other"}
        /\ row'.folder = "Outbox" => row'.lease = NoTime
        BY <1>0, <1>3, <1>s DEF JobRefuses, Write, Refused, Row
  <2>3. Open => \A q \in Actors \ {p} : ~Holding(q)
        BY <1>3, <1>r, <1>d DEF JobRefuses
  <2> QED
        BY <1>3, <2>1, <2>2, <2>3, LastWrite DEF JobRefuses, Write, Quiet
<1>4. CASE JobClaims(p)
  <2>1. now + JobLease \in Nat /\ now + JobLease > now
        BY Times, ScheduledSendAssumption
  <2>2. Open => \A q \in Actors : ~Holding(q)
        BY <1>4, <1>r, <1>d DEF JobClaims
  <2>3. /\ row'.folder = "Outbox" /\ row'.lease = now + JobLease /\ row'.sst >= now + JobLease
        /\ row'.relayedAt = row.relayedAt /\ row'.sentByServer = row.sentByServer
        /\ ~row.sentByServer
        BY <1>0, <1>4, <1>s, <2>1 DEF JobClaims, Write, Row
  <2> QED
        BY <1>4, <2>1, <2>2, <2>3, TakeClaim DEF JobClaims, Write, Quiet
<1>5. CASE RequestClaims(p)
  <2>1. now + SendLease \in Nat /\ now + SendLease > now
        BY Times, ScheduledSendAssumption
  <2>2. row.folder = "Drafts" /\ ~row.relayedAt
        BY <1>5, <1>r DEF RequestClaims
  <2>3. Open => \A q \in Actors : ~Holding(q)
        BY <2>2, <1>d
  <2>4. /\ row'.folder = "Outbox" /\ row'.lease = now + SendLease /\ row'.sst = NoTime
        /\ row'.relayedAt = row.relayedAt /\ row'.sentByServer = row.sentByServer
        /\ ~row.sentByServer
        BY <1>0, <1>5, <1>s, <2>2 DEF RequestClaims, Write, Row
  <2> QED
        BY <1>5, <2>1, <2>2, <2>3, <2>4, TakeClaim DEF RequestClaims, Write, Quiet
<1>6. CASE ReadLoses(p)
      BY <1>6, LetGo DEF ReadLoses, Quiet
<1>7. CASE JobRefusesClaimed(p)
  <2>1. Recorded(row) => Recorded(row')
        BY <1>0, <1>7 DEF JobRefusesClaimed, Write, Refused, Recorded, Row
  <2>2. /\ row'.sentByServer => row'.folder \in {"Sent", "Other"}
        /\ row'.folder = "Outbox" => row'.lease = NoTime
        BY <1>0, <1>7, <1>s DEF JobRefusesClaimed, Write, Refused, Row
  <2>3. Open => \A q \in Actors \ {p} : ~Holding(q)
        BY <1>7, <1>c DEF JobRefusesClaimed, AtRisk, Claimed
  <2> QED
        BY <1>7, <2>1, <2>2, <2>3, LastWrite DEF JobRefusesClaimed, Write, Quiet
<1>8. CASE JobRefusalFails(p)
      BY <1>8, MoveOn DEF JobRefusalFails, Goto, Quiet, Claimed
<1>9. CASE RelayFails(p)
      BY <1>9, MoveOn DEF RelayFails, Quiet, Claimed
<1>10. CASE RelayAccepts(p)
      BY <1>10, Accepts
<1>11. CASE MarkWrites(p)
      BY <1>11, Marks
<1>12. CASE MarkRetries(p)
      BY <1>12, <1>p, MoveOn DEF MarkRetries, Read, Goto, Quiet, Claimed
<1>13. CASE MarkGivesUp(p)
      BY <1>13, <1>p, MoveOn DEF MarkGivesUp, Goto, Quiet, Claimed
<1>14. CASE MarkReadFails(p)
      BY <1>14, <1>p, MoveOn DEF MarkReadFails, Goto, Quiet, Claimed
<1>15. CASE FileReads(p)
      BY <1>15, <1>p, MoveOn DEF FileReads, StillClaimed, Read, Goto, Quiet, Claimed
<1>16. CASE FileRetries(p)
      BY <1>16, <1>p, MoveOn DEF FileRetries, StillClaimed, Read, Goto, Quiet, Claimed
<1>17. CASE Files(p)
  <2>1. row'.sentByServer /\ row'.folder = "Sent"
        BY <1>0, <1>17 DEF Files, Write, Filed, Row
  <2>2. Open => \A q \in Actors \ {p} : ~Holding(q)
        BY <1>17, <1>c, <1>r DEF Files, Claimed
  <2> QED
        BY <1>17, <2>1, <2>2, LastWrite DEF Files, Write, Quiet, Recorded
<1>18. CASE NotClaimed(p)
      BY <1>18, LetGo DEF NotClaimed, Quiet
<1>19. CASE FilingFails(p)
  <2>1. UnfiledLabel(p) \in {"failing", "remark"} /\ p \in relayed /\ pc[p] \in Claimed
        BY <1>19, <1>p DEF FilingFails, UnfiledLabel, Claimed
  <2>2. /\ pc' = [pc EXCEPT ![p] = UnfiledLabel(p)]
        /\ UNCHANGED <<row, now, lease, relayed, relays, lost, overran, fresh>>
        BY <1>19 DEF FilingFails, Goto, Quiet
  <2> QED
        BY <2>1, <2>2, MoveOn DEF Claimed
<1>20. CASE FailReads(p)
      BY <1>20, MoveOn DEF FailReads, StillClaimed, Read, Goto, Quiet, Claimed
<1>21. CASE FailRecords(p)
  <2>1. Recorded(row) => Recorded(row')
        BY <1>0, <1>21 DEF FailRecords, Write, FailedAttempt, Recorded, Row
  <2>2. /\ row'.sentByServer => row'.folder \in {"Sent", "Other"}
        /\ row'.folder = "Outbox" => row'.lease = NoTime
        BY <1>0, <1>21, <1>s DEF FailRecords, Write, FailedAttempt, Row
  <2>3. Open => \A q \in Actors \ {p} : ~Holding(q)
        BY <1>21, <1>c, <1>r DEF FailRecords, Claimed
  <2> QED
        BY <1>21, <2>1, <2>2, <2>3, LastWrite DEF FailRecords, Write, Quiet
<1>22. CASE RecordFails(p)
      BY <1>22, LetGo DEF RecordFails, Quiet
<1>23. CASE ReleaseReads(p)
      BY <1>23, MoveOn DEF ReleaseReads, Read, Goto, Quiet, Claimed
<1>24. CASE Releases(p)
  <2>1. row'.relayedAt = row.relayedAt /\ row'.sentByServer = row.sentByServer /\ row'.folder = "Drafts"
        BY <1>0, <1>24 DEF Releases, Write, Row
  <2>2. ~row.sentByServer
        BY <1>24, <1>r, <1>s DEF Releases
  <2>3. Open => \A q \in Actors \ {p} : ~Holding(q)
        BY <1>24, <1>c DEF Releases, AtRisk, Claimed
  <2> QED
        BY <1>24, <2>1, <2>2, <2>3, LastWrite DEF Releases, Write, Quiet, Recorded
<1>25. CASE RemarkReads(p)
      BY <1>25, <1>p, MoveOn DEF RemarkReads, Read, Goto, Quiet, Claimed
<1>26. CASE Remarks(p)
  <2>1. /\ row'.relayedAt /\ row'.folder = row.folder /\ row'.sentByServer = row.sentByServer
        /\ row'.folder = "Outbox" => row'.lease = NoTime
        BY <1>0, <1>26 DEF Remarks, Write, Remarked, Row
  <2>2. Open => \A q \in Actors \ {p} : ~Holding(q)
        BY <1>26, <1>c, <1>p DEF Remarks, AtRisk, Open, Claimed
  <2> QED
        BY <1>26, <2>1, <2>2, <1>s, LastWrite DEF Remarks, Write, Quiet, Recorded
<1>27. CASE RemarkFails(p)
      BY <1>27, <1>p, MoveOn DEF RemarkFails, Goto, Quiet, Claimed
<1>28. CASE RemarkReadFails(p)
      BY <1>28, <1>p, MoveOn DEF RemarkReadFails, Goto, Quiet, Claimed
<1>29. CASE RequestGivesUp(p)
      BY <1>29, LetGo DEF RequestGivesUp, Quiet
<1>30. CASE Crash(p)
      BY <1>30, LetGo DEF Crash
<1> QED
      BY <1>1, <1>2, <1>3, <1>4, <1>5, <1>6, <1>7, <1>8, <1>9, <1>10, <1>11, <1>12, <1>13,
         <1>14, <1>15, <1>16, <1>17, <1>18, <1>19, <1>20, <1>21, <1>22, <1>23, <1>24, <1>25,
         <1>26, <1>27, <1>28, <1>29, <1>30 DEF Work

\* Every step keeps the claim exclusive.
LEMMA SendStep == TypeOK /\ ClaimInv /\ [Next]_vars => ClaimInv'
<1> SUFFICES ASSUME TypeOK, ClaimInv, [Next]_vars PROVE ClaimInv'
    OBVIOUS
<1>1. CASE UNCHANGED vars
      BY <1>1, Unaffected DEF vars, local, bounds, history
<1>2. ASSUME NEW p \in Actors, Work(p) \/ RequestReads(p) \/ Crash(p) PROVE ClaimInv'
      BY <1>2, WorkSafe
<1>3. CASE User
      BY <1>3, UserSafe
<1>4. CASE Tick
      BY <1>4, Ticks
<1> QED
      BY <1>1, <1>2, <1>3, <1>4 DEF Next

\* Nobody holds a claim at first.
LEMMA SendInit == Init => ClaimInv
<1> SUFFICES ASSUME Init PROVE ClaimInv
    OBVIOUS
<1>1. \A p \in Actors : pc[p] = "idle"
      BY DEF Init
<1>2. HolderInv /\ SoleInv /\ RiskInv
      BY <1>1 DEF Init, HolderInv, SoleInv, RiskInv, Holding, AtRisk, Claimed
<1>3. ReadInv /\ PlaceInv /\ ClosedInv /\ MemoryInv /\ OnceInv
      BY <1>1 DEF Init, ReadInv, PlaceInv, ClosedInv, MemoryInv, OnceInv
<1>4. LeaseInv /\ FirstInv
      BY <1>1 DEF Init, LeaseInv, FirstInv, Claimed
<1> QED
      BY <1>2, <1>3, <1>4 DEF ClaimInv

\* The claim of ScheduledSendJob and of an immediate send is exclusive, for any number of
\* replicas and requests, any leases and any interleaving of users, crashes and time.
THEOREM ExclusiveClaim == Spec => []SendInv
<1>1. TypeOK /\ ClaimInv /\ [Next]_vars => ClaimInv'
      BY SendStep
<1> QED
      BY <1>1, SendInit, TypeCorrect, PTL DEF Spec, SendInv

\* A message is accepted by the transport at most once, unless an acceptance was lost with
\* the process that knew of it or a relay outlived its lease.
THEOREM RelayedAtMostOnce == Spec => []AtMostOnceRelay
<1>1. TypeOK /\ ClaimInv => AtMostOnceRelay
      BY Times DEF ClaimInv, OnceInv, AtMostOnceRelay
<1> QED
      BY <1>1, ExclusiveClaim, PTL DEF SendInv

\* Whoever hands the message to the transport holds an unexpired claim the row carries.
THEOREM RelaysUnderClaim == Spec => RelayUnderClaim
<1> DEFINE Step == \A p \in Actors : pc[p] = "claimed" /\ pc'[p] = "mark" /\ ~overran =>
                     row.folder = "Outbox" /\ row.lease = lease[p] /\ now < lease[p] /\ ~Recorded(row)
<1>1. ClaimInv => Step
  <2> SUFFICES ASSUME ClaimInv, NEW p \in Actors, pc[p] = "claimed", ~overran
               PROVE  row.folder = "Outbox" /\ row.lease = lease[p] /\ now < lease[p] /\ ~Recorded(row)
      OBVIOUS
  <2>1. Open
        BY DEF ClaimInv, ClosedInv, Open
  <2>2. Holding(p)
        BY <2>1 DEF ClaimInv, RiskInv, AtRisk, Holding, Claimed
  <2> QED
        BY <2>1, <2>2 DEF ClaimInv, HolderInv, Holding, Open
<1>2. ClaimInv /\ [Next]_vars => [Step]_vars
      BY <1>1
<1> QED
      BY <1>2, ExclusiveClaim, PTL DEF Spec, RelayUnderClaim, SendInv
-----------------------------------------------------------------------------
(* The outcome of a send can be told from the row.                           *)

\* A message in the Outbox is due, failed or leased; one known to be relayed is due or failed.
ToldInv ==
    row.folder = "Outbox" =>
        /\ row.sst # NoTime \/ row.error \/ row.lease # NoTime
        /\ row.relayedAt /\ ~overran => row.sst # NoTime \/ row.error

\* A step that leaves the row alone tells as much as before.
LEMMA ToldAlready == ASSUME ToldInv, row' = row, overran => overran' PROVE ToldInv'
  BY DEF ToldInv

\* Every write of the sending code leaves a due time, an error or a lease, or leaves the Outbox.
LEMMA WorkTells ==
    ASSUME TypeOK, ClaimInv, ToldInv, NEW p \in Actors, Work(p) \/ RequestReads(p) \/ Crash(p)
    PROVE  ToldInv'
<1>0. row \in Row /\ Jobs \cap Requests = {} /\ now \in Nat \ {0} /\ lease \in [Actors -> Nat]
      BY ScheduledSendAssumption DEF TypeOK, RowOK, LocalOK, WorldOK
<1>1. CASE JobRefuses(p) \/ JobRefusesClaimed(p)
      BY <1>0, <1>1 DEF JobRefuses, JobRefusesClaimed, Write, Refused, Row, ToldInv
<1>2. CASE JobClaims(p)
  <2>1. now + JobLease # NoTime
        BY <1>0, ScheduledSendAssumption DEF NoTime
  <2> QED
        BY <1>0, <1>2, <2>1 DEF JobClaims, Write, Row, ToldInv
<1>3. CASE RequestClaims(p)
  <2>1. now + SendLease # NoTime /\ ~row.relayedAt
        BY <1>0, <1>3, ScheduledSendAssumption DEF NoTime, RequestClaims, ClaimInv, ReadInv
  <2> QED
        BY <1>0, <1>3, <2>1 DEF RequestClaims, Write, Row, ToldInv
<1>4. CASE MarkWrites(p)
  <2>1. pc[p] = "mark" /\ row' = Marked(p, row) /\ UNCHANGED overran
        BY <1>4 DEF MarkWrites, Write, Quiet
  <2>2. CASE p \in Requests
    <3>1. lease[p] # NoTime
          BY <2>1 DEF ClaimInv, LeaseInv, Claimed
    <3> QED
          BY <1>0, <2>1, <2>2, <3>1 DEF Marked, Row, ToldInv
  <2>3. CASE p \notin Requests
    <3>1. row'.sst = row.sst /\ row'.error = row.error /\ row'.lease = row.lease /\ row'.folder = row.folder
          BY <1>0, <2>1, <2>3 DEF Marked, Row
    <3>2. ASSUME ~overran PROVE row.sst # NoTime
      <4>1. Open
            BY <2>1, <3>2 DEF ClaimInv, ClosedInv, Open
      <4>2. Holding(p) /\ now < lease[p]
            BY <2>1, <4>1 DEF ClaimInv, PlaceInv, RiskInv, AtRisk, Open, Holding, Claimed
      <4>3. row.sst >= lease[p]
            BY <2>3, <4>1, <4>2 DEF ClaimInv, HolderInv
      <4> QED
            BY <1>0, <4>2, <4>3 DEF Row, NoTime
    <3> QED
          BY <2>1, <3>1, <3>2 DEF ToldInv
  <2> QED
        BY <2>2, <2>3
<1>5. CASE Files(p)
      BY <1>0, <1>5 DEF Files, Write, Filed, Row, ToldInv
<1>6. CASE FailRecords(p)
      BY <1>0, <1>6 DEF FailRecords, Write, FailedAttempt, Row, ToldInv
<1>7. CASE Releases(p)
      BY <1>0, <1>7 DEF Releases, Write, Row, ToldInv
<1>8. CASE Remarks(p)
  <2>1. row'.folder = "Outbox" => row'.sst = now
        BY <1>0, <1>8 DEF Remarks, Write, Remarked, Row
  <2> QED
        BY <1>0, <2>1 DEF ToldInv, NoTime
<1>9. CASE \/ JobReads(p) \/ ReadLoses(p) \/ JobRefusalFails(p) \/ RelayFails(p) \/ RelayAccepts(p)
           \/ MarkRetries(p) \/ MarkGivesUp(p) \/ MarkReadFails(p) \/ FileReads(p) \/ FileRetries(p)
           \/ NotClaimed(p) \/ FilingFails(p) \/ FailReads(p) \/ RecordFails(p) \/ ReleaseReads(p)
           \/ RemarkReads(p) \/ RemarkFails(p) \/ RemarkReadFails(p) \/ RequestGivesUp(p)
           \/ RequestReads(p) \/ Crash(p)
      BY <1>9, ToldAlready
      DEF JobReads, ReadLoses, JobRefusalFails, RelayFails, RelayAccepts, MarkRetries, MarkGivesUp, MarkReadFails,
          FileReads, FileRetries, NotClaimed, FilingFails, FailReads, RecordFails, ReleaseReads, RemarkReads,
          RemarkFails, RemarkReadFails, RequestGivesUp, RequestReads, Crash, Read, Quiet
<1> QED
      BY <1>1, <1>2, <1>3, <1>4, <1>5, <1>6, <1>7, <1>8, <1>9 DEF Work

\* So does every write of a user or a trusted caller.
LEMMA UserTells == ASSUME TypeOK, ToldInv, User PROVE ToldInv'
<1>0. row \in Row /\ now \in Nat \ {0}
      BY DEF TypeOK, RowOK, WorldOK
<1>1. ASSUME NEW d \in 0..MaxDefer, Queue(d) PROVE ToldInv'
  <2>1. now + d # NoTime
        BY <1>0, ScheduledSendAssumption DEF NoTime
  <2> QED
        BY <1>0, <1>1, <2>1 DEF Queue, WriteBy, Row, ToldInv
<1>2. ASSUME NEW f \in {"Drafts", "Other"}, Cancel(f) \/ TrustedMove(f) PROVE ToldInv'
      BY <1>0, <1>2 DEF Cancel, TrustedMove, WriteBy, Row, ToldInv
<1>3. CASE Discard
      BY <1>0, <1>3 DEF Discard, WriteBy, Row, ToldInv
<1>4. CASE Touch \/ DeleteChecks
      BY <1>4, ToldAlready DEF Touch, DeleteChecks, WriteBy, UserStep, history
<1>5. CASE DeleteApplies
      BY <1>0, <1>5 DEF DeleteApplies, WriteBy, history, Row, ToldInv
<1>6. CASE Restore
      BY <1>0, <1>6 DEF Restore, WriteBy, UserStep, history, Row, ToldInv
<1> QED
      BY <1>1, <1>2, <1>3, <1>4, <1>5, <1>6 DEF User

\* A notice that the message was not delivered is filed only by an actor that would know of a relay.
LEMMA NoticeTrue ==
    ASSUME TypeOK, ClaimInv, Next, falseNotice' # falseNotice, ~lost, ~overran
    PROVE  row.folder # "Outbox"
<1> SUFFICES ASSUME row.folder = "Outbox" PROVE FALSE
    OBVIOUS
<1>0. relays \in Nat /\ relayed \subseteq Actors /\ fresh \subseteq Actors
      BY Times
<1>1. PICK p \in Actors : (JobRefuses(p) \/ JobRefusesClaimed(p) \/ (FailRecords(p) /\ p \notin relayed)) /\ relays > 0
  <2>1. ~User /\ ~Tick
        BY DEF User, Queue, Cancel, TrustedMove, Discard, Touch, DeleteChecks, DeleteApplies, Restore, UserStep,
               Tick, history
  <2>2. PICK p \in Actors : Work(p) \/ RequestReads(p) \/ Crash(p)
        BY <2>1 DEF Next
  <2>3. JobRefuses(p) \/ JobRefusesClaimed(p) \/ FailRecords(p)
        BY <2>2
        DEF Work, JobReads, JobClaims, RequestClaims, ReadLoses, JobRefusalFails, RelayFails, RelayAccepts, MarkWrites,
            MarkRetries, MarkGivesUp, MarkReadFails, FileReads, FileRetries, Files, NotClaimed, FilingFails, FailReads,
            RecordFails, ReleaseReads, Releases, RemarkReads, Remarks, RemarkFails, RemarkReadFails, RequestGivesUp,
            RequestReads, Crash
  <2> QED
        BY <2>3 DEF JobRefuses, JobRefusesClaimed, FailRecords, Notify
<1>2. ~row.sentByServer
      BY DEF ClaimInv, PlaceInv
<1>3. ~Recorded(row)
  <2>1. CASE JobRefuses(p)
        BY <2>1, <1>2 DEF JobRefuses, Recorded
  <2>2. CASE JobRefusesClaimed(p)
        BY <2>2 DEF JobRefusesClaimed, ClaimInv, ClosedInv
  <2>3. CASE FailRecords(p) /\ p \notin relayed
        BY <2>3 DEF FailRecords, ClaimInv, ReadInv, FirstInv, Claimed
  <2> QED
        BY <1>1, <2>1, <2>2, <2>3
<1>4. PICK q \in relayed : TRUE
      BY <1>1, <1>3 DEF ClaimInv, MemoryInv
<1>5. Open /\ q \in Actors /\ AtRisk(q) /\ Holding(q)
      BY <1>0, <1>3, <1>4 DEF Open, AtRisk, Holding, ClaimInv, RiskInv, PlaceInv
<1>6. row.lease = lease[q] /\ now < lease[q] /\ (row.sst >= lease[q] \/ row.sst = NoTime)
      BY <1>5 DEF ClaimInv, HolderInv, Holding
<1>7. CASE JobRefuses(p)
  <2>1. Due(row)
        BY <1>7 DEF JobRefuses, ClaimInv, ReadInv
  <2> QED
        BY <1>5, <1>6, <2>1, Times DEF Due
<1>8. CASE JobRefusesClaimed(p)
  <2>1. q # p
        BY <1>4, <1>8 DEF JobRefusesClaimed, ClaimInv, PlaceInv
  <2>2. Holding(p)
        BY <1>5, <1>8 DEF JobRefusesClaimed, ClaimInv, RiskInv, AtRisk, Holding, Claimed
  <2> QED
        BY <1>5, <2>1, <2>2 DEF ClaimInv, SoleInv
<1>9. CASE FailRecords(p) /\ p \notin relayed
  <2>1. q # p /\ pc[p] \in Claimed /\ row.lease = lease[p]
        BY <1>4, <1>9 DEF FailRecords, ClaimInv, ReadInv, Claimed
  <2>2. Holding(p)
        BY <1>6, <2>1 DEF Holding
  <2> QED
        BY <1>5, <2>1, <2>2 DEF ClaimInv, SoleInv
<1> QED
      BY <1>1, <1>7, <1>8, <1>9

\* What became of a message can always be told from its row (ScheduledSendJob, relaySend()): in the Outbox
\* it is due, leased or failed, once relayed it is due to be filed or failed, and an undelivered notice is
\* filed only for a message that was not accepted, unless the acceptance was lost, a relay outlived its
\* lease or a trusted caller has moved the message.
THEOREM OutcomesTold == Spec => OutcomeTold
<1>1. Init => ToldInv
      BY DEF Init, ToldInv
<1>2. TypeOK /\ ClaimInv /\ ToldInv /\ [Next]_vars => ToldInv'
  <2> SUFFICES ASSUME TypeOK, ClaimInv, ToldInv, [Next]_vars PROVE ToldInv'
      OBVIOUS
  <2>1. CASE UNCHANGED vars
        BY <2>1, ToldAlready DEF vars, history
  <2>2. CASE Tick
        BY <2>2, ToldAlready DEF Tick
  <2> QED
        BY <2>1, <2>2, WorkTells, UserTells DEF Next
<1>3. ToldInv => NeverSilentlyDropped /\ RelayedIsFiled
      BY DEF ToldInv, NeverSilentlyDropped, RelayedIsFiled
<1>4. TypeOK /\ ClaimInv /\ [Next]_vars => [falseNotice' # falseNotice => lost \/ overran \/ row.folder # "Outbox"]_vars
      BY NoticeTrue DEF vars, history
<1> QED
      BY <1>1, <1>2, <1>3, <1>4, ExclusiveClaim, PTL DEF Spec, SendInv, OutcomeTold, NoFalseNotice
================================================================================
