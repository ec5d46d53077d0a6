------------------------------ MODULE IngestProofs -----------------------------
(****************************************************************************)
(* What the queue does with an entry, for any workers, leases, attempts,    *)
(* faults and erasures: its message is filed, charged and answered once, it *)
(* stays closed, and it is not lost.                                        *)
(*                                                                          *)
(* Four facts carry the rest: a closed entry's version is with nobody at    *)
(* work (Closed); whoever is past the filing can show a row, a held copy or *)
(* a verdict (Kept); without a takeover one worker is at work at a time     *)
(* (Sole, Quiet); and what was charged or sent has its marker, or the one   *)
(* worker between the two (Charged, Sent).                                  *)
(****************************************************************************)
EXTENDS IngestQueue, TLAPS

\* The types, in four parts.
EntryOK ==
    /\ entry \in [status : {"PENDING", "SCANNING", "FAILED", "DELIVERED", "PURGED"}, attempts : Nat,
                  lease : 0..Lease, next : Nat, parked : BOOLEAN, sealed : BOOLEAN]
    /\ ~entry.sealed => entry.attempts <= MaxAttempts
LocalOK ==
    /\ pc \in [Workers -> {"idle", "read"} \cup Working] /\ fresh \subseteq Workers
    /\ held \in [Workers -> 0..Lease] /\ owes \subseteq Workers
    /\ verdict \in [Workers -> Verdicts \cup {"none"}] /\ effect \in [Workers -> Effects]
RowsOK ==
    /\ scanned \in BOOLEAN /\ quarantined \in BOOLEAN /\ copies \in Nat /\ charges \in Nat
    /\ marker \in BOOLEAN /\ marks \subseteq Effects /\ sent \in [Effects -> Nat]
WorldOK ==
    /\ age \in 0..DeferMax
    /\ erasure \in {"none", "waiting", "running", "purged", "halfway", "resumed", "failed", "gone"} /\ mta \in BOOLEAN
    /\ overran \in BOOLEAN /\ slipped \in BOOLEAN
    /\ faults \in 0..MaxFaults /\ crashes \in 0..MaxCrashes
    /\ steps \in 0..MaxErasure /\ tries \in 0..MaxTries

\* Nobody with the entry's version is at work on an entry that is closed.
Closed == entry.status \in {"DELIVERED", "PURGED"} => \A w \in fresh : pc[w] = "idle"

\* Whoever is past filing has filed, held or decided, unless an erasure has purged it since.
Untouched == erasure \in {"none", "waiting", "running"}
Kept ==
    Untouched => \A w \in Workers :
        /\ pc[w] \in {"owner", "effect", "sending", "marking"} => filed \/ verdict[w] = "discard"
        /\ pc[w] = "kept" => quarantined
        /\ pc[w] = "close" => filed \/ quarantined \/ verdict[w] \in {"control", "discard"}

\* Without a takeover one worker is at work at a time, and none on a delivered entry.
Sole == ~overran => \A p, q \in Workers : pc[p] \in Working /\ pc[q] \in Working => p = q
Quiet == ~overran /\ entry.status = "DELIVERED" => \A w \in Workers : pc[w] \notin Working
Over == entry.status \in {"DELIVERED", "PURGED"} /\ \A w \in Workers : pc[w] \notin Working

\* A side effect that went out has its marker, or its worker writes it next, or nobody will look again.
Sent ==
    ~overran /\ ~slipped => \A e \in Effects :
        /\ sent[e] \in {0, 1}
        /\ sent[e] = 1 => e \in marks \/ Over \/ \E w \in Workers : pc[w] = "marking" /\ effect[w] = e
        /\ \A w \in Workers : pc[w] = "sending" /\ effect[w] = e => sent[e] = 0

\* The charge stands while its marker does, but for the worker between the two.
Charged ==
    ~overran /\ ~slipped =>
        /\ charges \in {0, 1}
        /\ marker => charges = 1 \/ \E w \in Workers : pc[w] = "unmark"
        /\ charges = 1 => marker \/ Over \/ \E w \in Workers : pc[w] \in {"mark", "refund", "refunding"}
        /\ filed => charges = 1
        /\ \A w \in Workers :
            /\ pc[w] = "charge" => charges = 0 /\ ~marker
            /\ pc[w] \in {"mark", "file", "create"} => charges = 1
            /\ pc[w] = "mark" => w \in owes
            /\ pc[w] \in {"mark", "refund"} => marker \/ ~filed
            /\ pc[w] \in {"file", "create"} => marker
            /\ pc[w] = "refunding" => ~filed
            /\ pc[w] = "unmark" => charges = 0

--------------------------------------------------------------------------------

\* Half of a backoff is a time.
LEMMA Halved == ASSUME NEW b \in Nat, NEW p \in Nat PROVE (b * p) \div 2 \in Nat
  OBVIOUS

\* processEntry() writes the entry's fields only with values of their types.
LEMMA EntryTypes ==
    ASSUME TypeOK, [Next]_vars PROVE EntryOK'
  <1> USE IngestQueueAssumption, PowersAssumption DEF TypeOK, EntryOK, Working, Goto, Idle, Writes, rows,
      locals, bounds, world
  <1>1. ASSUME NEW w \in Workers, Finds(w) \/ InlineReads(w) \/ InlineAnswers(w) \/ ClaimLost(w) PROVE EntryOK'
    BY <1>1 DEF Finds, Due, InlineReads, InlineAnswers, ClaimLost
  <1>2. ASSUME NEW w \in Workers, Claims(w) PROVE EntryOK'
    <2>1. entry' = [status |-> "SCANNING", attempts |-> entry.attempts + 1, lease |-> Lease,
                    next |-> entry.next, parked |-> entry.parked, sealed |-> entry.sealed]
      BY <1>2 DEF Claims, Claimed
    <2> QED BY <1>2, <2>1 DEF Claims, Exhausted
  <1>3. ASSUME NEW w \in Workers, Parks(w) PROVE EntryOK'
    <2>1. entry' = [status |-> "FAILED", attempts |-> entry.attempts, lease |-> 0,
                    next |-> entry.next, parked |-> TRUE, sealed |-> entry.sealed]
      BY <1>3 DEF Parks
    <2> QED BY <1>3, <2>1
  <1>4. ASSUME NEW w \in Workers, Proceeds(w) \/ Scans(w) \/ Acts(w) \/ Holds(w) PROVE EntryOK'
    BY <1>4 DEF Proceeds, Drop, Defer, Scans, Acts, Holds
  <1>5. ASSUME NEW w \in Workers, Drops(w) PROVE EntryOK'
    <2>1. entry' = [status |-> "DELIVERED", attempts |-> entry.attempts, lease |-> 0,
                    next |-> entry.next, parked |-> entry.parked, sealed |-> entry.sealed]
      BY <1>5 DEF Drops
    <2> QED BY <1>5, <2>1
  <1>6. ASSUME NEW w \in Workers, Defers(w) PROVE EntryOK'
    <2>1. entry' = [status |-> "FAILED", attempts |-> IF entry.attempts > 0 THEN entry.attempts - 1 ELSE 0,
        lease |-> 0,
                    next |-> DeferWait, parked |-> FALSE, sealed |-> entry.sealed]
      BY <1>6 DEF Defers
    <2> QED BY <1>6, <2>1
  <1>7. ASSUME NEW w \in Workers, Renews(w) PROVE EntryOK' BY <1>7 DEF Renews, Renewed
  <1>8. ASSUME NEW w \in Workers, ChecksHeld(w) PROVE EntryOK' BY <1>8 DEF ChecksHeld, Renewed
  <1>9. ASSUME NEW w \in Workers,
               \/ DeliverLooks(w) \/ ChargeLooks(w) \/ Charges(w) \/ OverQuota(w) \/ MailboxGone(w)
               \/ MarksCharge(w) \/ ChecksFiling(w) \/ Files(w) \/ ChecksOwner(w)
        PROVE EntryOK'
    BY <1>9 DEF DeliverLooks, ChargeLooks, MarkerFound, Charges, OverQuota, MailboxGone, MarksCharge,
        ChecksFiling, Renewed, Files, Duplicate, ChecksOwner
  <1>10. ASSUME NEW w \in Workers, SkipsEffect(w) \/ StartsEffect(w) \/ Sends(w) \/ MarksEffect(w) PROVE EntryOK'
    BY <1>10 DEF SkipsEffect, NextEffect, StartsEffect, EffectDone, Sends, MarksEffect
  <1>11. ASSUME NEW w \in Workers, Closes(w) PROVE EntryOK'
    <2>1. entry' = [status |-> "DELIVERED", attempts |-> entry.attempts, lease |-> 0,
                    next |-> entry.next, parked |-> entry.parked, sealed |-> entry.sealed]
      BY <1>11 DEF Closes
    <2> QED BY <1>11, <2>1
  <1>12. ASSUME NEW w \in Workers, Refunds(w) \/ Unmarks(w) \/ RecordLost(w) PROVE EntryOK'
    BY <1>12 DEF Refunds, Unmarks, RecordLost, Fault
  <1>13. ASSUME NEW w \in Workers, Fails(w) PROVE EntryOK'
    BY <1>13 DEF Fails, StepThrows, Drop, Defer, Fault, Duplicate, InDelivery
  <1>14. ASSUME NEW w \in Workers, RefundLooks(w) PROVE EntryOK' BY <1>14 DEF RefundLooks
  <1>15. ASSUME NEW w \in Workers, RefundFails(w) PROVE EntryOK' BY <1>15 DEF RefundFails, Fault
  <1>16. ASSUME NEW w \in Workers, Records(w) PROVE EntryOK'
    <2>1. entry' = [status |-> "FAILED", attempts |-> entry.attempts, lease |-> 0,
                    next |-> IF entry.attempts >= MaxAttempts THEN 0 ELSE (Backoff * 2 ^ entry.attempts) \div 2,
                        parked |-> entry.attempts >= MaxAttempts, sealed |-> entry.sealed]
      BY <1>16 DEF Records, FailedEntry
    <2>2. entry.attempts < MaxAttempts => 2 ^ entry.attempts \in Nat OBVIOUS
    <2>3. entry.attempts < MaxAttempts => (Backoff * 2 ^ entry.attempts) \div 2 \in Nat BY <2>2, Halved
    <2>4. (entry.attempts >= MaxAttempts) \in BOOLEAN OBVIOUS
    <2> QED BY <1>16, <2>1, <2>3, <2>4
  <1>17. ASSUME NEW w \in Workers, Crash(w) PROVE EntryOK' BY <1>17 DEF Crash
  <1>18. CASE ErasureMoves BY <1>18 DEF ErasureMoves, ErasureStep
  <1>19. CASE ErasurePurges BY <1>19 DEF ErasurePurges, ErasureStep
  <1>20. CASE ErasureEnds BY <1>20 DEF ErasureEnds, ErasureStep
  <1>21. CASE Tick
    <2>1. entry' = [status |-> entry.status, attempts |-> entry.attempts, lease |-> Less(entry.lease),
                    next |-> Less(entry.next), parked |-> entry.parked, sealed |-> entry.sealed]
      BY <1>21 DEF Tick
    <2> QED BY <1>21, <2>1 DEF Less
  <1>22. CASE UNCHANGED vars BY <1>22 DEF vars
  <1> QED BY <1>1, <1>2, <1>3, <1>4, <1>5, <1>6, <1>7, <1>8, <1>9, <1>10, <1>11, <1>12, <1>13, <1>14, <1>15,
      <1>16, <1>17, <1>18, <1>19, <1>20, <1>21, <1>22 DEF Next, Work

\* Where a worker stands, what it decided and owes, has its type.
LEMMA LocalTypes ==
    ASSUME TypeOK, [Next]_vars PROVE LocalOK'
  <1> USE IngestQueueAssumption, PowersAssumption DEF TypeOK, LocalOK, Working, Verdicts, Effects, Goto, Idle,
      Writes, rows, locals, bounds, world
  <1>1. ASSUME NEW w \in Workers, Finds(w) \/ InlineReads(w) \/ InlineAnswers(w) \/ ClaimLost(w) PROVE LocalOK'
    BY <1>1 DEF Finds, Due, InlineReads, InlineAnswers, ClaimLost
  <1>2. ASSUME NEW w \in Workers, Claims(w) PROVE LocalOK' BY <1>2 DEF Claims, Claimed, Exhausted
  <1>3. ASSUME NEW w \in Workers, Parks(w) PROVE LocalOK' BY <1>3 DEF Parks, Exhausted
  <1>4. ASSUME NEW w \in Workers, Proceeds(w) \/ Scans(w) \/ Acts(w) \/ Holds(w) PROVE LocalOK'
    BY <1>4 DEF Proceeds, Drop, Defer, Scans, Acts, Holds
  <1>5. ASSUME NEW w \in Workers, Drops(w) PROVE LocalOK' BY <1>5 DEF Drops, Drop, Answers
  <1>6. ASSUME NEW w \in Workers, Defers(w) PROVE LocalOK' BY <1>6 DEF Defers, Drop, Defer
  <1>7. ASSUME NEW w \in Workers, Renews(w) PROVE LocalOK' BY <1>7 DEF Renews, Renewed
  <1>8. ASSUME NEW w \in Workers, ChecksHeld(w) PROVE LocalOK' BY <1>8 DEF ChecksHeld, Renewed
  <1>9. ASSUME NEW w \in Workers,
               \/ DeliverLooks(w) \/ ChargeLooks(w) \/ Charges(w) \/ OverQuota(w) \/ MailboxGone(w)
               \/ MarksCharge(w) \/ ChecksFiling(w) \/ Files(w) \/ ChecksOwner(w)
        PROVE LocalOK'
    BY <1>9 DEF DeliverLooks, ChargeLooks, MarkerFound, Charges, OverQuota, MailboxGone, MarksCharge,
        ChecksFiling, Renewed, Files, Duplicate, ChecksOwner
  <1>10. ASSUME NEW w \in Workers, SkipsEffect(w) \/ StartsEffect(w) \/ Sends(w) \/ MarksEffect(w) PROVE LocalOK'
    BY <1>10 DEF SkipsEffect, NextEffect, StartsEffect, EffectDone, Sends, MarksEffect
  <1>11. ASSUME NEW w \in Workers, Closes(w) PROVE LocalOK' BY <1>11 DEF Closes, Answers
  <1>12. ASSUME NEW w \in Workers, Refunds(w) \/ Unmarks(w) \/ RecordLost(w) PROVE LocalOK'
    BY <1>12 DEF Refunds, Unmarks, RecordLost, Fault
  <1>13. ASSUME NEW w \in Workers, Fails(w) PROVE LocalOK'
    BY <1>13 DEF Fails, StepThrows, Drop, Defer, Fault, Duplicate, InDelivery
  <1>14. ASSUME NEW w \in Workers, RefundLooks(w) PROVE LocalOK' BY <1>14 DEF RefundLooks
  <1>15. ASSUME NEW w \in Workers, RefundFails(w) PROVE LocalOK' BY <1>15 DEF RefundFails, Fault
  <1>16. ASSUME NEW w \in Workers, Records(w) PROVE LocalOK' BY <1>16 DEF Records, FailedEntry
  <1>17. ASSUME NEW w \in Workers, Crash(w) PROVE LocalOK' BY <1>17 DEF Crash
  <1>18. CASE ErasureMoves BY <1>18 DEF ErasureMoves, ErasureStep
  <1>19. CASE ErasurePurges BY <1>19 DEF ErasurePurges, ErasureStep
  <1>20. CASE ErasureEnds BY <1>20 DEF ErasureEnds, ErasureStep
  <1>21. CASE Tick BY <1>21 DEF Tick, Less
  <1>22. CASE UNCHANGED vars BY <1>22 DEF vars
  <1> QED BY <1>1, <1>2, <1>3, <1>4, <1>5, <1>6, <1>7, <1>8, <1>9, <1>10, <1>11, <1>12, <1>13, <1>14, <1>15,
      <1>16, <1>17, <1>18, <1>19, <1>20, <1>21, <1>22 DEF Next, Work

\* The rows of the entry and its markers keep their types.
LEMMA RowTypes ==
    ASSUME TypeOK, [Next]_vars PROVE RowsOK'
  <1> USE IngestQueueAssumption, PowersAssumption DEF TypeOK, RowsOK, Effects, Goto, Idle, Writes, rows, locals,
      bounds, world
  <1>1. ASSUME NEW w \in Workers, Finds(w) \/ InlineReads(w) \/ InlineAnswers(w) \/ ClaimLost(w) PROVE RowsOK'
    BY <1>1 DEF Finds, Due, InlineReads, InlineAnswers, ClaimLost
  <1>2. ASSUME NEW w \in Workers, Claims(w) PROVE RowsOK' BY <1>2 DEF Claims, Claimed, Exhausted
  <1>3. ASSUME NEW w \in Workers, Parks(w) PROVE RowsOK' BY <1>3 DEF Parks, Exhausted
  <1>4. ASSUME NEW w \in Workers, Proceeds(w) \/ Scans(w) \/ Acts(w) \/ Holds(w) PROVE RowsOK'
    BY <1>4 DEF Proceeds, Drop, Defer, Scans, Acts, Holds
  <1>5. ASSUME NEW w \in Workers, Drops(w) PROVE RowsOK' BY <1>5 DEF Drops, Drop, Answers
  <1>6. ASSUME NEW w \in Workers, Defers(w) PROVE RowsOK' BY <1>6 DEF Defers, Drop, Defer
  <1>7. ASSUME NEW w \in Workers, Renews(w) PROVE RowsOK' BY <1>7 DEF Renews, Renewed
  <1>8. ASSUME NEW w \in Workers, ChecksHeld(w) PROVE RowsOK' BY <1>8 DEF ChecksHeld, Renewed
  <1>9. ASSUME NEW w \in Workers,
               \/ DeliverLooks(w) \/ ChargeLooks(w) \/ OverQuota(w) \/ MailboxGone(w) \/ ChecksFiling(w)
               \/ ChecksOwner(w)
        PROVE RowsOK'
    BY <1>9 DEF DeliverLooks, ChargeLooks, MarkerFound, OverQuota, MailboxGone, ChecksFiling, Renewed, ChecksOwner
  <1>10. ASSUME NEW w \in Workers, Charges(w) PROVE RowsOK' BY <1>10 DEF Charges
  <1>11. ASSUME NEW w \in Workers, MarksCharge(w) PROVE RowsOK' BY <1>11 DEF MarksCharge
  <1>12. ASSUME NEW w \in Workers, Files(w) PROVE RowsOK' BY <1>12 DEF Files, Duplicate
  <1>13. ASSUME NEW w \in Workers, SkipsEffect(w) \/ StartsEffect(w) PROVE RowsOK'
    BY <1>13 DEF SkipsEffect, NextEffect, StartsEffect, EffectDone
  <1>14. ASSUME NEW w \in Workers, Sends(w) PROVE RowsOK' BY <1>14 DEF Sends
  <1>15. ASSUME NEW w \in Workers, MarksEffect(w) PROVE RowsOK' BY <1>15 DEF MarksEffect, NextEffect
  <1>16. ASSUME NEW w \in Workers, Closes(w) PROVE RowsOK' BY <1>16 DEF Closes, Answers
  <1>17. ASSUME NEW w \in Workers, RecordLost(w) PROVE RowsOK' BY <1>17 DEF RecordLost, Fault
  <1>18. ASSUME NEW w \in Workers, Fails(w) PROVE RowsOK'
    BY <1>18 DEF Fails, StepThrows, Drop, Defer, Fault, Duplicate, InDelivery
  <1>19. ASSUME NEW w \in Workers, RefundLooks(w) PROVE RowsOK' BY <1>19 DEF RefundLooks
  <1>20. ASSUME NEW w \in Workers, Refunds(w) PROVE RowsOK' BY <1>20 DEF Refunds
  <1>21. ASSUME NEW w \in Workers, Unmarks(w) PROVE RowsOK' BY <1>21 DEF Unmarks
  <1>22. ASSUME NEW w \in Workers, RefundFails(w) PROVE RowsOK' BY <1>22 DEF RefundFails, Fault
  <1>23. ASSUME NEW w \in Workers, Records(w) PROVE RowsOK' BY <1>23 DEF Records, FailedEntry
  <1>24. ASSUME NEW w \in Workers, Crash(w) PROVE RowsOK' BY <1>24 DEF Crash
  <1>25. CASE ErasureMoves BY <1>25 DEF ErasureMoves, ErasureStep
  <1>26. CASE ErasurePurges BY <1>26 DEF ErasurePurges, ErasureStep
  <1>27. CASE ErasureEnds BY <1>27 DEF ErasureEnds, ErasureStep
  <1>28. CASE Tick BY <1>28 DEF Tick, Less
  <1>29. CASE UNCHANGED vars BY <1>29 DEF vars
  <1> QED BY <1>1, <1>2, <1>3, <1>4, <1>5, <1>6, <1>7, <1>8, <1>9, <1>10, <1>11, <1>12, <1>13, <1>14, <1>15,
      <1>16, <1>17, <1>18, <1>19, <1>20, <1>21, <1>22, <1>23, <1>24, <1>25, <1>26, <1>27, <1>28, <1>29 DEF Next,
      Work

\* The erasure, the MTA and the bounds keep theirs.
LEMMA WorldTypes ==
    ASSUME TypeOK, [Next]_vars PROVE WorldOK'
  <1> USE IngestQueueAssumption, PowersAssumption DEF TypeOK, WorldOK, Goto, Idle, Writes, rows, locals, bounds, world
  <1>1. ASSUME NEW w \in Workers, Finds(w) \/ ClaimLost(w) PROVE WorldOK' BY <1>1 DEF Finds, Due, ClaimLost
  <1>2. ASSUME NEW w \in Workers, InlineReads(w) PROVE WorldOK' BY <1>2 DEF InlineReads
  <1>3. ASSUME NEW w \in Workers, InlineAnswers(w) PROVE WorldOK' BY <1>3 DEF InlineAnswers
  <1>4. ASSUME NEW w \in Workers, Claims(w) PROVE WorldOK' BY <1>4 DEF Claims, Claimed, Exhausted
  <1>5. ASSUME NEW w \in Workers, Parks(w) PROVE WorldOK' BY <1>5 DEF Parks, Exhausted
  <1>6. ASSUME NEW w \in Workers, Proceeds(w) \/ Scans(w) \/ Acts(w) \/ Holds(w) PROVE WorldOK'
    BY <1>6 DEF Proceeds, Drop, Defer, Scans, Acts, Holds
  <1>7. ASSUME NEW w \in Workers, Drops(w) PROVE WorldOK' BY <1>7 DEF Drops, Drop, Answers
  <1>8. ASSUME NEW w \in Workers, Defers(w) PROVE WorldOK' BY <1>8 DEF Defers, Drop, Defer
  <1>9. ASSUME NEW w \in Workers, Renews(w) PROVE WorldOK' BY <1>9 DEF Renews, Renewed
  <1>10. ASSUME NEW w \in Workers, ChecksHeld(w) PROVE WorldOK' BY <1>10 DEF ChecksHeld, Renewed
  <1>11. ASSUME NEW w \in Workers,
                \/ DeliverLooks(w) \/ ChargeLooks(w) \/ Charges(w) \/ OverQuota(w) \/ MailboxGone(w)
                \/ MarksCharge(w) \/ ChecksFiling(w) \/ Files(w) \/ ChecksOwner(w)
         PROVE WorldOK'
    BY <1>11 DEF DeliverLooks, ChargeLooks, MarkerFound, Charges, OverQuota, MailboxGone, MarksCharge,
        ChecksFiling, Renewed, Files, Duplicate, ChecksOwner
  <1>12. ASSUME NEW w \in Workers, SkipsEffect(w) \/ StartsEffect(w) \/ Sends(w) \/ MarksEffect(w) PROVE WorldOK'
    BY <1>12 DEF SkipsEffect, NextEffect, StartsEffect, EffectDone, Sends, MarksEffect
  <1>13. ASSUME NEW w \in Workers, Closes(w) PROVE WorldOK' BY <1>13 DEF Closes, Answers
  <1>14. ASSUME NEW w \in Workers, Refunds(w) \/ Unmarks(w) \/ RecordLost(w) PROVE WorldOK'
    BY <1>14 DEF Refunds, Unmarks, RecordLost, Fault
  <1>15. ASSUME NEW w \in Workers, Fails(w) PROVE WorldOK'
    <2>1. slipped' \in BOOLEAN BY <1>15, Zenon DEF Fails
    <2>2. /\ UNCHANGED <<age, erasure, mta, overran, steps, tries>>
          /\ faults' \in 0..MaxFaults /\ crashes' \in 0..MaxCrashes BY <1>15 DEF Fails, StepThrows, Fault
    <2> QED BY <2>1, <2>2
  <1>16. ASSUME NEW w \in Workers, RefundLooks(w) PROVE WorldOK' BY <1>16 DEF RefundLooks
  <1>17. ASSUME NEW w \in Workers, RefundFails(w) PROVE WorldOK'
    <2>1. slipped' \in BOOLEAN BY <1>17, Zenon DEF RefundFails
    <2>2. /\ UNCHANGED <<age, erasure, mta, overran, steps, tries>>
          /\ faults' \in 0..MaxFaults /\ crashes' \in 0..MaxCrashes BY <1>17 DEF RefundFails, Fault
    <2> QED BY <2>1, <2>2
  <1>18. ASSUME NEW w \in Workers, Records(w) PROVE WorldOK' BY <1>18 DEF Records, FailedEntry
  <1>19. ASSUME NEW w \in Workers, Crash(w) PROVE WorldOK'
    <2>1. slipped' \in BOOLEAN BY <1>19, Zenon DEF Crash
    <2>2. /\ UNCHANGED <<age, erasure, mta, overran, steps, tries>>
          /\ faults' \in 0..MaxFaults /\ crashes' \in 0..MaxCrashes BY <1>19 DEF Crash
    <2> QED BY <2>1, <2>2
  <1>20. CASE ErasureMoves BY <1>20 DEF ErasureMoves, ErasureStep
  <1>21. CASE ErasurePurges BY <1>21 DEF ErasurePurges, ErasureStep
  <1>22. CASE ErasureEnds BY <1>22 DEF ErasureEnds, ErasureStep
  <1>23. CASE Tick BY <1>23 DEF Tick, Less
  <1>24. CASE UNCHANGED vars BY <1>24 DEF vars
  <1> QED BY <1>1, <1>2, <1>3, <1>4, <1>5, <1>6, <1>7, <1>8, <1>9, <1>10, <1>11, <1>12, <1>13, <1>14, <1>15,
      <1>16, <1>17, <1>18, <1>19, <1>20, <1>21, <1>22, <1>23, <1>24 DEF Next, Work

\* What closes an entry leaves its worker idle, and takes the version from all others.
LEMMA NextClosed ==
    ASSUME TypeOK, Closed, [Next]_vars PROVE Closed'
  <1> USE DEF TypeOK, Closed, Working, Goto, Idle, Writes, rows, locals, bounds, world
  <1>1. ASSUME NEW w \in Workers, Finds(w) \/ InlineReads(w) \/ InlineAnswers(w) \/ ClaimLost(w) PROVE Closed'
    BY <1>1 DEF Finds, Due, InlineReads, InlineAnswers, ClaimLost
  <1>2. ASSUME NEW w \in Workers, Claims(w) PROVE Closed' BY <1>2 DEF Claims, Claimed, Exhausted
  <1>3. ASSUME NEW w \in Workers, Parks(w) PROVE Closed' BY <1>3 DEF Parks, Exhausted
  <1>4. ASSUME NEW w \in Workers, Proceeds(w) \/ Scans(w) \/ Acts(w) \/ Holds(w) PROVE Closed'
    BY <1>4 DEF Proceeds, Drop, Defer, Scans, Acts, Holds
  <1>5. ASSUME NEW w \in Workers, Drops(w) PROVE Closed' BY <1>5 DEF Drops, Drop, Answers
  <1>6. ASSUME NEW w \in Workers, Defers(w) PROVE Closed' BY <1>6 DEF Defers, Drop, Defer
  <1>7. ASSUME NEW w \in Workers, Renews(w) PROVE Closed' BY <1>7 DEF Renews, Renewed
  <1>8. ASSUME NEW w \in Workers, ChecksHeld(w) PROVE Closed' BY <1>8 DEF ChecksHeld, Renewed
  <1>9. ASSUME NEW w \in Workers,
               \/ DeliverLooks(w) \/ ChargeLooks(w) \/ Charges(w) \/ OverQuota(w) \/ MailboxGone(w)
               \/ MarksCharge(w) \/ ChecksFiling(w) \/ Files(w) \/ ChecksOwner(w)
        PROVE Closed'
    BY <1>9 DEF DeliverLooks, ChargeLooks, MarkerFound, Charges, OverQuota, MailboxGone, MarksCharge,
        ChecksFiling, Renewed, Files, Duplicate, ChecksOwner
  <1>10. ASSUME NEW w \in Workers, SkipsEffect(w) \/ StartsEffect(w) \/ Sends(w) \/ MarksEffect(w) PROVE Closed'
    BY <1>10 DEF SkipsEffect, NextEffect, StartsEffect, EffectDone, Sends, MarksEffect
  <1>11. ASSUME NEW w \in Workers, Closes(w) PROVE Closed' BY <1>11 DEF Closes, Answers
  <1>12. ASSUME NEW w \in Workers, Refunds(w) \/ Unmarks(w) \/ RecordLost(w) PROVE Closed'
    BY <1>12 DEF Refunds, Unmarks, RecordLost, Fault
  <1>13. ASSUME NEW w \in Workers, Fails(w) PROVE Closed'
    BY <1>13 DEF Fails, StepThrows, Drop, Defer, Fault, Duplicate, InDelivery
  <1>14. ASSUME NEW w \in Workers, RefundLooks(w) PROVE Closed' BY <1>14 DEF RefundLooks
  <1>15. ASSUME NEW w \in Workers, RefundFails(w) PROVE Closed' BY <1>15 DEF RefundFails, Fault
  <1>16. ASSUME NEW w \in Workers, Records(w) PROVE Closed' BY <1>16 DEF Records, FailedEntry
  <1>17. ASSUME NEW w \in Workers, Crash(w) PROVE Closed' BY <1>17 DEF Crash
  <1>18. CASE ErasureMoves BY <1>18 DEF ErasureMoves, ErasureStep
  <1>19. CASE ErasurePurges BY <1>19 DEF ErasurePurges, ErasureStep
  <1>20. CASE ErasureEnds BY <1>20 DEF ErasureEnds, ErasureStep
  <1>21. CASE Tick BY <1>21 DEF Tick, Less
  <1>22. CASE UNCHANGED vars BY <1>22 DEF vars
  <1> QED BY <1>1, <1>2, <1>3, <1>4, <1>5, <1>6, <1>7, <1>8, <1>9, <1>10, <1>11, <1>12, <1>13, <1>14, <1>15,
      <1>16, <1>17, <1>18, <1>19, <1>20, <1>21, <1>22 DEF Next, Work

\* The MTA is answered in the step that closes the entry, or by a request that finds it closed.
LEMMA NextMta ==
    ASSUME TypeOK, Closed, MtaKeeps, [Next]_vars PROVE MtaKeeps'
  <1> USE DEF TypeOK, Closed, Working, MtaKeeps, Goto, Idle, Writes, rows, locals, bounds, world
  <1>1. ASSUME NEW w \in Workers, Finds(w) \/ InlineReads(w) \/ InlineAnswers(w) \/ ClaimLost(w) PROVE MtaKeeps'
    BY <1>1 DEF Finds, Due, InlineReads, InlineAnswers, ClaimLost
  <1>2. ASSUME NEW w \in Workers, Claims(w) PROVE MtaKeeps' BY <1>2 DEF Claims, Claimed, Exhausted
  <1>3. ASSUME NEW w \in Workers, Parks(w) PROVE MtaKeeps' BY <1>3 DEF Parks, Exhausted
  <1>4. ASSUME NEW w \in Workers, Proceeds(w) \/ Scans(w) \/ Acts(w) \/ Holds(w) PROVE MtaKeeps'
    BY <1>4 DEF Proceeds, Drop, Defer, Scans, Acts, Holds
  <1>5. ASSUME NEW w \in Workers, Drops(w) PROVE MtaKeeps' BY <1>5 DEF Drops, Drop, Answers
  <1>6. ASSUME NEW w \in Workers, Defers(w) PROVE MtaKeeps' BY <1>6 DEF Defers, Drop, Defer
  <1>7. ASSUME NEW w \in Workers, Renews(w) PROVE MtaKeeps' BY <1>7 DEF Renews, Renewed
  <1>8. ASSUME NEW w \in Workers, ChecksHeld(w) PROVE MtaKeeps' BY <1>8 DEF ChecksHeld, Renewed
  <1>9. ASSUME NEW w \in Workers,
               \/ DeliverLooks(w) \/ ChargeLooks(w) \/ Charges(w) \/ OverQuota(w) \/ MailboxGone(w)
               \/ MarksCharge(w) \/ ChecksFiling(w) \/ Files(w) \/ ChecksOwner(w)
        PROVE MtaKeeps'
    BY <1>9 DEF DeliverLooks, ChargeLooks, MarkerFound, Charges, OverQuota, MailboxGone, MarksCharge,
        ChecksFiling, Renewed, Files, Duplicate, ChecksOwner
  <1>10. ASSUME NEW w \in Workers, SkipsEffect(w) \/ StartsEffect(w) \/ Sends(w) \/ MarksEffect(w) PROVE MtaKeeps'
    BY <1>10 DEF SkipsEffect, NextEffect, StartsEffect, EffectDone, Sends, MarksEffect
  <1>11. ASSUME NEW w \in Workers, Closes(w) PROVE MtaKeeps' BY <1>11 DEF Closes, Answers
  <1>12. ASSUME NEW w \in Workers, Refunds(w) \/ Unmarks(w) \/ RecordLost(w) PROVE MtaKeeps'
    BY <1>12 DEF Refunds, Unmarks, RecordLost, Fault
  <1>13. ASSUME NEW w \in Workers, Fails(w) PROVE MtaKeeps'
    BY <1>13 DEF Fails, StepThrows, Drop, Defer, Fault, Duplicate, InDelivery
  <1>14. ASSUME NEW w \in Workers, RefundLooks(w) PROVE MtaKeeps' BY <1>14 DEF RefundLooks
  <1>15. ASSUME NEW w \in Workers, RefundFails(w) PROVE MtaKeeps' BY <1>15 DEF RefundFails, Fault
  <1>16. ASSUME NEW w \in Workers, Records(w) PROVE MtaKeeps' BY <1>16 DEF Records, FailedEntry
  <1>17. ASSUME NEW w \in Workers, Crash(w) PROVE MtaKeeps' BY <1>17 DEF Crash
  <1>18. CASE ErasureMoves BY <1>18 DEF ErasureMoves, ErasureStep
  <1>19. CASE ErasurePurges BY <1>19 DEF ErasurePurges, ErasureStep
  <1>20. CASE ErasureEnds BY <1>20 DEF ErasureEnds, ErasureStep
  <1>21. CASE Tick BY <1>21 DEF Tick, Less
  <1>22. CASE UNCHANGED vars BY <1>22 DEF vars
  <1> QED BY <1>1, <1>2, <1>3, <1>4, <1>5, <1>6, <1>7, <1>8, <1>9, <1>10, <1>11, <1>12, <1>13, <1>14, <1>15,
      <1>16, <1>17, <1>18, <1>19, <1>20, <1>21, <1>22 DEF Next, Work

\* No step leads past the filing without a row, a held copy or a verdict; only the purge takes them away.
LEMMA NextKept ==
    ASSUME TypeOK, Kept, [Next]_vars PROVE Kept'
  <1> USE DEF TypeOK, Kept, Untouched, filed, Working, Verdicts, Goto, Idle, Writes, rows, locals, bounds, world
  <1>1. ASSUME NEW w \in Workers, Finds(w) \/ InlineReads(w) \/ InlineAnswers(w) \/ ClaimLost(w) PROVE Kept'
    BY <1>1 DEF Finds, Due, InlineReads, InlineAnswers, ClaimLost
  <1>2. ASSUME NEW w \in Workers, Claims(w) PROVE Kept' BY <1>2 DEF Claims, Claimed, Exhausted
  <1>3. ASSUME NEW w \in Workers, Parks(w) PROVE Kept' BY <1>3 DEF Parks, Exhausted
  <1>4. ASSUME NEW w \in Workers, Proceeds(w) \/ Scans(w) \/ Acts(w) \/ Holds(w) PROVE Kept'
    BY <1>4 DEF Proceeds, Drop, Defer, Scans, Acts, Holds
  <1>5. ASSUME NEW w \in Workers, Drops(w) PROVE Kept' BY <1>5 DEF Drops, Drop, Answers
  <1>6. ASSUME NEW w \in Workers, Defers(w) PROVE Kept' BY <1>6 DEF Defers, Drop, Defer
  <1>7. ASSUME NEW w \in Workers, Renews(w) PROVE Kept' BY <1>7 DEF Renews, Renewed
  <1>8. ASSUME NEW w \in Workers, ChecksHeld(w) PROVE Kept' BY <1>8 DEF ChecksHeld, Renewed
  <1>9. ASSUME NEW w \in Workers,
               \/ DeliverLooks(w) \/ ChargeLooks(w) \/ Charges(w) \/ OverQuota(w) \/ MailboxGone(w)
               \/ MarksCharge(w) \/ ChecksFiling(w) \/ Files(w) \/ ChecksOwner(w)
        PROVE Kept'
    BY <1>9 DEF DeliverLooks, ChargeLooks, MarkerFound, Charges, OverQuota, MailboxGone, MarksCharge,
        ChecksFiling, Renewed, Files, Duplicate, ChecksOwner
  <1>10. ASSUME NEW w \in Workers, SkipsEffect(w) \/ StartsEffect(w) \/ Sends(w) \/ MarksEffect(w) PROVE Kept'
    BY <1>10 DEF SkipsEffect, NextEffect, StartsEffect, EffectDone, Sends, MarksEffect
  <1>11. ASSUME NEW w \in Workers, Closes(w) PROVE Kept' BY <1>11 DEF Closes, Answers
  <1>12. ASSUME NEW w \in Workers, Refunds(w) \/ Unmarks(w) \/ RecordLost(w) PROVE Kept'
    BY <1>12 DEF Refunds, Unmarks, RecordLost, Fault
  <1>13. ASSUME NEW w \in Workers, Fails(w) PROVE Kept'
    BY <1>13 DEF Fails, StepThrows, Drop, Defer, Fault, Duplicate, InDelivery
  <1>14. ASSUME NEW w \in Workers, RefundLooks(w) PROVE Kept' BY <1>14 DEF RefundLooks
  <1>15. ASSUME NEW w \in Workers, RefundFails(w) PROVE Kept' BY <1>15 DEF RefundFails, Fault
  <1>16. ASSUME NEW w \in Workers, Records(w) PROVE Kept' BY <1>16 DEF Records, FailedEntry
  <1>17. ASSUME NEW w \in Workers, Crash(w) PROVE Kept' BY <1>17 DEF Crash
  <1>18. CASE ErasureMoves BY <1>18 DEF ErasureMoves, ErasureStep
  <1>19. CASE ErasurePurges BY <1>19 DEF ErasurePurges, ErasureStep
  <1>20. CASE ErasureEnds BY <1>20 DEF ErasureEnds, ErasureStep
  <1>21. CASE Tick BY <1>21 DEF Tick, Less
  <1>22. CASE UNCHANGED vars BY <1>22 DEF vars
  <1> QED BY <1>1, <1>2, <1>3, <1>4, <1>5, <1>6, <1>7, <1>8, <1>9, <1>10, <1>11, <1>12, <1>13, <1>14, <1>15,
      <1>16, <1>17, <1>18, <1>19, <1>20, <1>21, <1>22 DEF Next, Work

\* A claim while another works is a takeover.
LEMMA NextSole ==
    ASSUME TypeOK, Sole, [Next]_vars PROVE Sole'
  <1> USE DEF TypeOK, Sole, Working, Goto, Idle, Writes, rows, locals, bounds, world
  <1>1. ASSUME NEW w \in Workers, Finds(w) \/ InlineReads(w) \/ InlineAnswers(w) \/ ClaimLost(w) PROVE Sole'
    BY <1>1 DEF Finds, Due, InlineReads, InlineAnswers, ClaimLost
  <1>2. ASSUME NEW w \in Workers, Claims(w) PROVE Sole' BY <1>2 DEF Claims, Claimed, Exhausted
  <1>3. ASSUME NEW w \in Workers, Parks(w) PROVE Sole' BY <1>3 DEF Parks, Exhausted
  <1>4. ASSUME NEW w \in Workers, Proceeds(w) \/ Scans(w) \/ Acts(w) \/ Holds(w) PROVE Sole'
    BY <1>4 DEF Proceeds, Drop, Defer, Scans, Acts, Holds
  <1>5. ASSUME NEW w \in Workers, Drops(w) PROVE Sole' BY <1>5 DEF Drops, Drop, Answers
  <1>6. ASSUME NEW w \in Workers, Defers(w) PROVE Sole' BY <1>6 DEF Defers, Drop, Defer
  <1>7. ASSUME NEW w \in Workers, Renews(w) PROVE Sole' BY <1>7 DEF Renews, Renewed
  <1>8. ASSUME NEW w \in Workers, ChecksHeld(w) PROVE Sole' BY <1>8 DEF ChecksHeld, Renewed
  <1>9. ASSUME NEW w \in Workers,
               \/ DeliverLooks(w) \/ ChargeLooks(w) \/ Charges(w) \/ OverQuota(w) \/ MailboxGone(w)
               \/ MarksCharge(w) \/ ChecksFiling(w) \/ Files(w) \/ ChecksOwner(w)
        PROVE Sole'
    BY <1>9 DEF DeliverLooks, ChargeLooks, MarkerFound, Charges, OverQuota, MailboxGone, MarksCharge,
        ChecksFiling, Renewed, Files, Duplicate, ChecksOwner
  <1>10. ASSUME NEW w \in Workers, SkipsEffect(w) \/ StartsEffect(w) \/ Sends(w) \/ MarksEffect(w) PROVE Sole'
    BY <1>10 DEF SkipsEffect, NextEffect, StartsEffect, EffectDone, Sends, MarksEffect
  <1>11. ASSUME NEW w \in Workers, Closes(w) PROVE Sole' BY <1>11 DEF Closes, Answers
  <1>12. ASSUME NEW w \in Workers, Refunds(w) \/ Unmarks(w) \/ RecordLost(w) PROVE Sole'
    BY <1>12 DEF Refunds, Unmarks, RecordLost, Fault
  <1>13. ASSUME NEW w \in Workers, Fails(w) PROVE Sole'
    BY <1>13 DEF Fails, StepThrows, Drop, Defer, Fault, Duplicate, InDelivery
  <1>14. ASSUME NEW w \in Workers, RefundLooks(w) PROVE Sole' BY <1>14 DEF RefundLooks
  <1>15. ASSUME NEW w \in Workers, RefundFails(w) PROVE Sole' BY <1>15 DEF RefundFails, Fault
  <1>16. ASSUME NEW w \in Workers, Records(w) PROVE Sole' BY <1>16 DEF Records, FailedEntry
  <1>17. ASSUME NEW w \in Workers, Crash(w) PROVE Sole' BY <1>17 DEF Crash
  <1>18. CASE ErasureMoves BY <1>18 DEF ErasureMoves, ErasureStep
  <1>19. CASE ErasurePurges BY <1>19 DEF ErasurePurges, ErasureStep
  <1>20. CASE ErasureEnds BY <1>20 DEF ErasureEnds, ErasureStep
  <1>21. CASE Tick BY <1>21 DEF Tick, Less
  <1>22. CASE UNCHANGED vars BY <1>22 DEF vars
  <1> QED BY <1>1, <1>2, <1>3, <1>4, <1>5, <1>6, <1>7, <1>8, <1>9, <1>10, <1>11, <1>12, <1>13, <1>14, <1>15,
      <1>16, <1>17, <1>18, <1>19, <1>20, <1>21, <1>22 DEF Next, Work

\* The worker that closes an entry was the only one at work.
LEMMA NextQuiet ==
    ASSUME TypeOK, Closed, Sole, Quiet, [Next]_vars PROVE Quiet'
  <1> USE DEF TypeOK, Closed, Sole, Quiet, Working, Goto, Idle, Writes, rows, locals, bounds, world
  <1>1. ASSUME NEW w \in Workers, Finds(w) \/ InlineReads(w) \/ InlineAnswers(w) \/ ClaimLost(w) PROVE Quiet'
    BY <1>1 DEF Finds, Due, InlineReads, InlineAnswers, ClaimLost
  <1>2. ASSUME NEW w \in Workers, Claims(w) PROVE Quiet' BY <1>2 DEF Claims, Claimed, Exhausted
  <1>3. ASSUME NEW w \in Workers, Parks(w) PROVE Quiet' BY <1>3 DEF Parks, Exhausted
  <1>4. ASSUME NEW w \in Workers, Proceeds(w) \/ Scans(w) \/ Acts(w) \/ Holds(w) PROVE Quiet'
    BY <1>4 DEF Proceeds, Drop, Defer, Scans, Acts, Holds
  <1>5. ASSUME NEW w \in Workers, Drops(w) PROVE Quiet' BY <1>5 DEF Drops, Drop, Answers
  <1>6. ASSUME NEW w \in Workers, Defers(w) PROVE Quiet' BY <1>6 DEF Defers, Drop, Defer
  <1>7. ASSUME NEW w \in Workers, Renews(w) PROVE Quiet' BY <1>7 DEF Renews, Renewed
  <1>8. ASSUME NEW w \in Workers, ChecksHeld(w) PROVE Quiet' BY <1>8 DEF ChecksHeld, Renewed
  <1>9. ASSUME NEW w \in Workers,
               \/ DeliverLooks(w) \/ ChargeLooks(w) \/ Charges(w) \/ OverQuota(w) \/ MailboxGone(w)
               \/ MarksCharge(w) \/ ChecksFiling(w) \/ Files(w) \/ ChecksOwner(w)
        PROVE Quiet'
    BY <1>9 DEF DeliverLooks, ChargeLooks, MarkerFound, Charges, OverQuota, MailboxGone, MarksCharge,
        ChecksFiling, Renewed, Files, Duplicate, ChecksOwner
  <1>10. ASSUME NEW w \in Workers, SkipsEffect(w) \/ StartsEffect(w) \/ Sends(w) \/ MarksEffect(w) PROVE Quiet'
    BY <1>10 DEF SkipsEffect, NextEffect, StartsEffect, EffectDone, Sends, MarksEffect
  <1>11. ASSUME NEW w \in Workers, Closes(w) PROVE Quiet' BY <1>11 DEF Closes, Answers
  <1>12. ASSUME NEW w \in Workers, Refunds(w) \/ Unmarks(w) \/ RecordLost(w) PROVE Quiet'
    BY <1>12 DEF Refunds, Unmarks, RecordLost, Fault
  <1>13. ASSUME NEW w \in Workers, Fails(w) PROVE Quiet'
    BY <1>13 DEF Fails, StepThrows, Drop, Defer, Fault, Duplicate, InDelivery
  <1>14. ASSUME NEW w \in Workers, RefundLooks(w) PROVE Quiet' BY <1>14 DEF RefundLooks
  <1>15. ASSUME NEW w \in Workers, RefundFails(w) PROVE Quiet' BY <1>15 DEF RefundFails, Fault
  <1>16. ASSUME NEW w \in Workers, Records(w) PROVE Quiet' BY <1>16 DEF Records, FailedEntry
  <1>17. ASSUME NEW w \in Workers, Crash(w) PROVE Quiet' BY <1>17 DEF Crash
  <1>18. CASE ErasureMoves BY <1>18 DEF ErasureMoves, ErasureStep
  <1>19. CASE ErasurePurges BY <1>19 DEF ErasurePurges, ErasureStep
  <1>20. CASE ErasureEnds BY <1>20 DEF ErasureEnds, ErasureStep
  <1>21. CASE Tick BY <1>21 DEF Tick, Less
  <1>22. CASE UNCHANGED vars BY <1>22 DEF vars
  <1> QED BY <1>1, <1>2, <1>3, <1>4, <1>5, <1>6, <1>7, <1>8, <1>9, <1>10, <1>11, <1>12, <1>13, <1>14, <1>15,
      <1>16, <1>17, <1>18, <1>19, <1>20, <1>21, <1>22 DEF Next, Work

\* An effect starts only without its marker, and its worker writes the marker next.
LEMMA NextSent ==
    ASSUME TypeOK, Closed, Sole, Quiet, Sent, [Next]_vars PROVE Sent'
  <1> USE DEF TypeOK, Closed, Sole, Quiet, Sent, Over, Working, Effects, Goto, Idle, Writes, rows, locals,
      bounds, world
  <1>1. ASSUME NEW w \in Workers, Finds(w) \/ InlineReads(w) \/ InlineAnswers(w) \/ ClaimLost(w) PROVE Sent'
    BY <1>1 DEF Finds, Due, InlineReads, InlineAnswers, ClaimLost
  <1>2. ASSUME NEW w \in Workers, Claims(w) PROVE Sent' BY <1>2 DEF Claims, Claimed, Exhausted
  <1>3. ASSUME NEW w \in Workers, Parks(w) PROVE Sent' BY <1>3 DEF Parks, Exhausted
  <1>4. ASSUME NEW w \in Workers, Proceeds(w) \/ Scans(w) \/ Acts(w) \/ Holds(w) PROVE Sent'
    BY <1>4 DEF Proceeds, Drop, Defer, Scans, Acts, Holds
  <1>5. ASSUME NEW w \in Workers, Drops(w) PROVE Sent' BY <1>5 DEF Drops, Drop, Answers
  <1>6. ASSUME NEW w \in Workers, Defers(w) PROVE Sent' BY <1>6 DEF Defers, Drop, Defer
  <1>7. ASSUME NEW w \in Workers, Renews(w) PROVE Sent' BY <1>7 DEF Renews, Renewed
  <1>8. ASSUME NEW w \in Workers, ChecksHeld(w) PROVE Sent' BY <1>8 DEF ChecksHeld, Renewed
  <1>9. ASSUME NEW w \in Workers,
               \/ DeliverLooks(w) \/ ChargeLooks(w) \/ Charges(w) \/ OverQuota(w) \/ MailboxGone(w)
               \/ MarksCharge(w) \/ ChecksFiling(w) \/ Files(w) \/ ChecksOwner(w)
        PROVE Sent'
    BY <1>9 DEF DeliverLooks, ChargeLooks, MarkerFound, Charges, OverQuota, MailboxGone, MarksCharge,
        ChecksFiling, Renewed, Files, Duplicate, ChecksOwner
  <1>10. ASSUME NEW w \in Workers, SkipsEffect(w) \/ StartsEffect(w) \/ Sends(w) \/ MarksEffect(w) PROVE Sent'
    BY <1>10 DEF SkipsEffect, NextEffect, StartsEffect, EffectDone, Sends, MarksEffect
  <1>11. ASSUME NEW w \in Workers, Closes(w) PROVE Sent' BY <1>11 DEF Closes, Answers
  <1>12. ASSUME NEW w \in Workers, Refunds(w) \/ Unmarks(w) \/ RecordLost(w) PROVE Sent'
    BY <1>12 DEF Refunds, Unmarks, RecordLost, Fault
  <1>13. ASSUME NEW w \in Workers, Fails(w) PROVE Sent'
    BY <1>13 DEF Fails, StepThrows, Drop, Defer, Fault, Duplicate, InDelivery
  <1>14. ASSUME NEW w \in Workers, RefundLooks(w) PROVE Sent' BY <1>14 DEF RefundLooks
  <1>15. ASSUME NEW w \in Workers, RefundFails(w) PROVE Sent' BY <1>15 DEF RefundFails, Fault
  <1>16. ASSUME NEW w \in Workers, Records(w) PROVE Sent' BY <1>16 DEF Records, FailedEntry
  <1>17. ASSUME NEW w \in Workers, Crash(w) PROVE Sent' BY <1>17 DEF Crash
  <1>18. CASE ErasureMoves BY <1>18 DEF ErasureMoves, ErasureStep
  <1>19. CASE ErasurePurges BY <1>19 DEF ErasurePurges, ErasureStep
  <1>20. CASE ErasureEnds BY <1>20 DEF ErasureEnds, ErasureStep
  <1>21. CASE Tick BY <1>21 DEF Tick, Less
  <1>22. CASE UNCHANGED vars BY <1>22 DEF vars
  <1> QED BY <1>1, <1>2, <1>3, <1>4, <1>5, <1>6, <1>7, <1>8, <1>9, <1>10, <1>11, <1>12, <1>13, <1>14, <1>15,
      <1>16, <1>17, <1>18, <1>19, <1>20, <1>21, <1>22 DEF Next, Work

\* A charge is made without a marker only, and handed back with it, unfiled only.
LEMMA NextCharged ==
    ASSUME TypeOK, Closed, Sole, Quiet, Charged, [Next]_vars PROVE Charged'
  <1> USE DEF TypeOK, Closed, Sole, Quiet, Charged, Over, Working, filed, Effects, Goto, Idle, Writes, rows,
      locals, bounds, world
  <1>1. ASSUME NEW w \in Workers, Finds(w) \/ InlineReads(w) \/ InlineAnswers(w) \/ ClaimLost(w) PROVE Charged'
    BY <1>1 DEF Finds, Due, InlineReads, InlineAnswers, ClaimLost
  <1>2. ASSUME NEW w \in Workers, Claims(w) PROVE Charged' BY <1>2 DEF Claims, Claimed, Exhausted
  <1>3. ASSUME NEW w \in Workers, Parks(w) PROVE Charged' BY <1>3 DEF Parks, Exhausted
  <1>4. ASSUME NEW w \in Workers, Proceeds(w) \/ Scans(w) \/ Acts(w) \/ Holds(w) PROVE Charged'
    BY <1>4 DEF Proceeds, Drop, Defer, Scans, Acts, Holds
  <1>5. ASSUME NEW w \in Workers, Drops(w) PROVE Charged' BY <1>5 DEF Drops, Drop, Answers
  <1>6. ASSUME NEW w \in Workers, Defers(w) PROVE Charged' BY <1>6 DEF Defers, Drop, Defer
  <1>7. ASSUME NEW w \in Workers, Renews(w) PROVE Charged' BY <1>7 DEF Renews, Renewed
  <1>8. ASSUME NEW w \in Workers, ChecksHeld(w) PROVE Charged' BY <1>8 DEF ChecksHeld, Renewed
  <1>9. ASSUME NEW w \in Workers,
               \/ DeliverLooks(w) \/ ChargeLooks(w) \/ Charges(w) \/ OverQuota(w) \/ MailboxGone(w)
               \/ MarksCharge(w) \/ ChecksFiling(w) \/ Files(w) \/ ChecksOwner(w)
        PROVE Charged'
    BY <1>9 DEF DeliverLooks, ChargeLooks, MarkerFound, Charges, OverQuota, MailboxGone, MarksCharge,
        ChecksFiling, Renewed, Files, Duplicate, ChecksOwner
  <1>10. ASSUME NEW w \in Workers, SkipsEffect(w) \/ StartsEffect(w) \/ Sends(w) \/ MarksEffect(w) PROVE Charged'
    BY <1>10 DEF SkipsEffect, NextEffect, StartsEffect, EffectDone, Sends, MarksEffect
  <1>11. ASSUME NEW w \in Workers, Closes(w) PROVE Charged' BY <1>11 DEF Closes, Answers
  <1>12. ASSUME NEW w \in Workers, Refunds(w) \/ Unmarks(w) \/ RecordLost(w) PROVE Charged'
    BY <1>12 DEF Refunds, Unmarks, RecordLost, Fault
  <1>13. ASSUME NEW w \in Workers, Fails(w) PROVE Charged'
    BY <1>13 DEF Fails, StepThrows, Drop, Defer, Fault, Duplicate, InDelivery
  <1>14. ASSUME NEW w \in Workers, RefundLooks(w) PROVE Charged' BY <1>14 DEF RefundLooks
  <1>15. ASSUME NEW w \in Workers, RefundFails(w) PROVE Charged' BY <1>15 DEF RefundFails, Fault
  <1>16. ASSUME NEW w \in Workers, Records(w) PROVE Charged' BY <1>16 DEF Records, FailedEntry
  <1>17. ASSUME NEW w \in Workers, Crash(w) PROVE Charged' BY <1>17 DEF Crash
  <1>18. CASE ErasureMoves BY <1>18 DEF ErasureMoves, ErasureStep
  <1>19. CASE ErasurePurges BY <1>19 DEF ErasurePurges, ErasureStep
  <1>20. CASE ErasureEnds BY <1>20 DEF ErasureEnds, ErasureStep
  <1>21. CASE Tick BY <1>21 DEF Tick, Less
  <1>22. CASE UNCHANGED vars BY <1>22 DEF vars
  <1> QED BY <1>1, <1>2, <1>3, <1>4, <1>5, <1>6, <1>7, <1>8, <1>9, <1>10, <1>11, <1>12, <1>13, <1>14, <1>15,
      <1>16, <1>17, <1>18, <1>19, <1>20, <1>21, <1>22 DEF Next, Work

\* A new entry has none of it behind it.
LEMMA Starts == Init => TypeOK /\ OneCopy /\ Closed /\ MtaKeeps /\ Kept /\ Sole /\ Quiet /\ Sent /\ Charged
  <1> SUFFICES ASSUME Init PROVE TypeOK /\ OneCopy /\ Closed /\ MtaKeeps /\ Kept /\ Sole /\ Quiet /\ Sent /\ Charged OBVIOUS
  <1>1. TypeOK
    <2>1. PICK k \in BOOLEAN : entry = [status |-> "PENDING", attempts |-> 0, lease |-> 0, next |-> 0,
        parked |-> FALSE, sealed |-> k]
      BY IngestQueueAssumption DEF Init
    <2>2. mta \in BOOLEAN BY <2>1, Zenon DEF Init
    <2>3. EntryOK BY <2>1, IngestQueueAssumption DEF EntryOK
    <2>4. LocalOK BY IngestQueueAssumption DEF Init, LocalOK, Working, Verdicts, Effects
    <2>5. RowsOK BY DEF Init, RowsOK, Effects
    <2>6. age = 0 /\ erasure = "none" /\ ~overran /\ ~slipped /\ faults = 0 /\ crashes = 0 /\ steps = 0 /\ tries = 0
      BY DEF Init
    <2>7. overran \in BOOLEAN /\ slipped \in BOOLEAN BY Zenon DEF Init
    <2>8. WorldOK BY <2>2, <2>6, <2>7, IngestQueueAssumption DEF WorldOK
    <2> QED BY <2>3, <2>4, <2>5, <2>8 DEF TypeOK, EntryOK, LocalOK, RowsOK, WorldOK
  <1>2. Closed /\ MtaKeeps /\ OneCopy BY DEF Init, Closed, MtaKeeps, OneCopy
  <1>3. Kept /\ Sole /\ Quiet BY DEF Init, Kept, Sole, Quiet, Working
  <1>4. Sent /\ Charged BY DEF Init, Sent, Charged, filed, Working, Effects
  <1> QED BY <1>1, <1>2, <1>3, <1>4

\* Nothing but the parts of the entry, the workers, the rows and the world has a type.
LEMMA NextTypes == ASSUME TypeOK, [Next]_vars PROVE TypeOK'
  BY EntryTypes, LocalTypes, RowTypes, WorldTypes DEF TypeOK, EntryOK, LocalOK, RowsOK, WorldOK

\* Copies are filed by a worker and purged by an erasure.
LEMMA CopyWrites ==
    ASSUME [Next]_vars
    PROVE  (\E w \in Workers : Files(w)) \/ ErasurePurges \/ UNCHANGED copies
  <1> USE DEF filed, rows
  <1>1. ASSUME NEW w \in Workers, Work(w) PROVE Files(w) \/ UNCHANGED copies
    BY <1>1 DEF Work, Finds, Claims, Parks, ClaimLost, Drops, Defers, Proceeds, Scans, Renews, Acts, Holds, ChecksHeld,
        DeliverLooks, ChargeLooks, Charges, OverQuota, MailboxGone, MarksCharge, ChecksFiling, ChecksOwner, SkipsEffect,
        StartsEffect, Sends, MarksEffect, Closes, Fails, RefundLooks, Refunds, Unmarks, RefundFails, Records,
        RecordLost, InlineReads, InlineAnswers
  <1>2. ASSUME NEW w \in Workers, Crash(w) PROVE UNCHANGED copies BY <1>2 DEF Crash
  <1>3. CASE ErasureMoves \/ ErasureEnds BY <1>3 DEF ErasureMoves, ErasureEnds
  <1>4. CASE Tick BY <1>4 DEF Tick
  <1>5. CASE UNCHANGED vars BY <1>5 DEF vars
  <1> QED BY <1>1, <1>2, <1>3, <1>4, <1>5 DEF Next

\* A second create() fails.
LEMMA NextCopy == ASSUME TypeOK, OneCopy, [Next]_vars PROVE OneCopy'
  <1>1. ASSUME NEW w \in Workers, Files(w) PROVE OneCopy' BY <1>1 DEF Files, Duplicate, OneCopy, TypeOK, filed, rows
  <1>2. CASE ErasurePurges BY <1>2 DEF ErasurePurges, OneCopy
  <1>3. CASE UNCHANGED copies BY <1>3 DEF OneCopy
  <1> QED BY <1>1, <1>2, <1>3, CopyWrites

\* All of it together is inductive.
QueueInv == TypeOK /\ OneCopy /\ Closed /\ MtaKeeps /\ Kept /\ Sole /\ Quiet /\ Sent /\ Charged

\* The inductive invariant holds in every reachable state of the queue's entry.
LEMMA Holding == Spec => []QueueInv
  <1>1. Init => QueueInv BY Starts DEF QueueInv
  <1>2. QueueInv /\ [Next]_vars => QueueInv'
    BY NextTypes, NextCopy, NextClosed, NextMta, NextKept, NextSole, NextQuiet, NextSent, NextCharged DEF QueueInv
  <1> QED BY <1>1, <1>2, PTL DEF Spec

\* One row, one charge and each side effect once, for one entry of ScanQueueJob's queue.
THEOREM Once == Spec => []DeliveredOnce
  <1>1. QueueInv => DeliveredOnce
    <2> SUFFICES ASSUME QueueInv PROVE EffectsOnce /\ ChargedOnce BY DEF QueueInv, DeliveredOnce
    <2>1. EffectsOnce BY DEF QueueInv, EffectsOnce, Sent
    <2>2. ChargedOnce BY DEF QueueInv, ChargedOnce, Charged
    <2> QED BY <2>1, <2>2
  <1> QED BY <1>1, Holding, PTL

\* The steps that write the entry: a worker's claim, checkpoints and verdicts, the erasure's end, the clock.
LEMMA EntryWriters ==
    ASSUME Next
    PROVE  \/ \E w \in Workers : \/ Claims(w) \/ Parks(w) \/ Drops(w) \/ Defers(w) \/ Renews(w)
                                 \/ ChecksHeld(w) \/ ChecksFiling(w) \/ ChecksOwner(w) \/ Closes(w) \/ Records(w)
           \/ ErasureEnds \/ Tick
           \/ UNCHANGED entry
  <1>1. ASSUME NEW w \in Workers,
               \/ Finds(w) \/ ClaimLost(w) \/ Proceeds(w) \/ Scans(w) \/ Acts(w) \/ Holds(w) \/ DeliverLooks(w)
               \/ ChargeLooks(w) \/ Charges(w) \/ OverQuota(w) \/ MailboxGone(w) \/ MarksCharge(w)
        PROVE  UNCHANGED entry
    BY <1>1 DEF Finds, ClaimLost, Proceeds, Scans, Acts, Holds, DeliverLooks, ChargeLooks, Charges, OverQuota,
        MailboxGone, MarksCharge, rows, world, locals
  <1>2. ASSUME NEW w \in Workers,
               \/ Files(w) \/ SkipsEffect(w) \/ StartsEffect(w) \/ Sends(w) \/ MarksEffect(w) \/ Fails(w)
               \/ RefundLooks(w) \/ Refunds(w) \/ Unmarks(w) \/ RefundFails(w) \/ RecordLost(w)
               \/ InlineReads(w) \/ InlineAnswers(w) \/ Crash(w)
        PROVE  UNCHANGED entry
    BY <1>2 DEF Files, SkipsEffect, StartsEffect, Sends, MarksEffect, Fails, RefundLooks, Refunds, Unmarks,
        RefundFails, RecordLost, InlineReads, InlineAnswers, Crash, rows, world, locals
  <1>3. CASE ErasureMoves \/ ErasurePurges BY <1>3 DEF ErasureMoves, ErasurePurges
  <1> QED BY <1>1, <1>2, <1>3 DEF Next, Work

\* A worker that was taken over never reopens or fails a closed entry.
THEOREM StaysClosed == Spec => ClosedStays
  <1>1. QueueInv /\ [Next]_vars => [entry.status = "DELIVERED" => entry'.status \in {"DELIVERED", "PURGED"}]_vars
    <2> SUFFICES ASSUME QueueInv, Next, entry.status = "DELIVERED" PROVE entry'.status \in {"DELIVERED",
        "PURGED"} OBVIOUS
    <2> USE DEF QueueInv, TypeOK, Closed, Working, Writes, Goto
    <2>1. ASSUME NEW w \in Workers,
                 \/ Claims(w) \/ Parks(w) \/ Drops(w) \/ Defers(w) \/ Renews(w) \/ ChecksHeld(w) \/ ChecksFiling(w)
                 \/ ChecksOwner(w) \/ Closes(w) \/ Records(w)
          PROVE  UNCHANGED entry
      BY <2>1 DEF Claims, Parks, Drops, Defers, Renews, ChecksHeld, ChecksFiling, ChecksOwner, Closes, Records,
          Renewed
    <2>2. CASE ErasureEnds \/ Tick BY <2>2 DEF ErasureEnds, Tick
    <2>3. CASE UNCHANGED entry BY <2>3
    <2> QED BY <2>1, <2>2, <2>3, EntryWriters
  <1> QED BY <1>1, Holding, PTL DEF Spec, ClosedStays

\* The MTA keeps a zero-access message until its entry is closed; an entry is closed only with the message filed,
\* held, or decided by its worker, unless the erasure of the mailbox runs.
THEOREM NotLost == Spec => NothingLost
  <1> DEFINE Answer == \/ filed \/ quarantined
                       \/ \E w \in Workers : pc[w] = "close" /\ pc'[w] = "idle" /\ verdict[w] \in {"control",
                           "discard"}
             Step == entry.status # "DELIVERED" /\ entry'.status = "DELIVERED" /\ erasure \in {"none",
                 "waiting"} => Answer
  <1>1. QueueInv /\ [Next]_vars => [Step]_vars
    <2> SUFFICES ASSUME QueueInv, Next, entry.status # "DELIVERED", entry'.status = "DELIVERED",
        erasure \in {"none", "waiting"}
                 PROVE  Answer
      OBVIOUS
    <2> USE DEF QueueInv, TypeOK, Kept, Untouched, Goto, Idle, Writes
    <2>1. ASSUME NEW w \in Workers, Closes(w) PROVE Answer BY <2>1 DEF Closes
    <2>2. ASSUME NEW w \in Workers, Drops(w) PROVE FALSE BY <2>2 DEF Drops, Drop
    <2>3. ASSUME NEW w \in Workers,
                 \/ Claims(w) \/ Parks(w) \/ Defers(w) \/ Renews(w) \/ ChecksHeld(w) \/ ChecksFiling(w)
                 \/ ChecksOwner(w) \/ Records(w)
          PROVE  FALSE
      <3>1. CASE Claims(w) BY <3>1 DEF Claims, Claimed
      <3>2. CASE Parks(w) BY <3>2 DEF Parks
      <3>3. CASE Defers(w) BY <3>3 DEF Defers
      <3>4. CASE Records(w) BY <3>4 DEF Records, FailedEntry
      <3>5. CASE Renews(w) \/ ChecksHeld(w) \/ ChecksFiling(w) \/ ChecksOwner(w)
        <4>1. entry' = entry \/ entry' = [entry EXCEPT !.lease = Lease]
          BY <3>5 DEF Renews, ChecksHeld, ChecksFiling, ChecksOwner, Renewed
        <4> QED BY <4>1
      <3> QED BY <2>3, <3>1, <3>2, <3>3, <3>4, <3>5
    <2>4. CASE ErasureEnds \/ Tick BY <2>4 DEF ErasureEnds, Tick
    <2>5. CASE UNCHANGED entry BY <2>5
    <2> QED BY <2>1, <2>2, <2>3, <2>4, <2>5, EntryWriters
  <1>2. QueueInv => MtaKeeps BY DEF QueueInv
  <1> QED BY <1>1, <1>2, Holding, PTL DEF Spec, NothingLost, Accounted
================================================================================
