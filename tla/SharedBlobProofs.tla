--------------------------- MODULE SharedBlobProofs ---------------------------
(****************************************************************************)
(* No purge takes shared content from under another row, for any number of  *)
(* recipients, purging processes, purges and failures.                      *)
(*                                                                          *)
(* A check reads one source after another, in the direction in which rows   *)
(* move.  What it found in a source it has passed is still true: the        *)
(* transaction is staged, so no entry appears; an entry that is not the     *)
(* purged one is closed, so nothing is filed for it; and the entry that is  *)
(* purged is closed, parked or erased, so nothing is filed for it either.   *)
(****************************************************************************)
EXTENDS SharedBlob, TLAPS

\* The sources p's check has found no other reference in.
Passed(p, k) ==
    \/ at[p] = "delete"
    \/ at[p] = "check" /\ k = "ingest" /\ pos[p] > 1
    \/ at[p] = "check" /\ k = "quarantine" /\ pos[p] > 2

\* A check starts at the first source.
StartsOver == \A p \in Purgers :
    /\ at[p] = "idle" => pos[p] = 1 /\ p \notin first
    /\ at[p] = "row" /\ p \notin first => pos[p] = 1

\* An entry whose content has been condemned, or is about to be, is never filed.
Unfilable(m) == request = "done" /\ m \notin open \ (parked \cup erased)

EntryOver == \A p \in Purgers : p \in first /\ kind[p] = "ingest" => Unfilable(box[p])
CondemnedOver == \A m \in condemned["ingest"] : Unfilable(m)

\* A check that began after the staging ends after it.
Staged == \A p \in Purgers \ early, k \in Kinds : Passed(p, k) => request = "done"

\* What a check has found stays so.
Lasting == \A p \in Purgers \ early, k \in Kinds : Passed(p, k) => Referring(k) \subseteq Excluded(p, k)

\* The request that stages entries has stored the blob.
StoredFirst == ~raced /\ request = "put" => blob

Inv == StartsOver /\ EntryOver /\ CondemnedOver /\ Staged /\ Lasting /\ StoredFirst /\ KeepsOthers

-------------------------------------------------------------------------------

\* The sources of messageBlobReferenceSources(), in order.
LEMMA OrderIs == Order \in Seq(Kinds) /\ Len(Order) = 3
    /\ Order[1] = "ingest" /\ Order[2] = "quarantine" /\ Order[3] = "message"
  BY DEF Order, Kinds

\* The parts of the type invariant.
TypeFlags == blob \in BOOLEAN /\ raced \in BOOLEAN /\ untidy \in BOOLEAN
TypeRows ==
    /\ rows \in [Kinds -> SUBSET Mailboxes] /\ condemned \in [Kinds -> SUBSET Mailboxes]
    /\ open \subseteq rows["ingest"] /\ parked \subseteq open /\ trash \subseteq rows["message"]
    /\ erased \subseteq Mailboxes
TypeRequest == request \in {"new", "unput", "put", "failed", "done"}
TypePurger ==
    /\ at \in [Purgers -> {"idle", "row", "check", "delete"}] /\ pos \in [Purgers -> 1..3]
    /\ kind \in [Purgers -> Kinds] /\ box \in [Purgers -> Mailboxes \cup {None}]
    /\ \A p \in Purgers : at[p] # "idle" => box[p] \in Mailboxes
    /\ first \subseteq Purgers /\ early \subseteq Purgers
TypeBounds == purges \in 0..MaxPurges /\ faults \in 0..MaxFaults

\* The type invariant is the conjunction of its parts, in a state
LEMMA TypeParts == TypeOK <=> TypeFlags /\ TypeRows /\ TypeRequest /\ TypePurger /\ TypeBounds
  BY DEF TypeOK, TypeFlags, TypeRows, TypeRequest, TypePurger, TypeBounds

\* and in the state after a step.
LEMMA Joined == ASSUME TypeFlags', TypeRows', TypeRequest', TypePurger', TypeBounds' PROVE TypeOK'
  BY DEF TypeOK, TypeFlags, TypeRows, TypeRequest, TypePurger, TypeBounds

\* The type invariant holds initially.
LEMMA InitTypes == Init => TypeOK
  <1> SUFFICES ASSUME Init PROVE TypeOK OBVIOUS
  <1>1. TypeFlags BY DEF Init, TypeFlags
  <1>2. TypeRows BY DEF Init, TypeRows, Kinds
  <1>3. TypeRequest BY DEF Init, TypeRequest
  <1>4. TypePurger BY DEF Init, TypePurger, Kinds
  <1>5. TypeBounds BY SharedBlobAssumption DEF Init, TypeBounds
  <1> QED BY <1>1, <1>2, <1>3, <1>4, <1>5, TypeParts

\* The transaction's steps keep it.
LEMMA StagingTypes == ASSUME TypeOK, Staging PROVE TypeOK'
  <1> USE TypeParts DEF Staging, RequestStarts, Puts, RequestEnds, RequestFails, Stages, stored, purger, past
  <1>1. TypeFlags' BY DEF TypeFlags
  <1>2. TypeRows' BY DEF TypeRows, Kinds
  <1>3. TypeRequest' BY DEF TypeRequest
  <1>4. TypePurger' BY DEF TypePurger
  <1>5. TypeBounds' BY SharedBlobAssumption DEF TypeBounds, Fault
  <1> QED BY <1>1, <1>2, <1>3, <1>4, <1>5, Joined

\* So do the queue's and the users'.
LEMMA HandlingTypes == ASSUME TypeOK, NEW m \in Mailboxes, Handling(m) PROVE TypeOK'
  <1> USE TypeParts DEF Handling, Files, Closes, Parks, SoftDeletes, Restores, DropsHeld, ErasureClaims, purger, past
  <1>1. TypeFlags' BY DEF TypeFlags
  <1>2. TypeRows' BY DEF TypeRows, Kinds
  <1>3. TypeRequest' BY DEF TypeRequest
  <1>4. TypePurger' BY DEF TypePurger
  <1>5. TypeBounds' BY DEF TypeBounds
  <1> QED BY <1>1, <1>2, <1>3, <1>4, <1>5, Joined

\* And the purges'.
LEMMA PurgingTypes == ASSUME TypeOK, NEW p \in Purgers, Purging(p) PROVE TypeOK'
  <1> DEFINE Start == \E m \in Mailboxes : UserPurges(p, m) \/ \E k \in Kinds : JobPurges(p, k, m)
  <1> USE TypeParts DEF Purging, UserPurges, JobPurges, Begins, Keeps, Looks, DeletesBlob, DeletesRow, PurgeFails, stored, past
  <1>1. TypeFlags'
    BY DEF TypeFlags
  <1>2. TypeRows'
    <2>1. CASE DeletesBlob(p) BY <2>1 DEF TypeRows, TypePurger
    <2>2. CASE DeletesRow(p) BY <2>2 DEF TypeRows, Kinds
    <2> QED BY <2>1, <2>2 DEF TypeRows
  <1>3. TypeRequest' BY DEF TypeRequest
  <1>4. TypePurger'
    <2> USE DEF TypePurger
    <2>1. CASE Start
      <3>0. Kinds # {} BY DEF Kinds
      <3>1. PICK m \in Mailboxes, k \in Kinds : UserPurges(p, m) \/ JobPurges(p, k, m) BY <2>1, <3>0, Zenon
      <3>2. CASE UserPurges(p, m) BY <3>2 DEF Kinds
      <3>3. CASE JobPurges(p, k, m) BY <3>3
      <3> QED BY <3>1, <3>2, <3>3
    <2>2. CASE Looks(p) BY <2>2, OrderIs
    <2>3. (\E w \in {"row", "check"} : at[p] # "idle" /\ Moves(p, w)) => TypePurger' BY DEF Moves
    <2>4. Rests(p) => TypePurger' BY DEF Rests, Kinds
    <2>5. CASE Keeps(p) BY <2>3, <2>4, <2>5
    <2>6. CASE DeletesBlob(p) BY <2>3, <2>4, <2>6
    <2>7. CASE DeletesRow(p) BY <2>3, <2>4, <2>7
    <2>8. CASE PurgeFails(p) BY <2>4, <2>8
    <2> QED BY <2>1, <2>2, <2>5, <2>6, <2>7, <2>8
  <1>5. TypeBounds'
    <2>1. CASE Start
      <3>1. purges < MaxPurges /\ purges' = purges + 1 /\ faults' = faults BY <2>1
      <3> QED BY <3>1, SharedBlobAssumption DEF TypeBounds
    <2>2. CASE PurgeFails(p) BY <2>2, SharedBlobAssumption DEF TypeBounds, Fault
    <2> QED BY <2>1, <2>2 DEF TypeBounds
  <1> QED BY <1>1, <1>2, <1>3, <1>4, <1>5, Joined

\* Every reachable state is well typed: in particular only rows that exist are open, parked or
\* in the trash, whatever deletes them.
THEOREM TypeCorrect == Spec => []TypeOK
  <1>1. TypeOK /\ [Next]_vars => TypeOK'
    <2> SUFFICES ASSUME TypeOK, [Next]_vars PROVE TypeOK' OBVIOUS
    <2>1. CASE UNCHANGED vars
      BY <2>1 DEF TypeOK, vars, stored, purger, past
    <2> QED BY <2>1, StagingTypes, HandlingTypes, PurgingTypes DEF Next
  <1> QED BY <1>1, InitTypes, PTL DEF Spec

-------------------------------------------------------------------------------

\* Nothing is stored and nobody purges.
LEMMA InitSafe == Init => Inv
  <1> SUFFICES ASSUME Init PROVE Inv OBVIOUS
  <1>1. \A k \in Kinds : Referring(k) = {} BY DEF Init, Referring, Kinds
  <1>2. StartsOver /\ EntryOver /\ Staged /\ Lasting BY DEF Init, StartsOver, EntryOver, Staged, Lasting, Passed
  <1>3. CondemnedOver BY DEF Init, CondemnedOver, Kinds
  <1>4. StoredFirst BY DEF Init, StoredFirst
  <1>5. KeepsOthers BY <1>1 DEF KeepsOthers, Intact
  <1> QED BY <1>2, <1>3, <1>4, <1>5 DEF Inv

\* The transaction's steps: entries appear only while the request holds the stored blob, and
\* no purge that began after the staging is under way.
LEMMA StagingSafe == ASSUME TypeOK, Inv, Staging PROVE Inv'
  <1> USE DEF Inv, Staging, RequestStarts, Puts, RequestEnds, RequestFails, Stages, stored, purger, past
  <1>1. StartsOver' BY DEF StartsOver
  <1>2. (\A m \in Mailboxes : Unfilable(m) => Unfilable(m)') /\ (request = "done" => request' = "done")
    BY DEF Unfilable
  <1>3. EntryOver'
    BY <1>2 DEF EntryOver, TypeOK, Unfilable
  <1>4. CondemnedOver' BY <1>2 DEF CondemnedOver, Unfilable
  <1>5. Staged' BY <1>2 DEF Staged, Passed
  <1>6. Lasting'
    <2> SUFFICES ASSUME NEW p \in Purgers \ early, NEW k \in Kinds, Passed(p, k)
                 PROVE  Referring(k)' \subseteq Excluded(p, k)'
      BY DEF Lasting, Passed
    <2>1. request = "done" BY DEF Staged
    <2>2. Referring(k)' = Referring(k) /\ Excluded(p, k)' = Excluded(p, k)
      BY <2>1 DEF Referring, Excluded
    <2> QED BY <2>2 DEF Lasting
  <1>7. StoredFirst' BY DEF StoredFirst
  <1>8. KeepsOthers'
    <2>1. CASE \E m \in Mailboxes : Stages(m)
      BY <2>1 DEF KeepsOthers, Intact, StoredFirst
    <2>2. CASE Puts BY <2>2 DEF KeepsOthers, Intact
    <2>3. CASE RequestStarts \/ RequestEnds \/ RequestFails
      BY <2>3 DEF KeepsOthers, Intact, Referring
    <2> QED BY <2>1, <2>2, <2>3
  <1> QED BY <1>1, <1>3, <1>4, <1>5, <1>6, <1>7, <1>8

\* A step that files nothing and stages nothing only takes references away.
Shrinks ==
    /\ open' \subseteq open /\ open' \ (parked \cup erased)' \subseteq open \ (parked \cup erased)
    /\ \A k \in Kinds : rows'[k] \subseteq rows[k]
    /\ UNCHANGED request

\* No row starts to reference the blob in such a step,
LEMMA ShrinksReferring == ASSUME Shrinks, NEW k \in Kinds PROVE Referring(k)' \subseteq Referring(k)
  BY DEF Shrinks, Referring

\* and an entry that is over stays so.
LEMMA ShrinksUnfilable == ASSUME Shrinks, NEW m, Unfilable(m) PROVE Unfilable(m)'
  BY DEF Shrinks, Unfilable

\* Filing: the entry is open, so no check past the entries has missed it unless it purges it.
LEMMA FilesSafe ==
    ASSUME TypeOK, Inv, NEW m \in Mailboxes, NEW f \in {"message", "quarantine"}, Files(m, f)
    PROVE  Inv'
  <1> USE DEF Inv, Files, purger, past
  <1>1. StartsOver' BY DEF StartsOver
  <1>2. EntryOver' /\ CondemnedOver' BY DEF EntryOver, CondemnedOver, Unfilable
  <1>3. Staged' BY DEF Staged, Passed
  <1>4. Lasting'
    <2> SUFFICES ASSUME NEW p \in Purgers \ early, NEW k \in Kinds, Passed(p, k)
                 PROVE  Referring(k)' \subseteq Excluded(p, k)'
      BY DEF Lasting, Passed
    <2>1. CASE k # f
      <3>1. Referring(k)' = Referring(k) /\ Excluded(p, k)' = Excluded(p, k)
        BY <2>1 DEF Referring, Excluded, TypeOK, Kinds
      <3> QED BY <3>1 DEF Lasting
    <2>2. CASE k = f
      <3>1. Passed(p, "ingest") BY <2>2 DEF Passed, TypeOK
      <3>2. open \subseteq Excluded(p, "ingest") BY <3>1 DEF Lasting, Referring, Kinds
      <3>3. p \in first /\ kind[p] = "ingest" /\ box[p] = m BY <3>2 DEF Excluded
      <3>4. Unfilable(m) BY <3>3 DEF EntryOver
      <3> QED BY <3>4 DEF Unfilable
    <2> QED BY <2>1, <2>2
  <1>5. StoredFirst' BY DEF StoredFirst
  <1>6. KeepsOthers'
    <2>1. CASE blob BY <2>1 DEF KeepsOthers, Intact
    <2>2. CASE ~blob /\ ~raced
      <3>1. m \in condemned["ingest"] BY <2>2 DEF KeepsOthers, Intact, Referring, Kinds
      <3> QED BY <3>1 DEF CondemnedOver, Unfilable
    <2> QED BY <2>1, <2>2 DEF KeepsOthers
  <1> QED BY <1>1, <1>2, <1>3, <1>4, <1>5, <1>6

\* The queue's and the users' other steps.
LEMMA HandlingSafe == ASSUME TypeOK, Inv, NEW m \in Mailboxes, Handling(m) PROVE Inv'
  <1>1. CASE \E k \in {"message", "quarantine"} : Files(m, k) BY <1>1, FilesSafe
  <1>2. CASE Closes(m) \/ Parks(m) \/ SoftDeletes(m) \/ Restores(m) \/ DropsHeld(m) \/ ErasureClaims(m)
    <2>1. Shrinks
      BY <1>2 DEF Shrinks, Closes, Parks, SoftDeletes, Restores, DropsHeld, ErasureClaims, TypeOK, Kinds
    <2>2. UNCHANGED <<blob, purger, condemned, raced>>
      BY <1>2 DEF Closes, Parks, SoftDeletes, Restores, DropsHeld, ErasureClaims, purger, past
    <2> USE DEF Inv, purger
    <2>3. StartsOver' BY <2>2 DEF StartsOver
    <2>4. EntryOver' /\ CondemnedOver'
      BY <2>1, <2>2, ShrinksUnfilable DEF EntryOver, CondemnedOver
    <2>5. Staged' BY <2>1, <2>2 DEF Staged, Passed, Shrinks
    <2>6. Lasting' BY <2>1, <2>2, ShrinksReferring DEF Lasting, Passed, Excluded
    <2>7. StoredFirst' BY <2>1, <2>2 DEF StoredFirst, Shrinks
    <2>8. KeepsOthers'
      <3> SUFFICES ASSUME ~raced, ~blob PROVE \A k \in Kinds : Referring(k)' \subseteq condemned[k]
        BY <2>2 DEF KeepsOthers, Intact
      <3>1. \A k \in Kinds : Referring(k) \subseteq condemned[k] BY DEF KeepsOthers, Intact
      <3> QED BY <2>1, <3>1, ShrinksReferring
    <2> QED BY <2>3, <2>4, <2>5, <2>6, <2>7, <2>8
  <1> QED BY <1>1, <1>2 DEF Handling

\* A purger's own step leaves the others' checks as they are.
LEMMA OthersLast ==
    ASSUME TypeOK, Inv, Shrinks, NEW p \in Purgers, NEW q \in Purgers \ {p},
           at'[q] = at[q], pos'[q] = pos[q], kind'[q] = kind[q], box'[q] = box[q],
           q \in first' <=> q \in first, q \in early' <=> q \in early
    PROVE  /\ at'[q] = "idle" => pos'[q] = 1 /\ q \notin first'
           /\ at'[q] = "row" /\ q \notin first' => pos'[q] = 1
           /\ q \in first' /\ kind'[q] = "ingest" => Unfilable(box[q])'
           /\ q \notin early' => \A k \in Kinds : Passed(q, k)' =>
                request' = "done" /\ Referring(k)' \subseteq Excluded(q, k)'
  <1> USE DEF Inv
  <1>1. q \in first /\ kind[q] = "ingest" => Unfilable(box[q])' BY ShrinksUnfilable DEF EntryOver
  <1>2. ASSUME q \notin early, NEW k \in Kinds, Passed(q, k)'
        PROVE  request' = "done" /\ Referring(k)' \subseteq Excluded(q, k)'
    <2>1. Passed(q, k) BY <1>2 DEF Passed
    <2>2. request = "done" /\ Referring(k) \subseteq Excluded(q, k) BY <1>2, <2>1 DEF Staged, Lasting
    <2>3. Excluded(q, k)' = Excluded(q, k) BY DEF Excluded
    <2> QED BY <2>2, <2>3, ShrinksReferring DEF Shrinks
  <1> QED BY <1>1, <1>2 DEF StartsOver

\* A purger that stops, or turns to its row, is past no source.
Leaves(p) ==
    \/ Moves(p, "row") /\ p \in first
    \/ Moves(p, "check") /\ p \notin first /\ at[p] = "row"
    \/ Rests(p)

\* Such a purger breaks nothing of what holds of the sources still to be looked at.
LEMMA LeavesSafe ==
    ASSUME TypeOK, Inv, Shrinks, NEW p \in Purgers, Leaves(p)
    PROVE  StartsOver' /\ EntryOver' /\ Staged' /\ Lasting'
  <1> USE DEF Inv, Leaves, Moves, Rests
  <1>1. \A q \in Purgers \ {p} :
          /\ at'[q] = at[q] /\ pos'[q] = pos[q] /\ kind'[q] = kind[q] /\ box'[q] = box[q]
          /\ (q \in first' <=> q \in first) /\ (q \in early' <=> q \in early)
    BY DEF TypeOK
  <1>2. \A k \in Kinds : ~Passed(p, k)' BY DEF Passed, StartsOver, TypeOK
  <1>3. StartsOver' BY <1>1, OthersLast DEF StartsOver, TypeOK
  <1>4. EntryOver'
    <2>1. p \in first' /\ kind'[p] = "ingest" => Unfilable(box[p])'
      BY ShrinksUnfilable DEF EntryOver, TypeOK
    <2>2. \A q \in Purgers \ {p} : q \in first' /\ kind'[q] = "ingest" => Unfilable(box[q])'
      BY <1>1, OthersLast
    <2> QED BY <2>1, <2>2 DEF EntryOver
  <1>5. Staged' BY <1>1, <1>2, OthersLast DEF Staged
  <1>6. Lasting' BY <1>1, <1>2, OthersLast DEF Lasting
  <1> QED BY <1>3, <1>4, <1>5, <1>6

\* Steps that leave the blob and the history alone keep the rest.
LEMMA QuietSafe ==
    ASSUME TypeOK, Inv, Shrinks, UNCHANGED <<blob, condemned, raced>>
    PROVE  CondemnedOver' /\ StoredFirst' /\ KeepsOthers'
  <1> USE DEF Inv
  <1>1. CondemnedOver' BY ShrinksUnfilable DEF CondemnedOver
  <1>2. StoredFirst' BY DEF StoredFirst, Shrinks
  <1>3. KeepsOthers'
    <2> SUFFICES ASSUME ~raced, ~blob PROVE \A k \in Kinds : Referring(k)' \subseteq condemned[k]
      BY DEF KeepsOthers, Intact
    <2>1. \A k \in Kinds : Referring(k) \subseteq condemned[k] BY DEF KeepsOthers, Intact
    <2> QED BY <2>1, ShrinksReferring
  <1> QED BY <1>1, <1>2, <1>3

\* A purge begins: its check has passed nothing, and an entry it purges is over.
LEMMA BeginsSafe ==
    ASSUME TypeOK, Inv, NEW p \in Purgers, NEW m \in Mailboxes, NEW k \in Kinds,
           UserPurges(p, m) \/ JobPurges(p, k, m)
    PROVE  Inv'
  <1> USE DEF Inv, UserPurges, JobPurges, Begins, stored
  <1>1. Shrinks BY DEF Shrinks
  <1>2. CondemnedOver' /\ StoredFirst' /\ KeepsOthers' BY <1>1, QuietSafe
  <1>3. \A q \in Purgers \ {p} :
          /\ at'[q] = at[q] /\ pos'[q] = pos[q] /\ kind'[q] = kind[q] /\ box'[q] = box[q]
          /\ (q \in first' <=> q \in first) /\ (q \in early' <=> q \in early)
    BY DEF TypeOK
  <1>4. pos'[p] = 1 /\ at'[p] \in {"row", "check"} /\ (at'[p] = "row" => p \notin first')
    BY DEF StartsOver, TypeOK
  <1>5. \A j \in Kinds : ~Passed(p, j)' BY <1>4 DEF Passed
  <1>6. StartsOver' BY <1>1, <1>3, <1>4, OthersLast DEF StartsOver
  <1>7. EntryOver'
    <2>1. p \in first' /\ kind'[p] = "ingest" => Unfilable(box[p])'
      BY DEF StartsOver, TypeOK, Purgeable, Unfilable
    <2>2. \A q \in Purgers \ {p} : q \in first' /\ kind'[q] = "ingest" => Unfilable(box[q])'
      BY <1>1, <1>3, OthersLast
    <2> QED BY <2>1, <2>2 DEF EntryOver
  <1>8. Staged' BY <1>1, <1>3, <1>5, OthersLast DEF Staged
  <1>9. Lasting' BY <1>1, <1>3, <1>5, OthersLast DEF Lasting
  <1> QED BY <1>2, <1>6, <1>7, <1>8, <1>9

\* A source is passed: it has no reference but the excluded one.
LEMMA LooksSafe == ASSUME TypeOK, Inv, NEW p \in Purgers, Looks(p) PROVE Inv'
  <1> USE DEF Inv, Looks, stored, past
  <1>1. Shrinks BY DEF Shrinks
  <1>2. CondemnedOver' /\ StoredFirst' /\ KeepsOthers' BY <1>1, QuietSafe
  <1>3. \A q \in Purgers \ {p} :
          /\ at'[q] = at[q] /\ pos'[q] = pos[q] /\ kind'[q] = kind[q] /\ box'[q] = box[q]
          /\ (q \in first' <=> q \in first) /\ (q \in early' <=> q \in early)
    BY OrderIs DEF TypeOK
  <1>4. at'[p] \in {"check", "delete"} BY DEF TypeOK
  <1>5. StartsOver' BY <1>1, <1>3, <1>4, OthersLast DEF StartsOver
  <1>6. EntryOver' BY DEF EntryOver, Unfilable
  <1>7. ASSUME p \notin early', NEW k \in Kinds, Passed(p, k)'
        PROVE  request' = "done" /\ Referring(k)' \subseteq Excluded(p, k)'
    <2>1. request = "done" /\ p \notin early BY <1>7
    <2>2. Passed(p, k) \/ k = Order[pos[p]]
      BY <1>7, OrderIs DEF Passed, TypeOK, Kinds
    <2>3. Referring(Order[pos[p]]) \subseteq Excluded(p, Order[pos[p]]) BY DEF Sees
    <2>4. Referring(k) \subseteq Excluded(p, k) BY <2>1, <2>2, <2>3 DEF Lasting
    <2>5. Referring(k)' = Referring(k) /\ Excluded(p, k)' = Excluded(p, k) BY DEF Referring, Excluded
    <2> QED BY <2>1, <2>4, <2>5
  <1>8. Staged' BY <1>1, <1>3, <1>7, OthersLast DEF Staged
  <1>9. Lasting' BY <1>1, <1>3, <1>7, OthersLast DEF Lasting
  <1> QED BY <1>2, <1>5, <1>6, <1>8, <1>9

\* The blob goes: whatever still references it is the row that is purged, unless the check
\* began before the staging.
LEMMA DeletesBlobSafe == ASSUME TypeOK, Inv, NEW p \in Purgers, DeletesBlob(p) PROVE Inv'
  <1> USE DEF Inv, DeletesBlob, stored
  <1>1. Shrinks /\ Leaves(p)
    <2>1. Shrinks BY DEF Shrinks
    <2>2. Leaves(p) BY DEF Leaves
    <2> QED BY <2>1, <2>2
  <1>2. StartsOver' /\ EntryOver' /\ Staged' /\ Lasting' BY <1>1, LeavesSafe
  <1>3. CondemnedOver'
    <2>1. \A m \in condemned'["ingest"] : Unfilable(m) BY DEF CondemnedOver, EntryOver, TypeOK
    <2> QED BY <1>1, <2>1, ShrinksUnfilable DEF CondemnedOver
  <1>4. CASE p \in early BY <1>2, <1>3, <1>4 DEF StoredFirst, KeepsOthers
  <1>5. CASE p \notin early
    <2>1. \A k \in Kinds : Passed(p, k) BY DEF Passed
    <2>2. request = "done" BY <1>5, <2>1 DEF Staged, Kinds
    <2>3. StoredFirst' BY <2>2 DEF StoredFirst
    <2>4. ASSUME NEW k \in Kinds PROVE Referring(k)' \subseteq condemned'[k]
      <3>1. Referring(k) \subseteq Excluded(p, k) BY <1>5, <2>1 DEF Lasting
      <3>2. Excluded(p, k) \subseteq condemned'[k] BY DEF Excluded, TypeOK
      <3> QED BY <3>1, <3>2 DEF Referring
    <2> QED BY <1>2, <1>3, <2>3, <2>4 DEF KeepsOthers, Intact
  <1> QED BY <1>4, <1>5

\* Every purging step keeps the invariant.
LEMMA PurgingSafe == ASSUME TypeOK, Inv, NEW p \in Purgers, Purging(p) PROVE Inv'
  <1>1. CASE \E m \in Mailboxes : UserPurges(p, m) \/ \E k \in Kinds : JobPurges(p, k, m)
    BY <1>1, BeginsSafe DEF Kinds
  <1>2. CASE Looks(p) BY <1>2, LooksSafe
  <1>3. CASE DeletesBlob(p) BY <1>3, DeletesBlobSafe
  <1>4. CASE Keeps(p) \/ DeletesRow(p) \/ PurgeFails(p)
    <2>1. Shrinks
      <3>1. CASE Keeps(p) BY <3>1 DEF Shrinks, Keeps, stored
      <3>2. CASE PurgeFails(p) BY <3>2 DEF Shrinks, PurgeFails, stored
      <3>3. CASE DeletesRow(p)
        <4>1. open' \ (parked \cup erased)' \subseteq open \ (parked \cup erased) BY <3>3 DEF DeletesRow
        <4>2. \A k \in Kinds : rows'[k] \subseteq rows[k] BY <3>3 DEF DeletesRow, TypeOK
        <4> QED BY <3>3, <4>1, <4>2 DEF Shrinks, DeletesRow
      <3> QED BY <1>4, <3>1, <3>2, <3>3
    <2>2. Leaves(p)
      <3>1. CASE Keeps(p) BY <3>1 DEF Leaves, Keeps
      <3>2. CASE PurgeFails(p) BY <3>2 DEF Leaves, PurgeFails
      <3>3. CASE DeletesRow(p) BY <3>3 DEF Leaves, DeletesRow
      <3> QED BY <1>4, <3>1, <3>2, <3>3
    <2>3. UNCHANGED <<blob, condemned, raced>> BY <1>4 DEF Keeps, DeletesRow, PurgeFails, past
    <2> QED BY <2>1, <2>2, <2>3, LeavesSafe, QuietSafe DEF Inv
  <1> QED BY <1>1, <1>2, <1>3, <1>4 DEF Purging

\* The invariant holds in every reachable state.
LEMMA AlwaysSafe == Spec => []Inv
  <1>1. TypeOK /\ Inv /\ [Next]_vars => Inv'
    <2> SUFFICES ASSUME TypeOK, Inv, [Next]_vars PROVE Inv' OBVIOUS
    <2>1. CASE UNCHANGED vars
      BY <2>1 DEF Inv, StartsOver, EntryOver, CondemnedOver, Staged, Lasting, StoredFirst, KeepsOthers, Intact,
                  Unfilable, Passed, Referring, Excluded, vars, stored, purger, past
    <2> QED BY <2>1, StagingSafe, HandlingSafe, PurgingSafe DEF Next
  <1> QED BY <1>1, InitSafe, TypeCorrect, PTL DEF Spec

\* deleteBlobsIfUnreferenced() never takes the raw message from under another recipient's row,
\* for every number of recipients, purgers, purges and failures: once the transaction has been
\* staged before the check began, every row that references the blob has it, but for the row
\* whose own purge deleted it.
THEOREM OthersKept == Spec => []KeepsOthers
  <1>1. Inv => KeepsOthers BY DEF Inv
  <1> QED BY <1>1, AlwaysSafe, PTL

-------------------------------------------------------------------------------
(* No content outlives its rows.                                            *)

\* While no two purges met, one purger is at work at a time.
Alone == ~untidy => \A p, q \in Purgers : at[p] # "idle" /\ at[q] # "idle" => p = q

\* Stored content has a row, or a user's purge that has deleted the last one and goes on to the blob.
Covered ==
    ~untidy /\ request = "done" /\ blob =>
        \/ \E k \in Kinds : rows[k] # {}
        \/ \E p \in Purgers \ first : at[p] \in {"check", "delete"}

\* A job that kept the content has seen another row than the one it purges.
Spared ==
    ~untidy /\ request = "done" /\ blob => \A p \in first : at[p] = "row" =>
        \E k \in Kinds : \E m \in rows[k] : k # kind[p] \/ m # box[p]

\* Content is stored for a recipient.
Wanted == blob => Mailboxes # {}

CollectInv == Alone /\ Covered /\ Spared /\ Wanted

\* Nothing is stored at first.
LEMMA InitCollects == Init => CollectInv
  BY DEF Init, CollectInv, Alone, Covered, Spared, Wanted

\* The transaction ends with an entry for every recipient, none of which has been purged.
LEMMA StagingCollects == ASSUME TypeOK, Inv, CollectInv, Staging PROVE CollectInv'
  <1> USE DEF CollectInv, stored, purger, past
  <1>1. Alone' BY DEF Staging, RequestStarts, Puts, RequestEnds, RequestFails, Stages, Alone
  <1>2. Wanted' BY DEF Staging, RequestStarts, Puts, RequestEnds, RequestFails, Stages, Wanted, TypeOK, Kinds
  <1>3. CASE RequestEnds
    <2>1. rows["ingest"] = Mailboxes /\ "ingest" \in Kinds /\ request # "done"
          /\ UNCHANGED <<blob, rows, first, at, kind, box, untidy>>
      BY <1>3 DEF RequestEnds, Kinds
    <2>2. Covered' BY <1>2, <2>1 DEF Covered, Wanted
    <2>3. ASSUME NEW p \in first, at[p] = "row"
          PROVE  kind[p] # "ingest" /\ box[p] \in Mailboxes
      BY <2>1, <2>3 DEF Inv, EntryOver, Unfilable, TypeOK
    <2>4. Spared' BY <2>1, <2>3 DEF Spared
    <2> QED BY <1>1, <1>2, <2>2, <2>4
  <1>4. CASE RequestStarts \/ Puts \/ RequestFails \/ \E m \in Mailboxes : Stages(m)
    <2>1. request' # "done" BY <1>4 DEF RequestStarts, Puts, RequestFails, Stages
    <2> QED BY <1>1, <1>2, <2>1 DEF Covered, Spared
  <1> QED BY <1>3, <1>4 DEF Staging

\* Rows are filed; one that is dropped without its content is exempted.
LEMMA HandlingCollects == ASSUME TypeOK, CollectInv, NEW m \in Mailboxes, Handling(m) PROVE CollectInv'
  <1> USE DEF CollectInv, purger, past
  <1>1. UNCHANGED <<blob, request, purger>>
    BY DEF Handling, Files, Closes, Parks, SoftDeletes, Restores, DropsHeld, ErasureClaims
  <1>2. Wanted' BY <1>1 DEF Wanted
  <1>3. CASE DropsHeld(m)
    <2>1. untidy' BY <1>3 DEF DropsHeld
    <2> QED BY <1>2, <2>1 DEF Alone, Covered, Spared
  <1>4. CASE ~DropsHeld(m)
    <2>1. untidy' = untidy /\ \A k \in Kinds : rows[k] \subseteq rows'[k]
      BY <1>4 DEF Handling, Files, Closes, Parks, SoftDeletes, Restores, ErasureClaims, TypeOK
    <2>2. Alone' BY <1>1, <2>1 DEF Alone
    <2>3. Covered' BY <1>1, <2>1 DEF Covered
    <2>4. Spared' BY <1>1, <2>1 DEF Spared
    <2> QED BY <1>2, <2>2, <2>3, <2>4
  <1> QED BY <1>3, <1>4

\* A purge begins alone, or is exempted with the one beside it.
LEMMA BeginsCollects ==
    ASSUME TypeOK, Inv, CollectInv, NEW p \in Purgers, NEW m \in Mailboxes, NEW k \in Kinds,
           UserPurges(p, m) \/ JobPurges(p, k, m)
    PROVE  CollectInv'
  <1> USE DEF CollectInv, UserPurges, JobPurges, Begins, stored
  <1>1. Wanted' BY DEF Wanted
  <1>2. CASE \E q \in Purgers : at[q] # "idle"
    BY <1>1, <1>2 DEF Alone, Covered, Spared
  <1>3. CASE \A q \in Purgers : at[q] = "idle"
    <2>1. untidy' = untidy /\ UNCHANGED <<blob, rows, request>> BY <1>3
    <2>2. \A q \in Purgers \ {p} : at'[q] = "idle" BY <1>3 DEF TypeOK
    <2>3. at'[p] \in {"row", "check"} /\ (at'[p] = "row" => first' = first) BY DEF TypeOK
    <2>4. Alone' BY <2>2 DEF Alone
    <2>5. Covered' BY <1>3, <2>1 DEF Covered, TypeOK
    <2>6. Spared'
      <3>1. at'[p] = "row" => p \notin first' BY <1>3, <2>3 DEF Inv, StartsOver
      <3>2. \A q \in first' : q \in Purgers BY DEF TypeOK
      <3>3. \A q \in first' : at'[q] # "row" BY <2>2, <3>1, <3>2, Zenon
      <3> HIDE DEF CollectInv, UserPurges, JobPurges, Begins
      <3> QED BY <3>3 DEF Spared
    <2> QED BY <1>1, <2>4, <2>5, <2>6
  <1> QED BY <1>2, <1>3

\* A check that finds a reference leaves the blob to a row other than the purged one.
LEMMA KeepsCollects == ASSUME TypeOK, Inv, CollectInv, NEW p \in Purgers, Keeps(p) PROVE CollectInv'
  <1> USE DEF CollectInv, Keeps, stored, past
  <1>1. PICK k \in Kinds : \E m \in rows[k] : ~(p \in first /\ kind[p] = k /\ box[p] = m)
    BY OrderIs DEF Sees, Referring, Excluded, TypeOK, Kinds
  <1>2. \A q \in Purgers \ {p} : at'[q] = at[q] /\ kind'[q] = kind[q] /\ box'[q] = box[q] /\ (q \in first' <=> q \in first)
    BY DEF Moves, Rests, TypeOK
  <1>3. at'[p] \in {"idle", "row"} /\ (at'[p] = "row" => p \in first /\ kind' = kind /\ box' = box)
    BY DEF Moves, Rests, TypeOK
  <1>4. Alone' BY <1>2 DEF Alone
  <1>5. Covered' BY <1>1 DEF Covered
  <1>6. Spared'
    <2>1. untidy' = untidy /\ UNCHANGED <<blob, rows, request>> OBVIOUS
    <2> QED BY <1>1, <1>2, <1>3, <2>1 DEF Spared, TypeOK, Rests, Moves
  <1>7. Wanted' BY DEF Wanted
  <1> QED BY <1>4, <1>5, <1>6, <1>7

\* What one purger's step leaves of the others.
LEMMA DeletesRowCollects == ASSUME TypeOK, Inv, CollectInv, NEW p \in Purgers, DeletesRow(p) PROVE CollectInv'
  <1> USE DEF CollectInv, DeletesRow, past
  <1>1. \A q \in Purgers \ {p} : at'[q] = at[q] BY DEF Moves, Rests, TypeOK
  <1>2. at'[p] \in {"idle", "check"} /\ (p \notin first => at'[p] = "check" /\ first' = first)
    BY DEF Moves, Rests, TypeOK
  <1>3. Alone' BY <1>1 DEF Alone
  <1>4. Wanted' BY DEF Wanted
  <1>5. CASE p \notin first
    <2>1. Covered' BY <1>2, <1>5 DEF Covered
    <2>2. Spared' BY <1>1, <1>2, <1>5 DEF Spared, Alone, TypeOK
    <2> QED BY <1>3, <1>4, <2>1, <2>2
  <1>6. CASE p \in first /\ ~untidy /\ request = "done" /\ blob
    <2>1. PICK k \in Kinds : \E m \in rows[k] : k # kind[p] \/ m # box[p] BY <1>6 DEF Spared
    <2>2. rows'[k] # {} BY <2>1 DEF TypeOK
    <2>3. \A q \in Purgers : at'[q] # "row" BY <1>1, <1>2, <1>6 DEF Alone
    <2> QED BY <1>3, <1>4, <2>2, <2>3 DEF Covered, Spared, Moves, Rests, TypeOK
  <1>7. CASE ~(~untidy /\ request = "done" /\ blob) BY <1>3, <1>4, <1>7 DEF Covered, Spared
  <1> QED BY <1>5, <1>6, <1>7

\* Every purging step keeps it.
LEMMA PurgingCollects == ASSUME TypeOK, Inv, CollectInv, NEW p \in Purgers, Purging(p) PROVE CollectInv'
  <1> USE DEF CollectInv
  <1>1. CASE \E m \in Mailboxes : UserPurges(p, m) \/ \E k \in Kinds : JobPurges(p, k, m)
    BY <1>1, BeginsCollects DEF Kinds
  <1>2. CASE Keeps(p) BY <1>2, KeepsCollects
  <1>3. CASE DeletesRow(p) BY <1>3, DeletesRowCollects
  <1>4. CASE Looks(p)
    <2>1. UNCHANGED <<blob, rows, request, first, kind, box, untidy>> /\ at[p] = "check"
      BY <1>4 DEF Looks, stored, past
    <2>2. at'[p] \in {"check", "delete"} /\ \A q \in Purgers \ {p} : at'[q] = at[q] BY <1>4 DEF Looks, TypeOK
    <2>3. Alone' BY <2>1, <2>2 DEF Alone
    <2>4. Covered' BY <2>1, <2>2 DEF Covered
    <2>5. Spared' BY <2>1, <2>2 DEF Spared, TypeOK
    <2>6. Wanted' BY <2>1 DEF Wanted
    <2> QED BY <2>3, <2>4, <2>5, <2>6
  <1>5. CASE DeletesBlob(p)
    <2>1. ~blob' /\ untidy' = untidy BY <1>5 DEF DeletesBlob
    <2>2. \A q \in Purgers : at'[q] # "idle" => at[q] # "idle" BY <1>5 DEF DeletesBlob, Moves, Rests, TypeOK
    <2>3. Alone' BY <2>1, <2>2 DEF Alone
    <2> QED BY <2>1, <2>3 DEF Covered, Spared, Wanted
  <1>6. CASE PurgeFails(p)
    <2>1. UNCHANGED <<blob, rows, request>> /\ (p \notin first /\ at[p] # "row" => untidy') /\ (untidy => untidy')
      BY <1>6 DEF PurgeFails, stored
    <2>2. /\ \A q \in Purgers \ {p} : at'[q] = at[q] /\ kind'[q] = kind[q] /\ box'[q] = box[q]
          /\ at'[p] = "idle" /\ first' = first \ {p}
      BY <1>6 DEF PurgeFails, Rests, TypeOK
    <2>3. Alone' BY <2>1, <2>2 DEF Alone
    <2>4. Covered' BY <2>1, <2>2 DEF Covered
    <2>5. Spared' BY <2>1, <2>2 DEF Spared, TypeOK
    <2>6. Wanted' BY <2>1 DEF Wanted
    <2> QED BY <2>3, <2>4, <2>5, <2>6
  <1> QED BY <1>1, <1>2, <1>3, <1>4, <1>5, <1>6 DEF Purging

\* BlobReferenceUtils and the purges that call it: for every number of recipients, purgers, purges and
\* failures, the raw message is gone when its last row is, unless purges ran side by side, a user's purge
\* failed between row and blob, or a quarantine entry was deleted without its content.
THEOREM ContentCollected == Spec => []Collected
  <1>1. TypeOK /\ Inv /\ CollectInv /\ [Next]_vars => CollectInv'
    <2> SUFFICES ASSUME TypeOK, Inv, CollectInv, [Next]_vars PROVE CollectInv' OBVIOUS
    <2>1. CASE UNCHANGED vars
      BY <2>1 DEF CollectInv, Alone, Covered, Spared, Wanted, vars, stored, purger, past
    <2> QED BY <2>1, StagingCollects, HandlingCollects, PurgingCollects DEF Next
  <1>2. CollectInv => Collected
    <2> SUFFICES ASSUME Covered, ~untidy, request = "done", rows = [k \in Kinds |-> {}],
                        \A p \in Purgers : at[p] = "idle"
                 PROVE  ~blob
      BY DEF CollectInv, Collected
    <2>1. \A k \in Kinds : rows[k] = {} OBVIOUS
    <2> QED BY <2>1 DEF Covered
  <1> QED BY <1>1, <1>2, InitCollects, AlwaysSafe, TypeCorrect, PTL DEF Spec
===============================================================================
