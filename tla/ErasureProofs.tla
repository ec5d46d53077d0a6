----------------------------- MODULE ErasureProofs -----------------------------
(****************************************************************************)
(* ErasureExecutionJob keeps its promise, for any number of replicas, types *)
(* of data, requests, matters, incarnations of the mailbox and failures.    *)
(*                                                                          *)
(* What an approval found can only go: mail that comes later comes into a   *)
(* later incarnation, or while the request is at work, and then is noted as *)
(* late.  So it is enough that a worker that may still write its request    *)
(* (it read the version the request has) has emptied what it has passed.    *)
(* A worker whose claim was taken over may be anywhere; its last write is   *)
(* refused.  Of the steps of Next, first what they do to a request, to a    *)
(* worker and to the place is said once (RequestMoves, WorkersMove,         *)
(* PlaceMoves); the parts of the invariant then follow from that.           *)
(****************************************************************************)
EXTENDS Erasure, TLAPS

\* The states the variables' parts may have, more closely than by their types.
RequestStates == Running \cup {"none", "pending", "completed", "denied", "failed"}
Phases == {"idle", "look", "claim", "mailbox", "batch", "rows", "again", "row", "plugins", "complete"}
RequestRow == [is: RequestStates, leftover: BOOLEAN, tries: 0..MaxAttempts, gen: Gens]
WorkerState == [at: Phases, r: Nat, saw: Gens, pos: 1..(NRows + 1), batch: Gens, failed: SUBSET Nat]

\* The place holds the present incarnation of the mailbox or none, and nothing of a later one.
Places ==
    /\ matter \in [Matters -> MatterRow] /\ admin \in {"idle", "create", "delete", "file"}
    /\ gens \in Gens /\ box \in {0, gens} /\ acl \in {0, gens} /\ (admin = "create" => gens < MaxGen)
    /\ data \in [Rows -> Gens] /\ \A x \in Rows : data[x] <= gens
    /\ unsettled \subseteq Requests /\ warned \subseteq EWorkers /\ late \subseteq Rows /\ kept \in BOOLEAN

\* A request still open has an attempt left; only one at work can be written by workers that read it.
RowOK(row) ==
    /\ row \in RequestRow /\ row.gen <= gens
    /\ row.is \in Running \cup {"none", "pending"} => row.tries < MaxAttempts
    /\ row.is \in {"none", "pending"} => ~row.leftover
RequestsOK ==
    /\ req \in [Requests -> RequestRow] /\ \A r \in Requests : RowOK(req[r])
    /\ fresh \in [Requests -> SUBSET EWorkers] /\ \A r \in Requests : fresh[r] # {} => req[r].is \in Running
    /\ stale \subseteq Requests

\* A worker is at a request that was approved.
Busy(w) == job[w].at # "idle"
WorkersOK ==
    /\ job \in [EWorkers -> WorkerState]
    /\ \A w \in EWorkers : Busy(w) => R(w) \in Requests /\ req[R(w)].is \notin {"none", "pending"}

\* A request for leftovers is of the present incarnation as long as it runs: nothing is created meanwhile.
Leftovers ==
    \A r \in Requests : req[r].is \in Running /\ req[r].leftover => admin # "create" /\ req[r].gen = gens

\* What a worker for leftovers holds in its hands is no newer than its request.
InHand == \A w \in EWorkers : Busy(w) /\ req[R(w)].leftover =>
    job[w].saw = 0 /\ (job[w].at = "rows" => job[w].batch <= req[R(w)].gen)

\* Who is past the first look under a hold was at work when it was opened.
Warned == \A w \in EWorkers : Held(Address) /\ job[w].at \notin {"idle", "look"} => w \in warned

\* What request r's approval found and the cascade must take.
Old(r, x) == data[x] \in 1..req[r].gen /\ x \notin late
OldBox(r) == box \in 1..req[r].gen

\* How far a cascade is: the types it has passed, then the mailbox.
RowsGone(w) == \A x \in Rows : Old(R(w), x) =>
    /\ job[w].at \notin {"again", "row", "plugins", "complete"}
    /\ job[w].at \in {"look", "claim", "mailbox", "batch", "rows"} => x >= job[w].pos \/ x \in job[w].failed
BoxGone(w) ==
    /\ job[w].at \in {"batch", "rows", "again", "row"} /\ job[w].saw = 0 => ~OldBox(R(w))
    /\ job[w].at \in {"plugins", "complete"} /\ OldBox(R(w)) => kept
Cascades == \A w \in EWorkers : Busy(w) /\ Mine(w) => RowsGone(w) /\ BoxGone(w)

\* One completion, and only of a request that is over.
Audited ==
    /\ audits \in [Requests -> Nat]
    /\ \A r \in Requests : audits[r] <= (IF req[r].is = "completed" THEN 1 ELSE 0)

Base == Places /\ RequestsOK /\ WorkersOK
ErInv == Base /\ Leftovers /\ InHand /\ Warned /\ Cascades /\ Audited /\ CompletedIsErased

-------------------------------------------------------------------------------

\* What the constants are, as the steps use it.
LEMMA Numbers ==
    /\ NRows \in Nat /\ NRows >= 1 /\ MaxGen \in Nat /\ MaxGen >= 1 /\ MaxAttempts \in Nat /\ MaxAttempts >= 1
    /\ Requests \subseteq Nat /\ MaxDate \in Nat /\ MaxDate >= 1
  BY ErasureAssumption, LegalHoldAssumption DEF Rows

\* The folders' type is one of the types of data.
LEMMA FolderIs == FolderRow \in Rows
  BY Numbers DEF FolderRow, Rows

\* Matters keep their type whatever is done with them.
LEMMA MatterStep ==
    ASSUME matter \in [Matters -> MatterRow], NEW e, e \subseteq Boxes, HoldNext(e)
    PROVE  matter' \in [Matters -> MatterRow]
<1> PICK m \in Matters : CreateMatter(m, e) \/ UpdateMatter(m, e) \/ CloseMatter(m) \/ DeleteMatter(m)
  BY DEF HoldNext
<1>1. CASE CreateMatter(m, e)
  BY <1>1 DEF CreateMatter, MatterRow, Dates
<1>2. CASE UpdateMatter(m, e)
  <2>1. PICK bs \in SUBSET Boxes, f, t \in Dates :
            matter' = [matter EXCEPT ![m].boxes = bs, ![m].from = f, ![m].to = t]
    BY <1>2 DEF UpdateMatter
  <2> DEFINE row == [matter[m] EXCEPT !.boxes = bs, !.from = f, !.to = t]
  <2>2. row \in MatterRow
    BY DEF MatterRow
  <2>3. matter' = [matter EXCEPT ![m] = row]
    BY <2>1
  <2> HIDE DEF row
  <2> QED
    BY <2>2, <2>3
<1>3. CASE CloseMatter(m)
  BY <1>3 DEF CloseMatter, MatterRow, Dates
<1>4. CASE DeleteMatter(m)
  BY <1>4, Numbers DEF DeleteMatter, MatterRow, Dates, NoMatter
<1> QED
  BY <1>1, <1>2, <1>3, <1>4

\* Initially nothing is requested and nobody is at work.
LEMMA BaseInit == ErInit => Base
<1> SUFFICES ASSUME ErInit PROVE Base
  OBVIOUS
<1> USE DEF ErInit, HoldInit, NoRequest, Off, Gens, Rows, RequestStates, Running
<1>1. matter \in [Matters -> MatterRow]
  BY Numbers DEF MatterRow, Dates, NoMatter
<1>2. 1 \in Gens /\ 0 \in Gens
  BY Numbers
<1>3. data \in [Rows -> Gens] /\ \A x \in Rows : data[x] <= gens
  BY <1>2
<1>4. Places
  BY <1>1, <1>2, <1>3 DEF Places
<1>5. RequestsOK
  BY Numbers DEF RequestsOK, RowOK, RequestRow
<1>6. WorkersOK
  BY Numbers DEF WorkersOK, WorkerState, Phases, Busy
<1> QED
  BY <1>4, <1>5, <1>6 DEF Base

\* Every step keeps the place's type and what is in it no newer than the mailbox.
LEMMA PlacesStep ==
    ASSUME Base, [ErNext]_erVars
    PROVE  Places'
<1> USE DEF Base, Places, Gens, hold, place, filed, ghosts
<1> USE Numbers, FolderIs
<1>1. CASE CreateLooks
  BY <1>1 DEF CreateLooks
<1>2. CASE CreateWrites
  BY <1>2 DEF CreateWrites
<1>3. CASE DeleteLooks
  BY <1>3 DEF DeleteLooks
<1>4. CASE DeleteWrites
  BY <1>4 DEF DeleteWrites
<1>5. CASE FileLooks
  BY <1>5 DEF FileLooks
<1>6. CASE FileWrites
  BY <1>6 DEF FileWrites
<1>7. ASSUME NEW x \in Rows, Written(x) PROVE Places'
  BY <1>7 DEF Written
<1>8. ASSUME NEW r \in Requests, OwnerCreates(r) PROVE Places'
  BY <1>8 DEF OwnerCreates
<1>9. ASSUME NEW r \in Requests, OwnerSettles(r) PROVE Places'
  BY <1>9 DEF OwnerSettles
<1>10. ASSUME NEW r \in Requests, Approve(r) PROVE Places'
  BY <1>10 DEF Approve
<1>11. ASSUME NEW r \in Requests, Deny(r) PROVE Places'
  BY <1>11 DEF Deny
<1>12. ASSUME NEW r \in Requests, LeaseLapses(r) PROVE Places'
  BY <1>12 DEF LeaseLapses
<1>13. ASSUME NEW w \in EWorkers, NEW r \in Requests, Picks(w, r) PROVE Places'
  BY <1>13 DEF Picks
<1>14. ASSUME NEW w \in EWorkers, Looks(w) PROVE Places'
  BY <1>14 DEF Looks
<1>15. ASSUME NEW w \in EWorkers, Claims(w) PROVE Places'
  BY <1>15 DEF Claims
<1>16. ASSUME NEW w \in EWorkers, ReadsMailbox(w) PROVE Places'
  BY <1>16 DEF ReadsMailbox
<1>17. ASSUME NEW w \in EWorkers, ReadsBatch(w) PROVE Places'
  BY <1>17 DEF ReadsBatch
<1>18. ASSUME NEW w \in EWorkers, PurgesRow(w) PROVE Places'
  BY <1>18 DEF PurgesRow
<1>19. ASSUME NEW w \in EWorkers, EndsCascade(w) PROVE Places'
  BY <1>19 DEF EndsCascade
<1>20. ASSUME NEW w \in EWorkers, LooksAgain(w) PROVE Places'
  BY <1>20 DEF LooksAgain
<1>21. ASSUME NEW w \in EWorkers, PurgesMailbox(w) PROVE Places'
  BY <1>21 DEF PurgesMailbox
<1>22. ASSUME NEW w \in EWorkers, WaitsForPlugins(w) PROVE Places'
  BY <1>22 DEF WaitsForPlugins
<1>23. ASSUME NEW w \in EWorkers, Completes(w) PROVE Places'
  BY <1>23 DEF Completes
<1>24. ASSUME NEW w \in EWorkers, WorkerDies(w) PROVE Places'
  BY <1>24 DEF WorkerDies
<1>25. CASE MatterChanges
  BY <1>25, MatterStep, ErasureAssumption DEF MatterChanges
<1>26. CASE UNCHANGED erVars
  BY <1>26 DEF erVars
<1> QED
  BY <1>1, <1>2, <1>3, <1>4, <1>5, <1>6, <1>7, <1>8, <1>9, <1>10, <1>11, <1>12, <1>13, <1>14, <1>15, <1>16,
      <1>17, <1>18, <1>19, <1>20, <1>21, <1>22, <1>23, <1>24, <1>25, <1>26 DEF ErNext, WorkerSteps

\* Writing one request's row, with the workers that know the new version.
LEMMA WritesRequest ==
    ASSUME RequestsOK, gens' = gens, NEW r \in Requests, NEW row, RowOK(row), NEW readers \in SUBSET EWorkers,
           readers # {} => row.is \in Running, stale' \subseteq stale,
           req' = [req EXCEPT ![r] = row], fresh' = [fresh EXCEPT ![r] = readers]
    PROVE  RequestsOK'
  BY DEF RequestsOK, RowOK

\* A step that leaves the requests alone; a new incarnation only widens what they may be of.
LEMMA NothingRequested ==
    ASSUME RequestsOK, gens \in Nat, gens' \in Nat, gens' >= gens, UNCHANGED <<req, fresh, stale>>
    PROVE  RequestsOK'
  BY Numbers DEF RequestsOK, RowOK, RequestRow, Gens

\* Another state of the same request.
LEMMA SetsState ==
    ASSUME NEW row, RowOK(row), NEW is \in RequestStates \ {"none", "pending"},
        is \in Running => row.tries < MaxAttempts
    PROVE  RowOK([row EXCEPT !.is = is])
  BY DEF RowOK, RequestRow

\* A request approved for the present incarnation; one tried once more.
LEMMA ApprovesRow ==
    ASSUME NEW row, RowOK(row), row.tries < MaxAttempts, gens \in Gens
    PROVE  /\ RowOK([row EXCEPT !.is = "approved", !.gen = gens])
           /\ RowOK([row EXCEPT !.is = "approved", !.leftover = TRUE, !.gen = gens])
<1> DEFINE one == [row EXCEPT !.is = "approved", !.gen = gens]
           two == [row EXCEPT !.is = "approved", !.leftover = TRUE, !.gen = gens]
<1>1. row \in RequestRow /\ "approved" \in RequestStates /\ gens <= gens
  BY Numbers DEF RowOK, RequestStates, Running, Gens
<1>2. one \in RequestRow /\ two \in RequestRow
  BY <1>1 DEF RequestRow
<1>3. one.gen = gens /\ one.tries = row.tries
  BY <1>1 DEF RequestRow
<1>4. two.gen = gens /\ two.tries = row.tries
  BY <1>1 DEF RequestRow
<1> HIDE DEF one, two
<1>6. one.is = "approved" /\ two.is = "approved"
  BY <1>1 DEF one, two, RequestRow
<1>5. RowOK(one) /\ RowOK(two)
  BY <1>1, <1>2, <1>3, <1>4, <1>6 DEF RowOK
<1> QED
  BY <1>5 DEF one, two

\* A failure: one more attempt is spent, and after the last the request has failed.
LEMMA TriesRow ==
    ASSUME NEW row, RowOK(row), row.tries < MaxAttempts
    PROVE  RowOK([row EXCEPT !.is = IF NoMoreTries(row.tries + 1) THEN "failed" ELSE "approved",
        !.tries = row.tries + 1])
<1> DEFINE is == IF NoMoreTries(row.tries + 1) THEN "failed" ELSE "approved"
           new == [row EXCEPT !.is = is, !.tries = row.tries + 1]
<1>1. row \in RequestRow /\ row.gen <= gens
  BY DEF RowOK
<1>2. row.tries + 1 \in 0..MaxAttempts
  BY <1>1, Numbers DEF RequestRow
<1>3. is \in RequestStates \ {"none", "pending"} /\ (is \in Running \cup {"none",
    "pending"} => row.tries + 1 < MaxAttempts)
  BY <1>1, <1>2, Numbers DEF NoMoreTries, RequestStates, Running
<1> HIDE DEF is
<1>4. new \in RequestRow
  BY <1>1, <1>2, <1>3 DEF RequestRow
<1>5. new.gen = row.gen /\ new.tries = row.tries + 1 /\ new.is = is
  BY <1>1 DEF RequestRow
<1> HIDE DEF new
<1>6. RowOK(new)
  BY <1>1, <1>3, <1>4, <1>5 DEF RowOK
<1> QED
  BY <1>6 DEF new, is

\* The row a request starts as, and none.
LEMMA NewRow ==
    ASSUME gens \in Gens
    PROVE  RowOK([NoRequest EXCEPT !.is = "pending"]) /\ RowOK(NoRequest) /\ NoRequest.tries < MaxAttempts
<1>1. NoRequest \in RequestRow
  BY Numbers DEF NoRequest, RequestRow, RequestStates, Running, Gens
<1>2. NoRequest.tries = 0 /\ NoRequest.gen = 0 /\ ~NoRequest.leftover
  BY DEF NoRequest
<1>3. RowOK(NoRequest)
  BY <1>1, <1>2, Numbers DEF RowOK, Gens
<1> DEFINE new == [NoRequest EXCEPT !.is = "pending"]
<1>4. new \in RequestRow /\ new.tries = 0 /\ new.gen = 0 /\ ~new.leftover
  BY <1>1, <1>2 DEF RequestRow, RequestStates
<1> HIDE DEF new
<1>5. RowOK(new)
  BY <1>4, Numbers DEF RowOK, Gens
<1> QED
  BY <1>2, <1>3, <1>5, Numbers DEF new

\* A worker's write, and a release, which writes only under a claim not yet lost.
LEMMA PutsRequest ==
    ASSUME RequestsOK, gens' = gens, NEW w \in EWorkers, R(w) \in Requests, NEW row, Mine(w) => RowOK(row),
           NEW readers \in SUBSET EWorkers, readers # {} => row.is \in Running, Puts(w, row, readers)
    PROVE  RequestsOK'
  BY WritesRequest DEF Puts

\* A release keeps the requests' type as the write it may be.
LEMMA ReleasesRequest ==
    ASSUME RequestsOK, gens \in Nat, gens' = gens, NEW w \in EWorkers, R(w) \in Requests, NEW row,
        Mine(w) => RowOK(row), Releases(w, row)
    PROVE  RequestsOK'
<1>1. CASE Mine(w)
  BY <1>1, PutsRequest DEF Releases
<1>2. CASE ~Mine(w)
  BY <1>2, NothingRequested DEF Releases
<1> QED
  BY <1>1, <1>2

\* A request's worker that may write it finds it at work.
LEMMA MineRuns ==
    ASSUME RequestsOK, NEW w \in EWorkers, R(w) \in Requests, Mine(w)
    PROVE  req[R(w)].is \in Running /\ RowOK(req[R(w)]) /\ req[R(w)].tries < MaxAttempts
  BY DEF RequestsOK, RowOK, Mine

\* Every step keeps each request well formed, and readable only while at work.
LEMMA RequestsStep ==
    ASSUME Base, [ErNext]_erVars
    PROVE  RequestsOK'
<1> USE DEF hold, place, filed, ghosts
<1>a. RequestsOK /\ gens \in Nat
  BY Numbers DEF Base, Places, Gens
<1>f. RequestStates = {"approved", "in_progress", "none", "pending", "completed", "denied", "failed"}
  BY DEF RequestStates, Running
<1>b. \A w \in EWorkers : job[w].at # "idle" => R(w) \in Requests
  BY DEF Base, WorkersOK, Busy
<1>1. CASE CreateLooks
  BY <1>1, <1>a, NothingRequested DEF CreateLooks
<1>2. CASE DeleteLooks
  BY <1>2, <1>a, NothingRequested DEF DeleteLooks
<1>3. CASE DeleteWrites
  BY <1>3, <1>a, NothingRequested DEF DeleteWrites
<1>4. CASE FileLooks
  BY <1>4, <1>a, NothingRequested DEF FileLooks
<1>5. CASE MatterChanges
  BY <1>5, <1>a, NothingRequested DEF MatterChanges
<1>6. CASE UNCHANGED erVars
  BY <1>6, <1>a, NothingRequested DEF erVars
<1>7. CASE CreateWrites
  BY <1>7, <1>a, NothingRequested DEF CreateWrites
<1>8. ASSUME NEW x \in Rows, Written(x) PROVE RequestsOK'
  BY <1>8, <1>a, NothingRequested DEF Written
<1>9. CASE FileWrites
  <2>0. gens' = gens /\ stale' = stale /\ gens \in Gens
    BY <1>9 DEF FileWrites, Base, Places
  <2>1. CASE UNCHANGED <<req, fresh>>
    BY <2>0, <2>1, <1>a, NothingRequested
  <2>2. ASSUME NEW r \in Requests, req[r].is = "pending",
               Sets(r, [req[r] EXCEPT !.is = "approved", !.leftover = TRUE, !.gen = gens])
        PROVE  RequestsOK'
    <3>1. RowOK([req[r] EXCEPT !.is = "approved", !.leftover = TRUE, !.gen = gens])
      BY <2>0, <2>2, <1>a, ApprovesRow DEF RequestsOK, RowOK
    <3> QED
      BY <2>0, <2>2, <3>1, <1>a, WritesRequest DEF Sets
  <2>3. ASSUME NEW r \in Requests, Sets(r, [NoRequest EXCEPT !.is = "approved", !.leftover = TRUE, !.gen = gens])
        PROVE  RequestsOK'
    <3>1. RowOK([NoRequest EXCEPT !.is = "approved", !.leftover = TRUE, !.gen = gens])
      BY <2>0, NewRow, ApprovesRow
    <3> QED
      BY <2>0, <2>3, <3>1, <1>a, WritesRequest DEF Sets
  <2> QED
    BY <1>9, <2>1, <2>2, <2>3 DEF FileWrites
<1>10. ASSUME NEW r \in Requests, OwnerCreates(r) PROVE RequestsOK'
  BY <1>10, <1>a, NewRow, WritesRequest DEF OwnerCreates, Sets, Base, Places
<1>11. ASSUME NEW r \in Requests, OwnerSettles(r) PROVE RequestsOK'
  <2>1. gens' = gens /\ stale' = stale
    BY <1>11 DEF OwnerSettles
  <2>2. RowOK([req[r] EXCEPT !.is = "denied"])
    BY <1>a, <1>f, SetsState DEF RequestsOK, Running
  <2>3. Sets(r, [req[r] EXCEPT !.is = "denied"]) => RequestsOK'
    BY <2>1, <2>2, <1>a, WritesRequest DEF Sets
  <2> QED
    BY <1>11, <2>1, <2>3, <1>a, NothingRequested DEF OwnerSettles
<1>12. ASSUME NEW r \in Requests, Approve(r) PROVE RequestsOK'
  <2>1. RowOK([req[r] EXCEPT !.is = "approved", !.gen = gens])
    BY <1>12, <1>a, ApprovesRow DEF Approve, RequestsOK, RowOK, Base, Places
  <2> QED
    BY <1>12, <2>1, <1>a, WritesRequest DEF Approve, Sets
<1>13. ASSUME NEW r \in Requests, Deny(r) PROVE RequestsOK'
  <2>1. RowOK([req[r] EXCEPT !.is = "denied"])
    BY <1>a, <1>f, SetsState DEF RequestsOK, Running
  <2> QED
    BY <1>13, <2>1, <1>a, WritesRequest DEF Deny, Sets
<1>14. ASSUME NEW r \in Requests, LeaseLapses(r) PROVE RequestsOK'
  BY <1>14 DEF LeaseLapses, Base, RequestsOK, RowOK
<1>15. ASSUME NEW w \in EWorkers, NEW r \in Requests, Picks(w, r) PROVE RequestsOK'
  BY <1>15 DEF Picks, Base, RequestsOK, RowOK, Running
<1>16. ASSUME NEW w \in EWorkers, Looks(w) PROVE RequestsOK'
  <2>1. R(w) \in Requests
    BY <1>16, <1>b DEF Looks
  <2>2. Mine(w) => RowOK(Back(w))
    BY <1>16, <2>1, <1>a, <1>f, MineRuns, SetsState DEF Back, Running
  <2> QED
    BY <1>16, <2>1, <2>2, <1>a, ReleasesRequest, NothingRequested DEF Looks
<1>17. ASSUME NEW w \in EWorkers, LooksAgain(w) PROVE RequestsOK'
  <2>1. R(w) \in Requests
    BY <1>17, <1>b DEF LooksAgain
  <2>2. Mine(w) => RowOK(Back(w))
    BY <1>17, <2>1, <1>a, <1>f, MineRuns, SetsState DEF Back, Running
  <2> QED
    BY <1>17, <2>1, <2>2, <1>a, ReleasesRequest, NothingRequested DEF LooksAgain
<1>18. ASSUME NEW w \in EWorkers, PurgesMailbox(w) PROVE RequestsOK'
  <2>1. R(w) \in Requests
    BY <1>18, <1>b DEF PurgesMailbox
  <2>2. Mine(w) => RowOK(Back(w))
    BY <1>18, <2>1, <1>a, <1>f, MineRuns, SetsState DEF Back, Running
  <2> QED
    BY <1>18, <2>1, <2>2, <1>a, ReleasesRequest, NothingRequested DEF PurgesMailbox
<1>19. ASSUME NEW w \in EWorkers, WaitsForPlugins(w) PROVE RequestsOK'
  <2>1. R(w) \in Requests
    BY <1>19, <1>b DEF WaitsForPlugins
  <2>2. Mine(w) => RowOK(Back(w))
    BY <1>19, <2>1, <1>a, <1>f, MineRuns, SetsState DEF Back, Running
  <2> QED
    BY <1>19, <2>1, <2>2, <1>a, ReleasesRequest, NothingRequested DEF WaitsForPlugins
<1>20. ASSUME NEW w \in EWorkers, ReadsMailbox(w) PROVE RequestsOK'
  <2>1. R(w) \in Requests
    BY <1>20, <1>b DEF ReadsMailbox
  <2>2. Mine(w) => RowOK([req[R(w)] EXCEPT !.is = "denied"])
    BY <1>20, <2>1, <1>a, <1>f, MineRuns, SetsState DEF Back, Running
  <2> QED
    BY <1>20, <2>1, <2>2, <1>a, ReleasesRequest, NothingRequested DEF ReadsMailbox
<1>21. ASSUME NEW w \in EWorkers, Claims(w) PROVE RequestsOK'
  <2>1. R(w) \in Requests
    BY <1>21, <1>b DEF Claims
  <2>2. Mine(w) => RowOK([req[R(w)] EXCEPT !.is = "in_progress"]) /\ [req[R(w)] EXCEPT !.is = "in_progress"].is \in Running
    BY <1>21, <2>1, <1>a, <1>f, MineRuns, SetsState DEF Running, RowOK, RequestRow
  <2> DEFINE row == [req[R(w)] EXCEPT !.is = "in_progress"]
  <2>3. CASE Puts(w, row, {w})
    <3>1. Mine(w) /\ gens' = gens
      BY <1>21, <2>3 DEF Puts, Claims
    <3> QED
      BY <2>1, <2>2, <2>3, <3>1, <1>a, PutsRequest
  <2>4. CASE UNCHANGED <<req, fresh, stale>>
    BY <1>21, <2>4, <1>a, NothingRequested DEF Claims
  <2> QED
    BY <1>21, <2>3, <2>4 DEF Claims
<1>22. ASSUME NEW w \in EWorkers, ReadsBatch(w) PROVE RequestsOK'
  <2>1. R(w) \in Requests
    BY <1>22, <1>b DEF ReadsBatch
  <2>2. Mine(w) => RowOK(req[R(w)]) /\ req[R(w)].is \in Running
    BY <1>22, <2>1, <1>a, MineRuns
  <2> QED
    BY <1>22, <2>1, <2>2, <1>a, PutsRequest, NothingRequested DEF ReadsBatch, Puts
<1>23. ASSUME NEW w \in EWorkers, PurgesRow(w) PROVE RequestsOK'
  BY <1>23, <1>a, NothingRequested DEF PurgesRow
<1>24. ASSUME NEW w \in EWorkers, EndsCascade(w) PROVE RequestsOK'
  <2>1. R(w) \in Requests
    BY <1>24, <1>b DEF EndsCascade
  <2> DEFINE n == req[R(w)].tries + 1
             row == [req[R(w)] EXCEPT !.is = IF NoMoreTries(n) THEN "failed" ELSE "approved", !.tries = n]
  <2>2. Mine(w) => RowOK(row)
    BY <2>1, <1>a, MineRuns, TriesRow
  <2>3. Releases(w, row) \/ UNCHANGED <<req, fresh, stale>>
    BY <1>24 DEF EndsCascade
  <2>4. gens' = gens
    BY <1>24 DEF EndsCascade
  <2> HIDE DEF row
  <2> QED
    BY <2>1, <2>2, <2>3, <2>4, <1>a, ReleasesRequest, NothingRequested
<1>25. ASSUME NEW w \in EWorkers, Completes(w) PROVE RequestsOK'
  <2>1. R(w) \in Requests
    BY <1>25, <1>b DEF Completes
  <2>2. Mine(w) => RowOK([req[R(w)] EXCEPT !.is = "completed"])
    BY <1>25, <2>1, <1>a, <1>f, MineRuns, SetsState DEF Running
  <2> QED
    BY <1>25, <2>1, <2>2, <1>a, PutsRequest, NothingRequested DEF Completes
<1>26. ASSUME NEW w \in EWorkers, WorkerDies(w) PROVE RequestsOK'
  BY <1>26, <1>b DEF WorkerDies, Base, RequestsOK, RowOK
<1> QED
  BY <1>1, <1>2, <1>3, <1>4, <1>5, <1>6, <1>7, <1>8, <1>9, <1>10, <1>11, <1>12, <1>13, <1>14, <1>15, <1>16,
      <1>17, <1>18, <1>19, <1>20, <1>21, <1>22, <1>23, <1>24, <1>25, <1>26 DEF ErNext, WorkerSteps

\* How a request changes: filed or decided, or written by a worker that has read its version.
Decided(r) ==
    /\ req[r].is \in {"none", "pending"} /\ fresh'[r] = {} /\ gens' = gens
    /\ \/ req'[r].is \in {"pending", "denied"}
       \/ req'[r].is = "approved" /\ req'[r].gen = gens /\ (req'[r].leftover => admin = "file" /\ admin' = "idle")
Handled(r) ==
    /\ req[r].is \in Running /\ req'[r].is \in {"approved", "in_progress", "completed", "denied", "failed"}
    /\ req'[r].gen = req[r].gen /\ req'[r].leftover = req[r].leftover /\ gens' = gens
    /\ \E w \in EWorkers : Busy(w) /\ R(w) = r /\ Mine(w) /\ (req'[r].is = "completed" => Completes(w))
    /\ req'[r].is \notin Running => fresh'[r] = {}
Moves(r) == req'[r] = req[r] \/ Decided(r) \/ Handled(r)

\* What one worker writes, others do not.
LEMMA PutsMoves ==
    ASSUME RequestsOK, NEW w \in EWorkers, Busy(w), R(w) \in Requests, gens' = gens,
           NEW is \in {"approved", "in_progress", "completed", "denied", "failed"}, NEW row,
           Mine(w) => row.is = is /\ row.gen = req[R(w)].gen /\ row.leftover = req[R(w)].leftover,
           NEW readers, is \notin Running => readers = {}, Puts(w, row, readers), is = "completed" => Completes(w)
    PROVE  \A r \in Requests : Moves(r)
<1>1. Mine(w) /\ req[R(w)].is \in Running
  BY MineRuns DEF Puts
<1>2. Handled(R(w))
  BY <1>1 DEF Handled, Puts, RequestsOK
<1> QED
  BY <1>2 DEF Moves, Puts, RequestsOK

\* A release moves requests as the write it may be.
LEMMA ReleasesMoves ==
    ASSUME RequestsOK, NEW w \in EWorkers, Busy(w), R(w) \in Requests, gens' = gens,
           NEW is \in {"approved", "denied", "failed"}, NEW row,
           Mine(w) => row.is = is /\ row.gen = req[R(w)].gen /\ row.leftover = req[R(w)].leftover, Releases(w, row)
    PROVE  \A r \in Requests : Moves(r)
  BY PutsMoves DEF Releases, Moves

\* The fields of a row another state is given to.
LEMMA StateOf ==
    ASSUME NEW row \in RequestRow, NEW is
    PROVE  [row EXCEPT !.is = is].is = is /\ [row EXCEPT !.is = is].gen = row.gen /\ [row EXCEPT !.is = is].leftover = row.leftover
  BY DEF RequestRow

\* Every step moves every request so.
LEMMA RequestMoves ==
    ASSUME Base, [ErNext]_erVars
    PROVE  \A r \in Requests : Moves(r)
<1> USE DEF hold, place, filed, ghosts
<1>a. RequestsOK /\ \A r \in Requests : req[r] \in RequestRow
  BY DEF Base, RequestsOK
<1>b. \A w \in EWorkers : job[w].at # "idle" => Busy(w) /\ R(w) \in Requests
  BY DEF Base, WorkersOK, Busy
<1>0. CASE req' = req
  BY <1>0 DEF Moves
<1>1. CASE CreateLooks
  BY <1>1, <1>0 DEF CreateLooks
<1>2. CASE CreateWrites
  BY <1>2, <1>0 DEF CreateWrites
<1>3. CASE DeleteLooks
  BY <1>3, <1>0 DEF DeleteLooks
<1>4. CASE DeleteWrites
  BY <1>4, <1>0 DEF DeleteWrites
<1>5. CASE FileLooks
  BY <1>5, <1>0 DEF FileLooks
<1>6. CASE MatterChanges
  BY <1>6, <1>0 DEF MatterChanges
<1>7. CASE UNCHANGED erVars
  BY <1>7, <1>0 DEF erVars
<1>8. ASSUME NEW x \in Rows, Written(x) PROVE \A q \in Requests : Moves(q)
  BY <1>8, <1>0 DEF Written
<1>9. ASSUME NEW r \in Requests, LeaseLapses(r) PROVE \A q \in Requests : Moves(q)
  BY <1>9, <1>0 DEF LeaseLapses
<1>10. ASSUME NEW w \in EWorkers, NEW r \in Requests, Picks(w, r) PROVE \A q \in Requests : Moves(q)
  BY <1>10, <1>0 DEF Picks
<1>11. ASSUME NEW w \in EWorkers, PurgesRow(w) PROVE \A q \in Requests : Moves(q)
  BY <1>11, <1>0 DEF PurgesRow
<1>12. ASSUME NEW w \in EWorkers, WorkerDies(w) PROVE \A q \in Requests : Moves(q)
  BY <1>12, <1>0 DEF WorkerDies
<1>13. CASE FileWrites
  <2>0. gens' = gens /\ admin = "file" /\ admin' = "idle"
    BY <1>13 DEF FileWrites
  <2>2. ASSUME NEW r \in Requests, req[r].is = "pending",
               Sets(r, [req[r] EXCEPT !.is = "approved", !.leftover = TRUE, !.gen = gens])
        PROVE  \A q \in Requests : Moves(q)
    <3>1. req'[r].is = "approved" /\ req'[r].gen = gens /\ fresh'[r] = {}
      BY <2>2, <1>a DEF Sets, RequestsOK, RequestRow
    <3> QED
      BY <2>0, <2>2, <3>1, <1>a DEF Sets, RequestsOK, Moves, Decided
  <2>3. ASSUME NEW r \in Requests, Unused(r), Sets(r, [NoRequest EXCEPT !.is = "approved", !.leftover = TRUE,
      !.gen = gens])
        PROVE  \A q \in Requests : Moves(q)
    <3>1. req'[r].is = "approved" /\ req'[r].gen = gens /\ fresh'[r] = {}
      BY <2>3, <1>a DEF Sets, RequestsOK, NoRequest
    <3> QED
      BY <2>0, <2>3, <3>1, <1>a DEF Sets, RequestsOK, Moves, Decided, Unused
  <2> QED
    BY <1>13, <1>0, <2>2, <2>3 DEF FileWrites
<1>14. ASSUME NEW r \in Requests, OwnerCreates(r) PROVE \A q \in Requests : Moves(q)
  BY <1>14, <1>a DEF OwnerCreates, Sets, RequestsOK, NoRequest, Unused, Moves, Decided
<1>15. ASSUME NEW r \in Requests, OwnerSettles(r) PROVE \A q \in Requests : Moves(q)
  <2>1. CASE UNCHANGED req
    BY <2>1, <1>0
  <2>2. CASE req[r].is = "pending" /\ Sets(r, [req[r] EXCEPT !.is = "denied"])
    <3>1. req'[r].is = "denied" /\ gens' = gens
      BY <1>15, <2>2, <1>a, StateOf DEF OwnerSettles, Sets, RequestsOK
    <3> QED
      BY <2>2, <3>1, <1>a DEF Sets, RequestsOK, Moves, Decided
  <2> QED
    BY <1>15, <2>1, <2>2 DEF OwnerSettles
<1>16. ASSUME NEW r \in Requests, Approve(r) PROVE \A q \in Requests : Moves(q)
  <2>1. req'[r].is = "approved" /\ req'[r].gen = gens /\ req'[r].leftover = req[r].leftover
    BY <1>16, <1>a DEF Approve, Sets, RequestsOK, RequestRow
  <2> QED
    BY <1>16, <2>1, <1>a DEF Approve, Sets, RequestsOK, RowOK, Moves, Decided
<1>17. ASSUME NEW r \in Requests, Deny(r) PROVE \A q \in Requests : Moves(q)
  BY <1>17, <1>a, StateOf DEF Deny, Sets, RequestsOK, Moves, Decided
<1>18. ASSUME NEW w \in EWorkers, Looks(w) PROVE \A q \in Requests : Moves(q)
  <2>1. Busy(w) /\ R(w) \in Requests /\ gens' = gens
    BY <1>18, <1>b DEF Looks
  <2>2. Releases(w, [req[R(w)] EXCEPT !.is = "approved"]) => \A q \in Requests : Moves(q)
    BY <2>1, <1>a, StateOf, ReleasesMoves
  <2> QED
    BY <1>18, <2>2, <1>0 DEF Looks, Back
<1>19. ASSUME NEW w \in EWorkers, LooksAgain(w) PROVE \A q \in Requests : Moves(q)
  <2>1. Busy(w) /\ R(w) \in Requests /\ gens' = gens
    BY <1>19, <1>b DEF LooksAgain
  <2>2. Releases(w, [req[R(w)] EXCEPT !.is = "approved"]) => \A q \in Requests : Moves(q)
    BY <2>1, <1>a, StateOf, ReleasesMoves
  <2> QED
    BY <1>19, <2>2, <1>0 DEF LooksAgain, Back
<1>20. ASSUME NEW w \in EWorkers, PurgesMailbox(w) PROVE \A q \in Requests : Moves(q)
  <2>1. Busy(w) /\ R(w) \in Requests /\ gens' = gens
    BY <1>20, <1>b DEF PurgesMailbox
  <2>2. Releases(w, [req[R(w)] EXCEPT !.is = "approved"]) => \A q \in Requests : Moves(q)
    BY <2>1, <1>a, StateOf, ReleasesMoves
  <2> QED
    BY <1>20, <2>2, <1>0 DEF PurgesMailbox, Back
<1>21. ASSUME NEW w \in EWorkers, WaitsForPlugins(w) PROVE \A q \in Requests : Moves(q)
  <2>1. Busy(w) /\ R(w) \in Requests /\ gens' = gens
    BY <1>21, <1>b DEF WaitsForPlugins
  <2>2. Releases(w, [req[R(w)] EXCEPT !.is = "approved"]) => \A q \in Requests : Moves(q)
    BY <2>1, <1>a, StateOf, ReleasesMoves
  <2> QED
    BY <1>21, <2>2, <1>0 DEF WaitsForPlugins, Back
<1>22. ASSUME NEW w \in EWorkers, ReadsMailbox(w) PROVE \A q \in Requests : Moves(q)
  <2>1. Busy(w) /\ R(w) \in Requests /\ gens' = gens
    BY <1>22, <1>b DEF ReadsMailbox
  <2>2. Releases(w, [req[R(w)] EXCEPT !.is = "denied"]) => \A q \in Requests : Moves(q)
    BY <2>1, <1>a, StateOf, ReleasesMoves
  <2> QED
    BY <1>22, <2>2, <1>0 DEF ReadsMailbox, Back
<1>23. ASSUME NEW w \in EWorkers, Claims(w) PROVE \A q \in Requests : Moves(q)
  <2>1. Busy(w) /\ R(w) \in Requests /\ gens' = gens
    BY <1>23, <1>b DEF Claims
  <2>2. Puts(w, [req[R(w)] EXCEPT !.is = "in_progress"], {w}) => \A q \in Requests : Moves(q)
    BY <1>23, <2>1, <1>a, StateOf, PutsMoves DEF Running
  <2> QED
    BY <1>23, <2>2, <1>0 DEF Claims
<1>24. ASSUME NEW w \in EWorkers, Completes(w) PROVE \A q \in Requests : Moves(q)
  <2>1. Busy(w) /\ R(w) \in Requests /\ gens' = gens
    BY <1>24, <1>b DEF Completes
  <2>2. Puts(w, [req[R(w)] EXCEPT !.is = "completed"], {}) => \A q \in Requests : Moves(q)
    BY <1>24, <2>1, <1>a, StateOf, PutsMoves DEF Running
  <2> QED
    BY <1>24, <2>2, <1>0 DEF Completes
<1>25. ASSUME NEW w \in EWorkers, ReadsBatch(w) PROVE \A q \in Requests : Moves(q)
  BY <1>25, <1>0, <1>b, <1>a DEF ReadsBatch, Puts, RequestsOK, Moves
<1>26. ASSUME NEW w \in EWorkers, EndsCascade(w) PROVE \A q \in Requests : Moves(q)
  <2> DEFINE n == req[R(w)].tries + 1
             is == IF NoMoreTries(n) THEN "failed" ELSE "approved"
             row == [req[R(w)] EXCEPT !.is = is, !.tries = n]
  <2>1. Busy(w) /\ R(w) \in Requests /\ gens' = gens /\ is \in {"approved", "failed"}
    BY <1>26, <1>b DEF EndsCascade
  <2>2. Releases(w, row) \/ UNCHANGED req
    BY <1>26 DEF EndsCascade
  <2> HIDE DEF is
  <2>3. row.is = is /\ row.gen = req[R(w)].gen /\ row.leftover = req[R(w)].leftover
    BY <2>1, <1>a DEF RequestRow
  <2> HIDE DEF row
  <2> QED
    BY <2>1, <2>2, <2>3, <1>0, <1>a, ReleasesMoves
<1> QED
  BY <1>1, <1>2, <1>3, <1>4, <1>5, <1>6, <1>7, <1>8, <1>9, <1>10, <1>11, <1>12, <1>13, <1>14, <1>15, <1>16,
      <1>17, <1>18, <1>19, <1>20, <1>21, <1>22, <1>23, <1>24, <1>25, <1>26 DEF ErNext, WorkerSteps

\* How a worker changes: it stops, picks a request, or goes on with the one it has; it reads a version only
\* by picking it.
Went(w) ==
    \/ job'[w] = job[w] \/ job'[w] = Off
    \/ \E r \in Requests : job[w].at = "idle" /\ job'[w] = [Off EXCEPT !.at = "look",
        !.r = r] /\ req[r].is \in Running
    \/ Busy(w) /\ job'[w].at # "idle" /\ job'[w].r = job[w].r
Own(w) == job'[w] = job[w] \/ WorkerSteps(w) \/ WorkerDies(w) \/ \E r \in Requests : Picks(w, r)
Reading(w) == \A r \in Requests : w \in fresh'[r] => w \in fresh[r] \/ job[w].at = "idle"

\* Every step moves every worker so.
LEMMA WorkersMove ==
    ASSUME Base, [ErNext]_erVars
    PROVE  job' \in [EWorkers -> WorkerState] /\ \A w \in EWorkers : Went(w) /\ Own(w) /\ Reading(w)
<1> USE DEF hold, place, filed, ghosts
<1>a. /\ RequestsOK /\ job \in [EWorkers -> WorkerState] /\ \A w \in EWorkers : Busy(w) <=> job[w].at # "idle"
      /\ \A w \in EWorkers : Busy(w) => R(w) \in Requests
  BY DEF Base, WorkersOK, Busy
<1>b. \A x \in Rows : data[x] \in Gens
  BY DEF Base, Places
<1>c. box \in Gens
  BY Numbers DEF Base, Places, Gens
<1>d. Off \in WorkerState
  BY Numbers DEF Off, WorkerState, Phases, Gens
<1>0. CASE UNCHANGED job /\ \A w \in EWorkers : Reading(w)
  BY <1>0, <1>a DEF Went, Own
<1>1. CASE UNCHANGED <<job, fresh>>
  BY <1>1, <1>0 DEF Reading
\* A step of worker w, from its own record.
<1>2. ASSUME NEW w \in EWorkers, WorkerSteps(w) \/ WorkerDies(w), NEW j \in WorkerState,
    job' = [job EXCEPT ![w] = j], j = Off \/ (Busy(w) /\ j.at # "idle" /\ j.r = job[w].r),
             UNCHANGED fresh \/ (R(w) \in Requests /\ (\E s : fresh' = [fresh EXCEPT ![R(w)] = s] /\ s \subseteq fresh[R(w)]))
      PROVE  job' \in [EWorkers -> WorkerState] /\ \A q \in EWorkers : Went(q) /\ Own(q) /\ Reading(q)
  BY <1>2, <1>a DEF Went, Own, Reading, RequestsOK
<1>3. \A w \in EWorkers, at \in Phases : [job[w] EXCEPT !.at = at] \in WorkerState
      /\ [job[w] EXCEPT !.at = at].at = at /\ [job[w] EXCEPT !.at = at].r = job[w].r
  BY <1>a DEF WorkerState
<1>4. CASE CreateLooks
  BY <1>4, <1>1 DEF CreateLooks
<1>5. CASE CreateWrites
  BY <1>5, <1>1 DEF CreateWrites
<1>6. CASE DeleteLooks
  BY <1>6, <1>1 DEF DeleteLooks
<1>7. CASE DeleteWrites
  BY <1>7, <1>1 DEF DeleteWrites
<1>8. CASE FileLooks
  BY <1>8, <1>1 DEF FileLooks
<1>9. CASE MatterChanges
  BY <1>9, <1>1 DEF MatterChanges
<1>10. CASE UNCHANGED erVars
  BY <1>10, <1>1 DEF erVars
<1>11. ASSUME NEW x \in Rows,
    Written(x) PROVE job' \in [EWorkers -> WorkerState] /\ \A q \in EWorkers : Went(q) /\ Own(q) /\ Reading(q)
  BY <1>11, <1>1 DEF Written
<1>12. CASE FileWrites
  BY <1>12, <1>0, <1>a DEF FileWrites, Sets, RequestsOK, Reading
<1>13. ASSUME NEW r \in Requests,
    OwnerCreates(r) PROVE job' \in [EWorkers -> WorkerState] /\ \A q \in EWorkers : Went(q) /\ Own(q) /\ Reading(q)
  BY <1>13, <1>0, <1>a DEF OwnerCreates, Sets, RequestsOK, Reading
<1>14. ASSUME NEW r \in Requests,
    OwnerSettles(r) PROVE job' \in [EWorkers -> WorkerState] /\ \A q \in EWorkers : Went(q) /\ Own(q) /\ Reading(q)
  BY <1>14, <1>0, <1>a DEF OwnerSettles, Sets, RequestsOK, Reading
<1>15. ASSUME NEW r \in Requests,
    Approve(r) PROVE job' \in [EWorkers -> WorkerState] /\ \A q \in EWorkers : Went(q) /\ Own(q) /\ Reading(q)
  BY <1>15, <1>0, <1>a DEF Approve, Sets, RequestsOK, Reading
<1>16. ASSUME NEW r \in Requests,
    Deny(r) PROVE job' \in [EWorkers -> WorkerState] /\ \A q \in EWorkers : Went(q) /\ Own(q) /\ Reading(q)
  BY <1>16, <1>0, <1>a DEF Deny, Sets, RequestsOK, Reading
<1>17. ASSUME NEW r \in Requests,
    LeaseLapses(r) PROVE job' \in [EWorkers -> WorkerState] /\ \A q \in EWorkers : Went(q) /\ Own(q) /\ Reading(q)
  BY <1>17, <1>0, <1>a DEF LeaseLapses, Sets, RequestsOK, Reading
<1>18. ASSUME NEW w \in EWorkers, NEW r \in Requests, Picks(w,
    r) PROVE job' \in [EWorkers -> WorkerState] /\ \A q \in EWorkers : Went(q) /\ Own(q) /\ Reading(q)
  <2>1. [Off EXCEPT !.at = "look", !.r = r] \in WorkerState
    BY <1>d, Numbers DEF WorkerState, Phases
  <2> QED
    BY <1>18, <2>1, <1>a DEF Picks, Went, Own, Reading, RequestsOK, Running
<1>19. ASSUME NEW w \in EWorkers,
    Looks(w) PROVE job' \in [EWorkers -> WorkerState] /\ \A q \in EWorkers : Went(q) /\ Own(q) /\ Reading(q)
  <2>1. Busy(w) /\ R(w) \in Requests
    BY <1>19, <1>a DEF Looks
  <2>2. UNCHANGED fresh \/ (\E s : fresh' = [fresh EXCEPT ![R(w)] = s] /\ s \subseteq fresh[R(w)])
    BY <1>19, <2>1, <1>a DEF Looks, Releases, Puts, Mine, RequestsOK
  <2>3. job' = [job EXCEPT ![w] = Off] \/ job' = [job EXCEPT ![w] = [job[w] EXCEPT !.at = "claim"]]
    BY <1>19, <1>a DEF Looks, Releases, Stops, Goes, Reads
  <2>4. Off \in WorkerState
    BY <1>d
  <2>5. [job[w] EXCEPT !.at = "claim"] \in WorkerState /\ [job[w] EXCEPT !.at = "claim"].at # "idle" /\ [job[w] EXCEPT !.at = "claim"].r = job[w].r
    BY <1>3 DEF Phases
  <2>6. WorkerSteps(w) \/ WorkerDies(w)
    BY <1>19 DEF WorkerSteps
  <2> QED
    BY <2>1, <2>2, <2>3, <2>4, <2>5, <2>6, <1>2
<1>20. ASSUME NEW w \in EWorkers,
    Claims(w) PROVE job' \in [EWorkers -> WorkerState] /\ \A q \in EWorkers : Went(q) /\ Own(q) /\ Reading(q)
  <2>1. Busy(w) /\ R(w) \in Requests
    BY <1>20, <1>a DEF Claims
  <2>2. UNCHANGED fresh \/ (\E s : fresh' = [fresh EXCEPT ![R(w)] = s] /\ s \subseteq fresh[R(w)])
    BY <1>20, <2>1, <1>a DEF Claims, Releases, Puts, Mine, RequestsOK
  <2>3. job' = [job EXCEPT ![w] = Off] \/ job' = [job EXCEPT ![w] = [job[w] EXCEPT !.at = "mailbox"]]
    BY <1>20, <1>a DEF Claims, Releases, Stops, Goes, Reads
  <2>4. Off \in WorkerState
    BY <1>d
  <2>5. [job[w] EXCEPT !.at = "mailbox"] \in WorkerState /\ [job[w] EXCEPT !.at = "mailbox"].at # "idle" /\ [job[w] EXCEPT !.at = "mailbox"].r = job[w].r
    BY <1>3 DEF Phases
  <2>6. WorkerSteps(w) \/ WorkerDies(w)
    BY <1>20 DEF WorkerSteps
  <2> QED
    BY <2>1, <2>2, <2>3, <2>4, <2>5, <2>6, <1>2
<1>21. ASSUME NEW w \in EWorkers,
    ReadsMailbox(w) PROVE job' \in [EWorkers -> WorkerState] /\ \A q \in EWorkers : Went(q) /\ Own(q) /\ Reading(q)
  <2>1. Busy(w) /\ R(w) \in Requests
    BY <1>21, <1>a DEF ReadsMailbox
  <2>2. UNCHANGED fresh \/ (\E s : fresh' = [fresh EXCEPT ![R(w)] = s] /\ s \subseteq fresh[R(w)])
    BY <1>21, <2>1, <1>a DEF ReadsMailbox, Releases, Puts, Mine, RequestsOK
  <2>3. job' = [job EXCEPT ![w] = Off] \/ job' = [job EXCEPT ![w] = [job[w] EXCEPT !.at = "batch", !.saw = box]]
    BY <1>21, <1>a DEF ReadsMailbox, Releases, Stops, Goes, Reads
  <2>4. Off \in WorkerState
    BY <1>d
  <2>5. [job[w] EXCEPT !.at = "batch", !.saw = box] \in WorkerState /\ [job[w] EXCEPT !.at = "batch",
      !.saw = box].at # "idle" /\ [job[w] EXCEPT !.at = "batch", !.saw = box].r = job[w].r
    BY <1>21, <1>a, <1>b, <1>c, <2>1, Numbers DEF ReadsMailbox, WorkerState, Phases, Rows, Busy, Gens
  <2>6. WorkerSteps(w) \/ WorkerDies(w)
    BY <1>21 DEF WorkerSteps
  <2> QED
    BY <2>1, <2>2, <2>3, <2>4, <2>5, <2>6, <1>2
<1>22. ASSUME NEW w \in EWorkers,
    ReadsBatch(w) PROVE job' \in [EWorkers -> WorkerState] /\ \A q \in EWorkers : Went(q) /\ Own(q) /\ Reading(q)
  <2>1. Busy(w) /\ R(w) \in Requests
    BY <1>22, <1>a DEF ReadsBatch
  <2>2. UNCHANGED fresh \/ (\E s : fresh' = [fresh EXCEPT ![R(w)] = s] /\ s \subseteq fresh[R(w)])
    BY <1>22, <2>1, <1>a DEF ReadsBatch, Releases, Puts, Mine, RequestsOK
  <2>3. job' = [job EXCEPT ![w] = Off] \/ job' = [job EXCEPT ![w] = [job[w] EXCEPT !.pos = job[w].pos + 1]] \/ job' = [job EXCEPT ![w] = [job[w] EXCEPT !.at = "rows",
      !.batch = data[job[w].pos]]]
    BY <1>22, <1>a DEF ReadsBatch, Releases, Stops, Goes, Reads
  <2>4. Off \in WorkerState
    BY <1>d
  <2>5. [job[w] EXCEPT !.pos = job[w].pos + 1] \in WorkerState /\ [job[w] EXCEPT !.pos = job[w].pos + 1].at # "idle" /\ [job[w] EXCEPT !.pos = job[w].pos + 1].r = job[w].r
    BY <1>22, <1>a, <1>b, <1>c, <2>1, Numbers DEF ReadsBatch, WorkerState, Phases, Rows, Busy, Gens
  <2>6. [job[w] EXCEPT !.at = "rows",
      !.batch = data[job[w].pos]] \in WorkerState /\ [job[w] EXCEPT !.at = "rows",
      !.batch = data[job[w].pos]].at # "idle" /\ [job[w] EXCEPT !.at = "rows",
      !.batch = data[job[w].pos]].r = job[w].r
    BY <1>22, <1>a, <1>b, <1>c, <2>1, Numbers DEF ReadsBatch, WorkerState, Phases, Rows, Busy, Gens
  <2>7. WorkerSteps(w) \/ WorkerDies(w)
    BY <1>22 DEF WorkerSteps
  <2> QED
    BY <2>1, <2>2, <2>3, <2>4, <2>5, <2>6, <2>7, <1>2
<1>23. ASSUME NEW w \in EWorkers,
    PurgesRow(w) PROVE job' \in [EWorkers -> WorkerState] /\ \A q \in EWorkers : Went(q) /\ Own(q) /\ Reading(q)
  <2>1. Busy(w) /\ R(w) \in Requests
    BY <1>23, <1>a DEF PurgesRow
  <2>2. UNCHANGED fresh \/ (\E s : fresh' = [fresh EXCEPT ![R(w)] = s] /\ s \subseteq fresh[R(w)])
    BY <1>23, <2>1, <1>a DEF PurgesRow, Releases, Puts, Mine, RequestsOK
  <2>3. job' = [job EXCEPT ![w] = [job[w] EXCEPT !.at = "batch"]] \/ job' = [job EXCEPT ![w] = [job[w] EXCEPT !.at = "batch",
      !.failed = job[w].failed \cup {job[w].pos}]]
    BY <1>23, <1>a DEF PurgesRow, Releases, Stops, Goes, Reads
  <2>4. [job[w] EXCEPT !.at = "batch"] \in WorkerState /\ [job[w] EXCEPT !.at = "batch"].at # "idle" /\ [job[w] EXCEPT !.at = "batch"].r = job[w].r
    BY <1>3 DEF Phases
  <2>5. [job[w] EXCEPT !.at = "batch",
      !.failed = job[w].failed \cup {job[w].pos}] \in WorkerState /\ [job[w] EXCEPT !.at = "batch",
      !.failed = job[w].failed \cup {job[w].pos}].at # "idle" /\ [job[w] EXCEPT !.at = "batch",
      !.failed = job[w].failed \cup {job[w].pos}].r = job[w].r
    <3>1. job[w] \in WorkerState /\ job[w].pos \in Nat /\ job[w].failed \in SUBSET Nat
      BY <1>a, Numbers DEF WorkerState
    <3>2. job[w].failed \cup {job[w].pos} \in SUBSET Nat
      BY <3>1
    <3> QED
      BY <3>1, <3>2 DEF WorkerState, Phases
  <2>6. WorkerSteps(w) \/ WorkerDies(w)
    BY <1>23 DEF WorkerSteps
  <2> QED
    BY <2>1, <2>2, <2>3, <2>4, <2>5, <2>6, <1>2
<1>24. ASSUME NEW w \in EWorkers,
    EndsCascade(w) PROVE job' \in [EWorkers -> WorkerState] /\ \A q \in EWorkers : Went(q) /\ Own(q) /\ Reading(q)
  <2>1. Busy(w) /\ R(w) \in Requests
    BY <1>24, <1>a DEF EndsCascade
  <2>2. UNCHANGED fresh \/ (\E s : fresh' = [fresh EXCEPT ![R(w)] = s] /\ s \subseteq fresh[R(w)])
    BY <1>24, <2>1, <1>a DEF EndsCascade, Releases, Puts, Mine, RequestsOK
  <2>3. job' = [job EXCEPT ![w] = Off] \/ job' = [job EXCEPT ![w] = [job[w] EXCEPT !.at = "again"]]
    BY <1>24, <1>a DEF EndsCascade, Releases, Stops, Goes, Reads
  <2>4. Off \in WorkerState
    BY <1>d
  <2>5. [job[w] EXCEPT !.at = "again"] \in WorkerState /\ [job[w] EXCEPT !.at = "again"].at # "idle" /\ [job[w] EXCEPT !.at = "again"].r = job[w].r
    BY <1>3 DEF Phases
  <2>6. WorkerSteps(w) \/ WorkerDies(w)
    BY <1>24 DEF WorkerSteps
  <2> QED
    BY <2>1, <2>2, <2>3, <2>4, <2>5, <2>6, <1>2
<1>25. ASSUME NEW w \in EWorkers,
    LooksAgain(w) PROVE job' \in [EWorkers -> WorkerState] /\ \A q \in EWorkers : Went(q) /\ Own(q) /\ Reading(q)
  <2>1. Busy(w) /\ R(w) \in Requests
    BY <1>25, <1>a DEF LooksAgain
  <2>2. UNCHANGED fresh \/ (\E s : fresh' = [fresh EXCEPT ![R(w)] = s] /\ s \subseteq fresh[R(w)])
    BY <1>25, <2>1, <1>a DEF LooksAgain, Releases, Puts, Mine, RequestsOK
  <2>3. job' = [job EXCEPT ![w] = Off] \/ job' = [job EXCEPT ![w] = [job[w] EXCEPT !.at = "row"]]
    BY <1>25, <1>a DEF LooksAgain, Releases, Stops, Goes, Reads
  <2>4. Off \in WorkerState
    BY <1>d
  <2>5. [job[w] EXCEPT !.at = "row"] \in WorkerState /\ [job[w] EXCEPT !.at = "row"].at # "idle" /\ [job[w] EXCEPT !.at = "row"].r = job[w].r
    BY <1>3 DEF Phases
  <2>6. WorkerSteps(w) \/ WorkerDies(w)
    BY <1>25 DEF WorkerSteps
  <2> QED
    BY <2>1, <2>2, <2>3, <2>4, <2>5, <2>6, <1>2
<1>26. ASSUME NEW w \in EWorkers,
    PurgesMailbox(w) PROVE job' \in [EWorkers -> WorkerState] /\ \A q \in EWorkers : Went(q) /\ Own(q) /\ Reading(q)
  <2>1. Busy(w) /\ R(w) \in Requests
    BY <1>26, <1>a DEF PurgesMailbox
  <2>2. UNCHANGED fresh \/ (\E s : fresh' = [fresh EXCEPT ![R(w)] = s] /\ s \subseteq fresh[R(w)])
    BY <1>26, <2>1, <1>a DEF PurgesMailbox, Releases, Puts, Mine, RequestsOK
  <2>3. job' = [job EXCEPT ![w] = Off] \/ job' = [job EXCEPT ![w] = [job[w] EXCEPT !.at = "plugins"]]
    BY <1>26, <1>a DEF PurgesMailbox, Releases, Stops, Goes, Reads
  <2>4. Off \in WorkerState
    BY <1>d
  <2>5. [job[w] EXCEPT !.at = "plugins"] \in WorkerState /\ [job[w] EXCEPT !.at = "plugins"].at # "idle" /\ [job[w] EXCEPT !.at = "plugins"].r = job[w].r
    BY <1>3 DEF Phases
  <2>6. WorkerSteps(w) \/ WorkerDies(w)
    BY <1>26 DEF WorkerSteps
  <2> QED
    BY <2>1, <2>2, <2>3, <2>4, <2>5, <2>6, <1>2
<1>27. ASSUME NEW w \in EWorkers,
    WaitsForPlugins(w) PROVE job' \in [EWorkers -> WorkerState] /\ \A q \in EWorkers : Went(q) /\ Own(q) /\ Reading(q)
  <2>1. Busy(w) /\ R(w) \in Requests
    BY <1>27, <1>a DEF WaitsForPlugins
  <2>2. UNCHANGED fresh \/ (\E s : fresh' = [fresh EXCEPT ![R(w)] = s] /\ s \subseteq fresh[R(w)])
    BY <1>27, <2>1, <1>a DEF WaitsForPlugins, Releases, Puts, Mine, RequestsOK
  <2>3. job' = [job EXCEPT ![w] = Off] \/ job' = [job EXCEPT ![w] = [job[w] EXCEPT !.at = "complete"]]
    BY <1>27, <1>a DEF WaitsForPlugins, Releases, Stops, Goes, Reads
  <2>4. Off \in WorkerState
    BY <1>d
  <2>5. [job[w] EXCEPT !.at = "complete"] \in WorkerState /\ [job[w] EXCEPT !.at = "complete"].at # "idle" /\ [job[w] EXCEPT !.at = "complete"].r = job[w].r
    BY <1>3 DEF Phases
  <2>6. WorkerSteps(w) \/ WorkerDies(w)
    BY <1>27 DEF WorkerSteps
  <2> QED
    BY <2>1, <2>2, <2>3, <2>4, <2>5, <2>6, <1>2
<1>28. ASSUME NEW w \in EWorkers,
    Completes(w) PROVE job' \in [EWorkers -> WorkerState] /\ \A q \in EWorkers : Went(q) /\ Own(q) /\ Reading(q)
  <2>1. Busy(w) /\ R(w) \in Requests
    BY <1>28, <1>a DEF Completes
  <2>2. UNCHANGED fresh \/ (\E s : fresh' = [fresh EXCEPT ![R(w)] = s] /\ s \subseteq fresh[R(w)])
    BY <1>28, <2>1, <1>a DEF Completes, Releases, Puts, Mine, RequestsOK
  <2>3. job' = [job EXCEPT ![w] = Off]
    BY <1>28, <1>a DEF Completes, Releases, Stops, Goes, Reads
  <2>4. Off \in WorkerState
    BY <1>d
  <2>5. WorkerSteps(w) \/ WorkerDies(w)
    BY <1>28 DEF WorkerSteps
  <2> QED
    BY <2>1, <2>2, <2>3, <2>4, <2>5, <1>2
<1>29. ASSUME NEW w \in EWorkers,
    WorkerDies(w) PROVE job' \in [EWorkers -> WorkerState] /\ \A q \in EWorkers : Went(q) /\ Own(q) /\ Reading(q)
  <2>1. Busy(w) /\ R(w) \in Requests
    BY <1>29, <1>a DEF WorkerDies
  <2>2. UNCHANGED fresh \/ (\E s : fresh' = [fresh EXCEPT ![R(w)] = s] /\ s \subseteq fresh[R(w)])
    BY <1>29, <2>1, <1>a DEF WorkerDies, Releases, Puts, Mine, RequestsOK
  <2>3. job' = [job EXCEPT ![w] = Off]
    BY <1>29, <1>a DEF WorkerDies, Releases, Stops, Goes, Reads
  <2>4. Off \in WorkerState
    BY <1>d
  <2>5. WorkerSteps(w) \/ WorkerDies(w)
    BY <1>29 DEF WorkerSteps
  <2> QED
    BY <2>1, <2>2, <2>3, <2>4, <2>5, <1>2
<1> QED
  BY <1>4, <1>5, <1>6, <1>7, <1>8, <1>9, <1>10, <1>11, <1>12, <1>13, <1>14, <1>15, <1>16, <1>17, <1>18, <1>19,
      <1>20, <1>21, <1>22, <1>23, <1>24, <1>25, <1>26, <1>27, <1>28, <1>29 DEF ErNext, WorkerSteps

\* What the variables are, and that a worker is at an approved request, is inductive.
LEMMA BaseStep ==
    ASSUME Base, [ErNext]_erVars
    PROVE  Base'
<1>1. Places' /\ RequestsOK'
  BY PlacesStep, RequestsStep
<1>2. job' \in [EWorkers -> WorkerState]
  BY WorkersMove
<1>3. ASSUME NEW w \in EWorkers, job'[w].at # "idle"
      PROVE  job'[w].r \in Requests /\ req'[job'[w].r].is \notin {"none", "pending"}
  <2>1. \A r \in Requests : req[r].is \notin {"none", "pending"} => req'[r].is \notin {"none", "pending"}
    BY RequestMoves DEF Moves, Decided, Handled
  <2>2. Went(w)
    BY WorkersMove
  <2>3. job'[w] # Off
    BY <1>3 DEF Off
  <2>4. CASE Busy(w) /\ job'[w].r = job[w].r
    BY <2>1, <2>4 DEF Base, WorkersOK, R
  <2>5. ASSUME NEW r \in Requests, job'[w] = [Off EXCEPT !.at = "look", !.r = r], req[r].is \in Running
        PROVE  job'[w].r = r /\ req[r].is \notin {"none", "pending"}
    BY <2>5 DEF Off, Running
  <2> QED
    BY <1>3, <2>1, <2>2, <2>3, <2>4, <2>5 DEF Went, Base, WorkersOK, Busy, R
<1> QED
  BY <1>1, <1>2, <1>3 DEF Base, WorkersOK, Busy, R

\* How the place changes: a row is purged by a worker, or comes with a new mailbox or into the present one;
\* the mailbox goes by a delete or a purge, and comes as a new incarnation.
Purged(x) == data'[x] = 0 /\ \E w \in EWorkers : job[w].at = "rows" /\ job[w].pos = x /\ SameUid(w)
Comes(x) ==
    \/ data'[x] = gens + 1 /\ gens' = gens + 1
    \/ /\ data'[x] = box /\ box # 0 /\ gens' = gens
       /\ (\E r \in Requests : req[r].is \in Running \cup {"completed"} /\ req[r].gen = box) => x \in late'
DataMoves == \A x \in Rows : (data'[x] = data[x] /\ (x \in late => x \in late')) \/ Purged(x) \/ Comes(x)
BoxLeaves == box' = 0 /\ (admin = "delete" \/ \E w \in EWorkers : job[w].at = "row" /\ job[w].saw # 0)
BoxMoves == box' = box \/ BoxLeaves \/ (box' = gens + 1 /\ gens' = gens + 1)
AclMoves == acl' = acl \/ acl' # 0 \/ admin = "delete" \/ \E w \in EWorkers : job[w].at = "row"
Incarnations ==
    /\ gens' = gens \/ (gens' = gens + 1 /\ admin = "create")
    /\ admin' = "create" => admin = "create" \/ ~RunningErasure
    /\ kept => kept'

\* Every step moves the place so.
LEMMA PlaceMoves ==
    ASSUME Base, [ErNext]_erVars
    PROVE  DataMoves /\ BoxMoves /\ AclMoves /\ Incarnations
<1> USE DEF Base, Places, Gens, hold, place, filed, ghosts, DataMoves, BoxMoves, AclMoves, Incarnations
<1> USE Numbers, FolderIs
<1>0. CASE UNCHANGED <<place, gens, admin, late, kept>>
  BY <1>0
<1>1. CASE MatterChanges
  BY <1>1, <1>0 DEF MatterChanges
<1>2. CASE UNCHANGED erVars
  BY <1>2, <1>0 DEF erVars
<1>3. CASE CreateLooks
  BY <1>3 DEF CreateLooks, CreateMayGoOn
<1>4. CASE CreateWrites
  BY <1>4 DEF CreateWrites, Comes
<1>5. CASE DeleteLooks
  BY <1>5 DEF DeleteLooks
<1>6. CASE DeleteWrites
  BY <1>6 DEF DeleteWrites, BoxLeaves
<1>7. CASE FileLooks
  BY <1>7 DEF FileLooks
<1>8. CASE FileWrites
  BY <1>8 DEF FileWrites
<1>9. ASSUME NEW x \in Rows, Written(x) PROVE DataMoves /\ BoxMoves /\ AclMoves /\ Incarnations
  BY <1>9 DEF Written, Comes
<1>10. ASSUME NEW r \in Requests, OwnerCreates(r) PROVE DataMoves /\ BoxMoves /\ AclMoves /\ Incarnations
  BY <1>10, <1>0 DEF OwnerCreates
<1>11. ASSUME NEW r \in Requests, OwnerSettles(r) PROVE DataMoves /\ BoxMoves /\ AclMoves /\ Incarnations
  BY <1>11, <1>0 DEF OwnerSettles
<1>12. ASSUME NEW r \in Requests, Approve(r) PROVE DataMoves /\ BoxMoves /\ AclMoves /\ Incarnations
  BY <1>12, <1>0 DEF Approve
<1>13. ASSUME NEW r \in Requests, Deny(r) PROVE DataMoves /\ BoxMoves /\ AclMoves /\ Incarnations
  BY <1>13, <1>0 DEF Deny
<1>14. ASSUME NEW r \in Requests, LeaseLapses(r) PROVE DataMoves /\ BoxMoves /\ AclMoves /\ Incarnations
  BY <1>14, <1>0 DEF LeaseLapses
<1>15. ASSUME NEW w \in EWorkers, NEW r \in Requests, Picks(w,
    r) PROVE DataMoves /\ BoxMoves /\ AclMoves /\ Incarnations
  BY <1>15, <1>0 DEF Picks
<1>16. ASSUME NEW w \in EWorkers, Looks(w) PROVE DataMoves /\ BoxMoves /\ AclMoves /\ Incarnations
  BY <1>16, <1>0 DEF Looks
<1>17. ASSUME NEW w \in EWorkers, Claims(w) PROVE DataMoves /\ BoxMoves /\ AclMoves /\ Incarnations
  BY <1>17, <1>0 DEF Claims
<1>18. ASSUME NEW w \in EWorkers, ReadsMailbox(w) PROVE DataMoves /\ BoxMoves /\ AclMoves /\ Incarnations
  BY <1>18, <1>0 DEF ReadsMailbox
<1>19. ASSUME NEW w \in EWorkers, ReadsBatch(w) PROVE DataMoves /\ BoxMoves /\ AclMoves /\ Incarnations
  BY <1>19, <1>0 DEF ReadsBatch
<1>20. ASSUME NEW w \in EWorkers, PurgesRow(w) PROVE DataMoves /\ BoxMoves /\ AclMoves /\ Incarnations
  BY <1>20 DEF PurgesRow, Purged
<1>21. ASSUME NEW w \in EWorkers, EndsCascade(w) PROVE DataMoves /\ BoxMoves /\ AclMoves /\ Incarnations
  BY <1>21, <1>0 DEF EndsCascade
<1>22. ASSUME NEW w \in EWorkers, LooksAgain(w) PROVE DataMoves /\ BoxMoves /\ AclMoves /\ Incarnations
  BY <1>22, <1>0 DEF LooksAgain
<1>23. ASSUME NEW w \in EWorkers, PurgesMailbox(w) PROVE DataMoves /\ BoxMoves /\ AclMoves /\ Incarnations
  BY <1>23 DEF PurgesMailbox, BoxLeaves
<1>24. ASSUME NEW w \in EWorkers, WaitsForPlugins(w) PROVE DataMoves /\ BoxMoves /\ AclMoves /\ Incarnations
  BY <1>24, <1>0 DEF WaitsForPlugins
<1>25. ASSUME NEW w \in EWorkers, Completes(w) PROVE DataMoves /\ BoxMoves /\ AclMoves /\ Incarnations
  BY <1>25, <1>0 DEF Completes
<1>26. ASSUME NEW w \in EWorkers, WorkerDies(w) PROVE DataMoves /\ BoxMoves /\ AclMoves /\ Incarnations
  BY <1>26, <1>0 DEF WorkerDies
<1> QED
  BY <1>1, <1>2, <1>3, <1>4, <1>5, <1>6, <1>7, <1>8, <1>9, <1>10, <1>11, <1>12, <1>13, <1>14, <1>15, <1>16,
      <1>17, <1>18, <1>19, <1>20, <1>21, <1>22, <1>23, <1>24, <1>25, <1>26 DEF ErNext, WorkerSteps

\* Nothing a request at work or completed must take comes back, and the mailbox it is for does not either.
LEMMA NothingReturns ==
    ASSUME Base, [ErNext]_erVars, NEW r \in Requests, req[r].is \in Running \cup {"completed"},
        req'[r].gen = req[r].gen
    PROVE  (\A x \in Rows : Old(r, x)' => Old(r, x)) /\ (OldBox(r)' => OldBox(r))
<1>1. gens \in Nat /\ req[r].gen \in Nat /\ req[r].gen <= gens /\ \A x \in Rows : data[x] \in Nat
  BY Numbers DEF Base, Places, RequestsOK, RowOK, RequestRow, Gens
<1>2. box \in {0, gens}
  BY DEF Base, Places
<1>3. ASSUME NEW x \in Rows, data'[x] \in 1..req[r].gen, x \notin late'
      PROVE  Old(r, x)
  <2>1. CASE Comes(x)
    BY <1>1, <1>2, <1>3, <2>1 DEF Comes
  <2>2. CASE Purged(x)
    BY <1>1, <1>3, <2>2 DEF Purged
  <2>3. CASE data'[x] = data[x] /\ (x \in late => x \in late')
    BY <1>3, <2>3 DEF Old
  <2> QED
    BY <2>1, <2>2, <2>3, PlaceMoves DEF DataMoves
<1>4. OldBox(r)' => OldBox(r)
  BY <1>1, <1>2, PlaceMoves DEF BoxMoves, BoxLeaves, OldBox
<1> QED
  BY <1>3, <1>4 DEF Old

\* A request for leftovers keeps the mailbox from being created again while it runs.
LEMMA LeftoversStep ==
    ASSUME Base, Leftovers, [ErNext]_erVars
    PROVE  Leftovers'
<1> SUFFICES ASSUME NEW r \in Requests, req'[r].is \in Running, req'[r].leftover
             PROVE  admin' # "create" /\ req'[r].gen = gens'
  BY DEF Leftovers
<1>1. Incarnations
  BY PlaceMoves
<1>2. CASE req[r].is \in Running /\ req'[r].gen = req[r].gen /\ req'[r].leftover = req[r].leftover
  BY <1>1, <1>2 DEF Leftovers, Incarnations, RunningErasure
<1>3. CASE Decided(r)
  BY <1>3 DEF Decided, Running
<1> QED
  BY <1>2, <1>3, RequestMoves DEF Moves, Handled

\* The first look at the holds comes before all else.
LEMMA WarnedStep ==
    ASSUME Base, Warned, [ErNext]_erVars
    PROVE  Warned'
<1> SUFFICES ASSUME NEW w \in EWorkers, Held(Address)', job'[w].at \notin {"idle", "look"}
             PROVE  w \in warned'
  BY DEF Warned
<1>0. job \in [EWorkers -> WorkerState]
  BY DEF Base, WorkersOK
<1>1. CASE MatterChanges
  BY <1>1 DEF MatterChanges, Warned
<1>2. CASE ~MatterChanges
  <2>1. UNCHANGED matter /\ (warned' = warned \/ \E q \in EWorkers, r \in Requests : Picks(q, r))
    <3>1. CASE \/ CreateLooks \/ CreateWrites \/ DeleteLooks \/ DeleteWrites \/ FileLooks \/ FileWrites
               \/ \E x \in Rows : Written(x)
      BY <3>1 DEF hold, ghosts, CreateLooks, CreateWrites, DeleteLooks, DeleteWrites, FileLooks, FileWrites, Written
    <3>2. ASSUME NEW r \in Requests,
                 OwnerCreates(r) \/ OwnerSettles(r) \/ Approve(r) \/ Deny(r) \/ LeaseLapses(r)
          PROVE  UNCHANGED <<matter, warned>>
      BY <3>2 DEF hold, ghosts, OwnerCreates, OwnerSettles, Approve, Deny, LeaseLapses
    <3>3. ASSUME NEW q \in EWorkers,
                 \/ Looks(q) \/ Claims(q) \/ ReadsMailbox(q) \/ ReadsBatch(q) \/ PurgesRow(q) \/ EndsCascade(q)
          PROVE  UNCHANGED <<matter, warned>>
      BY <3>3 DEF hold, ghosts, Looks, Claims, ReadsMailbox, ReadsBatch, PurgesRow, EndsCascade
    <3>4. ASSUME NEW q \in EWorkers,
                 \/ LooksAgain(q) \/ PurgesMailbox(q) \/ WaitsForPlugins(q) \/ Completes(q) \/ WorkerDies(q)
          PROVE  UNCHANGED <<matter, warned>>
      BY <3>4 DEF hold, ghosts, LooksAgain, PurgesMailbox, WaitsForPlugins, Completes, WorkerDies
    <3>5. ASSUME NEW q \in EWorkers, NEW r \in Requests, Picks(q, r) PROVE UNCHANGED matter
      BY <3>5 DEF Picks, hold
    <3>6. CASE UNCHANGED erVars BY <3>6 DEF erVars, hold, ghosts
    <3> QED
      BY <1>2, <3>1, <3>2, <3>3, <3>4, <3>5, <3>6 DEF ErNext, WorkerSteps
  <2>2. Held(Address)
    BY <2>1 DEF Held, Holds
  <2>3. job[w].at \notin {"idle", "look"}
    <3>1. ASSUME NEW r \in Requests, Picks(w, r) PROVE FALSE
      BY <3>1, <1>0 DEF Picks, Off
    <3>2. ASSUME WorkerSteps(w) \/ WorkerDies(w), job[w].at \in {"idle", "look"} PROVE FALSE
      <4>1. Looks(w)
        BY <3>2, <1>0 DEF WorkerSteps, Looks, Claims, ReadsMailbox, ReadsBatch, PurgesRow, EndsCascade,
            LooksAgain, PurgesMailbox, WaitsForPlugins, Completes, WorkerDies, Stops, Off
      <4> QED
        BY <4>1, <2>2, <1>0 DEF Looks, FirstLook, Releases, Stops, Off
    <3> QED
      BY <3>1, <3>2, WorkersMove DEF Own
  <2>4. ASSUME NEW q \in EWorkers, NEW r \in Requests, Picks(q, r) PROVE w \in warned'
    <3>1. w # q
      BY <2>3, <2>4, <1>0 DEF Picks
    <3> QED
      BY <2>2, <2>3, <2>4, <3>1 DEF Picks, Warned
  <2> QED
    BY <2>1, <2>2, <2>3, <2>4 DEF Warned
<1> QED
  BY <1>1, <1>2

\* A worker that goes on goes on with the same request, which keeps its approval.
LEMMA SameRequest ==
    ASSUME Base, [ErNext]_erVars, NEW w \in EWorkers, Busy(w)
    PROVE  /\ R(w) \in Requests
           /\ req'[R(w)].gen = req[R(w)].gen /\ req'[R(w)].leftover = req[R(w)].leftover
           /\ w \in fresh'[R(w)] => Mine(w) /\ req[R(w)].is \in Running
<1>1. R(w) \in Requests /\ req[R(w)].is \notin {"none", "pending"}
  BY DEF Base, WorkersOK
<1>2. req'[R(w)].gen = req[R(w)].gen /\ req'[R(w)].leftover = req[R(w)].leftover
  BY <1>1, RequestMoves DEF Moves, Decided, Handled
<1>3. w \in fresh'[R(w)] => Mine(w)
  BY <1>1, WorkersMove DEF Reading, Busy, Mine
<1> QED
  BY <1>1, <1>2, <1>3 DEF Base, RequestsOK, Mine

\* A worker for leftovers never takes hold of what came after its request.
LEMMA InHandStep ==
    ASSUME Base, Leftovers, InHand, [ErNext]_erVars
    PROVE  InHand'
<1> SUFFICES ASSUME NEW w \in EWorkers, job'[w].at # "idle", req'[job'[w].r].leftover
             PROVE  job'[w].saw = 0 /\ (job'[w].at = "rows" => job'[w].batch <= req'[job'[w].r].gen)
  BY DEF InHand, Busy, R
<1>0. job \in [EWorkers -> WorkerState] /\ RequestsOK /\ \A x \in Rows : data[x] \in Nat /\ data[x] <= gens
  BY Numbers DEF Base, WorkersOK, Places, Gens
<1>1. ASSUME NEW r \in Requests, job'[w] = [Off EXCEPT !.at = "look", !.r = r]
      PROVE  job'[w].saw = 0 /\ job'[w].at # "rows"
  BY <1>1 DEF Off
<1>2. CASE Busy(w) /\ job'[w].r = job[w].r
  <2>1. req[R(w)].leftover /\ req'[job'[w].r].gen = req[R(w)].gen /\ R(w) \in Requests
    BY <1>2, SameRequest DEF R
  <2>2. job[w].saw = 0 /\ (job[w].at = "rows" => job[w].batch <= req[R(w)].gen)
    BY <1>2, <2>1 DEF InHand
  <2>3. CASE job'[w] = job[w]
    BY <2>1, <2>2, <2>3
  <2>4. CASE ReadsMailbox(w)
    <3>1. job'[w].saw = 0 /\ job'[w].at # "rows"
      BY <2>1, <2>4, <1>0 DEF ReadsMailbox, LeftoverOnly, Releases, Stops, Off, WorkerState
    <3> QED
      BY <3>1
  <2>5. CASE ReadsBatch(w)
    <3>1. job'[w].saw = 0
      BY <2>2, <2>5, <1>0, <1>2 DEF ReadsBatch, Reads, Stops, Off, WorkerState
    <3>2. job'[w].at # "rows" \/ (job'[w].batch = data[job[w].pos] /\ Mine(w) /\ job[w].pos \in Rows)
      BY <2>5, <1>0 DEF ReadsBatch, Reads, Stops, Off, Puts, WorkerState
    <3>3. Mine(w) => req[R(w)].gen = gens
      BY <2>1, <1>0 DEF Mine, RequestsOK, Leftovers
    <3> QED
      BY <3>1, <3>2, <3>3, <2>1, <1>0
  <2>6. ASSUME WorkerSteps(w) \/ WorkerDies(w), ~ReadsMailbox(w), ~ReadsBatch(w)
        PROVE  job'[w].saw = 0 /\ job'[w].at # "rows"
    BY <2>2, <2>6, <1>0, <1>2 DEF WorkerSteps, Looks, Claims, ReadsMailbox, ReadsBatch, PurgesRow, EndsCascade,
        LooksAgain, PurgesMailbox, WaitsForPlugins, Completes, WorkerDies, Goes, Stops, Releases, Off,
        WorkerState
  <2>7. ASSUME NEW r \in Requests, Picks(w, r) PROVE FALSE
    BY <2>7, <1>2 DEF Picks, Busy
  <2> QED
    BY <2>3, <2>4, <2>5, <2>6, <2>7, WorkersMove DEF Own
<1>3. job'[w] # Off
  BY DEF Off
<1>4. CASE job'[w] = job[w]
  BY <1>2, <1>4 DEF Busy
<1> QED
  BY <1>1, <1>2, <1>3, <1>4, WorkersMove DEF Went

\* The cascade of a worker that may still record its end is as far as the worker is.
LEMMA CascadesStep ==
    ASSUME Base, Cascades, [ErNext]_erVars
    PROVE  Cascades'
<1> SUFFICES ASSUME NEW w \in EWorkers, job'[w].at # "idle", w \in fresh'[job'[w].r]
             PROVE  RowsGone(w)' /\ BoxGone(w)'
  BY DEF Cascades, Busy, R, Mine
<1>0. job \in [EWorkers -> WorkerState] /\ RequestsOK /\ (kept => kept') /\ NRows \in Nat /\ Rows = 1..NRows
  BY Numbers, PlaceMoves DEF Base, WorkersOK, Incarnations, Rows
<1>1. ASSUME NEW r \in Requests, job'[w] = [Off EXCEPT !.at = "look", !.r = r]
      PROVE  RowsGone(w)' /\ BoxGone(w)'
  <2>1. job'[w].at = "look" /\ job'[w].pos = 1
    BY <1>1 DEF Off
  <2> QED
    BY <2>1, <1>0 DEF RowsGone, BoxGone
<1>2. CASE Busy(w) /\ job'[w].r = job[w].r
  <2>0. PICK r \in Requests : job[w].r = r
    BY <1>2, SameRequest DEF R
  <2>1. Mine(w) /\ req[r].is \in Running /\ req'[r].gen = req[r].gen
    BY <1>2, <2>0, SameRequest DEF R
  <2>2. RowsGone(w) /\ BoxGone(w)
    BY <1>2, <2>1 DEF Cascades
  <2>3. (\A x \in Rows : Old(r, x)' => Old(r, x)) /\ (OldBox(r)' => OldBox(r))
    BY <2>1, NothingReturns
  <2>5. ASSUME \A x \in Rows : Old(r, x) =>
                   /\ job'[w].at \notin {"again", "row", "plugins", "complete"}
                   /\ job'[w].at \in {"look", "claim", "mailbox", "batch",
                       "rows"} => x >= job'[w].pos \/ x \in job'[w].failed
        PROVE  RowsGone(w)'
    BY <2>0, <2>3, <2>5, <1>2 DEF RowsGone, Old, R
  <2>6. ASSUME job'[w].at \in {"batch", "rows", "again", "row"} /\ job'[w].saw = 0 => ~OldBox(r),
               job'[w].at \in {"plugins", "complete"} /\ OldBox(r)' => kept'
        PROVE  BoxGone(w)'
    BY <2>0, <2>3, <2>6, <1>2 DEF BoxGone, OldBox, R
  <2>7. \A x \in Rows : Old(r, x) =>
                   /\ job[w].at \notin {"again", "row", "plugins", "complete"}
                   /\ job[w].at \in {"look", "claim", "mailbox", "batch",
                       "rows"} => x >= job[w].pos \/ x \in job[w].failed
    BY <2>0, <2>2 DEF RowsGone, Old, R
  <2>8. /\ job[w].at \in {"batch", "rows", "again", "row"} /\ job[w].saw = 0 => ~OldBox(r)
        /\ job[w].at \in {"plugins", "complete"} /\ OldBox(r) => kept
    BY <2>0, <2>2 DEF BoxGone, OldBox, R
  <2>9. CASE job'[w] = job[w]
    BY <2>3, <2>5, <2>6, <2>7, <2>8, <2>9, <1>0
  <2> USE DEF Stops, Goes, Releases, Off, WorkerState
  <2>10. CASE Looks(w)
    <3>1. RowsGone(w)'
      BY <2>10, <2>5, <2>7, <1>0, <1>2 DEF Looks
    <3>2. BoxGone(w)'
      BY <2>10, <2>3, <2>6, <2>8, <1>0, <1>2 DEF Looks
    <3> QED
      BY <3>1, <3>2
  <2>11. CASE Claims(w)
    <3>0. job[w].at \in {"claim", "rows"} /\ (job'[w].at = "mailbox" \/ job'[w].at = "idle") /\ job'[w].at # "idle"
      BY <2>11, <1>0 DEF Claims
    <3>3. job'[w].at # "idle" => job'[w].pos = job[w].pos /\ job[w].failed \subseteq job'[w].failed
      <4>1. job'[w].at # "idle" => job' = [job EXCEPT ![w].at = "mailbox"]
        BY <2>11, <1>0 DEF Claims
      <4> QED
        BY <4>1, <1>0
    <3>1. RowsGone(w)'
      BY <3>0, <3>3, <2>5, <2>7
    <3>2. BoxGone(w)'
      BY <2>11, <2>3, <2>6, <2>8, <1>0, <1>2 DEF Claims
    <3> QED
      BY <3>1, <3>2
  <2>12. CASE ReadsMailbox(w)
    <3>1. RowsGone(w)'
      BY <2>12, <2>5, <2>7, <1>0, <1>2 DEF ReadsMailbox, OldBox
    <3>2. BoxGone(w)'
      BY <2>12, <2>3, <2>6, <2>8, <1>0, <1>2 DEF ReadsMailbox, OldBox
    <3> QED
      BY <3>1, <3>2
  <2>13. CASE ReadsBatch(w)
    <3>1. RowsGone(w)'
      BY <2>13, <2>5, <2>7, <1>0, <1>2 DEF ReadsBatch, Reads, Old
    <3>2. BoxGone(w)'
      BY <2>13, <2>3, <2>6, <2>8, <1>0, <1>2 DEF ReadsBatch, Reads, Old
    <3> QED
      BY <3>1, <3>2
  <2>14. CASE PurgesRow(w)
    <3>0. job[w].at \in {"claim", "rows"} /\ job'[w].at = "batch"
      BY <2>14, <1>0 DEF PurgesRow
    <3>3. job'[w].at # "idle" => job'[w].pos = job[w].pos /\ job[w].failed \subseteq job'[w].failed
      BY <2>14, <1>0 DEF PurgesRow
    <3>1. RowsGone(w)'
      BY <3>0, <3>3, <2>5, <2>7
    <3>2. BoxGone(w)'
      BY <2>14, <2>3, <2>6, <2>8, <1>0, <1>2 DEF PurgesRow
    <3> QED
      BY <3>1, <3>2
  <2>15. CASE EndsCascade(w)
    <3>1. RowsGone(w)'
      BY <2>15, <2>5, <2>7, <1>0, <1>2 DEF EndsCascade, CascadeEnds
    <3>2. BoxGone(w)'
      BY <2>15, <2>3, <2>6, <2>8, <1>0, <1>2 DEF EndsCascade, CascadeEnds
    <3> QED
      BY <3>1, <3>2
  <2>16. CASE LooksAgain(w)
    <3>1. RowsGone(w)'
      BY <2>16, <2>5, <2>7, <1>0, <1>2 DEF LooksAgain
    <3>2. BoxGone(w)'
      BY <2>16, <2>3, <2>6, <2>8, <1>0, <1>2 DEF LooksAgain
    <3> QED
      BY <3>1, <3>2
  <2>17. CASE PurgesMailbox(w)
    <3>1. RowsGone(w)'
      BY <2>17, <2>5, <2>7, <1>0, <1>2 DEF PurgesMailbox, OldBox
    <3>2. BoxGone(w)'
      BY <2>17, <2>3, <2>6, <2>8, <1>0, <1>2 DEF PurgesMailbox, OldBox
    <3> QED
      BY <3>1, <3>2
  <2>18. CASE WaitsForPlugins(w)
    <3>1. RowsGone(w)'
      BY <2>18, <2>5, <2>7, <1>0, <1>2 DEF WaitsForPlugins
    <3>2. BoxGone(w)'
      BY <2>18, <2>3, <2>6, <2>8, <1>0, <1>2 DEF WaitsForPlugins
    <3> QED
      BY <3>1, <3>2
  <2>19. CASE Completes(w)
    <3>1. RowsGone(w)'
      BY <2>19, <2>5, <2>7, <1>0, <1>2 DEF Completes
    <3>2. BoxGone(w)'
      BY <2>19, <2>3, <2>6, <2>8, <1>0, <1>2 DEF Completes
    <3> QED
      BY <3>1, <3>2
  <2>20. CASE WorkerDies(w)
    <3>1. RowsGone(w)'
      BY <2>20, <2>5, <2>7, <1>0, <1>2 DEF WorkerDies
    <3>2. BoxGone(w)'
      BY <2>20, <2>3, <2>6, <2>8, <1>0, <1>2 DEF WorkerDies
    <3> QED
      BY <3>1, <3>2
  <2>21. ASSUME NEW q \in Requests, Picks(w, q) PROVE FALSE
    BY <2>21, <1>2 DEF Picks, Busy
  <2> QED
    BY <2>9, <2>10, <2>11, <2>12, <2>13, <2>14, <2>15, <2>16, <2>17, <2>18, <2>19, <2>20, <2>21,
        WorkersMove DEF Own, WorkerSteps
<1>3. job'[w] # Off
  BY DEF Off
<1>4. CASE job'[w] = job[w]
  BY <1>2, <1>4 DEF Busy
<1> QED
  BY <1>1, <1>2, <1>3, <1>4, WorkersMove DEF Went

\* A request ends as completed by the worker that completes it.
LEMMA CompletedBy ==
    ASSUME Base, [ErNext]_erVars, NEW r \in Requests, req'[r].is = "completed"
    PROVE  \/ req'[r] = req[r]
           \/ /\ req[r].is \in Running /\ req'[r].gen = req[r].gen
              /\ \E w \in EWorkers : Busy(w) /\ R(w) = r /\ Mine(w) /\ Completes(w)
  BY RequestMoves DEF Moves, Decided, Handled

\* What a completed request found is gone.
LEMMA CompletedStep ==
    ASSUME Base, Cascades, CompletedIsErased, [ErNext]_erVars
    PROVE  CompletedIsErased'
<1> SUFFICES ASSUME NEW r \in Requests, req'[r].is = "completed"
             PROVE  (\A x \in Rows : ~Old(r, x)') /\ (OldBox(r)' => kept')
  BY DEF CompletedIsErased, Old, OldBox
<1>0. kept => kept'
  BY PlaceMoves DEF Incarnations
<1>1. CASE req'[r] = req[r]
  <2>1. (\A x \in Rows : Old(r, x)' => Old(r, x)) /\ (OldBox(r)' => OldBox(r))
    BY <1>1, NothingReturns
  <2> QED
    BY <1>0, <1>1, <2>1 DEF CompletedIsErased, Old, OldBox
<1>2. ASSUME NEW w \in EWorkers, Busy(w), R(w) = r, Mine(w), Completes(w), req[r].is \in Running,
    req'[r].gen = req[r].gen
      PROVE  (\A x \in Rows : ~Old(r, x)') /\ (OldBox(r)' => kept')
  <2>1. (\A x \in Rows : Old(r, x)' => Old(r, x)) /\ (OldBox(r)' => OldBox(r))
    BY <1>2, NothingReturns
  <2>2. job[w].at = "complete" /\ RowsGone(w) /\ BoxGone(w)
    BY <1>2 DEF Completes, Cascades
  <2> QED
    BY <1>0, <1>2, <2>1, <2>2 DEF RowsGone, BoxGone, Old, OldBox
<1> QED
  BY <1>1, <1>2, CompletedBy

\* A completion is recorded where a request becomes completed, and nowhere else.
LEMMA AuditMoves ==
    ASSUME Base, audits \in [Requests -> Nat], [ErNext]_erVars
    PROVE  /\ audits' \in [Requests -> Nat]
           /\ \A r \in Requests : \/ audits'[r] = audits[r]
                                  \/ req[r].is \in Running /\ req'[r].is = "completed" /\ audits'[r] = audits[r] + 1
<1>1. CASE UNCHANGED audits
  BY <1>1
<1>2. ASSUME NEW w \in EWorkers, Completes(w), ~UNCHANGED audits
      PROVE  /\ audits' \in [Requests -> Nat]
             /\ \A r \in Requests : \/ audits'[r] = audits[r]
                                    \/ req[r].is \in Running /\ req'[r].is = "completed" /\ audits'[r] = audits[r] + 1
  <2>1. R(w) \in Requests
    BY <1>2 DEF Completes, Base, WorkersOK, Busy
  <2>2. Mine(w) /\ req' = [req EXCEPT ![R(w)] = [req[R(w)] EXCEPT !.is = "completed"]]
        /\ audits' = [audits EXCEPT ![R(w)] = audits[R(w)] + 1]
    BY <1>2 DEF Completes, Puts
  <2>3. req[R(w)].is \in Running /\ req'[R(w)].is = "completed"
    BY <2>1, <2>2, MineRuns, StateOf DEF Base, RequestsOK
  <2> QED
    BY <2>1, <2>2, <2>3
<1>3. UNCHANGED audits \/ \E w \in EWorkers : Completes(w)
  <2>1. CASE \/ MatterChanges \/ CreateLooks \/ CreateWrites \/ DeleteLooks \/ DeleteWrites \/ FileLooks
             \/ FileWrites \/ \E x \in Rows : Written(x)
    BY <2>1 DEF hold, ghosts, MatterChanges, CreateLooks, CreateWrites, DeleteLooks, DeleteWrites, FileLooks,
        FileWrites, Written
  <2>2. ASSUME NEW r \in Requests, OwnerCreates(r) \/ OwnerSettles(r) \/ Approve(r) \/ Deny(r) \/ LeaseLapses(r)
        PROVE  UNCHANGED audits
    BY <2>2 DEF hold, ghosts, OwnerCreates, OwnerSettles, Approve, Deny, LeaseLapses
  <2>3. ASSUME NEW w \in EWorkers,
               \/ Looks(w) \/ Claims(w) \/ ReadsMailbox(w) \/ ReadsBatch(w) \/ PurgesRow(w) \/ EndsCascade(w)
        PROVE  UNCHANGED audits
    BY <2>3 DEF hold, ghosts, Looks, Claims, ReadsMailbox, ReadsBatch, PurgesRow, EndsCascade
  <2>4. ASSUME NEW w \in EWorkers,
               \/ LooksAgain(w) \/ PurgesMailbox(w) \/ WaitsForPlugins(w) \/ WorkerDies(w)
               \/ \E r \in Requests : Picks(w, r)
        PROVE  UNCHANGED audits
    BY <2>4 DEF hold, ghosts, LooksAgain, PurgesMailbox, WaitsForPlugins, WorkerDies, Picks
  <2>5. CASE UNCHANGED erVars BY <2>5 DEF erVars, ghosts
  <2> QED
    BY <2>1, <2>2, <2>3, <2>4, <2>5 DEF ErNext, WorkerSteps
<1> QED
  BY <1>1, <1>2, <1>3

\* Only the completion of a request adds to its audits, and a completed request stays so.
LEMMA AuditedStep ==
    ASSUME Base, Audited, [ErNext]_erVars
    PROVE  Audited'
<1>1. /\ audits' \in [Requests -> Nat]
      /\ \A r \in Requests : \/ audits'[r] = audits[r]
                             \/ req[r].is \in Running /\ req'[r].is = "completed" /\ audits'[r] = audits[r] + 1
  BY AuditMoves DEF Audited
<1>2. ASSUME NEW r \in Requests
      PROVE  audits'[r] <= (IF req'[r].is = "completed" THEN 1 ELSE 0)
  <2>1. req[r].is = "completed" => req'[r].is = "completed"
    BY RequestMoves DEF Moves, Decided, Handled, Running
  <2>2. audits[r] \in Nat /\ audits[r] <= (IF req[r].is = "completed" THEN 1 ELSE 0)
    BY DEF Audited
  <2> QED
    BY <1>1, <2>1, <2>2 DEF Running
<1> QED
  BY <1>1, <1>2 DEF Audited

-------------------------------------------------------------------------------

\* The invariant holds at first.
LEMMA ErInvInit == ErInit => ErInv
<1> SUFFICES ASSUME ErInit PROVE ErInv
  OBVIOUS
<1>1. Base
  BY BaseInit
<1>2. Leftovers /\ InHand /\ Warned /\ Cascades /\ CompletedIsErased
  BY DEF ErInit, Leftovers, InHand, Warned, Cascades, CompletedIsErased, Busy, NoRequest, Off, Running
<1>3. Audited
  BY DEF ErInit, Audited, NoRequest
<1> QED
  BY <1>1, <1>2, <1>3 DEF ErInv

\* The invariant is inductive.
LEMMA ErInvStep == ErInv /\ [ErNext]_erVars => ErInv'
  BY BaseStep, LeftoversStep, InHandStep, WarnedStep, CascadesStep, AuditedStep, CompletedStep DEF ErInv

\* The invariant holds throughout.
LEMMA ErInvAlways == ErSpec => []ErInv
  BY ErInvInit, ErInvStep, PTL DEF ErSpec

\* What of the invariant the runs check.
LEMMA ErInvHolds == ErInv => ErTypeOK /\ CompletedIsErased /\ OneCompletion
<1> SUFFICES ASSUME ErInv PROVE ErTypeOK /\ CompletedIsErased /\ OneCompletion
  OBVIOUS
<1>1. ErTypeOK
  BY Numbers DEF ErInv, Base, Places, RequestsOK, RequestRow, RequestStates, ErTypeOK, Gens
<1>2. OneCompletion
  BY DEF ErInv, Audited, OneCompletion
<1> QED
  BY <1>1, <1>2 DEF ErInv

\* A row is purged under a hold by a worker the hold came too late for, and so is the mailbox.
StaysHeld ==
    Held(Address) =>
        /\ \A x \in Rows : data[x] # 0 /\ data'[x] = 0 => \E w \in warned : job[w].at = "rows" /\ job[w].pos = x
        /\ (box # 0 /\ box' = 0) \/ (acl # 0 /\ acl' = 0)
              => admin = "delete" \/ \E w \in warned : job[w].at = "row"

\* What can be zero'd: a type's rows by a worker at it, the mailbox by a worker that saw one.
LEMMA OnlyPurges ==
    ASSUME Base, [ErNext]_erVars
    PROVE  /\ \A x \in Rows : data[x] # 0 /\ data'[x] = 0 => Purged(x)
           /\ box # 0 /\ box' = 0 => BoxLeaves
<1>1. gens \in Nat
  BY Numbers DEF Base, Places, Gens
<1> QED
  BY <1>1, PlaceMoves DEF DataMoves, BoxMoves, Comes

\* Under a hold only workers warned too late purge.
LEMMA HeldStep == ErInv /\ [ErNext]_erVars => StaysHeld
<1> SUFFICES ASSUME ErInv, [ErNext]_erVars, Held(Address) PROVE StaysHeld
  BY DEF StaysHeld
<1>1. \A w \in EWorkers : job[w].at \in {"rows", "row"} => w \in warned
  BY DEF ErInv, Warned
<1>2. AclMoves
  BY PlaceMoves DEF ErInv
<1> QED
  BY <1>1, <1>2, OnlyPurges DEF ErInv, StaysHeld, Purged, BoxLeaves, AclMoves

\* Data is purged by a worker, and by one for leftovers only what its request is of (but for a folder read
\* before); the mailbox by its delete or a worker for the whole.
Spared ==
    /\ \A x \in Rows : data[x] # 0 /\ data'[x] = 0 => \E w \in EWorkers :
            job[w].at = "rows" /\ (req[R(w)].leftover => req[R(w)].gen >= data[x] \/ (~Mine(w) /\ x = FolderRow))
    /\ box # 0 /\ box' = 0 /\ admin # "delete" => \E w \in EWorkers :
            job[w].at = "row" /\ ~req[R(w)].leftover

\* A request for leftovers takes nothing of a later incarnation.
LEMMA SparedStep == ErInv /\ [ErNext]_erVars => Spared
<1> SUFFICES ASSUME ErInv, [ErNext]_erVars PROVE Spared
  OBVIOUS
<1>0. Base /\ gens \in Nat /\ \A x \in Rows : data[x] \in Nat /\ data[x] <= gens
  BY Numbers DEF ErInv, Base, Places, Gens
<1>1. ASSUME NEW w \in EWorkers, NEW x \in Rows, job[w].at = "rows", job[w].pos = x, SameUid(w), req[R(w)].leftover
      PROVE  req[R(w)].gen >= data[x] \/ (~Mine(w) /\ x = FolderRow)
  <2>0. R(w) \in Requests /\ req[R(w)] \in RequestRow
    BY <1>0, <1>1 DEF Base, WorkersOK, Busy, RequestsOK
  <2>4. req[R(w)].gen \in Nat
    BY <2>0, Numbers DEF RequestRow, Gens
  <2>5. job[w].batch <= req[R(w)].gen
    BY <1>1 DEF ErInv, InHand, Busy
  <2>1. R(w) \in Requests /\ req[R(w)].gen \in Nat /\ job[w].batch <= req[R(w)].gen
    BY <2>0, <2>4, <2>5
  <2>2. CASE Mine(w)
    BY <1>0, <1>1, <2>1, <2>2 DEF ErInv, Base, RequestsOK, Mine, Leftovers
  <2>3. CASE ~Mine(w)
    BY <1>0, <1>1, <2>1, <2>3 DEF SameUid
  <2> QED
    BY <2>2, <2>3
<1>2. ASSUME NEW w \in EWorkers, job[w].at = "row", job[w].saw # 0
      PROVE  ~req[R(w)].leftover
  BY <1>2 DEF ErInv, InHand, Busy
<1> QED
  BY <1>0, <1>1, <1>2, OnlyPurges DEF Spared, Purged, BoxLeaves

(****************************************************************************)
(* ErasureExecutionJob keeps its promise for any number of replicas, types  *)
(* of data, requests, matters, incarnations of the mailbox, attempts and    *)
(* failures: an erasure recorded as completed happened and is recorded      *)
(* once, what is under a hold stays, and a mailbox created since, with its  *)
(* data, is spared.                                                         *)
(****************************************************************************)
THEOREM Erased == ErSpec => ErasureHolds
<1>1. ErSpec => [](ErTypeOK /\ CompletedIsErased /\ OneCompletion)
  BY ErInvAlways, ErInvHolds, PTL
<1>2. ErSpec => HeldStays
  <2>1. ErInv /\ [ErNext]_erVars => [StaysHeld]_erVars
    BY HeldStep
  <2> QED
    BY ErInvAlways, <2>1, PTL DEF ErSpec, HeldStays, StaysHeld
<1>3. ErSpec => NewMailboxSpared
  <2>1. ErInv /\ [ErNext]_erVars => [Spared]_erVars
    BY SparedStep
  <2> QED
    BY ErInvAlways, <2>1, PTL DEF ErSpec, NewMailboxSpared, Spared
<1> QED
  BY <1>1, <1>2, <1>3, PTL DEF ErasureHolds
================================================================================
