-------------------------------- MODULE Erasure --------------------------------
(****************************************************************************)
(* Erasure of the data at one address: the requests of                      *)
(* BaseDataSubjectErasureRequestRoute, the cascade of ErasureExecutionJob   *)
(* run by several workers under leases that lapse, the mailbox deleted and  *)
(* created again meanwhile (BaseMailboxRoute), its leftovers                *)
(* (LeftoverMailboxUtils) and the legal holds that must stop it all.        *)
(*                                                                          *)
(* The mailbox, its access list and each row carry the number of the        *)
(* incarnation of the mailbox they belong to; 0 is none. Rows are purged in *)
(* the order of their numbers, which is the cascade's order of types; the   *)
(* last is the folder. A request carries the incarnation of its approval.   *)
(****************************************************************************)
EXTENDS LegalHold, FiniteSets

CONSTANTS
    Address,       \* the mailbox uid
    EWorkers,      \* replicas of the job
    NoOne,
    Requests,      \* erasure requests that may ever be filed, numbers
    NRows,         \* types of data the cascade purges
    MaxGen,        \* bound: incarnations of the mailbox
    MaxAttempts,   \* max_attempts
    MaxEFaults     \* bound: purges that fail, lapsed leases, workers that die, plugins not loaded

ASSUME ErasureAssumption ==
    /\ Address \in Boxes /\ NoOne \notin EWorkers /\ Requests \subseteq Nat
    /\ {NRows, MaxGen, MaxAttempts} \subseteq Nat \ {0} /\ MaxEFaults \in Nat

VARIABLES
    box, acl, data,       \* the mailbox row, its access list, the rows
    req, fresh, stale,    \* the requests, who read the current version, whose lease has lapsed
    job,                  \* the workers
    admin,                \* a request on the mailbox between its looks and its write
    unsettled,            \* requests created whose second look is due
    gens, eFaults,
    late,                 \* history: rows written while a request was approved or running
    warned,               \* history: workers under whose cascade a hold was opened
    kept,                 \* history: a purge of the mailbox row that failed
    audits                \* history: completions recorded of each request

hold   == <<matter>>
place  == <<box, acl, data>>
filed  == <<req, fresh, stale, unsettled>>
ghosts == <<late, warned, kept, audits>>
erVars == <<hold, place, filed, job, admin, gens, eFaults, ghosts>>

Rows == 1..NRows
FolderRow == NRows
Gens == 0..MaxGen
NoRequest == [is |-> "none", leftover |-> FALSE, tries |-> 0, gen |-> 0]
Running == {"approved", "in_progress"}
Off == [at |-> "idle", r |-> 0, saw |-> 0, pos |-> 1, batch |-> 0, failed |-> {}]

ErInit ==
    /\ HoldInit
    /\ box = 1 /\ acl = 1 /\ data = [x \in Rows |-> 1]
    /\ req = [r \in Requests |-> NoRequest] /\ fresh = [r \in Requests |-> {}] /\ stale = {} /\ unsettled = {}
    /\ job = [w \in EWorkers |-> Off] /\ admin = "idle" /\ gens = 1 /\ eFaults = 0
    /\ late = {} /\ warned = {} /\ kept = FALSE /\ audits = [r \in Requests |-> 0]

EFault == eFaults < MaxEFaults /\ eFaults' = eFaults + 1
Sets(r, row) == req' = [req EXCEPT ![r] = row] /\ fresh' = [fresh EXCEPT ![r] = {}]

--------------------------------------------------------------------------------
(* The mailbox: BaseMailboxRoute and what is written into it *)

RunningErasure == \E r \in Requests : req[r].is \in Running
\* findLeftoverEvidence()
Evidence == data[FolderRow] # 0 \/ acl # 0

\* createMailboxes(): nothing at the address, no erasure at work, nothing left over; then the rows.
CreateMayGoOn == box = 0 /\ ~RunningErasure /\ ~Evidence
CreateLooks ==
    /\ admin = "idle" /\ gens < MaxGen /\ CreateMayGoOn /\ admin' = "create"
    /\ UNCHANGED <<hold, place, filed, job, gens, eFaults, ghosts>>
CreateWrites ==
    /\ admin = "create" /\ admin' = "idle"
    /\ IF box = 0
       THEN /\ gens' = gens + 1 /\ box' = gens + 1 /\ acl' = gens + 1
            /\ data' = [data EXCEPT ![FolderRow] = gens + 1] /\ late' = late \ {FolderRow}
       ELSE UNCHANGED <<place, gens, late>>
    /\ UNCHANGED <<hold, filed, job, eFaults, warned, kept, audits>>

\* delete(), truncate(): the hold is looked at, then the row and its access list go; the rows stay.
DeleteLooks ==
    /\ admin = "idle" /\ box # 0 /\ ~Held(Address) /\ admin' = "delete"
    /\ UNCHANGED <<hold, place, filed, job, gens, eFaults, ghosts>>
DeleteWrites ==
    /\ admin = "delete" /\ box' = 0 /\ acl' = 0
    /\ \/ admin' = "idle"
       \/ admin' = IF data[FolderRow] # 0 THEN "file" ELSE "idle"    \* ?erase=true: reportRemainingData()
    /\ UNCHANGED <<hold, data, filed, job, gens, eFaults, ghosts>>

\* Mail is delivered, or a client writes.
Written(x) ==
    /\ box # 0 /\ x # FolderRow /\ data[x] = 0 /\ data' = [data EXCEPT ![x] = box]
    /\ late' = IF \E r \in Requests : req[r].is \in Running \cup {"completed"} /\ req[r].gen = box
               THEN late \cup {x} ELSE late \ {x}
    /\ UNCHANGED <<hold, box, acl, filed, job, admin, gens, eFaults, warned, kept, audits>>

--------------------------------------------------------------------------------
(* The requests *)

Unused(r) == req[r].is = "none" /\ \A s \in Requests : s < r => req[s].is # "none"

\* create(): by the owner, none pending when looked at; a second look denies the later of two.
OwnerCreates(r) ==
    /\ Unused(r) /\ box # 0 /\ \A s \in Requests \ unsettled : req[s].is # "pending"
    /\ Sets(r, [NoRequest EXCEPT !.is = "pending"])
    /\ unsettled' = unsettled \cup {r}
    /\ UNCHANGED <<hold, place, stale, job, admin, gens, eFaults, ghosts>>
OwnerSettles(r) ==
    /\ r \in unsettled /\ unsettled' = unsettled \ {r}
    /\ IF req[r].is = "pending" /\ \E s \in Requests : s < r /\ req[s].is = "pending"
       THEN Sets(r, [req[r] EXCEPT !.is = "denied"]) ELSE UNCHANGED <<req, fresh>>
    /\ UNCHANGED <<hold, place, stale, job, admin, gens, eFaults, ghosts>>

\* approve(), by another administrator, unless the mailbox is held.
Approve(r) ==
    /\ req[r].is = "pending" /\ ~Held(Address) /\ Sets(r, [req[r] EXCEPT !.is = "approved", !.gen = gens])
    /\ UNCHANGED <<hold, place, stale, unsettled, job, admin, gens, eFaults, ghosts>>
Deny(r) ==
    /\ req[r].is = "pending" /\ Sets(r, [req[r] EXCEPT !.is = "denied"])
    /\ UNCHANGED <<hold, place, stale, unsettled, job, admin, gens, eFaults, ghosts>>

\* fileLeftoverErasure(): no mailbox; then evidence, hold and open requests; a pending one is approved.
FileLooks ==
    /\ admin = "idle" /\ box = 0 /\ admin' = "file"
    /\ UNCHANGED <<hold, place, filed, job, gens, eFaults, ghosts>>
FileWrites ==
    /\ admin = "file" /\ admin' = "idle"
    /\ IF ~Evidence \/ Held(Address) \/ RunningErasure
       THEN UNCHANGED <<req, fresh>>
       ELSE \/ \E r \in Requests : req[r].is = "pending"
                                   /\ Sets(r, [req[r] EXCEPT !.is = "approved", !.leftover = TRUE, !.gen = gens])
            \/ /\ \A s \in Requests : req[s].is # "pending"
               /\ IF \E r \in Requests : Unused(r)
                  THEN \E r \in Requests : Unused(r)
                         /\ Sets(r, [NoRequest EXCEPT !.is = "approved", !.leftover = TRUE, !.gen = gens])
                  ELSE UNCHANGED <<req, fresh>>
    /\ UNCHANGED <<hold, place, stale, unsettled, job, gens, eFaults, ghosts>>

--------------------------------------------------------------------------------
(* ErasureExecutionJob *)

R(w) == job[w].r
Goes(w, where) == job' = [job EXCEPT ![w].at = where]
Stops(w) == job' = [job EXCEPT ![w] = Off]
\* A write checked against the version the worker last wrote or read.
Mine(w) == w \in fresh[R(w)]
Puts(w, row, readers) ==
    /\ Mine(w) /\ req' = [req EXCEPT ![R(w)] = row]
    /\ fresh' = [fresh EXCEPT ![R(w)] = readers] /\ stale' = stale \ {R(w)}
\* releaseClaim(): a claim already lost stays lost.
Releases(w, row) ==
    /\ Stops(w)
    /\ IF Mine(w) THEN Puts(w, row, {}) ELSE UNCHANGED <<req, fresh, stale>>
Back(w) == [req[R(w)] EXCEPT !.is = "approved"]

\* run(): an approved request, or a running one whose lease has lapsed.
Picks(w, r) ==
    /\ job[w].at = "idle" /\ (req[r].is = "approved" \/ (req[r].is = "in_progress" /\ r \in stale))
    /\ job' = [job EXCEPT ![w] = [Off EXCEPT !.at = "look", !.r = r]]
    /\ fresh' = [fresh EXCEPT ![r] = @ \cup {w}]
    /\ warned' = warned \ {w}
    /\ UNCHANGED <<hold, place, req, stale, unsettled, admin, gens, eFaults, late, kept, audits>>

\* processRequest(): held requests are put at the end of the queue.
FirstLook_None(w) == FALSE
FirstLook(w) == Held(Address)
Looks(w) ==
    /\ job[w].at = "look"
    /\ IF FirstLook(w) THEN Releases(w, Back(w)) ELSE Goes(w, "claim") /\ UNCHANGED <<req, fresh, stale>>
    /\ UNCHANGED <<hold, place, unsettled, admin, gens, eFaults, ghosts>>

Claims(w) ==
    /\ job[w].at = "claim"
    /\ \/ Puts(w, [req[R(w)] EXCEPT !.is = "in_progress"], {w}) /\ Goes(w, "mailbox")
       \/ ~Mine(w) /\ Stops(w) /\ UNCHANGED <<req, fresh, stale>>
    /\ UNCHANGED <<hold, place, unsettled, admin, gens, eFaults, ghosts>>

\* A request for leftovers is denied when the mailbox exists.
LeftoverOnly(w) == req[R(w)].leftover
ReadsMailbox(w) ==
    /\ job[w].at = "mailbox"
    /\ IF box # 0 /\ LeftoverOnly(w)
       THEN Releases(w, [req[R(w)] EXCEPT !.is = "denied"])
       ELSE job' = [job EXCEPT ![w].at = "batch", ![w].saw = box] /\ UNCHANGED <<req, fresh, stale>>
    /\ UNCHANGED <<hold, place, unsettled, admin, gens, eFaults, ghosts>>

\* purgeByCriteria(): passes over one type until one finds nothing. A lapsed claim is renewed at the next
\* batch, or found lost. Rows go by uid, which an incarnation shares with the next only for the folder.
Reads(w) == job' = [job EXCEPT ![w].at = "rows", ![w].batch = data[job[w].pos]]
ReadsBatch(w) ==
    /\ job[w].at = "batch" /\ job[w].pos \in Rows
    /\ IF data[job[w].pos] = 0 \/ job[w].pos \in job[w].failed
       THEN job' = [job EXCEPT ![w].pos = @ + 1] /\ UNCHANGED <<req, fresh, stale>>
       ELSE \/ R(w) \notin stale /\ Mine(w) /\ Reads(w) /\ UNCHANGED <<req, fresh, stale>>
            \/ R(w) \in stale /\ Puts(w, req[R(w)], {w}) /\ Reads(w)
            \/ ~Mine(w) /\ Stops(w) /\ UNCHANGED <<req, fresh, stale>>
    /\ UNCHANGED <<hold, place, unsettled, admin, gens, eFaults, ghosts>>
SameUid(w) == job[w].pos = FolderRow \/ job[w].batch = data[job[w].pos]
PurgesRow(w) ==
    /\ job[w].at = "rows"
    /\ \/ /\ data' = IF SameUid(w) THEN [data EXCEPT ![job[w].pos] = 0] ELSE data
          /\ Goes(w, "batch") /\ UNCHANGED eFaults
       \/ EFault /\ job' = [job EXCEPT ![w].at = "batch", ![w].failed = @ \cup {job[w].pos}] /\ UNCHANGED data
    /\ UNCHANGED <<hold, box, acl, filed, admin, gens, ghosts>>

\* Rows left behind: retried, or failed for good.
CascadeEnds(w) == job[w].failed # {}
NoMoreTries(n) == n >= MaxAttempts
EndsCascade(w) ==
    /\ job[w].at = "batch" /\ job[w].pos \notin Rows
    /\ IF CascadeEnds(w)
       THEN LET n == req[R(w)].tries + 1 IN
            Releases(w, [req[R(w)] EXCEPT !.is = IF NoMoreTries(n) THEN "failed" ELSE "approved", !.tries = n])
       ELSE Goes(w, "again") /\ UNCHANGED <<req, fresh, stale>>
    /\ UNCHANGED <<hold, place, unsettled, admin, gens, eFaults, ghosts>>

\* The second look at the holds keeps the mailbox row or the access list.
SecondLook(w) == Held(Address)
LooksAgain(w) ==
    /\ job[w].at = "again"
    /\ IF SecondLook(w) THEN Releases(w, Back(w)) ELSE Goes(w, "row") /\ UNCHANGED <<req, fresh, stale>>
    /\ UNCHANGED <<hold, place, unsettled, admin, gens, eFaults, ghosts>>

\* The mailbox row, whose failure is only logged; or the access list of one that was gone
\* (removeLeftoverMailboxAcl(), whose failure hands the request back).
PurgesMailbox(w) ==
    /\ job[w].at = "row"
    /\ \/ /\ job[w].saw # 0 /\ box' = 0 /\ acl' = IF box # 0 THEN 0 ELSE acl
          /\ Goes(w, "plugins") /\ UNCHANGED <<req, fresh, stale, eFaults, kept>>
       \/ /\ job[w].saw # 0 /\ box # 0 /\ EFault /\ kept' = TRUE
          /\ Goes(w, "plugins") /\ UNCHANGED <<req, fresh, stale, box, acl>>
       \/ /\ job[w].saw = 0 /\ acl' = IF box = 0 THEN 0 ELSE acl
          /\ Goes(w, "plugins") /\ UNCHANGED <<req, fresh, stale, box, eFaults, kept>>
       \/ /\ job[w].saw = 0 /\ box = 0 /\ EFault /\ Releases(w, Back(w)) /\ UNCHANGED <<box, acl, kept>>
    /\ UNCHANGED <<hold, data, unsettled, admin, gens, late, warned, audits>>

\* unloadedMailboxDataPlugins()
WaitsForPlugins(w) ==
    /\ job[w].at = "plugins"
    /\ \/ Goes(w, "complete") /\ UNCHANGED <<req, fresh, stale, eFaults>>
       \/ EFault /\ Releases(w, Back(w))
    /\ UNCHANGED <<hold, place, unsettled, admin, gens, ghosts>>

\* markCompleted(): by the version of this worker's own claim.
Completes(w) ==
    /\ job[w].at = "complete"
    /\ \/ /\ Puts(w, [req[R(w)] EXCEPT !.is = "completed"], {})
          /\ audits' = [audits EXCEPT ![R(w)] = @ + 1]
       \/ ~Mine(w) /\ UNCHANGED <<req, fresh, stale, audits>>
    /\ Stops(w)
    /\ UNCHANGED <<hold, place, unsettled, admin, gens, eFaults, late, warned, kept>>

\* claim_lease_seconds without a renewal: of a worker that died, or of one still at work.
LeaseLapses(r) ==
    /\ req[r].is = "in_progress" /\ r \notin stale /\ stale' = stale \cup {r}
    /\ IF \E w \in EWorkers : R(w) = r THEN EFault ELSE UNCHANGED eFaults
    /\ UNCHANGED <<hold, place, req, fresh, unsettled, job, admin, gens, ghosts>>
WorkerDies(w) ==
    /\ job[w].at # "idle" /\ EFault /\ Stops(w) /\ fresh' = [fresh EXCEPT ![R(w)] = @ \ {w}]
    /\ UNCHANGED <<hold, place, req, stale, unsettled, admin, gens, ghosts>>

--------------------------------------------------------------------------------
MatterChanges ==
    /\ HoldNext(IF box # 0 THEN {Address} ELSE {})
    /\ warned' = IF ~Held(Address) /\ Held(Address)' THEN warned \cup {w \in EWorkers : job[w].at # "idle"} ELSE warned
    /\ UNCHANGED <<place, filed, job, admin, gens, eFaults, late, kept, audits>>

WorkerSteps(w) ==
    \/ Looks(w) \/ Claims(w) \/ ReadsMailbox(w) \/ ReadsBatch(w) \/ PurgesRow(w) \/ EndsCascade(w)
    \/ LooksAgain(w) \/ PurgesMailbox(w) \/ WaitsForPlugins(w) \/ Completes(w)

ErNext ==
    \/ MatterChanges \/ CreateLooks \/ CreateWrites \/ DeleteLooks \/ DeleteWrites \/ FileLooks \/ FileWrites
    \/ \E x \in Rows : Written(x)
    \/ \E r \in Requests : OwnerCreates(r) \/ OwnerSettles(r) \/ Approve(r) \/ Deny(r) \/ LeaseLapses(r)
    \/ \E w \in EWorkers : WorkerSteps(w) \/ WorkerDies(w) \/ \E r \in Requests : Picks(w, r)

ErSpec == ErInit /\ [][ErNext]_erVars

--------------------------------------------------------------------------------
\* Type correctness.
ErTypeOK ==
    /\ matter \in [Matters -> MatterRow] /\ {box, acl} \subseteq Gens /\ data \in [Rows -> Gens]
    /\ req \in [Requests -> [is: Running \cup {"none", "pending", "completed", "denied", "failed"},
                             leftover: BOOLEAN, tries: 0..MaxAttempts, gen: Gens]]
    /\ fresh \in [Requests -> SUBSET EWorkers] /\ stale \subseteq Requests /\ unsettled \subseteq Requests
    /\ warned \subseteq EWorkers /\ late \subseteq Rows /\ kept \in BOOLEAN /\ gens \in Gens

\* "completing now would record an erasure that did not happen": when a request is completed, none of the
\* rows the mailbox had before it was approved are left, and neither is the mailbox, unless the purge of
\* its row failed (which is only logged).
CompletedIsErased ==
    \A r \in Requests : req[r].is = "completed" =>
        /\ \A x \in Rows : data[x] \in 1..req[r].gen => x \in late
        /\ box \in 1..req[r].gen => kept

\* "a wrong, permanent compliance record": one completion of a request is recorded, whoever else ran it.
OneCompletion == \A r \in Requests : audits[r] <= 1

\* What is under a hold stays: a row of a held mailbox is purged only by a cascade that was under way when
\* the hold was opened, and the mailbox and its access list go only if the hold came after the last look.
HeldStays ==
    [][Held(Address) =>
        /\ \A x \in Rows : data[x] # 0 /\ data'[x] = 0 => \E w \in warned : job[w].at = "rows" /\ job[w].pos = x
        /\ (box # 0 /\ box' = 0) \/ (acl # 0 /\ acl' = 0)
              => admin = "delete" \/ \E w \in warned : job[w].at = "row"]_erVars

\* A mailbox created again at the address keeps itself and its data: an erasure of the leftovers takes
\* neither, except that a worker that overran its lease may take the row whose uid is the old one's again.
NewMailboxSpared ==
    [][/\ \A x \in Rows : data[x] # 0 /\ data'[x] = 0 => \E w \in EWorkers :
            job[w].at = "rows" /\ (req[R(w)].leftover => req[R(w)].gen >= data[x] \/ (~Mine(w) /\ x = FolderRow))
       /\ box # 0 /\ box' = 0 /\ admin # "delete" => \E w \in EWorkers :
            job[w].at = "row" /\ ~req[R(w)].leftover]_erVars

\* What ErasureExecutionJob promises, together: a recorded erasure happened and is recorded once, what is held
\* stays, and what was created since is spared.
ErasureHolds == [](ErTypeOK /\ CompletedIsErased /\ OneCompletion) /\ HeldStays /\ NewMailboxSpared
================================================================================
