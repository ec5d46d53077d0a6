----------------------------- MODULE EscrowAccess ------------------------------
(****************************************************************************)
(* Access to escrowed key material under dual control and its hash-chained  *)
(* audit log: BaseEscrowAccessRequestRoute, BaseEscrowScopeRoute and        *)
(* EscrowAuditUtils, for one scope, one custodian mailbox and one request   *)
(* of a matter of LegalHold. Operations run step by step as in a deployment *)
(* without transactions (the steps of a transaction are the same, in a      *)
(* row). An entry's hash is its place in the log: two entries at one place  *)
(* would have different hashes.                                             *)
(****************************************************************************)
EXTENDS LegalHold, FiniteSets, Sequences

CONSTANTS
    Users,         \* users that may be holders
    EscOps,        \* requests and verifications at work
    TheMatter, TheBox,
    MaxAppends,    \* MAX_APPEND_ATTEMPTS
    MaxHeads,      \* MAX_HEAD_ATTEMPTS
    MaxPersists,   \* MAX_PERSIST_ATTEMPTS
    MaxEntries,    \* bound: entries of the log
    MaxTurns       \* bound: changes by administrators, denials, crashes and time passing

ASSUME EscrowAssumption ==
    /\ TheMatter \in Matters /\ TheBox \in Boxes /\ IsFiniteSet(Users) /\ Cardinality(Users) >= 2
    /\ {MaxAppends, MaxHeads, MaxPersists} \subseteq Nat \ {0} /\ {MaxEntries, MaxTurns} \subseteq Nat

VARIABLES
    scope,      \* holderUserUids, requiredHolders
    assigned,   \* the mailbox's escrowScopeId is the scope
    ask,        \* the access request: status, approvals in order (old: beyond the approval TTL), threshold, version
    log,        \* the entries: action, user, the hash they link to
    head,       \* the head record: sequence, version; 0 is none
    op,         \* the operations
    changes, failed, released, verdicts   \* bound; history: approvers whose request failed, releases, bad verdicts

escVars == <<matter, scope, assigned, ask, log, head, op, changes, failed, released, verdicts>>

NoAsk == [is |-> "none", by |-> <<>>, need |-> 0, ver |-> 0]
NoOp == [at |-> "idle", act |-> "none", who |-> "nobody", row |-> NoAsk, seen |-> 0, pos |-> 0, hd |-> [seq |-> 0, ver |-> 0],
         appends |-> 0, persists |-> 0, heads |-> 0]

EscInit ==
    /\ HoldInit
    /\ scope = [holders |-> Users, need |-> 2]
    /\ assigned = TRUE /\ ask = NoAsk /\ log = <<>> /\ head = [seq |-> 0, ver |-> 0]
    /\ op = [p \in EscOps |-> NoOp] /\ changes = 0 /\ failed = {} /\ released = {} /\ verdicts = {}

Who(a) == {a.by[i].who : i \in 1..Len(a.by)}
Linked == matter[TheMatter].is = "open" /\ TheBox \in matter[TheMatter].boxes /\ assigned
Turn == changes < MaxTurns /\ changes' = changes + 1
EscGoes(p, at) == op' = [op EXCEPT ![p].at = at]

--------------------------------------------------------------------------------
(* evaluateEscrowApprovals() *)

\* Approvals of users who hold the scope now, one each, in order; the threshold is met by the need-th of them.
Valid(a) == SelectSeq(a.by, LAMBDA x : x.who \in scope.holders)
ThresholdMet(a) == Len(Valid(a)) >= a.need
Expired(a) == Valid(a)[a.need].old
ActiveApprovals == ask.is \in {"approved", "fulfilled"} /\ ThresholdMet(ask) /\ ~Expired(ask)
\* mail:escrow:approval_ttl_hours passes, of the oldest approval first.
Ages ==
    /\ Turn
    /\ \E i \in 1..Len(ask.by) : /\ ~ask.by[i].old /\ \A j \in 1..(i - 1) : ask.by[j].old
                                 /\ ask' = [ask EXCEPT !.by[i].old = TRUE]
    /\ UNCHANGED <<matter, scope, assigned, log, head, op, failed, released, verdicts>>

--------------------------------------------------------------------------------
(* Administrators: BaseEscrowScopeRoute, BaseMailboxRoute, BaseMatterRoute *)

\* validateEscrowScope(): holders without duplicates, a threshold they can meet.
ValidScope(s) == s.holders # {} /\ s.need \in 1..Cardinality(s.holders)
\* update(): holders and a lower threshold only while no approval is active, and never by or for the
\* administrator himself. Another administrator's update in between is a version conflict.
ScopeUpdate ==
    /\ Turn
    /\ \E hs \in SUBSET Users, n \in 1..2 :
        LET new == [holders |-> hs, need |-> n] IN
        /\ ValidScope(new) /\ new # scope /\ (hs # scope.holders \/ n < scope.need => ~ActiveApprovals)
        /\ scope' = new
    /\ UNCHANGED <<matter, assigned, ask, log, head, op, failed, released, verdicts>>
\* The mailbox is taken out of the scope, or put back (BaseMailboxRoute's escrow assignment).
Assign ==
    /\ Turn /\ assigned' = ~assigned
    /\ UNCHANGED <<matter, scope, ask, log, head, op, failed, released, verdicts>>
EscMatterChanges ==
    /\ \/ CreateMatter(TheMatter, {TheBox}) /\ UNCHANGED changes
       \/ CloseMatter(TheMatter) /\ Turn
       \/ DeleteMatter(TheMatter) /\ ask.is = "none" /\ Turn
    /\ UNCHANGED <<scope, assigned, ask, log, head, op, failed, released, verdicts>>

--------------------------------------------------------------------------------
(* EscrowAuditUtils *)

\* appendEntry(): the latest entry is read, the next number inserted if it is still free.
ReadsLatest(p) ==
    /\ op[p].at = "append" /\ op' = [op EXCEPT ![p].at = "insert", ![p].seen = Len(log)]
    /\ UNCHANGED <<matter, scope, assigned, ask, log, head, changes, failed, released, verdicts>>
NumberFree(n) == n > Len(log)
\* A collision is tried again, here and then by retryOnAuditConflict() from the row on; then the request fails.
Collides(p) ==
    LET a == op[p].appends + 1 IN
    IF a < MaxAppends THEN [op[p] EXCEPT !.at = "append", !.appends = a]
    ELSE IF op[p].persists + 1 < MaxPersists
    THEN [op[p] EXCEPT !.at = "persist", !.row = ask, !.appends = 0, !.persists = @ + 1]
    ELSE NoOp
Inserts(p) ==
    /\ op[p].at = "insert" /\ Len(log) < MaxEntries
    /\ IF NumberFree(op[p].seen + 1)
       THEN /\ log' = Append(log, [act |-> op[p].act, who |-> op[p].who, prev |-> op[p].seen])
            /\ op' = [op EXCEPT ![p].at = "head", ![p].seen = op[p].seen + 1] /\ UNCHANGED failed
       ELSE /\ op' = [op EXCEPT ![p] = Collides(p)] /\ UNCHANGED log
            /\ failed' = IF Collides(p) = NoOp THEN failed \cup {op[p].who} ELSE failed
    /\ UNCHANGED <<matter, scope, assigned, ask, head, changes, released, verdicts>>
\* advanceHead(): by the version that was read, and only forward.
ReadsHead(p) ==
    /\ op[p].at = "head"
    /\ op' = IF head.seq >= op[p].seen THEN [op EXCEPT ![p].at = "answer"]
             ELSE [op EXCEPT ![p].at = "advance", ![p].hd = head]
    /\ UNCHANGED <<matter, scope, assigned, ask, log, head, changes, failed, released, verdicts>>
HeadUnchanged_Unchecked(p) == TRUE
HeadUnchanged(p) == head.ver = op[p].hd.ver
AdvancesHead(p) ==
    /\ op[p].at = "advance"
    /\ IF HeadUnchanged(p)
       THEN head' = [seq |-> op[p].seen, ver |-> head.ver + 1] /\ EscGoes(p, "answer")
       ELSE /\ op' = [op EXCEPT ![p].at = IF op[p].heads + 1 < MaxHeads THEN "head" ELSE "answer", ![p].heads = @ + 1]
            /\ UNCHANGED head
    /\ UNCHANGED <<matter, scope, assigned, ask, log, changes, failed, released, verdicts>>

--------------------------------------------------------------------------------
(* BaseEscrowAccessRequestRoute *)

Begins(p, act, u, row) == op' = [op EXCEPT ![p] = [NoOp EXCEPT !.at = IF act = "read" THEN "append" ELSE "persist", !.act = act, !.who = u, !.row = row]]

\* create(), approve(), material(): the checks on the rows as they are read.
Create(p, u) ==
    /\ op[p].at = "idle" /\ u \in scope.holders /\ Linked /\ ask.is = "none"
    /\ \A q \in EscOps : op[q].act # "created"
    /\ Begins(p, "created", u, [NoAsk EXCEPT !.need = scope.need, !.by = <<[who |-> u, old |-> FALSE]>>,
                                             !.is = IF scope.need <= 1 THEN "approved" ELSE "pending"])
    /\ UNCHANGED <<matter, scope, assigned, ask, log, head, changes, failed, released, verdicts>>
Approves(p, u) ==
    /\ op[p].at = "idle" /\ u \in scope.holders /\ ask.is = "pending" /\ u \notin Who(ask)
    /\ matter[TheMatter].is = "open" /\ Begins(p, "approved", u, ask)
    /\ UNCHANGED <<matter, scope, assigned, ask, log, head, changes, failed, released, verdicts>>
MayRead(u) == u \in scope.holders /\ Linked /\ ActiveApprovals
Material(p, u) ==
    /\ op[p].at = "idle" /\ MayRead(u)
    /\ Begins(p, "read", u, ask)
    /\ UNCHANGED <<matter, scope, assigned, ask, log, head, changes, failed, released, verdicts>>

\* deny(): of a pending request, by the version that was read.
Denies(u) ==
    /\ Turn /\ u \in scope.holders /\ ask.is = "pending" /\ ask' = [ask EXCEPT !.is = "denied", !.ver = @ + 1]
    /\ UNCHANGED <<matter, scope, assigned, log, head, op, failed, released, verdicts>>

RowUnchanged(p) == ask.ver = op[p].row.ver
Approved(a, u) ==
    [a EXCEPT !.by = Append(@, [who |-> u, old |-> FALSE]), !.ver = @ + 1,
              !.is = IF Len(a.by) + 1 >= a.need THEN "approved" ELSE "pending"]
\* persistCreate(), persistApprove(): the row, unless an earlier attempt wrote it, then the entry;
\* persistMaterialRead(): the entry first.
Persists(p) ==
    /\ op[p].at = "persist"
    /\ CASE op[p].act = "created" ->
               /\ ask' = IF ask.is = "none" THEN [op[p].row EXCEPT !.ver = 1] ELSE ask
               /\ EscGoes(p, "append")
         [] op[p].act = "approved" /\ op[p].who \notin Who(op[p].row) ->
               IF RowUnchanged(p) THEN ask' = Approved(ask, op[p].who) /\ EscGoes(p, "append")
               ELSE op' = [op EXCEPT ![p] = NoOp] /\ UNCHANGED ask
         [] OTHER -> EscGoes(p, "append") /\ UNCHANGED ask
    /\ UNCHANGED <<matter, scope, assigned, log, head, changes, failed, released, verdicts>>
\* The answer: material is handed out once its reading is recorded and the request marked, by its version.
Answers(p) ==
    /\ op[p].at = "answer" /\ op' = [op EXCEPT ![p] = NoOp]
    /\ IF op[p].act # "read" \/ (op[p].row.is # "fulfilled" /\ ~RowUnchanged(p)) THEN UNCHANGED <<ask, released>>
       ELSE /\ ask' = IF op[p].row.is = "fulfilled" THEN ask ELSE [ask EXCEPT !.is = "fulfilled", !.ver = @ + 1]
            /\ released' = released \cup {op[p].seen}
    /\ UNCHANGED <<matter, scope, assigned, log, head, changes, failed, verdicts>>

\* The process dies: whatever it wrote stays.
Dies(p) ==
    /\ op[p].at \notin {"idle", "answer"} /\ Turn
    /\ op' = [op EXCEPT ![p] = NoOp] /\ failed' = failed \cup {op[p].who}
    /\ UNCHANGED <<matter, scope, assigned, ask, log, head, released, verdicts>>

--------------------------------------------------------------------------------
(* verifyChain(): the head, then the entries page by page *)

VerifyBegins(p) ==
    /\ op[p].at = "idle" /\ op' = [op EXCEPT ![p] = [NoOp EXCEPT !.at = "walk", !.act = "verify", !.hd = head]]
    /\ UNCHANGED <<matter, scope, assigned, ask, log, head, changes, failed, released, verdicts>>
Verdict(p) ==
    CASE op[p].hd.seq = 0 -> IF op[p].pos > 0 THEN "head_missing" ELSE "valid"
      [] op[p].hd.seq > op[p].pos -> "truncated"
      [] OTHER -> "valid"
VerifyWalks(p) ==
    /\ op[p].at = "walk"
    /\ LET n == op[p].pos IN
       \/ /\ n < Len(log) /\ log[n + 1].prev = n /\ op' = [op EXCEPT ![p].pos = n + 1] /\ UNCHANGED verdicts
       \/ /\ n < Len(log) /\ log[n + 1].prev # n /\ op' = [op EXCEPT ![p] = NoOp]
          /\ verdicts' = verdicts \cup {"link_mismatch"}
       \/ /\ n = Len(log) /\ op' = [op EXCEPT ![p] = NoOp] /\ verdicts' = (verdicts \cup {Verdict(p)}) \ {"valid"}
    /\ UNCHANGED <<matter, scope, assigned, ask, log, head, changes, failed, released>>

--------------------------------------------------------------------------------
EscNext ==
    \/ Ages \/ ScopeUpdate \/ Assign \/ EscMatterChanges \/ \E u \in Users : Denies(u)
    \/ \E p \in EscOps :
        \/ Persists(p) \/ ReadsLatest(p) \/ Inserts(p) \/ ReadsHead(p) \/ AdvancesHead(p) \/ Answers(p) \/ Dies(p)
        \/ VerifyBegins(p) \/ VerifyWalks(p)
        \/ \E u \in Users : Create(p, u) \/ Approves(p, u) \/ Material(p, u)

EscSpec == EscInit /\ [][EscNext]_escVars

--------------------------------------------------------------------------------
\* Type correctness.
EscTypeOK ==
    /\ ValidScope(scope) /\ assigned \in BOOLEAN /\ head.seq \in 0..MaxEntries /\ Len(log) <= MaxEntries
    /\ ask.is \in {"none", "pending", "approved", "denied", "fulfilled"} /\ Len(ask.by) <= Cardinality(Users)

\* "the head only ever moves forward", and verification "tolerates the lag": no verification of a log nobody
\* tampered with finds it broken or truncated, however many appends and failures it runs against. (It does
\* report a missing head while the first entry has none.)
LogHolds ==
    [][head'.seq >= head.seq /\ head'.seq <= Len(log') /\ verdicts' \subseteq {"head_missing"}]_escVars

\* Dual control is on record: an approval that counts has its entry, unless the request that gave it failed
\* or is still at work; an entry of an approval is one that counts; and what was handed out has an entry of
\* its own and the threshold's number of approvers.
AccessAccounted ==
    /\ \A u \in Who(ask) \ failed : \/ \E i \in 1..Len(log) : log[i].who = u /\ log[i].act \in {"created", "approved"}
                                    \/ \E p \in EscOps : op[p].who = u /\ op[p].act \in {"created", "approved"}
    /\ \A i \in 1..Len(log) : log[i].act = "approved" => log[i].who \in Who(ask)
    /\ \A i \in released : log[i].act = "read" /\ Cardinality(Who(ask)) >= ask.need

\* Access to escrowed keys as a whole: nothing is handed out that the log does not show, and the log verifies.
EscrowHolds == [](EscTypeOK /\ AccessAccounted) /\ LogHolds
================================================================================
