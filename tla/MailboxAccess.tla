----------------------------- MODULE MailboxAccess -----------------------------
(****************************************************************************)
(* Who may open a mailbox: BaseMailboxRoute's creation, owner changes and   *)
(* deletion, and BaseMailboxAccessRoute's members.  The owner is a field of *)
(* the mailbox row and access is a separate access control list, so an      *)
(* owner change moves the list first, writes the row under its version, and *)
(* puts the list back when the write fails; members, sender lists and other *)
(* owner changes write the same row and list meanwhile.                     *)
(****************************************************************************)
EXTENDS Naturals

CONSTANTS
    Principals, Admins,             \* people; trusted administrators, who hold no implicit access
    Nobody,                    \* the owner of a shared mailbox
    AccessRequests,            \* requests in flight
    MaxRequests, MaxFaults     \* bounds: requests served; failed writes, saves and crashes

ASSUME AccessAssumption == Nobody \notin Principals \cup Admins /\ Principals \cap Admins = {} /\ {MaxRequests, MaxFaults} \subseteq Nat

VARIABLES
    mbox,      \* the mailbox row: whether it exists, its owner, and whether there is data of a mailbox at the address
    grants,       \* each person's record: "none", "viewer" or "manager" (FULL)
    rq,       \* what each request is doing
    given,     \* people a manager, an administrator or the mailbox's creation gave access to
    unsure,    \* people whose record a failed or overtaken change left for a retry
    contended, \* whether two owner changes were under way at once
    served, faults

acVars == <<mbox, grants, rq, given, unsure, contended, served, faults>>
People == Principals \cup Admins
Roles == {"none", "viewer", "manager"}
NoAccessRequest == [at |-> "idle", prev |-> Nobody, next |-> Nobody, versioned |-> TRUE, fresh |-> TRUE, snapshot |-> [p \in {} |-> "none"],
              was |-> {}, clean |-> TRUE, by |-> Nobody, role |-> "none"]
AcInit ==
    /\ mbox = [exists |-> FALSE, owner |-> Nobody, data |-> FALSE] /\ grants = [p \in People |-> "none"] /\ rq = [r \in AccessRequests |-> NoAccessRequest]
    /\ given = {} /\ unsure = {} /\ contended = FALSE /\ served = 0 /\ faults = 0
AcTypeOK ==
    /\ mbox \in [exists : BOOLEAN, owner : People \cup {Nobody}, data : BOOLEAN] /\ grants \in [People -> Roles]
    /\ given \subseteq People /\ unsure \subseteq People /\ contended \in BOOLEAN

--------------------------------------------------------------------------------
Serve(r) == rq[r].at = "idle" /\ served < MaxRequests /\ served' = served + 1
Fault == faults < MaxFaults /\ faults' = faults + 1
Moving(r) == rq[r].at \in {"move", "write", "look", "restore"}
Members(r) == {rq[r].prev, rq[r].next} \ {Nobody}
\* A save of the row makes every other request's copy of it old.
Outdates(r, after) == [q \in AccessRequests |-> IF q = r THEN after ELSE [rq[q] EXCEPT !.fresh = FALSE]]
AccessEnds(r) == rq' = [rq EXCEPT ![r] = NoAccessRequest]
\* The request ends, having written a record another owner change is moving.
EndsTouching(r, who) ==
    rq' = [q \in AccessRequests |-> IF q = r THEN NoAccessRequest ELSE IF who \in Members(q) THEN [rq[q] EXCEPT !.clean = FALSE] ELSE rq[q]]
OwnerCrossed(who) == UNION {Members(q) : q \in {q \in AccessRequests : Moving(q) /\ who \in Members(q)}}

\* create(): refused while data of an earlier mailbox is left; a user's own mailbox is granted with the row, an administrator's in a step of its own.
CreateBox(r, by, owner) ==
    /\ Serve(r) /\ ~mbox.exists /\ ~mbox.data
    /\ by \in Principals => owner = by
    /\ mbox' = [exists |-> TRUE, owner |-> owner, data |-> TRUE]
    /\ IF by \in Principals THEN /\ grants' = [grants EXCEPT ![by] = "manager"] /\ UNCHANGED rq
       ELSE /\ rq' = [rq EXCEPT ![r] = [NoAccessRequest EXCEPT !.at = "grant", !.by = by, !.next = owner]] /\ UNCHANGED grants
    /\ UNCHANGED <<given, unsure, contended, faults>>
\* moveOwnerAcl() for the owner of a new mailbox, grantCreator() for a shared one
GrantNew(r) ==
    /\ rq[r].at = "grant"
    /\ LET who == IF rq[r].next # Nobody THEN rq[r].next ELSE rq[r].by IN
       /\ EndsTouching(r, who) /\ grants' = [grants EXCEPT ![who] = "manager"] /\ given' = IF rq[r].next = Nobody THEN given \cup {who} ELSE given
       \* the owner was changed before the new mailbox's grant
       /\ unsure' = unsure \cup OwnerCrossed(who) \cup (IF rq[r].next # mbox.owner THEN {who} ELSE {})
    /\ UNCHANGED <<mbox, contended, served, faults>>

\* update(), updateProperty(): the caller may not be an administrator taking a mailbox they hold no grant on.
MayOwn(by, next) == next = by => grants[by] = "manager"
ChangeOwner(r, by, next, versioned) ==
    /\ Serve(r) /\ mbox.exists /\ next # mbox.owner /\ by \in Admins /\ MayOwn(by, next)
    /\ rq' = [rq EXCEPT ![r] = [NoAccessRequest EXCEPT !.at = "move", !.prev = mbox.owner, !.next = next, !.versioned = versioned]]
    /\ contended' = (contended \/ \E q \in AccessRequests : Moving(q))
    /\ UNCHANGED <<mbox, grants, given, unsure, faults>>
\* moveOwnerAcl(): the previous owner's records go and the next one's become FULL; the save is retried on a conflict.
Moved(r) == [p \in People |-> IF p = rq[r].next THEN "manager" ELSE IF p = rq[r].prev THEN "none" ELSE grants[p]]
MoveOwnerAcl(r) ==
    /\ rq[r].at = "move" /\ grants' = Moved(r)
    /\ rq' = [rq EXCEPT ![r].at = "write", ![r].snapshot = [p \in Members(r) |-> grants[p]], ![r].was = given \cap Members(r)]
    /\ given' = given \ Members(r) /\ UNCHANGED <<mbox, unsure, contended, served, faults>>
MoveFails(r) ==
    /\ rq[r].at = "move" /\ Fault /\ AccessEnds(r)
    /\ UNCHANGED <<mbox, grants, given, unsure, contended, served>>
\* The row's own save: under the version the caller read, or, through updateProperty(), under the one just read.
WriteOwner(r) ==
    /\ rq[r].at = "write"
    /\ IF mbox.exists /\ (rq[r].versioned => rq[r].fresh)
       THEN /\ mbox' = [mbox EXCEPT !.owner = rq[r].next] /\ rq' = Outdates(r, NoAccessRequest) 
            /\ unsure' = IF rq[r].clean THEN unsure \ Members(r) ELSE unsure
       ELSE rq' = [rq EXCEPT ![r].at = "look"] /\ UNCHANGED <<mbox, unsure>>
    /\ UNCHANGED <<grants, given, contended, served, faults>>
RowWriteFails(r) ==
    /\ rq[r].at = "write" /\ Fault /\ rq' = [rq EXCEPT ![r].at = "look"]
    /\ UNCHANGED <<mbox, grants, given, unsure, contended, served>>
\* withOwnerAclMoved() after a failed write: nothing to undo when the stored owner is the new one after all.
LookAtOwner(r) ==
    /\ rq[r].at = "look"
    /\ IF mbox.exists /\ mbox.owner = rq[r].next THEN AccessEnds(r) ELSE rq' = [rq EXCEPT ![r].at = "restore"]
    /\ UNCHANGED <<mbox, grants, given, unsure, contended, served, faults>>
\* restoreOwnerAcl(): only while the two members' records are what the move wrote.
AsMoved(r) == \A p \in Members(r) : grants[p] = IF p = rq[r].next THEN "manager" ELSE "none"
Restored_Nothing(r) == grants
Restored(r) == IF AsMoved(r) THEN [p \in People |-> IF p \in Members(r) THEN rq[r].snapshot[p] ELSE grants[p]] ELSE grants
RestoreOwnerAcl(r) ==
    /\ rq[r].at = "restore" /\ AccessEnds(r) /\ grants' = Restored(r)
    /\ given' = IF AsMoved(r) THEN given \cup rq[r].was ELSE given
    /\ UNCHANGED <<mbox, unsure, contended, served, faults>>
\* A failed restore is only logged; a crash leaves what was written.
GiveUp(r) ==
    /\ rq[r].at \in {"write", "look", "restore", "grant"} /\ Fault /\ AccessEnds(r)
    /\ unsure' = unsure \cup Members(r) \cup (IF rq[r].at = "grant" THEN {rq[r].by} ELSE {})
    /\ UNCHANGED <<mbox, grants, given, contended, served>>

\* setMember(), removeMember(): the mailbox is read, then its list, which is saved under the version read (a conflict is a 409).
ReadForMember(r, by, who, role) ==
    /\ Serve(r) /\ mbox.exists
    /\ rq' = [rq EXCEPT ![r] = [NoAccessRequest EXCEPT !.at = "member", !.prev = mbox.owner, !.next = who, !.by = by, !.role = role]]
    /\ UNCHANGED <<mbox, grants, given, unsure, contended, faults>>
MayManage(r) ==
    LET by == rq[r].by IN
    \/ grants[by] = "manager"
    \/ by \in Admins /\ (rq[r].prev = Nobody \/ rq[r].role = "none")
SetMember(r) ==
    LET who == rq[r].next IN
    /\ rq[r].at = "member"
    /\ EndsTouching(r, who)
    /\ IF MayManage(r) /\ who # rq[r].prev /\ (who = rq[r].by => who \in Admins)
       THEN /\ grants' = [grants EXCEPT ![who] = rq[r].role]
            /\ given' = IF rq[r].role = "none" THEN given \ {who} ELSE given \cup {who}
            \* the owner read is no longer the owner, or an owner change is moving this member's record
            /\ unsure' = unsure \cup OwnerCrossed(who) \cup (IF mbox.owner = who THEN {who} ELSE {})
       ELSE UNCHANGED <<grants, given, unsure>>
    /\ UNCHANGED <<mbox, contended, served, faults>>
\* changeSenderList() and the other updates of the row
SaveRow(r) ==
    /\ Serve(r) /\ mbox.exists /\ rq' = Outdates(r, rq[r])
    /\ UNCHANGED <<mbox, grants, given, unsure, contended, faults>>
\* delete(): the row goes; the list stays until the data is erased.
DeleteMailbox(r, by) ==
    /\ Serve(r) /\ mbox.exists /\ (grants[by] = "manager" \/ by \in Admins) /\ mbox' = [mbox EXCEPT !.exists = FALSE, !.owner = Nobody]
    /\ UNCHANGED <<grants, rq, given, unsure, contended, faults>>
AcNext ==
    \/ \E r \in AccessRequests, by \in People, o \in People \cup {Nobody} : CreateBox(r, by, o)
    \/ \E r \in AccessRequests, by \in Admins, o \in People \cup {Nobody}, v \in BOOLEAN : ChangeOwner(r, by, o, v)
    \/ \E r \in AccessRequests : GrantNew(r) \/ MoveOwnerAcl(r) \/ MoveFails(r) \/ WriteOwner(r) \/ RowWriteFails(r)
    \/ \E r \in AccessRequests : LookAtOwner(r) \/ RestoreOwnerAcl(r) \/ GiveUp(r) \/ SetMember(r) \/ SaveRow(r)
    \/ \E r \in AccessRequests, by, who \in People, role \in Roles : ReadForMember(r, by, who, role)
    \/ \E r \in AccessRequests, by \in People : DeleteMailbox(r, by)
AcSpec == AcInit /\ [][AcNext]_acVars

--------------------------------------------------------------------------------
(****************************************************************************)
(* Access follows ownership across the two records: with no owner change    *)
(* under way the owner holds FULL, and anybody else with a record was given *)
(* it and not taken off since: a past owner keeps nothing, whatever write   *)
(* failed or conflicted and was undone, unless two owner changes crossed    *)
(* or a record was left to a retry.                                         *)
(****************************************************************************)
AccessFollowsOwner ==
    (mbox.exists /\ ~contended /\ \A r \in AccessRequests : ~Moving(r) /\ rq[r].at # "grant") =>
        \A p \in People \ unsure : IF p = mbox.owner THEN grants[p] = "manager" ELSE grants[p] # "none" => p \in given
================================================================================
