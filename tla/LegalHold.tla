------------------------------- MODULE LegalHold -------------------------------
(****************************************************************************)
(* Matters and the legal holds read from them: the operations of            *)
(* BaseMatterRoute and the checks of LegalHoldUtils, to be composed with    *)
(* what the holds must stop. A matter holds the mailboxes it names while it *)
(* is open; its dates matter only where a record has one.                   *)
(****************************************************************************)
EXTENDS Naturals

CONSTANTS
    Matters,    \* matters that may ever be created
    Boxes,      \* mailbox uids
    MaxDate     \* dates are 1..MaxDate

ASSUME LegalHoldAssumption == MaxDate \in Nat \ {0}

VARIABLE matter   \* each matter's state, custodians and date range

Dates == 1..MaxDate
NoMatter == [is |-> "none", boxes |-> {}, from |-> 1, to |-> MaxDate]
MatterRow == [is: {"none", "open", "closed"}, boxes: SUBSET Boxes, from: Dates, to: Dates]

HoldInit == matter = [m \in Matters |-> NoMatter]

\* matterCovers()
Covers(m, date) == matter[m].from <= date /\ date <= matter[m].to
\* findActiveHoldsFor(), assertNotOnLegalHold(): any open hold of the mailbox, or one that covers the date.
Holds(box) == {m \in Matters : matter[m].is = "open" /\ box \in matter[m].boxes}
Held(box) == Holds(box) # {}
HeldAt(box, date) == \E m \in Holds(box) : Covers(m, date)

\* create(): the custodians exist in the matter's scope.
CreateMatter(m, existing) ==
    /\ matter[m].is = "none"
    /\ \E bs \in SUBSET existing \ {{}}, from, to \in Dates :
        /\ from <= to
        /\ matter' = [matter EXCEPT ![m] = [is |-> "open", boxes |-> bs, from |-> from, to |-> to]]

\* update(), updateBulk(), updateProperty(): only of an open matter, and only mailboxes it adds are judged.
UpdateMatter(m, existing) ==
    /\ matter[m].is = "open"
    /\ \E bs \in SUBSET Boxes, from, to \in Dates :
        /\ bs \ matter[m].boxes \subseteq existing /\ bs # {} /\ from <= to
        /\ matter' = [matter EXCEPT ![m].boxes = bs, ![m].from = from, ![m].to = to]
        /\ matter' # matter

\* close(): for good.
CloseMatter(m) == matter[m].is = "open" /\ matter' = [matter EXCEPT ![m].is = "closed"]

\* delete(), truncate(): of a matter no access request names.
DeleteMatter(m) == matter[m].is # "none" /\ matter' = [matter EXCEPT ![m] = NoMatter]

HoldNext(existing) ==
    \E m \in Matters : CreateMatter(m, existing) \/ UpdateMatter(m, existing) \/ CloseMatter(m) \/ DeleteMatter(m)
================================================================================
