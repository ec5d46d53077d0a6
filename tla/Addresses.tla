------------------------------- MODULE Addresses -------------------------------
(****************************************************************************)
(* The addresses of mailboxes and distribution lists: a primary address and *)
(* aliases each, found by exact match when mail is delivered.               *)
(* BaseMailboxRoute and BaseDistributionListRoute look whether an address   *)
(* is taken before they save; only the tables' own keys (a row's uid, the   *)
(* unique index on a mailbox's primary address) are checked by the save.    *)
(****************************************************************************)
EXTENDS Naturals, FiniteSets

CONSTANTS
    MailboxRows, ListRows,     \* rows the two tables may come to hold
    Addrs, NoAddr,             \* addresses on the server's domains
    AliasChoices,              \* the sets of aliases a row may be given
    AddrRequests,              \* requests in flight
    MaxAddrRequests            \* bound: requests served

ASSUME AddressesAssumption == MailboxRows \cap ListRows = {} /\ NoAddr \notin Addrs /\ MaxAddrRequests \in Nat

VARIABLES
    holder,    \* each row: its uid (the address it was created at), its addresses, whether it is there
    areq,      \* what each request was found free to write
    raced,     \* addresses two requests, or two rows of one request, asked for at the same time
    listed,    \* addresses a list was created at while something else held them
    asked
adVars == <<holder, areq, raced, listed, asked>>

Rows == MailboxRows \cup ListRows
NoRow == [uid |-> NoAddr, primary |-> NoAddr, aliases |-> {}, is |-> "absent"]
NoAsk == [at |-> "idle", rows |-> [h \in {} |-> NoRow], new |-> FALSE]
AdInit ==
    /\ holder = [h \in Rows |-> NoRow] /\ areq = [r \in AddrRequests |-> NoAsk]
    /\ raced = {} /\ listed = {} /\ asked = 0

--------------------------------------------------------------------------------
Live(h) == holder[h].is = "live"
Holds(row) == ({row.primary} \cup row.aliases) \ {NoAddr}
HoldersOf(a) == {h \in Rows : Live(h) /\ a \in Holds(holder[h])}
\* A uid stays taken: a deleted list keeps its row, a deleted mailbox its data.
AddrUidTaken(a) == \E h \in Rows : holder[h].uid = a /\ holder[h].is # "absent"
\* assertAddressesAvailable(), assertAliasAddressesAvailable(): nobody else has it as its uid, its primary address or an alias.
Available_ByUid(h, a) == \A k \in Rows \ {h} : ~(holder[k].is # "absent" /\ holder[k].uid = a)
Available(h, a) == \A k \in Rows \ {h} : ~(Live(k) /\ a \in Holds(holder[k]) \cup {holder[k].uid}) /\ ~(k \in ListRows /\ holder[k].is = "gone" /\ holder[k].uid = a)

\* The addresses another request in flight, or a second row of this one, asks for as well.
Asked(rows) == UNION {Holds(rows[h]) : h \in DOMAIN rows}
Twice(rows) == {a \in Addrs : \E h, k \in DOMAIN rows : h # k /\ a \in Holds(rows[h]) /\ a \in Holds(rows[k])}
Asks(r, rows, new) ==
    /\ areq[r].at = "idle" /\ asked < MaxAddrRequests /\ asked' = asked + 1
    /\ areq' = [areq EXCEPT ![r] = [at |-> "save", rows |-> rows, new |-> new]]
    /\ raced' = raced \cup Twice(rows) \cup UNION {Asked(rows) \cap Asked(areq[q].rows) : q \in {q \in AddrRequests \ {r} : areq[q].at = "save"}}
Created(p, as) == [uid |-> p, primary |-> p, aliases |-> as, is |-> "live"]
\* createMailboxes(), one row or several: every address is looked up, and the uid must not have data left.
CreateMailboxes(r, rows) ==
    /\ \A h \in DOMAIN rows : h \in MailboxRows /\ holder[h].is = "absent" /\ ~AddrUidTaken(rows[h].uid)
    /\ \A h \in DOMAIN rows : \A a \in Holds(rows[h]) : Available(h, a)
    /\ \A h, k \in DOMAIN rows : h # k => rows[h].uid # rows[k].uid
    /\ Asks(r, rows, TRUE) /\ UNCHANGED <<holder, listed>>
\* assignUidAndCheckCollision() looks at uids only; the aliases are looked up in full.
CreateList(r, h, p, as) ==
    /\ h \in ListRows /\ holder[h].is = "absent" /\ ~AddrUidTaken(p) /\ \A a \in as : Available(h, a)
    /\ listed' = IF HoldersOf(p) # {} THEN listed \cup {p} ELSE listed
    /\ Asks(r, [k \in {h} |-> Created(p, as)], TRUE) /\ UNCHANGED holder
\* validateAddressChange(), validateAliasChange(): only what is new is looked up.
ChangeAddresses(r, h, p, as) ==
    /\ Live(h) /\ \A a \in ({p} \cup as) \ Holds(holder[h]) : Available(h, a)
    /\ p # holder[h].primary => Available(h, p)
    /\ Asks(r, [k \in {h} |-> [holder[h] EXCEPT !.primary = p, !.aliases = as]], FALSE) /\ UNCHANGED <<holder, listed>>
\* The save: a key already in the table refuses it, as does a row that is gone.
Savable(r) ==
    LET rows == areq[r].rows IN
    \A h \in DOMAIN rows :
        /\ IF areq[r].new THEN holder[h].is = "absent" ELSE Live(h)
        /\ areq[r].new => ~\E k \in Rows : holder[k].is # "absent" /\ holder[k].uid = rows[h].uid /\ (k \in ListRows <=> h \in ListRows)
        /\ h \in MailboxRows => ~\E k \in MailboxRows \ {h} : Live(k) /\ holder[k].primary = rows[h].primary
Save(r) ==
    LET rows == areq[r].rows IN
    /\ areq[r].at = "save" /\ areq' = [areq EXCEPT ![r] = NoAsk]
    /\ holder' = IF Savable(r) THEN [h \in Rows |-> IF h \in DOMAIN rows THEN rows[h] ELSE holder[h]] ELSE holder
    /\ UNCHANGED <<raced, listed, asked>>
\* delete(): a list is only marked deleted, a mailbox leaves its data.
Remove(h) ==
    /\ Live(h) /\ holder' = [holder EXCEPT ![h].is = "gone", ![h].aliases = {}] /\ UNCHANGED <<areq, raced, listed, asked>>
AdNext ==
    \/ \E r \in AddrRequests, h \in MailboxRows, p \in Addrs, as \in AliasChoices : CreateMailboxes(r, [k \in {h} |-> Created(p, as)])
    \/ \E r \in AddrRequests, h, k \in MailboxRows, p, q \in Addrs, a \in Addrs :
           h # k /\ CreateMailboxes(r, [j \in {h, k} |-> IF j = h THEN Created(p, {}) ELSE Created(q, {a})])
    \/ \E r \in AddrRequests, h \in ListRows, p \in Addrs, as \in AliasChoices : CreateList(r, h, p, as)
    \/ \E r \in AddrRequests, h \in Rows, p \in Addrs, as \in AliasChoices : ChangeAddresses(r, h, p, as)
    \/ \E r \in AddrRequests : Save(r)
    \/ \E h \in Rows : Remove(h)
AdSpec == AdInit /\ [][AdNext]_adVars

--------------------------------------------------------------------------------
(****************************************************************************)
(* Two rows never share an address, whatever was created, renamed, given    *)
(* aliases and deleted before, unless two requests (or two rows of one)     *)
(* asked for it at the same time, or a list was created at an address that  *)
(* was no row's uid but somebody's alias or new primary address.            *)
(****************************************************************************)
HeldOnce == \A a \in Addrs \ (raced \cup listed) : Cardinality(HoldersOf(a)) <= 1
================================================================================
