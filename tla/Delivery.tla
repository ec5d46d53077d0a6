-------------------------------- MODULE Delivery -------------------------------
(****************************************************************************)
(* BaseMailIngestRoute.deliver(): one message the MTA hands over, for its   *)
(* recipients one after another: a mailbox, a zero-access mailbox filed     *)
(* before the answer, a distribution list with nested lists and members     *)
(* elsewhere, an address that is nobody's.  The MTA repeats the transaction *)
(* after a failure or an answer it did not get, while the first call may    *)
(* still run; administrators change lists and transport rules meanwhile.    *)
(****************************************************************************)
EXTENDS Naturals, FiniteSets, SequencesExt

CONSTANTS
    Calls,                     \* calls of deliver()
    Boxes, SealedBoxes,        \* mailboxes; those whose mail is zero-access
    Lists, Outside,            \* distribution lists; members elsewhere
    Recipients,                \* the envelope's recipients
    Copied,                    \* the mailbox a transport rule adds as a recipient
    Sender,                    \* the envelope's sender, a member of a list
    ListChoices,               \* the members lists may be given
    RuleChoices,               \* the transport rules there may be, in the order of their sequence
    MaxDepth,                  \* mail:distribution_lists:max_depth
    MaxTransactions, MaxListChanges  \* bounds: transactions of the MTA; changes by administrators

ASSUME DeliveryAssumption == SealedBoxes \subseteq Boxes /\ Copied \in Boxes /\ {MaxDepth, MaxTransactions, MaxListChanges} \subseteq Nat

VARIABLES
    list,          \* each list: its members in order, and whether only members may write to it
    rules,         \* the transport rules: each one's actions, whether it is enabled and matches the message, and whether it ends the evaluation
    txn,           \* the MTA: whether it still holds the message, how often it tried, how many tries were forced
    call,          \* what each call of deliver() is doing
    entries,       \* staged ingest queue entries, each with what its uid is derived from
    sealedFiled,   \* entries of zero-access mailboxes filed inline
    relays,        \* how often the message was relayed to each member elsewhere of each list
    notices,       \* recipients the sender was told are nobody's
    listChanges

dlVars == <<list, rules, txn, call, entries, sealedFiled, relays, notices, listChanges>>
Unborn == [at |-> "idle", key |-> <<{}, 0>>, todo |-> {}, held |-> FALSE, via |-> "none", queue |-> {}, send |-> {}, owed |-> {},
          inline |-> {}, failed |-> {}, relayed |-> 0, unfiled |-> FALSE]
DlInit ==
    /\ list \in [Lists -> [members : ListChoices, closed : {FALSE}]] /\ rules = <<>>
    /\ txn = [holds |-> TRUE, tries |-> 0, forced |-> 0] /\ call = [c \in Calls |-> Unborn]
    /\ entries = {} /\ sealedFiled = {} /\ relays = [p \in Outside \X Lists |-> 0] /\ notices = {} /\ listChanges = 0

--------------------------------------------------------------------------------
\* isListMember()
MayWrite(l) == list[l].closed => Contains(list[l].members, Sender)
\* expandDistributionList(): depth first in the order of the members; a list seen before is not entered again.
RECURSIVE Expand(_, _, _)
Expand(l, seen, depth) ==
    IF depth > MaxDepth \/ ~MayWrite(l) THEN [got |-> {}, seen |-> seen]
    ELSE FoldLeft(LAMBDA acc, a :
             IF a \notin Lists THEN [acc EXCEPT !.got = @ \cup {a}]
             ELSE IF a \in acc.seen THEN acc
             ELSE LET nested == Expand(a, acc.seen \cup {a}, depth + 1) IN [got |-> acc.got \cup nested.got, seen |-> nested.seen],
             [got |-> {}, seen |-> seen], list[l].members)
Expanded_FirstLevel(l) == {a \in ToSet(list[l].members) : a \notin Lists}
Expanded(l) == Expand(l, {l}, 0).got
\* What the lists promise: everybody a list names, itself or through lists that accept the sender.
RECURSIVE ReachedLists(_)
ReachedLists(S) ==
    LET more == S \cup {l \in Lists : MayWrite(l) /\ \E k \in S : Contains(list[k].members, l)} IN IF more = S THEN S ELSE ReachedLists(more)
Promised(l) == UNION {ToSet(list[k].members) \ Lists : k \in ReachedLists({l} \cap {k \in Lists : MayWrite(k)})}

--------------------------------------------------------------------------------
\* evaluateTransportRules(): the actions of the enabled rules that match, up to the first one that ends the evaluation
Outcome(rs) == UNION {rs[i].acts : i \in {i \in DOMAIN rs : rs[i].on /\ ~\E j \in 1 .. i - 1 : rs[j].on /\ rs[j].stop}}
\* The MTA hands the message over; applyTransportRules() comes first, and what it adds is part of what identifies the transaction.
TransactionKey(c) == <<Outcome(rules), 0>>
Deliver(c) ==
    /\ call[c].at = "idle" /\ txn.holds /\ txn.tries < MaxTransactions /\ txn' = [txn EXCEPT !.tries = @ + 1, !.forced = IF \E d \in Calls : call[d].at # "idle" THEN @ + 1 ELSE @]
    /\ call' = [call EXCEPT ![c] = IF "reject" \in Outcome(rules) THEN [Unborn EXCEPT !.at = "accepted"]
                ELSE [Unborn EXCEPT !.at = "next", !.key = TransactionKey(c), !.held = "quarantine" \in Outcome(rules),
                                   !.todo = Recipients \cup (IF "copy" \in Outcome(rules) THEN {Copied} ELSE {})]]
    /\ UNCHANGED <<list, rules, entries, sealedFiled, relays, notices, listChanges>>
\* A recipient is an exact mailbox, else a list, else nobody.
Goes(c, r, boxes, outside, owed) ==
    call' = [call EXCEPT ![c] = [@ EXCEPT !.todo = @ \ {r}, !.via = r, !.queue = boxes, !.send = outside, !.owed = @ \cup owed]]
ToMailbox(c, r) ==
    /\ call[c].at = "next" /\ call[c].queue \cup call[c].send = {} /\ r \in call[c].todo /\ r \in Boxes
    /\ Goes(c, r, {r}, {}, {<<r, r>>})
    /\ UNCHANGED <<list, rules, txn, entries, sealedFiled, relays, notices, listChanges>>
\* A quarantined message is not relayed outside.
ToList(c, l) ==
    /\ call[c].at = "next" /\ call[c].queue \cup call[c].send = {} /\ l \in call[c].todo /\ l \in Lists
    /\ Goes(c, l, Expanded(l) \cap Boxes, IF call[c].held THEN {} ELSE Expanded(l) \cap Outside,
            {<<a, l>> : a \in IF call[c].held THEN Promised(l) \ Outside ELSE Promised(l)})
    /\ UNCHANGED <<list, rules, txn, entries, sealedFiled, relays, notices, listChanges>>
\* reportUnresolvableRecipient()
ToNobody(c, r) ==
    /\ call[c].at = "next" /\ call[c].queue \cup call[c].send = {} /\ r \in call[c].todo \ (Boxes \cup Lists)
    /\ notices' = notices \cup {r} /\ Goes(c, r, {}, {}, {})
    /\ UNCHANGED <<list, rules, txn, entries, sealedFiled, relays, listChanges>>
\* queueRecipient(), queueIngestEntry(): an entry made by an earlier call is found, and processed again when it is a sealed one.
QueueRecipient(c, b) ==
    LET e == [box |-> b, for |-> call[c].via, key |-> call[c].key] IN
    /\ b \in call[c].queue /\ entries' = entries \cup {e}
    /\ call' = [call EXCEPT ![c].queue = @ \ {b}, ![c].inline = IF b \in SealedBoxes THEN @ \cup {e} ELSE @]
    /\ UNCHANGED <<list, rules, txn, sealedFiled, relays, notices, listChanges>>
RelayOutside(c, x, outcome) ==
    /\ x \in call[c].send /\ call[c].queue = {}
    /\ relays' = IF outcome = "taken" THEN [relays EXCEPT ![<<x, call[c].via>>] = @ + 1] ELSE relays
    /\ call' = [call EXCEPT ![c] = [@ EXCEPT !.send = @ \ {x}, !.relayed = IF outcome = "taken" THEN @ + 1 ELSE @,
                                    !.failed = IF outcome = "later" THEN @ \cup {x} ELSE @,
                                    !.owed = IF outcome = "taken" THEN @ ELSE @ \ {<<x, call[c].via>>}]]
    /\ UNCHANGED <<list, rules, txn, entries, sealedFiled, notices, listChanges>>
\* processZeroAccessInline(), once every recipient was gone through
FileInline(c, e, ok) ==
    /\ call[c].at = "next" /\ call[c].todo = {} /\ call[c].queue \cup call[c].send = {} /\ e \in call[c].inline
    /\ sealedFiled' = IF ok THEN sealedFiled \cup {e} ELSE sealedFiled
    /\ call' = [call EXCEPT ![c] = [@ EXCEPT !.inline = @ \ {e}, !.unfiled = @ \/ ~ok]]
    /\ UNCHANGED <<list, rules, txn, entries, relays, notices, listChanges>>
\* The answer: again, please, when a sealed copy failed, or when relays failed and none went out.
MustRetry(c) == call[c].unfiled \/ (call[c].failed # {} /\ call[c].relayed = 0)
Answer(c) ==
    /\ call[c].at = "next" /\ call[c].todo \cup call[c].queue \cup call[c].send = {} /\ call[c].inline = {}
    /\ call' = [call EXCEPT ![c].at = IF MustRetry(c) THEN "refused" ELSE "accepted"]
    /\ UNCHANGED <<list, rules, txn, entries, sealedFiled, relays, notices, listChanges>>
\* The MTA hears the answer, or gives the connection up and tries again while the call goes on.
Hears(c) ==
    /\ call[c].at \in {"refused", "accepted"} /\ call' = [call EXCEPT ![c] = Unborn]
    /\ txn' = [txn EXCEPT !.holds = @ /\ call[c].at = "refused",
                          !.forced = IF call[c].at = "refused" /\ call[c].unfiled THEN @ + 1 ELSE @]
    /\ UNCHANGED <<list, rules, entries, sealedFiled, relays, notices, listChanges>>
Unheard(c) ==
    /\ call[c].at = "accepted" /\ txn.tries < MaxTransactions /\ call' = [call EXCEPT ![c] = Unborn] /\ txn' = [txn EXCEPT !.forced = @ + 1]
    /\ UNCHANGED <<list, rules, entries, sealedFiled, relays, notices, listChanges>>

\* BaseDistributionListRoute.update(), BaseTransportRuleRoute; handleUnsubscribe() takes a member off the same way.
Edits == listChanges < MaxListChanges /\ listChanges' = listChanges + 1
UpdateList(l, ms, closed) ==
    /\ Edits /\ list' = [list EXCEPT ![l] = [members |-> ms, closed |-> closed]]
    /\ UNCHANGED <<rules, txn, call, entries, sealedFiled, relays, notices>>
Unsubscribe(l, x) ==
    /\ Edits /\ Contains(list[l].members, x) /\ list' = [list EXCEPT ![l].members = SelectSeq(@, LAMBDA a : a # x)]
    /\ UNCHANGED <<rules, txn, call, entries, sealedFiled, relays, notices>>
ChangeRules(rs) ==
    /\ Edits /\ rules' = rs /\ UNCHANGED <<list, txn, call, entries, sealedFiled, relays, notices>>
DlNext ==
    \/ \E c \in Calls : Deliver(c) \/ Answer(c) \/ Hears(c) \/ Unheard(c)
    \/ \E c \in Calls : \E r \in call[c].todo : ToMailbox(c, r) \/ ToList(c, r) \/ ToNobody(c, r)
    \/ \E c \in Calls : \E b \in call[c].queue : QueueRecipient(c, b)
    \/ \E c \in Calls : \E x \in call[c].send, o \in {"taken", "later", "never"} : RelayOutside(c, x, o)
    \/ \E c \in Calls : \E e \in call[c].inline, ok \in BOOLEAN : FileInline(c, e, ok)
    \/ \E l \in Lists, ms \in ListChoices, closed \in BOOLEAN : UpdateList(l, ms, closed)
    \/ \E l \in Lists, x \in Outside : Unsubscribe(l, x)
    \/ \E rs \in RuleChoices : ChangeRules(rs)
DlSpec == DlInit /\ [][DlNext]_dlVars

--------------------------------------------------------------------------------
(****************************************************************************)
(* deliver() answers 202 only when the MTA may forget the message: every    *)
(* mailbox the recipients and the lists, nested ones too, name has its      *)
(* entry, and a zero-access one is filed; every member elsewhere was sent   *)
(* to, but for those given up on.                                           *)
(****************************************************************************)
Covered(o) ==
    IF o[1] \in Outside THEN relays[o] > 0
    ELSE \E e \in IF o[1] \in SealedBoxes THEN sealedFiled ELSE entries : e.box = o[1] /\ e.for = o[2]
AcceptedIsCovered == \A c \in Calls : call[c].at = "accepted" => \A o \in call[c].owed : Covered(o)
(****************************************************************************)
(* A retried transaction "redoes only what isn't done yet": a mailbox has   *)
(* one entry for each recipient it was addressed through, however often and *)
(* concurrently the transaction came, and a member elsewhere is relayed to  *)
(* again only by a try that a sealed copy's failure, an unheard answer or a *)
(* second call running beside the first brought about.                      *)
(****************************************************************************)
NoNeedlessCopy ==
    /\ \A e, f \in entries : (e.key[1] = f.key[1] /\ e.box = f.box /\ e.for = f.for) => e = f
    /\ \A p \in DOMAIN relays : relays[p] <= 1 + txn.forced

(****************************************************************************)
(* The transaction as a whole: the answer 202 is true, and a retry adds     *)
(* nothing it need not (BaseMailIngestRoute.deliver()).                     *)
(****************************************************************************)
DeliveryHolds == AcceptedIsCovered /\ NoNeedlessCopy
================================================================================
