---------------------------- MODULE ContactKeys ----------------------------
(***************************************************************************)
(* The keys a mailbox holds for one correspondent: pinned on first sight,  *)
(* replaced only by a vouched successor or by the user, with the conflicts,*)
(* rejections and revocations that go with them.  Inbound key headers,     *)
(* discovery refreshes and the user's requests all go through              *)
(* writeContactKeys(): read, merge, write if unchanged, up to three times. *)
(* A response lists at most one key in use per slot; the lists of previous *)
(* and of rejected keys stay below their limits; the refresh of an OpenPGP *)
(* certificate already pinned changes nothing here.                        *)
(***************************************************************************)
EXTENDS Naturals, FiniteSets

CONSTANTS CkWriters, MaxCkOps, MaxKeyAttempts,
          Keys,        \* fingerprints
          SlotOf,      \* [Keys -> Slots]
          Vouched,     \* <<k, j>>: k's issuer, or k itself, certified j
          Responses    \* what a header or a discovery fetch may list

VARIABLES contact,     \* the contact's row
          expired,     \* keys past their notAfter
          writer,      \* the requests and workers
          ckOps

ckvars == <<contact, expired, writer, ckOps>>

Slots == {"x509", "openpgp"}
NoKey == "none"
ASSUME ContactKeysAssumption ==
    /\ NoKey \notin Keys /\ SlotOf \in [Keys -> Slots]
    /\ \A r \in Responses : r.active \subseteq Keys /\ r.seen \in Nat
NoContact == [there |-> FALSE, pin |-> [s \in Slots |-> NoKey], sev |-> [k \in Keys |-> 0], prev |-> {}, rej |-> {},
              confl |-> [s \in Slots |-> NoKey], seen |-> 0, rev |-> 0]
NoWriter == [op |-> "none", pc |-> "idle", arg |-> NoKey, slot |-> "x509", resp |-> {}, expected |-> NoKey, was |-> NoContact, tries |-> 1]

-----------------------------------------------------------------------------
(* Merging.                                                                *)

HeldKeys(c) == c.prev \cup ({c.pin[s] : s \in Slots} \ {NoKey})
Most(a, b) == IF a > b THEN a ELSE b
\* parseContactKey(), parseOpenPgpContactKey(): the key is one for this address and valid now.
ValidKey(k) == k \notin expired

\* A listed revocation only ever makes a stored one worse.
Severity(r, k) == IF k \in r.compromised THEN 2 ELSE IF k \in r.superseded THEN 1 ELSE 0
Escalated(c, r) == [k \in Keys |-> IF k \in HeldKeys(c) THEN Most(c.sev[k], Severity(r, k)) ELSE c.sev[k]]

\* A retired key's place is taken by a key its issuer - for OpenPGP the key itself, if not compromised - vouches for.
Retired(sev, k) == IF SlotOf[k] = "openpgp" /\ sev[k] > 0 THEN sev[k] = 1 ELSE sev[k] > 0 \/ k \in expired
CanReplaceAutomatically(sev, k, j) == <<k, j>> \in Vouched /\ Retired(sev, k) /\ ValidKey(j)

Listed(r, s) == {k \in r.active : SlotOf[k] = s}
\* What becomes of slot s: the key pinned, the key replaced, the conflict.
ForSlot(c, r, sev, s) ==
    LET old == c.pin[s]
        new == Listed(r, s) \ (c.prev \cup {old})
        key == CHOOSE k \in new : TRUE
        same == [pin |-> old, out |-> {}, confl |-> c.confl[s]]
    IN  CASE new = {} -> same
          [] new # {} /\ old = NoKey -> IF ValidKey(key) THEN [same EXCEPT !.pin = key] ELSE same
          [] new # {} /\ old # NoKey /\ CanReplaceAutomatically(sev, old, key) -> [pin |-> key, out |-> {old}, confl |-> NoKey]
          [] new # {} /\ old # NoKey /\ ~CanReplaceAutomatically(sev, old, key) ->
                 IF key \in c.rej THEN same ELSE [same EXCEPT !.confl = key]

\* applyDiscoveredKeys(): no key is ever dropped, and an older statement of preference never replaces a newer one.
Applied(c, r) ==
    LET sev == Escalated(c, r)
        slot == [s \in Slots |-> ForSlot(c, r, sev, s)]
    IN  [c EXCEPT !.there = TRUE, !.sev = sev, !.pin = [s \in Slots |-> slot[s].pin],
                  !.prev = @ \cup UNION {slot[s].out : s \in Slots},
                  !.confl = [s \in Slots |-> slot[s].confl], !.seen = Most(@, r.seen)]

\* The user's answers.
Accepted(c, s, k) == [c EXCEPT !.pin[s] = k, !.confl[s] = NoKey, !.prev = (@ \ {k}) \cup {c.pin[s]}, !.rej = @ \ {k}, !.sev[k] = 0]
Rejected(c, s) == [c EXCEPT !.confl[s] = NoKey, !.rej = @ \cup {c.confl[s]}]
Trusted(c, k) == [c EXCEPT !.there = TRUE, !.pin[SlotOf[k]] = k]

-----------------------------------------------------------------------------
(* writeContactKeys().                                                     *)

CkEnds(w) == writer' = [writer EXCEPT ![w] = NoWriter]
StartsWrite(w, rec) == /\ writer[w].pc = "idle" /\ ckOps < MaxCkOps /\ ckOps' = ckOps + 1
                       /\ writer' = [writer EXCEPT ![w] = [rec EXCEPT !.pc = "read"]]

\* A mail with an authenticated key header: at most one X.509 and one OpenPGP key, none revoked.
HeaderArrives(w) ==
    /\ \E r \in Responses : r.superseded \cup r.compromised = {} /\ StartsWrite(w, [NoWriter EXCEPT !.op = "header", !.resp = {r}])
    /\ UNCHANGED <<contact, expired>>
\* GET keys/lookup.
LookupAsked(w) == StartsWrite(w, [NoWriter EXCEPT !.op = "lookup"]) /\ UNCHANGED <<contact, expired>>
\* POST keys/trust.
TrustAsked(w) == /\ \E k \in Keys : ValidKey(k) /\ StartsWrite(w, [NoWriter EXCEPT !.op = "trust", !.arg = k])
                 /\ UNCHANGED <<contact, expired>>
\* POST keys/resolve, by a user who sees the pinned key and its conflict: accept (the conflict's key, or a certificate) or reject.
ResolveAsked(w) ==
    /\ \E s \in Slots :
         /\ contact.confl[s] # NoKey
         /\ \E op \in {"accept", "reject"}, k \in {NoKey} \cup {j \in Keys : SlotOf[j] = s /\ ValidKey(j)} :
              /\ op = "reject" => k = NoKey
              /\ StartsWrite(w, [NoWriter EXCEPT !.op = op, !.slot = s, !.arg = k, !.expected = contact.pin[s]])
    /\ UNCHANGED <<contact, expired>>

\* findContact(), past the cache.
ReadContact(w) == /\ writer[w].pc = "read"
                  /\ writer' = [writer EXCEPT ![w].pc = "write", ![w].was = contact]
                  /\ UNCHANGED <<contact, expired, ckOps>>

\* update() by version, or create() under the uid derived from the address: else the whole merge again.
Unchanged_Unchecked(w) == TRUE
Unchanged(w) == writer[w].was.there = contact.there /\ writer[w].was.rev = contact.rev
ReadsAgain(w) == [writer[w] EXCEPT !.pc = "read", !.tries = @ + 1]
\* A header that raised a conflict asks discovery at once.
Writes(w, row, next) ==
    /\ IF Unchanged(w) THEN /\ contact' = [row EXCEPT !.rev = contact.rev + 1]
                            /\ writer' = [writer EXCEPT ![w] = next]
       ELSE /\ writer' = [writer EXCEPT ![w] = IF writer[w].tries < MaxKeyAttempts THEN ReadsAgain(w) ELSE NoWriter]
            /\ UNCHANGED contact
    /\ UNCHANGED <<expired, ckOps>>
Refresh == [NoWriter EXCEPT !.op = "lookup", !.pc = "read"]

\* processInboundRapidMxKeyHeader(): a mailbox at its limit of contacts creates none (lost).
MergeHeader(w) ==
    LET c == writer[w].was
        new == Applied(c, CHOOSE r \in writer[w].resp : TRUE)
    IN  /\ writer[w].pc = "write" /\ writer[w].op = "header"
        /\ \/ Writes(w, new, IF \E s \in Slots : new.confl[s] \notin {NoKey, c.confl[s]} THEN Refresh ELSE NoWriter)
           \/ ~c.there /\ CkEnds(w) /\ UNCHANGED <<contact, expired, ckOps>>

\* discoverAndMergeKeys(): what the address's server lists now, or a cache holds; or nothing.
MergeDiscovered(w) ==
    /\ writer[w].pc = "write" /\ writer[w].op = "lookup"
    /\ \/ \E r \in Responses : Writes(w, Applied(writer[w].was, r), NoWriter)
       \/ CkEnds(w) /\ UNCHANGED <<contact, expired, ckOps>>

\* trust(): only a slot with no key in it.
MergeTrust(w) ==
    LET c == writer[w].was
        k == writer[w].arg
    IN  /\ writer[w].pc = "write" /\ writer[w].op = "trust"
        /\ IF c.pin[SlotOf[k]] = NoKey THEN Writes(w, Trusted(c, k), NoWriter)
           ELSE CkEnds(w) /\ UNCHANGED <<contact, expired, ckOps>>

\* resolve(): refused if the pinned key is not the one the user saw.
AsSeen(c, w) == c.pin[writer[w].slot] # NoKey /\ c.pin[writer[w].slot] = writer[w].expected
MergeResolve(w) ==
    LET c == writer[w].was
        s == writer[w].slot
        k == IF writer[w].arg = NoKey THEN c.confl[s] ELSE writer[w].arg
    IN  /\ writer[w].pc = "write" /\ writer[w].op \in {"accept", "reject"}
        /\ CASE ~c.there \/ ~AsSeen(c, w) \/ k \in {NoKey, c.pin[s]} -> CkEnds(w) /\ UNCHANGED <<contact, expired, ckOps>>
             [] c.there /\ AsSeen(c, w) /\ k \notin {NoKey, c.pin[s]} /\ writer[w].op = "accept" ->
                    IF ValidKey(k) THEN Writes(w, Accepted(c, s, k), NoWriter) ELSE CkEnds(w) /\ UNCHANGED <<contact, expired, ckOps>>
             [] c.there /\ AsSeen(c, w) /\ k \notin {NoKey, c.pin[s]} /\ writer[w].op = "reject" -> Writes(w, Rejected(c, s), NoWriter)

\* Time passes; the user deletes the contact.
KeyExpires(k) == k \notin expired /\ ckOps < MaxCkOps /\ ckOps' = ckOps + 1 /\ expired' = expired \cup {k} /\ UNCHANGED <<contact, writer>>
ContactDeleted == /\ contact.there /\ ckOps < MaxCkOps /\ ckOps' = ckOps + 1
                  /\ contact' = [NoContact EXCEPT !.rev = contact.rev + 1] /\ UNCHANGED <<expired, writer>>

CkInit == contact = NoContact /\ expired = {} /\ writer = [w \in CkWriters |-> NoWriter] /\ ckOps = 0
CkNext == \/ \E w \in CkWriters : \/ HeaderArrives(w) \/ LookupAsked(w) \/ TrustAsked(w) \/ ResolveAsked(w) \/ ReadContact(w)
                                  \/ MergeHeader(w) \/ MergeDiscovered(w) \/ MergeTrust(w) \/ MergeResolve(w)
          \/ \E k \in Keys : KeyExpires(k)
          \/ ContactDeleted

-----------------------------------------------------------------------------
\* Deciding(s): a user's accept, made looking at the pinned key of slot s, is being applied.
Deciding(s) == \E w \in CkWriters : writer[w].op = "accept" /\ writer[w].pc = "write" /\ writer[w].slot = s
                                    /\ writer[w].expected = contact.pin[s] /\ writer'[w] = NoWriter

\* A conflict shown to the user is open: never a key already rejected, pinned now or replaced before.
ConflictIsOpen ==
    \A s \in Slots : contact.confl[s] # NoKey => contact.confl[s] \notin contact.rej \cup contact.prev \cup {contact.pin[s]}

(* While the contact stands, whatever headers, refreshes and requests cross: a pinned key gives way only to a successor     *)
(* it (or its issuer) vouches for once it is retired, or to the user's decision about that very key; and then it is kept     *)
(* among the previous ones; no revocation of a held key is weakened, no preference replaced by an older one, and a conflict  *)
(* left for the user is an open one, however late the message that raised it is merged (KeyringUtils, ContactKeyUtils).      *)
KeyringKept ==
    [][ contact.there /\ contact'.there =>
          /\ \A s \in Slots : contact.pin[s] \notin {NoKey, contact'.pin[s]} =>
                /\ contact.pin[s] \in contact'.prev
                /\ CanReplaceAutomatically(contact'.sev, contact.pin[s], contact'.pin[s]) \/ Deciding(s)
          /\ \A k \in HeldKeys(contact) : contact'.sev[k] >= contact.sev[k] \/ (\E s \in Slots : Deciding(s) /\ contact'.pin[s] = k)
          /\ contact'.seen >= contact.seen
          /\ ConflictIsOpen' ]_ckvars
=============================================================================
