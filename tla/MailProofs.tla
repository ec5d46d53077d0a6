------------------------------- MODULE MailProofs ------------------------------
(****************************************************************************)
(* What is proved of a mailbox: who holds an address, who has access, what  *)
(* is kept sealed, its folders, its search index, its attachments and its   *)
(* quota. The components share no variable; each has an invariant of its    *)
(* own.                                                                     *)
(****************************************************************************)
EXTENDS Addresses, MailboxAccess, SealedData, Folders, SearchIndexing, Attachments, FiniteSetTheorems, TLAPS

--------------------------------------------------------------------------------
(****************************************************************************)
(* Addresses: mailboxes and lists created, renamed, given aliases and       *)
(* deleted by any number of requests. What a request asks for was free of   *)
(* every other live row when it was looked up, and stays so while it waits  *)
(* for its save unless another request asks for it too (AskedFree), which   *)
(* puts the address among the raced ones (RacesSeen, TwiceSeen). So a save  *)
(* gives an address that is not excused to a second row only if that row is *)
(* the one that held it.                                                    *)
(****************************************************************************)

\* Every address a row may come to hold.
AliasAddrs == Addrs \cup UNION AliasChoices
RowRecords == [uid : Addrs \cup {NoAddr}, primary : Addrs \cup {NoAddr}, aliases : SUBSET AliasAddrs, is : {"absent",
    "live", "gone"}]
RowChoices == UNION {[S -> RowRecords] : S \in SUBSET Rows}
AskRecords == [at : {"idle", "save"}, rows : RowChoices, new : BOOLEAN]
AdTypeOK == holder \in [Rows -> RowRecords] /\ areq \in [AddrRequests -> AskRecords]
\* The addresses two requests asked for at once, and those a list was created at all the same.
Excused == raced \cup listed
\* An address that is not excused lies at one live row.
HeldByOne == \A a \in Addrs \ Excused : \A h, k \in Rows :
    Live(h) /\ Live(k) /\ a \in Holds(holder[h]) /\ a \in Holds(holder[k]) => h = k
\* What a request is about to save is free of every other row.
AskedFree == \A a \in Addrs \ Excused : \A r \in AddrRequests : areq[r].at = "save" =>
    \A h \in DOMAIN areq[r].rows : \A k \in Rows \ {h} : a \in Holds(areq[r].rows[h]) /\ Live(k) => a \notin Holds(holder[k])
\* What two requests ask for at once is known to have raced.
RacesSeen == \A q, r \in AddrRequests : q # r /\ areq[q].at = "save" /\ areq[r].at = "save" =>
    Asked(areq[q].rows) \cap Asked(areq[r].rows) \subseteq raced
\* So is what two rows of one request ask for.
TwiceSeen == \A r \in AddrRequests : areq[r].at = "save" => Twice(areq[r].rows) \subseteq raced
HInvs == AdTypeOK /\ HeldByOne /\ AskedFree /\ RacesSeen /\ TwiceSeen

\* The rows of a request are rows of the tables.
LEMMA ChoiceIs ==
    ASSUME NEW f \in RowChoices
    PROVE  DOMAIN f \subseteq Rows /\ \A h \in DOMAIN f : f[h] \in RowRecords
  BY DEF RowChoices

\* Rows of the tables make a request.
LEMMA ChoiceOf ==
    ASSUME NEW S \in SUBSET Rows, NEW f \in [S -> RowRecords]
    PROVE  f \in RowChoices
  BY DEF RowChoices

\* The rows of a request have their type.
LEMMA AskTypes ==
    ASSUME AdTypeOK, NEW r \in AddrRequests
    PROVE  /\ areq[r] \in AskRecords /\ areq[r].rows \in RowChoices /\ DOMAIN areq[r].rows \subseteq Rows
           /\ \A h \in DOMAIN areq[r].rows : areq[r].rows[h] \in RowRecords
  BY ChoiceIs DEF AdTypeOK, AskRecords

\* A request that looked its addresses up (isAddressAvailable) and found them free keeps the invariant.
LEMMA AskKeeps ==
    ASSUME HInvs, NEW r \in AddrRequests, NEW chosen \in RowChoices, NEW new \in BOOLEAN, Asks(r, chosen, new), UNCHANGED holder,
           listed \subseteq listed',
           \A a \in Addrs \ Excused' : \A h \in DOMAIN chosen : \A k \in Rows \ {h} :
               a \in Holds(chosen[h]) /\ Live(k) => a \notin Holds(holder[k])
    PROVE  HInvs'
  <1> DEFINE ask == [at |-> "save", rows |-> chosen, new |-> new]
  <1>1. ask \in AskRecords /\ ask.at = "save" /\ ask.rows = chosen
    BY DEF AskRecords
  <1>2. areq' = [areq EXCEPT ![r] = ask] /\ areq[r].at = "idle"
    BY DEF Asks
  <1> HIDE DEF ask
  <1>3. areq' \in [AddrRequests -> AskRecords] /\ areq'[r] = ask /\ \A q \in AddrRequests \ {r} : areq'[q] = areq[q]
    BY <1>1, <1>2 DEF HInvs, AdTypeOK
  <1>4. /\ raced \subseteq raced' /\ Twice(chosen) \subseteq raced'
        /\ \A q \in AddrRequests \ {r} : areq[q].at = "save" => Asked(chosen) \cap Asked(areq[q].rows) \subseteq raced'
    BY DEF Asks
  <1>5. Excused \subseteq Excused'
    BY <1>4 DEF Excused
  <1>6. AdTypeOK'
    BY <1>3 DEF HInvs, AdTypeOK
  <1>7. HeldByOne'
    BY <1>5 DEF HInvs, HeldByOne, Live
  <1>8. AskedFree'
    BY <1>1, <1>3, <1>5 DEF HInvs, AskedFree, Live
  <1>9. RacesSeen'
    BY <1>1, <1>3, <1>4 DEF HInvs, RacesSeen
  <1>10. TwiceSeen'
    BY <1>1, <1>3, <1>4 DEF HInvs, TwiceSeen
  <1>11. QED BY <1>6, <1>7, <1>8, <1>9, <1>10 DEF HInvs

\* A created row has its type.
LEMMA CreatedType ==
    ASSUME NEW p \in Addrs, NEW as \in SUBSET AliasAddrs
    PROVE  Created(p, as) \in RowRecords
  BY DEF Created, RowRecords

\* createMailboxes() keeps it: every address of every row is looked up.
LEMMA CreateMailboxesKeeps ==
    ASSUME HInvs, NEW r \in AddrRequests, NEW chosen \in RowChoices, CreateMailboxes(r, chosen)
    PROVE  HInvs'
  <1>1. \A h \in DOMAIN chosen : \A a \in Holds(chosen[h]) : Available(h, a)
    BY DEF CreateMailboxes
  <1>2. Asks(r, chosen, TRUE) /\ UNCHANGED <<holder, listed>>
    BY DEF CreateMailboxes
  <1>3. \A a \in Addrs \ Excused' : \A h \in DOMAIN chosen : \A k \in Rows \ {h} :
            a \in Holds(chosen[h]) /\ Live(k) => a \notin Holds(holder[k])
    BY <1>1 DEF Available
  <1>4. QED BY <1>2, <1>3, AskKeeps

\* Creating a list keeps it: an address it does not look up is put among the listed ones.
LEMMA CreateListKeeps ==
    ASSUME HInvs, NEW r \in AddrRequests, NEW h \in ListRows, NEW p \in Addrs, NEW as \in AliasChoices, CreateList(r, h,
        p, as)
    PROVE  HInvs'
  <1> DEFINE chosen == [k \in {h} |-> Created(p, as)]
  <1>1. chosen \in [{h} -> RowRecords] /\ {h} \in SUBSET Rows
    BY CreatedType DEF AliasAddrs, Rows
  <1>2. chosen \in RowChoices
    BY <1>1, ChoiceOf
  <1>3. Asks(r, chosen, TRUE) /\ UNCHANGED holder
    BY DEF CreateList
  <1>4. listed \subseteq listed' /\ (HoldersOf(p) # {} => p \in listed')
    BY DEF CreateList
  <1>5. DOMAIN chosen = {h} /\ Holds(chosen[h]) \subseteq {p} \cup as
    BY DEF Holds, Created
  <1> HIDE DEF chosen
  <1>6. ASSUME NEW a \in Addrs \ Excused', NEW g \in DOMAIN chosen, NEW k \in Rows \ {g}, a \in Holds(chosen[g]), Live(k)
        PROVE  a \notin Holds(holder[k])
    <2>1. g = h /\ (a = p \/ a \in as)
      BY <1>5, <1>6
    <2>2. CASE a = p
      BY <1>4, <1>6, <2>2 DEF HoldersOf, Excused
    <2>3. CASE a \in as
      BY <1>6, <2>1, <2>3 DEF CreateList, Available
    <2>4. QED BY <2>1, <2>2, <2>3
  <1>7. QED BY <1>2, <1>3, <1>4, <1>6, AskKeeps

\* validateAddressChange() and validateAliasChange() keep it: what is not new is the row's own already.
LEMMA ChangeAddressesKeeps ==
    ASSUME HInvs, NEW r \in AddrRequests, NEW h \in Rows, NEW p \in Addrs, NEW as \in AliasChoices, ChangeAddresses(r,
        h, p, as)
    PROVE  HInvs'
  <1> DEFINE row == [holder[h] EXCEPT !.primary = p, !.aliases = as]
             chosen == [k \in {h} |-> row]
  <1>0. as \in SUBSET AliasAddrs /\ holder[h] \in RowRecords
    BY DEF AliasAddrs, HInvs, AdTypeOK
  <1>1. row \in RowRecords /\ Holds(row) \subseteq {p} \cup as
    BY <1>0 DEF RowRecords, Holds
  <1>2. Asks(r, chosen, FALSE) /\ UNCHANGED <<holder, listed>> /\ Live(h)
    BY DEF ChangeAddresses
  <1> HIDE DEF row
  <1>3. chosen \in [{h} -> RowRecords] /\ DOMAIN chosen = {h} /\ chosen[h] = row /\ {h} \in SUBSET Rows
    BY <1>1
  <1>4. chosen \in RowChoices
    BY <1>3, ChoiceOf
  <1> HIDE DEF chosen
  <1>5. raced \subseteq raced'
    BY <1>2 DEF Asks
  <1>6. ASSUME NEW a \in Addrs \ Excused', NEW g \in DOMAIN chosen, NEW k \in Rows \ {g}, a \in Holds(chosen[g]), Live(k)
        PROVE  a \notin Holds(holder[k])
    <2>1. g = h /\ (a \in {p} \cup as)
      BY <1>1, <1>3, <1>6
    <2>2. CASE a \in Holds(holder[h])
      <3>1. a \notin Excused
        BY <1>2, <1>5 DEF Excused
      <3>2. QED BY <1>2, <1>6, <2>1, <2>2, <3>1 DEF HInvs, HeldByOne
    <2>3. CASE a \notin Holds(holder[h])
      <3>1. Available(h, a)
        BY <2>1, <2>3 DEF ChangeAddresses
      <3>2. QED BY <1>6, <2>1, <3>1 DEF Available
    <2>4. QED BY <2>2, <2>3
  <1>7. QED BY <1>2, <1>4, <1>6, AskKeeps

\* A save keeps it: what it gives a row was free of the others.
LEMMA SaveKeeps ==
    ASSUME HInvs, NEW r \in AddrRequests, Save(r)
    PROVE  HInvs'
  <1> DEFINE chosen == areq[r].rows
  <1>1. chosen \in RowChoices /\ DOMAIN chosen \subseteq Rows /\ \A h \in DOMAIN chosen : chosen[h] \in RowRecords
    BY AskTypes DEF HInvs
  <1>2. /\ areq[r].at = "save" /\ areq' = [areq EXCEPT ![r] = NoAsk] /\ UNCHANGED <<raced, listed>>
        /\ holder' = holder \/ holder' = [h \in Rows |-> IF h \in DOMAIN chosen THEN chosen[h] ELSE holder[h]]
    BY DEF Save
  <1> HIDE DEF chosen
  <1>3. NoAsk \in AskRecords /\ NoAsk.at = "idle"
    <2>1. [h \in {} |-> NoRow] \in [{} -> RowRecords]
      OBVIOUS
    <2>2. [h \in {} |-> NoRow] \in RowChoices
      BY <2>1, ChoiceOf
    <2>3. QED BY <2>2 DEF NoAsk, AskRecords
  <1>4. areq' \in [AddrRequests -> AskRecords] /\ areq'[r] = NoAsk /\ \A q \in AddrRequests \ {r} : areq'[q] = areq[q]
    BY <1>2, <1>3 DEF HInvs, AdTypeOK
  <1>5. RacesSeen' /\ TwiceSeen'
    BY <1>2, <1>3 DEF HInvs, RacesSeen, TwiceSeen
  <1>6. CASE holder' = holder
    <2>1. AdTypeOK'
      BY <1>4, <1>6 DEF HInvs, AdTypeOK
    <2>2. HeldByOne'
      BY <1>2, <1>6 DEF HInvs, HeldByOne, Excused, Live
    <2>3. AskedFree'
      BY <1>2, <1>3, <1>6 DEF HInvs, AskedFree, Excused, Live
    <2>4. QED BY <1>5, <2>1, <2>2, <2>3 DEF HInvs
  <1>7. CASE holder' = [h \in Rows |-> IF h \in DOMAIN chosen THEN chosen[h] ELSE holder[h]]
    <2>1. AdTypeOK'
      BY <1>1, <1>4, <1>7 DEF HInvs, AdTypeOK
    <2>2. \A h \in Rows : \/ h \in DOMAIN chosen /\ holder'[h] = chosen[h]
                          \/ h \notin DOMAIN chosen /\ holder'[h] = holder[h]
      BY <1>7
    <2>3. \A a \in Addrs \ Excused : \A h \in DOMAIN chosen : \A k \in Rows \ {h} :
              a \in Holds(chosen[h]) => k \notin DOMAIN chosen \/ a \notin Holds(chosen[k])
      BY <1>2 DEF HInvs, TwiceSeen, Twice, Excused, chosen
    <2>4. \A a \in Addrs \ Excused : \A h \in DOMAIN chosen : \A k \in Rows \ {h} :
              a \in Holds(chosen[h]) /\ Live(k) => a \notin Holds(holder[k])
      BY <1>2 DEF HInvs, AskedFree, chosen
    <2>5. HeldByOne'
      <3> SUFFICES ASSUME NEW a \in (Addrs \ Excused)', NEW h \in Rows, NEW k \in Rows, Live(h)', Live(k)',
              a \in Holds(holder[h])',
                          a \in Holds(holder[k])', h # k
                   PROVE  FALSE
        BY DEF HeldByOne
      <3>1. a \in Addrs \ Excused
        BY <1>2 DEF Excused
      <3>2. CASE h \in DOMAIN chosen /\ k \in DOMAIN chosen
        BY <2>2, <2>3, <3>1, <3>2
      <3>3. CASE h \in DOMAIN chosen /\ k \notin DOMAIN chosen
        BY <2>2, <2>4, <3>1, <3>3 DEF Live
      <3>4. CASE h \notin DOMAIN chosen /\ k \in DOMAIN chosen
        BY <2>2, <2>4, <3>1, <3>4 DEF Live
      <3>5. CASE h \notin DOMAIN chosen /\ k \notin DOMAIN chosen
        BY <2>2, <3>1, <3>5 DEF Live, HInvs, HeldByOne
      <3>6. QED BY <3>2, <3>3, <3>4, <3>5
    <2>6. AskedFree'
      <3> SUFFICES ASSUME NEW a \in (Addrs \ Excused)', NEW q \in AddrRequests, areq'[q].at = "save",
              NEW h \in DOMAIN areq'[q].rows,
                          NEW k \in Rows \ {h}, a \in Holds(areq'[q].rows[h]), Live(k)', a \in Holds(holder[k])'
                   PROVE  FALSE
        BY DEF AskedFree
      <3>1. a \in Addrs \ Excused
        BY <1>2 DEF Excused
      <3>2. q # r /\ areq'[q] = areq[q] /\ areq[q].at = "save"
        BY <1>3, <1>4
      <3>3. CASE k \in DOMAIN chosen
        <4>1. a \in Asked(chosen) /\ a \in Asked(areq[q].rows)
          BY <2>2, <3>2, <3>3 DEF Asked
        <4>2. a \in raced
          BY <1>2, <3>2, <4>1 DEF HInvs, RacesSeen, chosen
        <4>3. QED BY <3>1, <4>2 DEF Excused
      <3>4. CASE k \notin DOMAIN chosen
        BY <2>2, <3>1, <3>2, <3>4 DEF Live, HInvs, AskedFree
      <3>5. QED BY <3>3, <3>4
    <2>7. QED BY <1>5, <2>1, <2>5, <2>6 DEF HInvs
  <1>8. QED BY <1>2, <1>6, <1>7

\* A deletion keeps it: it only takes addresses away.
LEMMA RemoveKeeps ==
    ASSUME HInvs, NEW h \in Rows, Remove(h)
    PROVE  HInvs'
  <1> DEFINE row == [holder[h] EXCEPT !.is = "gone", !.aliases = {}]
  <1>1. row \in RowRecords /\ row.is = "gone"
    BY DEF HInvs, AdTypeOK, RowRecords
  <1>2. holder' = [holder EXCEPT ![h] = row] /\ UNCHANGED <<areq, raced, listed>>
    BY DEF Remove
  <1> HIDE DEF row
  <1>3. holder' \in [Rows -> RowRecords] /\ holder'[h] = row /\ \A k \in Rows \ {h} : holder'[k] = holder[k]
    BY <1>1, <1>2 DEF HInvs, AdTypeOK
  <1>4. AdTypeOK'
    BY <1>2, <1>3 DEF HInvs, AdTypeOK
  <1>5. HeldByOne'
    BY <1>1, <1>2 DEF HInvs, HeldByOne, Excused, Live
  <1>6. AskedFree'
    BY <1>1, <1>2 DEF HInvs, AskedFree, Excused, Live
  <1>7. RacesSeen' /\ TwiceSeen'
    BY <1>2 DEF HInvs, RacesSeen, TwiceSeen
  <1>8. QED BY <1>4, <1>5, <1>6, <1>7 DEF HInvs
\* The two mailboxes one request creates.
Two(h, k, p, q, a) == [j \in {h, k} |-> IF j = h THEN Created(p, {}) ELSE Created(q, {a})]

\* The invariant holds of every reachable state, for any rows, addresses and requests.
LEMMA AddressesInductive == AdSpec => []HInvs
  <1>1. AdInit => HInvs
    <2> SUFFICES ASSUME AdInit PROVE HInvs
      OBVIOUS
    <2>1. [h \in {} |-> NoRow] \in [{} -> RowRecords] /\ NoRow \in RowRecords
      BY DEF NoRow, RowRecords
    <2>2. [h \in {} |-> NoRow] \in RowChoices
      BY <2>1, ChoiceOf
    <2>3. NoAsk \in AskRecords /\ NoAsk.at = "idle"
      BY <2>2 DEF NoAsk, AskRecords
    <2>4. AdTypeOK
      BY <2>1, <2>3 DEF AdInit, AdTypeOK
    <2>5. \A h \in Rows : ~Live(h)
      BY DEF AdInit, Live, NoRow
    <2>6. \A r \in AddrRequests : areq[r].at = "idle"
      BY <2>3 DEF AdInit
    <2>7. QED BY <2>4, <2>5, <2>6 DEF HInvs, HeldByOne, AskedFree, RacesSeen, TwiceSeen
  <1>2. HInvs /\ [AdNext]_adVars => HInvs'
    <2> SUFFICES ASSUME HInvs, [AdNext]_adVars PROVE HInvs'
      OBVIOUS
    <2>1. ASSUME NEW r \in AddrRequests, NEW h \in MailboxRows, NEW p \in Addrs, NEW as \in AliasChoices,
                 CreateMailboxes(r, [k \in {h} |-> Created(p, as)])
          PROVE  HInvs'
      <3>1. [k \in {h} |-> Created(p, as)] \in [{h} -> RowRecords] /\ {h} \in SUBSET Rows
        BY CreatedType DEF AliasAddrs, Rows
      <3>2. QED BY <2>1, <3>1, ChoiceOf, CreateMailboxesKeeps
    <2>2. ASSUME NEW h \in MailboxRows, NEW k \in MailboxRows, NEW p \in Addrs, NEW q \in Addrs, NEW a \in Addrs
          PROVE  Two(h, k, p, q, a) \in RowChoices
      <3>1. Created(p, {}) \in RowRecords /\ Created(q, {a}) \in RowRecords
        BY CreatedType DEF AliasAddrs
      <3>2. Two(h, k, p, q, a) \in [{h, k} -> RowRecords] /\ {h, k} \in SUBSET Rows
        BY <3>1 DEF Rows, Two
      <3>3. QED BY <3>2, ChoiceOf
    <2>3. CASE UNCHANGED adVars
      BY <2>3 DEF adVars, HInvs, AdTypeOK, HeldByOne, AskedFree, RacesSeen, TwiceSeen, Excused, Live
    <2>4. CASE \E r \in AddrRequests, h \in MailboxRows, p \in Addrs, as \in AliasChoices : CreateMailboxes(r,
              [k \in {h} |-> Created(p, as)])
      BY <2>1, <2>4
    <2>5. CASE \E r \in AddrRequests, h, k \in MailboxRows, p, q \in Addrs, a \in Addrs : h # k /\ CreateMailboxes(r,
              Two(h, k, p, q, a))
      BY <2>2, <2>5, CreateMailboxesKeeps
    <2>6. CASE \E r \in AddrRequests, h \in ListRows, p \in Addrs, as \in AliasChoices : CreateList(r, h, p, as)
      BY <2>6, CreateListKeeps
    <2>7. CASE \E r \in AddrRequests, h \in Rows, p \in Addrs, as \in AliasChoices : ChangeAddresses(r, h, p, as)
      BY <2>7, ChangeAddressesKeeps
    <2>8. CASE (\E r \in AddrRequests : Save(r)) \/ (\E h \in Rows : Remove(h))
      BY <2>8, SaveKeeps, RemoveKeeps
    <2>9. QED BY <2>3, <2>4, <2>5, <2>6, <2>7, <2>8 DEF AdNext, Two
  <1>3. QED BY <1>1, <1>2, PTL DEF AdSpec

\* No address is held by two rows unless two requests asked for it at once, or a list was created at it without
\* a look (HeldOnce).
THEOREM HeldByAtMostOne == AdSpec => []HeldOnce
  <1>1. ASSUME HInvs PROVE HeldOnce
    <2> SUFFICES ASSUME NEW a \in Addrs \ (raced \cup listed) PROVE Cardinality(HoldersOf(a)) <= 1
      BY DEF HeldOnce
    <2>1. CASE HoldersOf(a) = {}
      BY <2>1, FS_EmptySet
    <2>2. CASE HoldersOf(a) # {}
      <3>1. PICK h : h \in HoldersOf(a)
        BY <2>2
      <3>2. HoldersOf(a) = {h}
        BY <1>1, <3>1 DEF HInvs, HeldByOne, HoldersOf, Excused
      <3>3. Cardinality({h}) = 1
        BY FS_Singleton
      <3>4. QED BY <3>2, <3>3
    <2>3. QED BY <2>1, <2>2
  <1>2. QED BY <1>1, AddressesInductive, PTL

--------------------------------------------------------------------------------
(****************************************************************************)
(* Access to a mailbox: owner changes (withOwnerAclMoved) and the           *)
(* membership requests that cross them, at any number of people and         *)
(* requests. Unless two owner changes crossed (contended), one of them      *)
(* moves at a time (OneMover), and it read the owner the row still has      *)
(* (MoverFits). Between its two writes the access list may be ahead of the  *)
(* row; the snapshot it took is what a restore puts back, and it fits the   *)
(* old owner (SnapshotFits). The record of everybody else, and of its two   *)
(* members once it is through, is right (RecordsFit): the owner's is        *)
(* "manager" or about to be, and nobody else has one that was not given. A  *)
(* record is unsure only where a request crossed the change of that very    *)
(* record, or died.                                                         *)
(****************************************************************************)

RequestStages == {"idle", "grant", "move", "write", "look", "restore", "member"}
Snapshots == UNION {[S -> Roles] : S \in SUBSET People}
RequestRecords == [at : RequestStages, prev : People \cup {Nobody}, next : People \cup {Nobody}, versioned : BOOLEAN,
    fresh : BOOLEAN,
            snapshot : Snapshots, was : SUBSET People, clean : BOOLEAN,
            by : People \cup {Nobody}, role : Roles]
RqTypeOK == AcTypeOK /\ rq \in [AccessRequests -> RequestRecords]
\* The record of a new owner that is about to be written.
GrantDue(p) == \E r \in AccessRequests : rq[r].at = "grant" /\ rq[r].next = p
\* A request that moved the access list and is not through with the row.
Past(r) == rq[r].at \in {"write", "look", "restore"}
\* A person's record agrees with the mailbox's row.
RightRecord(p) == 
    /\ p = mbox.owner => grants[p] = "manager" \/ GrantDue(p)
    /\ p # mbox.owner /\ grants[p] # "none" => p \in given
\* Before the mailbox has data nothing refers to it.
NothingYet ==
    ~mbox.data =>
        /\ ~mbox.exists /\ mbox.owner = Nobody /\ given = {} /\ unsure = {}
        /\ \A p \in People : grants[p] = "none"
        /\ \A r \in AccessRequests : rq[r].at = "idle"
\* Unless two crossed, at most one owner change is under way.
OneMover == ~contended => \A q, r \in AccessRequests : Moving(q) /\ Moving(r) => q = r
\* It read the owner the row has, and knows when another request wrote one of its two records.
MoverFits == mbox.exists /\ ~contended => \A r \in AccessRequests : Moving(r) =>
    /\ rq[r].prev = mbox.owner /\ rq[r].next # rq[r].prev
    /\ Past(r) /\ ~AsMoved(r) => ~rq[r].clean /\ Members(r) \subseteq unsure
\* A snapshot has the records of both members.
SnapshotIs == \A r \in AccessRequests : Past(r) => \A p \in Members(r) : rq[r].snapshot[p] \in Roles
\* Putting a snapshot back gives the old owner what it had, and nobody anything that was not given.
SnapshotFits == mbox.exists /\ ~contended => \A r \in AccessRequests : Past(r) =>
    /\ \A p \in Members(r) \ unsure :
       /\ p = rq[r].prev => rq[r].snapshot[p] = "manager" \/ GrantDue(p)
       /\ p = rq[r].next /\ rq[r].snapshot[p] # "none" => p \in rq[r].was
\* Every record no move is in the middle of is right.
RecordsFit == mbox.exists /\ ~contended =>
    \A p \in People \ unsure : (\A r \in AccessRequests : Past(r) => p \notin Members(r)) => RightRecord(p)
\* Who asked for the grant, and whose membership is set, are known.
GrantFits == \A r \in AccessRequests :
    (rq[r].at = "grant" => rq[r].by \in Admins) /\ (rq[r].at = "member" => rq[r].next \in People)
AInv == RqTypeOK /\ NothingYet /\ OneMover /\ MoverFits /\ SnapshotIs /\ SnapshotFits /\ RecordsFit /\ GrantFits

\* A request another one leaves alone, but for its marks.
SameRequest(q) == /\ rq'[q].at = rq[q].at /\ rq'[q].prev = rq[q].prev /\ rq'[q].next = rq[q].next /\ rq'[q].by = rq[q].by
           /\ rq'[q].snapshot = rq[q].snapshot /\ rq'[q].was = rq[q].was

\* A request at rest has its type.
LEMMA NoRequestType == NoAccessRequest \in RequestRecords
  <1>1. NoAccessRequest.snapshot \in [{} -> Roles] /\ {} \in SUBSET People
    BY DEF NoAccessRequest, Roles
  <1>2. NoAccessRequest.snapshot \in Snapshots
    BY <1>1 DEF Snapshots
  <1>3. QED BY <1>2 DEF NoAccessRequest, RequestRecords, RequestStages, Roles

\* A step of a request leaves the others alone.
LEMMA RequestGoes ==
    ASSUME RqTypeOK, NEW r \in AccessRequests, NEW x \in RequestRecords, rq' = [rq EXCEPT ![r] = x]
    PROVE  rq' \in [AccessRequests -> RequestRecords] /\ rq'[r] = x /\ \A q \in AccessRequests \ {r} : rq'[q] = rq[q]
  BY DEF RqTypeOK

\* A request that ends is at rest.
LEMMA RequestEnds ==
    ASSUME RqTypeOK, NEW r \in AccessRequests, AccessEnds(r)
    PROVE  /\ rq' \in [AccessRequests -> RequestRecords] /\ rq'[r] = NoAccessRequest
           /\ \A q \in AccessRequests \ {r} : rq'[q] = rq[q]
  BY NoRequestType, RequestGoes DEF AccessEnds

\* A request that ends having written somebody's record marks the moves of that record.
LEMMA RequestTouches ==
    ASSUME RqTypeOK, NEW r \in AccessRequests, NEW who, EndsTouching(r, who)
    PROVE  /\ rq' \in [AccessRequests -> RequestRecords] /\ rq'[r] = NoAccessRequest
           /\ \A q \in AccessRequests \ {r} : SameRequest(q) /\ rq'[q].clean = (rq[q].clean /\ who \notin Members(q))
  <1>1. \A q \in AccessRequests : [rq[q] EXCEPT !.clean = FALSE] \in RequestRecords
    BY DEF RqTypeOK, RequestRecords
  <1>2. rq' \in [AccessRequests -> RequestRecords]
    BY <1>1, NoRequestType DEF RqTypeOK, EndsTouching
  <1>3. rq'[r] = NoAccessRequest
    BY DEF EndsTouching
  <1>4. ASSUME NEW q \in AccessRequests \ {r}
        PROVE  SameRequest(q) /\ rq'[q].clean = (rq[q].clean /\ who \notin Members(q))
    <2>1. rq'[q] = IF who \in Members(q) THEN [rq[q] EXCEPT !.clean = FALSE] ELSE rq[q]
      BY DEF EndsTouching
    <2>2. rq[q] \in RequestRecords
      BY DEF RqTypeOK
    <2>3. CASE who \in Members(q)
      BY <2>1, <2>2, <2>3 DEF SameRequest, RequestRecords
    <2>4. CASE who \notin Members(q)
      BY <2>1, <2>2, <2>4 DEF SameRequest, RequestRecords
    <2>5. QED BY <2>3, <2>4
  <1>5. QED BY <1>2, <1>3, <1>4

\* A save of the row leaves the other requests' versions behind.
LEMMA RequestOutdates ==
    ASSUME RqTypeOK, NEW r \in AccessRequests, NEW x \in RequestRecords, rq' = Outdates(r, x)
    PROVE  /\ rq' \in [AccessRequests -> RequestRecords] /\ rq'[r] = x
           /\ \A q \in AccessRequests \ {r} : SameRequest(q) /\ rq'[q].clean = rq[q].clean
  <1>1. \A q \in AccessRequests : [rq[q] EXCEPT !.fresh = FALSE] \in RequestRecords
    BY DEF RqTypeOK, RequestRecords
  <1>2. QED BY <1>1 DEF RqTypeOK, Outdates, SameRequest, RequestRecords

\* Creating the mailbox keeps the invariant: the records are written with it.
LEMMA CreateBoxKeeps ==
    ASSUME AInv, NEW r \in AccessRequests, NEW by \in People, NEW o \in People \cup {Nobody}, CreateBox(r, by, o)
    PROVE  AInv'
  <1> DEFINE x == [NoAccessRequest EXCEPT !.at = "grant", !.by = by, !.next = o]
  <1>x. x \in RequestRecords /\ x.at = "grant" /\ x.by = by /\ x.next = o /\ x.prev = Nobody
    BY NoRequestType DEF NoAccessRequest, RequestRecords, RequestStages, People
  <1> HIDE DEF x
  <1>r. \/ by \in Principals /\ rq' = rq
        \/ /\ by \notin Principals /\ rq' \in [AccessRequests -> RequestRecords] /\ rq'[r] = x
           /\ \A q \in AccessRequests \ {r} : rq'[q] = rq[q]
    BY <1>x, RequestGoes DEF AInv, CreateBox, x
  <1>1. RqTypeOK'
    BY AccessAssumption, <1>x, <1>r DEF AInv, CreateBox, Serve, SameRequest, RqTypeOK, AcTypeOK, Roles, People
  <1>2. NothingYet'
    BY AccessAssumption, <1>x, <1>r DEF AInv, CreateBox, Serve, SameRequest, NothingYet, RqTypeOK, AcTypeOK,
       RequestRecords, NoAccessRequest
  <1>3. OneMover'
    BY AccessAssumption, <1>x, <1>r DEF AInv, CreateBox, Serve, SameRequest, OneMover, Moving, NothingYet, RqTypeOK,
       AcTypeOK, RequestRecords, NoAccessRequest
  <1>4. MoverFits'
    BY AccessAssumption, <1>x, <1>r DEF AInv, CreateBox, Serve, SameRequest, MoverFits, Moving, Past, Members, AsMoved,
       OneMover, NothingYet, RqTypeOK, AcTypeOK, RequestRecords, NoAccessRequest
  <1>5. SnapshotIs'
    BY AccessAssumption, <1>x, <1>r DEF AInv, CreateBox, Serve, SameRequest, SnapshotIs, Past, Members, NothingYet,
       RqTypeOK, AcTypeOK, RequestRecords, NoAccessRequest
  <1>6. SnapshotFits'
    BY AccessAssumption, <1>x, <1>r DEF AInv, CreateBox, Serve, SameRequest, SnapshotFits, Past, Members, GrantDue,
       OneMover, MoverFits, NothingYet, SnapshotIs, Moving, AsMoved, RecordsFit, RightRecord, RqTypeOK, AcTypeOK,
       RequestRecords, NoAccessRequest
  <1>7. RecordsFit'
    BY AccessAssumption, <1>x, <1>r DEF AInv, CreateBox, Serve, SameRequest, RecordsFit, Past, Members, RightRecord,
       GrantDue, OneMover, MoverFits, NothingYet, SnapshotIs, SnapshotFits, Moving, AsMoved, GrantFits, People,
       RqTypeOK, AcTypeOK, RequestRecords, NoAccessRequest
  <1>8. GrantFits'
    BY AccessAssumption, <1>x, <1>r DEF AInv, CreateBox, Serve, SameRequest, GrantFits, RqTypeOK, AcTypeOK,
       RequestRecords, NoAccessRequest, NothingYet, People
  <1>9. QED BY <1>1, <1>2, <1>3, <1>4, <1>5, <1>6, <1>7, <1>8 DEF AInv

\* An owner change that reads the row keeps it: one that finds another under way makes them contended.
LEMMA ChangeOwnerKeeps ==
    ASSUME AInv, NEW r \in AccessRequests, NEW by \in Admins, NEW o \in People \cup {Nobody}, NEW v \in BOOLEAN,
        ChangeOwner(r, by, o, v)
    PROVE  AInv'
  <1> DEFINE x == [NoAccessRequest EXCEPT !.at = "move", !.prev = mbox.owner, !.next = o, !.versioned = v]
  <1>x. x \in RequestRecords /\ x.at = "move" /\ x.prev = mbox.owner /\ x.next = o /\ x.clean
    BY NoRequestType DEF NoAccessRequest, RequestRecords, RequestStages, People, AInv, RqTypeOK, AcTypeOK
  <1> HIDE DEF x
  <1>r. rq' \in [AccessRequests -> RequestRecords] /\ rq'[r] = x /\ \A q \in AccessRequests \ {r} : rq'[q] = rq[q]
    BY <1>x, RequestGoes DEF AInv, ChangeOwner, x
  <1>1. RqTypeOK'
    BY AccessAssumption, <1>x, <1>r DEF AInv, ChangeOwner, Serve, MayOwn, SameRequest, RqTypeOK, AcTypeOK, Roles, People
  <1>2. NothingYet'
    BY AccessAssumption, <1>x, <1>r DEF AInv, ChangeOwner, Serve, MayOwn, SameRequest, NothingYet, RqTypeOK, AcTypeOK,
       RequestRecords, NoAccessRequest
  <1>3. OneMover'
    BY AccessAssumption, <1>x, <1>r DEF AInv, ChangeOwner, Serve, MayOwn, SameRequest, OneMover, Moving, NothingYet,
       RqTypeOK, AcTypeOK, RequestRecords, NoAccessRequest
  <1>4. MoverFits'
    BY AccessAssumption, <1>x, <1>r DEF AInv, ChangeOwner, Serve, MayOwn, SameRequest, MoverFits, Moving, Past, Members,
       AsMoved, OneMover, NothingYet, RqTypeOK, AcTypeOK, RequestRecords, NoAccessRequest
  <1>5. SnapshotIs'
    BY AccessAssumption, <1>x, <1>r DEF AInv, ChangeOwner, Serve, MayOwn, SameRequest, SnapshotIs, Past, Members,
       NothingYet, RqTypeOK, AcTypeOK, RequestRecords, NoAccessRequest
  <1>6. SnapshotFits'
    BY AccessAssumption, <1>x, <1>r DEF AInv, ChangeOwner, Serve, MayOwn, SameRequest, SnapshotFits, Past, Members,
       GrantDue, OneMover, MoverFits, NothingYet, SnapshotIs, Moving, AsMoved, RecordsFit, RightRecord, RqTypeOK,
       AcTypeOK, RequestRecords, NoAccessRequest
  <1>7. RecordsFit'
    BY AccessAssumption, <1>x, <1>r DEF AInv, ChangeOwner, Serve, MayOwn, SameRequest, RecordsFit, Past, Members,
       RightRecord, GrantDue, OneMover, MoverFits, NothingYet, SnapshotIs, SnapshotFits, Moving, AsMoved, GrantFits,
       People, RqTypeOK, AcTypeOK, RequestRecords, NoAccessRequest
  <1>8. GrantFits'
    BY AccessAssumption, <1>x, <1>r DEF AInv, ChangeOwner, Serve, MayOwn, SameRequest, GrantFits, RqTypeOK, AcTypeOK,
       RequestRecords, NoAccessRequest
  <1>9. QED BY <1>1, <1>2, <1>3, <1>4, <1>5, <1>6, <1>7, <1>8 DEF AInv

\* The grant to the new owner of a mailbox nobody owned keeps it.
LEMMA GrantNewKeeps ==
    ASSUME AInv, NEW r \in AccessRequests, GrantNew(r)
    PROVE  AInv'
  <1>r. /\ rq' \in [AccessRequests -> RequestRecords] /\ rq'[r] = NoAccessRequest
        /\ \A q \in AccessRequests \ {r} :
            SameRequest(q) /\ rq'[q].clean = (rq[q].clean /\ (IF rq[r].next # Nobody THEN rq[r].next
                ELSE rq[r].by) \notin Members(q))
    BY RequestTouches DEF AInv, GrantNew
  <1>a. /\ rq[r].at = "grant" /\ mbox.data /\ UNCHANGED <<mbox, contended>>
        /\ (IF rq[r].next # Nobody THEN rq[r].next ELSE rq[r].by) \in People
    BY AccessAssumption DEF AInv, GrantNew, NothingYet, RqTypeOK, RequestRecords, GrantFits, People
  <1>c. OwnerCrossed((IF rq[r].next # Nobody THEN rq[r].next ELSE rq[r].by)) \subseteq People
    BY DEF OwnerCrossed, Members, AInv, RqTypeOK, RequestRecords
  <1>d. \A p \in People : GrantDue(p) => GrantDue(p)' \/ p = (IF rq[r].next # Nobody THEN rq[r].next ELSE rq[r].by)
    BY <1>a, <1>r, AccessAssumption DEF GrantDue, SameRequest, People
  <1>e. /\ grants' = [grants EXCEPT ![(IF rq[r].next # Nobody THEN rq[r].next ELSE rq[r].by)] = "manager"]
        /\ given \subseteq given' /\ (rq[r].next = Nobody => rq[r].by \in given')
        /\ given' \subseteq People /\ unsure \subseteq unsure' /\ unsure' \subseteq People
        /\ \A q \in AccessRequests : Moving(q) /\ (IF rq[r].next # Nobody THEN rq[r].next ELSE rq[r].by) \in Members(q)
            => Members(q) \subseteq unsure'
        /\ rq[r].next # mbox.owner => (IF rq[r].next # Nobody THEN rq[r].next ELSE rq[r].by) \in unsure'
    BY <1>a, <1>c DEF GrantNew, OwnerCrossed, AInv, RqTypeOK, AcTypeOK
  <1>w. rq[r].next = Nobody \/ (IF rq[r].next # Nobody THEN rq[r].next ELSE rq[r].by) = rq[r].next
    OBVIOUS
  <1>1. RqTypeOK'
    BY AccessAssumption, <1>a, <1>d, <1>e, <1>w, <1>r DEF AInv, SameRequest, RqTypeOK, AcTypeOK, Roles, People
  <1>2. NothingYet'
    BY AccessAssumption, <1>a, <1>d, <1>e, <1>w, <1>r DEF AInv, SameRequest, NothingYet, RqTypeOK, AcTypeOK,
       RequestRecords, NoAccessRequest
  <1>3. OneMover'
    BY AccessAssumption, <1>a, <1>d, <1>e, <1>w, <1>r DEF AInv, SameRequest, OneMover, Moving, NothingYet, RqTypeOK,
       AcTypeOK, RequestRecords, NoAccessRequest
  <1>4. MoverFits'
    BY AccessAssumption, <1>a, <1>d, <1>e, <1>w, <1>r DEF AInv, SameRequest, MoverFits, Moving, Past, Members, AsMoved,
       OneMover, NothingYet, RqTypeOK, AcTypeOK, RequestRecords, NoAccessRequest
  <1>5. SnapshotIs'
    BY AccessAssumption, <1>a, <1>d, <1>e, <1>w, <1>r DEF AInv, SameRequest, SnapshotIs, Past, Members, NothingYet,
       RqTypeOK, AcTypeOK, RequestRecords, NoAccessRequest
  <1>6. SnapshotFits'
    BY AccessAssumption, <1>a, <1>d, <1>e, <1>w, <1>r DEF AInv, SameRequest, SnapshotFits, Past, Members, GrantDue,
       OneMover, MoverFits, NothingYet, SnapshotIs, Moving, AsMoved, RecordsFit, RightRecord, RqTypeOK, AcTypeOK,
       RequestRecords, NoAccessRequest
  <1>7. RecordsFit'
    BY AccessAssumption, <1>a, <1>d, <1>e, <1>w, <1>r DEF AInv, SameRequest, RecordsFit, Past, Members, RightRecord,
       GrantDue, OneMover, MoverFits, NothingYet, SnapshotIs, SnapshotFits, Moving, AsMoved, GrantFits, People,
       RqTypeOK, AcTypeOK, RequestRecords, NoAccessRequest
  <1>8. GrantFits'
    BY AccessAssumption, <1>a, <1>d, <1>e, <1>w, <1>r DEF AInv, SameRequest, GrantFits, RqTypeOK, AcTypeOK,
       RequestRecords, NoAccessRequest
  <1>9. QED BY <1>1, <1>2, <1>3, <1>4, <1>5, <1>6, <1>7, <1>8 DEF AInv

\* moveOwnerAcl() keeps it: both records are written together, and what they were is in the snapshot.
LEMMA MoveOwnerAclKeeps ==
    ASSUME AInv, NEW r \in AccessRequests, MoveOwnerAcl(r)
    PROVE  AInv'
  <1> DEFINE x == [rq[r] EXCEPT !.at = "write", !.snapshot = [p \in Members(r) |-> grants[p]], !.was = given \cap Members(r)]
  <1>t. rq[r] \in RequestRecords /\ Members(r) \subseteq People
    BY DEF AInv, RqTypeOK, RequestRecords, Members
  <1>y. [p \in Members(r) |-> grants[p]] \in Snapshots /\ given \cap Members(r) \in SUBSET People
    BY <1>t DEF AInv, RqTypeOK, AcTypeOK, Snapshots
  <1>x. /\ x \in RequestRecords /\ x.at = "write" /\ x.prev = rq[r].prev /\ x.next = rq[r].next /\ x.clean = rq[r].clean
        /\ \A p \in Members(r) : x.snapshot[p] = grants[p]
        /\ x.was = given \cap Members(r)
    BY <1>t, <1>y DEF RequestRecords, RequestStages
  <1>s. rq' = [rq EXCEPT ![r] = x]
    BY DEF MoveOwnerAcl
  <1> HIDE DEF x
  <1>r. /\ rq' \in [AccessRequests -> RequestRecords] /\ rq'[r] = x /\ \A q \in AccessRequests \ {r} : rq'[q] = rq[q]
        /\ rq[r].at = "move" /\ grants' = Moved(r) /\ given' = given \ Members(r)
        /\ UNCHANGED <<mbox, unsure, contended>>
    BY <1>x, <1>s, RequestGoes DEF AInv, MoveOwnerAcl
  <1>1. RqTypeOK'
    BY AccessAssumption, <1>t, <1>x, <1>r DEF AInv, Moved, SameRequest, RqTypeOK, AcTypeOK, Roles, People
  <1>2. NothingYet'
    BY AccessAssumption, <1>t, <1>x, <1>r DEF AInv, Moved, SameRequest, NothingYet, RqTypeOK, AcTypeOK, RequestRecords,
       NoAccessRequest
  <1>3. OneMover'
    BY AccessAssumption, <1>t, <1>x, <1>r DEF AInv, Moved, SameRequest, OneMover, Moving, NothingYet, RqTypeOK,
       AcTypeOK, RequestRecords, NoAccessRequest
  <1>4. MoverFits'
    BY AccessAssumption, <1>t, <1>x, <1>r DEF AInv, Moved, SameRequest, MoverFits, Moving, Past, Members, AsMoved,
       OneMover, NothingYet, RqTypeOK, AcTypeOK, RequestRecords, NoAccessRequest
  <1>5. SnapshotIs'
    BY AccessAssumption, <1>t, <1>x, <1>r DEF AInv, Moved, SameRequest, SnapshotIs, Past, Members, NothingYet, RqTypeOK,
       AcTypeOK, RequestRecords, NoAccessRequest
  <1>6. SnapshotFits'
    BY AccessAssumption, <1>t, <1>x, <1>r DEF AInv, Moved, SameRequest, SnapshotFits, Past, Members, GrantDue, OneMover,
       MoverFits, NothingYet, SnapshotIs, Moving, AsMoved, RecordsFit, RightRecord, RqTypeOK, AcTypeOK, RequestRecords,
       NoAccessRequest
  <1>7. RecordsFit'
    BY AccessAssumption, <1>t, <1>x, <1>r DEF AInv, Moved, SameRequest, RecordsFit, Past, Members, RightRecord,
       GrantDue, OneMover, MoverFits, NothingYet, SnapshotIs, SnapshotFits, Moving, AsMoved, GrantFits, People,
       RqTypeOK, AcTypeOK, RequestRecords, NoAccessRequest
  <1>8. GrantFits'
    BY AccessAssumption, <1>t, <1>x, <1>r DEF AInv, Moved, SameRequest, GrantFits, RqTypeOK, AcTypeOK, RequestRecords,
       NoAccessRequest
  <1>9. QED BY <1>1, <1>2, <1>3, <1>4, <1>5, <1>6, <1>7, <1>8 DEF AInv

\* A move of the records that fails keeps it: nothing was written.
LEMMA MoveFailsKeeps ==
    ASSUME AInv, NEW r \in AccessRequests, MoveFails(r)
    PROVE  AInv'
  <1>r. rq' \in [AccessRequests -> RequestRecords] /\ rq'[r] = NoAccessRequest /\ \A q \in AccessRequests \ {r} :
            rq'[q] = rq[q]
    BY RequestEnds DEF AInv, MoveFails
  <1>1. RqTypeOK'
    BY AccessAssumption, <1>r DEF AInv, MoveFails, Fault, SameRequest, RqTypeOK, AcTypeOK, Roles, People
  <1>2. NothingYet'
    BY AccessAssumption, <1>r DEF AInv, MoveFails, Fault, SameRequest, NothingYet, RqTypeOK, AcTypeOK, RequestRecords,
       NoAccessRequest
  <1>3. OneMover'
    BY AccessAssumption, <1>r DEF AInv, MoveFails, Fault, SameRequest, OneMover, Moving, NothingYet, RqTypeOK, AcTypeOK,
       RequestRecords, NoAccessRequest
  <1>4. MoverFits'
    BY AccessAssumption, <1>r DEF AInv, MoveFails, Fault, SameRequest, MoverFits, Moving, Past, Members, AsMoved,
       OneMover, NothingYet, RqTypeOK, AcTypeOK, RequestRecords, NoAccessRequest
  <1>5. SnapshotIs'
    BY AccessAssumption, <1>r DEF AInv, MoveFails, Fault, SameRequest, SnapshotIs, Past, Members, NothingYet, RqTypeOK,
       AcTypeOK, RequestRecords, NoAccessRequest
  <1>6. SnapshotFits'
    BY AccessAssumption, <1>r DEF AInv, MoveFails, Fault, SameRequest, SnapshotFits, Past, Members, GrantDue, OneMover,
       MoverFits, NothingYet, SnapshotIs, Moving, AsMoved, RecordsFit, RightRecord, RqTypeOK, AcTypeOK, RequestRecords,
       NoAccessRequest
  <1>7. RecordsFit'
    BY AccessAssumption, <1>r DEF AInv, MoveFails, Fault, SameRequest, RecordsFit, Past, Members, RightRecord, GrantDue,
       OneMover, MoverFits, NothingYet, SnapshotIs, SnapshotFits, Moving, AsMoved, GrantFits, People, RqTypeOK,
       AcTypeOK, RequestRecords, NoAccessRequest
  <1>8. GrantFits'
    BY AccessAssumption, <1>r DEF AInv, MoveFails, Fault, SameRequest, GrantFits, RqTypeOK, AcTypeOK, RequestRecords,
       NoAccessRequest
  <1>9. QED BY <1>1, <1>2, <1>3, <1>4, <1>5, <1>6, <1>7, <1>8 DEF AInv

\* The write of the row keeps it: the row's owner becomes the one whose record says so already.
LEMMA WriteOwnerKeeps ==
    ASSUME AInv, NEW r \in AccessRequests, WriteOwner(r)
    PROVE  AInv'
  <1> DEFINE x == [rq[r] EXCEPT !.at = "look"]
  <1>x. /\ x \in RequestRecords /\ x.at = "look" /\ x.prev = rq[r].prev /\ x.next = rq[r].next /\ x.clean = rq[r].clean
        /\ x.snapshot = rq[r].snapshot /\ x.was = rq[r].was /\ x.by = rq[r].by
    BY DEF AInv, RqTypeOK, RequestRecords, RequestStages
  <1>s. \/ /\ mbox.exists /\ rq' = Outdates(r, NoAccessRequest) /\ mbox' = [mbox EXCEPT !.owner = rq[r].next]
           /\ unsure' = IF rq[r].clean THEN unsure \ Members(r) ELSE unsure
        \/ rq' = [rq EXCEPT ![r] = x] /\ UNCHANGED <<mbox, unsure>>
    BY DEF WriteOwner
  <1> HIDE DEF x
  <1>r. /\ rq' \in [AccessRequests -> RequestRecords] /\ rq[r].at = "write" /\ UNCHANGED <<grants, given, contended>>
        /\ \/ /\ mbox.exists /\ mbox' = [mbox EXCEPT !.owner = rq[r].next] /\ rq'[r] = NoAccessRequest
              /\ unsure' = IF rq[r].clean THEN unsure \ Members(r) ELSE unsure
              /\ \A q \in AccessRequests \ {r} : SameRequest(q) /\ rq'[q].clean = rq[q].clean
           \/ rq'[r] = x /\ (\A q \in AccessRequests \ {r} : rq'[q] = rq[q]) /\ UNCHANGED <<mbox, unsure>>
    BY <1>x, <1>s, NoRequestType, RequestGoes, RequestOutdates DEF AInv, WriteOwner
  <1>a. mbox' \in [exists : BOOLEAN, owner : People \cup {Nobody}, data : BOOLEAN] /\ unsure' \subseteq People
    BY <1>r DEF AInv, RqTypeOK, AcTypeOK, RequestRecords
  <1>b. \A q \in AccessRequests : /\ (rq'[q].at = "grant" => rq[q].at = "grant" /\ rq'[q].by = rq[q].by)
                                    /\ (rq'[q].at = "member" => rq[q].at = "member" /\ rq'[q].next = rq[q].next)
    BY <1>x, <1>r DEF SameRequest, NoAccessRequest
  <1>1. RqTypeOK'
    BY <1>a, <1>r DEF AInv, RqTypeOK, AcTypeOK
  <1>2. NothingYet'
    BY AccessAssumption, <1>x, <1>r DEF AInv, SameRequest, NothingYet, RqTypeOK, AcTypeOK, RequestRecords,
       NoAccessRequest
  <1>3. OneMover'
    BY AccessAssumption, <1>x, <1>r DEF AInv, SameRequest, OneMover, Moving, NothingYet, RqTypeOK, AcTypeOK,
       RequestRecords, NoAccessRequest
  <1>4. MoverFits'
    BY AccessAssumption, <1>x, <1>r DEF AInv, SameRequest, MoverFits, Moving, Past, Members, AsMoved, OneMover,
       NothingYet, RqTypeOK, AcTypeOK, RequestRecords, NoAccessRequest
  <1>5. SnapshotIs'
    BY AccessAssumption, <1>x, <1>r DEF AInv, SameRequest, SnapshotIs, Past, Members, NothingYet, RqTypeOK, AcTypeOK,
       RequestRecords, NoAccessRequest
  <1>6. SnapshotFits'
    BY AccessAssumption, <1>x, <1>r DEF AInv, SameRequest, SnapshotFits, Past, Members, GrantDue, OneMover, MoverFits,
       NothingYet, SnapshotIs, Moving, AsMoved, RecordsFit, RightRecord, RqTypeOK, AcTypeOK, RequestRecords,
       NoAccessRequest
  <1>7. RecordsFit'
    BY AccessAssumption, <1>x, <1>r DEF AInv, SameRequest, RecordsFit, Past, Members, RightRecord, GrantDue, OneMover,
       MoverFits, NothingYet, SnapshotIs, SnapshotFits, Moving, AsMoved, GrantFits, People, RqTypeOK, AcTypeOK,
       RequestRecords, NoAccessRequest
  <1>8. GrantFits'
    BY <1>b DEF AInv, GrantFits
  <1>9. QED BY <1>1, <1>2, <1>3, <1>4, <1>5, <1>6, <1>7, <1>8 DEF AInv

\* A write of the row that fails keeps it.
LEMMA RowWriteFailsKeeps ==
    ASSUME AInv, NEW r \in AccessRequests, RowWriteFails(r)
    PROVE  AInv'
  <1> DEFINE x == [rq[r] EXCEPT !.at = "look"]
  <1>x. /\ x \in RequestRecords /\ x.at = "look" /\ x.prev = rq[r].prev /\ x.next = rq[r].next /\ x.clean = rq[r].clean
        /\ x.snapshot = rq[r].snapshot /\ x.was = rq[r].was /\ x.by = rq[r].by
    BY DEF AInv, RqTypeOK, RequestRecords, RequestStages
  <1>s. rq' = [rq EXCEPT ![r] = x] /\ rq[r].at = "write" /\ UNCHANGED <<mbox, grants, given, unsure, contended>>
    BY DEF RowWriteFails
  <1> HIDE DEF x
  <1>r. rq' \in [AccessRequests -> RequestRecords] /\ rq'[r] = x /\ \A q \in AccessRequests \ {r} : rq'[q] = rq[q]
    BY <1>x, <1>s, RequestGoes DEF AInv
  <1>1. RqTypeOK'
    BY AccessAssumption, <1>x, <1>s, <1>r DEF AInv, SameRequest, RqTypeOK, AcTypeOK, Roles, People
  <1>2. NothingYet'
    BY AccessAssumption, <1>x, <1>s, <1>r DEF AInv, SameRequest, NothingYet, RqTypeOK, AcTypeOK, RequestRecords,
       NoAccessRequest
  <1>3. OneMover'
    BY AccessAssumption, <1>x, <1>s, <1>r DEF AInv, SameRequest, OneMover, Moving, NothingYet, RqTypeOK, AcTypeOK,
       RequestRecords, NoAccessRequest
  <1>4. MoverFits'
    BY AccessAssumption, <1>x, <1>s, <1>r DEF AInv, SameRequest, MoverFits, Moving, Past, Members, AsMoved, OneMover,
       NothingYet, RqTypeOK, AcTypeOK, RequestRecords, NoAccessRequest
  <1>5. SnapshotIs'
    BY AccessAssumption, <1>x, <1>s, <1>r DEF AInv, SameRequest, SnapshotIs, Past, Members, NothingYet, RqTypeOK,
       AcTypeOK, RequestRecords, NoAccessRequest
  <1>6. SnapshotFits'
    BY AccessAssumption, <1>x, <1>s, <1>r DEF AInv, SameRequest, SnapshotFits, Past, Members, GrantDue, OneMover,
       MoverFits, NothingYet, SnapshotIs, Moving, AsMoved, RecordsFit, RightRecord, RqTypeOK, AcTypeOK, RequestRecords,
       NoAccessRequest
  <1>7. RecordsFit'
    BY AccessAssumption, <1>x, <1>s, <1>r DEF AInv, SameRequest, RecordsFit, Past, Members, RightRecord, GrantDue,
       OneMover, MoverFits, NothingYet, SnapshotIs, SnapshotFits, Moving, AsMoved, GrantFits, People, RqTypeOK,
       AcTypeOK, RequestRecords, NoAccessRequest
  <1>8. GrantFits'
    BY AccessAssumption, <1>x, <1>s, <1>r DEF AInv, SameRequest, GrantFits, RqTypeOK, AcTypeOK, RequestRecords,
       NoAccessRequest
  <1>9. QED BY <1>1, <1>2, <1>3, <1>4, <1>5, <1>6, <1>7, <1>8 DEF AInv

\* withOwnerAclMoved() looking at the stored owner after a failed write keeps it.
LEMMA LookAtOwnerKeeps ==
    ASSUME AInv, NEW r \in AccessRequests, LookAtOwner(r)
    PROVE  AInv'
  <1> DEFINE x == [rq[r] EXCEPT !.at = "restore"]
  <1>x. /\ x \in RequestRecords /\ x.at = "restore" /\ x.prev = rq[r].prev /\ x.next = rq[r].next
        /\ x.clean = rq[r].clean
        /\ x.snapshot = rq[r].snapshot /\ x.was = rq[r].was /\ x.by = rq[r].by
    BY DEF AInv, RqTypeOK, RequestRecords, RequestStages
  <1>s. /\ (mbox.exists /\ mbox.owner = rq[r].next /\ AccessEnds(r)) \/ rq' = [rq EXCEPT ![r] = x]
        /\ rq[r].at = "look" /\ UNCHANGED <<mbox, grants, given, unsure, contended>>
    BY DEF LookAtOwner
  <1> HIDE DEF x
  <1>r. /\ rq' \in [AccessRequests -> RequestRecords] /\ \A q \in AccessRequests \ {r} : rq'[q] = rq[q]
        /\ (mbox.exists /\ mbox.owner = rq[r].next /\ rq'[r] = NoAccessRequest) \/ rq'[r] = x
    BY <1>x, <1>s, RequestGoes, RequestEnds DEF AInv
  <1>1. RqTypeOK'
    BY AccessAssumption, <1>x, <1>s, <1>r DEF AInv, SameRequest, RqTypeOK, AcTypeOK, Roles, People
  <1>2. NothingYet'
    BY AccessAssumption, <1>x, <1>s, <1>r DEF AInv, SameRequest, NothingYet, RqTypeOK, AcTypeOK, RequestRecords,
       NoAccessRequest
  <1>3. OneMover'
    BY AccessAssumption, <1>x, <1>s, <1>r DEF AInv, SameRequest, OneMover, Moving, NothingYet, RqTypeOK, AcTypeOK,
       RequestRecords, NoAccessRequest
  <1>4. MoverFits'
    BY AccessAssumption, <1>x, <1>s, <1>r DEF AInv, SameRequest, MoverFits, Moving, Past, Members, AsMoved, OneMover,
       NothingYet, RqTypeOK, AcTypeOK, RequestRecords, NoAccessRequest
  <1>5. SnapshotIs'
    BY AccessAssumption, <1>x, <1>s, <1>r DEF AInv, SameRequest, SnapshotIs, Past, Members, NothingYet, RqTypeOK,
       AcTypeOK, RequestRecords, NoAccessRequest
  <1>6. SnapshotFits'
    BY AccessAssumption, <1>x, <1>s, <1>r DEF AInv, SameRequest, SnapshotFits, Past, Members, GrantDue, OneMover,
       MoverFits, NothingYet, SnapshotIs, Moving, AsMoved, RecordsFit, RightRecord, RqTypeOK, AcTypeOK, RequestRecords,
       NoAccessRequest
  <1>7. RecordsFit'
    BY AccessAssumption, <1>x, <1>s, <1>r DEF AInv, SameRequest, RecordsFit, Past, Members, RightRecord, GrantDue,
       OneMover, MoverFits, NothingYet, SnapshotIs, SnapshotFits, Moving, AsMoved, GrantFits, People, RqTypeOK,
       AcTypeOK, RequestRecords, NoAccessRequest
  <1>8. GrantFits'
    BY AccessAssumption, <1>x, <1>s, <1>r DEF AInv, SameRequest, GrantFits, RqTypeOK, AcTypeOK, RequestRecords,
       NoAccessRequest
  <1>9. QED BY <1>1, <1>2, <1>3, <1>4, <1>5, <1>6, <1>7, <1>8 DEF AInv

\* restoreOwnerAcl() keeps it: it puts the snapshot back only over what the move wrote.
LEMMA RestoreOwnerAclKeeps ==
    ASSUME AInv, NEW r \in AccessRequests, RestoreOwnerAcl(r)
    PROVE  AInv'
  <1>r. rq' \in [AccessRequests -> RequestRecords] /\ rq'[r] = NoAccessRequest /\ \A q \in AccessRequests \ {r} :
            rq'[q] = rq[q]
    BY RequestEnds DEF AInv, RestoreOwnerAcl
  <1>1. RqTypeOK'
    BY AccessAssumption, <1>r DEF AInv, RestoreOwnerAcl, Restored, SameRequest, RqTypeOK, AcTypeOK, Roles, People,
       SnapshotIs, Past, RequestRecords
  <1>2. NothingYet'
    BY AccessAssumption, <1>r DEF AInv, RestoreOwnerAcl, Restored, SameRequest, NothingYet, RqTypeOK, AcTypeOK,
       RequestRecords, NoAccessRequest
  <1>3. OneMover'
    BY AccessAssumption, <1>r DEF AInv, RestoreOwnerAcl, Restored, SameRequest, OneMover, Moving, NothingYet, RqTypeOK,
       AcTypeOK, RequestRecords, NoAccessRequest
  <1>4. MoverFits'
    BY AccessAssumption, <1>r DEF AInv, RestoreOwnerAcl, Restored, SameRequest, MoverFits, Moving, Past, Members,
       AsMoved, OneMover, NothingYet, RqTypeOK, AcTypeOK, RequestRecords, NoAccessRequest
  <1>5. SnapshotIs'
    BY AccessAssumption, <1>r DEF AInv, RestoreOwnerAcl, Restored, SameRequest, SnapshotIs, Past, Members, NothingYet,
       RqTypeOK, AcTypeOK, RequestRecords, NoAccessRequest
  <1>6. SnapshotFits'
    BY AccessAssumption, <1>r DEF AInv, RestoreOwnerAcl, Restored, SameRequest, SnapshotFits, Past, Members, GrantDue,
       OneMover, MoverFits, NothingYet, SnapshotIs, Moving, AsMoved, RecordsFit, RightRecord, RqTypeOK, AcTypeOK,
       RequestRecords, NoAccessRequest
  <1>7. RecordsFit'
    BY AccessAssumption, <1>r DEF AInv, RestoreOwnerAcl, Restored, SameRequest, RecordsFit, Past, Members, RightRecord,
       GrantDue, OneMover, MoverFits, NothingYet, SnapshotIs, SnapshotFits, Moving, AsMoved, GrantFits, People,
       RqTypeOK, AcTypeOK, RequestRecords, NoAccessRequest
  <1>8. GrantFits'
    BY AccessAssumption, <1>r DEF AInv, RestoreOwnerAcl, Restored, SameRequest, GrantFits, RqTypeOK, AcTypeOK,
       RequestRecords, NoAccessRequest
  <1>9. QED BY <1>1, <1>2, <1>3, <1>4, <1>5, <1>6, <1>7, <1>8 DEF AInv

\* A restore that fails, or a crash, keeps it: the records it leaves are unsure.
LEMMA GiveUpKeeps ==
    ASSUME AInv, NEW r \in AccessRequests, GiveUp(r)
    PROVE  AInv'
  <1>r. rq' \in [AccessRequests -> RequestRecords] /\ rq'[r] = NoAccessRequest /\ \A q \in AccessRequests \ {r} :
            rq'[q] = rq[q]
    BY RequestEnds DEF AInv, GiveUp
  <1>b. rq[r].at # "idle" /\ mbox' = mbox
    BY DEF GiveUp
  <1>a. mbox.data /\ mbox' = mbox
    BY <1>b, Zenon DEF AInv, NothingYet
  <1>1. RqTypeOK'
    BY AccessAssumption, <1>a, <1>r DEF AInv, GiveUp, Fault, SameRequest, RqTypeOK, AcTypeOK, Roles, People, GrantFits,
       RequestRecords, Members
  <1>2. NothingYet'
    BY AccessAssumption, <1>a, <1>r DEF AInv, GiveUp, Fault, SameRequest, NothingYet, RqTypeOK, AcTypeOK,
       RequestRecords, NoAccessRequest, Members
  <1>3. OneMover'
    BY AccessAssumption, <1>a, <1>r DEF AInv, GiveUp, Fault, SameRequest, OneMover, Moving, NothingYet, RqTypeOK,
       AcTypeOK, RequestRecords, NoAccessRequest
  <1>4. MoverFits'
    BY AccessAssumption, <1>a, <1>r DEF AInv, GiveUp, Fault, SameRequest, MoverFits, Moving, Past, Members, AsMoved,
       OneMover, NothingYet, RqTypeOK, AcTypeOK, RequestRecords, NoAccessRequest
  <1>5. SnapshotIs'
    BY AccessAssumption, <1>a, <1>r DEF AInv, GiveUp, Fault, SameRequest, SnapshotIs, Past, Members, NothingYet,
       RqTypeOK, AcTypeOK, RequestRecords, NoAccessRequest
  <1>6. SnapshotFits'
    BY AccessAssumption, <1>a, <1>r DEF AInv, GiveUp, Fault, SameRequest, SnapshotFits, Past, Members, GrantDue,
       OneMover, MoverFits, NothingYet, SnapshotIs, Moving, AsMoved, RecordsFit, RightRecord, RqTypeOK, AcTypeOK,
       RequestRecords, NoAccessRequest
  <1>7. RecordsFit'
    BY AccessAssumption, <1>a, <1>r DEF AInv, GiveUp, Fault, SameRequest, RecordsFit, Past, Members, RightRecord,
       GrantDue, OneMover, MoverFits, NothingYet, SnapshotIs, SnapshotFits, Moving, AsMoved, GrantFits, People,
       RqTypeOK, AcTypeOK, RequestRecords, NoAccessRequest
  <1>8. GrantFits'
    BY AccessAssumption, <1>a, <1>r DEF AInv, GiveUp, Fault, SameRequest, GrantFits, RqTypeOK, AcTypeOK, RequestRecords,
       NoAccessRequest
  <1>9. QED BY <1>1, <1>2, <1>3, <1>4, <1>5, <1>6, <1>7, <1>8 DEF AInv

\* setMember() reading the mailbox keeps it.
LEMMA ReadForMemberKeeps ==
    ASSUME AInv, NEW r \in AccessRequests, NEW by \in People, NEW who \in People, NEW role \in Roles, ReadForMember(r,
        by, who, role)
    PROVE  AInv'
  <1> DEFINE x == [NoAccessRequest EXCEPT !.at = "member", !.prev = mbox.owner, !.next = who, !.by = by, !.role = role]
  <1>x. x \in RequestRecords /\ x.at = "member" /\ x.next = who
    BY NoRequestType DEF NoAccessRequest, RequestRecords, RequestStages, People, AInv, RqTypeOK, AcTypeOK
  <1> HIDE DEF x
  <1>r. rq' \in [AccessRequests -> RequestRecords] /\ rq'[r] = x /\ \A q \in AccessRequests \ {r} : rq'[q] = rq[q]
    BY <1>x, RequestGoes DEF AInv, ReadForMember, x
  <1>1. RqTypeOK'
    BY AccessAssumption, <1>x, <1>r DEF AInv, ReadForMember, Serve, SameRequest, RqTypeOK, AcTypeOK, Roles, People
  <1>2. NothingYet'
    BY AccessAssumption, <1>x, <1>r DEF AInv, ReadForMember, Serve, SameRequest, NothingYet, RqTypeOK, AcTypeOK,
       RequestRecords, NoAccessRequest
  <1>3. OneMover'
    BY AccessAssumption, <1>x, <1>r DEF AInv, ReadForMember, Serve, SameRequest, OneMover, Moving, NothingYet, RqTypeOK,
       AcTypeOK, RequestRecords, NoAccessRequest
  <1>4. MoverFits'
    BY AccessAssumption, <1>x, <1>r DEF AInv, ReadForMember, Serve, SameRequest, MoverFits, Moving, Past, Members,
       AsMoved, OneMover, NothingYet, RqTypeOK, AcTypeOK, RequestRecords, NoAccessRequest
  <1>5. SnapshotIs'
    BY AccessAssumption, <1>x, <1>r DEF AInv, ReadForMember, Serve, SameRequest, SnapshotIs, Past, Members, NothingYet,
       RqTypeOK, AcTypeOK, RequestRecords, NoAccessRequest
  <1>6. SnapshotFits'
    BY AccessAssumption, <1>x, <1>r DEF AInv, ReadForMember, Serve, SameRequest, SnapshotFits, Past, Members, GrantDue,
       OneMover, MoverFits, NothingYet, SnapshotIs, Moving, AsMoved, RecordsFit, RightRecord, RqTypeOK, AcTypeOK,
       RequestRecords, NoAccessRequest
  <1>7. RecordsFit'
    BY AccessAssumption, <1>x, <1>r DEF AInv, ReadForMember, Serve, SameRequest, RecordsFit, Past, Members, RightRecord,
       GrantDue, OneMover, MoverFits, NothingYet, SnapshotIs, SnapshotFits, Moving, AsMoved, GrantFits, People,
       RqTypeOK, AcTypeOK, RequestRecords, NoAccessRequest
  <1>8. GrantFits'
    BY AccessAssumption, <1>x, <1>r DEF AInv, ReadForMember, Serve, SameRequest, GrantFits, RqTypeOK, AcTypeOK,
       RequestRecords, NoAccessRequest
  <1>9. QED BY <1>1, <1>2, <1>3, <1>4, <1>5, <1>6, <1>7, <1>8 DEF AInv

\* setMember() and removeMember() keep it: they never write the owner they read, and one that crosses an owner
\* change leaves the record unsure.
LEMMA SetMemberKeeps ==
    ASSUME AInv, NEW r \in AccessRequests, SetMember(r)
    PROVE  AInv'
  <1>r. /\ rq' \in [AccessRequests -> RequestRecords] /\ rq'[r] = NoAccessRequest
        /\ \A q \in AccessRequests \ {r} : SameRequest(q) /\ rq'[q].clean = (rq[q].clean /\ rq[r].next \notin Members(q))
    BY RequestTouches DEF AInv, SetMember
  <1>b. rq[r].at = "member" /\ UNCHANGED <<mbox, contended>>
    BY DEF SetMember
  <1>g. rq[r].at # "idle"
    BY <1>b
  <1>h. mbox.data
    BY <1>g, Zenon DEF AInv, NothingYet
  <1>a. rq[r].at = "member" /\ mbox.data /\ UNCHANGED <<mbox, contended>> /\ rq[r].role \in Roles
    BY <1>b, <1>h DEF AInv, RqTypeOK, RequestRecords
  <1>c. OwnerCrossed(rq[r].next) \subseteq People
    BY DEF OwnerCrossed, Members, AInv, RqTypeOK, RequestRecords
  <1>d. \A p \in People : GrantDue(p) => GrantDue(p)'
    BY <1>a, <1>r DEF GrantDue, SameRequest
  <1>e. \/ UNCHANGED <<grants, given, unsure>>
        \/ /\ grants' = [grants EXCEPT ![rq[r].next] = rq[r].role]
           /\ given' = IF rq[r].role = "none" THEN given \ {rq[r].next} ELSE given \cup {rq[r].next}
           /\ unsure' = unsure \cup OwnerCrossed(rq[r].next) \cup (IF mbox.owner = rq[r].next THEN {rq[r].next} ELSE {})
    BY DEF SetMember
  <1>f. \A q \in AccessRequests : Moving(q) /\ rq[r].next \in Members(q) => Members(q) \subseteq OwnerCrossed(rq[r].next)
    BY DEF OwnerCrossed
  <1>1. RqTypeOK'
    <2>1. rq[r].next \in People
      BY <1>a DEF AInv, GrantFits
    <2>2. grants' \in [People -> Roles]
      BY <1>a, <1>e, <2>1 DEF AInv, RqTypeOK, AcTypeOK
    <2>3. given' \subseteq People /\ unsure' \subseteq People
      BY <1>c, <1>e, <2>1 DEF AInv, RqTypeOK, AcTypeOK
    <2>4. QED BY <1>a, <1>r, <2>2, <2>3 DEF AInv, RqTypeOK, AcTypeOK
  <1>2. NothingYet'
    BY AccessAssumption, <1>a, <1>c, <1>d, <1>e, <1>f, <1>r DEF AInv, SameRequest, NothingYet, RqTypeOK, AcTypeOK,
       RequestRecords, NoAccessRequest
  <1>3. OneMover'
    BY AccessAssumption, <1>a, <1>c, <1>d, <1>e, <1>f, <1>r DEF AInv, SameRequest, OneMover, Moving, NothingYet,
       RqTypeOK, AcTypeOK, RequestRecords, NoAccessRequest
  <1>4. MoverFits'
    BY AccessAssumption, <1>a, <1>c, <1>d, <1>e, <1>f, <1>r DEF AInv, SameRequest, MoverFits, Moving, Past, Members,
       AsMoved, OneMover, NothingYet, RqTypeOK, AcTypeOK, RequestRecords, NoAccessRequest
  <1>5. SnapshotIs'
    BY AccessAssumption, <1>a, <1>c, <1>d, <1>e, <1>f, <1>r DEF AInv, SameRequest, SnapshotIs, Past, Members,
       NothingYet, RqTypeOK, AcTypeOK, RequestRecords, NoAccessRequest
  <1>6. SnapshotFits'
    BY AccessAssumption, <1>a, <1>c, <1>d, <1>e, <1>f, <1>r DEF AInv, SameRequest, SnapshotFits, Past, Members,
       GrantDue, OneMover, MoverFits, NothingYet, SnapshotIs, Moving, AsMoved, RecordsFit, RightRecord, RqTypeOK,
       AcTypeOK, RequestRecords, NoAccessRequest
  <1>7. RecordsFit'
    BY AccessAssumption, <1>a, <1>c, <1>d, <1>e, <1>f, <1>r DEF AInv, SameRequest, RecordsFit, Past, Members,
       RightRecord, GrantDue, OneMover, MoverFits, NothingYet, SnapshotIs, SnapshotFits, Moving, AsMoved, GrantFits,
       People, RqTypeOK, AcTypeOK, RequestRecords, NoAccessRequest
  <1>8. GrantFits'
    BY AccessAssumption, <1>a, <1>c, <1>d, <1>e, <1>f, <1>r DEF AInv, SameRequest, GrantFits, RqTypeOK, AcTypeOK,
       RequestRecords, NoAccessRequest
  <1>9. QED BY <1>1, <1>2, <1>3, <1>4, <1>5, <1>6, <1>7, <1>8 DEF AInv

\* The other saves of the row keep it.
LEMMA SaveRowKeeps ==
    ASSUME AInv, NEW r \in AccessRequests, SaveRow(r)
    PROVE  AInv'
  <1>r. /\ rq' \in [AccessRequests -> RequestRecords] /\ rq'[r] = rq[r]
        /\ UNCHANGED <<mbox, grants, given, unsure, contended>>
        /\ \A q \in AccessRequests \ {r} : SameRequest(q) /\ rq'[q].clean = rq[q].clean
    BY RequestOutdates DEF AInv, SaveRow, RqTypeOK
  <1>1. RqTypeOK'
    BY AccessAssumption, <1>r DEF AInv, SameRequest, RqTypeOK, AcTypeOK, Roles, People
  <1>2. NothingYet'
    BY AccessAssumption, <1>r DEF AInv, SameRequest, NothingYet, RqTypeOK, AcTypeOK, RequestRecords, NoAccessRequest
  <1>3. OneMover'
    BY AccessAssumption, <1>r DEF AInv, SameRequest, OneMover, Moving, NothingYet, RqTypeOK, AcTypeOK, RequestRecords,
       NoAccessRequest
  <1>4. MoverFits'
    BY AccessAssumption, <1>r DEF AInv, SameRequest, MoverFits, Moving, Past, Members, AsMoved, OneMover, NothingYet,
       RqTypeOK, AcTypeOK, RequestRecords, NoAccessRequest
  <1>5. SnapshotIs'
    BY AccessAssumption, <1>r DEF AInv, SameRequest, SnapshotIs, Past, Members, NothingYet, RqTypeOK, AcTypeOK,
       RequestRecords, NoAccessRequest
  <1>6. SnapshotFits'
    BY AccessAssumption, <1>r DEF AInv, SameRequest, SnapshotFits, Past, Members, GrantDue, OneMover, MoverFits,
       NothingYet, SnapshotIs, Moving, AsMoved, RecordsFit, RightRecord, RqTypeOK, AcTypeOK, RequestRecords,
       NoAccessRequest
  <1>7. RecordsFit'
    BY AccessAssumption, <1>r DEF AInv, SameRequest, RecordsFit, Past, Members, RightRecord, GrantDue, OneMover,
       MoverFits, NothingYet, SnapshotIs, SnapshotFits, Moving, AsMoved, GrantFits, People, RqTypeOK, AcTypeOK,
       RequestRecords, NoAccessRequest
  <1>8. GrantFits'
    BY AccessAssumption, <1>r DEF AInv, SameRequest, GrantFits, RqTypeOK, AcTypeOK, RequestRecords, NoAccessRequest
  <1>9. QED BY <1>1, <1>2, <1>3, <1>4, <1>5, <1>6, <1>7, <1>8 DEF AInv

\* A deletion of the row keeps it.
LEMMA DeleteMailboxKeeps ==
    ASSUME AInv, NEW r \in AccessRequests, NEW by \in People, DeleteMailbox(r, by)
    PROVE  AInv'
  <1>1. RqTypeOK'
    BY AccessAssumption DEF AInv, DeleteMailbox, SameRequest, RqTypeOK, AcTypeOK, Roles, People
  <1>2. NothingYet'
    BY AccessAssumption DEF AInv, DeleteMailbox, SameRequest, NothingYet, RqTypeOK, AcTypeOK, RequestRecords,
       NoAccessRequest
  <1>3. OneMover'
    BY AccessAssumption DEF AInv, DeleteMailbox, SameRequest, OneMover, Moving, NothingYet, RqTypeOK, AcTypeOK,
       RequestRecords, NoAccessRequest
  <1>4. MoverFits'
    BY AccessAssumption DEF AInv, DeleteMailbox, SameRequest, MoverFits, Moving, Past, Members, AsMoved, OneMover,
       NothingYet, RqTypeOK, AcTypeOK, RequestRecords, NoAccessRequest
  <1>5. SnapshotIs'
    BY AccessAssumption DEF AInv, DeleteMailbox, SameRequest, SnapshotIs, Past, Members, NothingYet, RqTypeOK, AcTypeOK,
       RequestRecords, NoAccessRequest
  <1>6. SnapshotFits'
    BY AccessAssumption DEF AInv, DeleteMailbox, SameRequest, SnapshotFits, Past, Members, GrantDue, OneMover,
       MoverFits, NothingYet, SnapshotIs, Moving, AsMoved, RecordsFit, RightRecord, RqTypeOK, AcTypeOK, RequestRecords,
       NoAccessRequest
  <1>7. RecordsFit'
    BY AccessAssumption DEF AInv, DeleteMailbox, SameRequest, RecordsFit, Past, Members, RightRecord, GrantDue,
       OneMover, MoverFits, NothingYet, SnapshotIs, SnapshotFits, Moving, AsMoved, GrantFits, People, RqTypeOK,
       AcTypeOK, RequestRecords, NoAccessRequest
  <1>8. GrantFits'
    BY AccessAssumption DEF AInv, DeleteMailbox, SameRequest, GrantFits, RqTypeOK, AcTypeOK, RequestRecords,
       NoAccessRequest
  <1>9. QED BY <1>1, <1>2, <1>3, <1>4, <1>5, <1>6, <1>7, <1>8 DEF AInv

\* A step that changes nothing keeps it.
LEMMA StillKeeps ==
    ASSUME AInv, UNCHANGED acVars
    PROVE  AInv'
  <1>1. RqTypeOK'
    BY DEF AInv, acVars, RqTypeOK, AcTypeOK, Roles, People, RequestRecords, NoAccessRequest, Moving
  <1>2. NothingYet'
    BY DEF AInv, acVars, NothingYet, RqTypeOK, AcTypeOK, RequestRecords, NoAccessRequest, Moving
  <1>3. OneMover'
    BY DEF AInv, acVars, OneMover, Moving, RqTypeOK, AcTypeOK, RequestRecords, NoAccessRequest
  <1>4. MoverFits'
    BY DEF AInv, acVars, MoverFits, Moving, Past, Members, AsMoved, RqTypeOK, AcTypeOK, RequestRecords, NoAccessRequest
  <1>5. SnapshotIs'
    BY DEF AInv, acVars, SnapshotIs, Past, Members, RqTypeOK, AcTypeOK, RequestRecords, NoAccessRequest, Moving
  <1>6. SnapshotFits'
    BY DEF AInv, acVars, SnapshotFits, Past, Members, GrantDue, RqTypeOK, AcTypeOK, RequestRecords, NoAccessRequest,
       Moving
  <1>7. RecordsFit'
    BY DEF AInv, acVars, RecordsFit, Past, Members, RightRecord, GrantDue, RqTypeOK, AcTypeOK, RequestRecords,
       NoAccessRequest, Moving
  <1>8. GrantFits'
    BY DEF AInv, acVars, GrantFits, RqTypeOK, AcTypeOK, RequestRecords, NoAccessRequest, Moving
  <1>9. QED BY <1>1, <1>2, <1>3, <1>4, <1>5, <1>6, <1>7, <1>8 DEF AInv

\* The invariant holds of every reachable state, for any number of people, administrators and requests.
THEOREM AccessInductive == AcSpec => []AInv
  <1>1. AcInit => AInv
    <2>1. AcInit => RqTypeOK
      <3>1. AcInit => rq \in [AccessRequests -> RequestRecords]
        BY NoRequestType DEF AcInit
      <3>2. AcInit => AcTypeOK
        <4>1. AcInit => mbox \in [exists : BOOLEAN, owner : People \cup {Nobody}, data : BOOLEAN]
          BY DEF AcInit
        <4>2. AcInit => grants \in [People -> Roles]
          BY DEF AcInit, Roles
        <4>3. AcInit => given \subseteq People /\ unsure \subseteq People /\ contended \in BOOLEAN
          BY DEF AcInit
        <4>4. QED BY <4>1, <4>2, <4>3 DEF AcTypeOK
      <3>3. QED BY <3>1, <3>2 DEF RqTypeOK
    <2>2. QED BY <2>1, AccessAssumption DEF AcInit, AInv, NoAccessRequest, NothingYet, OneMover, MoverFits, SnapshotIs,
       SnapshotFits, RecordsFit, GrantFits, Moving, Past
  <1>2. AInv /\ [AcNext]_acVars => AInv'
    BY CreateBoxKeeps, ChangeOwnerKeeps, GrantNewKeeps, MoveOwnerAclKeeps, MoveFailsKeeps, WriteOwnerKeeps,
       RowWriteFailsKeeps, LookAtOwnerKeeps, RestoreOwnerAclKeeps, GiveUpKeeps, ReadForMemberKeeps, SetMemberKeeps,
       SaveRowKeeps, DeleteMailboxKeeps, StillKeeps DEF AcNext
  <1>3. QED BY <1>1, <1>2, PTL DEF AcSpec

\* Access follows ownership: with no owner change under way the owner has full access and a past owner nothing
\* that was not given since (AccessFollowsOwner).
THEOREM AccessFollows == AcSpec => []AccessFollowsOwner
  <1>1. AInv => AccessFollowsOwner
    BY DEF AInv, AccessFollowsOwner, RecordsFit, RightRecord, GrantDue, Past, Moving
  <1>2. QED BY <1>1, AccessInductive, PTL

--------------------------------------------------------------------------------
(****************************************************************************)
(* Sealed data: the week's index and the fields of a record. Of the record: *)
(* a sealed field shows its placeholder (FieldsFit), what is stored is what *)
(* the owner meant (FieldsKept), and a save that still fits the row sends,  *)
(* of every field, a value the owner means, a clearing, or what the row     *)
(* shows (PatchFits); the backfill sends the row itself (FillFits). Echoing *)
(* a placeholder then changes nothing, because no value is a placeholder    *)
(* (FieldAssumption).                                                       *)
(*                                                                          *)
(* Of the index: an entry of the ended week is the first version of its     *)
(* message (EntryFits); a device whose generation is current holds what the *)
(* segment held, and the entries it folded (DeviceFits); so a segment is    *)
(* only replaced by one that holds as much. The file a device has stored    *)
(* and not yet put on the row is its own, and the file it will discard is   *)
(* not the row's (FilesFit).                                                *)
(****************************************************************************)

\* The row of a record, and what a save may send.
RecRows == [val : [Fields -> FieldValues \cup {Empty, "Protected"}], sealed : [Fields -> FieldValues \cup {Empty}],
            marked : BOOLEAN, rev : Nat]
\* A save, or the backfill's, between its read and its write.
Writing(w) == saver[w].pc = "write"
\* The fields a save sends.
SentFields(w) == DOMAIN saver[w].patch
\* The two that write the record.
SaverNames == {"client", "fill"}
Patches == UNION {[F -> FieldValues \cup {Empty, "Protected"}] : F \in SUBSET Fields}
SaverRows == [pc : {"idle", "write"}, rev : Nat, target : BOOLEAN, patch : Patches, cleared : SUBSET Fields]
RcTypeOK ==
    /\ rec \in RecRows /\ typeOn \in BOOLEAN /\ editedOff \in BOOLEAN
    /\ saver \in [SaverNames -> SaverRows]
\* A field that is sealed on the row.
HasSealed(f) == rec.sealed[f] # Empty
\* A sealed field shows its placeholder, a readable one a value.
FieldsFit == \A f \in Fields : IF HasSealed(f) THEN rec.val[f] = Placeholder(f) ELSE rec.val[f] \in FieldValues \cup {Empty}
\* Every field holds what its owner meant.
FieldsKept == \A f \in Fields : meant[f] = IF HasSealed(f) THEN rec.sealed[f] ELSE rec.val[f]
\* Of a record marked as sealed nothing is readable.
FieldsCovered == rec.marked /\ ~editedOff => \A f \in Fields : HasSealed(f) \/ rec.val[f] = Empty
\* A save read a version the row has had.
RevsFit == \A w \in {"client", "fill"} : saver[w].rev <= rec.rev
\* What a save sends is meant by the owner, or what the row shows.
PatchFits == Writing("client") /\ saver.client.rev = rec.rev => \A f \in SentFields("client") :
    \/ saver.client.patch[f] \in FieldValues /\ f \notin saver.client.cleared
    \/ saver.client.patch[f] = Empty /\ f \in saver.client.cleared
    \/ saver.client.patch[f] = rec.val[f] /\ f \notin saver.client.cleared
\* The backfill sends the row.
FillFits == Writing("fill") => /\ saver.fill.cleared = {} /\ saver.fill.target
                               /\ saver.fill.rev = rec.rev => saver.fill.patch = rec.val
\* A record with a sealed field is marked.
SealedMarked == (\E f \in Fields : HasSealed(f)) => rec.marked
RcInv == RcTypeOK /\ SealedMarked /\ FieldsFit /\ FieldsKept /\ FieldsCovered /\ RevsFit /\ PatchFits /\ FillFits

\* What an owner means is neither empty nor a placeholder.
LEMMA FieldValuesDiffer ==
  ASSUME NEW f \in Fields
  PROVE  /\ FieldValues \cap {Empty, Placeholder(f)} = {} /\ Placeholder(f) \in {Empty, "Protected"} /\ Empty = "empty"
         /\ \A v \in FieldValues : v # Empty /\ v # Placeholder(f)
BY FieldAssumption DEF Placeholder, Empty

\* sealFieldsOnWrite(), field by field: what is sealed and shown after a save that fits is what the owner means.
LEMMA RowAfterSave ==
  ASSUME RcInv, NEW w \in {"client", "fill"}, Writing(w), saver[w].rev = rec.rev,
         NEW row, row = SealFieldsOnWrite(saver[w].patch, rec, saver[w].target, saver[w].cleared),
         NEW f \in Fields
  PROVE  /\ row.sealed[f] \in FieldValues \cup {Empty} /\ row.val[f] \in FieldValues \cup {Empty, "Protected"}
         /\ IF row.sealed[f] # Empty THEN row.val[f] = Placeholder(f) ELSE row.val[f] \in FieldValues \cup {Empty}
         /\ IF w = "fill" THEN meant[f] = (IF row.sealed[f] # Empty THEN row.sealed[f] ELSE row.val[f])
            ELSE MeantBy(saver[w].patch, saver[w].cleared)[f] = (IF row.sealed[f] # Empty THEN row.sealed[f] ELSE row.val[f])
         /\ saver[w].target => row.sealed[f] # Empty \/ row.val[f] = Empty
         /\ ~saver[w].target /\ ~rec.marked => row.sealed[f] = Empty
<1> DEFINE patch == saver[w].patch
           target == saver[w].target
           cleared == saver[w].cleared
           Unsealed(g) == target /\ g \notin DOMAIN patch /\ rec.sealed[g] = Empty /\ rec.val[g] # Empty
           Value(g) == IF Unsealed(g) THEN rec.val[g] ELSE patch[g]
           Keeps(g) == \/ g \notin DOMAIN patch /\ ~Unsealed(g)
                       \/ rec.sealed[g] # Empty /\ Echoes(g, Value(g), rec, cleared)
<1>1. /\ row.sealed[f] = IF Keeps(f) THEN rec.sealed[f] ELSE IF target THEN Value(f) ELSE Empty
      /\ row.val[f] = IF Keeps(f) THEN rec.val[f] ELSE IF row.sealed[f] # Empty THEN Placeholder(f) ELSE Value(f)
  BY DEF SealFieldsOnWrite
<1>2. /\ rec.sealed[f] \in FieldValues \cup {Empty} /\ rec.val[f] \in FieldValues \cup {Empty, "Protected"}
      /\ (IF rec.sealed[f] # Empty THEN rec.val[f] = Placeholder(f) ELSE rec.val[f] \in FieldValues \cup {Empty})
      /\ meant[f] = (IF rec.sealed[f] # Empty THEN rec.sealed[f] ELSE rec.val[f])
      /\ (rec.sealed[f] # Empty => rec.marked)
  BY DEF RcInv, RcTypeOK, RecRows, FieldsFit, FieldsKept, HasSealed, SealedMarked
<1>3. /\ FieldValues \cap {Empty, Placeholder(f)} = {} /\ Placeholder(f) \in {Empty, "Protected"}
      /\ Placeholder(f) \notin FieldValues /\ Empty \notin FieldValues
  BY FieldValuesDiffer
<1>4. Echoes(f, Value(f), rec, cleared) <=> /\ Value(f) \in {Placeholder(f), rec.val[f]}
                                           /\ ~(f \in cleared /\ Value(f) = Empty)
  BY DEF Echoes
<1>5. CASE f \notin DOMAIN patch
  <2>1. MeantBy(patch, cleared)[f] = meant[f]
    BY <1>5 DEF MeantBy
  <2>2. row.sealed[f] = (IF Unsealed(f) THEN rec.val[f] ELSE rec.sealed[f])
        /\ row.val[f] = (IF Unsealed(f) THEN Placeholder(f) ELSE rec.val[f])
    BY <1>1, <1>5
  <2> QED BY <1>2, <1>3, <1>5, <2>1, <2>2
<1>6. CASE f \in DOMAIN patch /\ w = "client"
  <2>1. Value(f) = patch[f] /\ (Keeps(f) <=> rec.sealed[f] # Empty /\ Echoes(f, patch[f], rec, cleared))
    BY <1>6
  <2>2. MeantBy(patch, cleared)[f] = (IF patch[f] \notin FieldValues /\ f \notin cleared THEN meant[f] ELSE patch[f])
    BY <1>6 DEF MeantBy
  <2>3. \/ patch[f] \in FieldValues /\ f \notin cleared
        \/ patch[f] = Empty /\ f \in cleared
        \/ patch[f] = rec.val[f] /\ f \notin cleared
    BY <1>6 DEF RcInv, PatchFits, SentFields
  <2> QED BY <1>1, <1>2, <1>3, <1>4, <1>6, <2>1, <2>2, <2>3
<1>7. CASE f \in DOMAIN patch /\ w = "fill"
  <2>1. Value(f) = patch[f] /\ (Keeps(f) <=> rec.sealed[f] # Empty /\ Echoes(f, patch[f], rec, cleared))
    BY <1>7
  <2>2. patch[f] = rec.val[f] /\ cleared = {} /\ target
    BY <1>7 DEF RcInv, FillFits, SentFields
  <2> QED BY <1>1, <1>2, <1>3, <1>4, <1>7, <2>1, <2>2
<1> QED BY <1>5, <1>6, <1>7

\* Nobody saving has the type.
LEMMA NoSaverType == NoSaver \in SaverRows
<1>1. <<>> \in [{} -> FieldValues \cup {Empty, "Protected"}]
  OBVIOUS
<1>2. NoSaver.patch \in Patches
  BY <1>1 DEF NoSaver, Patches
<1> QED BY <1>2 DEF NoSaver, SaverRows

\* An empty record fits.
LEMMA RecInitOK == RecInit => RcInv
<1> SUFFICES ASSUME RecInit PROVE RcInv
  OBVIOUS
<1>1. RcTypeOK
  <2>1. rec \in RecRows
    BY DEF RecInit, RecRows
  <2>2. saver \in [SaverNames -> SaverRows]
    BY NoSaverType DEF RecInit, SaverNames
  <2> QED BY <2>1, <2>2 DEF RecInit, RcTypeOK, SaverNames, SaverRows, Patches
<1>2. \A f \in Fields : rec.val[f] = Empty /\ rec.sealed[f] = Empty /\ meant[f] = Empty
  BY DEF RecInit
<1>3. rec.rev = 0 /\ ~rec.marked /\ \A w \in {"client", "fill"} : saver[w].pc = "idle" /\ saver[w].rev = 0
  BY DEF RecInit, NoSaver
<1> QED BY <1>1, <1>2, <1>3 DEF RcInv, SealedMarked, HasSealed, FieldsFit, FieldsKept, FieldsCovered, RevsFit,
   PatchFits, FillFits, Writing

\* A save that reads the record keeps the invariant: it sends what it was shown or what the owner means.
LEMMA ReadRecordKeeps == RcInv /\ ReadRecord => RcInv'
<1> SUFFICES ASSUME RcInv, ReadRecord PROVE RcInv'
  OBVIOUS
<1>1. PICK sent \in SUBSET Fields, opened \in BOOLEAN :
        \E changed \in SUBSET sent, v \in FieldValues \cup {Empty} :
            /\ Cardinality(changed) <= 1 /\ (v = Empty => opened)
            /\ saver' = [saver EXCEPT !.client = [pc |-> "write", rev |-> rec.rev, target |-> typeOn,
                             cleared |-> IF v = Empty THEN changed ELSE {},
                             patch |-> [f \in sent |-> IF f \in changed THEN v ELSE Shown(f, opened)]]]
  BY DEF ReadRecord
<1>2. PICK changed \in SUBSET sent, v \in FieldValues \cup {Empty} :
            /\ saver' = [saver EXCEPT !.client = [pc |-> "write", rev |-> rec.rev, target |-> typeOn,
                             cleared |-> IF v = Empty THEN changed ELSE {},
                             patch |-> [f \in sent |-> IF f \in changed THEN v ELSE Shown(f, opened)]]]
  BY <1>1
<1> DEFINE patch == [f \in sent |-> IF f \in changed THEN v ELSE Shown(f, opened)]
           cleared == IF v = Empty THEN changed ELSE {}
           s == [pc |-> "write", rev |-> rec.rev, target |-> typeOn, cleared |-> cleared, patch |-> patch]
<1>3. UNCHANGED <<rec, typeOn, meant, editedOff>> /\ rec \in RecRows /\ rec.rev \in Nat /\ typeOn \in BOOLEAN
      /\ saver \in [SaverNames -> SaverRows]
  BY DEF ReadRecord, RcInv, RcTypeOK, RecRows, SaverNames, SaverRows, Patches
<1>4. \A f \in sent : Shown(f, opened) \in FieldValues \cup {Empty, "Protected"}
  BY <1>3 DEF Shown, RecRows
<1>5. patch \in Patches /\ DOMAIN patch = sent
  <2>1. patch \in [sent -> FieldValues \cup {Empty, "Protected"}]
    BY <1>4
  <2> QED BY <2>1 DEF Patches
<1>6. ASSUME NEW f \in sent
      PROVE  \/ patch[f] \in FieldValues /\ f \notin cleared
             \/ patch[f] = Empty /\ f \in cleared
             \/ patch[f] = rec.val[f] /\ f \notin cleared
  <2>1. CASE f \in changed
    BY <2>1, FieldValuesDiffer
  <2>2. CASE f \notin changed
    BY <1>3, <2>2 DEF Shown, RecRows
  <2> QED BY <2>1, <2>2
<1>7. cleared \subseteq Fields
  OBVIOUS
<1> HIDE DEF patch, cleared
<1>8. s \in SaverRows /\ s.patch = patch /\ s.rev = rec.rev /\ s.cleared = cleared
  BY <1>3, <1>5, <1>7 DEF SaverRows
<1>9. saver' = [saver EXCEPT !["client"] = s]
  BY <1>2 DEF patch, cleared
<1> HIDE DEF s
<1>10. saver' \in [SaverNames -> SaverRows] /\ saver'["client"] = s /\ saver'["fill"] = saver["fill"]
  BY <1>3, <1>8, <1>9 DEF SaverNames
<1>11. RcTypeOK'
  BY <1>3, <1>10 DEF RcInv, RcTypeOK, SaverNames, SaverRows, Patches
<1>12. PatchFits'
  BY <1>3, <1>5, <1>6, <1>8, <1>10 DEF PatchFits, SentFields
<1>13. FillFits'
  BY <1>3, <1>10 DEF RcInv, FillFits, Writing
<1>14. RevsFit'
  BY <1>3, <1>8, <1>10 DEF RcInv, RevsFit
<1> QED BY <1>3, <1>11, <1>12, <1>13, <1>14 DEF RcInv, SealedMarked, HasSealed, FieldsFit, FieldsKept, FieldsCovered

\* The backfill's read keeps it.
LEMMA SealRecordKeeps == RcInv /\ SealRecord => RcInv'
<1> SUFFICES ASSUME RcInv, SealRecord PROVE RcInv'
  OBVIOUS
<1> DEFINE s == [pc |-> "write", rev |-> rec.rev, target |-> TRUE, patch |-> rec.val, cleared |-> {}]
<1>1. UNCHANGED <<rec, typeOn, meant, editedOff>> /\ rec \in RecRows /\ rec.rev \in Nat
      /\ saver \in [SaverNames -> SaverRows] /\ saver' = [saver EXCEPT !["fill"] = s]
  BY DEF SealRecord, RcInv, RcTypeOK, RecRows, SaverNames, SaverRows, Patches
<1>2. rec.val \in Patches
  BY <1>1 DEF RecRows, Patches
<1>3. s \in SaverRows /\ s.patch = rec.val /\ s.rev = rec.rev /\ s.cleared = {} /\ s.target = TRUE
  BY <1>1, <1>2 DEF SaverRows
<1> HIDE DEF s
<1>4. saver' \in [SaverNames -> SaverRows] /\ saver'["fill"] = s /\ saver'["client"] = saver["client"]
  BY <1>1, <1>3 DEF SaverNames
<1>5. RcTypeOK'
  BY <1>1, <1>4 DEF RcInv, RcTypeOK, SaverNames, SaverRows, Patches
<1>6. PatchFits'
  BY <1>1, <1>4 DEF RcInv, PatchFits, SentFields, Writing
<1>7. FillFits'
  BY <1>1, <1>3, <1>4 DEF FillFits
<1>8. RevsFit'
  BY <1>1, <1>3, <1>4 DEF RcInv, RevsFit
<1> QED BY <1>1, <1>5, <1>6, <1>7, <1>8 DEF RcInv, SealedMarked, HasSealed, FieldsFit, FieldsKept, FieldsCovered

\* A write keeps it: it is refused for a row that changed, and otherwise RowAfterSave says what it leaves.
LEMMA WriteRecordKeeps ==
  ASSUME RcInv, NEW w \in {"client", "fill"}, WriteRecord(w)
  PROVE  RcInv'
<1>1. /\ RcTypeOK /\ rec \in RecRows /\ rec.rev \in Nat /\ saver \in [SaverNames -> SaverRows] /\ Writing(w)
      /\ w \in SaverNames
      /\ saver' = [saver EXCEPT ![w] = NoSaver] /\ UNCHANGED typeOn
  BY DEF WriteRecord, RcInv, RcTypeOK, RecRows, SaverNames, SaverRows, Patches, Writing
<1>2. /\ saver' \in [SaverNames -> SaverRows] /\ saver'[w] = NoSaver /\ \A x \in SaverNames \ {w} : saver'[x] = saver[x]
      /\ NoSaver.pc = "idle" /\ NoSaver.rev = 0
  BY <1>1, NoSaverType DEF NoSaver
<1>3. ASSUME UNCHANGED <<rec, meant, editedOff>> PROVE RcInv'
  <2>1. RcTypeOK'
    BY <1>1, <1>2, <1>3 DEF RcTypeOK, SaverNames, SaverRows, Patches
  <2>2. RevsFit' /\ PatchFits' /\ FillFits'
    BY <1>1, <1>2, <1>3 DEF RcInv, RevsFit, PatchFits, FillFits, Writing, SentFields, SaverNames
  <2> QED BY <1>3, <2>1, <2>2 DEF RcInv, SealedMarked, HasSealed, FieldsFit, FieldsKept, FieldsCovered
<1>4. CASE rec.rev # saver[w].rev
  BY <1>3, <1>4 DEF WriteRecord
<1>5. CASE rec.rev = saver[w].rev
  <2> DEFINE row == SealFieldsOnWrite(saver[w].patch, rec, saver[w].target, saver[w].cleared)
  <2>1. /\ row.rev = rec.rev + 1 /\ row.marked = (\E f \in Fields : row.sealed[f] # Empty)
        /\ row = [val |-> row.val, sealed |-> row.sealed, marked |-> row.marked, rev |-> row.rev]
        /\ row.val = [f \in Fields |-> row.val[f]] /\ row.sealed = [f \in Fields |-> row.sealed[f]]
    <3>1. row.rev = rec.rev + 1
      BY DEF SealFieldsOnWrite
    <3>2. row.marked = (\E f \in Fields : row.sealed[f] # Empty)
      BY DEF SealFieldsOnWrite
    <3>3. row.val = [f \in Fields |-> row.val[f]]
      BY DEF SealFieldsOnWrite
    <3>4. row.sealed = [f \in Fields |-> row.sealed[f]]
      BY DEF SealFieldsOnWrite
    <3>5. row = [val |-> row.val, sealed |-> row.sealed, marked |-> row.marked, rev |-> row.rev]
      BY DEF SealFieldsOnWrite
    <3> HIDE DEF row
    <3> QED BY <3>1, <3>2, <3>3, <3>4, <3>5
  <2>2. \A f \in Fields :
         /\ row.sealed[f] \in FieldValues \cup {Empty} /\ row.val[f] \in FieldValues \cup {Empty, "Protected"}
         /\ IF row.sealed[f] # Empty THEN row.val[f] = Placeholder(f) ELSE row.val[f] \in FieldValues \cup {Empty}
         /\ IF w = "fill" THEN meant[f] = (IF row.sealed[f] # Empty THEN row.sealed[f] ELSE row.val[f])
            ELSE MeantBy(saver[w].patch, saver[w].cleared)[f] = (IF row.sealed[f] # Empty THEN row.sealed[f] ELSE row.val[f])
         /\ saver[w].target => row.sealed[f] # Empty \/ row.val[f] = Empty
         /\ ~saver[w].target /\ ~rec.marked => row.sealed[f] = Empty
    BY <1>1, <1>5, RowAfterSave
  <2>3. /\ rec' = IF w = "fill" THEN [row EXCEPT !.marked = TRUE] ELSE row
        /\ meant' = IF w = "fill" THEN meant ELSE MeantBy(saver[w].patch, saver[w].cleared)
        /\ editedOff' = (editedOff \/ (~saver[w].target /\ rec.marked))
    BY <1>5 DEF WriteRecord
  <2> HIDE DEF row
  <2>4. /\ rec'.val = row.val /\ rec'.sealed = row.sealed /\ rec'.rev = rec.rev + 1
        /\ (w = "fill" \/ \E f \in Fields : row.sealed[f] # Empty) <=> rec'.marked
        /\ rec'.marked \in BOOLEAN
        /\ rec' = [val |-> row.val, sealed |-> row.sealed, marked |-> rec'.marked, rev |-> row.rev]
    <3>1. CASE w = "fill"
      BY <2>1, <2>3, <3>1
    <3>2. CASE w # "fill"
      BY <2>1, <2>3, <3>2
    <3> QED BY <3>1, <3>2
  <2>5. RcTypeOK'
    <3>1. /\ row.val \in [Fields -> FieldValues \cup {Empty, "Protected"}]
          /\ row.sealed \in [Fields -> FieldValues \cup {Empty}]
      BY <2>1, <2>2
    <3>2. rec' \in RecRows
      BY <1>1, <2>1, <2>4, <3>1 DEF RecRows
    <3>3. editedOff' \in BOOLEAN
      BY <1>1, <2>3 DEF RcTypeOK, RecRows
    <3> QED BY <1>1, <1>2, <3>2, <3>3 DEF RcTypeOK, SaverNames, SaverRows, Patches
  <2>6. RevsFit' /\ PatchFits' /\ FillFits'
    <3>1. \A x \in SaverNames : saver'[x].rev < rec'.rev \/ (saver'[x].rev = 0 /\ x = w)
      BY <1>1, <1>2, <2>4 DEF RcInv, RevsFit, SaverNames, SaverRows
    <3>2. RevsFit'
      BY <1>1, <1>2, <2>4, <3>1 DEF RevsFit, SaverNames, SaverRows
    <3>3. PatchFits' /\ FillFits'
      BY <1>1, <1>2, <2>4, <3>1 DEF RcInv, PatchFits, FillFits, Writing, SaverNames, SaverRows
    <3> QED BY <3>2, <3>3
  <2>7. SealedMarked' /\ FieldsFit'
    BY <2>2, <2>4 DEF SealedMarked, FieldsFit, HasSealed
  <2>8. FieldsKept'
    BY <2>2, <2>3, <2>4 DEF FieldsKept, HasSealed
  <2>9. FieldsCovered'
    <3>1. w = "fill" => saver[w].target
      BY <1>1 DEF RcInv, FillFits
    <3> QED BY <2>2, <2>3, <2>4, <3>1 DEF FieldsCovered, HasSealed
  <2> QED BY <2>5, <2>6, <2>7, <2>8, <2>9 DEF RcInv
<1> QED BY <1>4, <1>5

\* Every step of the record keeps it.
LEMMA RecStep == RcInv /\ [RecNext]_recvars => RcInv'
<1> SUFFICES ASSUME RcInv, [RecNext]_recvars PROVE RcInv'
  OBVIOUS
<1>1. CASE SwitchType
  BY <1>1 DEF SwitchType, RcInv, RcTypeOK, SealedMarked, HasSealed, FieldsFit, FieldsKept, FieldsCovered, RevsFit,
     PatchFits, FillFits, Writing, SentFields
<1>2. CASE UNCHANGED recvars
  BY <1>2 DEF recvars, RcInv, RcTypeOK, SealedMarked, HasSealed, FieldsFit, FieldsKept, FieldsCovered, RevsFit,
     PatchFits, FillFits, Writing, SentFields
<1>3. CASE WriteRecord("client")
  BY <1>3, WriteRecordKeeps
<1>4. CASE WriteRecord("fill")
  BY <1>4, WriteRecordKeeps
<1> QED BY <1>1, <1>2, <1>3, <1>4, ReadRecordKeeps, SealRecordKeeps DEF RecNext

\* The invariant says that the record is kept (RecordKept).
LEMMA RecordIsKept == RcInv => RecordKept
<1> SUFFICES ASSUME RcInv PROVE RecordKept
  OBVIOUS
<1>1. \A f \in Fields : meant[f] = IF rec.sealed[f] # Empty THEN rec.sealed[f] ELSE rec.val[f]
  BY DEF RcInv, FieldsKept, HasSealed
<1>2. ASSUME ~Unfilled, ~editedOff, NEW f \in Fields PROVE rec.val[f] \notin FieldValues
  BY <1>2, FieldValuesDiffer DEF RcInv, FieldsCovered, FieldsFit, HasSealed, Unfilled
<1> QED BY <1>1, <1>2 DEF RecordKept

\* Where the compaction of a week is.
CompactionStages == {"idle", "entries", "put", "row", "list", "remove", "count"}
Devices == [pc : CompactionStages, gen : Nat, rev : Nat, folded : SUBSET Entries, holds : [Entries -> Nat], blob : Nat,
    old : Nat,
            doomed : SUBSET Entries]
IxTypeOK ==
    /\ entry \in [Entries -> [ver : Nat, week : {"ended", "now"}]] /\ latest \in [Entries -> Nat]
    /\ seg \in [gen : Nat, rev : Nat, blob : Nat, holds : [Entries -> Nat]]
    /\ segBlobs \subseteq Nat /\ nextBlob \in Nat /\ nextBlob > 0 /\ dev \in [Compactors -> Devices] /\ lost \in BOOLEAN
\* The first version of a message lies in the ended week, pending or in the segment; a later one is pending in the
\* week that runs.
EntryFits(e) ==
    /\ latest[e] = 0 => entry[e].ver = 0
    /\ latest[e] = 1 => entry[e].week = "ended" /\ entry[e].ver \in {0, 1}
    /\ latest[e] > 1 => entry[e].week = "now" /\ (~lost => entry[e].ver = latest[e])
    /\ latest[e] = 1 => entry[e].ver = 1 \/ seg.holds[e] = 1
\* A device in the middle of a compaction.
Doing(d) == dev[d].pc # "idle"
\* What a device folded is the first version of its message.
Folded(d) == \A e \in dev[d].folded : dev[d].holds[e] = 1 /\ latest[e] > 0
\* A device at the current generation holds what the segment holds, and the entries it folded.
DeviceFits(d) ==
    /\ Doing(d) => dev[d].gen <= seg.gen
    /\ dev[d].pc = "row" => dev[d].rev <= seg.rev /\ (dev[d].rev = seg.rev => dev[d].gen = seg.gen)
    /\ dev[d].pc = "entries" /\ dev[d].gen = seg.gen => dev[d].holds = seg.holds
    /\ dev[d].pc \in {"put", "row"} => Folded(d)
    /\ dev[d].pc \in {"put", "row"} /\ dev[d].gen = seg.gen =>
          \A e \in Entries \ dev[d].folded : dev[d].holds[e] = seg.holds[e]
    /\ dev[d].pc \in {"list", "remove"} => \A e \in dev[d].folded : seg.holds[e] = 1
    /\ dev[d].pc = "remove" => dev[d].doomed \subseteq dev[d].folded /\ (~lost => \A e \in dev[d].doomed : latest[e] = 1)
\* the file a device stored and has not yet put on the row is its own
OwnFile(d) == dev[d].pc = "row" =>
    /\ dev[d].blob \in segBlobs /\ dev[d].blob # seg.blob /\ dev[d].blob > 0
    /\ \A c \in Compactors \ {d} : dev[c].pc = "row" => dev[c].blob # dev[d].blob
    /\ \A c \in Compactors : dev[c].old # dev[d].blob
OldFile(d) == dev[d].pc \in {"list", "remove", "count"} => dev[d].old # seg.blob
FilesFit ==
    /\ seg.blob < nextBlob /\ (\A b \in segBlobs : b < nextBlob) /\ \A d \in Compactors : dev[d].old < nextBlob
    /\ seg.gen > 0 => seg.blob \in segBlobs
    /\ \A d \in Compactors : OwnFile(d) /\ OldFile(d)
IxInv == IxTypeOK /\ (\A e \in Entries : EntryFits(e)) /\ (\A d \in Compactors : DeviceFits(d)) /\ FilesFit
SdInv == IxInv /\ RcInv

\* A device at rest and a week without a segment have their types.
LEMMA Idles ==
  /\ NoCompaction \in Devices /\ NoCompaction.pc = "idle" /\ NoCompaction.old = 0
  /\ NoSegment \in [gen : Nat, rev : Nat, blob : Nat, holds : [Entries -> Nat]]
BY DEF NoCompaction, NoSegment, Devices, CompactionStages

\* A device at rest fits.
LEMMA IdleFits ==
  ASSUME NEW d \in Compactors, dev'[d].pc = "idle"
  PROVE  DeviceFits(d)' /\ OwnFile(d)' /\ OldFile(d)'
BY DEF DeviceFits, OwnFile, OldFile, Doing

\* A step that leaves a device and the segment alone leaves it fitting.
LEMMA OtherFits ==
  ASSUME NEW d \in Compactors, DeviceFits(d), dev'[d] = dev[d], UNCHANGED <<seg, latest, lost>>
  PROVE  DeviceFits(d)'
BY DEF DeviceFits, Folded, Doing

\* A step that changes no entry and nothing the segment holds leaves the entries fitting.
LEMMA SameEntries ==
  ASSUME \A e \in Entries : EntryFits(e), UNCHANGED <<entry, latest, lost>>, seg'.holds = seg.holds
  PROVE  \A e \in Entries : EntryFits(e)'
BY DEF EntryFits

\* What the invariant says of the types, and of every entry and device.
LEMMA IxTypes ==
  ASSUME IxInv
  PROVE  /\ entry \in [Entries -> [ver : Nat, week : {"ended", "now"}]] /\ latest \in [Entries -> Nat]
         /\ seg \in [gen : Nat, rev : Nat, blob : Nat, holds : [Entries -> Nat]]
         /\ seg.gen \in Nat /\ seg.rev \in Nat /\ seg.blob \in Nat /\ seg.holds \in [Entries -> Nat]
         /\ segBlobs \subseteq Nat /\ nextBlob \in Nat /\ nextBlob > 0 /\ dev \in [Compactors -> Devices]
         /\ lost \in BOOLEAN
         /\ \A e \in Entries : EntryFits(e)
         /\ \A d \in Compactors : DeviceFits(d) /\ OwnFile(d) /\ OldFile(d)
BY DEF IxInv, IxTypeOK, FilesFit

\* What a device holds has its type.
LEMMA DevTypes ==
  ASSUME dev \in [Compactors -> Devices], NEW d \in Compactors
  PROVE  /\ dev[d] \in Devices /\ dev[d].gen \in Nat /\ dev[d].rev \in Nat /\ dev[d].blob \in Nat /\ dev[d].old \in Nat
         /\ dev[d].folded \subseteq Entries /\ dev[d].doomed \subseteq Entries /\ dev[d].holds \in [Entries -> Nat]
BY DEF Devices

\* A week without entries fits.
LEMMA IxInitOK == IdxInit => IxInv
<1> SUFFICES ASSUME IdxInit PROVE IxInv
  OBVIOUS
<1>1. \A d \in Compactors : dev[d] = NoCompaction
  BY DEF IdxInit
<1>2. IxTypeOK
  <2>1. dev \in [Compactors -> Devices]
    BY Idles DEF IdxInit
  <2>2. seg \in [gen : Nat, rev : Nat, blob : Nat, holds : [Entries -> Nat]]
    BY Idles DEF IdxInit
  <2>3. entry \in [Entries -> [ver : Nat, week : {"ended", "now"}]] /\ latest \in [Entries -> Nat]
    BY DEF IdxInit
  <2>4. segBlobs \subseteq Nat /\ nextBlob \in Nat /\ nextBlob > 0
    BY DEF IdxInit
  <2>5. lost \in BOOLEAN
    BY DEF IdxInit
  <2> QED BY <2>1, <2>2, <2>3, <2>4, <2>5 DEF IxTypeOK
<1>3. \A e \in Entries : EntryFits(e)
  BY DEF IdxInit, EntryFits
<1>4. \A d \in Compactors : DeviceFits(d) /\ OwnFile(d) /\ OldFile(d)
  BY <1>1, Idles DEF DeviceFits, OwnFile, OldFile, Doing
<1>5. FilesFit
  BY <1>1, <1>4, Idles DEF FilesFit, IdxInit, NoSegment
<1> QED BY <1>2, <1>3, <1>4, <1>5 DEF IxInv

\* ZeroAccessFiling.index() keeps it: the new entry replaces the old one, in the week that runs.
LEMMA IndexEntryKeeps ==
  ASSUME IxInv, NEW e \in Entries, IndexEntry(e)
  PROVE  IxInv'
<1> USE IxTypes
<1>1. /\ UNCHANGED <<seg, segBlobs, nextBlob, dev>> /\ latest' \in [Entries -> Nat] /\ latest'[e] = latest[e] + 1
      /\ (lost => lost') /\ lost' \in BOOLEAN
      /\ \A x \in Entries \ {e} : latest'[x] = latest[x] /\ entry'[x] = entry[x]
      /\ entry'[e].ver = latest'[e] /\ entry'[e].week = (IF latest[e] = 0 THEN "ended" ELSE "now")
      /\ ~lost' => \A d \in Compactors : dev[d].pc = "remove" => e \notin dev[d].doomed
  <2>1. UNCHANGED <<seg, segBlobs, nextBlob, dev>> /\ latest' \in [Entries -> Nat] /\ latest'[e] = latest[e] + 1
    BY DEF IndexEntry
  <2>2. \A x \in Entries \ {e} : latest'[x] = latest[x] /\ entry'[x] = entry[x]
    BY DEF IndexEntry
  <2>3. entry'[e].ver = latest'[e] /\ entry'[e].week = (IF latest[e] = 0 THEN "ended" ELSE "now")
    BY DEF IndexEntry
  <2>4. /\ (lost => lost') /\ lost' \in BOOLEAN
        /\ ~lost' => \A d \in Compactors : dev[d].pc = "remove" => e \notin dev[d].doomed
    BY DEF IndexEntry
  <2> QED BY <2>1, <2>2, <2>3, <2>4
<1>2. entry' \in [Entries -> [ver : Nat, week : {"ended", "now"}]]
  BY <1>1 DEF IndexEntry
<1>3. IxTypeOK'
  BY <1>1, <1>2 DEF IxTypeOK
<1>4. \A x \in Entries : EntryFits(x)'
  BY <1>1 DEF EntryFits
<1>5. ASSUME NEW d \in Compactors PROVE DeviceFits(d)'
  <2>1. (dev[d].pc \in {"put", "row"} => Folded(d))'
    BY <1>1, <1>5, DevTypes DEF DeviceFits, Folded
  <2>2. dev[d].pc = "remove" /\ ~lost' => \A x \in dev[d].doomed : latest'[x] = 1
    BY <1>1, <1>5, DevTypes DEF DeviceFits
  <2> QED BY <1>1, <1>5, <2>1, <2>2 DEF DeviceFits, Doing
<1>6. FilesFit'
  BY <1>1 DEF IxInv, FilesFit, OwnFile, OldFile
<1> QED BY <1>3, <1>4, <1>5, <1>6 DEF IxInv

\* a step of one device that leaves the row and the files alone
\* A step of a device that leaves the row, the files and the entries alone keeps it.
LEMMA QuietStep ==
  ASSUME IxInv, NEW d \in Compactors, UNCHANGED <<entry, latest, seg, segBlobs, nextBlob, lost>>,
         dev' \in [Compactors -> Devices], \A c \in Compactors \ {d} : dev'[c] = dev[c],
         DeviceFits(d)', dev'[d].pc # "row",
         dev'[d].old = 0 \/ dev'[d].old = dev[d].old,
         dev'[d].pc \in {"list", "remove", "count"} => dev[d].pc \in {"list", "remove", "count"} /\ dev'[d].old = dev[d].old
  PROVE  IxInv'
<1>0. /\ entry \in [Entries -> [ver : Nat, week : {"ended", "now"}]] /\ latest \in [Entries -> Nat]
      /\ seg \in [gen : Nat, rev : Nat, blob : Nat, holds : [Entries -> Nat]]
      /\ seg.gen \in Nat /\ seg.rev \in Nat /\ seg.blob \in Nat /\ seg.holds \in [Entries -> Nat]
      /\ segBlobs \subseteq Nat /\ nextBlob \in Nat /\ nextBlob > 0 /\ dev \in [Compactors -> Devices]
      /\ lost \in BOOLEAN
      /\ (\A e \in Entries : EntryFits(e)) /\ (\A c \in Compactors : DeviceFits(c) /\ OwnFile(c) /\ OldFile(c))
      /\ d \in Compactors /\ DeviceFits(d) /\ OwnFile(d) /\ OldFile(d)
      /\ dev[d] \in Devices /\ dev[d].gen \in Nat /\ dev[d].rev \in Nat /\ dev[d].blob \in Nat /\ dev[d].old \in Nat
      /\ dev[d].folded \subseteq Entries /\ dev[d].doomed \subseteq Entries /\ dev[d].holds \in [Entries -> Nat]
  BY IxTypes, DevTypes
<1>1. IxTypeOK'
  BY <1>0 DEF IxTypeOK
<1>2. \A e \in Entries : EntryFits(e)'
  BY <1>0, SameEntries
<1>3. \A c \in Compactors : DeviceFits(c)'
  BY <1>0, OtherFits
<1>4. ASSUME NEW c \in Compactors PROVE OwnFile(c)' /\ OldFile(c)'
  <2>1. OldFile(c)'
    BY <1>0, <1>4 DEF OldFile
  <2>2. OwnFile(c)'
    <3>1. CASE c = d
      BY <1>0, <3>1 DEF OwnFile
    <3>2. CASE c # d
      <4>1. /\ dev'[c] = dev[c]
            /\ dev[c].pc = "row" => /\ dev[c].blob \in segBlobs /\ dev[c].blob # seg.blob /\ dev[c].blob > 0
                                    /\ \A x \in Compactors \ {c} : dev[x].pc = "row" => dev[x].blob # dev[c].blob
                                    /\ \A x \in Compactors : dev[x].old # dev[c].blob
        BY <1>0, <1>4, <3>2 DEF OwnFile
      <4>2. dev[c].pc = "row" => \A x \in Compactors \ {c} : dev'[x].pc = "row" => dev'[x].blob # dev[c].blob
        BY <1>0, <4>1
      <4>3. dev[c].pc = "row" => \A x \in Compactors : dev'[x].old # dev[c].blob
        BY <1>0, <4>1
      <4> QED BY <1>0, <4>1, <4>2, <4>3 DEF OwnFile
    <3> QED BY <1>0, <3>1, <3>2
  <2> QED BY <1>0, <2>1, <2>2
<1>5. FilesFit'
  <2>1. \A c \in Compactors : dev'[c].old < nextBlob
    BY <1>0 DEF IxInv, FilesFit
  <2> QED BY <1>0, <1>4, <2>1 DEF IxInv, FilesFit
<1> QED BY <1>0, <1>1, <1>2, <1>3, <1>5 DEF IxInv

\* A device that reads the manifest and the segment keeps it.
LEMMA ReadManifestKeeps ==
  ASSUME IxInv, NEW d \in Compactors, ReadManifest(d)
  PROVE  IxInv'
<1>0. /\ entry \in [Entries -> [ver : Nat, week : {"ended", "now"}]] /\ latest \in [Entries -> Nat]
      /\ seg \in [gen : Nat, rev : Nat, blob : Nat, holds : [Entries -> Nat]]
      /\ seg.gen \in Nat /\ seg.rev \in Nat /\ seg.blob \in Nat /\ seg.holds \in [Entries -> Nat]
      /\ segBlobs \subseteq Nat /\ nextBlob \in Nat /\ nextBlob > 0 /\ dev \in [Compactors -> Devices]
      /\ lost \in BOOLEAN
      /\ (\A e \in Entries : EntryFits(e)) /\ (\A c \in Compactors : DeviceFits(c) /\ OwnFile(c) /\ OldFile(c))
      /\ d \in Compactors /\ DeviceFits(d) /\ OwnFile(d) /\ OldFile(d)
      /\ dev[d] \in Devices /\ dev[d].gen \in Nat /\ dev[d].rev \in Nat /\ dev[d].blob \in Nat /\ dev[d].old \in Nat
      /\ dev[d].folded \subseteq Entries /\ dev[d].doomed \subseteq Entries /\ dev[d].holds \in [Entries -> Nat]
  BY IxTypes, DevTypes
<1> DEFINE r == [NoCompaction EXCEPT !.pc = "entries", !.gen = seg.gen, !.holds = seg.holds]
<1>1. r \in Devices /\ r.pc = "entries" /\ r.gen = seg.gen /\ r.holds = seg.holds /\ r.old = 0
  BY <1>0 DEF NoCompaction, NoSegment, Devices, CompactionStages
<1>2. dev' = [dev EXCEPT ![d] = r] /\ UNCHANGED <<entry, latest, seg, segBlobs, nextBlob, lost>>
  BY <1>0 DEF ReadManifest
<1> HIDE DEF r
<1>3. dev' \in [Compactors -> Devices] /\ dev'[d] = r /\ \A c \in Compactors \ {d} : dev'[c] = dev[c]
  BY <1>0, <1>1, <1>2
<1>4. DeviceFits(d)'
  BY <1>0, <1>1, <1>2, <1>3 DEF DeviceFits
<1> QED BY <1>0, <1>1, <1>2, <1>3, <1>4, QuietStep

\* Folding the pending entries keeps it: they are first versions.
LEMMA FoldEntriesKeeps ==
  ASSUME IxInv, NEW d \in Compactors, FoldEntries(d)
  PROVE  IxInv'
<1>0. /\ entry \in [Entries -> [ver : Nat, week : {"ended", "now"}]] /\ latest \in [Entries -> Nat]
      /\ seg \in [gen : Nat, rev : Nat, blob : Nat, holds : [Entries -> Nat]]
      /\ seg.gen \in Nat /\ seg.rev \in Nat /\ seg.blob \in Nat /\ seg.holds \in [Entries -> Nat]
      /\ segBlobs \subseteq Nat /\ nextBlob \in Nat /\ nextBlob > 0 /\ dev \in [Compactors -> Devices]
      /\ lost \in BOOLEAN
      /\ (\A e \in Entries : EntryFits(e)) /\ (\A c \in Compactors : DeviceFits(c) /\ OwnFile(c) /\ OldFile(c))
      /\ d \in Compactors /\ DeviceFits(d) /\ OwnFile(d) /\ OldFile(d)
      /\ dev[d] \in Devices /\ dev[d].gen \in Nat /\ dev[d].rev \in Nat /\ dev[d].blob \in Nat /\ dev[d].old \in Nat
      /\ dev[d].folded \subseteq Entries /\ dev[d].doomed \subseteq Entries /\ dev[d].holds \in [Entries -> Nat]
  BY IxTypes, DevTypes
<1> DEFINE holds == [e \in Entries |-> IF e \in Pending THEN entry[e].ver ELSE dev[d].holds[e]]
           r == [dev[d] EXCEPT !.pc = "put", !.folded = Pending, !.holds = holds]
<1>1. /\ UNCHANGED <<entry, latest, seg, segBlobs, nextBlob, lost>> /\ dev[d].pc = "entries"
      /\ dev' = [dev EXCEPT ![d] = IF Pending = {} THEN NoCompaction ELSE r]
  BY <1>0 DEF FoldEntries
<1>2. CASE Pending = {}
  <2>1. dev' \in [Compactors -> Devices] /\ dev'[d] = NoCompaction /\ \A c \in Compactors \ {d} : dev'[c] = dev[c]
    BY <1>0, <1>1, <1>2, Idles
  <2> QED BY <1>0, <1>1, <2>1, Idles, IdleFits, QuietStep
<1>3. CASE Pending # {}
  <2>1. Pending \subseteq Entries /\ holds \in [Entries -> Nat]
    BY <1>0 DEF Pending
  <2>2. \A e \in Pending : holds[e] = 1 /\ latest[e] > 0
    <3> SUFFICES ASSUME NEW e \in Pending PROVE entry[e].ver = 1 /\ latest[e] > 0
      BY <1>0, <2>1
    <3>1. entry[e].ver > 0 /\ entry[e].week = "ended" /\ e \in Entries /\ latest[e] \in Nat
      BY <1>0 DEF Pending
    <3>2. EntryFits(e)
      BY <1>0, <3>1
    <3>3. latest[e] # 0 /\ ~(latest[e] > 1)
      BY <1>0, <3>1, <3>2 DEF EntryFits
    <3>4. latest[e] = 1
      BY <1>0, <3>1, <3>3
    <3> QED BY <1>0, <3>1, <3>2, <3>4 DEF EntryFits
  <2>3. \A e \in Entries \ Pending : holds[e] = dev[d].holds[e]
    BY <1>0
  <2> HIDE DEF holds
  <2>4. /\ r \in Devices /\ r.pc = "put" /\ r.folded = Pending /\ r.holds = holds /\ r.gen = dev[d].gen
        /\ r.old = dev[d].old
    BY <1>0, <2>1 DEF Devices, CompactionStages
  <2>5. dev' = [dev EXCEPT ![d] = r]
    BY <1>0, <1>1, <1>3
  <2> HIDE DEF r
  <2>6. dev' \in [Compactors -> Devices] /\ dev'[d] = r /\ \A c \in Compactors \ {d} : dev'[c] = dev[c]
    BY <1>0, <2>4, <2>5
  <2>7. dev[d].gen <= seg.gen /\ (dev[d].gen = seg.gen => dev[d].holds = seg.holds)
    BY <1>0, <1>1 DEF DeviceFits, Doing
  <2>8. DeviceFits(d)'
    BY <1>0, <1>1, <2>2, <2>3, <2>4, <2>6, <2>7 DEF DeviceFits, Folded
  <2> QED BY <1>0, <1>1, <2>4, <2>6, <2>8, QuietStep
<1> QED BY <1>0, <1>2, <1>3

\* The upload of a segment keeps it: a generation that moved on is refused, and the new file is the device's own.
LEMMA PutSegmentKeeps ==
  ASSUME IxInv, NEW d \in Compactors, PutSegment(d)
  PROVE  IxInv'
<1>0. /\ entry \in [Entries -> [ver : Nat, week : {"ended", "now"}]] /\ latest \in [Entries -> Nat]
      /\ seg \in [gen : Nat, rev : Nat, blob : Nat, holds : [Entries -> Nat]]
      /\ seg.gen \in Nat /\ seg.rev \in Nat /\ seg.blob \in Nat /\ seg.holds \in [Entries -> Nat]
      /\ segBlobs \subseteq Nat /\ nextBlob \in Nat /\ nextBlob > 0 /\ dev \in [Compactors -> Devices]
      /\ lost \in BOOLEAN
      /\ (\A e \in Entries : EntryFits(e)) /\ (\A c \in Compactors : DeviceFits(c) /\ OwnFile(c) /\ OldFile(c))
      /\ d \in Compactors /\ DeviceFits(d) /\ OwnFile(d) /\ OldFile(d)
      /\ dev[d] \in Devices /\ dev[d].gen \in Nat /\ dev[d].rev \in Nat /\ dev[d].blob \in Nat /\ dev[d].old \in Nat
      /\ dev[d].folded \subseteq Entries /\ dev[d].doomed \subseteq Entries /\ dev[d].holds \in [Entries -> Nat]
  BY IxTypes, DevTypes
<1>1. /\ UNCHANGED <<entry, latest, seg, lost>> /\ dev[d].pc = "put"
  BY <1>0 DEF PutSegment
<1>2. CASE ~GenerationCurrent(d)
  <2>1. dev' \in [Compactors -> Devices] /\ dev'[d] = NoCompaction /\ (\A c \in Compactors \ {d} : dev'[c] = dev[c])
        /\ UNCHANGED <<segBlobs, nextBlob>>
    BY <1>0, <1>2, Idles DEF PutSegment
  <2> QED BY <1>0, <1>1, <2>1, Idles, IdleFits, QuietStep
<1>3. CASE GenerationCurrent(d)
  <2> DEFINE r == [dev[d] EXCEPT !.pc = "row", !.rev = seg.rev, !.blob = nextBlob, !.old = seg.blob]
  <2>1. /\ segBlobs' = segBlobs \cup {nextBlob} /\ nextBlob' = nextBlob + 1 /\ seg.gen = dev[d].gen
        /\ dev' = [dev EXCEPT ![d] = r]
    BY <1>0, <1>3 DEF PutSegment, GenerationCurrent
  <2>2. /\ r \in Devices /\ r.pc = "row" /\ r.rev = seg.rev /\ r.blob = nextBlob /\ r.old = seg.blob
        /\ r.gen = dev[d].gen /\ r.folded = dev[d].folded /\ r.holds = dev[d].holds
    BY <1>0 DEF Devices, CompactionStages
  <2> HIDE DEF r
  <2>3. dev' \in [Compactors -> Devices] /\ dev'[d] = r /\ \A c \in Compactors \ {d} : dev'[c] = dev[c]
    BY <1>0, <2>1, <2>2
  <2>4. IxTypeOK'
    BY <1>0, <1>1, <2>1, <2>3 DEF IxTypeOK
  <2>5. \A e \in Entries : EntryFits(e)'
    BY <1>0, <1>1, SameEntries
  <2>6. DeviceFits(d)'
    BY <1>0, <1>1, <2>1, <2>2, <2>3 DEF DeviceFits, Folded
  <2>7. \A c \in Compactors : DeviceFits(c)'
    BY <1>0, <1>1, <2>3, <2>6, OtherFits
  <2>8. /\ seg.blob < nextBlob /\ (\A b \in segBlobs : b < nextBlob) /\ (\A c \in Compactors : dev[c].old < nextBlob)
        /\ (seg.gen > 0 => seg.blob \in segBlobs)
    BY <1>0 DEF IxInv, FilesFit
  <2>9. ASSUME NEW c \in Compactors PROVE OwnFile(c)' /\ OldFile(c)'
    <3>1. CASE c = d
      <4>1. \A x \in Compactors \ {d} : dev[x].pc = "row" => dev[x].blob # nextBlob
        BY <1>0, <2>8 DEF OwnFile
      <4>2. \A x \in Compactors : dev'[x].old # nextBlob
        BY <1>0, <2>2, <2>3, <2>8
      <4> QED BY <1>0, <1>1, <2>1, <2>2, <2>3, <2>8, <3>1, <4>1, <4>2 DEF OwnFile, OldFile
    <3>2. CASE c # d
      <4>1. dev'[c] = dev[c]
        BY <1>0, <2>3, <2>9, <3>2
      <4>2. dev[c].pc = "row" => /\ dev[c].blob \in segBlobs /\ dev[c].blob # seg.blob
                                 /\ dev[c].blob > 0 /\ dev[c].blob # nextBlob
                                 /\ \A x \in Compactors \ {c} : dev[x].pc = "row" => dev[x].blob # dev[c].blob
                                 /\ \A x \in Compactors : dev[x].old # dev[c].blob
        BY <1>0, <2>8, <2>9 DEF OwnFile
      <4>3. dev[c].pc = "row" => \A x \in Compactors \ {c} : dev'[x].pc = "row" => dev'[x].blob # dev[c].blob
        BY <1>0, <2>2, <2>3, <4>2
      <4>4. dev[c].pc = "row" => \A x \in Compactors : dev'[x].old # dev[c].blob
        BY <1>0, <2>2, <2>3, <4>2
      <4>5. OwnFile(c)'
        BY <1>0, <1>1, <2>1, <4>1, <4>2, <4>3, <4>4 DEF OwnFile
      <4> QED BY <1>0, <1>1, <2>9, <4>1, <4>5 DEF OldFile
    <3> QED BY <1>0, <3>1, <3>2
  <2>10. FilesFit'
    <3>1. ASSUME NEW c \in Compactors PROVE dev'[c].old < nextBlob'
      <4>1. dev'[c].old < nextBlob /\ dev'[c].old \in Nat
        BY <1>0, <2>2, <2>3, <2>8, DevTypes
      <4> QED BY <1>0, <2>1, <4>1
    <3>2. seg'.blob < nextBlob' /\ (\A b \in segBlobs' : b < nextBlob') /\ (seg'.gen > 0 => seg'.blob \in segBlobs')
      BY <1>0, <1>1, <2>1, <2>8
    <3> QED BY <1>0, <2>9, <3>1, <3>2 DEF FilesFit
  <2> QED BY <1>0, <2>4, <2>5, <2>7, <2>10 DEF IxInv
<1> QED BY <1>0, <1>2, <1>3

\* a device ends, and a file that is neither the row's nor one being put on the row goes
\* A device that ends, and takes away a file that is neither the row's nor about to be put on it, keeps it.
LEMMA EndsKeeps ==
  ASSUME IxInv, NEW d \in Compactors, UNCHANGED <<entry, latest, nextBlob, lost>>,
         dev' \in [Compactors -> Devices], dev'[d] = NoCompaction, \A c \in Compactors \ {d} : dev'[c] = dev[c],
         seg' \in [gen : Nat, rev : Nat, blob : Nat, holds : [Entries -> Nat]],
         seg'.gen = seg.gen, seg'.blob = seg.blob, seg'.holds = seg.holds, seg.rev <= seg'.rev,
         NEW b \in Nat, segBlobs' = segBlobs \/ segBlobs' = segBlobs \ {b}, b # seg.blob,
         \A c \in Compactors \ {d} : dev[c].pc = "row" => dev[c].blob # b
  PROVE  IxInv'
<1>0. /\ entry \in [Entries -> [ver : Nat, week : {"ended", "now"}]] /\ latest \in [Entries -> Nat]
      /\ seg \in [gen : Nat, rev : Nat, blob : Nat, holds : [Entries -> Nat]]
      /\ seg.gen \in Nat /\ seg.rev \in Nat /\ seg.blob \in Nat /\ seg.holds \in [Entries -> Nat]
      /\ segBlobs \subseteq Nat /\ nextBlob \in Nat /\ nextBlob > 0 /\ dev \in [Compactors -> Devices]
      /\ lost \in BOOLEAN
      /\ (\A e \in Entries : EntryFits(e)) /\ (\A c \in Compactors : DeviceFits(c) /\ OwnFile(c) /\ OldFile(c))
      /\ d \in Compactors /\ DeviceFits(d) /\ OwnFile(d) /\ OldFile(d)
      /\ dev[d] \in Devices /\ dev[d].gen \in Nat /\ dev[d].rev \in Nat /\ dev[d].blob \in Nat /\ dev[d].old \in Nat
      /\ dev[d].folded \subseteq Entries /\ dev[d].doomed \subseteq Entries /\ dev[d].holds \in [Entries -> Nat]
  BY IxTypes, DevTypes
<1>1. IxTypeOK'
  BY <1>0 DEF IxTypeOK
<1>2. \A e \in Entries : EntryFits(e)'
  BY <1>0, SameEntries
<1>3. ASSUME NEW c \in Compactors PROVE DeviceFits(c)' /\ OwnFile(c)' /\ OldFile(c)'
  <2>1. CASE c = d
    BY <2>1, Idles, IdleFits
  <2>2. CASE c # d
    <3>1. dev'[c] = dev[c] /\ DeviceFits(c) /\ OwnFile(c) /\ OldFile(c) /\ dev[c].gen \in Nat /\ dev[c].rev \in Nat
      BY <1>0, <1>3, <2>2, DevTypes
    <3>2. dev[c].pc = "row" => dev[c].rev <= seg'.rev /\ (dev[c].rev = seg'.rev => dev[c].rev = seg.rev)
      <4>1. seg'.rev \in Nat
        OBVIOUS
      <4>2. dev[c].pc = "row" => dev[c].rev <= seg.rev
        BY <3>1 DEF DeviceFits
      <4>3. seg.rev \in Nat
        BY <1>0
      <4> QED BY <3>1, <4>1, <4>2, <4>3
    <3>3. DeviceFits(c)'
      BY <3>1, <3>2 DEF DeviceFits, Doing, Folded
    <3>4. OldFile(c)'
      BY <3>1 DEF OldFile
    <3>5. \A x \in Compactors : dev'[x].old = dev[x].old \/ dev'[x].old = 0
      BY Idles
    <3>6. \A x \in Compactors : dev'[x].pc = "row" => dev'[x] = dev[x]
      BY Idles
    <3>7. OwnFile(c)'
      <4>1. dev[c].pc = "row" => /\ dev[c].blob \in segBlobs /\ dev[c].blob # seg.blob /\ dev[c].blob > 0 /\ dev[c].blob # b
                                 /\ \A x \in Compactors \ {c} : dev[x].pc = "row" => dev[x].blob # dev[c].blob
                                 /\ \A x \in Compactors : dev[x].old # dev[c].blob
        BY <1>3, <2>2, <3>1 DEF OwnFile
      <4>2. dev[c].pc = "row" => \A x \in Compactors \ {c} : dev'[x].pc = "row" => dev'[x].blob # dev[c].blob
        BY <3>6, <4>1
      <4>3. dev[c].pc = "row" => \A x \in Compactors : dev'[x].old # dev[c].blob
        BY <3>5, <4>1
      <4> QED BY <3>1, <4>1, <4>2, <4>3 DEF OwnFile
    <3> QED BY <3>3, <3>4, <3>7
  <2> QED BY <2>1, <2>2
<1>4. FilesFit'
  <2>1. \A c \in Compactors : dev'[c].old = dev[c].old \/ dev'[c].old = 0
    BY Idles
  <2>2. \A c \in Compactors : dev'[c].old < nextBlob
    BY <1>0, <2>1 DEF IxInv, FilesFit
  <2>3. (\A x \in segBlobs' : x < nextBlob) /\ (seg.gen > 0 => seg.blob \in segBlobs')
    BY DEF IxInv, FilesFit
  <2> QED BY <1>3, <2>2, <2>3 DEF IxInv, FilesFit
<1> QED BY <1>1, <1>2, <1>3, <1>4 DEF IxInv

\* A pending entry of the ended week is the first version of its message.
LEMMA PendingIsFirst ==
  ASSUME IxInv, NEW e \in Pending
  PROVE  e \in Entries /\ entry[e].ver = 1 /\ latest[e] = 1
<1>1. e \in Entries /\ entry[e].ver > 0 /\ entry[e].week = "ended" /\ latest[e] \in Nat /\ EntryFits(e)
  BY IxTypes DEF Pending
<1>2. latest[e] # 0 /\ ~(latest[e] > 1)
  BY <1>1 DEF EntryFits
<1>3. latest[e] = 1
  BY <1>1, <1>2
<1> QED BY <1>1, <1>3 DEF EntryFits

\* The versioned save of the segment's row keeps it: the row is what the device read, so its segment holds as much.
LEMMA StoreRowKeeps ==
  ASSUME IxInv, NEW d \in Compactors, StoreRow(d)
  PROVE  IxInv'
<1>0. /\ entry \in [Entries -> [ver : Nat, week : {"ended", "now"}]] /\ latest \in [Entries -> Nat]
      /\ seg \in [gen : Nat, rev : Nat, blob : Nat, holds : [Entries -> Nat]]
      /\ seg.gen \in Nat /\ seg.rev \in Nat /\ seg.blob \in Nat /\ seg.holds \in [Entries -> Nat]
      /\ segBlobs \subseteq Nat /\ nextBlob \in Nat /\ nextBlob > 0 /\ dev \in [Compactors -> Devices]
      /\ lost \in BOOLEAN
      /\ (\A e \in Entries : EntryFits(e)) /\ (\A c \in Compactors : DeviceFits(c) /\ OwnFile(c) /\ OldFile(c))
      /\ d \in Compactors /\ DeviceFits(d) /\ OwnFile(d) /\ OldFile(d)
      /\ dev[d] \in Devices /\ dev[d].gen \in Nat /\ dev[d].rev \in Nat /\ dev[d].blob \in Nat /\ dev[d].old \in Nat
      /\ dev[d].folded \subseteq Entries /\ dev[d].doomed \subseteq Entries /\ dev[d].holds \in [Entries -> Nat]
  BY IxTypes, DevTypes
<1>1. UNCHANGED <<entry, latest, nextBlob, lost>> /\ dev[d].pc = "row"
  BY DEF StoreRow
<1>2. /\ seg.blob < nextBlob /\ (\A b \in segBlobs : b < nextBlob) /\ (\A c \in Compactors : dev[c].old < nextBlob)
      /\ (seg.gen > 0 => seg.blob \in segBlobs)
  BY DEF IxInv, FilesFit
<1>3. /\ dev[d].blob \in segBlobs /\ dev[d].blob # seg.blob /\ dev[d].blob > 0
      /\ \A c \in Compactors \ {d} : dev[c].pc = "row" => dev[c].blob # dev[d].blob
      /\ \A c \in Compactors : dev[c].old # dev[d].blob
  BY <1>0, <1>1 DEF OwnFile
<1>4. \A c \in Compactors : dev[c].pc = "row" =>
         /\ dev[c].blob \in segBlobs /\ dev[c].blob # seg.blob /\ dev[c].blob > 0
         /\ \A x \in Compactors \ {c} : dev[x].pc = "row" => dev[x].blob # dev[c].blob
         /\ \A x \in Compactors : dev[x].old # dev[c].blob
  BY <1>0 DEF OwnFile
<1>5. CASE seg.rev = dev[d].rev
  <2> DEFINE gen == dev[d].gen + 1
             rev == seg.rev + 1
             r == [dev[d] EXCEPT !.pc = "list"]
  <2>1. /\ gen \in Nat /\ gen > seg.gen /\ rev \in Nat /\ rev > seg.rev
        /\ dev[d].gen = seg.gen /\ Folded(d)
        /\ \A e \in Entries \ dev[d].folded : dev[d].holds[e] = seg.holds[e]
    BY <1>0, <1>1, <1>5 DEF DeviceFits
  <2>2. gen >= seg.gen /\ \A g \in Nat : g <= seg.gen => g <= gen /\ g # gen
    BY <1>0, <2>1
  <2>3. dev[d].gen <= gen
    BY <1>0, <2>1
  <2> HIDE DEF gen, rev
  <2>4. /\ UNCHANGED segBlobs /\ dev' = [dev EXCEPT ![d] = r]
        /\ seg' = [gen |-> gen, rev |-> rev, blob |-> dev[d].blob, holds |-> dev[d].holds]
    BY <1>5 DEF StoreRow, gen, rev
  <2>5. /\ r \in Devices /\ r.pc = "list" /\ r.gen = dev[d].gen /\ r.folded = dev[d].folded /\ r.old = dev[d].old
    BY <1>0 DEF Devices, CompactionStages
  <2> HIDE DEF r
  <2>6. dev' \in [Compactors -> Devices] /\ dev'[d] = r /\ \A c \in Compactors \ {d} : dev'[c] = dev[c]
    BY <1>0, <2>4, <2>5
  <2>7. /\ seg' \in [gen : Nat, rev : Nat, blob : Nat, holds : [Entries -> Nat]]
        /\ seg'.gen = gen /\ seg'.rev = rev /\ seg'.blob = dev[d].blob /\ seg'.holds = dev[d].holds
    BY <1>0, <2>1, <2>4
  <2>8. IxTypeOK'
    BY <1>0, <1>1, <2>4, <2>6, <2>7 DEF IxTypeOK
  <2>9. \A e \in Entries : seg.holds[e] = 1 => dev[d].holds[e] = 1
    BY <1>0, <2>1 DEF Folded
  <2>10. \A e \in Entries : EntryFits(e)'
    BY <1>0, <1>1, <2>7, <2>9 DEF EntryFits
  <2>11. ASSUME NEW c \in Compactors PROVE DeviceFits(c)'
    <3>1. CASE c = d
      <4>1. \A e \in dev[d].folded : dev[d].holds[e] = 1
        BY <2>1 DEF Folded
      <4> QED BY <1>1, <2>3, <2>5, <2>6, <2>7, <3>1, <4>1 DEF DeviceFits
    <3>2. CASE c # d
      <4>1. /\ dev'[c] = dev[c] /\ DeviceFits(c) /\ dev[c].folded \subseteq Entries /\ dev[c].gen \in Nat
            /\ dev[c].rev \in Nat
        BY <1>0, <2>6, <2>11, <3>2, DevTypes
      <4>2. dev[c].pc # "idle" => dev[c].gen <= gen /\ dev[c].gen # gen
        BY <2>2, <4>1 DEF DeviceFits, Doing
      <4>3. dev[c].pc = "row" => dev[c].rev <= rev /\ dev[c].rev # rev
        BY <1>0, <2>1, <4>1 DEF DeviceFits
      <4>4. dev[c].pc \in {"put", "row"} => Folded(c)'
        BY <1>1, <4>1 DEF DeviceFits, Folded
      <4>5. dev[c].pc \in {"list", "remove"} => \A e \in dev[c].folded : dev[d].holds[e] = 1
        BY <2>9, <4>1 DEF DeviceFits
      <4>6. dev[c].pc = "remove" => dev[c].doomed \subseteq dev[c].folded /\ (~lost => \A e \in dev[c].doomed :
                latest[e] = 1)
        BY <4>1 DEF DeviceFits
      <4> QED BY <1>1, <2>7, <4>1, <4>2, <4>3, <4>4, <4>5, <4>6 DEF DeviceFits, Doing
    <3> QED BY <3>1, <3>2
  <2>12. \A c \in Compactors : dev'[c].old = dev[c].old
    BY <2>5, <2>6
  <2>13. ASSUME NEW c \in Compactors PROVE OwnFile(c)' /\ OldFile(c)'
    <3>1. OldFile(c)'
      BY <1>3, <2>7, <2>12, <2>13 DEF OldFile
    <3>2. CASE c = d
      BY <2>5, <2>6, <3>1, <3>2 DEF OwnFile
    <3>3. CASE c # d
      <4>1. dev'[c] = dev[c]
        BY <2>6, <2>13, <3>3
      <4>2. \A x \in Compactors \ {c} : dev[c].pc = "row" /\ dev'[x].pc = "row" => dev'[x].blob # dev[c].blob
        BY <1>4, <2>5, <2>6, <2>13
      <4>3. OwnFile(c)'
        BY <1>3, <1>4, <2>4, <2>7, <2>12, <2>13, <3>3, <4>1, <4>2 DEF OwnFile
      <4> QED BY <3>1, <4>3
    <3> QED BY <3>2, <3>3
  <2>14. FilesFit'
    <3>1. seg'.blob < nextBlob' /\ (\A b \in segBlobs' : b < nextBlob') /\ seg'.blob \in segBlobs'
      BY <1>1, <1>2, <1>3, <2>4, <2>7
    <3> QED BY <1>1, <1>2, <2>12, <2>13, <3>1 DEF FilesFit
  <2> QED BY <2>8, <2>10, <2>11, <2>14 DEF IxInv
<1>6. CASE seg.rev # dev[d].rev
  <2>1. segBlobs' = segBlobs \ {dev[d].blob} /\ UNCHANGED seg
    BY <1>6 DEF StoreRow
  <2>2. dev' \in [Compactors -> Devices] /\ dev'[d] = NoCompaction /\ \A c \in Compactors \ {d} : dev'[c] = dev[c]
    BY <1>0, <1>6, Idles DEF StoreRow
  <2>3. /\ seg.rev <= seg'.rev /\ dev[d].blob \in Nat /\ dev[d].blob # seg.blob
        /\ seg' \in [gen : Nat, rev : Nat, blob : Nat, holds : [Entries -> Nat]]
        /\ seg'.gen = seg.gen /\ seg'.blob = seg.blob /\ seg'.holds = seg.holds
    BY <1>0, <1>3, <2>1
  <2>4. \A c \in Compactors \ {d} : dev[c].pc = "row" => dev[c].blob # dev[d].blob
    BY <1>3
  <2> QED BY <1>1, <2>1, <2>2, <2>3, <2>4, EndsKeeps
<1> QED BY <1>5, <1>6

\* Listing the folded entries keeps it.
LEMMA ListFoldedKeeps ==
  ASSUME IxInv, NEW d \in Compactors, ListFolded(d)
  PROVE  IxInv'
<1>0. /\ entry \in [Entries -> [ver : Nat, week : {"ended", "now"}]] /\ latest \in [Entries -> Nat]
      /\ seg \in [gen : Nat, rev : Nat, blob : Nat, holds : [Entries -> Nat]]
      /\ seg.gen \in Nat /\ seg.rev \in Nat /\ seg.blob \in Nat /\ seg.holds \in [Entries -> Nat]
      /\ segBlobs \subseteq Nat /\ nextBlob \in Nat /\ nextBlob > 0 /\ dev \in [Compactors -> Devices]
      /\ lost \in BOOLEAN
      /\ (\A e \in Entries : EntryFits(e)) /\ (\A c \in Compactors : DeviceFits(c) /\ OwnFile(c) /\ OldFile(c))
      /\ d \in Compactors /\ DeviceFits(d) /\ OwnFile(d) /\ OldFile(d)
      /\ dev[d] \in Devices /\ dev[d].gen \in Nat /\ dev[d].rev \in Nat /\ dev[d].blob \in Nat /\ dev[d].old \in Nat
      /\ dev[d].folded \subseteq Entries /\ dev[d].doomed \subseteq Entries /\ dev[d].holds \in [Entries -> Nat]
  BY IxTypes, DevTypes
<1> DEFINE doomed == Doomed(d)
           r == [dev[d] EXCEPT !.pc = "remove", !.doomed = doomed]
<1>1. /\ UNCHANGED <<entry, latest, seg, segBlobs, nextBlob, lost>> /\ dev[d].pc = "list"
      /\ dev' = [dev EXCEPT ![d] = r]
  BY DEF ListFolded
<1>2. doomed \subseteq dev[d].folded /\ doomed \subseteq Entries /\ \A e \in doomed : latest[e] = 1
  BY <1>0, PendingIsFirst DEF Doomed
<1> HIDE DEF doomed
<1>3. /\ r \in Devices /\ r.pc = "remove" /\ r.doomed = doomed /\ r.gen = dev[d].gen /\ r.folded = dev[d].folded
      /\ r.old = dev[d].old
  BY <1>0, <1>2 DEF Devices, CompactionStages
<1> HIDE DEF r
<1>4. dev' \in [Compactors -> Devices] /\ dev'[d] = r /\ \A c \in Compactors \ {d} : dev'[c] = dev[c]
  BY <1>0, <1>1, <1>3
<1>5. DeviceFits(d)'
  BY <1>0, <1>1, <1>2, <1>3, <1>4 DEF DeviceFits, Doing
<1> QED BY <1>1, <1>3, <1>4, <1>5, QuietStep

\* Deleting them keeps it: the segment holds them, unless the draft was saved in between.
LEMMA RemoveFoldedEntriesKeeps ==
  ASSUME IxInv, NEW d \in Compactors, RemoveFoldedEntries(d)
  PROVE  IxInv'
<1>0. /\ entry \in [Entries -> [ver : Nat, week : {"ended", "now"}]] /\ latest \in [Entries -> Nat]
      /\ seg \in [gen : Nat, rev : Nat, blob : Nat, holds : [Entries -> Nat]]
      /\ seg.gen \in Nat /\ seg.rev \in Nat /\ seg.blob \in Nat /\ seg.holds \in [Entries -> Nat]
      /\ segBlobs \subseteq Nat /\ nextBlob \in Nat /\ nextBlob > 0 /\ dev \in [Compactors -> Devices]
      /\ lost \in BOOLEAN
      /\ (\A e \in Entries : EntryFits(e)) /\ (\A c \in Compactors : DeviceFits(c) /\ OwnFile(c) /\ OldFile(c))
      /\ d \in Compactors /\ DeviceFits(d) /\ OwnFile(d) /\ OldFile(d)
      /\ dev[d] \in Devices /\ dev[d].gen \in Nat /\ dev[d].rev \in Nat /\ dev[d].blob \in Nat /\ dev[d].old \in Nat
      /\ dev[d].folded \subseteq Entries /\ dev[d].doomed \subseteq Entries /\ dev[d].holds \in [Entries -> Nat]
  BY IxTypes, DevTypes
<1> DEFINE r == [dev[d] EXCEPT !.pc = "count"]
<1>1. /\ UNCHANGED <<latest, seg, segBlobs, nextBlob, lost>> /\ dev[d].pc = "remove"
      /\ entry' = [e \in Entries |-> IF e \in dev[d].doomed THEN [entry[e] EXCEPT !.ver = 0] ELSE entry[e]]
      /\ dev' = [dev EXCEPT ![d] = r]
  BY DEF RemoveFoldedEntries
<1>2. r \in Devices /\ r.pc = "count" /\ r.gen = dev[d].gen /\ r.old = dev[d].old
  BY <1>0 DEF Devices, CompactionStages
<1> HIDE DEF r
<1>3. dev' \in [Compactors -> Devices] /\ dev'[d] = r /\ \A c \in Compactors \ {d} : dev'[c] = dev[c]
  BY <1>0, <1>1, <1>2
<1>4. entry' \in [Entries -> [ver : Nat, week : {"ended", "now"}]]
  BY <1>0, <1>1
<1>5. /\ (\A e \in dev[d].folded : seg.holds[e] = 1) /\ dev[d].doomed \subseteq dev[d].folded
      /\ (~lost => \A e \in dev[d].doomed : latest[e] = 1) /\ dev[d].gen <= seg.gen
  BY <1>0, <1>1 DEF DeviceFits, Doing
<1>6. ASSUME NEW e \in Entries PROVE EntryFits(e)'
  <2>1. EntryFits(e) /\ latest[e] \in Nat /\ entry[e] \in [ver : Nat, week : {"ended", "now"}]
    BY <1>0, <1>6
  <2>2. CASE e \in dev[d].doomed
    <3>1. entry'[e].ver = 0 /\ entry'[e].week = entry[e].week /\ seg.holds[e] = 1 /\ (~lost => latest[e] = 1)
      BY <1>1, <1>5, <1>6, <2>1, <2>2
    <3> QED BY <1>1, <2>1, <3>1 DEF EntryFits
  <2>3. CASE e \notin dev[d].doomed
    BY <1>1, <1>6, <2>1, <2>3 DEF EntryFits
  <2> QED BY <2>2, <2>3
<1>7. DeviceFits(d)'
  BY <1>1, <1>2, <1>3, <1>5 DEF DeviceFits
<1>8. IxTypeOK'
  BY <1>0, <1>1, <1>3, <1>4 DEF IxTypeOK
<1>9. \A c \in Compactors : DeviceFits(c)'
  BY <1>0, <1>1, <1>3, <1>7, OtherFits
<1>10. ASSUME NEW c \in Compactors PROVE OwnFile(c)' /\ OldFile(c)'
  <2>1. \A x \in Compactors : dev'[x].old = dev[x].old /\ (dev'[x].pc = "row" => x # d /\ dev'[x] = dev[x])
    BY <1>2, <1>3
  <2>2. OwnFile(c) /\ OldFile(c)
    BY <1>0, <1>10
  <2>3. OldFile(c)'
    BY <1>1, <1>2, <1>3, <1>10, <2>1, <2>2 DEF OldFile
  <2>4. OwnFile(c)'
    BY <1>1, <1>10, <2>1, <2>2 DEF OwnFile
  <2> QED BY <2>3, <2>4
<1>11. FilesFit'
  <2>1. \A c \in Compactors : dev'[c].old = dev[c].old
    BY <1>2, <1>3
  <2> QED BY <1>1, <1>10, <2>1 DEF IxInv, FilesFit
<1> QED BY <1>6, <1>8, <1>9, <1>11 DEF IxInv

\* Counting them on the row and discarding the previous generation's file keeps it.
LEMMA CountAndDiscardKeeps ==
  ASSUME IxInv, NEW d \in Compactors, CountAndDiscard(d)
  PROVE  IxInv'
<1>0. /\ entry \in [Entries -> [ver : Nat, week : {"ended", "now"}]] /\ latest \in [Entries -> Nat]
      /\ seg \in [gen : Nat, rev : Nat, blob : Nat, holds : [Entries -> Nat]]
      /\ seg.gen \in Nat /\ seg.rev \in Nat /\ seg.blob \in Nat /\ seg.holds \in [Entries -> Nat]
      /\ segBlobs \subseteq Nat /\ nextBlob \in Nat /\ nextBlob > 0 /\ dev \in [Compactors -> Devices]
      /\ lost \in BOOLEAN
      /\ (\A e \in Entries : EntryFits(e)) /\ (\A c \in Compactors : DeviceFits(c) /\ OwnFile(c) /\ OldFile(c))
      /\ d \in Compactors /\ DeviceFits(d) /\ OwnFile(d) /\ OldFile(d)
      /\ dev[d] \in Devices /\ dev[d].gen \in Nat /\ dev[d].rev \in Nat /\ dev[d].blob \in Nat /\ dev[d].old \in Nat
      /\ dev[d].folded \subseteq Entries /\ dev[d].doomed \subseteq Entries /\ dev[d].holds \in [Entries -> Nat]
  BY IxTypes, DevTypes
<1>1. UNCHANGED <<entry, latest, nextBlob, lost>> /\ dev[d].pc = "count" /\ dev' = [dev EXCEPT ![d] = NoCompaction]
  BY DEF CountAndDiscard
<1>2. dev' \in [Compactors -> Devices] /\ dev'[d] = NoCompaction /\ \A c \in Compactors \ {d} : dev'[c] = dev[c]
  BY <1>0, <1>1, Idles
<1>3. segBlobs' = segBlobs \/ segBlobs' = segBlobs \ {dev[d].old}
  BY DEF CountAndDiscard
<1>4. seg' = seg \/ seg' = [seg EXCEPT !.rev = @ + 1]
  BY DEF CountAndDiscard
<1>5. dev[d].old # seg.blob /\ \A c \in Compactors : dev[c].pc = "row" => dev[c].blob # dev[d].old
  BY <1>0, <1>1 DEF OldFile, OwnFile
<1>6. CASE seg' = seg
  BY <1>0, <1>1, <1>2, <1>3, <1>5, <1>6, EndsKeeps
<1>7. CASE seg' = [seg EXCEPT !.rev = @ + 1]
  <2> DEFINE rev == seg.rev + 1
  <2>1. rev \in Nat /\ \A g \in Nat : g <= seg.rev => g <= rev /\ g # rev
    BY <1>0
  <2>2. seg' = [seg EXCEPT !.rev = rev]
    BY <1>7
  <2> HIDE DEF rev
  <2>3. /\ seg' \in [gen : Nat, rev : Nat, blob : Nat, holds : [Entries -> Nat]]
        /\ seg'.gen = seg.gen /\ seg'.rev = rev /\ seg'.blob = seg.blob /\ seg'.holds = seg.holds
    BY <1>0, <2>1, <2>2
  <2>4. rev \in Nat /\ seg.rev <= rev
    BY <1>0, <2>1
  <2> QED BY <1>0, <1>1, <1>2, <1>3, <1>5, <2>3, <2>4, EndsKeeps
<1> QED BY <1>4, <1>6, <1>7

\* A server that stops in the middle of an upload keeps it.
LEMMA CompactionStopsKeeps ==
  ASSUME IxInv, NEW d \in Compactors, CompactionStops(d)
  PROVE  IxInv'
<1>0. /\ entry \in [Entries -> [ver : Nat, week : {"ended", "now"}]] /\ latest \in [Entries -> Nat]
      /\ seg \in [gen : Nat, rev : Nat, blob : Nat, holds : [Entries -> Nat]]
      /\ seg.gen \in Nat /\ seg.rev \in Nat /\ seg.blob \in Nat /\ seg.holds \in [Entries -> Nat]
      /\ segBlobs \subseteq Nat /\ nextBlob \in Nat /\ nextBlob > 0 /\ dev \in [Compactors -> Devices]
      /\ lost \in BOOLEAN
      /\ (\A e \in Entries : EntryFits(e)) /\ (\A c \in Compactors : DeviceFits(c) /\ OwnFile(c) /\ OldFile(c))
      /\ d \in Compactors /\ DeviceFits(d) /\ OwnFile(d) /\ OldFile(d)
      /\ dev[d] \in Devices /\ dev[d].gen \in Nat /\ dev[d].rev \in Nat /\ dev[d].blob \in Nat /\ dev[d].old \in Nat
      /\ dev[d].folded \subseteq Entries /\ dev[d].doomed \subseteq Entries /\ dev[d].holds \in [Entries -> Nat]
  BY IxTypes, DevTypes
<1>1. UNCHANGED <<entry, latest, seg, segBlobs, nextBlob, lost>> /\ dev' = [dev EXCEPT ![d] = NoCompaction]
  BY DEF CompactionStops
<1>2. dev' \in [Compactors -> Devices] /\ dev'[d] = NoCompaction /\ \A c \in Compactors \ {d} : dev'[c] = dev[c]
  BY <1>0, <1>1, Idles
<1> QED BY <1>1, <1>2, Idles, IdleFits, QuietStep

\* Every step of the index keeps it.
LEMMA IdxStep == IxInv /\ [IdxNext]_idxvars => IxInv'
<1> SUFFICES ASSUME IxInv, [IdxNext]_idxvars PROVE IxInv'
  OBVIOUS
<1>1. CASE UNCHANGED idxvars
  BY <1>1 DEF idxvars, IxInv, IxTypeOK, EntryFits, DeviceFits, Doing, Folded, FilesFit, OwnFile, OldFile
<1>2. CASE IdxNext
  BY <1>2, IndexEntryKeeps, ReadManifestKeeps, FoldEntriesKeeps, PutSegmentKeeps, StoreRowKeeps, ListFoldedKeeps,
     RemoveFoldedEntriesKeeps, CountAndDiscardKeeps, CompactionStopsKeeps DEF IdxNext
<1> QED BY <1>1, <1>2

\* The invariant says that no entry is lost (NoEntryLost).
LEMMA NoEntryIsLost == IxInv => NoEntryLost
<1> SUFFICES ASSUME IxInv PROVE NoEntryLost
  OBVIOUS
<1>1. ASSUME NEW e \in Entries, latest[e] > 0, ~lost PROVE entry[e].ver = latest[e] \/ seg.holds[e] = latest[e]
  <2>1. latest[e] \in Nat /\ EntryFits(e)
    BY IxTypes
  <2>2. latest[e] = 1 \/ latest[e] > 1
    BY <1>1, <2>1
  <2> QED BY <1>1, <2>1, <2>2 DEF EntryFits
<1> QED BY <1>1 DEF NoEntryLost, IxInv, FilesFit

\* The invariant of both halves is inductive, for any entries, devices and values, and implies SealedKept.
THEOREM SealedDataInductive ==
  /\ SdInit => SdInv
  /\ SdInv /\ [SdNext]_sdvars => SdInv'
  /\ SdInv => SealedKept
<1>1. SdInit => SdInv
  BY IxInitOK, RecInitOK DEF SdInit, SdInv
<1>2. SdInv /\ [SdNext]_sdvars => SdInv'
  <2>1. SdInv /\ [SdNext]_sdvars => [IdxNext]_idxvars /\ [RecNext]_recvars
    BY DEF SdNext, sdvars
  <2> QED BY <2>1, IdxStep, RecStep DEF SdInv
<1>3. SdInv => SealedKept
  BY NoEntryIsLost, RecordIsKept DEF SdInv, SealedKept
<1> QED BY <1>1, <1>2, <1>3

\* Nothing sealed is lost: the newest entry of every message is pending or in a stored segment, and every field
\* holds what its owner gave it (SealedKept).
THEOREM SealedIsKept == SdSpec => []SealedKept
BY SealedDataInductive, PTL DEF SdSpec

--------------------------------------------------------------------------------
(****************************************************************************)
(* Folders, in two halves that share no variable. The well-known folder of  *)
(* a mailbox and type, found or created by any number of callers: an access *)
(* list with grants of an earlier incarnation can only be the one a         *)
(* caller's snapshot found (StaleSeen), so a caller that claimed a new one  *)
(* never saw it, and one that reuses it still has to reset it (ResetDue); a *)
(* live row without an access list has a caller that will create it         *)
(* (AclDue).                                                                *)
(*                                                                          *)
(* And the counts on the folder rows, refreshed by any number of refreshes: *)
(* for a folder that is not excused, either a refresh has what it will      *)
(* store right, or owes it another attempt (Owes), or the stored counts are *)
(* right and every refresh that read others is behind the row's version, so *)
(* that its save is refused (FolderDue).                                    *)
(****************************************************************************)

\* ---- the well-known folder
\* Where a caller of findOrCreateWellKnownFolder() is, and what an access list may grant.
CallerSteps == {"idle", "snapshot", "claim", "insert", "release", "reread", "reset", "resetting", "ensure", "create"}
FolderGrants == {"stale", "share"}
CallerRows == [pc : CallerSteps, leftover : SUBSET FolderGrants, found : BOOLEAN, claimed : BOOLEAN, rev : Nat, tries : Nat]
AclRows == [there : BOOLEAN, parent : {"none", "mailbox"}, grants : SUBSET FolderGrants, rev : Nat]
WkTypeOK ==
    /\ wkRow \in {"none", "live", "trashed"} /\ wkAcl \in AclRows /\ strays \in Nat
    /\ caller \in [Callers -> CallerRows] /\ calls \in Nat /\ shares \in Nat /\ folderFaults \in Nat
    /\ wkGhost \in [orphaned : BOOLEAN, unreset : BOOLEAN]
\* Grants of an earlier incarnation lie at the uid.
StaleAcl == wkAcl.there /\ "stale" \in wkAcl.grants
\* An access list that does not inherit from the mailbox is an earlier incarnation's.
ParentFits == wkAcl.there /\ wkAcl.parent # "mailbox" => "stale" \in wkAcl.grants
\* A row without an access list is known to have been left by a caller that stopped.
OrphanKnown == wkRow # "none" /\ ~wkAcl.there => wkGhost.orphaned
\* A live row without one has a caller that will create it.
AclDue == wkRow = "live" /\ ~wkAcl.there => folderFaults > 0 \/ \E c \in Callers : caller[c].pc \in {"reread", "ensure",
    "create"}
\* Without a row nobody is past the insert, and the access list a caller claimed is still there.
ClaimStands == wkRow = "none" => \A c \in Callers : caller[c].pc # "release" /\ (caller[c].pc = "insert" => wkAcl.there)
\* Stale grants were there when every caller in the middle of a creation took its snapshot.
StaleSeen == StaleAcl => \A c \in Callers :
    /\ caller[c].pc # "release" /\ (caller[c].pc = "insert" => ~caller[c].claimed)
    /\ caller[c].pc \in {"claim", "insert", "reset", "resetting"} => caller[c].found /\ "stale" \in caller[c].leftover
\* With a row, a caller is about to reset them, unless one stopped before it did.
ResetDue == StaleAcl /\ wkRow # "none" => wkGhost.unreset \/ \E c \in Callers : caller[c].pc \in {"reset", "resetting"}
\* The invariant of the well-known folder.
WkInv == WkTypeOK /\ ParentFits /\ OrphanKnown /\ AclDue /\ ClaimStands /\ StaleSeen /\ ResetDue

\* ---- the counts
\* The two counts, the rows that hold them, and a refresh.
FolderCounts == [total : Nat, unread : Nat]
FolderRows == [total : Nat, unread : Nat, rev : Nat]
RefreshRows == [pc : {"idle", "count", "read", "store", "heal"}, dirs : SUBSET Dirs, got : [Dirs -> FolderCounts], at :
    [Dirs -> Nat],
                dir : SUBSET Dirs, seen : FolderRows, again : SUBSET Dirs, attempt : Nat]
FcTypeOK ==
    /\ msgAt \in [Msgs -> [dir : SUBSET Dirs, read : BOOLEAN]] /\ counted \in [Dirs -> FolderRows]
    /\ refresh \in [Refreshers -> RefreshRows] /\ changes \in Nat /\ fcGhost \subseteq Dirs
\* A refresh that has counted and is storing, folder by folder.
Storing(w) == refresh[w].pc \in {"read", "store"}
\* A folder it has yet to store.
YetToStore(w, d) == Storing(w) /\ d \in refresh[w].dirs
\* It will store what is right: it has yet to count, will count again, or counted what still holds.
Owes(w, d) ==
    \/ refresh[w].pc = "count" /\ d \in refresh[w].dirs
    \/ Storing(w) /\ d \in refresh[w].again
    \/ YetToStore(w, d) /\ refresh[w].attempt <= RefreshAttempts /\ refresh[w].got[d] = CountMessagesByFolder[d]
\* Its save of the folder will be refused.
Behind(w, d) == IF refresh[w].pc = "store" /\ refresh[w].dir = {d} THEN refresh[w].seen.rev < counted[d].rev
                                                                  ELSE refresh[w].at[d] < counted[d].rev
\* A refresh stores one folder at a time, of those it counted; a read heals one.
AtFolder == \A w \in Refreshers :
    /\ refresh[w].pc = "store" => \E d \in refresh[w].dirs : refresh[w].dir = {d}
    /\ refresh[w].pc = "heal" => \E d \in Dirs : refresh[w].dir = {d}
\* Past the last attempt a refresh only finishes the folder it is at.
AttemptFits == \A w \in Refreshers :
    /\ refresh[w].attempt > RefreshAttempts => refresh[w].pc = "store" /\ refresh[w].dirs = refresh[w].dir
    /\ refresh[w].again # {} => refresh[w].attempt < RefreshAttempts /\ Storing(w)
\* What a refresh saw is the row, if the version still is.
VersionsFit == \A w \in Refreshers, d \in Dirs :
    /\ refresh[w].at[d] <= counted[d].rev
    /\ refresh[w].pc \in {"store", "heal"} /\ refresh[w].dir = {d} =>
          refresh[w].seen.rev <= counted[d].rev /\ (refresh[w].seen.rev = counted[d].rev => refresh[w].seen = counted[d])
\* The counts of a folder are right, or a refresh will make them so.
FolderDue(d) ==
    \/ \E w \in Refreshers : Owes(w, d)
    \/ /\ Same(counted[d], CountMessagesByFolder[d])
       /\ \A w \in Refreshers : YetToStore(w, d) => refresh[w].got[d] = CountMessagesByFolder[d] \/ Behind(w, d)
\* That holds of every folder but the excused ones.
CountDue == \A d \in Dirs \ fcGhost : FolderDue(d)
\* The invariant of the counts.
FcInv == FcTypeOK /\ AtFolder /\ AttemptFits /\ VersionsFit /\ CountDue

\* A caller at rest has its type.
LEMMA NoCallerType == NoCaller \in CallerRows /\ NoCaller.pc = "idle"
  BY DEF NoCaller, CallerRows, CallerSteps, FolderGrants

\* A step of a caller leaves the others alone.
LEMMA CallerGoes ==
    ASSUME WkTypeOK, NEW c \in Callers, NEW x \in CallerRows, caller' = [caller EXCEPT ![c] = x]
    PROVE  caller' \in [Callers -> CallerRows] /\ caller'[c] = x /\ \A b \in Callers \ {c} : caller'[b] = caller[b]
  BY DEF WkTypeOK

\* One that only moves on keeps what the caller holds.
LEMMA CallerMoves ==
    ASSUME WkTypeOK, NEW c \in Callers, NEW pc \in CallerSteps, GoesTo(c, pc)
    PROVE  /\ caller' \in [Callers -> CallerRows] /\ \A b \in Callers \ {c} : caller'[b] = caller[b]
           /\ caller'[c].pc = pc /\ caller'[c].found = caller[c].found /\ caller'[c].leftover = caller[c].leftover
           /\ caller'[c].claimed = caller[c].claimed
  <1>1. [caller[c] EXCEPT !.pc = pc] \in CallerRows
    BY DEF WkTypeOK, CallerRows
  <1>2. caller' = [caller EXCEPT ![c] = [caller[c] EXCEPT !.pc = pc]]
    BY DEF GoesTo
  <1>3. caller[c] \in CallerRows
    BY DEF WkTypeOK
  <1>4. QED BY <1>1, <1>2, <1>3, CallerGoes DEF CallerRows

\* A caller that ends is at rest.
LEMMA CallerLeaves ==
    ASSUME WkTypeOK, NEW c \in Callers, CallEnds(c)
    PROVE  caller' \in [Callers -> CallerRows] /\ caller'[c].pc = "idle" /\ \A b \in Callers \ {c} : caller'[b] = caller[b]
  BY NoCallerType, CallerGoes DEF CallEnds

\* Looking for the folder keeps the invariant.
LEMMA FindExistingKeeps ==
    ASSUME WkInv, NEW c \in Callers, FindExisting(c)
    PROVE  WkInv'
  <1>a. /\ caller' \in [Callers -> CallerRows] /\ \A b \in Callers \ {c} : caller'[b] = caller[b]
        /\ caller[c].pc = "idle" /\ caller'[c].pc \in {"ensure", "idle", "snapshot"}
    BY CallerMoves DEF WkInv, FindExisting, CallerSteps
  <1>1. WkTypeOK'
    BY <1>a DEF WkInv, WkTypeOK, FindExisting
  <1>2. ParentFits'
    BY <1>a DEF WkInv, ParentFits, FindExisting
  <1>3. OrphanKnown'
    BY <1>a DEF WkInv, OrphanKnown, FindExisting
  <1>4. AclDue'
    BY <1>a DEF WkInv, AclDue, FindExisting
  <1>5. ClaimStands'
    BY <1>a DEF WkInv, ClaimStands, FindExisting
  <1>6. StaleSeen'
    BY <1>a DEF WkInv, StaleSeen, StaleAcl, FindExisting
  <1>7. ResetDue'
    BY <1>a DEF WkInv, ResetDue, StaleAcl, FindExisting
  <1>8. QED BY <1>1, <1>2, <1>3, <1>4, <1>5, <1>6, <1>7 DEF WkInv

\* The snapshot of what an earlier incarnation left keeps it: stale grants that are there are in it.
LEMMA SnapshotLeftoverKeeps ==
    ASSUME WkInv, NEW c \in Callers, SnapshotLeftover(c)
    PROVE  WkInv'
  <1> DEFINE x == [caller[c] EXCEPT !.pc = "claim", !.found = wkAcl.there, !.leftover = wkAcl.grants]
  <1>t. caller[c] \in CallerRows /\ wkAcl \in AclRows
    BY DEF WkInv, WkTypeOK
  <1>x. x \in CallerRows /\ x.pc = "claim" /\ x.found = wkAcl.there /\ x.leftover = wkAcl.grants
    BY <1>t, NoCallerType DEF CallerRows, CallerSteps, AclRows
  <1>s. caller' = [caller EXCEPT ![c] = x]
    BY DEF SnapshotLeftover
  <1> HIDE DEF x
  <1>a. /\ caller' \in [Callers -> CallerRows] /\ \A b \in Callers \ {c} : caller'[b] = caller[b]
        /\ caller'[c] = x
    BY <1>x, <1>s, CallerGoes DEF WkInv
  <1>1. WkTypeOK'
    BY <1>a, <1>x DEF WkInv, WkTypeOK, SnapshotLeftover
  <1>2. ParentFits'
    BY <1>a, <1>x DEF WkInv, ParentFits, SnapshotLeftover
  <1>3. OrphanKnown'
    BY <1>a, <1>x DEF WkInv, OrphanKnown, SnapshotLeftover
  <1>4. AclDue'
    BY <1>a, <1>x DEF WkInv, AclDue, SnapshotLeftover
  <1>5. ClaimStands'
    BY <1>a, <1>x DEF WkInv, ClaimStands, SnapshotLeftover
  <1>6. StaleSeen'
    BY <1>a, <1>x DEF WkInv, StaleSeen, StaleAcl, SnapshotLeftover
  <1>7. ResetDue'
    BY <1>a, <1>x DEF WkInv, ResetDue, StaleAcl, SnapshotLeftover
  <1>8. QED BY <1>1, <1>2, <1>3, <1>4, <1>5, <1>6, <1>7 DEF WkInv

\* The claim of an access list keeps it: one that is claimed grants nothing.
LEMMA ClaimACLKeeps ==
    ASSUME WkInv, NEW c \in Callers, ClaimACL(c)
    PROVE  WkInv'
  <1> DEFINE x == [caller[c] EXCEPT !.pc = "insert", !.claimed = ~wkAcl.there]
  <1>t. caller[c] \in CallerRows /\ wkAcl \in AclRows
    BY DEF WkInv, WkTypeOK
  <1>x. /\ x \in CallerRows /\ x.pc = "insert" /\ x.found = caller[c].found /\ x.leftover = caller[c].leftover
        /\ x.claimed = ~wkAcl.there
    BY <1>t, NoCallerType DEF CallerRows, CallerSteps, AclRows
  <1>s. caller' = [caller EXCEPT ![c] = x]
    BY DEF ClaimACL
  <1> HIDE DEF x
  <1>a. /\ caller' \in [Callers -> CallerRows] /\ \A b \in Callers \ {c} : caller'[b] = caller[b]
        /\ caller'[c] = x
    BY <1>x, <1>s, CallerGoes DEF WkInv
  <1>1. WkTypeOK'
    BY <1>a, <1>x DEF WkInv, WkTypeOK, ClaimACL, FreshAcl, AclRows, FolderGrants
  <1>2. ParentFits'
    BY <1>a, <1>x DEF WkInv, ParentFits, ClaimACL, FreshAcl, AclRows, FolderGrants
  <1>3. OrphanKnown'
    BY <1>a, <1>x DEF WkInv, OrphanKnown, ClaimACL, FreshAcl, AclRows, FolderGrants
  <1>4. AclDue'
    BY <1>a, <1>x DEF WkInv, AclDue, ClaimACL, FreshAcl, AclRows, FolderGrants
  <1>5. ClaimStands'
    BY <1>a, <1>x DEF WkInv, ClaimStands, ClaimACL, FreshAcl, AclRows, FolderGrants
  <1>6. StaleSeen'
    BY <1>a, <1>x DEF WkInv, StaleSeen, StaleAcl, ClaimACL, FreshAcl, AclRows, FolderGrants
  <1>7. ResetDue'
    BY <1>a, <1>x DEF WkInv, ResetDue, StaleAcl, ClaimACL, FreshAcl, AclRows, FolderGrants
  <1>8. QED BY <1>1, <1>2, <1>3, <1>4, <1>5, <1>6, <1>7 DEF WkInv

\* The insert keeps it: the caller that wins has a claimed access list, or stale grants in its snapshot and
\* goes on to reset them.
LEMMA InsertRowKeeps ==
    ASSUME WkInv, NEW c \in Callers, InsertRow(c)
    PROVE  WkInv'
  <1>a. /\ caller' \in [Callers -> CallerRows] /\ \A b \in Callers \ {c} : caller'[b] = caller[b]
        /\ caller[c].pc = "insert" /\ caller'[c].found = caller[c].found /\ caller'[c].leftover = caller[c].leftover
        /\ IF wkRow = "none" THEN wkRow' = "live" /\ caller'[c].pc = IF caller[c].found THEN "reset" ELSE "ensure"
                              ELSE wkRow' = wkRow /\ caller'[c].pc = IF caller[c].claimed THEN "release" ELSE "reread"
    BY CallerMoves DEF WkInv, InsertRow, CallerSteps
  <1>1. WkTypeOK'
    BY <1>a DEF WkInv, WkTypeOK, InsertRow
  <1>2. ParentFits'
    BY <1>a DEF WkInv, ParentFits, InsertRow
  <1>3. OrphanKnown'
    BY <1>a DEF WkInv, OrphanKnown, InsertRow, ClaimStands
  <1>4. AclDue'
    BY <1>a DEF WkInv, AclDue, InsertRow, ClaimStands
  <1>5. ClaimStands'
    BY <1>a DEF WkInv, ClaimStands, InsertRow
  <1>6. StaleSeen'
    BY <1>a DEF WkInv, StaleSeen, StaleAcl, InsertRow
  <1>7. ResetDue'
    BY <1>a DEF WkInv, ResetDue, StaleAcl, InsertRow, StaleSeen
  <1>8. QED BY <1>1, <1>2, <1>3, <1>4, <1>5, <1>6, <1>7 DEF WkInv

\* Releasing the claim of a failed insert keeps it: there is a row by then, whose caller creates the list again.
LEMMA ReleaseACLKeeps ==
    ASSUME WkInv, NEW c \in Callers, ReleaseACL(c)
    PROVE  WkInv'
  <1>a. /\ caller' \in [Callers -> CallerRows] /\ \A b \in Callers \ {c} : caller'[b] = caller[b]
        /\ caller[c].pc = "release" /\ caller'[c].pc = "reread"
    BY CallerMoves DEF WkInv, ReleaseACL, CallerSteps
  <1>1. WkTypeOK'
    BY <1>a DEF WkInv, WkTypeOK, ReleaseACL, NoAcl, AclRows, FolderGrants
  <1>2. ParentFits'
    BY <1>a DEF WkInv, ParentFits, ReleaseACL, NoAcl, AclRows, FolderGrants
  <1>3. OrphanKnown'
    BY <1>a DEF WkInv, OrphanKnown, ReleaseACL, NoAcl, AclRows, FolderGrants, WkTypeOK
  <1>4. AclDue'
    BY <1>a DEF WkInv, AclDue, ReleaseACL, NoAcl, AclRows, FolderGrants
  <1>5. ClaimStands'
    BY <1>a DEF WkInv, ClaimStands, ReleaseACL, NoAcl, AclRows, FolderGrants
  <1>6. StaleSeen'
    BY <1>a DEF WkInv, StaleSeen, StaleAcl, ReleaseACL, NoAcl, AclRows, FolderGrants
  <1>7. ResetDue'
    BY <1>a DEF WkInv, ResetDue, StaleAcl, ReleaseACL, NoAcl, AclRows, FolderGrants
  <1>8. QED BY <1>1, <1>2, <1>3, <1>4, <1>5, <1>6, <1>7 DEF WkInv

\* Reading the winner's row keeps it.
LEMMA RereadWinnerKeeps ==
    ASSUME WkInv, NEW c \in Callers, RereadWinner(c)
    PROVE  WkInv'
  <1>a. /\ caller' \in [Callers -> CallerRows] /\ \A b \in Callers \ {c} : caller'[b] = caller[b]
        /\ caller[c].pc = "reread" /\ caller'[c].pc = IF wkRow = "live" THEN "ensure" ELSE "idle"
    BY CallerMoves, CallerLeaves DEF WkInv, RereadWinner, CallerSteps
  <1>1. WkTypeOK'
    BY <1>a DEF WkInv, WkTypeOK, RereadWinner
  <1>2. ParentFits'
    BY <1>a DEF WkInv, ParentFits, RereadWinner
  <1>3. OrphanKnown'
    BY <1>a DEF WkInv, OrphanKnown, RereadWinner
  <1>4. AclDue'
    BY <1>a DEF WkInv, AclDue, RereadWinner
  <1>5. ClaimStands'
    BY <1>a DEF WkInv, ClaimStands, RereadWinner
  <1>6. StaleSeen'
    BY <1>a DEF WkInv, StaleSeen, StaleAcl, RereadWinner
  <1>7. ResetDue'
    BY <1>a DEF WkInv, ResetDue, StaleAcl, RereadWinner
  <1>8. QED BY <1>1, <1>2, <1>3, <1>4, <1>5, <1>6, <1>7 DEF WkInv

\* The read of the access list to be reset keeps it.
LEMMA ResetReadsKeeps ==
    ASSUME WkInv, NEW c \in Callers, ResetReads(c)
    PROVE  WkInv'
  <1> DEFINE x == IF wkAcl.there THEN [caller[c] EXCEPT !.pc = "resetting", !.rev = wkAcl.rev]
          ELSE [caller[c] EXCEPT !.pc = "ensure"]
  <1>t. caller[c] \in CallerRows /\ wkAcl \in AclRows
    BY DEF WkInv, WkTypeOK
  <1>x. /\ x \in CallerRows /\ x.pc = (IF wkAcl.there THEN "resetting" ELSE "ensure")
        /\ x.found = caller[c].found /\ x.leftover = caller[c].leftover
    BY <1>t, NoCallerType DEF CallerRows, CallerSteps, AclRows
  <1>s. caller' = [caller EXCEPT ![c] = x]
    BY DEF ResetReads
  <1> HIDE DEF x
  <1>a. /\ caller' \in [Callers -> CallerRows] /\ \A b \in Callers \ {c} : caller'[b] = caller[b]
        /\ caller'[c] = x
    BY <1>x, <1>s, CallerGoes DEF WkInv
  <1>1. WkTypeOK'
    BY <1>a, <1>x DEF WkInv, WkTypeOK, ResetReads
  <1>2. ParentFits'
    BY <1>a, <1>x DEF WkInv, ParentFits, ResetReads
  <1>3. OrphanKnown'
    BY <1>a, <1>x DEF WkInv, OrphanKnown, ResetReads
  <1>4. AclDue'
    BY <1>a, <1>x DEF WkInv, AclDue, ResetReads
  <1>5. ClaimStands'
    BY <1>a, <1>x DEF WkInv, ClaimStands, ResetReads
  <1>6. StaleSeen'
    BY <1>a, <1>x DEF WkInv, StaleSeen, StaleAcl, ResetReads
  <1>7. ResetDue'
    BY <1>a, <1>x DEF WkInv, ResetDue, StaleAcl, ResetReads
  <1>8. QED BY <1>1, <1>2, <1>3, <1>4, <1>5, <1>6, <1>7 DEF WkInv

\* The reset keeps it: it takes away the grants of the snapshot, which holds the stale ones, and is refused for a
\* list that changed; past the last attempt the list is known as not reset.
LEMMA ResetLeftoverACLKeeps ==
    ASSUME WkInv, NEW c \in Callers, ResetLeftoverACL(c)
    PROVE  WkInv'
  <1> DEFINE x == [caller[c] EXCEPT !.pc = "reset", !.tries = caller[c].tries + 1]
  <1>t. caller[c] \in CallerRows /\ wkAcl \in AclRows /\ caller[c].pc = "resetting"
    BY DEF WkInv, WkTypeOK, ResetLeftoverACL
  <1>n. caller[c].tries + 1 \in Nat
    BY <1>t DEF CallerRows
  <1>x. x \in CallerRows /\ x.pc = "reset" /\ x.found = caller[c].found /\ x.leftover = caller[c].leftover
    BY <1>t, <1>n DEF CallerRows, CallerSteps
  <1> HIDE DEF x
  <1>1. CASE wkAcl' = Cleared(c) /\ GoesTo(c, "ensure") /\ wkGhost' = wkGhost
    <2>a. /\ caller' \in [Callers -> CallerRows] /\ \A b \in Callers \ {c} : caller'[b] = caller[b]
          /\ caller'[c].pc = "ensure"
      BY <1>1, CallerMoves DEF WkInv, CallerSteps
    <2>n. wkAcl.rev + 1 \in Nat /\ wkAcl.grants \ caller[c].leftover \in SUBSET FolderGrants
      BY <1>t DEF AclRows
    <2>c. /\ wkAcl' \in AclRows /\ wkAcl'.there = wkAcl.there /\ wkAcl'.parent = "mailbox"
          /\ wkAcl'.grants = wkAcl.grants \ caller[c].leftover
      BY <1>1, <1>t, <2>n DEF Cleared, AclRows
    <2>d. ~StaleAcl'
      BY <1>t, <2>c DEF WkInv, StaleSeen, StaleAcl
    <2>1. WkTypeOK'
      BY <1>1, <1>t, <2>a, <2>c, <2>d DEF WkInv, WkTypeOK, ResetLeftoverACL
    <2>2. ParentFits'
      BY <1>1, <1>t, <2>a, <2>c, <2>d DEF WkInv, ParentFits, ResetLeftoverACL
    <2>3. OrphanKnown'
      BY <1>1, <1>t, <2>a, <2>c, <2>d DEF WkInv, OrphanKnown, ResetLeftoverACL
    <2>4. AclDue'
      BY <1>1, <1>t, <2>a, <2>c, <2>d DEF WkInv, AclDue, ResetLeftoverACL
    <2>5. ClaimStands'
      BY <1>1, <1>t, <2>a, <2>c, <2>d DEF WkInv, ClaimStands, ResetLeftoverACL
    <2>6. StaleSeen'
      BY <1>1, <1>t, <2>a, <2>c, <2>d DEF WkInv, StaleSeen, StaleAcl, ResetLeftoverACL
    <2>7. ResetDue'
      BY <1>1, <1>t, <2>a, <2>c, <2>d DEF WkInv, ResetDue, StaleAcl, ResetLeftoverACL
    <2>8. QED BY <2>1, <2>2, <2>3, <2>4, <2>5, <2>6, <2>7 DEF WkInv
  <1>2. CASE CallEnds(c) /\ wkGhost' = [wkGhost EXCEPT !.unreset = TRUE] /\ wkAcl' = wkAcl
    <2>a. /\ caller' \in [Callers -> CallerRows] /\ \A b \in Callers \ {c} : caller'[b] = caller[b]
          /\ caller'[c].pc = "idle"
      BY <1>2, CallerLeaves DEF WkInv
    <2>1. WkTypeOK'
      BY <1>2, <1>t, <2>a DEF WkInv, WkTypeOK, ResetLeftoverACL
    <2>2. ParentFits'
      BY <1>2, <1>t, <2>a DEF WkInv, ParentFits, ResetLeftoverACL
    <2>3. OrphanKnown'
      BY <1>2, <1>t, <2>a DEF WkInv, OrphanKnown, ResetLeftoverACL
    <2>4. AclDue'
      BY <1>2, <1>t, <2>a DEF WkInv, AclDue, ResetLeftoverACL
    <2>5. ClaimStands'
      BY <1>2, <1>t, <2>a DEF WkInv, ClaimStands, ResetLeftoverACL
    <2>6. StaleSeen'
      BY <1>2, <1>t, <2>a DEF WkInv, StaleSeen, StaleAcl, ResetLeftoverACL
    <2>7. ResetDue'
      BY <1>2, <1>t, <2>a DEF WkInv, ResetDue, StaleAcl, ResetLeftoverACL
    <2>8. QED BY <2>1, <2>2, <2>3, <2>4, <2>5, <2>6, <2>7 DEF WkInv
  <1>3. CASE caller' = [caller EXCEPT ![c] = x] /\ wkGhost' = wkGhost /\ wkAcl' = wkAcl
    <2>a. /\ caller' \in [Callers -> CallerRows] /\ \A b \in Callers \ {c} : caller'[b] = caller[b]
          /\ caller'[c] = x
      BY <1>3, <1>x, CallerGoes DEF WkInv
    <2>1. WkTypeOK'
      BY <1>3, <1>t, <1>x, <2>a DEF WkInv, WkTypeOK, ResetLeftoverACL
    <2>2. ParentFits'
      BY <1>3, <1>t, <1>x, <2>a DEF WkInv, ParentFits, ResetLeftoverACL
    <2>3. OrphanKnown'
      BY <1>3, <1>t, <1>x, <2>a DEF WkInv, OrphanKnown, ResetLeftoverACL
    <2>4. AclDue'
      BY <1>3, <1>t, <1>x, <2>a DEF WkInv, AclDue, ResetLeftoverACL
    <2>5. ClaimStands'
      BY <1>3, <1>t, <1>x, <2>a DEF WkInv, ClaimStands, ResetLeftoverACL
    <2>6. StaleSeen'
      BY <1>3, <1>t, <1>x, <2>a DEF WkInv, StaleSeen, StaleAcl, ResetLeftoverACL
    <2>7. ResetDue'
      BY <1>3, <1>t, <1>x, <2>a DEF WkInv, ResetDue, StaleAcl, ResetLeftoverACL
    <2>8. QED BY <2>1, <2>2, <2>3, <2>4, <2>5, <2>6, <2>7 DEF WkInv
  <1>4. QED BY <1>1, <1>2, <1>3 DEF ResetLeftoverACL, x

\* Looking at the access list of a live row keeps it.
LEMMA EnsureFolderACLKeeps ==
    ASSUME WkInv, NEW c \in Callers, EnsureFolderACL(c)
    PROVE  WkInv'
  <1>a. /\ caller' \in [Callers -> CallerRows] /\ \A b \in Callers \ {c} : caller'[b] = caller[b]
        /\ caller[c].pc = "ensure" /\ caller'[c].pc = IF wkAcl.there THEN "idle" ELSE "create"
    BY CallerMoves, CallerLeaves DEF WkInv, EnsureFolderACL, Missing, CallerSteps
  <1>1. WkTypeOK'
    BY <1>a DEF WkInv, WkTypeOK, EnsureFolderACL, Missing
  <1>2. ParentFits'
    BY <1>a DEF WkInv, ParentFits, EnsureFolderACL, Missing
  <1>3. OrphanKnown'
    BY <1>a DEF WkInv, OrphanKnown, EnsureFolderACL, Missing, WkTypeOK
  <1>4. AclDue'
    BY <1>a DEF WkInv, AclDue, EnsureFolderACL, Missing, WkTypeOK
  <1>5. ClaimStands'
    BY <1>a DEF WkInv, ClaimStands, EnsureFolderACL, Missing
  <1>6. StaleSeen'
    BY <1>a DEF WkInv, StaleSeen, StaleAcl, EnsureFolderACL, Missing
  <1>7. ResetDue'
    BY <1>a DEF WkInv, ResetDue, StaleAcl, EnsureFolderACL, Missing, WkTypeOK
  <1>8. QED BY <1>1, <1>2, <1>3, <1>4, <1>5, <1>6, <1>7 DEF WkInv

\* Creating it keeps it.
LEMMA CreateACLKeeps ==
    ASSUME WkInv, NEW c \in Callers, CreateACL(c)
    PROVE  WkInv'
  <1>a. /\ caller' \in [Callers -> CallerRows] /\ \A b \in Callers \ {c} : caller'[b] = caller[b]
        /\ caller[c].pc = "create" /\ caller'[c].pc = "idle"
    BY CallerLeaves DEF WkInv, CreateACL
  <1>1. WkTypeOK'
    BY <1>a DEF WkInv, WkTypeOK, CreateACL, FreshAcl, AclRows, FolderGrants
  <1>2. ParentFits'
    BY <1>a DEF WkInv, ParentFits, CreateACL, FreshAcl, AclRows, FolderGrants
  <1>3. OrphanKnown'
    BY <1>a DEF WkInv, OrphanKnown, CreateACL, FreshAcl, AclRows, FolderGrants
  <1>4. AclDue'
    BY <1>a DEF WkInv, AclDue, CreateACL, FreshAcl, AclRows, FolderGrants
  <1>5. ClaimStands'
    BY <1>a DEF WkInv, ClaimStands, CreateACL, FreshAcl, AclRows, FolderGrants
  <1>6. StaleSeen'
    BY <1>a DEF WkInv, StaleSeen, StaleAcl, CreateACL, FreshAcl, AclRows, FolderGrants
  <1>7. ResetDue'
    BY <1>a DEF WkInv, ResetDue, StaleAcl, CreateACL, FreshAcl, AclRows, FolderGrants
  <1>8. QED BY <1>1, <1>2, <1>3, <1>4, <1>5, <1>6, <1>7 DEF WkInv

\* A caller that stops keeps it: what it leaves half done is known.
LEMMA CallerStopsKeeps ==
    ASSUME WkInv, NEW c \in Callers, CallerStops(c)
    PROVE  WkInv'
  <1>a. /\ caller' \in [Callers -> CallerRows] /\ \A b \in Callers \ {c} : caller'[b] = caller[b]
        /\ caller'[c].pc = "idle"
    BY CallerLeaves DEF WkInv, CallerStops
  <1>g. /\ wkGhost' \in [orphaned : BOOLEAN, unreset : BOOLEAN] /\ wkGhost'.orphaned = wkGhost.orphaned
        /\ wkGhost'.unreset = (wkGhost.unreset \/ caller[c].pc \in {"reset", "resetting"})
    BY DEF WkInv, WkTypeOK, CallerStops
  <1>1. WkTypeOK'
    BY <1>a, <1>g DEF WkInv, WkTypeOK, CallerStops
  <1>2. ParentFits'
    BY <1>a, <1>g DEF WkInv, ParentFits, CallerStops
  <1>3. OrphanKnown'
    BY <1>a, <1>g DEF WkInv, OrphanKnown, CallerStops
  <1>4. AclDue'
    BY <1>a, <1>g DEF WkInv, AclDue, CallerStops, WkTypeOK
  <1>5. ClaimStands'
    BY <1>a, <1>g DEF WkInv, ClaimStands, CallerStops
  <1>6. StaleSeen'
    BY <1>a, <1>g DEF WkInv, StaleSeen, StaleAcl, CallerStops
  <1>7. ResetDue'
    BY <1>a, <1>g DEF WkInv, ResetDue, StaleAcl, CallerStops
  <1>8. QED BY <1>1, <1>2, <1>3, <1>4, <1>5, <1>6, <1>7 DEF WkInv

\* Sharing the folder keeps it: a share is not stale.
LEMMA ShareFolderKeeps ==
    ASSUME WkInv, ShareFolder
    PROVE  WkInv'
  <1> DEFINE more == wkAcl.grants \cup {"share"}
             next == wkAcl.rev + 1
  <1>n. more \in SUBSET FolderGrants /\ next \in Nat /\ shares + 1 \in Nat /\ wkAcl \in AclRows
    BY DEF WkInv, WkTypeOK, AclRows, FolderGrants
  <1>w. wkAcl' = [wkAcl EXCEPT !.grants = more, !.rev = next]
    BY DEF ShareFolder
  <1>s. "stale" \in more => "stale" \in wkAcl.grants
    OBVIOUS
  <1> HIDE DEF more, next
  <1>a. wkAcl' \in AclRows /\ wkAcl'.there = wkAcl.there /\ wkAcl'.parent = wkAcl.parent /\ wkAcl'.grants = more
    BY <1>n, <1>w DEF AclRows
  <1>b. "stale" \in wkAcl.grants => "stale" \in more
    BY DEF more
  <1>1. WkTypeOK'
    BY <1>n, <1>a, <1>s, <1>b DEF WkInv, WkTypeOK, ShareFolder
  <1>2. ParentFits'
    BY <1>n, <1>a, <1>s, <1>b DEF WkInv, ParentFits, ShareFolder
  <1>3. OrphanKnown'
    BY <1>n, <1>a, <1>s, <1>b DEF WkInv, OrphanKnown, ShareFolder
  <1>4. AclDue'
    BY <1>n, <1>a, <1>s, <1>b DEF WkInv, AclDue, ShareFolder
  <1>5. ClaimStands'
    BY <1>n, <1>a, <1>s, <1>b DEF WkInv, ClaimStands, ShareFolder
  <1>6. StaleSeen'
    BY <1>n, <1>a, <1>s, <1>b DEF WkInv, StaleSeen, StaleAcl, ShareFolder
  <1>7. ResetDue'
    BY <1>n, <1>a, <1>s, <1>b DEF WkInv, ResetDue, StaleAcl, ShareFolder
  <1>8. QED BY <1>1, <1>2, <1>3, <1>4, <1>5, <1>6, <1>7 DEF WkInv

\* Trashing the folder keeps it.
LEMMA TrashFolderKeeps ==
    ASSUME WkInv, TrashFolder
    PROVE  WkInv'
  <1>1. WkTypeOK'
    BY DEF WkInv, WkTypeOK, TrashFolder
  <1>2. ParentFits'
    BY DEF WkInv, ParentFits, TrashFolder
  <1>3. OrphanKnown'
    BY DEF WkInv, OrphanKnown, TrashFolder
  <1>4. AclDue'
    BY DEF WkInv, AclDue, TrashFolder
  <1>5. ClaimStands'
    BY DEF WkInv, ClaimStands, TrashFolder
  <1>6. StaleSeen'
    BY DEF WkInv, StaleSeen, StaleAcl, TrashFolder
  <1>7. ResetDue'
    BY DEF WkInv, ResetDue, StaleAcl, TrashFolder
  <1>8. QED BY <1>1, <1>2, <1>3, <1>4, <1>5, <1>6, <1>7 DEF WkInv

\* Every step of the well-known folder keeps it.
LEMMA WkStepKeeps ==
    ASSUME WkInv, [WkNext]_wkvars
    PROVE  WkInv'
  <1>1. CASE UNCHANGED wkvars
    BY <1>1 DEF wkvars, WkInv, WkTypeOK, ParentFits, OrphanKnown, AclDue, ClaimStands, StaleSeen, StaleAcl, ResetDue
  <1>2. CASE WkNext
    BY <1>2, FindExistingKeeps, SnapshotLeftoverKeeps, ClaimACLKeeps, InsertRowKeeps, ReleaseACLKeeps,
       RereadWinnerKeeps,
       ResetReadsKeeps, ResetLeftoverACLKeeps, EnsureFolderACLKeeps, CreateACLKeeps, CallerStopsKeeps, ShareFolderKeeps,
           TrashFolderKeeps
    DEF WkNext
  <1>3. QED BY <1>1, <1>2

\* It holds at the start: grants there are stale, and no row is.
LEMMA WkStarts == WkInit => WkInv
  <1> SUFFICES ASSUME WkInit PROVE WkInv
    OBVIOUS
  <1>1. \A c \in Callers : caller[c].pc = "idle"
    BY NoCallerType DEF WkInit
  <1>n. {} \in SUBSET FolderGrants /\ {"stale"} \in SUBSET FolderGrants
    BY DEF FolderGrants
  <1>o. NoAcl \in AclRows /\ [there |-> TRUE, parent |-> "none", grants |-> {"stale"}, rev |-> 0] \in AclRows
    BY <1>n DEF NoAcl, AclRows
  <1>t. wkAcl \in AclRows
    BY <1>o DEF WkInit
  <1>2. WkTypeOK
    BY <1>t, NoCallerType DEF WkInit, WkTypeOK
  <1>3. QED BY <1>1, <1>2 DEF WkInit, WkInv, ParentFits, OrphanKnown, AclDue, ClaimStands, StaleSeen, StaleAcl,
     ResetDue, NoAcl

\* It says that the folder is reachable, and by nobody else (FolderReachable).
LEMMA WkImplies == WkInv => FolderReachable
  BY DEF WkInv, FolderReachable, ParentFits, OrphanKnown, AclDue, ResetDue, StaleAcl

\* A refresh at rest, and one that starts, have their type.
LEMMA NoRefreshType ==
    /\ NoRefresh \in RefreshRows /\ NoRefresh.pc = "idle" /\ NoRefresh.dirs = {} /\ NoRefresh.dir = {}
    /\ NoRefresh.again = {}
    /\ NoRefresh.attempt = 1 /\ \A d \in Dirs : NoRefresh.at[d] = 0
  <1>1. [d \in Dirs |-> [total |-> 0, unread |-> 0]] \in [Dirs -> FolderCounts] /\ [d \in Dirs |-> 0] \in [Dirs -> Nat]
    BY DEF FolderCounts
  <1>2. [total |-> 0, unread |-> 0, rev |-> 0] \in FolderRows
    BY DEF FolderRows
  <1>3. QED BY <1>1, <1>2 DEF NoRefresh, RefreshRows

\* What is counted has its type: the messages are a finite set.
LEMMA CountsType == FcTypeOK => CountMessagesByFolder \in [Dirs -> FolderCounts]
  <1>1. \A S \in SUBSET Msgs : Cardinality(S) \in Nat
    BY FoldersAssumption, FS_Subset, FS_CardinalityType
  <1>2. QED BY <1>1 DEF CountMessagesByFolder, FolderCounts

\* A step of a refresh leaves the others alone.
LEMMA RefreshGoes ==
    ASSUME FcTypeOK, NEW w \in Refreshers, NEW x \in RefreshRows, refresh' = [refresh EXCEPT ![w] = x]
    PROVE  /\ refresh' \in [Refreshers -> RefreshRows] /\ refresh'[w] = x
           /\ \A v \in Refreshers : v # w => refresh'[v] = refresh[v]
  BY DEF FcTypeOK

\* What another refresh owes, has yet to store or is behind with does not change by it.
LEMMA OthersStand ==
    ASSUME NEW v \in Refreshers, NEW d \in Dirs, refresh'[v] = refresh[v]
    PROVE  /\ YetToStore(v, d)' = YetToStore(v, d)
           /\ CountMessagesByFolder'[d] = CountMessagesByFolder[d] => Owes(v, d)' = Owes(v, d)
           /\ counted'[d] = counted[d] => Behind(v, d)' = Behind(v, d)
  BY DEF YetToStore, Storing, Owes, Behind

\* While the messages stay, so do the counts.
LEMMA CountStays ==
    ASSUME FcTypeOK, NEW x \in Msgs, NEW to, msgAt' = [msgAt EXCEPT ![x] = to], NEW d \in Dirs, d \notin AffectedBy(x, to)
    PROVE  CountMessagesByFolder'[d] = CountMessagesByFolder[d]
  <1>1. \A y \in Msgs : msgAt'[y] = IF y = x THEN to ELSE msgAt[y]
    BY DEF FcTypeOK
  <1>2. d \notin to.dir /\ d \notin msgAt[x].dir
    BY DEF AffectedBy
  <1>3. to.dir # {d} /\ msgAt[x].dir # {d}
    BY <1>2
  <1>4. {y \in Msgs : msgAt'[y].dir = {d}} = {y \in Msgs : msgAt[y].dir = {d}}
    BY <1>1, <1>3
  <1>5. {y \in {z \in Msgs : msgAt'[z].dir = {d}} : ~msgAt'[y].read} = {y \in {z \in Msgs : msgAt[z].dir = {d}} :
            ~msgAt[y].read}
    BY <1>1, <1>3
  <1>6. QED BY <1>4, <1>5 DEF CountMessagesByFolder

\* A change of a message keeps the invariant: its own refresh owes every folder the change touches, and what
\* another one counted of the rest still holds.
LEMMA ChangeMessageKeeps ==
    ASSUME FcInv, NEW w \in Refreshers, NEW m \in Msgs, NEW to \in [dir : {{}} \cup {{d} : d \in Dirs}, read : BOOLEAN],
           ChangeMessage(w, m, to)
    PROVE  FcInv'
  <1> DEFINE x == [NoRefresh EXCEPT !.pc = "count", !.dirs = AffectedBy(m, to)]
  <1>t. to \in [dir : SUBSET Dirs, read : BOOLEAN] /\ AffectedBy(m, to) \subseteq Dirs
    BY DEF AffectedBy, FcInv, FcTypeOK
  <1>x. x \in RefreshRows /\ x.pc = "count" /\ x.dirs = AffectedBy(m, to) /\ x.dir = {} /\ x.again = {} /\ x.attempt = 1
        /\ x.at = NoRefresh.at
    BY <1>t, NoRefreshType DEF RefreshRows
  <1>s. refresh' = [refresh EXCEPT ![w] = x]
    BY DEF ChangeMessage
  <1> HIDE DEF x
  <1>r. /\ refresh' \in [Refreshers -> RefreshRows] /\ refresh'[w] = x
        /\ \A v \in Refreshers : v # w => refresh'[v] = refresh[v]
    BY <1>x, <1>s, RefreshGoes DEF FcInv
  <1>c. /\ refresh[w].pc = "idle" /\ msgAt' = [msgAt EXCEPT ![m] = to] /\ counted' = counted /\ fcGhost' = fcGhost
        /\ changes + 1 \in Nat /\ changes' = changes + 1
    BY DEF ChangeMessage, FcInv, FcTypeOK
  <1>z. \A d \in Dirs : NoRefresh.at[d] <= counted[d].rev
    BY NoRefreshType DEF FcInv, FcTypeOK, FolderRows
  <1>1. FcTypeOK'
    BY FoldersAssumption, NoRefreshType, <1>t, <1>x, <1>r, <1>c, <1>z DEF FcInv, FcTypeOK
  <1>2. AtFolder'
    BY FoldersAssumption, NoRefreshType, <1>t, <1>x, <1>r, <1>c, <1>z DEF FcInv, AtFolder
  <1>3. AttemptFits'
    BY FoldersAssumption, NoRefreshType, <1>t, <1>x, <1>r, <1>c, <1>z DEF FcInv, AttemptFits, Storing
  <1>4. VersionsFit'
    BY FoldersAssumption, NoRefreshType, <1>t, <1>x, <1>r, <1>c, <1>z DEF FcInv, VersionsFit
  <1>d. ASSUME NEW d \in Dirs \ fcGhost' PROVE FolderDue(d)'
    <2>1. CASE d \in AffectedBy(m, to)
      <3>1. Owes(w, d)'
        BY <1>x, <1>r, <2>1 DEF Owes
      <3>2. QED BY <3>1 DEF FolderDue
    <2>2. CASE d \notin AffectedBy(m, to)
      <3>1. CountMessagesByFolder'[d] = CountMessagesByFolder[d]
        BY <1>c, <2>2, CountStays DEF FcInv
      <3>2. ~Owes(w, d) /\ ~YetToStore(w, d)'
        BY <1>x, <1>r, <1>c DEF Owes, YetToStore, Storing
      <3>3. FolderDue(d)
        BY <1>c DEF FcInv, CountDue
      <3>4. \A v \in Refreshers : v # w => (Owes(v, d) => Owes(v, d)') /\ (YetToStore(v, d)' => YetToStore(v,
                d)) /\ (Behind(v, d) => Behind(v, d)')
        BY <1>r, <1>c, <3>1, OthersStand
      <3>5. QED BY <1>r, <1>c, <3>1, <3>2, <3>3, <3>4 DEF FolderDue
    <2>3. QED BY <2>1, <2>2
  <1>5. CountDue'
    BY <1>d DEF CountDue
  <1>6. QED BY <1>1, <1>2, <1>3, <1>4, <1>5 DEF FcInv

\* countMessagesByFolder() keeps it: what it reads is right.
LEMMA CountPendingKeeps ==
    ASSUME FcInv, NEW w \in Refreshers, CountPending(w)
    PROVE  FcInv'
  <1> DEFINE revs == [d \in Dirs |-> counted[d].rev]
             x == [refresh[w] EXCEPT !.pc = "read", !.got = CountMessagesByFolder, !.at = revs]
  <1>t. refresh[w] \in RefreshRows /\ revs \in [Dirs -> Nat] /\ CountMessagesByFolder \in [Dirs -> FolderCounts]
    BY CountsType DEF FcInv, FcTypeOK, FolderRows
  <1>a. \A d \in Dirs : revs[d] = counted[d].rev /\ revs[d] \in Nat
    BY <1>t
  <1>s. refresh' = [refresh EXCEPT ![w] = x]
    BY DEF CountPending
  <1> HIDE DEF revs
  <1>x. /\ x \in RefreshRows /\ x.pc = "read" /\ x.got = CountMessagesByFolder /\ x.at = revs
        /\ x.dirs = refresh[w].dirs /\ x.again = refresh[w].again /\ x.attempt = refresh[w].attempt
    BY <1>t DEF RefreshRows
  <1> HIDE DEF x
  <1>r. /\ refresh' \in [Refreshers -> RefreshRows] /\ refresh'[w] = x
        /\ \A v \in Refreshers : v # w => refresh'[v] = refresh[v]
    BY <1>x, <1>s, RefreshGoes DEF FcInv
  <1>c. /\ refresh[w].pc = "count" /\ UNCHANGED <<msgAt, counted, changes, fcGhost>>
        /\ CountMessagesByFolder' = CountMessagesByFolder
    BY DEF CountPending, CountMessagesByFolder
  <1>1. FcTypeOK'
    BY <1>t, <1>a, <1>x, <1>r, <1>c DEF FcInv, FcTypeOK
  <1>2. AtFolder'
    BY <1>t, <1>a, <1>x, <1>r, <1>c DEF FcInv, AtFolder
  <1>3. AttemptFits'
    BY <1>t, <1>a, <1>x, <1>r, <1>c DEF FcInv, AttemptFits, Storing
  <1>4. VersionsFit'
    BY <1>t, <1>a, <1>x, <1>r, <1>c DEF FcInv, VersionsFit
  <1>d. ASSUME NEW d \in Dirs \ fcGhost' PROVE FolderDue(d)'
    <2>1. FolderDue(d)
      BY <1>c DEF FcInv, CountDue
    <2>2. \A v \in Refreshers : v # w => (Owes(v, d) => Owes(v, d)') /\ (YetToStore(v, d)' => YetToStore(v,
              d)) /\ (Behind(v, d) => Behind(v, d)')
      BY <1>r, <1>c, OthersStand
    <2>3. refresh[w].attempt <= RefreshAttempts
      BY <1>c, <1>t, FoldersAssumption DEF FcInv, AttemptFits, RefreshRows
    <2>4. Owes(w, d) => Owes(w, d)'
      BY <1>c, <1>x, <1>r, <2>3 DEF Owes, YetToStore, Storing
    <2>5. YetToStore(w, d)' => refresh'[w].got[d] = CountMessagesByFolder'[d]
      BY <1>c, <1>x, <1>r
    <2>6. QED BY <1>c, <1>r, <2>1, <2>2, <2>4, <2>5 DEF FolderDue
  <1>5. CountDue'
    BY <1>d DEF CountDue
  <1>6. QED BY <1>1, <1>2, <1>3, <1>4, <1>5 DEF FcInv

\* The read of a folder row keeps it: a save after it is behind only if the row changes.
LEMMA ReadFolderKeeps ==
    ASSUME FcInv, NEW w \in Refreshers, NEW e \in Dirs, ReadFolder(w, e)
    PROVE  FcInv'
  <1> DEFINE x == [refresh[w] EXCEPT !.pc = "store", !.dir = {e}, !.seen = counted[e]]
  <1>t. refresh[w] \in RefreshRows /\ counted[e] \in FolderRows /\ e \in refresh[w].dirs /\ refresh[w].pc = "read"
    BY DEF FcInv, FcTypeOK, ReadFolder
  <1>x. /\ x \in RefreshRows /\ x.pc = "store" /\ x.dir = {e} /\ x.seen = counted[e]
        /\ x.got = refresh[w].got /\ x.at = refresh[w].at
        /\ x.dirs = refresh[w].dirs /\ x.again = refresh[w].again /\ x.attempt = refresh[w].attempt
    BY <1>t DEF RefreshRows
  <1>s. refresh' = [refresh EXCEPT ![w] = x]
    BY DEF ReadFolder
  <1> HIDE DEF x
  <1>r. /\ refresh' \in [Refreshers -> RefreshRows] /\ refresh'[w] = x
        /\ \A v \in Refreshers : v # w => refresh'[v] = refresh[v]
    BY <1>x, <1>s, RefreshGoes DEF FcInv
  <1>c. /\ UNCHANGED <<msgAt, counted, changes>> /\ CountMessagesByFolder' = CountMessagesByFolder
        /\ fcGhost' = IF counted[e].rev # refresh[w].at[e] THEN fcGhost \cup {e} ELSE fcGhost
    BY DEF ReadFolder, CountMessagesByFolder
  <1>e. counted[e].rev \in Nat /\ \A d \in Dirs : {e} = {d} => d = e
    BY <1>t DEF FolderRows
  <1>1. FcTypeOK'
    BY <1>t, <1>x, <1>r, <1>c, <1>e DEF FcInv, FcTypeOK
  <1>2. AtFolder'
    BY <1>t, <1>x, <1>r, <1>c, <1>e DEF FcInv, AtFolder
  <1>3. AttemptFits'
    BY <1>t, <1>x, <1>r, <1>c, <1>e DEF FcInv, AttemptFits, Storing
  <1>4. VersionsFit'
    <2>1. ASSUME NEW v \in Refreshers, NEW d \in Dirs PROVE refresh'[v].at[d] <= counted'[d].rev
      BY <1>x, <1>r, <1>c DEF FcInv, VersionsFit
    <2>2. ASSUME NEW v \in Refreshers, NEW d \in Dirs, refresh'[v].pc \in {"store", "heal"}, refresh'[v].dir = {d}
          PROVE  refresh'[v].seen.rev <= counted'[d].rev /\ (refresh'[v].seen.rev = counted'[d].rev
              => refresh'[v].seen = counted'[d])
      <3>1. CASE v = w
        BY <3>1, <2>2, <1>x, <1>r, <1>c, <1>e
      <3>2. CASE v # w
        BY <3>2, <2>2, <1>r, <1>c DEF FcInv, VersionsFit
      <3>3. QED BY <3>1, <3>2
    <2>3. QED BY <2>1, <2>2 DEF VersionsFit
  <1>d. ASSUME NEW d \in Dirs \ fcGhost' PROVE FolderDue(d)'
    <2>1. FolderDue(d)
      BY <1>c DEF FcInv, CountDue
    <2>2. \A v \in Refreshers : v # w => (Owes(v, d) => Owes(v, d)') /\ (YetToStore(v, d)' => YetToStore(v,
              d)) /\ (Behind(v, d) => Behind(v, d)')
      BY <1>r, <1>c, OthersStand
    <2>3. Owes(w, d) => Owes(w, d)'
      BY <1>c, <1>t, <1>x, <1>r DEF Owes, YetToStore, Storing
    <2>4. YetToStore(w, d)' => YetToStore(w, d)
      BY <1>t, <1>x, <1>r DEF YetToStore, Storing
    <2>5. Behind(w, d) => d # e /\ Behind(w, d)'
      BY <1>c, <1>t, <1>x, <1>r, <1>e DEF Behind
    <2>6. refresh'[w].got[d] = refresh[w].got[d]
      BY <1>x, <1>r
    <2>7. QED BY <1>c, <1>r, <2>1, <2>2, <2>3, <2>4, <2>5, <2>6 DEF FolderDue
  <1>5. CountDue'
    BY <1>d DEF CountDue
  <1>6. QED BY <1>1, <1>2, <1>3, <1>4, <1>5 DEF FcInv

\* The save of the counts keeps it: a row that already agrees is not written, and a conflict sends the folder
\* into another attempt.
LEMMA ApplyDerivedCountsKeeps ==
    ASSUME FcInv, NEW w \in Refreshers, NEW e \in Dirs, ApplyDerivedCounts(w, e)
    PROVE  FcInv'
  <1> DEFINE x == [NoRefresh EXCEPT !.pc = "heal", !.dir = {e}, !.seen = counted[e]]
  <1>t. counted[e] \in FolderRows /\ refresh[w].pc = "idle"
    BY DEF FcInv, FcTypeOK, ApplyDerivedCounts
  <1>x. x \in RefreshRows /\ x.pc = "heal" /\ x.dir = {e} /\ x.seen = counted[e] /\ x.dirs = {} /\ x.again = {} /\ x.attempt = 1
        /\ x.at = NoRefresh.at
    BY <1>t, NoRefreshType DEF RefreshRows
  <1>s. refresh' = [refresh EXCEPT ![w] = x]
    BY DEF ApplyDerivedCounts
  <1> HIDE DEF x
  <1>r. /\ refresh' \in [Refreshers -> RefreshRows] /\ refresh'[w] = x
        /\ \A v \in Refreshers : v # w => refresh'[v] = refresh[v]
    BY <1>x, <1>s, RefreshGoes DEF FcInv
  <1>c. /\ UNCHANGED <<msgAt, counted, fcGhost>> /\ CountMessagesByFolder' = CountMessagesByFolder
        /\ changes + 1 \in Nat /\ changes' = changes + 1
    BY DEF ApplyDerivedCounts, CountMessagesByFolder, FcInv, FcTypeOK
  <1>z. \A d \in Dirs : NoRefresh.at[d] <= counted[d].rev
    BY NoRefreshType DEF FcInv, FcTypeOK, FolderRows
  <1>e. counted[e].rev \in Nat /\ \A d \in Dirs : {e} = {d} => d = e
    BY <1>t DEF FolderRows
  <1>1. FcTypeOK'
    BY FoldersAssumption, NoRefreshType, <1>t, <1>x, <1>r, <1>c, <1>e, <1>z DEF FcInv, FcTypeOK
  <1>2. AtFolder'
    BY FoldersAssumption, NoRefreshType, <1>t, <1>x, <1>r, <1>c, <1>e, <1>z DEF FcInv, AtFolder
  <1>3. AttemptFits'
    BY FoldersAssumption, NoRefreshType, <1>t, <1>x, <1>r, <1>c, <1>e, <1>z DEF FcInv, AttemptFits, Storing
  <1>4. VersionsFit'
    <2>1. ASSUME NEW v \in Refreshers, NEW d \in Dirs PROVE refresh'[v].at[d] <= counted'[d].rev
      BY <1>x, <1>r, <1>c, <1>z DEF FcInv, VersionsFit
    <2>2. ASSUME NEW v \in Refreshers, NEW d \in Dirs, refresh'[v].pc \in {"store", "heal"}, refresh'[v].dir = {d}
          PROVE  refresh'[v].seen.rev <= counted'[d].rev /\ (refresh'[v].seen.rev = counted'[d].rev
              => refresh'[v].seen = counted'[d])
      <3>1. CASE v = w
        BY <3>1, <2>2, <1>x, <1>r, <1>c, <1>e
      <3>2. CASE v # w
        BY <3>2, <2>2, <1>r, <1>c DEF FcInv, VersionsFit
      <3>3. QED BY <3>1, <3>2
    <2>3. QED BY <2>1, <2>2 DEF VersionsFit
  <1>d. ASSUME NEW d \in Dirs \ fcGhost' PROVE FolderDue(d)'
    <2>1. FolderDue(d)
      BY <1>c DEF FcInv, CountDue
    <2>2. \A v \in Refreshers : v # w => (Owes(v, d) => Owes(v, d)') /\ (YetToStore(v, d)' => YetToStore(v,
              d)) /\ (Behind(v, d) => Behind(v, d)')
      BY <1>r, <1>c, OthersStand
    <2>3. ~Owes(w, d) /\ ~YetToStore(w, d)'
      BY <1>t, <1>x, <1>r DEF Owes, YetToStore, Storing
    <2>4. QED BY <1>c, <1>r, <2>1, <2>2, <2>3 DEF FolderDue
  <1>5. CountDue'
    BY <1>d DEF CountDue
  <1>6. QED BY <1>1, <1>2, <1>3, <1>4, <1>5 DEF FcInv

\* A read of a folder that heals its counts keeps it: it is refused for a row that changed.
LEMMA HealCountsKeeps ==
    ASSUME FcInv, NEW w \in Refreshers, HealCounts(w)
    PROVE  FcInv'
  <1> DEFINE last == RefreshAttempts + 1
             x == [refresh[w] EXCEPT !.pc = "store", !.got = CountMessagesByFolder, !.dirs = refresh[w].dir,
                 !.attempt = last]
  <1>t. refresh[w] \in RefreshRows /\ refresh[w].pc = "heal" /\ CountMessagesByFolder \in [Dirs -> FolderCounts]
    BY CountsType DEF FcInv, FcTypeOK, HealCounts
  <1>l. last \in Nat /\ last > RefreshAttempts
    BY FoldersAssumption
  <1>s. refresh' = [refresh EXCEPT ![w] = x]
    BY DEF HealCounts
  <1> HIDE DEF last
  <1>x. /\ x \in RefreshRows /\ x.pc = "store" /\ x.got = CountMessagesByFolder /\ x.at = refresh[w].at
        /\ x.dirs = refresh[w].dir /\ x.dir = refresh[w].dir /\ x.seen = refresh[w].seen /\ x.again = refresh[w].again
        /\ x.attempt = last
    BY <1>t, <1>l DEF RefreshRows
  <1> HIDE DEF x
  <1>r. /\ refresh' \in [Refreshers -> RefreshRows] /\ refresh'[w] = x
        /\ \A v \in Refreshers : v # w => refresh'[v] = refresh[v]
    BY <1>x, <1>s, RefreshGoes DEF FcInv
  <1>c. UNCHANGED <<msgAt, counted, changes, fcGhost>> /\ CountMessagesByFolder' = CountMessagesByFolder
    BY DEF HealCounts, CountMessagesByFolder
  <1>g. refresh[w].again = {} /\ \A d \in Dirs : refresh[w].at[d] <= counted[d].rev
    BY <1>t DEF FcInv, AttemptFits, VersionsFit, Storing
  <1>1. FcTypeOK'
    BY FoldersAssumption, <1>l, <1>t, <1>x, <1>r, <1>c, <1>g DEF FcInv, FcTypeOK
  <1>2. AtFolder'
    BY FoldersAssumption, <1>l, <1>t, <1>x, <1>r, <1>c, <1>g DEF FcInv, AtFolder
  <1>3. AttemptFits'
    BY FoldersAssumption, <1>l, <1>t, <1>x, <1>r, <1>c, <1>g DEF FcInv, AttemptFits, Storing
  <1>4. VersionsFit'
    BY FoldersAssumption, <1>l, <1>t, <1>x, <1>r, <1>c, <1>g DEF FcInv, VersionsFit
  <1>d. ASSUME NEW d \in Dirs \ fcGhost' PROVE FolderDue(d)'
    <2>1. FolderDue(d)
      BY <1>c DEF FcInv, CountDue
    <2>2. \A v \in Refreshers : v # w => (Owes(v, d) => Owes(v, d)') /\ (YetToStore(v, d)' => YetToStore(v,
              d)) /\ (Behind(v, d) => Behind(v, d)')
      BY <1>r, <1>c, OthersStand
    <2>3. ~Owes(w, d) /\ refresh'[w].got[d] = CountMessagesByFolder'[d]
      BY <1>c, <1>t, <1>x, <1>r DEF Owes, YetToStore, Storing
    <2>4. QED BY <1>c, <1>r, <2>1, <2>2, <2>3 DEF FolderDue
  <1>5. CountDue'
    BY <1>d DEF CountDue
  <1>6. QED BY <1>1, <1>2, <1>3, <1>4, <1>5 DEF FcInv

\* The end of a folder, or of an attempt, keeps it: a folder given up is known (fcGhost).
LEMMA StoreFolderCountsKeeps ==
    ASSUME FcInv, NEW w \in Refreshers, StoreFolderCounts(w)
    PROVE  FcInv'
  <1>t. refresh[w] \in RefreshRows /\ refresh[w].pc = "store"
    BY DEF FcInv, FcTypeOK, StoreFolderCounts
  <1>p. PICK e \in refresh[w].dirs : refresh[w].dir = {e}
    BY <1>t DEF FcInv, AtFolder
  <1>e. e \in Dirs /\ (\A d \in Dirs : refresh[w].dir = {d} <=> d = e) /\ (CHOOSE d \in Dirs : refresh[w].dir = {d}) = e
    BY <1>t, <1>p DEF RefreshRows
  <1> DEFINE got == refresh[w].got[e]
             left == refresh[w].dirs \ {e}
             same == Same(refresh[w].seen, got)
             unmoved == counted[e].rev = refresh[w].seen.rev
             isStored == same \/ unmoved
             retry == ~isStored /\ refresh[w].attempt < RefreshAttempts
             again == refresh[w].again \cup (IF retry THEN {e} ELSE {})
             next == counted[e].rev + 1
             tries == refresh[w].attempt + 1
             row == [total |-> got.total, unread |-> got.unread, rev |-> next]
             x == IF left # {} THEN [refresh[w] EXCEPT !.pc = "read", !.dirs = left, !.dir = {}, !.again = again]
                  ELSE IF again # {} THEN [NoRefresh EXCEPT !.pc = "count", !.dirs = again, !.attempt = tries]
                  ELSE NoRefresh
  <1>s. /\ refresh' = [refresh EXCEPT ![w] = x]
        /\ counted' = IF isStored /\ ~same THEN [counted EXCEPT ![e] = row] ELSE counted
        /\ fcGhost' = IF (~isStored /\ refresh[w].attempt = RefreshAttempts) \/ (same /\ OlderInFlight(w, e))
                      THEN fcGhost \cup {e} ELSE fcGhost
    BY <1>e DEF StoreFolderCounts, RowUnmoved
  <1>c. UNCHANGED <<msgAt, changes>> /\ CountMessagesByFolder' = CountMessagesByFolder
    BY DEF StoreFolderCounts, CountMessagesByFolder
  <1>g. got \in FolderCounts /\ counted[e] \in FolderRows /\ next \in Nat /\ next > counted[e].rev /\ tries \in Nat
    BY <1>t, <1>e DEF FcInv, FcTypeOK, RefreshRows, FolderRows
  <1>h. left \in SUBSET Dirs /\ again \in SUBSET Dirs /\ (again # {} => tries <= RefreshAttempts) /\ (retry => e \in again)
        /\ refresh[w].again \subseteq again /\ (refresh[w].attempt > RefreshAttempts => left = {})
    BY <1>t, <1>e, <1>p, FoldersAssumption DEF FcInv, AttemptFits, RefreshRows
  <1>i. again # {} => refresh[w].attempt < RefreshAttempts
    BY DEF FcInv, AttemptFits
  <1> HIDE DEF next, tries
  <1>w. row \in FolderRows /\ Same(row, got) /\ row.rev = next
    BY <1>g DEF FolderCounts, FolderRows, Same
  <1> HIDE DEF row, left, again
  <1>x. /\ x \in RefreshRows
        /\ left # {} => /\ x.pc = "read" /\ x.dirs = left /\ x.dir = {} /\ x.again = again
                        /\ x.got = refresh[w].got /\ x.at = refresh[w].at /\ x.attempt = refresh[w].attempt
        /\ left = {} /\ again # {}
            => x.pc = "count" /\ x.dirs = again /\ x.dir = {} /\ x.again = {} /\ x.at = NoRefresh.at /\ x.attempt = tries
        /\ left = {} /\ again = {} => x = NoRefresh
    BY <1>t, <1>g, <1>h, NoRefreshType DEF RefreshRows
  <1> HIDE DEF x
  <1>r. /\ refresh' \in [Refreshers -> RefreshRows] /\ refresh'[w] = x
        /\ \A v \in Refreshers : v # w => refresh'[v] = refresh[v]
    BY <1>x, <1>s, RefreshGoes DEF FcInv
  <1>k. /\ counted' \in [Dirs -> FolderRows] /\ (\A d \in Dirs \ {e} : counted'[d] = counted[d])
        /\ IF isStored /\ ~same THEN counted'[e] = row ELSE counted'[e] = counted[e]
    BY <1>s, <1>e, <1>w DEF FcInv, FcTypeOK
  <1>f. \A d \in Dirs :
           /\ counted[d].rev \in Nat /\ counted'[d].rev \in Nat /\ counted[d].rev <= counted'[d].rev
           /\ counted'[d].rev = counted[d].rev => counted'[d] = counted[d]
    BY <1>k, <1>g, <1>w DEF FcInv, FcTypeOK, FolderRows
  <1>z. \A d \in Dirs : NoRefresh.at[d] <= counted'[d].rev
    BY <1>f, NoRefreshType
  <1>1. FcTypeOK'
    BY <1>c, <1>r, <1>k, <1>s, <1>e DEF FcInv, FcTypeOK
  <1>2. AtFolder'
    BY <1>x, <1>r, NoRefreshType DEF FcInv, AtFolder
  <1>3. AttemptFits'
    BY <1>x, <1>r, <1>h, <1>i, <1>t, NoRefreshType, FoldersAssumption DEF FcInv, AttemptFits, Storing, RefreshRows
  <1>4. VersionsFit'
    <2>1. ASSUME NEW v \in Refreshers, NEW d \in Dirs
          PROVE  refresh'[v].at[d] <= counted'[d].rev
      <3>1. refresh[v].at[d] <= counted[d].rev /\ refresh[v].at[d] \in Nat
        BY DEF FcInv, VersionsFit, FcTypeOK, RefreshRows
      <3>2. refresh'[v].at = refresh[v].at \/ refresh'[v].at = NoRefresh.at
        BY <1>r, <1>x
      <3>3. QED BY <3>1, <3>2, <1>f, <1>z
    <2>2. ASSUME NEW v \in Refreshers, NEW d \in Dirs, refresh'[v].pc \in {"store", "heal"}, refresh'[v].dir = {d}
          PROVE  refresh'[v].seen.rev <= counted'[d].rev /\ (refresh'[v].seen.rev = counted'[d].rev
              => refresh'[v].seen = counted'[d])
      <3>1. v # w /\ refresh'[v] = refresh[v]
        BY <1>r, <1>x, <2>2, NoRefreshType
      <3>2. /\ refresh[v].seen.rev \in Nat /\ refresh[v].seen.rev <= counted[d].rev
            /\ refresh[v].seen.rev = counted[d].rev => refresh[v].seen = counted[d]
        BY <2>2, <3>1 DEF FcInv, VersionsFit, FcTypeOK, RefreshRows, FolderRows
      <3>3. QED BY <3>1, <3>2, <1>f
    <2>3. QED BY <2>1, <2>2 DEF VersionsFit
  <1>d. ASSUME NEW d \in Dirs \ fcGhost' PROVE FolderDue(d)'
    <2>1. FolderDue(d)
      BY <1>s DEF FcInv, CountDue
    <2>2. \A v \in Refreshers : v # w => (Owes(v, d) => Owes(v, d)') /\ (YetToStore(v, d)' => YetToStore(v, d))
      BY <1>r, <1>c, OthersStand
    <2>3. CASE d # e
      <3>1. \A v \in Refreshers : v # w => (Behind(v, d) => Behind(v, d)')
        BY <1>r, <1>k, <2>3, OthersStand
      <3>2. d \in refresh[w].dirs => d \in left
        BY <2>3 DEF left
      <3>3. Owes(w, d) => Owes(w, d)'
        BY <1>c, <1>t, <1>h, <1>x, <1>r, <3>2 DEF Owes, YetToStore, Storing
      <3>4. YetToStore(w, d)' => YetToStore(w, d) /\ refresh'[w].got[d] = refresh[w].got[d]
        BY <1>t, <1>x, <1>r, NoRefreshType DEF YetToStore, Storing, left
      <3>5. YetToStore(w, d)' /\ Behind(w, d) => Behind(w, d)'
        BY <1>t, <1>e, <1>x, <1>r, <1>k, <2>3, NoRefreshType DEF Behind, YetToStore, Storing
      <3>6. counted'[d] = counted[d]
        BY <1>k, <2>3
      <3>7. QED BY <1>c, <1>r, <2>1, <2>2, <3>1, <3>3, <3>4, <3>5, <3>6 DEF FolderDue
    <2>4. CASE d = e
      <3>1. ~YetToStore(w, d)'
        BY <2>4, <1>x, <1>r, NoRefreshType DEF YetToStore, Storing, left
      <3>2. d \in again => Owes(w, d)'
        BY <1>x, <1>r DEF Owes, Storing
      <3>3. refresh[w].seen.rev = counted[e].rev => refresh[w].seen = counted[e]
        BY <1>t, <1>e DEF FcInv, VersionsFit
      <3>4. \A v \in Refreshers :
                refresh[v].at[d] <= counted[d].rev /\ refresh[v].at[d] \in Nat /\ refresh[v].seen.rev \in Nat
        BY DEF FcInv, VersionsFit, FcTypeOK, RefreshRows, FolderRows
      <3>5. \A v \in Refreshers : refresh[v].pc = "store" /\ refresh[v].dir = {d} => refresh[v].seen.rev <= counted[d].rev
        BY DEF FcInv, VersionsFit
      <3>6. SUFFICES ASSUME \A v \in Refreshers \ {w} : ~Owes(v, d), d \notin again
                     PROVE  FolderDue(d)'
        BY <2>2, <3>2 DEF FolderDue
      <3>7. Owes(w, d) => got = CountMessagesByFolder[d] /\ refresh[w].attempt <= RefreshAttempts
        BY <1>t, <1>h, <2>4, <3>6 DEF Owes, YetToStore
      <3>8. CASE same
        <4>1. ~OlderInFlight(w, d) /\ counted'[d] = counted[d]
          BY <1>s, <1>k, <2>4, <3>8
        <4>2. refresh[w].seen = counted[d] /\ Same(counted[d], got)
          BY <4>1, <2>4, <3>3, <3>8 DEF OlderInFlight
        <4>3. \A v \in Refreshers : v # w /\ YetToStore(v, d) => refresh[v].got[d] = got
          BY <4>1, <2>4 DEF OlderInFlight, YetToStore, Storing
        <4>4. \A v \in Refreshers : v # w /\ Behind(v, d) => Behind(v, d)'
          BY <1>r, <4>1, OthersStand
        <4>5. CASE Owes(w, d)
          BY <4>5, <4>1, <4>2, <4>3, <3>1, <3>7, <2>2, <1>c, <1>r DEF FolderDue
        <4>6. CASE ~Owes(w, d)
          BY <4>6, <4>1, <4>4, <3>1, <3>6, <2>1, <2>2, <1>c, <1>r DEF FolderDue
        <4>7. QED BY <4>5, <4>6
      <3>9. CASE ~same /\ unmoved
        <4>1. counted'[d] = row /\ counted'[d].rev > counted[d].rev /\ Same(counted'[d], got)
          BY <1>g, <1>k, <1>w, <2>4, <3>9
        <4>2. \A v \in Refreshers : v # w /\ YetToStore(v, d) => Behind(v, d)'
          BY <4>1, <3>4, <3>5, <1>r, <1>f DEF Behind
        <4>3. Owes(w, d)
          <5>1. YetToStore(w, d) /\ ~Behind(w, d)
            BY <1>t, <1>p, <1>e, <2>4, <3>9, <1>f DEF YetToStore, Storing, Behind
          <5>2. ~Same(counted[d], got)
            BY <3>3, <3>9, <2>4
          <5>3. QED BY <5>1, <5>2, <2>1, <2>4, <3>6 DEF FolderDue
        <4>4. QED BY <4>1, <4>2, <4>3, <3>1, <3>7, <2>2, <1>c DEF FolderDue
      <3>10. CASE ~same /\ ~unmoved
        <4>1. ~retry /\ refresh[w].attempt # RefreshAttempts /\ counted'[d] = counted[d]
          BY <1>h, <1>s, <1>k, <2>4, <3>6, <3>10
        <4>2. ~Owes(w, d)
          BY <4>1, <3>7, <3>10, <1>t, FoldersAssumption DEF RefreshRows
        <4>3. \A v \in Refreshers : v # w /\ Behind(v, d) => Behind(v, d)'
          BY <1>r, <4>1, OthersStand
        <4>4. QED BY <4>1, <4>2, <4>3, <3>1, <3>6, <2>1, <2>2, <1>c, <1>r DEF FolderDue
      <3>11. QED BY <3>8, <3>9, <3>10
    <2>5. QED BY <2>3, <2>4
  <1>5. CountDue'
    BY <1>d DEF CountDue
  <1>6. QED BY <1>1, <1>2, <1>3, <1>4, <1>5 DEF FcInv

\* Every step of the counts keeps it.
LEMMA FcStepKeeps ==
    ASSUME FcInv, [FcNext]_fcvars
    PROVE  FcInv'
  <1>1. CASE UNCHANGED fcvars
    <2>1. UNCHANGED <<msgAt, counted, refresh, changes, fcGhost>> /\ CountMessagesByFolder' = CountMessagesByFolder
      BY <1>1 DEF fcvars, CountMessagesByFolder
    <2>2. (FcTypeOK /\ AtFolder /\ AttemptFits /\ VersionsFit)'
      BY <2>1 DEF FcInv, FcTypeOK, AtFolder, AttemptFits, Storing, VersionsFit
    <2>3. ASSUME NEW d \in Dirs \ fcGhost' PROVE FolderDue(d)'
      <3>1. \A w \in Refreshers : Owes(w, d)' = Owes(w, d) /\ YetToStore(w, d)' = YetToStore(w, d) /\ Behind(w,
                d)' = Behind(w, d)
        BY <2>1, OthersStand
      <3>2. QED BY <2>1, <3>1 DEF FcInv, CountDue, FolderDue
    <2>4. QED BY <2>2, <2>3 DEF FcInv, CountDue
  <1>2. CASE FcNext
    BY <1>2, ChangeMessageKeeps, CountPendingKeeps, ReadFolderKeeps, StoreFolderCountsKeeps, ApplyDerivedCountsKeeps,
       HealCountsKeeps DEF FcNext
  <1>3. QED BY <1>1, <1>2

\* Fresh counts are right.
LEMMA FcStarts == FcInit => FcInv
  <1> SUFFICES ASSUME FcInit PROVE FcInv
    OBVIOUS
  <1>1. [total |-> 0, unread |-> 0, rev |-> 0] \in FolderRows
    BY DEF FolderRows
  <1>2. FcTypeOK
    BY <1>1, NoRefreshType DEF FcInit, FcTypeOK
  <1>3. \A w \in Refreshers : refresh[w] = NoRefresh
    BY DEF FcInit
  <1>4. \A d \in Dirs : counted[d].rev = 0
    BY DEF FcInit
  <1>5. AtFolder /\ AttemptFits /\ VersionsFit
    BY <1>3, <1>4, NoRefreshType, FoldersAssumption DEF AtFolder, AttemptFits, VersionsFit
  <1>6. \A d \in Dirs : {x \in Msgs : msgAt[x].dir = {d}} = {}
    BY DEF FcInit
  <1>7. \A d \in Dirs : Same(counted[d], CountMessagesByFolder[d])
    BY <1>6, FS_EmptySet DEF FcInit, CountMessagesByFolder, Same
  <1>8. CountDue
    BY <1>3, <1>7, NoRefreshType DEF CountDue, FolderDue, YetToStore, Storing
  <1>9. QED BY <1>2, <1>5, <1>8 DEF FcInv

\* The invariant of both halves is inductive, for any callers, folders, messages and refreshes, and implies
\* FoldersHold.
THEOREM FoldersInductive ==
    /\ FlInit => WkInv /\ FcInv
    /\ WkInv /\ FcInv /\ [FlNext]_flvars => WkInv' /\ FcInv'
    /\ WkInv /\ FcInv => FoldersHold
  <1>1. FlInit => WkInv /\ FcInv
    BY WkStarts, FcStarts DEF FlInit
  <1>2. WkInv /\ FcInv /\ [FlNext]_flvars => WkInv' /\ FcInv'
    BY WkStepKeeps, FcStepKeeps DEF FlNext, flvars
  <1>3. FcInv => CountsFollow
    BY DEF FcInv, CountsFollow, CountDue, FolderDue, Owes, YetToStore, Storing
  <1>4. QED BY <1>1, <1>2, <1>3, WkImplies DEF FoldersHold

\* A well-known folder is reachable and grants nothing of an earlier incarnation, and the stored counts are right,
\* where no caller or refresh was cut short (FoldersHold).
THEOREM FoldersStayTrue == FlSpec => []FoldersHold
  BY FoldersInductive, PTL DEF FlSpec

--------------------------------------------------------------------------------
(****************************************************************************)
(* Search: a message and its attachment, and the indexing, extraction and   *)
(* sealing that race over them, with any number of indexing runs. A run     *)
(* whose row version is still the message's knows it as it is: not stamped, *)
(* not purged, and its document without readable text once the message is   *)
(* sealed (RunsFit). Where the search index was not overwritten by a slower *)
(* run, that document is the one a current run is about to stamp            *)
(* (StampsOwn). So what is wrong in the index has somebody to put it right: *)
(* a readable document of a sealed message is not stamped (SealedDue), a    *)
(* document of a purged one is about to be removed (PurgedDue), a document  *)
(* without the text of its attachment is about to be built again (TextDue), *)
(* and the text of a sealed message's attachment is about to be discarded   *)
(* (DropDue).                                                               *)
(****************************************************************************)

\* The rows, the document and the runs of the three jobs.
MsgRows == [life : {"live", "deleted", "purged"}, draft : BOOLEAN, sealed : BOOLEAN, stamped : BOOLEAN, tries : Nat,
    rev : Nat]
AttRows == [there : BOOLEAN, text : BOOLEAN, rev : Nat]
SearchDocs == [kind : {"none", "readable", "meta"}, text : BOOLEAN]
IxRuns == [pc : {"idle", "build", "bulk", "stamp", "gone", "recheck"}, row : Nat, tries : Nat, doc : SearchDocs, seen :
    BOOLEAN,
           replaces : BOOLEAN, again : Nat]
BfRuns == [pc : {"idle", "seal", "discard"}, row : Nat, att : Nat, again : Nat]
ExRuns == [pc : {"idle", "extract", "store", "invalidate", "clear"}, att : Nat, again : Nat]
SiTypeOK ==
    /\ msg \in MsgRows /\ att \in AttRows /\ doc \in SearchDocs /\ active \in BOOLEAN
    /\ ix \in [Indexers -> IxRuns] /\ bf \in BfRuns /\ ex \in ExRuns /\ removing \in BOOLEAN
    /\ sighost \in [overtaken : BOOLEAN, gaveUp : BOOLEAN, left : BOOLEAN]
\* What the rows say together: tries within the bound, sealed only under zero access, text only of an attachment.
RowFits ==
    /\ msg.tries <= MaxIndexAttempts /\ (msg.sealed => active) /\ (att.text => att.there)
    /\ (msg.life = "purged" => ~att.there)
\* A run that has a message in its batch.
IndexRuns(w) == ix[w].pc \in {"build", "bulk", "stamp"}
\* The version it read is still the message's.
IndexCurrent(w) == IndexRuns(w) /\ ix[w].row = msg.rev
\* A current run knows the message as it is.
RunsFit == \A w \in Indexers :
    /\ IndexRuns(w) => ix[w].row <= msg.rev
    /\ IndexCurrent(w) => /\ ~msg.stamped /\ msg.life # "purged" /\ (msg.sealed => ix[w].replaces)
                     /\ ix[w].tries = msg.tries /\ msg.tries < MaxIndexAttempts
    /\ ix[w].pc \in {"bulk", "stamp"} => ix[w].doc = DocumentOf(ix[w].replaces, ix[w].seen)
\* So do the backfill and the extraction, as far as their versions hold.
JobsFit ==
    /\ bf.pc # "idle" => active
    /\ bf.pc = "seal" => bf.row <= msg.rev /\ (bf.row = msg.rev => msg.life # "purged")
    /\ bf.pc = "discard" => msg.sealed
    /\ ex.pc = "clear" => ex.att <= msg.rev /\ (ex.att = msg.rev => msg.life # "purged")
    /\ ex.pc \in {"extract", "store"} => ex.att <= att.rev
\* What a current run is about to stamp is in the index, or nothing is.
StampsOwn == ~sighost.overtaken => \A w \in Indexers : IndexCurrent(w) /\ ix[w].pc = "stamp" => doc \in {ix[w].doc, NoDoc}
\* A sealed message whose document is readable is not stamped, and has an attempt left.
SealedDue == msg.sealed /\ msg.life # "purged" /\ doc.kind = "readable" /\ ~sighost.overtaken =>
    ~msg.stamped /\ msg.tries < MaxIndexAttempts
\* The document of a purged message is about to be removed.
PurgedDue == msg.life = "purged" /\ doc.kind # "none" /\ ~sighost.left =>
    removing \/ \E w \in Indexers : ix[w].pc \in {"stamp", "gone"}
\* A document that lacks the text of the attachment is about to be built again.
TextDue == msg.stamped /\ doc.kind = "readable" /\ att.text /\ ~doc.text /\ ~sighost.gaveUp /\ ~sighost.overtaken =>
    ex.pc \in {"invalidate", "clear"} \/ \E w \in Indexers : ix[w].pc = "recheck" /\ ~ix[w].seen
\* The extraction is about to store its text.
StoresOwn == ex.pc = "store" /\ att.there /\ ex.att = att.rev
\* The text of a sealed message's attachment is about to be discarded, and what is about to be stored as well.
DropDue ==
    /\ msg.sealed /\ (att.text \/ StoresOwn) /\ ~sighost.left => bf.pc = "discard"
    /\ bf.pc = "discard" /\ StoresOwn => att.rev = bf.att
\* The invariant.
SiInv == SiTypeOK /\ RowFits /\ RunsFit /\ JobsFit /\ StampsOwn /\ SealedDue /\ PurgedDue /\ TextDue /\ DropDue

\* What the types say of the rows and the runs.
LEMMA SearchTypes == ASSUME SiTypeOK
    PROVE  /\ msg \in MsgRows /\ msg.rev \in Nat /\ msg.tries \in Nat /\ att \in AttRows /\ att.rev \in Nat /\ doc \in SearchDocs
           /\ bf \in BfRuns /\ bf.row \in Nat /\ bf.att \in Nat /\ ex \in ExRuns /\ ex.att \in Nat
           /\ \A w \in Indexers : ix[w] \in IxRuns /\ ix[w].row \in Nat /\ ix[w].tries \in Nat
  BY DEF SiTypeOK, MsgRows, AttRows, BfRuns, ExRuns, IxRuns

\* A save moves the version of a message on.
LEMMA BumpedMessage == ASSUME NEW r \in MsgRows
    PROVE  /\ Bumped(r) \in MsgRows /\ Bumped(r).rev \in Nat /\ Bumped(r).rev > r.rev
           /\ Bumped(r).life = r.life /\ Bumped(r).sealed = r.sealed /\ Bumped(r).stamped = r.stamped
           /\ Bumped(r).tries = r.tries
  <1>1. r.rev + 1 \in Nat /\ r.rev + 1 > r.rev
    BY DEF MsgRows
  <1> DEFINE next == r.rev + 1
  <1> HIDE DEF next
  <1>2. Bumped(r) = [r EXCEPT !.rev = next]
    BY DEF Bumped, next
  <1>3. next \in Nat /\ next > r.rev
    BY <1>1 DEF next
  <1>4. QED BY <1>2, <1>3 DEF MsgRows

\* And of an attachment.
LEMMA BumpedAttachment == ASSUME NEW r \in AttRows
    PROVE  /\ Bumped(r) \in AttRows /\ Bumped(r).rev \in Nat /\ Bumped(r).rev > r.rev
           /\ Bumped(r).there = r.there /\ Bumped(r).text = r.text
  <1>1. r.rev + 1 \in Nat /\ r.rev + 1 > r.rev
    BY DEF AttRows
  <1> DEFINE next == r.rev + 1
  <1> HIDE DEF next
  <1>2. Bumped(r) = [r EXCEPT !.rev = next]
    BY DEF Bumped, next
  <1>3. next \in Nat /\ next > r.rev
    BY <1>1 DEF next
  <1>4. QED BY <1>2, <1>3 DEF AttRows

\* The document built of a sealed message is not readable.
LEMMA DocumentIs == ASSUME NEW s \in BOOLEAN, NEW t \in BOOLEAN
    PROVE  DocumentOf(s, t) \in SearchDocs /\ (s => DocumentOf(s, t).kind = "meta") /\ (DocumentOf(s,
        t).kind = "readable" => DocumentOf(s, t).text = t)
  BY DEF DocumentOf, SearchDocs

\* Runs at rest have their types.
LEMMA JobsAtRest ==
    /\ NoDoc \in SearchDocs /\ NoDoc.kind = "none" /\ NoIx \in IxRuns /\ NoIx.pc = "idle"
    /\ NoBf \in BfRuns /\ NoBf.pc = "idle" /\ NoEx \in ExRuns /\ NoEx.pc = "idle"
  BY DEF NoDoc, SearchDocs, NoIx, IxRuns, NoBf, BfRuns, NoEx, ExRuns

\* A step of a run leaves the others alone.
LEMMA RunGoes ==
    ASSUME SiTypeOK, NEW w \in Indexers, NEW x \in IxRuns, ix' = [ix EXCEPT ![w] = x]
    PROVE  ix' \in [Indexers -> IxRuns] /\ ix'[w] = x /\ \A v \in Indexers : v # w => ix'[v] = ix[v]
  BY DEF SiTypeOK

\* What is noted stays noted.
LEMMA GhostNoted ==
    ASSUME SiTypeOK, NEW f \in {"overtaken", "gaveUp", "left"}, Ghost(f)
    PROVE  /\ sighost' \in [overtaken : BOOLEAN, gaveUp : BOOLEAN, left : BOOLEAN]
           /\ sighost'.overtaken = (sighost.overtaken \/ f = "overtaken")
           /\ sighost'.gaveUp = (sighost.gaveUp \/ f = "gaveUp")
           /\ sighost'.left = (sighost.left \/ f = "left")
  BY DEF SiTypeOK, Ghost

\* A save by the owner keeps the invariant: every run is behind it.
LEMMA EditKeeps ==
    ASSUME SiInv, Edit
    PROVE  SiInv'
  <1>t. SiTypeOK
    BY DEF SiInv
  <1>p. PICK reindex \in BOOLEAN : msg' = [Bumped(msg) EXCEPT !.stamped = msg.stamped /\ ~reindex,
            !.tries = IF reindex THEN 0 ELSE msg.tries]
    BY <1>t, SearchTypes, BumpedMessage DEF Edit, SiInv
  <1> DEFINE b == Bumped(msg)
  <1>b. b \in MsgRows /\ b.rev \in Nat /\ b.rev > msg.rev /\ b.life = msg.life /\ b.sealed = msg.sealed
    BY <1>t, SearchTypes, BumpedMessage
  <1>q. msg' = [b EXCEPT !.stamped = msg.stamped /\ ~reindex, !.tries = IF reindex THEN 0 ELSE msg.tries]
    BY <1>p
  <1> HIDE DEF b
  <1>m. /\ msg' \in MsgRows /\ msg'.rev \in Nat /\ msg'.rev > msg.rev /\ msg'.life = msg.life
        /\ msg'.sealed = msg.sealed
        /\ (msg'.stamped => msg.stamped) /\ msg'.tries \in {0, msg.tries}
    BY <1>b, <1>q, <1>t, SearchTypes DEF MsgRows
  <1>u. msg.life = "live" /\ UNCHANGED <<att, doc, active, ix, bf, ex, removing, sifaults, sighost>>
    BY DEF Edit
  <1>1. SiTypeOK'
    BY SearchAssumption, SearchTypes, <1>t, <1>m, <1>u DEF SiInv, SiTypeOK
  <1>2. RowFits'
    BY SearchAssumption, SearchTypes, <1>t, <1>m, <1>u DEF SiInv, RowFits
  <1>3. RunsFit'
    BY SearchAssumption, SearchTypes, <1>t, <1>m, <1>u DEF SiInv, RunsFit, IndexRuns, IndexCurrent
  <1>4. JobsFit'
    BY SearchAssumption, SearchTypes, <1>t, <1>m, <1>u DEF SiInv, JobsFit
  <1>5. StampsOwn'
    BY SearchAssumption, SearchTypes, <1>t, <1>m, <1>u DEF SiInv, StampsOwn, IndexRuns, IndexCurrent, RunsFit
  <1>6. SealedDue'
    BY SearchAssumption, SearchTypes, <1>t, <1>m, <1>u DEF SiInv, SealedDue
  <1>7. PurgedDue'
    BY SearchAssumption, SearchTypes, <1>t, <1>m, <1>u DEF SiInv, PurgedDue
  <1>8. TextDue'
    BY SearchAssumption, SearchTypes, <1>t, <1>m, <1>u DEF SiInv, TextDue
  <1>9. DropDue'
    BY SearchAssumption, SearchTypes, <1>t, <1>m, <1>u DEF SiInv, DropDue, StoresOwn
  <1>10. QED BY <1>1, <1>2, <1>3, <1>4, <1>5, <1>6, <1>7, <1>8, <1>9 DEF SiInv

\* A deletion to the trash, and a restore, keep it.
LEMMA SoftDeleteKeeps ==
    ASSUME SiInv, SoftDelete
    PROVE  SiInv'
  <1>t. SiTypeOK
    BY DEF SiInv
  <1> DEFINE b == Bumped(msg)
             life == IF b.life = "live" THEN "deleted" ELSE "live"
  <1>b. /\ b \in MsgRows /\ b.rev \in Nat /\ b.rev > msg.rev /\ b.sealed = msg.sealed
        /\ b.stamped = msg.stamped /\ b.tries = msg.tries
    BY <1>t, SearchTypes, BumpedMessage
  <1>q. msg' = [b EXCEPT !.life = life] /\ life \in {"live", "deleted"}
    BY DEF SoftDelete
  <1> HIDE DEF b, life
  <1>m. /\ msg' \in MsgRows /\ msg'.rev \in Nat /\ msg'.rev > msg.rev /\ msg'.life \in {"live", "deleted"}
        /\ msg'.sealed = msg.sealed
        /\ msg'.stamped = msg.stamped /\ msg'.tries = msg.tries
    BY <1>b, <1>q DEF MsgRows
  <1>u. msg.life # "purged" /\ UNCHANGED <<att, doc, active, ix, bf, ex, removing, sifaults, sighost>>
    BY DEF SoftDelete, MayChange
  <1>1. SiTypeOK'
    BY SearchAssumption, SearchTypes, <1>t, <1>m, <1>u DEF SiInv, SiTypeOK
  <1>2. RowFits'
    BY SearchAssumption, SearchTypes, <1>t, <1>m, <1>u DEF SiInv, RowFits
  <1>3. RunsFit'
    BY SearchAssumption, SearchTypes, <1>t, <1>m, <1>u DEF SiInv, RunsFit, IndexRuns, IndexCurrent
  <1>4. JobsFit'
    BY SearchAssumption, SearchTypes, <1>t, <1>m, <1>u DEF SiInv, JobsFit
  <1>5. StampsOwn'
    BY SearchAssumption, SearchTypes, <1>t, <1>m, <1>u DEF SiInv, StampsOwn, IndexRuns, IndexCurrent, RunsFit
  <1>6. SealedDue'
    BY SearchAssumption, SearchTypes, <1>t, <1>m, <1>u DEF SiInv, SealedDue
  <1>7. PurgedDue'
    BY SearchAssumption, SearchTypes, <1>t, <1>m, <1>u DEF SiInv, PurgedDue
  <1>8. TextDue'
    BY SearchAssumption, SearchTypes, <1>t, <1>m, <1>u DEF SiInv, TextDue
  <1>9. DropDue'
    BY SearchAssumption, SearchTypes, <1>t, <1>m, <1>u DEF SiInv, DropDue, StoresOwn
  <1>10. QED BY <1>1, <1>2, <1>3, <1>4, <1>5, <1>6, <1>7, <1>8, <1>9 DEF SiInv

\* A purge keeps it: the removal of the document is due.
LEMMA PurgeKeeps ==
    ASSUME SiInv, Purge
    PROVE  SiInv'
  <1>t. SiTypeOK
    BY DEF SiInv
  <1> DEFINE b == Bumped(msg)
             a == Bumped(att)
  <1>b. /\ b \in MsgRows /\ b.rev \in Nat /\ b.rev > msg.rev /\ b.sealed = msg.sealed
        /\ b.stamped = msg.stamped /\ b.tries = msg.tries
    BY <1>t, SearchTypes, BumpedMessage
  <1>a. a \in AttRows /\ a.rev \in Nat /\ a.rev > att.rev
    BY <1>t, SearchTypes, BumpedAttachment
  <1>q. msg' = [b EXCEPT !.life = "purged"] /\ att' = [a EXCEPT !.there = FALSE, !.text = FALSE]
    BY DEF Purge
  <1> HIDE DEF b, a
  <1>m. /\ msg' \in MsgRows /\ msg'.rev \in Nat /\ msg'.rev > msg.rev /\ msg'.life = "purged"
        /\ msg'.sealed = msg.sealed
        /\ msg'.stamped = msg.stamped /\ msg'.tries = msg.tries
    BY <1>b, <1>q DEF MsgRows
  <1>n. att' \in AttRows /\ att'.rev > att.rev /\ att'.rev \in Nat /\ ~att'.there /\ ~att'.text
    BY <1>a, <1>q DEF AttRows
  <1>u. removing' = TRUE /\ UNCHANGED <<doc, active, ix, bf, ex, sifaults, sighost>>
    BY DEF Purge
  <1>1. SiTypeOK'
    BY SearchAssumption, SearchTypes, <1>t, <1>m, <1>n, <1>u DEF SiInv, SiTypeOK
  <1>2. RowFits'
    BY SearchAssumption, SearchTypes, <1>t, <1>m, <1>n, <1>u DEF SiInv, RowFits
  <1>3. RunsFit'
    BY SearchAssumption, SearchTypes, <1>t, <1>m, <1>n, <1>u DEF SiInv, RunsFit, IndexRuns, IndexCurrent
  <1>4. JobsFit'
    BY SearchAssumption, SearchTypes, <1>t, <1>m, <1>n, <1>u DEF SiInv, JobsFit
  <1>5. StampsOwn'
    BY SearchAssumption, SearchTypes, <1>t, <1>m, <1>n, <1>u DEF SiInv, StampsOwn, IndexRuns, IndexCurrent, RunsFit
  <1>6. SealedDue'
    BY SearchAssumption, SearchTypes, <1>t, <1>m, <1>n, <1>u DEF SiInv, SealedDue
  <1>7. PurgedDue'
    BY SearchAssumption, SearchTypes, <1>t, <1>m, <1>n, <1>u DEF SiInv, PurgedDue
  <1>8. TextDue'
    BY SearchAssumption, SearchTypes, <1>t, <1>m, <1>n, <1>u DEF SiInv, TextDue
  <1>9. DropDue'
    BY SearchAssumption, SearchTypes, <1>t, <1>m, <1>n, <1>u DEF SiInv, DropDue, StoresOwn
  <1>10. QED BY <1>1, <1>2, <1>3, <1>4, <1>5, <1>6, <1>7, <1>8, <1>9 DEF SiInv

\* The removal keeps it: one that failed is known (left).
LEMMA RemoveFromSearchIndexKeeps ==
    ASSUME SiInv, RemoveFromSearchIndex
    PROVE  SiInv'
  <1>t. SiTypeOK
    BY DEF SiInv
  <1>g. \/ doc' = NoDoc /\ sighost' = sighost
        \/ /\ doc' = doc /\ sighost' \in [overtaken : BOOLEAN, gaveUp : BOOLEAN, left : BOOLEAN] /\ sighost'.left
           /\ sighost'.overtaken = sighost.overtaken /\ sighost'.gaveUp = sighost.gaveUp
    <2>1. CASE doc' = NoDoc /\ sighost' = sighost
      BY <2>1
    <2>2. CASE Ghost("left") /\ doc' = doc
      BY <1>t, <2>2, GhostNoted DEF SiTypeOK
    <2>3. QED BY <2>1, <2>2 DEF RemoveFromSearchIndex
  <1>u. removing' = FALSE /\ UNCHANGED <<msg, att, active, ix, bf, ex>>
    BY DEF RemoveFromSearchIndex
  <1>1. SiTypeOK'
    BY JobsAtRest, <1>t, <1>g, <1>u DEF SiInv, SiTypeOK
  <1>2. RowFits'
    BY JobsAtRest, <1>t, <1>g, <1>u DEF SiInv, RowFits
  <1>3. RunsFit'
    BY JobsAtRest, <1>t, <1>g, <1>u DEF SiInv, RunsFit, IndexRuns, IndexCurrent
  <1>4. JobsFit'
    BY JobsAtRest, <1>t, <1>g, <1>u DEF SiInv, JobsFit
  <1>5. StampsOwn'
    BY JobsAtRest, <1>t, <1>g, <1>u DEF SiInv, StampsOwn, IndexRuns, IndexCurrent
  <1>6. SealedDue'
    BY JobsAtRest, <1>t, <1>g, <1>u DEF SiInv, SealedDue
  <1>7. PurgedDue'
    BY JobsAtRest, <1>t, <1>g, <1>u DEF SiInv, PurgedDue
  <1>8. TextDue'
    BY JobsAtRest, <1>t, <1>g, <1>u DEF SiInv, TextDue
  <1>9. DropDue'
    BY JobsAtRest, <1>t, <1>g, <1>u DEF SiInv, DropDue, StoresOwn
  <1>10. QED BY <1>1, <1>2, <1>3, <1>4, <1>5, <1>6, <1>7, <1>8, <1>9 DEF SiInv

\* Zero access going active keeps it: nothing is sealed yet.
LEMMA ActivateKeeps ==
    ASSUME SiInv, Activate
    PROVE  SiInv'
  <1>u. active' = TRUE /\ UNCHANGED <<msg, att, doc, ix, bf, ex, removing, sifaults, sighost>>
    BY DEF Activate
  <1>1. SiTypeOK'
    BY <1>u DEF SiInv, SiTypeOK
  <1>2. RowFits'
    BY <1>u DEF SiInv, RowFits
  <1>3. RunsFit'
    BY <1>u DEF SiInv, RunsFit, IndexRuns, IndexCurrent
  <1>4. JobsFit'
    BY <1>u DEF SiInv, JobsFit
  <1>5. StampsOwn'
    BY <1>u DEF SiInv, StampsOwn, IndexRuns, IndexCurrent
  <1>6. SealedDue'
    BY <1>u DEF SiInv, SealedDue
  <1>7. PurgedDue'
    BY <1>u DEF SiInv, PurgedDue
  <1>8. TextDue'
    BY <1>u DEF SiInv, TextDue
  <1>9. DropDue'
    BY <1>u DEF SiInv, DropDue, StoresOwn
  <1>10. QED BY <1>1, <1>2, <1>3, <1>4, <1>5, <1>6, <1>7, <1>8, <1>9 DEF SiInv

\* The selection of a due message keeps it: it has attempts left and is not stamped.
LEMMA SelectDueKeeps ==
    ASSUME SiInv, NEW w \in Indexers, SelectDue(w)
    PROVE  SiInv'
  <1>t. SiTypeOK
    BY DEF SiInv
  <1> DEFINE y == (msg.sealed \/ active)
             x == [NoIx EXCEPT !.pc = "build", !.row = msg.rev, !.tries = msg.tries, !.replaces = y]
  <1>y. y \in BOOLEAN /\ (msg.sealed => y) /\ ~msg.stamped /\ msg.tries < MaxIndexAttempts /\ msg.life # "purged"
    BY <1>t DEF SelectDue, Due, SiTypeOK
  <1>s. ix' = [ix EXCEPT ![w] = x]
    BY DEF SelectDue
  <1> HIDE DEF y
  <1>x. x \in IxRuns /\ x.pc = "build" /\ x.row = msg.rev /\ x.tries = msg.tries /\ x.replaces = y
    BY <1>t, <1>y, JobsAtRest, SearchTypes DEF IxRuns
  <1> HIDE DEF x
  <1>r. /\ ix' \in [Indexers -> IxRuns] /\ ix'[w] = x
        /\ \A v \in Indexers : v # w => ix'[v] = ix[v]
    BY <1>t, <1>x, <1>s, RunGoes
  <1>u. ix[w].pc = "idle" /\ UNCHANGED <<msg, att, doc, active, bf, ex, removing, sifaults, sighost>>
    BY DEF SelectDue
  <1>1. SiTypeOK'
    BY SearchAssumption, SearchTypes, <1>t, <1>x, <1>y, <1>r, <1>u DEF SiInv, SiTypeOK
  <1>2. RowFits'
    BY SearchAssumption, SearchTypes, <1>t, <1>x, <1>y, <1>r, <1>u DEF SiInv, RowFits
  <1>3. RunsFit'
    BY SearchAssumption, SearchTypes, <1>t, <1>x, <1>y, <1>r, <1>u DEF SiInv, RunsFit, IndexRuns, IndexCurrent
  <1>4. JobsFit'
    BY SearchAssumption, SearchTypes, <1>t, <1>x, <1>y, <1>r, <1>u DEF SiInv, JobsFit
  <1>5. StampsOwn'
    BY SearchAssumption, SearchTypes, <1>t, <1>x, <1>y, <1>r, <1>u DEF SiInv, StampsOwn, IndexRuns, IndexCurrent
  <1>6. SealedDue'
    BY SearchAssumption, SearchTypes, <1>t, <1>x, <1>y, <1>r, <1>u DEF SiInv, SealedDue
  <1>7. PurgedDue'
    BY SearchAssumption, SearchTypes, <1>t, <1>x, <1>y, <1>r, <1>u DEF SiInv, PurgedDue
  <1>8. TextDue'
    BY SearchAssumption, SearchTypes, <1>t, <1>x, <1>y, <1>r, <1>u DEF SiInv, TextDue
  <1>9. DropDue'
    BY SearchAssumption, SearchTypes, <1>t, <1>x, <1>y, <1>r, <1>u DEF SiInv, DropDue, StoresOwn
  <1>10. QED BY <1>1, <1>2, <1>3, <1>4, <1>5, <1>6, <1>7, <1>8, <1>9 DEF SiInv

\* The document it builds is without readable text once the message is sealed.
LEMMA BuildDocumentKeeps ==
    ASSUME SiInv, NEW w \in Indexers, BuildDocument(w)
    PROVE  SiInv'
  <1>t. SiTypeOK
    BY DEF SiInv
  <1> DEFINE d == DocumentOf(ix[w].replaces, att.text)
             x == [ix[w] EXCEPT !.pc = "bulk", !.doc = d, !.seen = att.text]
  <1>y. d \in SearchDocs /\ att.text \in BOOLEAN /\ ix[w] \in IxRuns
    BY <1>t, SearchTypes, DocumentIs DEF AttRows, IxRuns
  <1>s. ix' = [ix EXCEPT ![w] = x]
    BY DEF BuildDocument
  <1>z. d = DocumentOf(ix[w].replaces, att.text)
    OBVIOUS
  <1> HIDE DEF d
  <1>x. /\ x \in IxRuns /\ x.pc = "bulk" /\ x.doc = d /\ x.seen = att.text
        /\ x.row = ix[w].row /\ x.tries = ix[w].tries /\ x.replaces = ix[w].replaces
    BY <1>y DEF IxRuns
  <1> HIDE DEF x
  <1>r. /\ ix' \in [Indexers -> IxRuns] /\ ix'[w] = x
        /\ \A v \in Indexers : v # w => ix'[v] = ix[v]
    BY <1>t, <1>x, <1>s, RunGoes
  <1>u. ix[w].pc = "build" /\ UNCHANGED <<msg, att, doc, active, bf, ex, removing, sifaults, sighost>>
    BY DEF BuildDocument
  <1>1. SiTypeOK'
    BY <1>t, <1>x, <1>z, <1>r, <1>u DEF SiInv, SiTypeOK
  <1>2. RowFits'
    BY <1>t, <1>x, <1>z, <1>r, <1>u DEF SiInv, RowFits
  <1>3. RunsFit'
    BY <1>t, <1>x, <1>z, <1>r, <1>u DEF SiInv, RunsFit, IndexRuns, IndexCurrent
  <1>4. JobsFit'
    BY <1>t, <1>x, <1>z, <1>r, <1>u DEF SiInv, JobsFit
  <1>5. StampsOwn'
    BY <1>t, <1>x, <1>z, <1>r, <1>u DEF SiInv, StampsOwn, IndexRuns, IndexCurrent
  <1>6. SealedDue'
    BY <1>t, <1>x, <1>z, <1>r, <1>u DEF SiInv, SealedDue
  <1>7. PurgedDue'
    BY <1>t, <1>x, <1>z, <1>r, <1>u DEF SiInv, PurgedDue
  <1>8. TextDue'
    BY <1>t, <1>x, <1>z, <1>r, <1>u DEF SiInv, TextDue
  <1>9. DropDue'
    BY <1>t, <1>x, <1>z, <1>r, <1>u DEF SiInv, DropDue, StoresOwn
  <1>10. QED BY <1>1, <1>2, <1>3, <1>4, <1>5, <1>6, <1>7, <1>8, <1>9 DEF SiInv

\* The bulk write keeps it: a run that is behind and overwrites what a current one wrote is known (overtaken).
LEMMA BulkIndexKeeps ==
    ASSUME SiInv, NEW w \in Indexers, BulkIndex(w)
    PROVE  SiInv'
  <1>t. SiTypeOK
    BY DEF SiInv
  <1> DEFINE x == [ix[w] EXCEPT !.pc = "stamp"]
  <1>s. ix' = [ix EXCEPT ![w] = x]
    BY DEF BulkIndex
  <1>x. /\ x \in IxRuns /\ x.pc = "stamp"
        /\ x.row = ix[w].row /\ x.tries = ix[w].tries /\ x.doc = ix[w].doc /\ x.seen = ix[w].seen
        /\ x.replaces = ix[w].replaces
    BY <1>t, SearchTypes DEF IxRuns
  <1> HIDE DEF x
  <1>r. /\ ix' \in [Indexers -> IxRuns] /\ ix'[w] = x
        /\ \A v \in Indexers : v # w => ix'[v] = ix[v]
    BY <1>t, <1>x, <1>s, RunGoes
  <1>g. /\ sighost' \in [overtaken : BOOLEAN, gaveUp : BOOLEAN, left : BOOLEAN]
        /\ sighost'.left = sighost.left /\ sighost'.gaveUp = sighost.gaveUp /\ (sighost.overtaken => sighost'.overtaken)
        /\ msg.rev # ix[w].row /\ (msg.stamped \/ msg.tries = MaxIndexAttempts) => sighost'.overtaken
        /\ \A v \in Indexers : ix[v].pc \in {"stamp", "gone"} /\ ix[v].row >= ix[w].row => sighost'.overtaken
    BY <1>t DEF BulkIndex, SiTypeOK
  <1>u. /\ ix[w].pc = "bulk" /\ doc' = ix[w].doc /\ doc' \in SearchDocs
        /\ UNCHANGED <<msg, att, active, bf, ex, removing, sifaults>>
    BY <1>t, SearchTypes DEF BulkIndex, IxRuns
  <1>d. ix[w].doc = DocumentOf(ix[w].replaces, ix[w].seen) /\ (ix[w].replaces => ix[w].doc.kind = "meta")
    BY <1>t, <1>u, SearchTypes, DocumentIs DEF SiInv, RunsFit, IxRuns
  <1>1. SiTypeOK'
    BY <1>t, <1>x, <1>g, <1>r, <1>u, <1>d DEF SiInv, SiTypeOK
  <1>2. RowFits'
    BY <1>t, <1>x, <1>g, <1>r, <1>u, <1>d DEF SiInv, RowFits
  <1>3. RunsFit'
    BY <1>t, <1>x, <1>g, <1>r, <1>u, <1>d DEF SiInv, RunsFit, IndexRuns, IndexCurrent
  <1>4. JobsFit'
    BY <1>t, <1>x, <1>g, <1>r, <1>u, <1>d DEF SiInv, JobsFit
  <1>5. StampsOwn'
    BY <1>t, <1>x, <1>g, <1>r, <1>u, <1>d, SearchTypes DEF SiInv, StampsOwn, IndexRuns, IndexCurrent, RunsFit
  <1>6. SealedDue'
    BY <1>t, <1>x, <1>g, <1>r, <1>u, <1>d, SearchTypes, SearchAssumption DEF SiInv, SealedDue, RunsFit, IndexRuns,
       IndexCurrent, RowFits
  <1>7. PurgedDue'
    BY <1>t, <1>x, <1>g, <1>r, <1>u, <1>d DEF SiInv, PurgedDue
  <1>8. TextDue'
    BY <1>t, <1>x, <1>g, <1>r, <1>u, <1>d DEF SiInv, TextDue, RunsFit, IndexRuns, IndexCurrent
  <1>9. DropDue'
    BY <1>t, <1>x, <1>g, <1>r, <1>u, <1>d DEF SiInv, DropDue, StoresOwn
  <1>10. QED BY <1>1, <1>2, <1>3, <1>4, <1>5, <1>6, <1>7, <1>8, <1>9 DEF SiInv

\* A failed attempt keeps it: a document nobody will try again is known.
LEMMA RecordFailureKeeps ==
    ASSUME SiInv, NEW w \in Indexers, RecordFailure(w)
    PROVE  SiInv'
  <1>t. SiTypeOK
    BY DEF SiInv
  <1> DEFINE b == Bumped(msg)
             last == ix[w].tries + 1 = MaxIndexAttempts
             next == ix[w].tries + 1
  <1>b. /\ b \in MsgRows /\ b.rev \in Nat /\ b.rev > msg.rev /\ b.life = msg.life /\ b.sealed = msg.sealed
        /\ b.stamped = msg.stamped
    BY <1>t, SearchTypes, BumpedMessage
  <1> DEFINE Counts(n) == msg' = IF msg.rev = ix[w].row THEN [b EXCEPT !.tries = n] ELSE msg
  <1>p. \/ doc' = NoDoc /\ Counts(MaxIndexAttempts)
        \/ doc' = doc /\ Counts(MaxIndexAttempts - 1)
        \/ doc' = doc /\ Counts(next) /\ ~(last /\ ix[w].replaces)
    BY DEF RecordFailure
  <1> HIDE DEF b
  <1>n. /\ next \in Nat /\ MaxIndexAttempts \in Nat /\ MaxIndexAttempts - 1 \in Nat
        /\ MaxIndexAttempts - 1 < MaxIndexAttempts
    BY <1>t, SearchTypes, SearchAssumption
  <1>l. msg.rev = ix[w].row => next <= MaxIndexAttempts
    BY <1>t, SearchTypes, SearchAssumption DEF SiInv, RunsFit, IndexRuns, IndexCurrent, RecordFailure
  <1>m. \/ msg' = msg
        \/ /\ msg' \in MsgRows /\ msg'.rev \in Nat /\ msg'.rev > msg.rev /\ msg'.life = msg.life /\ msg'.sealed = msg.sealed
           /\ msg'.stamped = msg.stamped /\ msg.rev = ix[w].row /\ msg'.tries \in Nat /\ msg'.tries <= MaxIndexAttempts
           /\ msg'.tries = MaxIndexAttempts => doc' = NoDoc \/ ~ix[w].replaces
    <2>1. \E n \in Nat : Counts(n) /\ (msg.rev = ix[w].row => n <= MaxIndexAttempts) /\ (n = MaxIndexAttempts
              => doc' = NoDoc \/ ~ix[w].replaces)
      <3>1. /\ MaxIndexAttempts - 1 # MaxIndexAttempts /\ MaxIndexAttempts - 1 <= MaxIndexAttempts
            /\ (next = MaxIndexAttempts => last)
        BY <1>n
      <3> HIDE DEF Counts, next, last
      <3>2. QED BY <1>p, <1>n, <1>l, <3>1
    <2>p. PICK n \in Nat : Counts(n) /\ (msg.rev = ix[w].row => n <= MaxIndexAttempts) /\ (n = MaxIndexAttempts
              => doc' = NoDoc \/ ~ix[w].replaces)
      BY <2>1
    <2> HIDE DEF next, last
    <2>2. CASE msg.rev = ix[w].row
      <3>1. msg' = [b EXCEPT !.tries = n] /\ n <= MaxIndexAttempts
        BY <2>p, <2>2
      <3>2. QED BY <3>1, <2>p, <2>2, <1>b DEF MsgRows
    <2>3. CASE msg.rev # ix[w].row
      BY <2>p, <2>3
    <2>4. QED BY <2>2, <2>3
  <1> HIDE DEF Counts, next, last
  <1> DEFINE x == NoIx
  <1>s. ix' = [ix EXCEPT ![w] = x]
    BY DEF RecordFailure
  <1>x. x \in IxRuns /\ x.pc = "idle"
    BY JobsAtRest
  <1> HIDE DEF x
  <1>r. /\ ix' \in [Indexers -> IxRuns] /\ ix'[w] = x
        /\ \A v \in Indexers : v # w => ix'[v] = ix[v]
    BY <1>t, <1>x, <1>s, RunGoes
  <1>u. ix[w].pc \in {"build", "bulk"} /\ doc' \in SearchDocs /\ UNCHANGED <<att, active, bf, ex, removing, sighost>>
    BY <1>t, <1>p, JobsAtRest, SearchTypes DEF RecordFailure
  <1>d. doc' \in {doc, NoDoc}
    BY <1>p
  <1>c. msg.rev = ix[w].row /\ msg.sealed => ix[w].replaces
    BY <1>u DEF SiInv, RunsFit, IndexRuns, IndexCurrent
  <1>6. SealedDue'
    <2>1. CASE msg' = msg
      BY <2>1, <1>d, <1>u, JobsAtRest DEF SiInv, SealedDue
    <2>2. CASE msg' # msg /\ msg'.sealed
      <3>1. msg.sealed /\ ix[w].replaces /\ msg'.life = msg.life /\ msg'.stamped = msg.stamped
        BY <2>2, <1>m, <1>c
      <3>2. msg'.tries < MaxIndexAttempts \/ doc' = NoDoc
        BY <2>2, <1>m, <3>1, SearchAssumption
      <3>3. QED BY <3>1, <3>2, <1>d, <1>u, JobsAtRest DEF SiInv, SealedDue
    <2>3. QED BY <2>1, <2>2 DEF SealedDue
  <1>1. SiTypeOK'
    BY SearchAssumption, SearchTypes, <1>t, JobsAtRest, <1>m, <1>d, <1>x, <1>r, <1>u DEF SiInv, SiTypeOK
  <1>2. RowFits'
    BY SearchAssumption, SearchTypes, <1>t, JobsAtRest, <1>m, <1>d, <1>x, <1>r, <1>u DEF SiInv, RowFits
  <1>3. RunsFit'
    BY SearchAssumption, SearchTypes, <1>t, JobsAtRest, <1>m, <1>d, <1>x, <1>r, <1>u DEF SiInv, RunsFit, IndexRuns,
       IndexCurrent
  <1>4. JobsFit'
    BY SearchAssumption, SearchTypes, <1>t, JobsAtRest, <1>m, <1>d, <1>x, <1>r, <1>u DEF SiInv, JobsFit
  <1>5. StampsOwn'
    BY SearchAssumption, SearchTypes, <1>t, JobsAtRest, <1>m, <1>d, <1>x, <1>r, <1>u DEF SiInv, StampsOwn, IndexRuns,
       IndexCurrent, RunsFit
  <1>7. PurgedDue'
    BY SearchAssumption, SearchTypes, <1>t, JobsAtRest, <1>m, <1>d, <1>x, <1>r, <1>u DEF SiInv, PurgedDue
  <1>8. TextDue'
    BY SearchAssumption, SearchTypes, <1>t, JobsAtRest, <1>m, <1>d, <1>x, <1>r, <1>u DEF SiInv, TextDue
  <1>9. DropDue'
    BY SearchAssumption, SearchTypes, <1>t, JobsAtRest, <1>m, <1>d, <1>x, <1>r, <1>u DEF SiInv, DropDue, StoresOwn
  <1>10. QED BY <1>1, <1>2, <1>3, <1>4, <1>5, <1>6, <1>7, <1>8, <1>9 DEF SiInv

\* The stamp keeps it: it is refused for a message that changed, and otherwise the document in the index is its own.
LEMMA StampKeeps ==
    ASSUME SiInv, NEW w \in Indexers, Stamp(w)
    PROVE  SiInv'
  <1>t. SiTypeOK
    BY DEF SiInv
  <1>u. ix[w].pc = "stamp" /\ UNCHANGED <<att, doc, active, bf, ex, removing, sifaults, sighost>>
    BY DEF Stamp
  <1>d. ix[w].doc = DocumentOf(ix[w].replaces, ix[w].seen) /\ (ix[w].replaces => ix[w].doc.kind = "meta")
        /\ (ix[w].doc.kind = "readable" => ix[w].doc.text = ix[w].seen)
    BY <1>t, <1>u, SearchTypes, DocumentIs DEF SiInv, RunsFit, IxRuns
  <1>w. CASE StampWins(w)
    <2> DEFINE b == Bumped(msg)
               next == msg.rev + 1
               x == IF ix[w].doc.kind = "readable" THEN [ix[w] EXCEPT !.pc = "recheck", !.row = next] ELSE NoIx
    <2>b. /\ b \in MsgRows /\ b.rev \in Nat /\ b.rev > msg.rev /\ b.life = msg.life /\ b.sealed = msg.sealed
          /\ next \in Nat
      BY <1>t, SearchTypes, BumpedMessage
    <2>q. msg' = [b EXCEPT !.stamped = TRUE, !.tries = 0] /\ ix' = [ix EXCEPT ![w] = x]
      BY <1>w DEF Stamp
    <2> HIDE DEF b, next
    <2>m. /\ msg' \in MsgRows /\ msg'.rev \in Nat /\ msg'.rev > msg.rev /\ msg'.life = msg.life
          /\ msg'.sealed = msg.sealed
          /\ msg'.stamped /\ msg'.tries = 0
      BY <2>b, <2>q DEF MsgRows
    <2>x. /\ x \in IxRuns /\ IF ix[w].doc.kind = "readable" THEN x.pc = "recheck" /\ x.seen = ix[w].seen ELSE x.pc = "idle"
      BY <1>t, <2>b, JobsAtRest, SearchTypes DEF IxRuns
    <2> HIDE DEF x
    <2>r. /\ ix' \in [Indexers -> IxRuns] /\ ix'[w] = x
          /\ \A v \in Indexers : v # w => ix'[v] = ix[v]
      BY <1>t, <2>x, <2>q, RunGoes
    <2>c. /\ IndexCurrent(w) /\ msg.life # "purged" /\ (msg.sealed => ix[w].doc.kind = "meta")
          /\ ~sighost.overtaken => doc \in {ix[w].doc, NoDoc}
      BY <1>w, <1>u, <1>d DEF SiInv, StampWins, IndexCurrent, IndexRuns, RunsFit, StampsOwn
    <2>1. SiTypeOK'
      BY SearchAssumption, SearchTypes, <1>t, JobsAtRest, <1>d, <1>u, <2>m, <2>x, <2>r, <2>c DEF SiInv, SiTypeOK
    <2>2. RowFits'
      BY SearchAssumption, SearchTypes, <1>t, JobsAtRest, <1>d, <1>u, <2>m, <2>x, <2>r, <2>c DEF SiInv, RowFits
    <2>3. RunsFit'
      BY SearchAssumption, SearchTypes, <1>t, JobsAtRest, <1>d, <1>u, <2>m, <2>x, <2>r, <2>c DEF SiInv, RunsFit,
         IndexRuns, IndexCurrent
    <2>4. JobsFit'
      BY SearchAssumption, SearchTypes, <1>t, JobsAtRest, <1>d, <1>u, <2>m, <2>x, <2>r, <2>c DEF SiInv, JobsFit
    <2>5. StampsOwn'
      BY SearchAssumption, SearchTypes, <1>t, JobsAtRest, <1>d, <1>u, <2>m, <2>x, <2>r, <2>c DEF SiInv, StampsOwn,
         IndexRuns, IndexCurrent, RunsFit
    <2>6. SealedDue'
      BY SearchAssumption, SearchTypes, <1>t, JobsAtRest, <1>d, <1>u, <2>m, <2>x, <2>r, <2>c DEF SiInv, SealedDue
    <2>7. PurgedDue'
      BY SearchAssumption, SearchTypes, <1>t, JobsAtRest, <1>d, <1>u, <2>m, <2>x, <2>r, <2>c DEF SiInv, PurgedDue
    <2>8. TextDue'
      BY SearchAssumption, SearchTypes, <1>t, JobsAtRest, <1>d, <1>u, <2>m, <2>x, <2>r, <2>c DEF SiInv, TextDue
    <2>9. DropDue'
      BY SearchAssumption, SearchTypes, <1>t, JobsAtRest, <1>d, <1>u, <2>m, <2>x, <2>r, <2>c DEF SiInv, DropDue,
         StoresOwn
    <2>10. QED BY <2>1, <2>2, <2>3, <2>4, <2>5, <2>6, <2>7, <2>8, <2>9 DEF SiInv
  <1>l. CASE ~StampWins(w)
    <2> DEFINE x == [ix[w] EXCEPT !.pc = "gone"]
    <2>q. ix' = [ix EXCEPT ![w] = x] /\ msg' = msg
      BY <1>l DEF Stamp
    <2>x. x \in IxRuns /\ x.pc = "gone"
      BY <1>t, SearchTypes DEF IxRuns
    <2> HIDE DEF x
    <2>r. /\ ix' \in [Indexers -> IxRuns] /\ ix'[w] = x
          /\ \A v \in Indexers : v # w => ix'[v] = ix[v]
      BY <1>t, <2>x, <2>q, RunGoes
    <2>1. SiTypeOK'
      BY <1>t, <1>u, <2>q, <2>x, <2>r DEF SiInv, SiTypeOK
    <2>2. RowFits'
      BY <1>t, <1>u, <2>q, <2>x, <2>r DEF SiInv, RowFits
    <2>3. RunsFit'
      BY <1>t, <1>u, <2>q, <2>x, <2>r DEF SiInv, RunsFit, IndexRuns, IndexCurrent
    <2>4. JobsFit'
      BY <1>t, <1>u, <2>q, <2>x, <2>r DEF SiInv, JobsFit
    <2>5. StampsOwn'
      BY <1>t, <1>u, <2>q, <2>x, <2>r DEF SiInv, StampsOwn, IndexRuns, IndexCurrent
    <2>6. SealedDue'
      BY <1>t, <1>u, <2>q, <2>x, <2>r DEF SiInv, SealedDue
    <2>7. PurgedDue'
      BY <1>t, <1>u, <2>q, <2>x, <2>r DEF SiInv, PurgedDue
    <2>8. TextDue'
      BY <1>t, <1>u, <2>q, <2>x, <2>r DEF SiInv, TextDue
    <2>9. DropDue'
      BY <1>t, <1>u, <2>q, <2>x, <2>r DEF SiInv, DropDue, StoresOwn
    <2>10. QED BY <2>1, <2>2, <2>3, <2>4, <2>5, <2>6, <2>7, <2>8, <2>9 DEF SiInv
  <1>1. QED BY <1>w, <1>l

\* Removing the document of a message that is gone keeps it.
LEMMA RemoveIfGoneKeeps ==
    ASSUME SiInv, NEW w \in Indexers, RemoveIfGone(w)
    PROVE  SiInv'
  <1>t. SiTypeOK
    BY DEF SiInv
  <1> DEFINE x == NoIx
  <1>s. ix' = [ix EXCEPT ![w] = x]
    BY DEF RemoveIfGone
  <1>x. x \in IxRuns /\ x.pc = "idle"
    BY JobsAtRest
  <1> HIDE DEF x
  <1>r. /\ ix' \in [Indexers -> IxRuns] /\ ix'[w] = x
        /\ \A v \in Indexers : v # w => ix'[v] = ix[v]
    BY <1>t, <1>x, <1>s, RunGoes
  <1>u. /\ ix[w].pc = "gone" /\ doc' = (IF msg.life = "live" THEN doc ELSE NoDoc)
        /\ UNCHANGED <<msg, att, active, bf, ex, removing, sifaults, sighost>>
    BY DEF RemoveIfGone
  <1>1. SiTypeOK'
    BY JobsAtRest, <1>t, <1>x, <1>r, <1>u DEF SiInv, SiTypeOK
  <1>2. RowFits'
    BY JobsAtRest, <1>t, <1>x, <1>r, <1>u DEF SiInv, RowFits
  <1>3. RunsFit'
    BY JobsAtRest, <1>t, <1>x, <1>r, <1>u DEF SiInv, RunsFit, IndexRuns, IndexCurrent
  <1>4. JobsFit'
    BY JobsAtRest, <1>t, <1>x, <1>r, <1>u DEF SiInv, JobsFit
  <1>5. StampsOwn'
    BY JobsAtRest, <1>t, <1>x, <1>r, <1>u DEF SiInv, StampsOwn, IndexRuns, IndexCurrent
  <1>6. SealedDue'
    BY JobsAtRest, <1>t, <1>x, <1>r, <1>u DEF SiInv, SealedDue
  <1>7. PurgedDue'
    BY JobsAtRest, <1>t, <1>x, <1>r, <1>u DEF SiInv, PurgedDue
  <1>8. TextDue'
    BY JobsAtRest, <1>t, <1>x, <1>r, <1>u DEF SiInv, TextDue
  <1>9. DropDue'
    BY JobsAtRest, <1>t, <1>x, <1>r, <1>u DEF SiInv, DropDue, StoresOwn
  <1>10. QED BY <1>1, <1>2, <1>3, <1>4, <1>5, <1>6, <1>7, <1>8, <1>9 DEF SiInv

\* Looking for the text again keeps it: a document that lacks it loses its stamp, or that is known (gaveUp).
LEMMA RecheckAttachmentTextKeeps ==
    ASSUME SiInv, NEW w \in Indexers, RecheckAttachmentText(w)
    PROVE  SiInv'
  <1>t. SiTypeOK
    BY DEF SiInv
  <1>u. ix[w].pc = "recheck" /\ UNCHANGED <<att, doc, active, bf, ex, removing, sifaults>>
    BY DEF RecheckAttachmentText
  <1>1. CASE ix' = [ix EXCEPT ![w] = NoIx] /\ (~TextUnseen(w) \/ ~msg.stamped) /\ UNCHANGED <<msg, sighost>>
    <2>r. /\ ix' \in [Indexers -> IxRuns] /\ ix'[w].pc = "idle"
          /\ \A v \in Indexers : v # w => ix'[v] = ix[v]
      BY <1>t, <1>1, JobsAtRest, RunGoes
    <2>1. SiTypeOK'
      BY <1>t, <1>1, <1>u, <2>r DEF SiInv, SiTypeOK
    <2>2. RowFits'
      BY <1>t, <1>1, <1>u, <2>r DEF SiInv, RowFits
    <2>3. RunsFit'
      BY <1>t, <1>1, <1>u, <2>r DEF SiInv, RunsFit, IndexRuns, IndexCurrent
    <2>4. JobsFit'
      BY <1>t, <1>1, <1>u, <2>r DEF SiInv, JobsFit
    <2>5. StampsOwn'
      BY <1>t, <1>1, <1>u, <2>r DEF SiInv, StampsOwn, IndexRuns, IndexCurrent
    <2>6. SealedDue'
      BY <1>t, <1>1, <1>u, <2>r DEF SiInv, SealedDue
    <2>7. PurgedDue'
      BY <1>t, <1>1, <1>u, <2>r DEF SiInv, PurgedDue
    <2>8. TextDue'
      BY <1>t, <1>1, <1>u, <2>r DEF SiInv, TextDue, TextUnseen
    <2>9. DropDue'
      BY <1>t, <1>1, <1>u, <2>r DEF SiInv, DropDue, StoresOwn
    <2>10. QED BY <2>1, <2>2, <2>3, <2>4, <2>5, <2>6, <2>7, <2>8, <2>9 DEF SiInv
  <1>2. CASE ix' = [ix EXCEPT ![w] = NoIx] /\ msg' = [Bumped(msg) EXCEPT !.stamped = FALSE] /\ sighost' = sighost
    <2> DEFINE b == Bumped(msg)
    <2>b. /\ b \in MsgRows /\ b.rev \in Nat /\ b.rev > msg.rev /\ b.life = msg.life /\ b.sealed = msg.sealed
          /\ b.tries = msg.tries
      BY <1>t, SearchTypes, BumpedMessage
    <2>q. msg' = [b EXCEPT !.stamped = FALSE]
      BY <1>2
    <2> HIDE DEF b
    <2>m. /\ msg' \in MsgRows /\ msg'.rev \in Nat /\ msg'.rev > msg.rev /\ msg'.life = msg.life
          /\ msg'.sealed = msg.sealed
          /\ ~msg'.stamped /\ msg'.tries = msg.tries
      BY <2>b, <2>q DEF MsgRows
    <2>r. /\ ix' \in [Indexers -> IxRuns] /\ ix'[w].pc = "idle"
          /\ \A v \in Indexers : v # w => ix'[v] = ix[v]
      BY <1>t, <1>2, JobsAtRest, RunGoes
    <2>1. SiTypeOK'
      BY SearchAssumption, SearchTypes, <1>t, <1>2, <1>u, <2>m, <2>r DEF SiInv, SiTypeOK
    <2>2. RowFits'
      BY SearchAssumption, SearchTypes, <1>t, <1>2, <1>u, <2>m, <2>r DEF SiInv, RowFits
    <2>3. RunsFit'
      BY SearchAssumption, SearchTypes, <1>t, <1>2, <1>u, <2>m, <2>r DEF SiInv, RunsFit, IndexRuns, IndexCurrent
    <2>4. JobsFit'
      BY SearchAssumption, SearchTypes, <1>t, <1>2, <1>u, <2>m, <2>r DEF SiInv, JobsFit
    <2>5. StampsOwn'
      BY SearchAssumption, SearchTypes, <1>t, <1>2, <1>u, <2>m, <2>r DEF SiInv, StampsOwn, IndexRuns, IndexCurrent,
         RunsFit
    <2>6. SealedDue'
      BY SearchAssumption, SearchTypes, <1>t, <1>2, <1>u, <2>m, <2>r DEF SiInv, SealedDue
    <2>7. PurgedDue'
      BY SearchAssumption, SearchTypes, <1>t, <1>2, <1>u, <2>m, <2>r DEF SiInv, PurgedDue
    <2>8. TextDue'
      BY SearchAssumption, SearchTypes, <1>t, <1>2, <1>u, <2>m, <2>r DEF SiInv, TextDue
    <2>9. DropDue'
      BY SearchAssumption, SearchTypes, <1>t, <1>2, <1>u, <2>m, <2>r DEF SiInv, DropDue, StoresOwn
    <2>10. QED BY <2>1, <2>2, <2>3, <2>4, <2>5, <2>6, <2>7, <2>8, <2>9 DEF SiInv
  <1> DEFINE n == ix[w].again + 1
  <1>n. n \in Nat
    BY <1>t, SearchTypes DEF IxRuns
  <1>3. CASE ix' = [ix EXCEPT ![w] = [ix[w] EXCEPT !.again = n, !.row = msg.rev]] /\ UNCHANGED <<msg, sighost>>
    <2> DEFINE x == [ix[w] EXCEPT !.again = n, !.row = msg.rev]
    <2> HIDE DEF n
    <2>x. x \in IxRuns /\ x.pc = ix[w].pc /\ x.seen = ix[w].seen
      BY <1>t, <1>n, SearchTypes DEF IxRuns
    <2>q. ix' = [ix EXCEPT ![w] = x] /\ UNCHANGED <<msg, sighost>>
      BY <1>3
    <2> HIDE DEF x
    <2>r. /\ ix' \in [Indexers -> IxRuns] /\ ix'[w] = x
          /\ \A v \in Indexers : v # w => ix'[v] = ix[v]
      BY <1>t, <2>x, <2>q, RunGoes
    <2>1. SiTypeOK'
      BY <1>t, <1>u, <2>q, <2>x, <2>r DEF SiInv, SiTypeOK
    <2>2. RowFits'
      BY <1>t, <1>u, <2>q, <2>x, <2>r DEF SiInv, RowFits
    <2>3. RunsFit'
      BY <1>t, <1>u, <2>q, <2>x, <2>r DEF SiInv, RunsFit, IndexRuns, IndexCurrent
    <2>4. JobsFit'
      BY <1>t, <1>u, <2>q, <2>x, <2>r DEF SiInv, JobsFit
    <2>5. StampsOwn'
      BY <1>t, <1>u, <2>q, <2>x, <2>r DEF SiInv, StampsOwn, IndexRuns, IndexCurrent
    <2>6. SealedDue'
      BY <1>t, <1>u, <2>q, <2>x, <2>r DEF SiInv, SealedDue
    <2>7. PurgedDue'
      BY <1>t, <1>u, <2>q, <2>x, <2>r DEF SiInv, PurgedDue
    <2>8. TextDue'
      BY <1>t, <1>u, <2>q, <2>x, <2>r DEF SiInv, TextDue
    <2>9. DropDue'
      BY <1>t, <1>u, <2>q, <2>x, <2>r DEF SiInv, DropDue, StoresOwn
    <2>10. QED BY <2>1, <2>2, <2>3, <2>4, <2>5, <2>6, <2>7, <2>8, <2>9 DEF SiInv
  <1>4. CASE ix' = [ix EXCEPT ![w] = NoIx] /\ Ghost("gaveUp") /\ msg' = msg
    <2>r. /\ ix' \in [Indexers -> IxRuns] /\ ix'[w].pc = "idle"
          /\ \A v \in Indexers : v # w => ix'[v] = ix[v]
      BY <1>t, <1>4, JobsAtRest, RunGoes
    <2>g. /\ sighost' \in [overtaken : BOOLEAN, gaveUp : BOOLEAN, left : BOOLEAN] /\ sighost'.left = sighost.left
          /\ sighost'.overtaken = sighost.overtaken /\ sighost'.gaveUp
      BY <1>t, <1>4, GhostNoted DEF SiTypeOK
    <2>1. SiTypeOK'
      BY <1>t, <1>4, <1>u, <2>r, <2>g DEF SiInv, SiTypeOK
    <2>2. RowFits'
      BY <1>t, <1>4, <1>u, <2>r, <2>g DEF SiInv, RowFits
    <2>3. RunsFit'
      BY <1>t, <1>4, <1>u, <2>r, <2>g DEF SiInv, RunsFit, IndexRuns, IndexCurrent
    <2>4. JobsFit'
      BY <1>t, <1>4, <1>u, <2>r, <2>g DEF SiInv, JobsFit
    <2>5. StampsOwn'
      BY <1>t, <1>4, <1>u, <2>r, <2>g DEF SiInv, StampsOwn, IndexRuns, IndexCurrent
    <2>6. SealedDue'
      BY <1>t, <1>4, <1>u, <2>r, <2>g DEF SiInv, SealedDue
    <2>7. PurgedDue'
      BY <1>t, <1>4, <1>u, <2>r, <2>g DEF SiInv, PurgedDue
    <2>8. TextDue'
      BY <1>t, <1>4, <1>u, <2>r, <2>g DEF SiInv, TextDue
    <2>9. DropDue'
      BY <1>t, <1>4, <1>u, <2>r, <2>g DEF SiInv, DropDue, StoresOwn
    <2>10. QED BY <2>1, <2>2, <2>3, <2>4, <2>5, <2>6, <2>7, <2>8, <2>9 DEF SiInv
  <1>5. QED
    <2>1. CASE ~TextUnseen(w) \/ ~msg.stamped
      BY <1>1, <2>1 DEF RecheckAttachmentText
    <2>2. CASE TextUnseen(w) /\ msg.stamped /\ msg.rev = ix[w].row
      BY <1>2, <2>2 DEF RecheckAttachmentText
    <2>3. CASE TextUnseen(w) /\ msg.stamped /\ msg.rev # ix[w].row
      BY <1>3, <1>4, <2>3 DEF RecheckAttachmentText
    <2>4. QED BY <2>1, <2>2, <2>3

\* The backfill's selection keeps it.
LEMMA SelectReadableKeeps ==
    ASSUME SiInv, SelectReadable
    PROVE  SiInv'
  <1>t. SiTypeOK
    BY DEF SiInv
  <1>b. bf' \in BfRuns /\ bf'.pc = "seal" /\ bf'.row = msg.rev
    BY <1>t, JobsAtRest, SearchTypes DEF SelectReadable, BfRuns
  <1>u. /\ active /\ ~msg.sealed /\ msg.life # "purged" /\ bf.pc = "idle"
        /\ UNCHANGED <<msg, att, doc, active, ix, ex, removing, sifaults, sighost>>
    BY DEF SelectReadable
  <1>1. SiTypeOK'
    BY SearchAssumption, SearchTypes, <1>t, <1>b, <1>u DEF SiInv, SiTypeOK
  <1>2. RowFits'
    BY SearchAssumption, SearchTypes, <1>t, <1>b, <1>u DEF SiInv, RowFits
  <1>3. RunsFit'
    BY SearchAssumption, SearchTypes, <1>t, <1>b, <1>u DEF SiInv, RunsFit, IndexRuns, IndexCurrent
  <1>4. JobsFit'
    BY SearchAssumption, SearchTypes, <1>t, <1>b, <1>u DEF SiInv, JobsFit
  <1>5. StampsOwn'
    BY SearchAssumption, SearchTypes, <1>t, <1>b, <1>u DEF SiInv, StampsOwn, IndexRuns, IndexCurrent
  <1>6. SealedDue'
    BY SearchAssumption, SearchTypes, <1>t, <1>b, <1>u DEF SiInv, SealedDue
  <1>7. PurgedDue'
    BY SearchAssumption, SearchTypes, <1>t, <1>b, <1>u DEF SiInv, PurgedDue
  <1>8. TextDue'
    BY SearchAssumption, SearchTypes, <1>t, <1>b, <1>u DEF SiInv, TextDue
  <1>9. DropDue'
    BY SearchAssumption, SearchTypes, <1>t, <1>b, <1>u DEF SiInv, DropDue, StoresOwn
  <1>10. QED BY <1>1, <1>2, <1>3, <1>4, <1>5, <1>6, <1>7, <1>8, <1>9 DEF SiInv

\* Sealing keeps it: the stamp is cleared with the same save, and the attachment goes on to be discarded.
LEMMA SealMessageKeeps ==
    ASSUME SiInv, SealMessage
    PROVE  SiInv'
  <1>t. SiTypeOK
    BY DEF SiInv
  <1>u. bf.pc = "seal" /\ UNCHANGED <<att, doc, active, ix, ex, removing, sifaults, sighost>>
    BY DEF SealMessage
  <1>w. CASE msg.rev = bf.row
    <2> DEFINE b == Bumped(msg)
    <2>b. b \in MsgRows /\ b.rev \in Nat /\ b.rev > msg.rev /\ b.life = msg.life
      BY <1>t, SearchTypes, BumpedMessage
    <2>q. /\ msg' = [b EXCEPT !.sealed = TRUE, !.stamped = FALSE, !.tries = 0]
          /\ bf' = [bf EXCEPT !.pc = "discard", !.att = att.rev]
      BY <1>w DEF SealMessage
    <2> HIDE DEF b
    <2>m. /\ msg' \in MsgRows /\ msg'.rev \in Nat /\ msg'.rev > msg.rev /\ msg'.life = msg.life /\ msg'.sealed
          /\ ~msg'.stamped /\ msg'.tries = 0
      BY <2>b, <2>q DEF MsgRows
    <2>c. bf' \in BfRuns /\ bf'.pc = "discard" /\ bf'.att = att.rev
      BY <1>t, <2>q, SearchTypes DEF BfRuns
    <2>1. SiTypeOK'
      BY SearchAssumption, SearchTypes, <1>t, <1>u, <2>m, <2>c DEF SiInv, SiTypeOK
    <2>2. RowFits'
      BY SearchAssumption, SearchTypes, <1>t, <1>u, <2>m, <2>c DEF SiInv, RowFits, JobsFit
    <2>3. RunsFit'
      BY SearchAssumption, SearchTypes, <1>t, <1>u, <2>m, <2>c DEF SiInv, RunsFit, IndexRuns, IndexCurrent
    <2>4. JobsFit'
      BY SearchAssumption, SearchTypes, <1>t, <1>u, <2>m, <2>c DEF SiInv, JobsFit
    <2>5. StampsOwn'
      BY SearchAssumption, SearchTypes, <1>t, <1>u, <2>m, <2>c DEF SiInv, StampsOwn, IndexRuns, IndexCurrent, RunsFit
    <2>6. SealedDue'
      BY SearchAssumption, SearchTypes, <1>t, <1>u, <2>m, <2>c DEF SiInv, SealedDue
    <2>7. PurgedDue'
      BY SearchAssumption, SearchTypes, <1>t, <1>u, <2>m, <2>c DEF SiInv, PurgedDue
    <2>8. TextDue'
      BY SearchAssumption, SearchTypes, <1>t, <1>u, <2>m, <2>c DEF SiInv, TextDue
    <2>9. DropDue'
      BY SearchAssumption, SearchTypes, <1>t, <1>u, <2>m, <2>c DEF SiInv, DropDue, StoresOwn
    <2>10. QED BY <2>1, <2>2, <2>3, <2>4, <2>5, <2>6, <2>7, <2>8, <2>9 DEF SiInv
  <1>l. CASE msg.rev # bf.row
    <2>c. bf' \in BfRuns /\ bf'.pc = "idle" /\ msg' = msg
      BY <1>l, JobsAtRest DEF SealMessage
    <2>1. SiTypeOK'
      BY <1>t, <1>u, <2>c DEF SiInv, SiTypeOK
    <2>2. RowFits'
      BY <1>t, <1>u, <2>c DEF SiInv, RowFits
    <2>3. RunsFit'
      BY <1>t, <1>u, <2>c DEF SiInv, RunsFit, IndexRuns, IndexCurrent
    <2>4. JobsFit'
      BY <1>t, <1>u, <2>c DEF SiInv, JobsFit
    <2>5. StampsOwn'
      BY <1>t, <1>u, <2>c DEF SiInv, StampsOwn, IndexRuns, IndexCurrent
    <2>6. SealedDue'
      BY <1>t, <1>u, <2>c DEF SiInv, SealedDue
    <2>7. PurgedDue'
      BY <1>t, <1>u, <2>c DEF SiInv, PurgedDue
    <2>8. TextDue'
      BY <1>t, <1>u, <2>c DEF SiInv, TextDue
    <2>9. DropDue'
      BY <1>t, <1>u, <2>c DEF SiInv, DropDue, StoresOwn
    <2>10. QED BY <2>1, <2>2, <2>3, <2>4, <2>5, <2>6, <2>7, <2>8, <2>9 DEF SiInv
  <1>1. QED BY <1>w, <1>l

\* Discarding the text keeps it: a text stored after the read is behind the version, and is refused.
LEMMA DiscardKeeps ==
    ASSUME SiInv, Discard
    PROVE  SiInv'
  <1>t. SiTypeOK
    BY DEF SiInv
  <1> DEFINE isLost == msg.draft /\ att.there /\ att.rev # bf.att
             over == ~isLost \/ bf.again + 1 = MaxRowTries
             a == Bumped(att)
  <1>a. a \in AttRows /\ a.rev \in Nat /\ a.rev > att.rev /\ a.there = att.there
    BY <1>t, SearchTypes, BumpedAttachment
  <1>q. /\ (att' = att /\ (~att.there \/ isLost)) \/ att' = [a EXCEPT !.text = FALSE,
            !.there = FALSE] \/ att' = [a EXCEPT !.text = FALSE]
        /\ bf' = IF over THEN NoBf ELSE [bf EXCEPT !.again = bf.again + 1, !.att = att.rev]
        /\ doc' \in {doc, NoDoc} /\ (isLost => att' = att)
        /\ sighost' = [sighost EXCEPT !.left = sighost.left \/ (over /\ att'.text)]
    BY DEF Discard, DropExtractedText
  <1> HIDE DEF a
  <1>n. /\ att' \in AttRows /\ att'.rev \in Nat
        /\ ((att' = att /\ (~att.there \/ isLost)) \/ (~att'.text /\ att'.rev > att.rev))
        /\ (att'.there => att.there) /\ (att'.text => att.text)
    BY <1>t, <1>a, <1>q, SearchTypes DEF AttRows
  <1>b. bf' \in BfRuns /\ IF over THEN bf'.pc = "idle" ELSE bf'.pc = "discard" /\ bf'.att = att.rev
    <2>1. bf.again + 1 \in Nat /\ bf \in BfRuns /\ bf.pc = "discard"
      BY <1>t, SearchTypes DEF BfRuns, Discard
    <2> DEFINE n == bf.again + 1
    <2> HIDE DEF n
    <2>2. n \in Nat
      BY <2>1 DEF n
    <2>3. bf' = IF over THEN NoBf ELSE [bf EXCEPT !.again = n, !.att = att.rev]
      BY <1>q DEF n
    <2>4. CASE over
      BY <2>3, <2>4, JobsAtRest
    <2>5. CASE ~over
      BY <2>1, <2>2, <2>3, <2>5, <1>t, SearchTypes DEF BfRuns
    <2>6. QED BY <2>4, <2>5
  <1>g. /\ sighost' \in [overtaken : BOOLEAN, gaveUp : BOOLEAN, left : BOOLEAN]
        /\ sighost'.overtaken = sighost.overtaken /\ sighost'.gaveUp = sighost.gaveUp
        /\ (sighost.left => sighost'.left) /\ (over /\ att'.text => sighost'.left)
    BY <1>t, <1>q DEF SiTypeOK
  <1>d. doc' \in {doc, NoDoc} /\ (isLost => att' = att /\ att.rev # bf.att) /\ (~over => isLost)
    BY <1>q
  <1> HIDE DEF isLost, over
  <1>u. bf.pc = "discard" /\ UNCHANGED <<msg, active, ix, ex, removing, sifaults>>
    BY DEF Discard
  <1>1. SiTypeOK'
    BY SearchAssumption, SearchTypes, <1>t, JobsAtRest, <1>n, <1>b, <1>g, <1>d, <1>u DEF SiInv, SiTypeOK
  <1>2. RowFits'
    BY SearchAssumption, SearchTypes, <1>t, JobsAtRest, <1>n, <1>b, <1>g, <1>d, <1>u DEF SiInv, RowFits
  <1>3. RunsFit'
    BY SearchAssumption, SearchTypes, <1>t, JobsAtRest, <1>n, <1>b, <1>g, <1>d, <1>u DEF SiInv, RunsFit, IndexRuns,
       IndexCurrent
  <1>4. JobsFit'
    BY SearchAssumption, SearchTypes, <1>t, JobsAtRest, <1>n, <1>b, <1>g, <1>d, <1>u DEF SiInv, JobsFit
  <1>5. StampsOwn'
    BY SearchAssumption, SearchTypes, <1>t, JobsAtRest, <1>n, <1>b, <1>g, <1>d, <1>u DEF SiInv, StampsOwn, IndexRuns,
       IndexCurrent
  <1>6. SealedDue'
    BY SearchAssumption, SearchTypes, <1>t, JobsAtRest, <1>n, <1>b, <1>g, <1>d, <1>u DEF SiInv, SealedDue
  <1>7. PurgedDue'
    BY SearchAssumption, SearchTypes, <1>t, JobsAtRest, <1>n, <1>b, <1>g, <1>d, <1>u DEF SiInv, PurgedDue
  <1>8. TextDue'
    BY SearchAssumption, SearchTypes, <1>t, JobsAtRest, <1>n, <1>b, <1>g, <1>d, <1>u DEF SiInv, TextDue
  <1>9. DropDue'
    <2>1. ASSUME StoresOwn' PROVE ~over /\ att'.rev = bf'.att
      <3>1. ex.pc = "store" /\ att'.there /\ ex.att = att'.rev /\ ex.att <= att.rev
        BY <1>u, <2>1 DEF SiInv, JobsFit, StoresOwn
      <3>2. att' = att /\ isLost
        BY <3>1, <1>n, <1>t, SearchTypes
      <3>3. FALSE
        BY <3>1, <3>2, <1>d, <1>u DEF SiInv, DropDue, StoresOwn
      <3>4. QED BY <3>3
    <2>2. QED BY <2>1, <1>b, <1>g DEF DropDue
  <1>10. QED BY <1>1, <1>2, <1>3, <1>4, <1>5, <1>6, <1>7, <1>8, <1>9 DEF SiInv

\* A backfill that stops keeps it: a text it leaves is known (left).
LEMMA BackfillStopsKeeps ==
    ASSUME SiInv, BackfillStops
    PROVE  SiInv'
  <1>t. SiTypeOK
    BY DEF SiInv
  <1>g. /\ sighost' \in [overtaken : BOOLEAN, gaveUp : BOOLEAN, left : BOOLEAN] /\ sighost'.left
        /\ sighost'.overtaken = sighost.overtaken /\ sighost'.gaveUp = sighost.gaveUp
    BY <1>t, GhostNoted DEF BackfillStops, SiTypeOK
  <1>u. bf' \in BfRuns /\ bf'.pc = "idle" /\ UNCHANGED <<msg, att, doc, active, ix, ex, removing>>
    BY JobsAtRest DEF BackfillStops
  <1>1. SiTypeOK'
    BY <1>t, <1>g, <1>u DEF SiInv, SiTypeOK
  <1>2. RowFits'
    BY <1>t, <1>g, <1>u DEF SiInv, RowFits
  <1>3. RunsFit'
    BY <1>t, <1>g, <1>u DEF SiInv, RunsFit, IndexRuns, IndexCurrent
  <1>4. JobsFit'
    BY <1>t, <1>g, <1>u DEF SiInv, JobsFit
  <1>5. StampsOwn'
    BY <1>t, <1>g, <1>u DEF SiInv, StampsOwn, IndexRuns, IndexCurrent
  <1>6. SealedDue'
    BY <1>t, <1>g, <1>u DEF SiInv, SealedDue
  <1>7. PurgedDue'
    BY <1>t, <1>g, <1>u DEF SiInv, PurgedDue
  <1>8. TextDue'
    BY <1>t, <1>g, <1>u DEF SiInv, TextDue
  <1>9. DropDue'
    BY <1>t, <1>g, <1>u DEF SiInv, DropDue, StoresOwn
  <1>10. QED BY <1>1, <1>2, <1>3, <1>4, <1>5, <1>6, <1>7, <1>8, <1>9 DEF SiInv

\* The extraction's selection keeps it.
LEMMA SelectAttachmentKeeps ==
    ASSUME SiInv, SelectAttachment
    PROVE  SiInv'
  <1>t. SiTypeOK
    BY DEF SiInv
  <1>e. ex' \in ExRuns /\ ex'.pc = "extract" /\ ex'.att = att.rev
    BY <1>t, JobsAtRest, SearchTypes DEF SelectAttachment, ExRuns
  <1>u. ~att.text /\ ~msg.sealed /\ UNCHANGED <<msg, att, doc, active, ix, bf, removing, sifaults, sighost>>
    BY DEF SelectAttachment
  <1>1. SiTypeOK'
    BY SearchAssumption, SearchTypes, <1>t, <1>e, <1>u DEF SiInv, SiTypeOK
  <1>2. RowFits'
    BY SearchAssumption, SearchTypes, <1>t, <1>e, <1>u DEF SiInv, RowFits
  <1>3. RunsFit'
    BY SearchAssumption, SearchTypes, <1>t, <1>e, <1>u DEF SiInv, RunsFit, IndexRuns, IndexCurrent
  <1>4. JobsFit'
    BY SearchAssumption, SearchTypes, <1>t, <1>e, <1>u DEF SiInv, JobsFit
  <1>5. StampsOwn'
    BY SearchAssumption, SearchTypes, <1>t, <1>e, <1>u DEF SiInv, StampsOwn, IndexRuns, IndexCurrent
  <1>6. SealedDue'
    BY SearchAssumption, SearchTypes, <1>t, <1>e, <1>u DEF SiInv, SealedDue
  <1>7. PurgedDue'
    BY SearchAssumption, SearchTypes, <1>t, <1>e, <1>u DEF SiInv, PurgedDue
  <1>8. TextDue'
    BY SearchAssumption, SearchTypes, <1>t, <1>e, <1>u DEF SiInv, TextDue
  <1>9. DropDue'
    BY SearchAssumption, SearchTypes, <1>t, <1>e, <1>u DEF SiInv, DropDue, StoresOwn
  <1>10. QED BY <1>1, <1>2, <1>3, <1>4, <1>5, <1>6, <1>7, <1>8, <1>9 DEF SiInv

\* The look at the message before the text is stored keeps it.
LEMMA SealedSinceKeeps ==
    ASSUME SiInv, SealedSince
    PROVE  SiInv'
  <1>t. SiTypeOK
    BY DEF SiInv
  <1>e. /\ ex' \in ExRuns /\ IF msg.sealed THEN ex'.pc = "idle" ELSE ex'.pc = "store" /\ ex'.att = ex.att
    BY <1>t, JobsAtRest, SearchTypes DEF SealedSince, ExRuns
  <1>a. /\ att' \in AttRows /\ att'.rev \in Nat /\ att'.rev >= att.rev /\ att'.there = att.there /\ att'.text = att.text
        /\ ~msg.sealed => att' = att
    BY <1>t, SearchTypes, BumpedAttachment DEF SealedSince
  <1>u. ex.pc = "extract" /\ UNCHANGED <<msg, doc, active, ix, bf, removing, sifaults, sighost>>
    BY DEF SealedSince
  <1>1. SiTypeOK'
    BY SearchAssumption, SearchTypes, <1>t, <1>e, <1>a, <1>u DEF SiInv, SiTypeOK
  <1>2. RowFits'
    BY SearchAssumption, SearchTypes, <1>t, <1>e, <1>a, <1>u DEF SiInv, RowFits
  <1>3. RunsFit'
    BY SearchAssumption, SearchTypes, <1>t, <1>e, <1>a, <1>u DEF SiInv, RunsFit, IndexRuns, IndexCurrent
  <1>4. JobsFit'
    BY SearchAssumption, SearchTypes, <1>t, <1>e, <1>a, <1>u DEF SiInv, JobsFit
  <1>5. StampsOwn'
    BY SearchAssumption, SearchTypes, <1>t, <1>e, <1>a, <1>u DEF SiInv, StampsOwn, IndexRuns, IndexCurrent
  <1>6. SealedDue'
    BY SearchAssumption, SearchTypes, <1>t, <1>e, <1>a, <1>u DEF SiInv, SealedDue
  <1>7. PurgedDue'
    BY SearchAssumption, SearchTypes, <1>t, <1>e, <1>a, <1>u DEF SiInv, PurgedDue
  <1>8. TextDue'
    BY SearchAssumption, SearchTypes, <1>t, <1>e, <1>a, <1>u DEF SiInv, TextDue
  <1>9. DropDue'
    BY SearchAssumption, SearchTypes, <1>t, <1>e, <1>a, <1>u DEF SiInv, DropDue, StoresOwn, JobsFit
  <1>10. QED BY <1>1, <1>2, <1>3, <1>4, <1>5, <1>6, <1>7, <1>8, <1>9 DEF SiInv

\* Storing the text keeps it: the stamp of a document without it goes next.
LEMMA StoreTextKeeps ==
    ASSUME SiInv, StoreText
    PROVE  SiInv'
  <1>t. SiTypeOK
    BY DEF SiInv
  <1>u. ex.pc = "store" /\ UNCHANGED <<msg, doc, active, ix, bf, removing, sifaults, sighost>>
    BY DEF StoreText
  <1>w. CASE att.there /\ att.rev = ex.att
    <2> DEFINE a == Bumped(att)
    <2>b. a \in AttRows /\ a.rev \in Nat /\ a.rev > att.rev /\ a.there = att.there
      BY <1>t, SearchTypes, BumpedAttachment
    <2>q. att' = [a EXCEPT !.text = TRUE] /\ ex' = [ex EXCEPT !.pc = "invalidate"]
      BY <1>w DEF StoreText
    <2> HIDE DEF a
    <2>a. att' \in AttRows /\ att'.rev \in Nat /\ att'.rev > att.rev /\ att'.there = att.there /\ att'.text
      BY <2>b, <2>q DEF AttRows
    <2>e. ex' \in ExRuns /\ ex'.pc = "invalidate"
      BY <1>t, <2>q, SearchTypes DEF ExRuns
    <2>1. SiTypeOK'
      BY SearchAssumption, SearchTypes, <1>t, <1>w, <1>u, <2>a, <2>e DEF SiInv, SiTypeOK
    <2>2. RowFits'
      BY SearchAssumption, SearchTypes, <1>t, <1>w, <1>u, <2>a, <2>e DEF SiInv, RowFits
    <2>3. RunsFit'
      BY SearchAssumption, SearchTypes, <1>t, <1>w, <1>u, <2>a, <2>e DEF SiInv, RunsFit, IndexRuns, IndexCurrent
    <2>4. JobsFit'
      BY SearchAssumption, SearchTypes, <1>t, <1>w, <1>u, <2>a, <2>e DEF SiInv, JobsFit
    <2>5. StampsOwn'
      BY SearchAssumption, SearchTypes, <1>t, <1>w, <1>u, <2>a, <2>e DEF SiInv, StampsOwn, IndexRuns, IndexCurrent
    <2>6. SealedDue'
      BY SearchAssumption, SearchTypes, <1>t, <1>w, <1>u, <2>a, <2>e DEF SiInv, SealedDue
    <2>7. PurgedDue'
      BY SearchAssumption, SearchTypes, <1>t, <1>w, <1>u, <2>a, <2>e DEF SiInv, PurgedDue
    <2>8. TextDue'
      BY SearchAssumption, SearchTypes, <1>t, <1>w, <1>u, <2>a, <2>e DEF SiInv, TextDue
    <2>9. DropDue'
      BY SearchAssumption, SearchTypes, <1>t, <1>w, <1>u, <2>a, <2>e DEF SiInv, DropDue, StoresOwn
    <2>10. QED BY <2>1, <2>2, <2>3, <2>4, <2>5, <2>6, <2>7, <2>8, <2>9 DEF SiInv
  <1>l. CASE ~(att.there /\ att.rev = ex.att)
    <2>e. ex' \in ExRuns /\ ex'.pc = "idle" /\ att' = att
      BY <1>l, JobsAtRest DEF StoreText
    <2>1. SiTypeOK'
      BY <1>t, <1>l, <1>u, <2>e DEF SiInv, SiTypeOK
    <2>2. RowFits'
      BY <1>t, <1>l, <1>u, <2>e DEF SiInv, RowFits
    <2>3. RunsFit'
      BY <1>t, <1>l, <1>u, <2>e DEF SiInv, RunsFit, IndexRuns, IndexCurrent
    <2>4. JobsFit'
      BY <1>t, <1>l, <1>u, <2>e DEF SiInv, JobsFit
    <2>5. StampsOwn'
      BY <1>t, <1>l, <1>u, <2>e DEF SiInv, StampsOwn, IndexRuns, IndexCurrent
    <2>6. SealedDue'
      BY <1>t, <1>l, <1>u, <2>e DEF SiInv, SealedDue
    <2>7. PurgedDue'
      BY <1>t, <1>l, <1>u, <2>e DEF SiInv, PurgedDue
    <2>8. TextDue'
      BY <1>t, <1>l, <1>u, <2>e DEF SiInv, TextDue
    <2>9. DropDue'
      BY <1>t, <1>l, <1>u, <2>e DEF SiInv, DropDue, StoresOwn
    <2>10. QED BY <2>1, <2>2, <2>3, <2>4, <2>5, <2>6, <2>7, <2>8, <2>9 DEF SiInv
  <1>1. QED BY <1>w, <1>l

\* Looking for the stamp keeps it: a run that has yet to stamp will look for the text itself.
LEMMA LookForStampKeeps ==
    ASSUME SiInv, LookForStamp
    PROVE  SiInv'
  <1>t. SiTypeOK
    BY DEF SiInv
  <1>e. /\ ex' \in ExRuns
        /\ IF msg.stamped /\ msg.life # "purged" THEN ex'.pc = "clear" /\ ex'.att = msg.rev ELSE ex'.pc = "idle"
    BY <1>t, JobsAtRest, SearchTypes DEF LookForStamp, ExRuns
  <1>u. ex.pc = "invalidate" /\ UNCHANGED <<msg, att, doc, active, ix, bf, removing, sifaults, sighost>>
    BY DEF LookForStamp
  <1>1. SiTypeOK'
    BY SearchAssumption, SearchTypes, <1>t, <1>e, <1>u DEF SiInv, SiTypeOK
  <1>2. RowFits'
    BY SearchAssumption, SearchTypes, <1>t, <1>e, <1>u DEF SiInv, RowFits
  <1>3. RunsFit'
    BY SearchAssumption, SearchTypes, <1>t, <1>e, <1>u DEF SiInv, RunsFit, IndexRuns, IndexCurrent
  <1>4. JobsFit'
    BY SearchAssumption, SearchTypes, <1>t, <1>e, <1>u DEF SiInv, JobsFit
  <1>5. StampsOwn'
    BY SearchAssumption, SearchTypes, <1>t, <1>e, <1>u DEF SiInv, StampsOwn, IndexRuns, IndexCurrent
  <1>6. SealedDue'
    BY SearchAssumption, SearchTypes, <1>t, <1>e, <1>u DEF SiInv, SealedDue
  <1>7. PurgedDue'
    BY SearchAssumption, SearchTypes, <1>t, <1>e, <1>u DEF SiInv, PurgedDue
  <1>8. TextDue'
    BY SearchAssumption, SearchTypes, <1>t, <1>e, <1>u DEF SiInv, TextDue, RowFits
  <1>9. DropDue'
    BY SearchAssumption, SearchTypes, <1>t, <1>e, <1>u DEF SiInv, DropDue, StoresOwn
  <1>10. QED BY <1>1, <1>2, <1>3, <1>4, <1>5, <1>6, <1>7, <1>8, <1>9 DEF SiInv

\* Clearing it keeps it: it is refused for a message that changed.
LEMMA ClearStampKeeps ==
    ASSUME SiInv, ClearStamp
    PROVE  SiInv'
  <1>t. SiTypeOK
    BY DEF SiInv
  <1>u. ex.pc = "clear" /\ UNCHANGED <<att, doc, active, ix, bf, removing, sifaults>>
    BY DEF ClearStamp
  <1>1. CASE msg' = [Bumped(msg) EXCEPT !.stamped = FALSE, !.tries = 0] /\ ex' = NoEx /\ sighost' = sighost
    <2> DEFINE b == Bumped(msg)
    <2>b. b \in MsgRows /\ b.rev \in Nat /\ b.rev > msg.rev /\ b.life = msg.life /\ b.sealed = msg.sealed
      BY <1>t, SearchTypes, BumpedMessage
    <2>q. msg' = [b EXCEPT !.stamped = FALSE, !.tries = 0]
      BY <1>1
    <2> HIDE DEF b
    <2>m. /\ msg' \in MsgRows /\ msg'.rev \in Nat /\ msg'.rev > msg.rev /\ msg'.life = msg.life
          /\ msg'.sealed = msg.sealed
          /\ ~msg'.stamped /\ msg'.tries = 0
      BY <2>b, <2>q DEF MsgRows
    <2>1. SiTypeOK'
      BY SearchAssumption, SearchTypes, <1>t, JobsAtRest, <1>1, <1>u, <2>m DEF SiInv, SiTypeOK
    <2>2. RowFits'
      BY SearchAssumption, SearchTypes, <1>t, JobsAtRest, <1>1, <1>u, <2>m DEF SiInv, RowFits
    <2>3. RunsFit'
      BY SearchAssumption, SearchTypes, <1>t, JobsAtRest, <1>1, <1>u, <2>m DEF SiInv, RunsFit, IndexRuns, IndexCurrent
    <2>4. JobsFit'
      BY SearchAssumption, SearchTypes, <1>t, JobsAtRest, <1>1, <1>u, <2>m DEF SiInv, JobsFit
    <2>5. StampsOwn'
      BY SearchAssumption, SearchTypes, <1>t, JobsAtRest, <1>1, <1>u, <2>m DEF SiInv, StampsOwn, IndexRuns,
         IndexCurrent, RunsFit
    <2>6. SealedDue'
      BY SearchAssumption, SearchTypes, <1>t, JobsAtRest, <1>1, <1>u, <2>m DEF SiInv, SealedDue
    <2>7. PurgedDue'
      BY SearchAssumption, SearchTypes, <1>t, JobsAtRest, <1>1, <1>u, <2>m DEF SiInv, PurgedDue
    <2>8. TextDue'
      BY SearchAssumption, SearchTypes, <1>t, JobsAtRest, <1>1, <1>u, <2>m DEF SiInv, TextDue
    <2>9. DropDue'
      BY SearchAssumption, SearchTypes, <1>t, JobsAtRest, <1>1, <1>u, <2>m DEF SiInv, DropDue, StoresOwn
    <2>10. QED BY <2>1, <2>2, <2>3, <2>4, <2>5, <2>6, <2>7, <2>8, <2>9 DEF SiInv
  <1> DEFINE n == ex.again + 1
  <1>n. n \in Nat
    BY <1>t, SearchTypes DEF ExRuns
  <1>2. CASE ex' = [ex EXCEPT !.pc = "invalidate", !.again = n] /\ UNCHANGED <<msg, sighost>>
    <2> HIDE DEF n
    <2>e. ex' \in ExRuns /\ ex'.pc = "invalidate"
      BY <1>t, <1>n, <1>2, SearchTypes DEF ExRuns
    <2>1. SiTypeOK'
      BY <1>t, <1>2, <1>u, <2>e DEF SiInv, SiTypeOK
    <2>2. RowFits'
      BY <1>t, <1>2, <1>u, <2>e DEF SiInv, RowFits
    <2>3. RunsFit'
      BY <1>t, <1>2, <1>u, <2>e DEF SiInv, RunsFit, IndexRuns, IndexCurrent
    <2>4. JobsFit'
      BY <1>t, <1>2, <1>u, <2>e DEF SiInv, JobsFit
    <2>5. StampsOwn'
      BY <1>t, <1>2, <1>u, <2>e DEF SiInv, StampsOwn, IndexRuns, IndexCurrent
    <2>6. SealedDue'
      BY <1>t, <1>2, <1>u, <2>e DEF SiInv, SealedDue
    <2>7. PurgedDue'
      BY <1>t, <1>2, <1>u, <2>e DEF SiInv, PurgedDue
    <2>8. TextDue'
      BY <1>t, <1>2, <1>u, <2>e DEF SiInv, TextDue
    <2>9. DropDue'
      BY <1>t, <1>2, <1>u, <2>e DEF SiInv, DropDue, StoresOwn
    <2>10. QED BY <2>1, <2>2, <2>3, <2>4, <2>5, <2>6, <2>7, <2>8, <2>9 DEF SiInv
  <1>3. CASE ex' = NoEx /\ Ghost("gaveUp") /\ msg' = msg
    <2>g. /\ sighost' \in [overtaken : BOOLEAN, gaveUp : BOOLEAN, left : BOOLEAN] /\ sighost'.left = sighost.left
          /\ sighost'.overtaken = sighost.overtaken /\ sighost'.gaveUp
      BY <1>t, <1>3, GhostNoted DEF SiTypeOK
    <2>1. SiTypeOK'
      BY JobsAtRest, <1>t, <1>3, <1>u, <2>g DEF SiInv, SiTypeOK
    <2>2. RowFits'
      BY JobsAtRest, <1>t, <1>3, <1>u, <2>g DEF SiInv, RowFits
    <2>3. RunsFit'
      BY JobsAtRest, <1>t, <1>3, <1>u, <2>g DEF SiInv, RunsFit, IndexRuns, IndexCurrent
    <2>4. JobsFit'
      BY JobsAtRest, <1>t, <1>3, <1>u, <2>g DEF SiInv, JobsFit
    <2>5. StampsOwn'
      BY JobsAtRest, <1>t, <1>3, <1>u, <2>g DEF SiInv, StampsOwn, IndexRuns, IndexCurrent
    <2>6. SealedDue'
      BY JobsAtRest, <1>t, <1>3, <1>u, <2>g DEF SiInv, SealedDue
    <2>7. PurgedDue'
      BY JobsAtRest, <1>t, <1>3, <1>u, <2>g DEF SiInv, PurgedDue
    <2>8. TextDue'
      BY JobsAtRest, <1>t, <1>3, <1>u, <2>g DEF SiInv, TextDue
    <2>9. DropDue'
      BY JobsAtRest, <1>t, <1>3, <1>u, <2>g DEF SiInv, DropDue, StoresOwn
    <2>10. QED BY <2>1, <2>2, <2>3, <2>4, <2>5, <2>6, <2>7, <2>8, <2>9 DEF SiInv
  <1>4. QED
    <2>1. CASE msg.rev = ex.att
      BY <1>1, <2>1 DEF ClearStamp
    <2>2. CASE msg.rev # ex.att
      BY <1>2, <1>3, <2>2 DEF ClearStamp
    <2>3. QED BY <2>1, <2>2

\* It holds at the start.
LEMMA SearchStarts ==
    ASSUME SiInit
    PROVE  SiInv
  <1>1. msg \in MsgRows /\ msg.life = "live" /\ msg.sealed = FALSE /\ msg.stamped = FALSE /\ msg.tries = 0
    <2>1. msg \in MsgRows
      <3>1. /\ msg.draft \in BOOLEAN
            /\ msg = [life |-> "live", draft |-> msg.draft, sealed |-> FALSE, stamped |-> FALSE, tries |-> 0, rev |-> 0]
        BY DEF SiInit
      <3>2. \A d \in BOOLEAN : [life |-> "live", draft |-> d, sealed |-> FALSE, stamped |-> FALSE, tries |-> 0,
                rev |-> 0] \in MsgRows
        BY DEF MsgRows
      <3>3. QED BY <3>1, <3>2
    <2>2. QED BY <2>1 DEF SiInit
  <1>2. att \in AttRows /\ att.there /\ ~att.text
    BY DEF SiInit, AttRows
  <1>3. SiTypeOK
    BY <1>1, <1>2, JobsAtRest DEF SiInit, SiTypeOK
  <1>4. QED BY <1>1, <1>2, <1>3, JobsAtRest, SearchAssumption
    DEF SiInit, SiInv, RowFits, RunsFit, IndexRuns, IndexCurrent, JobsFit, StampsOwn, SealedDue, PurgedDue, TextDue,
        DropDue, StoresOwn

\* The invariant is inductive, for any indexing runs and any number of attempts, and implies SearchFollows.
THEOREM SearchInductive ==
    /\ SiInit => SiInv
    /\ SiInv /\ [SiNext]_sivars => SiInv'
    /\ SiInv => SearchFollows
  <1>1. ASSUME SiInv, [SiNext]_sivars PROVE SiInv'
    <2>1. CASE UNCHANGED sivars
      BY <1>1, <2>1 DEF sivars, SiInv, SiTypeOK, RowFits, RunsFit, IndexRuns, IndexCurrent, JobsFit, StampsOwn,
         SealedDue, PurgedDue, TextDue, DropDue, StoresOwn
    <2>2. CASE SiNext
      BY <1>1, <2>2, EditKeeps, SoftDeleteKeeps, PurgeKeeps, RemoveFromSearchIndexKeeps, ActivateKeeps, SelectDueKeeps,
         BuildDocumentKeeps, BulkIndexKeeps, RecordFailureKeeps, StampKeeps, RemoveIfGoneKeeps,
         RecheckAttachmentTextKeeps, SelectReadableKeeps, SealMessageKeeps, DiscardKeeps, BackfillStopsKeeps,
         SelectAttachmentKeeps, SealedSinceKeeps, StoreTextKeeps, LookForStampKeeps, ClearStampKeeps DEF SiNext
    <2>3. QED BY <1>1, <2>1, <2>2
  <1>2. ASSUME SiInv PROVE SearchFollows
    <2>1. msg.life \in {"live", "deleted", "purged"}
      BY <1>2, SearchTypes DEF SiInv, MsgRows
    <2>2. IndexFollowsMail
      BY <1>2, <2>1 DEF SiInv, IndexFollowsMail, Quiet, Due, SealedDue, PurgedDue
    <2>3. TextSearchable
      BY <1>2 DEF SiInv, TextSearchable, Quiet, TextDue
    <2>4. SealedHasNoText
      BY <1>2 DEF SiInv, SealedHasNoText, Quiet, DropDue
    <2>5. QED BY <2>2, <2>3, <2>4 DEF SearchFollows
  <1>3. QED BY <1>1, <1>2, SearchStarts

\* The search index follows the message: nothing readable of a sealed or a purged message stays, and no text of an
\* attachment is missing, but where a write was overtaken, given up or left (SearchFollows).
THEOREM SearchStaysTrue == SiSpec => []SearchFollows
  BY SearchInductive, PTL DEF SiSpec

--------------------------------------------------------------------------------
(****************************************************************************)
(* Attachments, and the quota they are charged to. Of a request: it has     *)
(* reached the place the message is in, and answers for no hold but those   *)
(* that stand; the rows it found at its check lie where it has been, and at *)
(* its write its user may reach one of those places, and one of them was    *)
(* free of a hold (Reaches). So what it writes it reached rightfully,       *)
(* wherever the message went in between. Of the flag: with no crossing      *)
(* counts, a request is still to count, or the one that counted last        *)
(* counted right, or the flag is right already (FlagDue).                   *)
(*                                                                          *)
(* Of the quota: the mailbox is charged for its rows and for the charges    *)
(* and refunds on their way (Balanced), who read the row that is still      *)
(* there knows what it holds (ReadsRight), and a recalculation no charge    *)
(* crossed sees the row, and counts the rows, as they are (RunsAlone).      *)
(****************************************************************************)

ReqStages == {"idle", "realign", "check", "write", "count", "sync"}
ReqKinds == {"none", "upload", "update", "delete", "truncate"}
\* The requests and the rows have their type.
ScReqs == [pc : ReqStages, op : ReqKinds, user : DOMAIN UserPlaces \cup {NoReq.user},
           att : SUBSET Atts, folder : Places \cup {NoReq.folder},
           rev : Nat, ever : SUBSET Places, held : SUBSET Places, count : Nat]
AtRows == [there : BOOLEAN, folder : Places, rev : Nat]
ScTypeOK == /\ at \in Places /\ stored \in [Atts -> AtRows] /\ onHold \in SUBSET Places /\ scReq \in [ScRequests -> ScReqs]
            /\ flag \in [has : BOOLEAN, rev : Nat]
            /\ scGhost \in [wrong : BOOLEAN, crossed : BOOLEAN, emptied : BOOLEAN]
            /\ IsFiniteSet(Attached)
\* The rows a request matched, or matches now.
RowsThere(S) == {a \in Atts : S[a].there}
MatchedRows(q, S) == IF q.op = "truncate" THEN {a \in RowsThere(S) : S[a].folder = q.folder} ELSE q.att \cap RowsThere(S)
\* What a request reached, and which holds it answers for.
Reaches(q, p, S, H) ==
    /\ q.pc # "idle" => p \in q.ever /\ q.held \subseteq H
    /\ q.pc = "check" => \A a \in MatchedRows(q, S) : S[a].folder \in q.ever
    /\ q.pc = "write" => UserPlaces[q.user] \cap q.ever # {} /\ ~(q.ever \subseteq q.held)
\* What excuses the flag.
Excusable == scGhost.crossed \/ scGhost.emptied
\* A request that counted the attachments there are.
CountRight(q, A) == q.count > 0 <=> A # {}
\* The flag is right, or a request is on its way to put it right.
FlagStands(Q, has, A) ==
    /\ \A r, q \in ScRequests : Q[r].pc = "sync" /\ Q[q].pc = "sync" => r = q
    /\ \/ \E r \in ScRequests : Q[r].pc = "count"
       \/ \E r \in ScRequests : Q[r].pc = "sync" /\ CountRight(Q[r], A)
       \/ (has <=> A # {}) /\ \A r \in ScRequests : Q[r].pc # "sync"
FlagDue == ~Excusable => FlagStands(scReq, flag.has, Attached)
ScInv == ScTypeOK /\ ReachedRightfully /\ FlagDue /\ \A r \in ScRequests : Reaches(scReq[r], at, stored, onHold)

\* A row brought to where the message is (realignLocations) is a row there.
LEMMA LocatedRow ==
    ASSUME NEW s \in AtRows, NEW f \in Places, NEW t,
           t = IF s.there /\ s.folder # f THEN [s EXCEPT !.folder = f, !.rev = @ + 1] ELSE s
    PROVE  /\ t \in AtRows /\ t.there = s.there /\ (s.there => t.folder = f) /\ (t.folder = f \/ t.folder = s.folder)
  <1> DEFINE v == s.rev + 1
             m == [s EXCEPT !.folder = f, !.rev = v]
  <1>1. v \in Nat /\ (t = m \/ (t = s /\ ~(s.there /\ s.folder # f)))
    BY DEF AtRows
  <1> HIDE DEF v
  <1>2. m \in AtRows /\ m.there = s.there /\ m.folder = f
    BY <1>1 DEF AtRows
  <1> HIDE DEF m
  <1> QED
    BY <1>1, <1>2

\* A row that goes stays where it was.
LEMMA RowGoes ==
    ASSUME NEW s \in AtRows, NEW t, t = [s EXCEPT !.there = FALSE, !.rev = s.rev + 1]
    PROVE  t \in AtRows /\ ~t.there /\ t.folder = s.folder
  <1> DEFINE v == s.rev + 1
  <1>1. v \in Nat /\ t = [s EXCEPT !.there = FALSE, !.rev = v]
    BY DEF AtRows
  <1> HIDE DEF v
  <1> QED
    BY <1>1 DEF AtRows

\* A request at rest has its type.
LEMMA NoReqType == NoReq \in ScReqs /\ NoReq.pc = "idle"
  BY DEF NoReq, ScReqs, ReqStages, ReqKinds

\* A request at rest reached nothing.
LEMMA RestReaches ==
    ASSUME NEW q, q.pc = "idle", NEW p, NEW S, NEW H
    PROVE  Reaches(q, p, S, H)
  BY DEF Reaches

\* A message without attachments, which nobody asks about, fits.
LEMMA ScStarts == ScInit => ScInv
  <1> SUFFICES ASSUME ScInit PROVE ScInv
    OBVIOUS
  <1>1. Attached = {} /\ IsFiniteSet(Attached)
    BY FS_EmptySet DEF ScInit, Attached
  <1>2. ScTypeOK
    BY <1>1, NoReqType DEF ScInit, ScTypeOK, AtRows
  <1>3. \A r \in ScRequests : scReq[r].pc = "idle"
    BY NoReqType DEF ScInit
  <1>4. FlagDue
    BY <1>1, <1>3 DEF ScInit, FlagDue, FlagStands
  <1>5. ReachedRightfully
    BY DEF ScInit, ReachedRightfully
  <1> QED
    BY <1>2, <1>3, <1>4, <1>5, RestReaches DEF ScInv

\* What the invariant says of every request.
LEMMA ScParts ==
    ASSUME ScInv
    PROVE  /\ ScTypeOK /\ FlagDue /\ ~scGhost.wrong
           /\ \A r \in ScRequests : scReq[r] \in ScReqs /\ Reaches(scReq[r], at, stored, onHold)
  BY DEF ScInv, ScTypeOK, ReachedRightfully

\* The flag depends on where the requests are and on what they counted.
LEMMA DueSame ==
    ASSUME NEW Q, NEW Q2, \A r \in ScRequests : Q2[r].pc = Q[r].pc /\ Q2[r].count = Q[r].count, NEW has, NEW A,
        FlagStands(Q, has, A)
    PROVE  FlagStands(Q2, has, A)
  BY DEF FlagStands, CountRight

\* A request at a stage of no concern to the flag stands for any other.
LEMMA DueQuiet ==
    ASSUME NEW Q, NEW Q2, NEW r \in ScRequests, \A p \in ScRequests \ {r} : Q2[p] = Q[p],
           Q[r].pc \notin {"count", "sync"}, Q2[r].pc \notin {"count", "sync"}, NEW has, NEW A, FlagStands(Q, has, A)
    PROVE  FlagStands(Q2, has, A)
  BY DEF FlagStands, CountRight

\* A request that is about to count excuses the flag.
LEMMA DueCounting ==
    ASSUME NEW Q, NEW r \in ScRequests, Q[r].pc = "count", NEW has, NEW A, NEW P, NEW h, NEW B, FlagStands(P, h, B),
           \A p \in ScRequests : Q[p].pc = "sync" => P[p].pc = "sync"
    PROVE  FlagStands(Q, has, A)
  BY DEF FlagStands

\* What goes, or comes to where the message is, leave every request reaching what it reached.
LEMMA StillReaches ==
    ASSUME NEW q, NEW p, NEW S, NEW H, Reaches(q, p, S, H), NEW S2,
           \A a \in Atts : S2[a].there => S2[a].folder = p \/ (S[a].there /\ S2[a].folder = S[a].folder)
    PROVE  Reaches(q, p, S2, H)
  <1>1. \A a \in MatchedRows(q, S2) : S2[a].folder = p \/ (a \in MatchedRows(q, S) /\ S2[a].folder = S[a].folder)
    BY DEF MatchedRows, RowsThere
  <1> QED
    BY <1>1 DEF Reaches

\* One request moves.
LEMMA ReqMoves ==
    ASSUME ScInv, NEW r \in ScRequests, NEW q \in ScReqs, scReq' = [scReq EXCEPT ![r] = q],
           UNCHANGED <<at, onHold>>, stored' \in [Atts -> AtRows], IsFiniteSet(Attached'),
           \A a \in Atts : stored'[a].there
               => stored'[a].folder = at \/ (stored[a].there /\ stored'[a].folder = stored[a].folder),
           flag' \in [has : BOOLEAN, rev : Nat], scGhost' \in [wrong : BOOLEAN, crossed : BOOLEAN, emptied : BOOLEAN],
               ~scGhost'.wrong,
           Reaches(q, at, stored', onHold), FlagDue'
    PROVE  ScInv'
  <1>1. ScTypeOK'
    BY DEF ScInv, ScTypeOK
  <1>2. \A p \in ScRequests : scReq'[p] = IF p = r THEN q ELSE scReq[p]
    BY DEF ScInv, ScTypeOK
  <1>3. \A p \in ScRequests : Reaches(scReq'[p], at, stored', onHold)
    BY <1>2, StillReaches DEF ScInv
  <1> QED
    BY <1>1, <1>3 DEF ScInv, ReachedRightfully

\* A request that begins, or goes on without touching rows or counting.
LEMMA QuietMoves ==
    ASSUME ScInv, NEW r \in ScRequests, NEW q \in ScReqs, scReq' = [scReq EXCEPT ![r] = q],
           UNCHANGED <<at, stored, flag, onHold, scGhost>>,
           Reaches(q, at, stored, onHold), q.pc \notin {"count", "sync"}, scReq[r].pc \notin {"count", "sync"}
    PROVE  ScInv'
  <1>1. ScTypeOK /\ ~scGhost.wrong
    BY ScParts
  <1>2. Attached' = Attached
    BY DEF Attached
  <1>3. \A p \in ScRequests : scReq'[p] = IF p = r THEN q ELSE scReq[p]
    BY <1>1 DEF ScTypeOK
  <1>4. FlagDue'
    <2>1. SUFFICES ASSUME ~Excusable PROVE FlagStands(scReq', flag.has, Attached)
      BY <1>2 DEF FlagDue, Excusable
    <2>2. FlagStands(scReq, flag.has, Attached)
      BY <2>1, ScParts DEF FlagDue
    <2> QED
      BY <2>2, <1>3, DueQuiet
  <1> QED
    BY <1>1, <1>2, <1>4, ReqMoves DEF ScTypeOK

\* A request that begins has reached the place the message is in, and no hold but those there are.
LEMMA AskedReaches ==
    ASSUME ScInv, NEW r \in ScRequests, NEW q \in ScReqs, ScAsk(r, q), q.pc \in {"count", "realign"}
    PROVE  \E n \in ScReqs : /\ scReq' = [scReq EXCEPT ![r] = n] /\ n.pc = q.pc /\ scReq[r].pc = "idle"
                             /\ \A S : Reaches(n, at, S, onHold)
  <1> DEFINE n == [q EXCEPT !.ever = {at}, !.held = onHold]
  <1>1. n \in ScReqs /\ n.pc = q.pc /\ at \in n.ever /\ n.held = onHold
    BY DEF ScReqs, ScInv, ScTypeOK
  <1>2. scReq' = [scReq EXCEPT ![r] = n] /\ scReq[r].pc = "idle"
    BY DEF ScAsk
  <1> HIDE DEF n
  <1>3. \A S : Reaches(n, at, S, onHold)
    BY <1>1 DEF Reaches
  <1> QED
    BY <1>1, <1>2, <1>3

--------------------------------------------------------------------------------

\* A move of the message keeps the invariant: every request under way has reached the new place too.
LEMMA MoveMessageKeeps ==
    ASSUME ScInv, NEW f \in Places, NEW u \in DOMAIN UserPlaces, MoveMessage(u, f)
    PROVE  ScInv'
  <1>1. ScTypeOK /\ FlagDue /\ ~scGhost.wrong
    BY ScParts
  <1>2. /\ at' = f /\ flag' = [flag EXCEPT !.rev = @ + 1] /\ UNCHANGED <<stored, onHold, scGhost>>
        /\ scReq' = [r \in ScRequests |-> [scReq[r] EXCEPT !.ever = @ \cup {f}]]
    BY DEF MoveMessage
  <1>3. \A r \in ScRequests :
            /\ scReq'[r] \in ScReqs /\ scReq'[r].ever = scReq[r].ever \cup {f} /\ scReq'[r].pc = scReq[r].pc
                              /\ scReq'[r].op = scReq[r].op /\ scReq'[r].user = scReq[r].user
                              /\ scReq'[r].att = scReq[r].att
                              /\ scReq'[r].folder = scReq[r].folder /\ scReq'[r].held = scReq[r].held
                              /\ scReq'[r].count = scReq[r].count
    BY <1>1, <1>2 DEF ScTypeOK, ScReqs
  <1>4. flag' \in [has : BOOLEAN, rev : Nat] /\ flag'.has = flag.has
    BY <1>1, <1>2 DEF ScTypeOK
  <1>5. Attached' = Attached
    BY <1>2 DEF Attached
  <1>6. ScTypeOK'
    <2>1. scReq' \in [ScRequests -> ScReqs]
      BY <1>2, <1>3
    <2> QED
      BY <2>1, <1>1, <1>2, <1>4, <1>5 DEF ScTypeOK
  <1>7. FlagDue'
    <2>1. SUFFICES ASSUME ~Excusable PROVE FlagStands(scReq', flag.has, Attached)
      BY <1>2, <1>4, <1>5 DEF FlagDue, Excusable
    <2>2. FlagStands(scReq, flag.has, Attached)
      BY <1>1, <2>1 DEF FlagDue
    <2> QED
      BY <2>2, <1>3, DueSame
  <1>8. \A r \in ScRequests : Reaches(scReq'[r], f, stored, onHold)
    <2> TAKE r \in ScRequests
    <2>1. Reaches(scReq[r], at, stored, onHold)
      BY ScParts
    <2>2. MatchedRows(scReq'[r], stored) = MatchedRows(scReq[r], stored)
      BY <1>3 DEF MatchedRows
    <2> QED
      BY <2>1, <2>2, <1>3 DEF Reaches
  <1> QED
    BY <1>1, <1>2, <1>6, <1>7, <1>8 DEF ScInv, ReachedRightfully

\* A hold placed or lifted keeps it: a request answers only for those that stand throughout.
LEMMA ToggleHoldKeeps ==
    ASSUME ScInv, NEW f \in Places, ToggleHold(f)
    PROVE  ScInv'
  <1>1. ScTypeOK /\ FlagDue /\ ~scGhost.wrong
    BY ScParts
  <1>2. /\ onHold' \in SUBSET Places /\ UNCHANGED <<at, stored, flag, scGhost>>
        /\ scReq' = [r \in ScRequests |-> [scReq[r] EXCEPT !.held = @ \cap onHold']]
    BY <1>1 DEF ToggleHold, ScTypeOK
  <1>3. \A r \in ScRequests :
            /\ scReq'[r] \in ScReqs /\ scReq'[r].held = scReq[r].held \cap onHold' /\ scReq'[r].pc = scReq[r].pc
                              /\ scReq'[r].op = scReq[r].op /\ scReq'[r].user = scReq[r].user
                              /\ scReq'[r].att = scReq[r].att
                              /\ scReq'[r].folder = scReq[r].folder /\ scReq'[r].ever = scReq[r].ever
                              /\ scReq'[r].count = scReq[r].count
    <2> TAKE r \in ScRequests
    <2> DEFINE h == scReq[r].held \cap onHold'
    <2>1. h \in SUBSET Places
      BY <1>2
    <2>2. scReq'[r] = [scReq[r] EXCEPT !.held = h]
      BY <1>2
    <2> HIDE DEF h
    <2>3. /\ scReq'[r] \in ScReqs /\ scReq'[r].held = h /\ scReq'[r].pc = scReq[r].pc
          /\ scReq'[r].op = scReq[r].op /\ scReq'[r].user = scReq[r].user /\ scReq'[r].att = scReq[r].att
          /\ scReq'[r].folder = scReq[r].folder /\ scReq'[r].ever = scReq[r].ever /\ scReq'[r].count = scReq[r].count
      BY <1>1, <2>1, <2>2 DEF ScTypeOK, ScReqs
    <2> QED
      BY <2>3 DEF h
  <1>5. Attached' = Attached
    BY <1>2 DEF Attached
  <1>6. ScTypeOK'
    <2>1. scReq' \in [ScRequests -> ScReqs]
      BY <1>2, <1>3
    <2> QED
      BY <2>1, <1>1, <1>2, <1>5 DEF ScTypeOK
  <1>7. FlagDue'
    <2>1. SUFFICES ASSUME ~Excusable PROVE FlagStands(scReq', flag.has, Attached)
      BY <1>2, <1>5 DEF FlagDue, Excusable
    <2>2. FlagStands(scReq, flag.has, Attached)
      BY <1>1, <2>1 DEF FlagDue
    <2> QED
      BY <2>2, <1>3, DueSame
  <1>8. \A r \in ScRequests : Reaches(scReq'[r], at, stored, onHold')
    <2> TAKE r \in ScRequests
    <2>1. Reaches(scReq[r], at, stored, onHold)
      BY ScParts
    <2>2. MatchedRows(scReq'[r], stored) = MatchedRows(scReq[r], stored)
      BY <1>3 DEF MatchedRows
    <2> QED
      BY <2>1, <2>2, <1>3 DEF Reaches
  <1> QED
    BY <1>1, <1>2, <1>6, <1>7, <1>8 DEF ScInv, ReachedRightfully

\* An upload keeps it: its row names the folder the message is in, and its request will count.
LEMMA UploadKeeps ==
    ASSUME ScInv, NEW r \in ScRequests, NEW u \in DOMAIN UserPlaces, NEW a \in Atts, UploadAttachment(r, u, a)
    PROVE  ScInv'
  <1>1. ScTypeOK /\ ~scGhost.wrong
    BY ScParts
  <1> DEFINE q == [NoReq EXCEPT !.pc = "count", !.op = "upload", !.user = u, !.att = {a}]
             t == [there |-> TRUE, folder |-> at, rev |-> stored[a].rev + 1]
  <1>2. q \in ScReqs /\ q.pc = "count"
    BY NoReqType DEF ScReqs, ReqStages, ReqKinds
  <1>3. ScAsk(r, q) /\ stored' = [stored EXCEPT ![a] = t] /\ UNCHANGED <<at, flag, onHold, scGhost>>
    BY DEF UploadAttachment
  <1>4. t \in AtRows /\ t.there /\ t.folder = at
    BY <1>1 DEF ScTypeOK, AtRows
  <1> HIDE DEF q, t
  <1>5. PICK n \in ScReqs : scReq' = [scReq EXCEPT ![r] = n] /\ n.pc = "count" /\ \A S : Reaches(n, at, S, onHold)
    BY <1>2, <1>3, AskedReaches
  <1>6. stored' \in [Atts -> AtRows] /\ \A b \in Atts : stored'[b] = IF b = a THEN t ELSE stored[b]
    BY <1>1, <1>3, <1>4 DEF ScTypeOK
  <1>7. IsFiniteSet(Attached')
    <2>1. Attached' \subseteq Attached \cup {a}
      BY <1>6 DEF Attached
    <2>2. IsFiniteSet(Attached \cup {a})
      BY <1>1, FS_AddElement DEF ScTypeOK
    <2> QED
      BY <2>1, <2>2, FS_Subset
  <1>8. scReq'[r].pc = "count" /\ \A p \in ScRequests \ {r} : scReq'[p] = scReq[p]
    BY <1>1, <1>5 DEF ScTypeOK
  <1>9. FlagDue'
    <2>1. SUFFICES ASSUME ~Excusable PROVE FlagStands(scReq', flag'.has, Attached')
      BY <1>3 DEF FlagDue, Excusable
    <2>2. FlagStands(scReq, flag.has, Attached)
      BY <2>1, ScParts DEF FlagDue
    <2>3. \A p \in ScRequests : scReq'[p].pc = "sync" => scReq[p].pc = "sync"
      BY <1>8
    <2> QED
      BY <2>2, <2>3, <1>8, DueCounting
  <1> QED
    BY <1>1, <1>3, <1>4, <1>5, <1>6, <1>7, <1>9, ReqMoves DEF ScTypeOK

\* The start of an update or a delete keeps it.
LEMMA BeginOneKeeps ==
    ASSUME ScInv, NEW r \in ScRequests, NEW u \in DOMAIN UserPlaces, NEW a \in Atts, NEW op \in {"delete", "update"},
        BeginOne(r, u, a, op)
    PROVE  ScInv'
  <1> DEFINE q == [NoReq EXCEPT !.pc = "realign", !.op = op, !.user = u, !.att = {a}]
  <1>2. q \in ScReqs /\ q.pc = "realign"
    BY NoReqType DEF ScReqs, ReqStages, ReqKinds
  <1>3. ScAsk(r, q) /\ UNCHANGED <<at, stored, flag, onHold, scGhost>>
    BY DEF BeginOne
  <1> HIDE DEF q
  <1>5. PICK n \in ScReqs : scReq' = [scReq EXCEPT ![r] = n] /\ n.pc = "realign" /\ scReq[r].pc = "idle" /\ \A S :
            Reaches(n, at, S, onHold)
    BY <1>2, <1>3, AskedReaches
  <1> QED
    BY <1>3, <1>5, QuietMoves

\* The start of a truncate keeps it.
LEMMA BeginTruncateKeeps ==
    ASSUME ScInv, NEW r \in ScRequests, NEW u \in DOMAIN UserPlaces, NEW f \in Places, BeginTruncate(r, u, f)
    PROVE  ScInv'
  <1> DEFINE q == [NoReq EXCEPT !.pc = "realign", !.op = "truncate", !.user = u, !.folder = f]
  <1>2. q \in ScReqs /\ q.pc = "realign"
    BY NoReqType DEF ScReqs, ReqStages, ReqKinds
  <1>3. ScAsk(r, q) /\ UNCHANGED <<at, stored, flag, onHold, scGhost>>
    BY DEF BeginTruncate
  <1> HIDE DEF q
  <1>5. PICK n \in ScReqs : scReq' = [scReq EXCEPT ![r] = n] /\ n.pc = "realign" /\ scReq[r].pc = "idle" /\ \A S :
            Reaches(n, at, S, onHold)
    BY <1>2, <1>3, AskedReaches
  <1> QED
    BY <1>3, <1>5, QuietMoves

\* Rows brought home keep it: every one the request matches lies where the message is.
LEMMA RealignRowsKeeps ==
    ASSUME ScInv, NEW r \in ScRequests, RealignRows(r)
    PROVE  ScInv'
  <1>1. ScTypeOK /\ ~scGhost.wrong /\ scReq[r] \in ScReqs /\ Reaches(scReq[r], at, stored, onHold)
    BY ScParts
  <1> DEFINE as == IF scReq[r].op = "truncate"
                   THEN {a \in Attached : stored[a].folder = scReq[r].folder} ELSE scReq[r].att
             q == [scReq[r] EXCEPT !.pc = "check"]
  <1>2. /\ scReq[r].pc = "realign" /\ scReq' = [scReq EXCEPT ![r] = q] /\ stored' = Realigned(as)
        /\ UNCHANGED <<at, flag, onHold, scGhost>>
    BY DEF RealignRows, ScStep
  <1>3. /\ q \in ScReqs /\ q.pc = "check" /\ q.op = scReq[r].op /\ q.att = scReq[r].att /\ q.folder = scReq[r].folder
        /\ q.ever = scReq[r].ever /\ q.held = scReq[r].held
    BY <1>1 DEF ScReqs, ReqStages
  <1>4. \A a \in Atts : /\ stored'[a] \in AtRows /\ stored'[a].there = stored[a].there
                        /\ a \in as /\ stored[a].there => stored'[a].folder = at
                        /\ stored'[a].folder = at \/ stored'[a].folder = stored[a].folder
    <2> TAKE a \in Atts
    <2>1. stored'[a] = IF a \in as THEN Located(a) ELSE stored[a]
      BY <1>2 DEF Realigned
    <2>2. stored[a] \in AtRows /\ at \in Places
      BY <1>1 DEF ScTypeOK
    <2>3. Located(a) \in AtRows /\ Located(a).there = stored[a].there /\ (stored[a].there => Located(a).folder = at)
          /\ (Located(a).folder = at \/ Located(a).folder = stored[a].folder)
      <3>1. Located(a) = IF stored[a].there /\ stored[a].folder # at
                          THEN [stored[a] EXCEPT !.folder = at, !.rev = @ + 1] ELSE stored[a]
        BY DEF Located
      <3> HIDE DEF as, q
      <3> QED
        BY <2>2, <3>1, LocatedRow
    <2> HIDE DEF as
    <2> QED
      BY <2>1, <2>2, <2>3
  <1>5. stored' \in [Atts -> AtRows]
    BY <1>2, <1>4 DEF Realigned
  <1>6. Attached' = Attached
    BY <1>4 DEF Attached
  <1>7. Reaches(q, at, stored', onHold)
    <2>1. \A a \in MatchedRows(q, stored') : stored'[a].folder = at
      <3> TAKE a \in MatchedRows(q, stored')
      <3>1. CASE q.op = "truncate"
        BY <1>3, <1>4, <3>1 DEF MatchedRows, RowsThere, Attached
      <3>2. CASE q.op # "truncate"
        BY <1>3, <1>4, <3>2 DEF MatchedRows, RowsThere
      <3> QED
        BY <3>1, <3>2
    <2> HIDE DEF q
    <2> QED
      BY <1>1, <1>2, <1>3, <2>1 DEF Reaches
  <1>8. FlagDue'
    <2> HIDE DEF q
    <2>1. \A p \in ScRequests : scReq'[p] = IF p = r THEN q ELSE scReq[p]
      BY <1>1, <1>2 DEF ScTypeOK
    <2>2. SUFFICES ASSUME ~Excusable PROVE FlagStands(scReq', flag.has, Attached)
      BY <1>2, <1>6 DEF FlagDue, Excusable
    <2>3. FlagStands(scReq, flag.has, Attached)
      BY <2>2, ScParts DEF FlagDue
    <2> QED
      <3>1. scReq[r].pc = "realign" /\ scReq'[r].pc = "check" /\ \A p \in ScRequests \ {r} : scReq'[p] = scReq[p]
        BY <2>1, <1>2, <1>3
      <3> QED
        BY <3>1, <2>3, DueQuiet
  <1> HIDE DEF q, as
  <1> QED
    BY <1>1, <1>2, <1>3, <1>4, <1>5, <1>6, <1>7, <1>8, ReqMoves DEF ScTypeOK

\* The second check keeps it: a row its user may reach lies in a place the message has been in since the request began,
\* and the place the message is in is free of a hold.
LEMMA CheckAgainKeeps ==
    ASSUME ScInv, NEW r \in ScRequests, CheckAgain(r)
    PROVE  ScInv'
  <1>1. ScTypeOK /\ scReq[r] \in ScReqs /\ Reaches(scReq[r], at, stored, onHold)
    BY ScParts
  <1> DEFINE o == scReq[r]
             matched == IF o.op = "truncate"
                        THEN {a \in Attached : stored[a].folder = o.folder} ELSE o.att \cap Attached
  <1>2. o.pc = "check" /\ UNCHANGED <<at, stored, flag, onHold, scGhost>>
    BY DEF CheckAgain
  <1>3. CASE ScEnds(r)
    BY <1>2, <1>3, NoReqType, RestReaches, QuietMoves DEF ScEnds
  <1>4. CASE /\ matched # {} /\ (\A a \in matched : HasAccess(o.user, stored[a].folder)) /\ CheckLegalHold(matched)
             /\ scReq' = [scReq EXCEPT ![r].pc = "write", ![r].att = matched,
                                       ![r].rev = IF o.op = "update" THEN stored[CHOOSE a \in matched : TRUE].rev ELSE 0]
    <2> DEFINE v == IF o.op = "update" THEN stored[CHOOSE a \in matched : TRUE].rev ELSE 0
               q == [o EXCEPT !.pc = "write", !.att = matched, !.rev = v]
    <2>1. matched \in SUBSET Atts /\ matched = MatchedRows(o, stored)
      BY <1>1 DEF Attached, MatchedRows, RowsThere, ScReqs
    <2>2. v \in Nat
      BY <1>1, <1>4, <2>1 DEF ScTypeOK, AtRows
    <2>3. scReq' = [scReq EXCEPT ![r] = q]
      BY <1>4
    <2> HIDE DEF v, matched
    <2>4. q \in ScReqs /\ q.pc = "write" /\ q.user = o.user /\ q.ever = o.ever /\ q.held = o.held
      BY <1>1, <2>1, <2>2 DEF ScReqs, ReqStages
    <2> HIDE DEF q
    <2>5. PICK a \in matched : HasAccess(o.user, stored[a].folder)
      BY <1>4
    <2>6. stored[a].folder \in o.ever /\ at \in o.ever /\ o.held \subseteq onHold /\ at \notin onHold
      BY <1>1, <1>2, <1>4, <2>1, <2>5 DEF Reaches, CheckLegalHold
    <2>7. Reaches(q, at, stored, onHold)
      BY <2>4, <2>5, <2>6 DEF Reaches, HasAccess
    <2> QED
      BY <1>2, <2>3, <2>4, <2>7, QuietMoves
  <1> QED
    BY <1>3, <1>4 DEF CheckAgain

\* What a request at its write changes it reached rightfully.
LEMMA NotWrongly ==
    ASSUME ScInv, NEW r \in ScRequests, scReq[r].pc = "write", NEW hit
    PROVE  ~Wrongly(scReq[r], hit)
  BY ScParts DEF Reaches, Wrongly

\* So a write of a request that passed its checks wrongs nobody.
LEMMA GhostStays ==
    ASSUME ScInv, NEW r \in ScRequests, scReq[r].pc = "write", NEW hit,
           scGhost' = [scGhost EXCEPT !.wrong = @ \/ Wrongly(scReq[r], hit)]
    PROVE  scGhost' = scGhost
  <1>1. ScTypeOK /\ ~scGhost.wrong /\ ~Wrongly(scReq[r], hit)
    BY ScParts, NotWrongly
  <1> DEFINE b == scGhost.wrong \/ Wrongly(scReq[r], hit)
  <1>2. scGhost' = [scGhost EXCEPT !.wrong = b] /\ b = FALSE
    BY <1>1
  <1>3. scGhost.wrong = FALSE
    BY <1>1 DEF ScTypeOK
  <1> HIDE DEF b
  <1> QED
    BY <1>1, <1>2, <1>3 DEF ScTypeOK

\* An update keeps it: what it writes it reached rightfully.
LEMMA UpdateRowKeeps ==
    ASSUME ScInv, NEW r \in ScRequests, UpdateRow(r)
    PROVE  ScInv'
  <1>1. ScTypeOK /\ ~scGhost.wrong
    BY ScParts
  <1>2. PICK hit \in SUBSET Attached :
           /\ stored' = [a \in Atts |-> IF a \in hit THEN [stored[a] EXCEPT !.rev = @ + 1] ELSE stored[a]]
           /\ scGhost' = [scGhost EXCEPT !.wrong = @ \/ Wrongly(scReq[r], hit)]
    BY DEF UpdateRow
  <1>3. scReq[r].pc = "write" /\ scReq' = [scReq EXCEPT ![r] = NoReq] /\ UNCHANGED <<at, flag, onHold>>
    BY DEF UpdateRow, ScEnds
  <1>4. scGhost' = scGhost
    BY <1>2, <1>3, GhostStays
  <1>5. \A a \in Atts : stored'[a] \in AtRows /\ stored'[a].there = stored[a].there /\ stored'[a].folder = stored[a].folder
    BY <1>1, <1>2 DEF ScTypeOK, AtRows
  <1>6. stored' \in [Atts -> AtRows] /\ Attached' = Attached
    BY <1>2, <1>5 DEF Attached
  <1>7. FlagDue'
    <2>1. \A p \in ScRequests : scReq'[p] = IF p = r THEN NoReq ELSE scReq[p]
      BY <1>1, <1>3 DEF ScTypeOK
    <2>2. SUFFICES ASSUME ~Excusable PROVE FlagStands(scReq', flag.has, Attached)
      BY <1>3, <1>4, <1>6 DEF FlagDue, Excusable
    <2>3. FlagStands(scReq, flag.has, Attached)
      BY <2>2, ScParts DEF FlagDue
    <2> QED
      BY <2>1, <2>3, <1>3, NoReqType, DueQuiet
  <1> QED
    BY <1>1, <1>3, <1>4, <1>5, <1>6, <1>7, NoReqType, RestReaches, ReqMoves DEF ScTypeOK

\* What goes is nowhere else.
LEMMA GoneRows ==
    ASSUME ScTypeOK, NEW hit, stored' = Gone(hit)
    PROVE  /\ stored' \in [Atts -> AtRows] /\ IsFiniteSet(Attached')
           /\ \A a \in Atts : stored'[a].there => stored[a].there /\ stored'[a].folder = stored[a].folder
  <1>1. \A a \in Atts : stored'[a] \in AtRows /\ (stored'[a].there
            => stored[a].there) /\ stored'[a].folder = stored[a].folder
    <2> TAKE a \in Atts
    <2> DEFINE s == stored[a]
               t == [s EXCEPT !.there = FALSE, !.rev = s.rev + 1]
    <2>1. stored'[a] = IF a \in hit THEN t ELSE s
      BY DEF Gone
    <2>2. s \in AtRows /\ t \in AtRows /\ ~t.there /\ t.folder = s.folder
      <3>1. s \in AtRows
        BY DEF ScTypeOK
      <3> QED
        BY <3>1, RowGoes
    <2> HIDE DEF t
    <2> QED
      BY <2>1, <2>2
  <1>2. Attached' \subseteq Attached
    BY <1>1 DEF Attached
  <1> QED
    BY <1>1, <1>2, FS_Subset DEF Gone, ScTypeOK

\* A delete keeps it, and is about to count.
LEMMA DeleteRowKeeps ==
    ASSUME ScInv, NEW r \in ScRequests, DeleteRow(r)
    PROVE  ScInv'
  <1>1. ScTypeOK /\ ~scGhost.wrong /\ scReq[r] \in ScReqs /\ Reaches(scReq[r], at, stored, onHold)
    BY ScParts
  <1> DEFINE hit == scReq[r].att \cap Attached
             q == [scReq[r] EXCEPT !.pc = "count"]
  <1>2. /\ scReq[r].pc = "write" /\ scReq' = [scReq EXCEPT ![r] = q] /\ UNCHANGED <<at, flag, onHold>>
        /\ stored' = Gone(hit) /\ scGhost' = [scGhost EXCEPT !.wrong = @ \/ Wrongly(scReq[r], hit)]
    BY DEF DeleteRow, ScStep
  <1>3. q \in ScReqs /\ q.pc = "count" /\ q.ever = scReq[r].ever /\ q.held = scReq[r].held
    BY <1>1 DEF ScReqs, ReqStages
  <1> HIDE DEF q, hit
  <1>4. scGhost' = scGhost
    BY <1>2, GhostStays
  <1>5. Reaches(q, at, stored', onHold)
    BY <1>1, <1>2, <1>3 DEF Reaches
  <1>6. scReq'[r].pc = "count" /\ \A p \in ScRequests \ {r} : scReq'[p] = scReq[p]
    BY <1>1, <1>2, <1>3 DEF ScTypeOK
  <1>7. FlagDue'
    <2>1. SUFFICES ASSUME ~Excusable PROVE FlagStands(scReq', flag'.has, Attached')
      BY <1>4 DEF FlagDue, Excusable
    <2>2. FlagStands(scReq, flag.has, Attached)
      BY <2>1, ScParts DEF FlagDue
    <2>3. \A p \in ScRequests : scReq'[p].pc = "sync" => scReq[p].pc = "sync"
      BY <1>6
    <2> QED
      BY <2>2, <2>3, <1>6, DueCounting
  <1> QED
    BY <1>1, <1>2, <1>3, <1>4, <1>5, <1>7, GoneRows, ReqMoves DEF ScTypeOK

\* A truncate keeps it.
LEMMA TruncateRowsKeeps ==
    ASSUME ScInv, NEW r \in ScRequests, TruncateRows(r)
    PROVE  ScInv'
  <1>1. ScTypeOK /\ ~scGhost.wrong
    BY ScParts
  <1> DEFINE hit == scReq[r].att \cap Attached
  <1>2. /\ scReq[r].pc = "write" /\ scReq' = [scReq EXCEPT ![r] = NoReq] /\ UNCHANGED <<at, flag, onHold>>
        /\ stored' = Gone(hit) /\ scGhost' = [scGhost EXCEPT !.wrong = @ \/ Wrongly(scReq[r], hit), !.emptied = TRUE]
    BY DEF TruncateRows, ScEnds
  <1>3. scGhost' = [scGhost EXCEPT !.emptied = TRUE]
    <2> DEFINE b == scGhost.wrong \/ Wrongly(scReq[r], hit)
    <2>1. scGhost' = [scGhost EXCEPT !.wrong = b, !.emptied = TRUE] /\ b = FALSE
      BY <1>1, <1>2, NotWrongly
    <2>2. scGhost.wrong = FALSE
      BY <1>1 DEF ScTypeOK
    <2> HIDE DEF b
    <2> QED
      BY <1>1, <2>1, <2>2 DEF ScTypeOK
  <1> HIDE DEF hit
  <1>4. scGhost' \in [wrong : BOOLEAN, crossed : BOOLEAN, emptied : BOOLEAN] /\ ~scGhost'.wrong /\ scGhost'.emptied
    BY <1>1, <1>3 DEF ScTypeOK
  <1>5. FlagDue'
    BY <1>4 DEF FlagDue, Excusable
  <1> QED
    BY <1>1, <1>2, <1>4, <1>5, NoReqType, RestReaches, GoneRows, ReqMoves DEF ScTypeOK

\* countAttachments keeps it: one that finds another about to write the flag makes them crossed.
LEMMA CountKeeps ==
    ASSUME ScInv, NEW r \in ScRequests, CountAttachments(r)
    PROVE  ScInv'
  <1>1. ScTypeOK /\ FlagDue /\ ~scGhost.wrong /\ scReq[r] \in ScReqs /\ Reaches(scReq[r], at, stored, onHold)
    BY ScParts
  <1> DEFINE crosses == \E p \in ScRequests \ {r} : scReq[p].pc = "sync"
             c == Cardinality(Attached)
             q == [scReq[r] EXCEPT !.pc = "sync", !.count = c]
  <1>2. /\ scReq[r].pc = "count" /\ scReq' = [scReq EXCEPT ![r] = q] /\ UNCHANGED <<at, stored, flag, onHold>>
        /\ scGhost' = [scGhost EXCEPT !.crossed = @ \/ crosses]
    BY DEF CountAttachments
  <1>3. c \in Nat /\ (c > 0 <=> Attached # {})
    <2>1. IsFiniteSet(Attached)
      BY <1>1 DEF ScTypeOK
    <2> QED
      BY <2>1, FS_CardinalityType, FS_EmptySet
  <1> HIDE DEF c
  <1>4. q \in ScReqs /\ q.pc = "sync" /\ q.count = c /\ q.ever = scReq[r].ever /\ q.held = scReq[r].held
    BY <1>1, <1>3 DEF ScReqs, ReqStages
  <1>5. /\ scGhost' \in [wrong : BOOLEAN, crossed : BOOLEAN, emptied : BOOLEAN] /\ scGhost'.wrong = scGhost.wrong
        /\ scGhost'.emptied = scGhost.emptied /\ (crosses \/ scGhost.crossed => scGhost'.crossed)
    <2> DEFINE b == scGhost.crossed \/ crosses
    <2>1. scGhost' = [scGhost EXCEPT !.crossed = b] /\ b \in BOOLEAN /\ (crosses \/ scGhost.crossed => b = TRUE)
      BY <1>1, <1>2 DEF ScTypeOK
    <2> HIDE DEF b
    <2>2. scGhost'.crossed = b /\ scGhost' \in [wrong : BOOLEAN, crossed : BOOLEAN, emptied : BOOLEAN]
          /\ scGhost'.wrong = scGhost.wrong /\ scGhost'.emptied = scGhost.emptied
      BY <1>1, <2>1 DEF ScTypeOK
    <2> QED
      BY <2>1, <2>2
  <1> HIDE DEF q
  <1>6. Attached' = Attached
    BY <1>2 DEF Attached
  <1>7. FlagDue'
    <2>1. \A p \in ScRequests : scReq'[p] = IF p = r THEN q ELSE scReq[p]
      BY <1>1, <1>2 DEF ScTypeOK
    <2>2. SUFFICES ASSUME ~Excusable' PROVE FlagStands(scReq', flag.has, Attached)
      BY <1>2, <1>6 DEF FlagDue
    <2>3. ~crosses
      BY <1>5, <2>2 DEF Excusable
    <2>4. \A p \in ScRequests \ {r} : scReq'[p].pc # "sync"
      BY <2>1, <2>3
    <2>5. scReq'[r].pc = "sync" /\ CountRight(scReq'[r], Attached)
      BY <2>1, <1>3, <1>4 DEF CountRight
    <2> QED
      BY <2>4, <2>5 DEF FlagStands
  <1>8. Reaches(q, at, stored', onHold)
    BY <1>1, <1>2, <1>4 DEF Reaches
  <1> QED
    BY <1>1, <1>2, <1>4, <1>5, <1>6, <1>7, <1>8, ReqMoves DEF ScTypeOK

\* syncMessageHasAttachments() keeps it: it writes what it counted, unless another request is to count again.
LEMMA SyncKeeps ==
    ASSUME ScInv, NEW r \in ScRequests, SyncMessageHasAttachments(r)
    PROVE  ScInv'
  <1>1. ScTypeOK /\ FlagDue /\ ~scGhost.wrong
    BY ScParts
  <1>2. /\ scReq[r].pc = "sync" /\ scReq' = [scReq EXCEPT ![r] = NoReq] /\ UNCHANGED <<at, stored, onHold, scGhost>>
        /\ flag' = IF flag.has = SyncsTo(r) THEN flag ELSE [has |-> SyncsTo(r), rev |-> flag.rev + 1]
    BY DEF SyncMessageHasAttachments, ScEnds
  <1>3. flag' \in [has : BOOLEAN, rev : Nat] /\ flag'.has = SyncsTo(r)
    <2> DEFINE b == SyncsTo(r)
    <2>1. b \in BOOLEAN
      BY DEF SyncsTo
    <2> HIDE DEF b
    <2>2. flag' = IF flag.has = b THEN flag ELSE [has |-> b, rev |-> flag.rev + 1]
      BY <1>2 DEF b
    <2>3. flag' \in [has : BOOLEAN, rev : Nat] /\ flag'.has = b
      BY <1>1, <2>1, <2>2 DEF ScTypeOK
    <2> QED
      BY <2>3 DEF b
  <1>4. Attached' = Attached
    BY <1>2 DEF Attached
  <1>5. \A p \in ScRequests : scReq'[p] = IF p = r THEN NoReq ELSE scReq[p]
    BY <1>1, <1>2 DEF ScTypeOK
  <1>6. FlagDue'
    <2>1. SUFFICES ASSUME ~Excusable PROVE FlagStands(scReq', flag'.has, Attached)
      BY <1>2, <1>4 DEF FlagDue, Excusable
    <2>2. FlagStands(scReq, flag.has, Attached)
      BY <1>1, <2>1 DEF FlagDue
    <2>3. \A p \in ScRequests : scReq'[p].pc # "sync"
      BY <1>2, <1>5, <2>2, NoReqType DEF FlagStands
    <2>4. CASE \E p \in ScRequests : scReq[p].pc = "count"
      BY <2>3, <2>4, <1>2, <1>5 DEF FlagStands
    <2>5. CASE CountRight(scReq[r], Attached)
      BY <2>3, <2>5, <1>3 DEF FlagStands, CountRight, SyncsTo
    <2> QED
      BY <1>2, <2>2, <2>4, <2>5 DEF FlagStands
  <1> QED
    BY <1>1, <1>2, <1>3, <1>4, <1>6, NoReqType, RestReaches, ReqMoves DEF ScTypeOK

\* A step of the quota changes no request.
LEMMA ScStays == ScInv /\ UNCHANGED scvars => ScInv'
  BY DEF scvars, ScInv, ScTypeOK, ReachedRightfully, FlagDue, Excusable, FlagStands, CountRight, Attached

\* Every step of the requests keeps it.
LEMMA ScStepKeeps == ScInv /\ ScNext => ScInv'
  BY MoveMessageKeeps, ToggleHoldKeeps, UploadKeeps, BeginOneKeeps, BeginTruncateKeeps, RealignRowsKeeps,
     CheckAgainKeeps, UpdateRowKeeps,
     DeleteRowKeeps, TruncateRowsKeeps, CountKeeps, SyncKeeps DEF ScNext

\* It says that what was changed was reached rightfully, and what the flag is.
LEMMA ScInvGives == ScInv => ReachedRightfully /\ FlagFollows
  BY DEF ScInv, FlagDue, Excusable, FlagFollows, FlagStands

--------------------------------------------------------------------------------
UpStages == {"idle", "charge", "charged", "create", "refund", "refunded"}
\* The uploads and the recalculation have their type.
UpRecs == [pc : UpStages, seen : Nat, rev : Nat, tries : Nat]
RecalcRecs == [pc : {"idle", "scan", "look", "write"}, start : Nat, startRev : Nat, found : Nat,
               seen : Nat, rev : Nat, alone : BOOLEAN]
QTypeOK == /\ used \in [bytes : Nat, rev : Nat] /\ rows \in Nat /\ up \in [Uploads -> UpRecs]
           /\ recalc \in RecalcRecs /\ drift \in BOOLEAN
\* A charge whose row is not there yet, or a refund of one that is gone.
Owing(u) == u.pc \in {"create", "refund", "refunded"}
Units(u) == IF Owing(u) THEN 1 ELSE 0
Charges == {w \in Uploads : Owing(up[w])}
\* Who read the row that is still there knows what it holds.
ReadsRight(u, b) == /\ u.rev <= b.rev
                    /\ u.pc \in {"charged", "refunded"} /\ u.rev = b.rev => u.seen = b.bytes
                    /\ u.pc = "charge" => u.tries > 0
\* The mailbox is charged for its rows and for what is on its way.
Balanced == IsFiniteSet(Charges) /\ (~drift => used.bytes = rows + Cardinality(Charges))
\* A recalculation that runs alone sees the row and counts the rows as they are.
RunsAlone == recalc.pc # "idle" /\ recalc.alone =>
                /\ \A w \in Uploads : up[w].pc = "idle"
                /\ recalc.start = used.bytes /\ recalc.startRev = used.rev
                /\ recalc.pc # "scan" => recalc.found = rows
                /\ recalc.pc = "write" => recalc.rev = used.rev /\ recalc.seen = used.bytes
QInv == QTypeOK /\ Balanced /\ RunsAlone /\ \A w \in Uploads : ReadsRight(up[w], used)

\* An upload and a recalculation at rest have their types.
LEMMA IdleRecords ==
    /\ NoUpload \in UpRecs /\ NoUpload.pc = "idle" /\ NoUpload.rev = 0
    /\ NoRecalc \in RecalcRecs /\ NoRecalc.pc = "idle"
  BY DEF NoUpload, UpRecs, UpStages, NoRecalc, RecalcRecs

\* An upload at rest has read nothing.
LEMMA IdleReads ==
    ASSUME NEW b, b.rev \in Nat
    PROVE  ReadsRight(NoUpload, b)
  BY DEF ReadsRight, NoUpload

\* An empty mailbox is charged for nothing.
LEMMA QStarts == QInit => QInv
  <1> SUFFICES ASSUME QInit PROVE QInv
    OBVIOUS
  <1>1. QTypeOK
    BY IdleRecords DEF QInit, QTypeOK
  <1>2. Charges = {}
    BY IdleRecords DEF QInit, Charges, Owing
  <1>3. Balanced
    BY <1>2, FS_EmptySet DEF QInit, Balanced
  <1> QED
    BY <1>1, <1>3, IdleReads, IdleRecords DEF QInit, QInv, RunsAlone

\* What the invariant says of the types, and of every upload.
LEMMA QParts ==
    ASSUME QInv
    PROVE  /\ QTypeOK /\ Balanced /\ RunsAlone /\ used.bytes \in Nat /\ used.rev \in Nat /\ rows \in Nat
           /\ \A w \in Uploads : up[w] \in UpRecs /\ ReadsRight(up[w], used)
  BY DEF QInv, QTypeOK

\* One upload moves, and what it owes with it.
LEMMA UploadMoves ==
    ASSUME QInv, NEW w \in Uploads, NEW u \in UpRecs, up' = [up EXCEPT ![w] = u], Unsettled,
           used' \in [bytes : Nat, rev : Nat], used' = used \/ used'.rev = used.rev + 1, rows' \in Nat, drift' \in BOOLEAN,
           ReadsRight(u, used'), ~drift' => ~drift /\ used'.bytes + rows + Units(up[w]) = used.bytes + rows' + Units(u)
    PROVE  QInv'
  <1>1. QTypeOK /\ Balanced /\ used.rev \in Nat /\ used.bytes \in Nat /\ rows \in Nat
    BY QParts
  <1>2. recalc' \in RecalcRecs /\ (recalc'.pc # "idle" => recalc'.alone = FALSE)
    BY <1>1 DEF Unsettled, QTypeOK, RecalcRecs
  <1>3. QTypeOK' /\ \A x \in Uploads : up'[x] = IF x = w THEN u ELSE up[x]
    BY <1>1, <1>2 DEF QTypeOK
  <1>4. RunsAlone'
    BY <1>2 DEF RunsAlone
  <1>5. ASSUME NEW x \in Uploads PROVE ReadsRight(up'[x], used')
    <2>1. CASE x = w
      BY <1>3, <2>1
    <2>2. CASE x # w /\ used' = used
      BY <1>3, <2>2, QParts
    <2>3. CASE x # w /\ used'.rev = used.rev + 1
      <3>1. up[x] \in UpRecs /\ ReadsRight(up[x], used)
        BY QParts
      <3>2. up[x].rev \in Nat
        BY <3>1 DEF UpRecs
      <3> QED
        BY <3>1, <3>2, <1>1, <1>3, <2>3 DEF ReadsRight
    <2> QED
      BY <2>1, <2>2, <2>3
  <1>6. Charges' = IF Owing(u) THEN Charges \cup {w} ELSE Charges \ {w}
    BY <1>3 DEF Charges
  <1>7. IsFiniteSet(Charges) /\ Cardinality(Charges) \in Nat /\ (w \in Charges <=> Owing(up[w]))
    BY <1>1, FS_CardinalityType DEF Balanced, Charges
  <1>8. IsFiniteSet(Charges') /\ Cardinality(Charges') + Units(up[w]) = Cardinality(Charges) + Units(u)
    <2>1. CASE Owing(u)
      <3>1. IsFiniteSet(Charges') /\ Cardinality(Charges') = IF w \in Charges THEN Cardinality(Charges)
                ELSE Cardinality(Charges) + 1
        BY <1>6, <1>7, <2>1, FS_AddElement
      <3>2. Units(u) = 1 /\ Units(up[w]) = IF w \in Charges THEN 1 ELSE 0
        BY <1>7, <2>1 DEF Units
      <3> QED
        BY <3>1, <3>2, <1>7
    <2>2. CASE ~Owing(u)
      <3>1. IsFiniteSet(Charges') /\ Cardinality(Charges') = IF w \in Charges THEN Cardinality(Charges) - 1
                ELSE Cardinality(Charges)
        BY <1>6, <1>7, <2>2, FS_RemoveElement
      <3>2. Units(u) = 0 /\ Units(up[w]) = IF w \in Charges THEN 1 ELSE 0
        BY <1>7, <2>2 DEF Units
      <3> QED
        BY <3>1, <3>2, <1>7
    <2> QED
      BY <2>1, <2>2
  <1>9. Balanced'
    <2>1. SUFFICES ASSUME ~drift' PROVE used'.bytes = rows' + Cardinality(Charges')
      BY <1>8 DEF Balanced
    <2>2. used.bytes = rows + Cardinality(Charges) /\ used'.bytes + rows + Units(up[w]) = used.bytes + rows' + Units(u)
      BY <2>1, <1>1 DEF Balanced
    <2>3. used'.bytes \in Nat /\ Cardinality(Charges') \in Nat /\ Units(up[w]) \in Nat /\ Units(u) \in Nat
      BY <1>8, FS_CardinalityType DEF Units
    <2> QED
      BY <2>2, <2>3, <1>1, <1>7, <1>8
  <1> QED
    BY <1>3, <1>4, <1>5, <1>9 DEF QInv

\* A charge's read of the mailbox row keeps it.
LEMMA ChargeReadsKeeps ==
    ASSUME QInv, NEW w \in Uploads, ChargeReads(w)
    PROVE  QInv'
  <1> DEFINE u == [pc |-> "charged", seen |-> used.bytes, rev |-> used.rev, tries |-> up[w].tries]
  <1>1. QTypeOK /\ used.bytes \in Nat /\ used.rev \in Nat /\ up[w] \in UpRecs
    BY QParts
  <1>2. up' = [up EXCEPT ![w] = u] /\ Unsettled /\ UNCHANGED <<used, rows, drift>> /\ up[w].pc \in {"idle", "charge"}
    BY DEF ChargeReads
  <1>3. u \in UpRecs /\ u.pc = "charged" /\ u.seen = used.bytes /\ u.rev = used.rev
    BY <1>1 DEF UpRecs, UpStages
  <1> HIDE DEF u
  <1>4. ReadsRight(u, used) /\ Units(u) = 0 /\ Units(up[w]) = 0
    BY <1>1, <1>2, <1>3 DEF ReadsRight, Units, Owing
  <1> QED
    BY <1>1, <1>2, <1>3, <1>4, UploadMoves DEF QTypeOK

\* A charge that no longer fits the quota keeps it.
LEMMA RetryRefusedKeeps ==
    ASSUME QInv, NEW w \in Uploads, RetryRefused(w)
    PROVE  QInv'
  <1>1. QTypeOK /\ Balanced /\ RunsAlone /\ used.rev \in Nat
    BY QParts
  <1>2. up[w].pc = "charge" /\ up' = [up EXCEPT ![w] = NoUpload] /\ UNCHANGED <<used, rows, recalc, drift>>
    BY DEF RetryRefused
  <1>3. QTypeOK' /\ \A x \in Uploads : up'[x] = IF x = w THEN NoUpload ELSE up[x]
    BY <1>1, <1>2, IdleRecords DEF QTypeOK
  <1>4. Charges' = Charges
    BY <1>2, <1>3, IdleRecords DEF Charges, Owing
  <1>5. RunsAlone'
    BY <1>1, <1>2 DEF RunsAlone
  <1>6. \A x \in Uploads : ReadsRight(up'[x], used)
    BY <1>1, <1>3, IdleReads, QParts
  <1> QED
    BY <1>1, <1>2, <1>3, <1>4, <1>5, <1>6 DEF QInv, Balanced

\* A write onto the row as it was read writes onto what it holds.
LEMMA ChargeMailboxQuotaKeeps ==
    ASSUME QInv, NEW w \in Uploads, ChargeMailboxQuota(w)
    PROVE  QInv'
  <1>1. QTypeOK /\ used.bytes \in Nat /\ used.rev \in Nat /\ rows \in Nat /\ up[w] \in UpRecs /\ ReadsRight(up[w], used)
    BY QParts
  <1>2. up[w].pc = "charged" /\ Unsettled /\ UNCHANGED <<rows, drift>>
    BY DEF ChargeMailboxQuota
  <1>3. CASE Unmoved(up[w].rev)
    <2> DEFINE u == [up[w] EXCEPT !.pc = "create"]
    <2>1. used' = [bytes |-> up[w].seen + 1, rev |-> used.rev + 1] /\ up' = [up EXCEPT ![w] = u]
      BY <1>3 DEF ChargeMailboxQuota, UpStep
    <2>2. u \in UpRecs /\ u.pc = "create" /\ u.rev = up[w].rev /\ up[w].rev \in Nat
      BY <1>1 DEF UpRecs, UpStages
    <2> HIDE DEF u
    <2>3. up[w].seen = used.bytes /\ up[w].rev = used.rev
      BY <1>1, <1>2, <1>3 DEF ReadsRight, Unmoved
    <2>4. used' \in [bytes : Nat, rev : Nat] /\ used'.bytes = used.bytes + 1 /\ used'.rev = used.rev + 1
      BY <2>1, <2>3, <1>1
    <2>5. ReadsRight(u, used') /\ Units(u) = 1 /\ Units(up[w]) = 0
      BY <1>1, <1>2, <2>2, <2>3, <2>4 DEF ReadsRight, Units, Owing
    <2>6. drift' \in BOOLEAN /\ rows' \in Nat
      BY <1>1, <1>2 DEF QTypeOK
    <2>7. ~drift' => ~drift /\ used'.bytes + rows + Units(up[w]) = used.bytes + rows' + Units(u)
      BY <1>1, <1>2, <2>4, <2>5
    <2> QED
      BY <1>2, <2>1, <2>2, <2>4, <2>5, <2>6, <2>7, UploadMoves
  <1>4. CASE ~Unmoved(up[w].rev)
    <2>1. /\ up' = [up EXCEPT ![w] = TriesAgain(@, "charge")]
          /\ UNCHANGED used
      BY <1>4 DEF ChargeMailboxQuota
    <2>2. PICK u \in UpRecs : up' = [up EXCEPT ![w] = u] /\ ReadsRight(u, used) /\ ~Owing(u)
      <3> DEFINE n == up[w].tries + 1
                 u == [up[w] EXCEPT !.pc = "charge", !.tries = n]
      <3>1. n \in Nat /\ n > 0
        BY <1>1 DEF UpRecs
      <3>2. up' = [up EXCEPT ![w] = NoUpload] \/ up' = [up EXCEPT ![w] = u]
        <4>1. TriesAgain(up[w], "charge") = IF n = MaxQuotaTries THEN NoUpload ELSE u
          BY DEF TriesAgain
        <4> HIDE DEF n, u
        <4> QED
          BY <2>1, <4>1
      <3> HIDE DEF n
      <3>3. u \in UpRecs /\ u.pc = "charge" /\ u.rev = up[w].rev /\ u.tries = n
        BY <1>1, <3>1 DEF UpRecs, UpStages
      <3> HIDE DEF u
      <3>4. ReadsRight(u, used) /\ ~Owing(u) /\ ReadsRight(NoUpload, used) /\ ~Owing(NoUpload)
        BY <1>1, <3>1, <3>3, IdleReads, IdleRecords DEF ReadsRight, Owing
      <3> QED
        BY <3>2, <3>3, <3>4, IdleRecords
    <2>3. Units(u) = 0 /\ Units(up[w]) = 0
      BY <1>2, <2>2 DEF Units, Owing
    <2> QED
      BY <1>1, <1>2, <2>1, <2>2, <2>3, UploadMoves DEF QTypeOK
  <1> QED
    BY <1>3, <1>4

\* An upload that owes a refund has its type.
LEMMA RefundOwed == LET u == [NoUpload EXCEPT !.pc = "refund"] IN u \in UpRecs /\ u.pc = "refund" /\ u.rev = 0
  BY DEF NoUpload, UpRecs, UpStages

\* The row of a charge keeps it: written it is paid for, failed it owes the refund, and a server that stops says so.
LEMMA CreateRowKeeps ==
    ASSUME QInv, NEW w \in Uploads, CreateRow(w)
    PROVE  QInv'
  <1>1. QTypeOK /\ used.bytes \in Nat /\ used.rev \in Nat /\ rows \in Nat /\ drift \in BOOLEAN
    BY QParts DEF QTypeOK
  <1>2. up[w].pc = "create" /\ Unsettled /\ UNCHANGED used
    BY DEF CreateRow
  <1> DEFINE u == [NoUpload EXCEPT !.pc = "refund"]
  <1>3. u \in UpRecs /\ u.pc = "refund" /\ u.rev = 0
    BY RefundOwed
  <1>4. \/ rows' = rows + 1 /\ up' = [up EXCEPT ![w] = NoUpload] /\ drift' = drift
        \/ rows' = rows /\ up' = [up EXCEPT ![w] = u] /\ drift' = drift
        \/ rows' = rows /\ up' = [up EXCEPT ![w] = NoUpload] /\ drift' = TRUE
    BY DEF CreateRow
  <1> HIDE DEF u
  <1>5. ReadsRight(u, used) /\ ReadsRight(NoUpload, used) /\ Units(up[w]) = 1 /\ Units(u) = 1 /\ Units(NoUpload) = 0
    BY <1>1, <1>2, <1>3, IdleReads, IdleRecords DEF ReadsRight, Units, Owing
  <1>6. rows' \in Nat /\ drift' \in BOOLEAN /\ used' = used /\ used \in [bytes : Nat, rev : Nat]
    <2>1. rows' = rows + 1 \/ rows' = rows
      BY <1>4
    <2>2. drift' = drift \/ drift' = TRUE
      BY <1>4
    <2>3. drift' \in BOOLEAN
      BY <1>1, <2>2, Zenon
    <2> QED
      BY <1>1, <1>2, <2>1, <2>3 DEF QTypeOK
  <1>7. CASE up' = [up EXCEPT ![w] = u] /\ rows' = rows /\ drift' = drift
    <2>1. ~drift' => ~drift /\ used'.bytes + rows + Units(up[w]) = used.bytes + rows' + Units(u)
      BY <1>1, <1>5, <1>6, <1>7
    <2> QED
      BY <1>2, <1>3, <1>5, <1>6, <1>7, <2>1, UploadMoves
  <1>8. CASE up' = [up EXCEPT ![w] = NoUpload] /\ (drift' = TRUE \/ (drift' = drift /\ rows' = rows + 1))
    <2>1. ~drift' => ~drift /\ used'.bytes + rows + Units(up[w]) = used.bytes + rows' + Units(NoUpload)
      BY <1>1, <1>5, <1>6, <1>8
    <2> QED
      BY <1>2, <1>5, <1>6, <1>8, <2>1, IdleRecords, UploadMoves
  <1> QED
    BY <1>4, <1>7, <1>8

\* A purge keeps it: the row gone owes the refund.
LEMMA PurgeRowKeeps ==
    ASSUME QInv, NEW w \in Uploads, PurgeRow(w)
    PROVE  QInv'
  <1>1. QTypeOK /\ used.bytes \in Nat /\ used.rev \in Nat /\ rows \in Nat /\ drift \in BOOLEAN
    BY QParts DEF QTypeOK
  <1> DEFINE u == [NoUpload EXCEPT !.pc = "refund"]
  <1>2. /\ up[w].pc = "idle" /\ Unsettled /\ UNCHANGED <<used, drift>> /\ rows > 0 /\ rows' = rows - 1
        /\ up' = [up EXCEPT ![w] = u]
    BY DEF PurgeRow
  <1>3. u \in UpRecs /\ u.pc = "refund" /\ u.rev = 0
    BY RefundOwed
  <1> HIDE DEF u
  <1>5. ReadsRight(u, used) /\ Units(up[w]) = 0 /\ Units(u) = 1
    BY <1>1, <1>2, <1>3 DEF ReadsRight, Units, Owing
  <1>6. rows' \in Nat /\ rows = rows' + 1 /\ used \in [bytes : Nat, rev : Nat]
    BY <1>1, <1>2 DEF QTypeOK
  <1>7. used'.bytes + rows + Units(up[w]) = used.bytes + rows' + Units(u)
    BY <1>1, <1>2, <1>5, <1>6
  <1> QED
    BY <1>1, <1>2, <1>3, <1>5, <1>6, <1>7, UploadMoves

\* A refund's read keeps it.
LEMMA RefundReadsKeeps ==
    ASSUME QInv, NEW w \in Uploads, RefundReads(w)
    PROVE  QInv'
  <1> DEFINE u == [up[w] EXCEPT !.pc = "refunded", !.seen = used.bytes, !.rev = used.rev]
  <1>1. QTypeOK /\ used.bytes \in Nat /\ used.rev \in Nat /\ up[w] \in UpRecs
    BY QParts
  <1>2. up' = [up EXCEPT ![w] = u] /\ Unsettled /\ UNCHANGED <<used, rows, drift>> /\ up[w].pc = "refund"
    BY DEF RefundReads
  <1>3. u \in UpRecs /\ u.pc = "refunded" /\ u.seen = used.bytes /\ u.rev = used.rev
    BY <1>1 DEF UpRecs, UpStages
  <1> HIDE DEF u
  <1>4. ReadsRight(u, used) /\ Units(u) = 1 /\ Units(up[w]) = 1
    BY <1>1, <1>2, <1>3 DEF ReadsRight, Units, Owing
  <1> QED
    BY <1>1, <1>2, <1>3, <1>4, UploadMoves DEF QTypeOK

\* refundMailboxQuota() keeps it: it takes the unit off the row it read, tries again, or says that it gave up; the floor
\* at zero is not met, for the unit is among those charged.
LEMMA RefundMailboxQuotaKeeps ==
    ASSUME QInv, NEW w \in Uploads, RefundMailboxQuota(w)
    PROVE  QInv'
  <1>1. /\ QTypeOK /\ Balanced /\ used.bytes \in Nat /\ used.rev \in Nat /\ rows \in Nat /\ up[w] \in UpRecs
        /\ ReadsRight(up[w], used)
    BY QParts
  <1>2. up[w].pc = "refunded" /\ Unsettled /\ UNCHANGED rows /\ Units(up[w]) = 1
    BY DEF RefundMailboxQuota, Units, Owing
  <1>3. CASE Unmoved(up[w].rev)
    <2>1. /\ used' = [bytes |-> IF up[w].seen = 0 THEN 0 ELSE up[w].seen - 1, rev |-> used.rev + 1]
          /\ up' = [up EXCEPT ![w] = NoUpload] /\ drift' = drift
      BY <1>3 DEF RefundMailboxQuota
    <2>2. up[w].seen = used.bytes
      BY <1>1, <1>2, <1>3 DEF ReadsRight, Unmoved
    <2> DEFINE b == IF used.bytes = 0 THEN 0 ELSE used.bytes - 1
    <2>3. b \in Nat /\ used' = [bytes |-> b, rev |-> used.rev + 1]
      BY <2>1, <2>2, <1>1
    <2>4. ~drift => used.bytes > 0
      <3>1. w \in Charges /\ IsFiniteSet(Charges)
        BY <1>1, <1>2 DEF Charges, Owing, Balanced
      <3>2. Cardinality(Charges) \in Nat /\ Cardinality(Charges) # 0
        BY <3>1, FS_CardinalityType, FS_EmptySet
      <3> QED
        BY <3>2, <1>1 DEF Balanced
    <2>5. ~drift => b + 1 = used.bytes
      BY <2>4, <1>1
    <2> HIDE DEF b
    <2>6. used' \in [bytes : Nat, rev : Nat] /\ used'.bytes = b /\ used'.rev = used.rev + 1
      BY <2>3, <1>1
    <2>7. ReadsRight(NoUpload, used') /\ Units(NoUpload) = 0
      BY <2>6, <1>1, IdleReads, IdleRecords DEF Units, Owing
    <2>8. ~drift' => ~drift /\ used'.bytes + rows + Units(up[w]) = used.bytes + rows' + Units(NoUpload)
      BY <1>1, <1>2, <2>1, <2>3, <2>5, <2>6, <2>7
    <2>9. drift' \in BOOLEAN /\ rows' \in Nat
      BY <1>1, <1>2, <2>1 DEF QTypeOK
    <2> QED
      BY <1>2, <2>1, <2>6, <2>7, <2>8, <2>9, IdleRecords, UploadMoves
  <1>4. CASE ~Unmoved(up[w].rev)
    <2>1. /\ up' = [up EXCEPT ![w] = TriesAgain(@, "refund")]
          /\ UNCHANGED used /\ drift' = (drift \/ up[w].tries + 1 = MaxQuotaTries)
      BY <1>4 DEF RefundMailboxQuota
    <2>2. used' \in [bytes : Nat, rev : Nat] /\ drift' \in BOOLEAN
      BY <1>1, <2>1 DEF QTypeOK
    <2>3. CASE up[w].tries + 1 = MaxQuotaTries
      <3>1. up' = [up EXCEPT ![w] = NoUpload] /\ drift' = TRUE
        BY <2>1, <2>3 DEF TriesAgain
      <3> QED
        BY <1>1, <1>2, <2>1, <2>2, <3>1, IdleRecords, IdleReads, UploadMoves
    <2>4. CASE up[w].tries + 1 # MaxQuotaTries
      <3> DEFINE n == up[w].tries + 1
                 u == [up[w] EXCEPT !.pc = "refund", !.tries = n]
      <3>1. n \in Nat
        BY <1>1 DEF UpRecs
      <3>2. up' = [up EXCEPT ![w] = u] /\ (~drift' => ~drift)
        <4>1. TriesAgain(up[w], "refund") = u
          BY <2>4 DEF TriesAgain
        <4>2. ~drift' => ~drift
          BY <2>1
        <4> HIDE DEF n, u
        <4> QED
          BY <2>1, <4>1, <4>2
      <3> HIDE DEF n
      <3>3. u \in UpRecs /\ u.pc = "refund" /\ u.rev = up[w].rev
        BY <1>1, <3>1 DEF UpRecs, UpStages
      <3> HIDE DEF u
      <3>4. ReadsRight(u, used) /\ Units(u) = 1
        BY <1>1, <3>3 DEF ReadsRight, Units, Owing
      <3> QED
        BY <1>1, <1>2, <2>1, <2>2, <3>2, <3>3, <3>4, UploadMoves
    <2> QED
      BY <2>3, <2>4
  <1> QED
    BY <1>3, <1>4

\* The recalculation moves, and writes nothing but its own steps.
LEMMA RecalcMoves ==
    ASSUME QInv, UNCHANGED <<used, rows, up, drift>>, recalc' \in RecalcRecs, RunsAlone'
    PROVE  QInv'
  BY DEF QInv, QTypeOK, Balanced, Charges

\* MailboxQuotaRecalcJob reading the row keeps it: alone, if no charge is on its way.
LEMMA RecalcStartsKeeps ==
    ASSUME QInv, RecalcStarts
    PROVE  QInv'
  <1> DEFINE b == ~InFlight
             n == [NoRecalc EXCEPT !.pc = "scan", !.start = used.bytes, !.startRev = used.rev, !.alone = b]
  <1>1. used.bytes \in Nat /\ used.rev \in Nat /\ \A w \in Uploads : up[w] \in UpRecs /\ ReadsRight(up[w], used)
    BY QParts
  <1>2. recalc' = n /\ UNCHANGED <<used, rows, up, drift>>
    BY DEF RecalcStarts
  <1>3. b \in BOOLEAN
    OBVIOUS
  <1>4. b => \A w \in Uploads : up[w].pc = "idle"
    BY <1>1 DEF InFlight, ReadsRight
  <1> HIDE DEF b
  <1>5. n \in RecalcRecs /\ n.pc = "scan" /\ n.start = used.bytes /\ n.startRev = used.rev /\ n.alone = b
    BY <1>1, <1>3 DEF NoRecalc, RecalcRecs
  <1> HIDE DEF n
  <1>6. RunsAlone'
    BY <1>2, <1>4, <1>5 DEF RunsAlone
  <1> QED
    BY <1>2, <1>5, <1>6, RecalcMoves

\* Its count of the rows keeps it; one that missed a body no longer counts as alone.
LEMMA RecalcScansKeeps ==
    ASSUME QInv, RecalcScans
    PROVE  QInv'
  <1>1. QTypeOK /\ RunsAlone /\ rows \in Nat /\ recalc \in RecalcRecs
    BY QParts DEF QTypeOK
  <1>2. recalc.pc = "scan" /\ UNCHANGED <<used, rows, up, drift>>
    BY DEF RecalcScans
  <1> DEFINE whole == [recalc EXCEPT !.pc = "look", !.found = rows]
             less == rows - 1
             part == [recalc EXCEPT !.pc = "look", !.found = less, !.alone = FALSE]
  <1>3. recalc' = NoRecalc \/ recalc' = whole \/ (rows > 0 /\ recalc' = part)
    <2>1. BodySizes(0) = rows /\ BodySizes(1) = less
      BY <1>1 DEF BodySizes
    <2> HIDE DEF less
    <2> QED
      BY <2>1 DEF RecalcScans
  <1>4. rows > 0 => less \in Nat
    BY <1>1
  <1> HIDE DEF less
  <1>5. /\ whole \in RecalcRecs /\ whole.pc = "look" /\ whole.found = rows /\ whole.alone = recalc.alone
        /\ whole.start = recalc.start /\ whole.startRev = recalc.startRev
        /\ (rows > 0 => part \in RecalcRecs /\ part.alone = FALSE)
    BY <1>1, <1>4 DEF RecalcRecs
  <1> HIDE DEF whole, part
  <1>6. RunsAlone'
    BY <1>1, <1>2, <1>3, <1>5, IdleRecords DEF RunsAlone
  <1> QED
    BY <1>2, <1>3, <1>5, <1>6, IdleRecords, RecalcMoves

\* Its second read keeps it.
LEMMA RecalcLooksKeeps ==
    ASSUME QInv, RecalcLooks
    PROVE  QInv'
  <1> DEFINE n == [recalc EXCEPT !.pc = "write", !.seen = used.bytes, !.rev = used.rev]
  <1>1. RunsAlone /\ used.bytes \in Nat /\ used.rev \in Nat /\ recalc \in RecalcRecs
    BY QParts DEF QTypeOK
  <1>2. recalc' = n /\ UNCHANGED <<used, rows, up, drift>> /\ recalc.pc = "look"
    BY DEF RecalcLooks
  <1>5. /\ n \in RecalcRecs /\ n.pc = "write" /\ n.start = recalc.start /\ n.startRev = recalc.startRev
        /\ n.alone = recalc.alone
        /\ n.found = recalc.found /\ n.seen = used.bytes /\ n.rev = used.rev
    BY <1>1 DEF RecalcRecs
  <1> HIDE DEF n
  <1>6. RunsAlone'
    BY <1>1, <1>2, <1>5 DEF RunsAlone
  <1> QED
    BY <1>2, <1>5, <1>6, RecalcMoves

\* Alone, the recalculation writes what the mailbox holds; across a charge it says so.
LEMMA RecalcMailboxKeeps ==
    ASSUME QInv, RecalcMailbox
    PROVE  QInv'
  <1> DEFINE t == RecalcTarget(recalc)
  <1>1. /\ QTypeOK /\ Balanced /\ RunsAlone /\ used.bytes \in Nat /\ used.rev \in Nat /\ rows \in Nat
        /\ recalc \in RecalcRecs
    BY QParts DEF QTypeOK
  <1>2. recalc.pc = "write" /\ recalc' = NoRecalc /\ UNCHANGED <<rows, up>>
    BY DEF RecalcMailbox
  <1>3. t \in Nat
    BY <1>1 DEF RecalcTarget, RecalcRecs
  <1>4. recalc.alone => t = rows /\ Charges = {}
    BY <1>1, <1>2 DEF RunsAlone, RecalcTarget, Charges, Owing
  <1>5. Charges' = Charges
    BY <1>2 DEF Charges
  <1>6. CASE used' = [bytes |-> t, rev |-> used.rev + 1] /\ drift' = ~recalc.alone
    <2> HIDE DEF t
    <2>1. used' \in [bytes : Nat, rev : Nat] /\ used'.bytes = t /\ used'.rev = used.rev + 1
      BY <1>1, <1>3, <1>6
    <2>2. drift' \in BOOLEAN /\ (~drift' => recalc.alone)
      BY <1>6
    <2>3. QTypeOK' /\ RunsAlone'
      BY <1>1, <1>2, <2>1, <2>2, IdleRecords DEF QTypeOK, RunsAlone
    <2>4. Balanced'
      BY <1>1, <1>2, <1>4, <1>5, <2>1, <2>2, FS_EmptySet DEF Balanced
    <2>5. \A x \in Uploads : ReadsRight(up[x], used')
      <3> TAKE x \in Uploads
      <3>1. up[x] \in UpRecs /\ ReadsRight(up[x], used)
        BY QParts
      <3>2. up[x].rev \in Nat
        BY <3>1 DEF UpRecs
      <3> QED
        BY <3>1, <3>2, <1>1, <2>1 DEF ReadsRight
    <2> QED
      BY <1>2, <2>3, <2>4, <2>5 DEF QInv
  <1>7. CASE UNCHANGED <<used, drift>>
    BY <1>2, <1>7, IdleRecords, RecalcMoves DEF RunsAlone
  <1> QED
    BY <1>6, <1>7 DEF RecalcMailbox

\* A step of the requests charges nothing.
LEMMA QStays == QInv /\ UNCHANGED qvars => QInv'
  BY DEF qvars, QInv, QTypeOK, Balanced, RunsAlone, Charges

\* Every step of the quota keeps it.
LEMMA QStepKeeps == QInv /\ QNext => QInv'
  BY ChargeReadsKeeps, ChargeMailboxQuotaKeeps, RetryRefusedKeeps, CreateRowKeeps, PurgeRowKeeps, RefundReadsKeeps,
     RefundMailboxQuotaKeeps,
     RecalcStartsKeeps, RecalcScansKeeps, RecalcLooksKeeps, RecalcMailboxKeeps DEF QNext

\* With nothing under way the charge is exact.
LEMMA QInvGives == QInv => UsedIsExact
  <1> SUFFICES ASSUME QInv, \A w \in Uploads : up[w].pc = "idle", ~drift PROVE used.bytes = rows
    BY DEF UsedIsExact
  <1>1. Charges = {}
    BY DEF Charges, Owing
  <1> QED
    BY <1>1, QParts, FS_EmptySet DEF Balanced

AtInv == ScInv /\ QInv

\* The invariant of both halves is inductive, for any attachments, places, requests and uploads.
THEOREM AttachmentsInductive == AtSpec => []AtInv
  <1>1. AtInit => AtInv
    BY ScStarts, QStarts DEF AtInit, AtInv
  <1>2. AtInv /\ [AtNext]_atvars => AtInv'
    BY ScStepKeeps, QStepKeeps, ScStays, QStays DEF AtInv, AtNext, atvars
  <1> QED
    BY <1>1, <1>2, PTL DEF AtSpec

\* A message's attachments stay with those who may reach them, its flag follows them, and the mailbox is charged for exactly
\* what it holds (AttachmentsHold).
THEOREM AttachmentsHeld == AtSpec => []AttachmentsHold
  <1>1. AtInv => AttachmentsHold
    BY ScInvGives, QInvGives DEF AtInv, AttachmentsHold
  <1> QED
    BY <1>1, AttachmentsInductive, PTL

================================================================================
