------------------------------- MODULE KeyProofs -------------------------------
(****************************************************************************)
(* What is proved of keys: access to the escrowed ones, the rotation of the *)
(* configuration key, a mailbox's key vault, the keys of a shared mailbox   *)
(* and the keys held for a correspondent. The components share no variable; *)
(* each has an invariant of its own.                                        *)
(****************************************************************************)
EXTENDS EscrowAccess, ConfigKeys, KeyVault, ContactKeys, FiniteSetTheorems, WellFoundedInduction, TLAPS

--------------------------------------------------------------------------------
(****************************************************************************)
(* Access to escrowed keys and its audit log keep their promise, for any    *)
(* number of users, operations, retries, entries and failures.              *)
(*                                                                          *)
(* What an operation holds is a copy of the request, read or yet to be      *)
(* written; the request only gains approvers, and its version stands for    *)
(* what it is and who approved it (Grows), so a copy of the same version    *)
(* is as good as the request (CopyOK). An operation past the insertion of   *)
(* its entry has it in the log (Entered), which only grows; so whoever      *)
(* counts has an entry, or an operation that will write one, or is among    *)
(* the failed (Recorded). The head's version stands for its sequence        *)
(* number (Heads): it never moves back. Effects says what each step does    *)
(* to the operation, AskMoves, LogMoves and HeadMoves what to the rest.     *)
(****************************************************************************)

Acts == {"created", "approved", "read"}
Entry == [act: Acts, who: Users, prev: Nat]
AskStates == {"none", "pending", "approved", "denied", "fulfilled"}
Approval == [who: Users, old: BOOLEAN]
AskRow == [is: AskStates, by: Seq(Approval), need: Nat, ver: Nat]
HeadRow == [seq: Nat, ver: Nat]
AtEntry == {"append", "insert", "head", "advance", "answer"}
OpState == [at: {"idle", "walk", "persist"} \cup AtEntry, act: Acts \cup {"none", "verify"},
    who: Users \cup {"nobody"}, row: AskRow,
            seen: Nat, pos: Nat, hd: HeadRow, appends: Nat, persists: Nat, heads: Nat]

Works(p) == op[p].at \notin {"idle", "walk"}
\* Everything has its type, and an operation is at what it does.
AccessTyped ==
    /\ ValidScope(scope) /\ assigned \in BOOLEAN /\ ask \in AskRow /\ log \in Seq(Entry) /\ Len(log) <= MaxEntries
    /\ head \in HeadRow /\ op \in [EscOps -> OpState] /\ scope.holders \subseteq Users /\ scope.need \in Nat
    /\ \A p \in EscOps : Works(p) => op[p].act \in Acts /\ op[p].who \in Users

\* Each entry links to the one before; the head is one of them, and so is what anybody saw.
Chained == \A i \in 1..Len(log) : log[i].prev = i - 1
Behind ==
    /\ head.seq <= Len(log)
    /\ \A p \in EscOps : op[p].seen <= Len(log) /\ op[p].pos <= Len(log) /\ op[p].hd.seq <= Len(log)
\* A version of the head stands for what it says.
Heads == \A p \in EscOps : op[p].at = "advance" =>
    /\ op[p].hd.seq < op[p].seen
    /\ op[p].hd.ver <= head.ver /\ (op[p].hd.ver = head.ver => op[p].hd.seq = head.seq)
\* An operation that is past its entry has it.
Entered == \A p \in EscOps : op[p].at \in {"head", "advance", "answer"} =>
    /\ op[p].seen \in 1..Len(log) /\ log[op[p].seen].act = op[p].act /\ log[op[p].seen].who = op[p].who

\* A request's approvals are of different users, and enough of them once it is approved.
Distinct(a) == \A i, j \in 1..Len(a.by) : i # j => a.by[i].who # a.by[j].who
AskOK ==
    /\ Distinct(ask) /\ (ask.is = "none" => ask = NoAsk)
    /\ ask.is \in {"approved", "fulfilled"} => Len(ask.by) >= ask.need

\* The copy an operation works on: the request to be, or one the request still shows.
Wrote(j) == j.at \in AtEntry \/ (j.at = "persist" /\ j.who \in Who(j.row))
CountedStates == {"approved", "fulfilled"}
CopyOK(j, a) ==
    j.at \notin {"idle", "walk"} =>
        /\ j.act = "created" /\ a.is = "none" =>
              /\ j.at = "persist" /\ j.row.by = <<[who |-> j.who, old |-> FALSE]>>
              /\ j.row.is \in {"pending", "approved"} /\ (j.row.is = "approved" => j.row.need <= 1)
        /\ j.act \in {"approved", "read"} =>
              /\ a.is # "none" /\ Who(j.row) \subseteq Who(a) /\ j.row.ver <= a.ver
              /\ j.row.ver = a.ver => j.row.is = a.is /\ Who(j.row) = Who(a)
        /\ j.act = "approved" => (Wrote(j) => j.who \in Who(a)) /\ (~Wrote(j) => j.row.is = "pending")
        /\ j.act = "read" => a.is \in CountedStates
CopiesFit == \A p \in EscOps : CopyOK(op[p], ask)

\* Who counts as an approver and whose request has not failed is in the log, or is about to be.
Recorded(u) ==
    \/ \E i \in 1..Len(log) : log[i].who = u /\ log[i].act \in {"created", "approved"}
    \/ \E p \in EscOps : op[p].who = u /\ op[p].act \in {"created", "approved"} /\ Wrote(op[p])
Accounted ==
    /\ \A u \in Who(ask) \ failed : Recorded(u)
    /\ \A i \in 1..Len(log) : log[i].act = "approved" => log[i].who \in Who(ask)
    /\ \A i \in released : i \in 1..Len(log) /\ log[i].act = "read" /\ ask.is \in CountedStates
    /\ verdicts \subseteq {"head_missing"}

EscInv == AccessTyped /\ Chained /\ Behind /\ Heads /\ Entered /\ AskOK /\ CopiesFit /\ Accounted

--------------------------------------------------------------------------------

\* What the constants are.
LEMMA Bounds == MaxEntries \in Nat /\ MaxAppends \in Nat \ {0} /\ MaxPersists \in Nat \ {0} /\ MaxHeads \in Nat \ {0}
                /\ IsFiniteSet(Users) /\ Cardinality(Users) \in Nat /\ Cardinality(Users) >= 2
  BY EscrowAssumption, FS_CardinalityType

\* A scope's holders are users, and its threshold is a number.
LEMMA ScopeTyped ==
    ASSUME NEW s, ValidScope(s), s.holders \subseteq Users
    PROVE  s.need \in Nat
<1>1. IsFiniteSet(s.holders) /\ Cardinality(s.holders) \in Nat
  BY Bounds, FS_Subset, FS_CardinalityType
<1> QED
  BY <1>1 DEF ValidScope

\* No request is a row of a request's type.
LEMMA NoAskTyped == NoAsk \in AskRow /\ NoAsk.is = "none" /\ NoAsk.ver = 0 /\ NoAsk.by = <<>>
<1>1. <<>> \in Seq(Approval)
  OBVIOUS
<1> QED
  BY <1>1 DEF NoAsk, AskRow, AskStates

\* An idle operation is one.
LEMMA NoOpTyped == NoOp \in OpState /\ NoOp.at = "idle" /\ NoOp.act = "none"
  BY NoAskTyped DEF NoOp, OpState, HeadRow

\* The request a holder files.
New(u) == [NoAsk EXCEPT !.need = scope.need, !.by = <<[who |-> u, old |-> FALSE]>>,
                        !.is = IF scope.need <= 1 THEN "approved" ELSE "pending"]

\* It is a row with its author's approval, approved if that is enough.
LEMMA NewTyped ==
    ASSUME scope.need \in Nat, NEW u \in Users
    PROVE  /\ New(u) \in AskRow /\ New(u).by = <<[who |-> u, old |-> FALSE]>> /\ New(u).is \in {"pending", "approved"}
           /\ New(u).need = scope.need /\ (New(u).is = "approved" => New(u).need <= 1) /\ New(u).ver = 0
<1>1. <<[who |-> u, old |-> FALSE]>> \in Seq(Approval)
  BY DEF Approval
<1> QED
  BY <1>1 DEF New, NoAsk, AskRow, AskStates

\* The request with an approval aged, with one more, or in another state.
LEMMA AgedTyped ==
    ASSUME ask \in AskRow, NEW i \in 1..Len(ask.by), ask' = [ask EXCEPT !.by[i].old = TRUE]
    PROVE  /\ ask' \in AskRow /\ ask'.is = ask.is /\ ask'.ver = ask.ver /\ ask'.need = ask.need
           /\ Len(ask'.by) = Len(ask.by) /\ \A j \in 1..Len(ask.by) : ask'.by[j].who = ask.by[j].who
<1>1. ask.by \in Seq(Approval) /\ ask.by[i] \in Approval
  BY DEF AskRow
<1> DEFINE new == [ask.by EXCEPT ![i] = [@ EXCEPT !.old = TRUE]]
<1>2. [ask.by[i] EXCEPT !.old = TRUE] \in Approval /\ [ask.by[i] EXCEPT !.old = TRUE].who = ask.by[i].who
  BY <1>1 DEF Approval
<1>3. new \in Seq(Approval) /\ Len(new) = Len(ask.by) /\ \A j \in 1..Len(ask.by) : new[j].who = ask.by[j].who
  BY <1>1, <1>2
<1>4. ask' = [ask EXCEPT !.by = new]
  OBVIOUS
<1> HIDE DEF new
<1> QED
  BY <1>3, <1>4 DEF AskRow

\* One approval more is a row of the next version.
LEMMA ApprovedTyped ==
    ASSUME NEW a \in AskRow, NEW u \in Users
    PROVE  /\ Approved(a, u) \in AskRow /\ Approved(a, u).ver = a.ver + 1 /\ Approved(a, u).need = a.need
           /\ Approved(a, u).by = Append(a.by, [who |-> u, old |-> FALSE])
           /\ Approved(a, u).is = (IF Len(a.by) + 1 >= a.need THEN "approved" ELSE "pending")
<1>1. Append(a.by, [who |-> u, old |-> FALSE]) \in Seq(Approval)
  BY DEF AskRow, Approval
<1> DEFINE by == Append(a.by, [who |-> u, old |-> FALSE])
           is == IF Len(a.by) + 1 >= a.need THEN "approved" ELSE "pending"
           v == a.ver + 1
           new == [a EXCEPT !.by = by, !.ver = v, !.is = is]
<1>2. is \in AskStates /\ by \in Seq(Approval) /\ v \in Nat
  BY <1>1 DEF AskStates, AskRow
<1>3. Approved(a, u) = new
  BY DEF Approved, AskRow
<1> HIDE DEF is, by, v
<1>4. new \in AskRow
  BY <1>2 DEF AskRow
<1>5. new.ver = v /\ new.need = a.need /\ new.by = by /\ new.is = is
  BY DEF AskRow
<1> QED
  BY <1>3, <1>4, <1>5 DEF is, by, v

\* A request in another state is a row of the next version.
LEMMA StateTyped ==
    ASSUME NEW a \in AskRow, NEW is \in AskStates
    PROVE  LET b == [a EXCEPT !.is = is, !.ver = @ + 1] IN
           b \in AskRow /\ b.is = is /\ b.ver = a.ver + 1 /\ b.by = a.by /\ b.need = a.need
<1> DEFINE v == a.ver + 1
           b == [a EXCEPT !.is = is, !.ver = v]
<1>0. v \in Nat
  BY DEF AskRow
<1>3. b = [a EXCEPT !.is = is, !.ver = @ + 1]
  BY DEF AskRow
<1> HIDE DEF v
<1>1. b \in AskRow
  BY <1>0 DEF AskRow
<1>2. b.is = is /\ b.ver = v /\ b.by = a.by /\ b.need = a.need
  BY DEF AskRow
<1> QED
  BY <1>1, <1>2, <1>3 DEF v

--------------------------------------------------------------------------------
(* What a step does to the request *)

AskAges == /\ Len(ask.by) > 0
           /\ ask'.is = ask.is /\ ask'.ver = ask.ver /\ ask'.need = ask.need /\ Len(ask'.by) = Len(ask.by)
           /\ \A j \in 1..Len(ask.by) : ask'.by[j].who = ask.by[j].who
AskFiled(p) == Persists(p) /\ op[p].act = "created" /\ ask.is = "none" /\ ask' = [op[p].row EXCEPT !.ver = 1]
AskApproved(p) == /\ Persists(p) /\ op[p].act = "approved" /\ op[p].who \notin Who(op[p].row) /\ RowUnchanged(p)
                  /\ ask' = Approved(ask, op[p].who)
AskDenied == ask.is = "pending" /\ ask' = [ask EXCEPT !.is = "denied", !.ver = @ + 1]
AskMet(p) == Answers(p) /\ op[p].act = "read" /\ ask' = [ask EXCEPT !.is = "fulfilled", !.ver = @ + 1]
AskMoves ==
    \/ ask' = ask \/ AskAges \/ AskDenied
    \/ \E p \in EscOps : AskFiled(p) \/ AskApproved(p) \/ AskMet(p)

\* Every step leaves the request alone or does one of these to it.
LEMMA AskStep ==
    ASSUME AccessTyped, [EscNext]_escVars
    PROVE  ask' \in AskRow /\ AskMoves
<1> USE DEF AskMoves
<1>a. ask \in AskRow /\ op \in [EscOps -> OpState]
  BY DEF AccessTyped
<1>0. CASE ask' = ask
  BY <1>0, <1>a
<1>1. CASE Ages
  <2>1. PICK i \in 1..Len(ask.by) : ask' = [ask EXCEPT !.by[i].old = TRUE]
    BY <1>1 DEF Ages
  <2>2. Len(ask.by) \in Nat /\ Len(ask.by) > 0
    BY <1>a, <2>1 DEF AskRow
  <2> QED
    BY <2>1, <2>2, <1>a, AgedTyped DEF AskAges
<1>2. CASE ScopeUpdate \/ Assign \/ EscMatterChanges \/ UNCHANGED escVars
  BY <1>2, <1>0 DEF ScopeUpdate, Assign, EscMatterChanges, escVars
<1>3. ASSUME NEW u \in Users, Denies(u) PROVE ask' \in AskRow /\ AskMoves
  BY <1>3, <1>a, StateTyped DEF Denies, AskDenied, AskStates
<1>4. ASSUME NEW p \in EscOps, NEW u \in Users, Create(p, u) \/ Approves(p, u) \/ Material(p, u) PROVE ask' = ask
  BY <1>4 DEF Create, Approves, Material
<1>5. ASSUME NEW p \in EscOps, Persists(p) PROVE ask' \in AskRow /\ AskMoves
  <2>1. op[p].row \in AskRow /\ op[p].who \in Users \cup {"nobody"}
    BY <1>a DEF OpState
  <2>2. CASE AskFiled(p)
    BY <2>1, <2>2 DEF AskFiled, AskRow
  <2>3. CASE AskApproved(p) /\ op[p].who \in Users
    BY <2>1, <2>3, <1>a, ApprovedTyped DEF AskApproved
  <2>4. op[p].act = "approved" => op[p].who \in Users
    BY <1>5 DEF AccessTyped, Persists, Works
  <2> QED
    BY <1>5, <1>0, <2>2, <2>3, <2>4 DEF Persists, AskFiled, AskApproved, EscGoes
<1>6. ASSUME NEW p \in EscOps,
             \/ ReadsLatest(p) \/ Inserts(p) \/ ReadsHead(p) \/ AdvancesHead(p) \/ Dies(p)
      PROVE ask' = ask
  BY <1>6 DEF ReadsLatest, Inserts, ReadsHead, AdvancesHead, Dies
<1>7. ASSUME NEW p \in EscOps, VerifyBegins(p) \/ VerifyWalks(p) PROVE ask' = ask
  BY <1>7 DEF VerifyBegins, VerifyWalks
<1>8. ASSUME NEW p \in EscOps, Answers(p) PROVE ask' \in AskRow /\ AskMoves
  BY <1>8, <1>0, <1>a, StateTyped DEF Answers, AskMet, AskStates
<1> QED
  BY <1>0, <1>1, <1>2, <1>3, <1>4, <1>5, <1>6, <1>7, <1>8 DEF EscNext


--------------------------------------------------------------------------------
(* What a step does to the operations *)

Asking(p) == \E u \in Users : Create(p, u) \/ Approves(p, u) \/ Material(p, u)
Acting(p) ==
    \/ Persists(p) \/ ReadsLatest(p) \/ Inserts(p) \/ ReadsHead(p) \/ AdvancesHead(p) \/ Answers(p) \/ Dies(p)
    \/ VerifyBegins(p) \/ VerifyWalks(p) \/ Asking(p)
OpTyped == op' \in [EscOps -> OpState] /\ \A p \in EscOps : op'[p].at \notin {"idle",
    "walk"} => op'[p].act \in Acts /\ op'[p].who \in Users
OpMoves == OpTyped /\ \A p \in EscOps : op'[p] = op[p] \/ Acting(p)

\* Every step keeps the operations typed, and moves only the operation whose step it is.
LEMMA OpStep ==
    ASSUME AccessTyped, [EscNext]_escVars
    PROVE  OpMoves
<1>a. /\ op \in [EscOps -> OpState]
      /\ \A p \in EscOps : op[p].at \notin {"idle", "walk"} => op[p].act \in Acts /\ op[p].who \in Users
      /\ ask \in AskRow /\ head \in HeadRow /\ Len(log) \in Nat
  BY DEF AccessTyped, Works
<1>b. /\ \A p \in EscOps : op[p].seen \in Nat /\ op[p].pos \in Nat /\ op[p].appends \in Nat
         /\ op[p].persists \in Nat /\ op[p].heads \in Nat
      /\ \A p \in EscOps : op[p] \in OpState
  BY <1>a DEF OpState
<1>0. CASE op' = op
  BY <1>0, <1>a DEF OpMoves, OpTyped
<1>1. ASSUME NEW p \in EscOps, Acting(p), NEW j \in OpState, op' = [op EXCEPT ![p] = j],
             j.at \notin {"idle", "walk"} => j.act \in Acts /\ j.who \in Users
      PROVE  OpMoves
  BY <1>1, <1>a DEF OpMoves, OpTyped
\* A worker only at another place, or done.
<1>2. ASSUME NEW p \in EscOps, Acting(p), op[p].at \notin {"idle", "walk"}, NEW at \in AtEntry,
    op' = [op EXCEPT ![p].at = at]
      PROVE  OpMoves
  <2>1. /\ [op[p] EXCEPT !.at = at] \in OpState /\ [op[p] EXCEPT !.at = at].act = op[p].act
        /\ [op[p] EXCEPT !.at = at].who = op[p].who
    BY <1>b, <1>2 DEF OpState
  <2> QED
    BY <1>1, <1>2, <1>a, <2>1
<1>3. ASSUME NEW p \in EscOps, Acting(p), op' = [op EXCEPT ![p] = NoOp]
      PROVE  OpMoves
  BY <1>1, <1>3, NoOpTyped
<1>4. CASE Ages \/ ScopeUpdate \/ Assign \/ EscMatterChanges \/ UNCHANGED escVars \/ \E u \in Users : Denies(u)
  BY <1>4, <1>0 DEF Ages, ScopeUpdate, Assign, EscMatterChanges, escVars, Denies
<1>5. ASSUME NEW p \in EscOps, NEW act \in Acts, NEW u \in Users, NEW row \in AskRow,
             Acting(p), Begins(p, act, u, row)
      PROVE  OpMoves
  <2> DEFINE at == IF act = "read" THEN "append" ELSE "persist"
             j == [NoOp EXCEPT !.at = at, !.act = act, !.who = u, !.row = row]
  <2>1. at \in {"append", "persist"} /\ op' = [op EXCEPT ![p] = j]
    BY <1>5 DEF Begins
  <2> HIDE DEF at
  <2>2. j \in OpState /\ j.act = act /\ j.who = u
    BY <2>1, NoOpTyped DEF OpState, AtEntry
  <2> HIDE DEF j
  <2> QED
    BY <1>1, <1>5, <2>1, <2>2
<1>6. ASSUME NEW p \in EscOps, Asking(p) PROVE OpMoves
  <2>1. PICK u \in Users : Create(p, u) \/ Approves(p, u) \/ Material(p, u)
    BY <1>6 DEF Asking
  <2>2. New(u) \in AskRow
    BY NewTyped DEF AccessTyped
  <2> QED
    BY <1>5, <1>6, <1>a, <2>1, <2>2 DEF Create, Approves, Material, Acting, Acts, New
<1>7. ASSUME NEW p \in EscOps, Persists(p) PROVE OpMoves
  BY <1>7, <1>2, <1>3 DEF Persists, EscGoes, Acting, AtEntry
<1>8. ASSUME NEW p \in EscOps, ReadsLatest(p) PROVE OpMoves
  <2> DEFINE j == [op[p] EXCEPT !.at = "insert", !.seen = Len(log)]
  <2>1. j \in OpState /\ j.act = op[p].act /\ j.who = op[p].who
    BY <1>a, <1>b DEF OpState, AtEntry
  <2>2. op' = [op EXCEPT ![p] = j]
    BY <1>8, <1>a DEF ReadsLatest
  <2> HIDE DEF j
  <2> QED
    BY <1>1, <1>8, <1>a, <2>1, <2>2 DEF ReadsLatest, Acting
<1>9. ASSUME NEW p \in EscOps, Inserts(p) PROVE OpMoves
  <2> DEFINE j == [op[p] EXCEPT !.at = "head", !.seen = op[p].seen + 1]
             a == op[p].appends + 1
             b == [op[p] EXCEPT !.at = "append", !.appends = a]
             c == [op[p] EXCEPT !.at = "persist", !.row = ask, !.appends = 0, !.persists = op[p].persists + 1]
  <2>1. op[p].seen + 1 \in Nat /\ op[p].persists + 1 \in Nat /\ a \in Nat
    BY <1>b
  <2>2. j \in OpState /\ j.act = op[p].act /\ j.who = op[p].who
    BY <1>a, <1>b, <2>1 DEF OpState, AtEntry
  <2> HIDE DEF a
  <2>3. b \in OpState /\ b.act = op[p].act /\ b.who = op[p].who
    BY <1>a, <1>b, <2>1 DEF OpState, AtEntry
  <2>4. c \in OpState /\ c.act = op[p].act /\ c.who = op[p].who
    BY <1>a, <1>b, <2>1 DEF OpState, AtEntry
  <2>5. \/ op' = [op EXCEPT ![p] = j] \/ op' = [op EXCEPT ![p] = b]
        \/ op' = [op EXCEPT ![p] = c] \/ op' = [op EXCEPT ![p] = NoOp]
    BY <1>9, <1>a DEF Inserts, Collides, a
  <2> HIDE DEF j, b, c
  <2> QED
    BY <1>1, <1>3, <1>9, <1>a, <2>2, <2>3, <2>4, <2>5 DEF Inserts, Acting
<1>10. ASSUME NEW p \in EscOps, ReadsHead(p) PROVE OpMoves
  <2> DEFINE j == [op[p] EXCEPT !.at = "advance", !.hd = head]
  <2>1. j \in OpState /\ j.act = op[p].act /\ j.who = op[p].who
    BY <1>a, <1>b DEF OpState, AtEntry
  <2>2. op' = [op EXCEPT ![p] = j] \/ op' = [op EXCEPT ![p].at = "answer"]
    BY <1>10, <1>a DEF ReadsHead
  <2> HIDE DEF j
  <2> QED
    BY <1>1, <1>2, <1>10, <1>a, <2>1, <2>2 DEF ReadsHead, Acting, AtEntry
<1>11. ASSUME NEW p \in EscOps, AdvancesHead(p) PROVE OpMoves
  <2> DEFINE at == IF op[p].heads + 1 < MaxHeads THEN "head" ELSE "answer"
             n == op[p].heads + 1
             j == [op[p] EXCEPT !.at = at, !.heads = n]
  <2>1. at \in AtEntry /\ n \in Nat
    BY <1>b DEF AtEntry
  <2>2. op' = [op EXCEPT ![p] = j] \/ op' = [op EXCEPT ![p].at = "answer"]
    BY <1>11, <1>a DEF AdvancesHead, EscGoes
  <2> HIDE DEF at, n
  <2>3. j \in OpState /\ j.act = op[p].act /\ j.who = op[p].who
    BY <1>a, <1>b, <2>1 DEF OpState
  <2> HIDE DEF j
  <2> QED
    BY <1>1, <1>2, <1>11, <1>a, <2>2, <2>3 DEF AdvancesHead, Acting, AtEntry
<1>12. ASSUME NEW p \in EscOps, Answers(p) \/ Dies(p) PROVE OpMoves
  BY <1>12, <1>3 DEF Answers, Dies, Acting
<1>13. ASSUME NEW p \in EscOps, VerifyBegins(p) PROVE OpMoves
  <2> DEFINE j == [NoOp EXCEPT !.at = "walk", !.act = "verify", !.hd = head]
  <2>1. j \in OpState /\ j.at = "walk"
    BY <1>a, NoOpTyped DEF OpState
  <2>2. op' = [op EXCEPT ![p] = j]
    BY <1>13 DEF VerifyBegins
  <2> HIDE DEF j
  <2> QED
    BY <1>1, <1>13, <2>1, <2>2 DEF Acting
<1>14. ASSUME NEW p \in EscOps, VerifyWalks(p) PROVE OpMoves
  <2> DEFINE n == op[p].pos + 1
             j == [op[p] EXCEPT !.pos = n]
  <2>1. n \in Nat
    BY <1>b
  <2>2. op' = [op EXCEPT ![p] = j] \/ op' = [op EXCEPT ![p] = NoOp]
    BY <1>14, <1>a DEF VerifyWalks
  <2> HIDE DEF n
  <2>3. j \in OpState /\ j.at = op[p].at
    BY <1>b, <2>1 DEF OpState
  <2> HIDE DEF j
  <2> QED
    BY <1>1, <1>3, <1>14, <2>2, <2>3 DEF VerifyWalks, Acting
<1> QED
  BY <1>4, <1>6, <1>7, <1>8, <1>9, <1>10, <1>11, <1>12, <1>13, <1>14 DEF EscNext, Asking


\* All but its place stays as it is, or all but the fields named.
Same(p, but) == \A f \in {"act", "who", "row", "seen", "pos", "hd"} \ but : op'[p][f] = op[p][f]
Begun(p) == op'[p].seen = 0 /\ op'[p].pos = 0 /\ op'[p].hd.seq = 0
Logs(p) ==
    /\ op[p].at = "insert" /\ NumberFree(op[p].seen + 1)
    /\ log' = Append(log, [act |-> op[p].act, who |-> op[p].who, prev |-> op[p].seen])
    /\ op'[p].at = "head" /\ op'[p].seen = op[p].seen + 1 /\ Same(p, {"seen"})
Retries(p) == /\ op[p].at = "insert" /\ log' = log
              /\ \/ op'[p].at = "append" /\ Same(p, {})
                 \/ op'[p].at = "persist" /\ op'[p].row = ask /\ Same(p, {"row"})
GivenUp(p) == op'[p] = NoOp /\ log' = log /\ failed' = failed \cup {op[p].who}

\* What each step does to the operation whose step it is.
LEMMA Effects ==
    ASSUME AccessTyped, NEW p \in EscOps
    PROVE  /\ Persists(p) => \/ op'[p].at = "append" /\ Same(p, {})
                             \/ op'[p] = NoOp /\ op[p].act = "approved" /\ op[p].who \notin Who(op[p].row) /\ ask' = ask
           /\ ReadsLatest(p) => op'[p].at = "insert" /\ op'[p].seen = Len(log) /\ Same(p, {"seen"})
           /\ Inserts(p) => Logs(p) \/ Retries(p) \/ GivenUp(p)
           /\ ReadsHead(p) => \/ op'[p].at = "answer" /\ Same(p, {})
                              \/ op'[p].at = "advance" /\ op'[p].hd = head /\ head.seq < op[p].seen /\ Same(p, {"hd"})
           /\ AdvancesHead(p) => op'[p].at \in {"head", "answer"} /\ Same(p, {})
           /\ Answers(p) \/ Dies(p) => op'[p] = NoOp
           /\ VerifyBegins(p) => op'[p].at = "walk" /\ op'[p].seen = 0 /\ op'[p].pos = 0 /\ op'[p].hd = head
           /\ VerifyWalks(p) =>
                 op'[p] = NoOp \/ (op'[p].at = "walk" /\ op[p].pos < Len(log) /\ op'[p].pos = op[p].pos + 1 /\ Same(p,
                     {"pos"}))
<1>a. op \in [EscOps -> OpState] /\ op[p] \in OpState /\ head \in HeadRow /\ op[p].seen \in Nat
  BY DEF AccessTyped, OpState
<1>1. ASSUME Persists(p)
      PROVE  \/ op'[p].at = "append" /\ Same(p, {})
             \/ op'[p] = NoOp /\ op[p].act = "approved" /\ op[p].who \notin Who(op[p].row) /\ ask' = ask
  <2>1. CASE EscGoes(p, "append")
    BY <1>a, <2>1 DEF EscGoes, OpState, Same
  <2> QED
    BY <1>1, <1>a, <2>1 DEF Persists
<1>2. ASSUME ReadsLatest(p) PROVE op'[p].at = "insert" /\ op'[p].seen = Len(log) /\ Same(p, {"seen"})
  <2>1. op' = [op EXCEPT ![p].at = "insert", ![p].seen = Len(log)]
    BY <1>2 DEF ReadsLatest
  <2>2. op'[p] = [op[p] EXCEPT !.at = "insert", !.seen = Len(log)]
    BY <1>a, <2>1
  <2> QED
    BY <1>a, <2>2 DEF OpState, Same
<1>3. ASSUME Inserts(p) PROVE Logs(p) \/ Retries(p) \/ GivenUp(p)
  <2>1. CASE NumberFree(op[p].seen + 1)
    BY <1>3, <1>a, <2>1 DEF Inserts, Logs, OpState, Same
  <2>2. CASE ~NumberFree(op[p].seen + 1)
    <3>1. /\ op[p].at = "insert" /\ op'[p] = Collides(p) /\ log' = log
          /\ failed' = IF Collides(p) = NoOp THEN failed \cup {op[p].who} ELSE failed
      BY <1>3, <1>a, <2>2 DEF Inserts
    <3>2. CASE Collides(p) = NoOp
      BY <3>1, <3>2 DEF GivenUp
    <3>3. CASE Collides(p) = [op[p] EXCEPT !.at = "append", !.appends = op[p].appends + 1]
      BY <1>a, <3>1, <3>3 DEF Retries, Same, OpState
    <3>4. CASE Collides(p) = [op[p] EXCEPT !.at = "persist", !.row = ask, !.appends = 0, !.persists = @ + 1]
      <4> DEFINE n == op[p].persists + 1
                 j == [op[p] EXCEPT !.at = "persist", !.row = ask, !.appends = 0, !.persists = n]
      <4>1. op'[p] = j
        BY <1>a, <3>1, <3>4 DEF OpState
      <4> HIDE DEF n
      <4>2. /\ j.at = "persist" /\ j.row = ask /\ j.act = op[p].act /\ j.who = op[p].who
            /\ j.seen = op[p].seen /\ j.pos = op[p].pos /\ j.hd = op[p].hd
        BY <1>a DEF OpState
      <4> HIDE DEF j
      <4>3. /\ op'[p].at = "persist" /\ op'[p].row = ask /\ op'[p].act = op[p].act /\ op'[p].who = op[p].who
            /\ op'[p].seen = op[p].seen /\ op'[p].pos = op[p].pos /\ op'[p].hd = op[p].hd
        BY <4>1, <4>2
      <4>4. Same(p, {"row"})
        BY <4>3 DEF Same
      <4> QED
        BY <3>1, <4>3, <4>4 DEF Retries
    <3> QED
      BY <3>2, <3>3, <3>4 DEF Collides
  <2> QED
    BY <2>1, <2>2
<1>4. ASSUME ReadsHead(p)
      PROVE  \/ op'[p].at = "answer" /\ Same(p, {})
             \/ op'[p].at = "advance" /\ op'[p].hd = head /\ head.seq < op[p].seen /\ Same(p, {"hd"})
  <2>1. CASE head.seq >= op[p].seen
    BY <1>4, <1>a, <2>1 DEF ReadsHead, OpState, Same
  <2>2. CASE head.seq < op[p].seen
    BY <1>4, <1>a, <2>2 DEF ReadsHead, OpState, Same, HeadRow
  <2> QED
    BY <2>1, <2>2, <1>a DEF HeadRow
<1>5. AdvancesHead(p) => op'[p].at \in {"head", "answer"} /\ Same(p, {})
  BY <1>a DEF AdvancesHead, EscGoes, OpState, Same
<1>6. Answers(p) \/ Dies(p) => op'[p] = NoOp
  BY <1>a DEF Answers, Dies
<1>7. VerifyBegins(p) => op'[p].at = "walk" /\ op'[p].seen = 0 /\ op'[p].pos = 0 /\ op'[p].hd = head
  BY <1>a DEF VerifyBegins, NoOp
<1>8. VerifyWalks(p) =>
        op'[p] = NoOp \/ (op'[p].at = "walk" /\ op[p].pos < Len(log) /\ op'[p].pos = op[p].pos + 1 /\ Same(p, {"pos"}))
  <2>1. op[p].pos \in Nat /\ Len(log) \in Nat
    BY <1>a DEF OpState, AccessTyped
  <2> QED
    BY <1>a, <2>1 DEF VerifyWalks, OpState, Same
<1> QED
  BY <1>1, <1>2, <1>3, <1>4, <1>5, <1>6, <1>7, <1>8

\* What an operation that begins has.
LEMMA Beginnings ==
    ASSUME AccessTyped, NEW p \in EscOps, NEW u \in Users
    PROVE  LET Is(act, row) == /\ op'[p].act = act /\ op'[p].who = u /\ op'[p].row = row /\ Begun(p)
                               /\ op'[p].at = IF act = "read" THEN "append" ELSE "persist" IN
           /\ Create(p, u) => Is("created", New(u))
           /\ Approves(p, u) => Is("approved", ask)
           /\ Material(p, u) => Is("read", ask)
<1>1. op \in [EscOps -> OpState]
  BY DEF AccessTyped
<1>2. ASSUME NEW act, NEW row, Begins(p, act, u, row)
      PROVE  /\ op'[p].act = act /\ op'[p].who = u /\ op'[p].row = row /\ Begun(p)
             /\ op'[p].at = IF act = "read" THEN "append" ELSE "persist"
  BY <1>1, <1>2 DEF Begins, Begun, NoOp
<1> QED
  BY <1>2 DEF Create, Approves, Material, New

--------------------------------------------------------------------------------
(* What a step does to the log and its head *)

Inserted(p) ==
    /\ op[p].at = "insert" /\ op[p].seen >= Len(log) /\ Len(log) < MaxEntries
    /\ log' = Append(log, [act |-> op[p].act, who |-> op[p].who, prev |-> op[p].seen])
LogMoves == log' = log \/ \E p \in EscOps : Inserted(p) /\ Inserts(p)
Advanced(p) == op[p].at = "advance" /\ head.ver = op[p].hd.ver /\ head' = [seq |-> op[p].seen, ver |-> head.ver + 1]
HeadMoves == head' = head \/ \E p \in EscOps : Advanced(p)
ScopeMoves == ValidScope(scope)' /\ scope'.holders \subseteq Users /\ assigned' \in BOOLEAN

\* Every step leaves log and head alone, or appends one entry, or advances the head.
LEMMA LogStep ==
    ASSUME AccessTyped, [EscNext]_escVars
    PROVE  LogMoves /\ HeadMoves /\ ScopeMoves
<1>a. /\ Len(log) \in Nat /\ op \in [EscOps -> OpState] /\ ValidScope(scope) /\ scope.holders \subseteq Users
      /\ assigned \in BOOLEAN /\ \A p \in EscOps : op[p].seen \in Nat
  BY DEF AccessTyped, OpState
<1>b. UNCHANGED scope => ValidScope(scope)'
  BY <1>a DEF ValidScope
<1>c. UNCHANGED <<scope, assigned>> => ScopeMoves
  BY <1>a, <1>b DEF ScopeMoves
<1>0. CASE UNCHANGED <<log, head>> /\ ScopeMoves
  BY <1>0 DEF LogMoves, HeadMoves
<1>1. CASE Ages \/ EscMatterChanges \/ UNCHANGED escVars \/ \E u \in Users : Denies(u)
  BY <1>1, <1>0, <1>c DEF Ages, EscMatterChanges, escVars, Denies
<1>2. CASE ScopeUpdate
  <2>1. PICK hs \in SUBSET Users, n \in 1..2 :
            ValidScope([holders |-> hs, need |-> n]) /\ scope' = [holders |-> hs, need |-> n]
    BY <1>2 DEF ScopeUpdate
  <2>2. ValidScope(scope)' /\ scope'.holders \subseteq Users
    BY <2>1 DEF ValidScope
  <2> QED
    BY <1>2, <1>0, <1>a, <2>2 DEF ScopeUpdate, ScopeMoves
<1>3. CASE Assign
  BY <1>3, <1>0, <1>a, <1>b DEF Assign, ScopeMoves
<1>4. ASSUME NEW p \in EscOps, NEW u \in Users, Create(p, u) \/ Approves(p, u) \/ Material(p, u)
      PROVE  LogMoves /\ HeadMoves /\ ScopeMoves
  BY <1>4, <1>0, <1>c DEF Create, Approves, Material
<1>5. ASSUME NEW p \in EscOps,
    Persists(p) \/ ReadsLatest(p) \/ ReadsHead(p) \/ Answers(p) \/ Dies(p) \/ VerifyBegins(p) \/ VerifyWalks(p)
      PROVE  LogMoves /\ HeadMoves /\ ScopeMoves
  BY <1>5, <1>0, <1>c DEF Persists, ReadsLatest, ReadsHead, Answers, Dies, VerifyBegins, VerifyWalks
<1>6. ASSUME NEW p \in EscOps, Inserts(p) PROVE LogMoves /\ HeadMoves /\ ScopeMoves
  <2>1. log' = log \/ Inserted(p)
    BY <1>6, <1>a DEF Inserts, Inserted, NumberFree
  <2> QED
    BY <1>6, <1>c, <2>1 DEF Inserts, LogMoves, HeadMoves
<1>7. ASSUME NEW p \in EscOps, AdvancesHead(p) PROVE LogMoves /\ HeadMoves /\ ScopeMoves
  BY <1>7, <1>c DEF AdvancesHead, HeadUnchanged, LogMoves, HeadMoves, Advanced
<1> QED
  BY <1>1, <1>2, <1>3, <1>4, <1>5, <1>6, <1>7 DEF EscNext

\* The log only grows, and what it said it says.
LogGrows == /\ log' \in Seq(Entry) /\ Len(log') >= Len(log) /\ Len(log') <= MaxEntries
            /\ \A i \in 1..Len(log) : log'[i] = log[i]

\* No step takes back an entry.
LEMMA LogKept ==
    ASSUME AccessTyped, [EscNext]_escVars
    PROVE  LogGrows
<1>1. CASE log' = log
  BY <1>1 DEF AccessTyped, LogGrows
<1>2. ASSUME NEW p \in EscOps, Inserted(p)
      PROVE  LogGrows
  <2> DEFINE e == [act |-> op[p].act, who |-> op[p].who, prev |-> op[p].seen]
  <2>1. e \in Entry
    BY <1>2 DEF Inserted, AccessTyped, Works, OpState, Entry
  <2>2. log \in Seq(Entry) /\ log' = Append(log, e) /\ Len(log) < MaxEntries
    BY <1>2 DEF Inserted, AccessTyped
  <2> HIDE DEF e
  <2> QED
    BY <2>1, <2>2, Bounds DEF LogGrows
<1> QED
  BY <1>1, <1>2, LogStep DEF LogMoves

\* AccessTyped is inductive.
LEMMA TypedStep ==
    ASSUME AccessTyped, [EscNext]_escVars
    PROVE  AccessTyped'
<1>1. ask' \in AskRow /\ OpTyped /\ LogGrows /\ ScopeMoves
  BY AskStep, OpStep, LogKept, LogStep DEF OpMoves
<1>2. head' \in HeadRow
  <2>1. head \in HeadRow /\ \A p \in EscOps : op[p].seen \in Nat
    BY DEF AccessTyped, OpState
  <2> QED
    BY <2>1, LogStep DEF HeadMoves, Advanced, HeadRow
<1>3. scope'.need \in Nat
  BY <1>1, ScopeTyped DEF ScopeMoves, ValidScope
<1> QED
  BY <1>1, <1>2, <1>3 DEF AccessTyped, OpTyped, LogGrows, ScopeMoves, Works

\* Only the entry that follows the last is inserted: the numbers race, the links hold.
LEMMA ChainedStep ==
    ASSUME AccessTyped, Chained, Behind, [EscNext]_escVars
    PROVE  Chained'
<1>1. CASE log' = log
  BY <1>1 DEF Chained
<1>2. ASSUME NEW p \in EscOps, Inserted(p)
      PROVE  Chained'
  <2>1. op[p].seen = Len(log) /\ log \in Seq(Entry)
    BY <1>2 DEF Inserted, Behind, AccessTyped, OpState
  <2> QED
    BY <1>2, <2>1 DEF Inserted, Chained
<1> QED
  BY <1>1, <1>2, LogStep DEF LogMoves

\* Nobody saw more entries than there are.
LEMMA BehindStep ==
    ASSUME AccessTyped, Behind, [EscNext]_escVars
    PROVE  Behind'
<1>0. Len(log) \in Nat /\ op \in [EscOps -> OpState] /\ head \in HeadRow
  BY DEF AccessTyped
<1>a. /\ Len(log') \in Nat /\ Len(log') >= Len(log) /\ head.seq \in Nat
      /\ \A p \in EscOps : op[p].seen \in Nat /\ op[p].pos \in Nat /\ op[p].hd.seq \in Nat
  BY <1>0, LogKept DEF OpState, LogGrows, HeadRow
<1>1. head'.seq <= Len(log')
  BY <1>0, <1>a, LogStep DEF HeadMoves, Advanced, Behind
<1>2. ASSUME NEW p \in EscOps
      PROVE  op'[p].seen <= Len(log') /\ op'[p].pos <= Len(log') /\ op'[p].hd.seq <= Len(log')
  <2>1. op[p].seen <= Len(log) /\ op[p].pos <= Len(log) /\ op[p].hd.seq <= Len(log) /\ head.seq <= Len(log)
    BY DEF Behind
  <2>0. CASE op'[p] = op[p]
    BY <2>0, <2>1, <1>0, <1>a
  <2>3. CASE op'[p] = NoOp
    BY <2>3, <1>a DEF NoOp
  <2>4. CASE Asking(p)
    <3>1. Begun(p)
      BY <2>4, Beginnings DEF Asking
    <3> QED
      BY <3>1, <1>a DEF Begun
  <2>5. CASE VerifyBegins(p)
    BY <2>5, <2>1, <1>0, <1>a, Effects
  <2>6. CASE Persists(p) \/ AdvancesHead(p)
    BY <2>6, <2>1, <2>3, <1>0, <1>a, Effects DEF Same
  <2>11. CASE ReadsHead(p)
    BY <2>11, <2>1, <1>0, <1>a, Effects DEF Same
  <2>7. CASE ReadsLatest(p)
    BY <2>7, <2>1, <1>0, <1>a, Effects DEF Same
  <2>8. CASE Inserts(p)
    <3>1. CASE Logs(p)
      <4>1. Len(log') = Len(log) + 1
        BY <3>1, <1>0 DEF Logs, AccessTyped
      <4> QED
        BY <3>1, <4>1, <2>1, <1>0, <1>a DEF Logs, Same
    <3>2. CASE Retries(p)
      BY <3>2, <2>1, <1>0, <1>a DEF Retries, Same
    <3> QED
      BY <2>8, <3>1, <3>2, <2>3, Effects DEF GivenUp
  <2>9. CASE Answers(p) \/ Dies(p)
    BY <2>9, <2>3, Effects
  <2>10. CASE VerifyWalks(p)
    <3>1. op'[p] = NoOp \/ (op'[p].seen = op[p].seen /\ op'[p].hd = op[p].hd /\ op[p].pos < Len(log) /\ op'[p].pos = op[p].pos + 1)
      BY <2>10, Effects DEF Same
    <3> QED
      BY <3>1, <2>1, <2>3, <1>0, <1>a
  <2> QED
    BY <2>0, <2>4, <2>5, <2>6, <2>7, <2>8, <2>9, <2>10, <2>11, OpStep DEF OpMoves, Acting
<1> QED
  BY <1>1, <1>2 DEF Behind

\* Who is about to advance the head saw it as its version says.
LEMMA HeadsStep ==
    ASSUME AccessTyped, Behind, Heads, [EscNext]_escVars
    PROVE  Heads'
<1> SUFFICES ASSUME NEW p \in EscOps, op'[p].at = "advance"
             PROVE  /\ op'[p].hd.seq < op'[p].seen /\ op'[p].hd.ver <= head'.ver
                    /\ op'[p].hd.ver = head'.ver => op'[p].hd.seq = head'.seq
  BY DEF Heads
<1>0. head \in HeadRow /\ op \in [EscOps -> OpState] /\ NoOp.at = "idle"
  BY NoOpTyped DEF AccessTyped
<1>a. head.ver \in Nat /\ op[p].hd.ver \in Nat
  BY <1>0 DEF HeadRow, OpState
<1>1. CASE op'[p] = op[p]
  <2>1. /\ op[p].hd.seq < op[p].seen /\ op[p].hd.ver <= head.ver
        /\ op[p].hd.ver = head.ver => op[p].hd.seq = head.seq
    BY <1>1 DEF Heads
  <2> QED
    BY <1>1, <2>1, <1>0, <1>a, LogStep DEF HeadMoves, Advanced
<1>2. CASE ReadsHead(p)
  <2>1. op'[p].hd = head /\ head.seq < op[p].seen /\ op'[p].seen = op[p].seen
    BY <1>2, Effects DEF Same
  <2>2. head' = head
    BY <1>2 DEF ReadsHead
  <2> QED
    BY <2>1, <2>2, <1>0, <1>a
<1>3. CASE Asking(p)
  BY <1>3, Beginnings DEF Asking
<1>4. CASE Inserts(p)
  BY <1>4, <1>0, Effects DEF Logs, Retries, GivenUp
<1>5. CASE Persists(p) \/ ReadsLatest(p) \/ AdvancesHead(p) \/ Answers(p) \/ Dies(p) \/ VerifyBegins(p) \/ VerifyWalks(p)
  BY <1>5, <1>0, Effects
<1> QED
  BY <1>1, <1>2, <1>3, <1>4, <1>5, OpStep DEF OpMoves, Acting

\* Who inserted its entry finds it where it put it.
LEMMA EnteredStep ==
    ASSUME AccessTyped, Behind, Entered, [EscNext]_escVars
    PROVE  Entered'
<1> SUFFICES ASSUME NEW p \in EscOps, op'[p].at \in {"head", "advance", "answer"}
             PROVE  op'[p].seen \in 1..Len(log') /\ log'[op'[p].seen].act = op'[p].act /\ log'[op'[p].seen].who = op'[p].who
  BY DEF Entered
<1>0. /\ Len(log) \in Nat /\ Len(log') \in Nat /\ Len(log') >= Len(log) /\ (\A i \in 1..Len(log) : log'[i] = log[i])
      /\ log \in Seq(Entry) /\ op[p].seen \in Nat /\ NoOp.at = "idle"
  BY LogKept, NoOpTyped DEF AccessTyped, OpState, LogGrows
<1>1. ASSUME op[p].at \in {"head", "advance", "answer"}, op'[p].seen = op[p].seen, op'[p].act = op[p].act,
    op'[p].who = op[p].who
      PROVE  op'[p].seen \in 1..Len(log') /\ log'[op'[p].seen].act = op'[p].act /\ log'[op'[p].seen].who = op'[p].who
  <2>1. op[p].seen \in 1..Len(log) /\ log[op[p].seen].act = op[p].act /\ log[op[p].seen].who = op[p].who
    BY <1>1 DEF Entered
  <2> QED
    BY <1>0, <1>1, <2>1
<1>2. CASE op'[p] = op[p]
  BY <1>1, <1>2
<1>3. CASE ReadsHead(p)
  <2>1. op[p].at = "head"
    BY <1>3 DEF ReadsHead
  <2>2. op'[p].seen = op[p].seen /\ op'[p].act = op[p].act /\ op'[p].who = op[p].who
    BY <1>3, Effects DEF Same
  <2> QED
    BY <1>1, <2>1, <2>2
<1>4. CASE AdvancesHead(p)
  BY <1>1, <1>4, Effects DEF AdvancesHead, Same
<1>5. CASE Inserts(p)
  <2>1. CASE Logs(p)
    <3>1. op[p].seen = Len(log)
      BY <2>1, <1>0 DEF Logs, NumberFree, Behind
    <3> DEFINE e == [act |-> op[p].act, who |-> op[p].who, prev |-> op[p].seen]
    <3>2. log' = Append(log, e) /\ op'[p].seen = Len(log) + 1 /\ op'[p].act = op[p].act /\ op'[p].who = op[p].who
      BY <2>1, <3>1 DEF Logs, Same
    <3>3. e.act = op[p].act /\ e.who = op[p].who
      OBVIOUS
    <3> HIDE DEF e
    <3>4. log'[Len(log) + 1] = e /\ Len(log') = Len(log) + 1
      BY <3>2, <1>0
    <3> QED
      BY <3>2, <3>3, <3>4, <1>0
  <2> QED
    BY <1>5, <1>0, <2>1, Effects DEF Retries, GivenUp
<1>6. CASE Asking(p)
  BY <1>6, Beginnings DEF Asking
<1>7. CASE Persists(p) \/ ReadsLatest(p) \/ Answers(p) \/ Dies(p) \/ VerifyBegins(p) \/ VerifyWalks(p)
  BY <1>7, <1>0, Effects
<1> QED
  BY <1>2, <1>3, <1>4, <1>5, <1>6, <1>7, OpStep DEF OpMoves, Acting

--------------------------------------------------------------------------------
(* The request and the copies of it *)

\* A request only gains approvers; what it is and who approved it stand for its version.
Grows(a, b) ==
    /\ a.is # "none" => b.is # "none"
    /\ Who(a) \subseteq Who(b) /\ a.ver <= b.ver
    /\ a.is # "none" /\ b.ver = a.ver => b.is = a.is /\ Who(b) = Who(a)
    /\ a.is \in CountedStates => b.is \in CountedStates

\* Who counts after one more approval.
LEMMA WhoApproved ==
    ASSUME NEW a \in AskRow, NEW u \in Users
    PROVE  Who(Approved(a, u)) = Who(a) \cup {u}
<1> DEFINE e == [who |-> u, old |-> FALSE]
           by == Append(a.by, e)
<1>1. a.by \in Seq(Approval) /\ e \in Approval /\ e.who = u
  BY DEF AskRow, Approval
<1>2. Approved(a, u).by = by
  BY ApprovedTyped
<1> HIDE DEF e
<1>3. Len(by) = Len(a.by) + 1 /\ by[Len(a.by) + 1] = e /\ (\A i \in 1..Len(a.by) : by[i] = a.by[i]) /\ Len(a.by) \in Nat
  BY <1>1
<1> HIDE DEF by
<1>4. Who(a) \cup {u} \subseteq {by[i].who : i \in 1..Len(by)}
  BY <1>1, <1>3 DEF Who
<1>5. {by[i].who : i \in 1..Len(by)} \subseteq Who(a) \cup {u}
  <2> SUFFICES ASSUME NEW i \in 1..Len(by) PROVE by[i].who \in Who(a) \cup {u}
    OBVIOUS
  <2>1. i \in 1..Len(a.by) \/ i = Len(a.by) + 1
    BY <1>3
  <2> QED
    BY <2>1, <1>1, <1>3 DEF Who
<1>6. Who(Approved(a, u)) = {by[i].who : i \in 1..Len(by)}
  BY <1>2, Zenon DEF Who
<1> QED
  BY <1>4, <1>5, <1>6, Zenon

\* What those who write the request know of it.
LEMMA Writers ==
    ASSUME AccessTyped, AskOK, CopiesFit, NEW p \in EscOps
    PROVE  /\ AskFiled(p) => /\ ask = NoAsk /\ ask'.by = <<[who |-> op[p].who, old |-> FALSE]>> /\ ask'.ver = 1
                             /\ ask'.is \in {"pending", "approved"} /\ (ask'.is = "approved" => ask'.need <= 1)
           /\ AskApproved(p) => ask.is = "pending" /\ op[p].who \notin Who(ask) /\ op[p].who \in Users
           /\ AskMet(p) => ask.is \in CountedStates
<1>0. op[p] \in OpState /\ op[p].row \in AskRow /\ CopyOK(op[p], ask)
  BY DEF AccessTyped, OpState, CopiesFit
<1>1. Works(p) => op[p].act \in Acts /\ op[p].who \in Users
  BY DEF AccessTyped
<1>2. ASSUME AskFiled(p)
      PROVE  /\ ask = NoAsk /\ ask'.by = <<[who |-> op[p].who, old |-> FALSE]>> /\ ask'.ver = 1
             /\ ask'.is \in {"pending", "approved"} /\ (ask'.is = "approved" => ask'.need <= 1)
  <2>1. op[p].at = "persist" /\ op[p].act = "created" /\ ask.is = "none" /\ ask' = [op[p].row EXCEPT !.ver = 1]
    BY <1>2 DEF AskFiled, Persists
  <2>2. /\ op[p].row.by = <<[who |-> op[p].who, old |-> FALSE]>> /\ op[p].row.is \in {"pending", "approved"}
        /\ (op[p].row.is = "approved" => op[p].row.need <= 1)
    BY <1>0, <2>1 DEF CopyOK
  <2> QED
    BY <1>0, <2>1, <2>2 DEF AskRow, AskOK
<1>3. ASSUME AskApproved(p)
      PROVE  ask.is = "pending" /\ op[p].who \notin Who(ask) /\ op[p].who \in Users
  BY <1>0, <1>1, <1>3 DEF AskApproved, Persists, RowUnchanged, CopyOK, Wrote, AtEntry, Works
<1>4. ASSUME AskMet(p)
      PROVE  ask.is \in CountedStates
  BY <1>0, <1>4 DEF AskMet, Answers, CopyOK
<1> QED
  BY <1>2, <1>3, <1>4

\* Every step lets the request grow so.
LEMMA AskGrows ==
    ASSUME AccessTyped, AskOK, CopiesFit, [EscNext]_escVars
    PROVE  Grows(ask, ask')
<1>0. ask \in AskRow /\ ask' \in AskRow /\ ask.ver \in Nat /\ ask'.ver \in Nat /\ AskMoves
  BY AskStep DEF AccessTyped, AskRow
<1>1. CASE ask' = ask
  BY <1>0, <1>1 DEF Grows
<1>2. CASE AskAges
  <2>1. Who(ask') = Who(ask)
    BY <1>2 DEF AskAges, Who
  <2> QED
    BY <1>0, <1>2, <2>1 DEF AskAges, Grows
<1>3. CASE AskDenied
  <2>1. ask'.is = "denied" /\ ask'.ver = ask.ver + 1 /\ ask'.by = ask.by /\ ask.is = "pending"
    BY <1>0, <1>3, StateTyped DEF AskDenied, AskStates
  <2> QED
    BY <1>0, <2>1 DEF Grows, Who, CountedStates
<1>4. ASSUME NEW p \in EscOps, AskFiled(p) PROVE Grows(ask, ask')
  <2>1. ask = NoAsk /\ ask'.ver = 1
    BY <1>4, Writers
  <2>2. Who(ask) = {} /\ ask.ver = 0 /\ ask.is = "none"
    BY <2>1, NoAskTyped DEF Who
  <2> QED
    BY <2>1, <2>2 DEF Grows, CountedStates
<1>5. ASSUME NEW p \in EscOps, AskApproved(p) PROVE Grows(ask, ask')
  <2>1. ask.is = "pending" /\ op[p].who \in Users /\ ask' = Approved(ask, op[p].who)
    BY <1>5, Writers DEF AskApproved
  <2>2. Who(ask') = Who(ask) \cup {op[p].who} /\ ask'.ver = ask.ver + 1 /\ ask'.is \in {"approved", "pending"}
    BY <1>0, <2>1, WhoApproved, ApprovedTyped
  <2> QED
    BY <1>0, <2>1, <2>2 DEF Grows, CountedStates
<1>6. ASSUME NEW p \in EscOps, AskMet(p) PROVE Grows(ask, ask')
  <2>1. ask.is \in CountedStates
    BY <1>6, Writers
  <2>2. ask'.is = "fulfilled" /\ ask'.ver = ask.ver + 1 /\ ask'.by = ask.by
    BY <1>0, <1>6, StateTyped DEF AskMet, AskStates
  <2> QED
    BY <1>0, <2>1, <2>2 DEF Grows, Who, CountedStates
<1> QED
  BY <1>0, <1>1, <1>2, <1>3, <1>4, <1>5, <1>6 DEF AskMoves

\* No user approves twice, and approved means approved by enough.
LEMMA AskOKStep ==
    ASSUME AccessTyped, AskOK, CopiesFit, [EscNext]_escVars
    PROVE  AskOK'
<1>0. ask \in AskRow /\ ask' \in AskRow /\ AskMoves /\ Len(ask.by) \in Nat /\ ask.by \in Seq(Approval)
  BY AskStep DEF AccessTyped, AskRow
<1>1. CASE ask' = ask
  BY <1>1 DEF AskOK, Distinct
<1>2. CASE AskAges
  <2>1. ask.is # "none"
    BY <1>2, NoAskTyped DEF AskAges, AskOK
  <2> QED
    BY <1>2, <2>1 DEF AskAges, AskOK, Distinct
<1>3. CASE AskDenied
  <2>1. ask'.is = "denied" /\ ask'.by = ask.by
    BY <1>0, <1>3, StateTyped DEF AskDenied, AskStates
  <2> QED
    BY <2>1 DEF AskOK, Distinct
<1>4. ASSUME NEW p \in EscOps, AskFiled(p) PROVE AskOK'
  <2>1. /\ ask'.by = <<[who |-> op[p].who, old |-> FALSE]>> /\ ask'.is \in {"pending", "approved"}
        /\ (ask'.is = "approved" => ask'.need <= 1)
    BY <1>4, Writers
  <2>2. Len(ask'.by) = 1
    BY <2>1
  <2>3. ask'.need \in Nat
    BY <1>0 DEF AskRow
  <2> QED
    BY <2>1, <2>2, <2>3 DEF AskOK, Distinct
<1>5. ASSUME NEW p \in EscOps, AskApproved(p) PROVE AskOK'
  <2> DEFINE u == op[p].who
             e == [who |-> u, old |-> FALSE]
  <2>1. u \notin Who(ask) /\ u \in Users /\ ask' = Approved(ask, u)
    BY <1>5, Writers DEF AskApproved
  <2>2. /\ ask'.by = Append(ask.by, e) /\ ask'.need = ask.need
        /\ ask'.is = (IF Len(ask.by) + 1 >= ask.need THEN "approved" ELSE "pending")
    BY <1>0, <2>1, ApprovedTyped
  <2>3. e \in Approval /\ e.who = u
    BY <2>1 DEF Approval
  <2> HIDE DEF e, u
  <2>4. /\ Len(ask'.by) = Len(ask.by) + 1 /\ ask'.by[Len(ask.by) + 1] = e
        /\ \A i \in 1..Len(ask.by) : ask'.by[i] = ask.by[i]
    BY <1>0, <2>2, <2>3
  <2>5. \A i \in 1..Len(ask.by) : ask.by[i].who # u
    BY <2>1 DEF Who
  <2>6. Distinct(ask')
    <3> SUFFICES ASSUME NEW i \in 1..Len(ask'.by), NEW j \in 1..Len(ask'.by), i # j
                 PROVE  ask'.by[i].who # ask'.by[j].who
      BY DEF Distinct
    <3>1. (i \in 1..Len(ask.by) \/ i = Len(ask.by) + 1) /\ (j \in 1..Len(ask.by) \/ j = Len(ask.by) + 1)
      BY <1>0, <2>4
    <3> QED
      BY <3>1, <2>3, <2>4, <2>5 DEF AskOK, Distinct
  <2> QED
    BY <1>0, <2>2, <2>4, <2>6 DEF AskOK, Distinct
<1>6. ASSUME NEW p \in EscOps, AskMet(p) PROVE AskOK'
  <2>1. ask.is \in CountedStates
    BY <1>6, Writers
  <2>2. ask'.is = "fulfilled" /\ ask'.by = ask.by /\ ask'.need = ask.need
    BY <1>0, <1>6, StateTyped DEF AskMet, AskStates
  <2> QED
    BY <2>1, <2>2 DEF AskOK, Distinct, CountedStates
<1> QED
  BY <1>0, <1>1, <1>2, <1>3, <1>4, <1>5, <1>6 DEF AskMoves

\* A copy that stays is right for what the request grows into.
LEMMA CopyStays ==
    ASSUME NEW j, NEW k, NEW a, NEW b, a.ver \in Nat, b.ver \in Nat, j.row.ver \in Nat, CopyOK(j, a), Grows(a, b),
           k.act = j.act, k.who = j.who, k.row = j.row, k.at = j.at \/ (j.at \in AtEntry /\ k.at \in AtEntry)
    PROVE  CopyOK(k, b)
<1> SUFFICES ASSUME k.at \notin {"idle", "walk"} PROVE CopyOK(k, b)
  BY DEF CopyOK
<1>0. j.at \notin {"idle", "walk"}
  BY DEF AtEntry
<1>1. ASSUME k.act = "created", b.is = "none"
      PROVE  /\ k.at = "persist" /\ k.row.by = <<[who |-> k.who, old |-> FALSE]>>
             /\ k.row.is \in {"pending", "approved"} /\ (k.row.is = "approved" => k.row.need <= 1)
  BY <1>0, <1>1 DEF CopyOK, Grows, AtEntry
<1>2. ASSUME k.act \in {"approved", "read"}
      PROVE  /\ b.is # "none" /\ Who(k.row) \subseteq Who(b) /\ k.row.ver <= b.ver
             /\ k.row.ver = b.ver => k.row.is = b.is /\ Who(k.row) = Who(b)
  <2>1. /\ a.is # "none" /\ Who(j.row) \subseteq Who(a) /\ j.row.ver <= a.ver
        /\ j.row.ver = a.ver => j.row.is = a.is /\ Who(j.row) = Who(a)
    BY <1>0, <1>2 DEF CopyOK
  <2>2. b.is # "none" /\ Who(a) \subseteq Who(b) /\ a.ver <= b.ver /\ (b.ver = a.ver => b.is = a.is /\ Who(b) = Who(a))
    BY <2>1 DEF Grows
  <2>3. j.row.ver <= b.ver /\ (j.row.ver = b.ver => j.row.ver = a.ver /\ b.ver = a.ver)
    BY <2>1, <2>2
  <2> QED
    BY <2>1, <2>2, <2>3
<1>3. Wrote(k) <=> Wrote(j)
  BY DEF Wrote, AtEntry
<1>4. k.act = "approved" => (Wrote(k) => k.who \in Who(b)) /\ (~Wrote(k) => k.row.is = "pending")
  BY <1>0, <1>3 DEF CopyOK, Grows
<1>5. k.act = "read" => b.is \in CountedStates
  BY <1>0 DEF CopyOK, Grows
<1> QED
  BY <1>1, <1>2, <1>4, <1>5 DEF CopyOK

\* Every copy stays right, and whose row is written counts.
LEMMA CopiesStep ==
    ASSUME AccessTyped, AskOK, CopiesFit, [EscNext]_escVars
    PROVE  CopiesFit'
<1> SUFFICES ASSUME NEW p \in EscOps PROVE CopyOK(op'[p], ask')
  BY DEF CopiesFit
<1>0. /\ op[p] \in OpState /\ op[p].row \in AskRow /\ ask \in AskRow /\ CopyOK(op[p], ask)
      /\ Grows(ask, ask') /\ scope.need \in Nat
      /\ ask.ver \in Nat /\ ask'.ver \in Nat /\ op[p].row.ver \in Nat
  BY AskStep, AskGrows DEF AccessTyped, OpState, CopiesFit, AskRow
<1>1. ASSUME op'[p].at = op[p].at \/ (op[p].at \in AtEntry /\ op'[p].at \in AtEntry),
             op'[p].act = op[p].act, op'[p].who = op[p].who, op'[p].row = op[p].row
      PROVE  CopyOK(op'[p], ask')
  <2> DEFINE j == op[p]
             k == op'[p]
             b == ask'
  <2>1. /\ ask.ver \in Nat /\ b.ver \in Nat /\ j.row.ver \in Nat /\ CopyOK(j, ask) /\ Grows(ask, b)
        /\ k.act = j.act /\ k.who = j.who /\ k.row = j.row /\ (k.at = j.at \/ (j.at \in AtEntry /\ k.at \in AtEntry))
    BY <1>0, <1>1
  <2> HIDE DEF j, k, b
  <2>2. CopyOK(k, b)
    BY <2>1, CopyStays
  <2> QED
    BY <2>2 DEF k, b
<1>2. CASE op'[p].at \in {"idle", "walk"}
  BY <1>2 DEF CopyOK
<1>3. CASE op'[p] = op[p]
  BY <1>1, <1>3
<1>4. ASSUME NEW u \in Users, Create(p, u) PROVE CopyOK(op'[p], ask')
  BY <1>0, <1>4, Beginnings, NewTyped DEF CopyOK
<1>5. ASSUME NEW u \in Users, Approves(p, u) PROVE CopyOK(op'[p], ask')
  <2>1. op'[p].act = "approved" /\ op'[p].who = u /\ op'[p].row = ask /\ op'[p].at = "persist"
    BY <1>5, Beginnings
  <2>2. ask.is = "pending" /\ u \notin Who(ask) /\ ask' = ask
    BY <1>5 DEF Approves
  <2> QED
    BY <1>0, <2>1, <2>2 DEF CopyOK, Wrote, AtEntry
<1>6. ASSUME NEW u \in Users, Material(p, u) PROVE CopyOK(op'[p], ask')
  <2>1. op'[p].act = "read" /\ op'[p].row = ask /\ op'[p].at = "append"
    BY <1>6, Beginnings
  <2>2. ask.is \in CountedStates /\ ask' = ask
    BY <1>6 DEF Material, MayRead, ActiveApprovals, CountedStates
  <2> QED
    BY <1>0, <2>1, <2>2 DEF CopyOK, CountedStates
<1>7. CASE Persists(p)
  <2>1. CASE op'[p] = NoOp
    BY <2>1, <1>2, NoOpTyped
  <2>2. CASE op'[p].at = "append" /\ Same(p, {})
    <3>1. op'[p].act = op[p].act /\ op'[p].who = op[p].who /\ op'[p].row = op[p].row /\ op[p].at = "persist"
      BY <1>7, <2>2 DEF Same, Persists
    <3>2. op[p].act = "created" => ask'.is # "none"
      <4>1. op[p].act = "created" /\ ask.is = "none" => AskFiled(p)
        BY <1>7 DEF AskFiled, Persists
      <4> QED
        BY <1>0, <4>1, Writers DEF Grows
    <3>3. op[p].act = "approved" => op[p].who \in Who(ask')
      <4>1. CASE op[p].act = "approved" /\ op[p].who \notin Who(op[p].row)
        <5>1. RowUnchanged(p) /\ ask' = Approved(ask, op[p].who)
          BY <1>7, <2>2, <4>1, NoOpTyped DEF Persists, AccessTyped
        <5>2. op[p].who \in Users
          BY <1>7, <4>1 DEF AccessTyped, Works, Persists
        <5> QED
          BY <5>1, <5>2, <1>0, WhoApproved
      <4>2. CASE op[p].act = "approved" /\ op[p].who \in Who(op[p].row)
        BY <4>2, <3>1, <1>0 DEF CopyOK, Wrote, Grows
      <4> QED
        BY <4>1, <4>2
    <3>4. op[p].act \in {"approved", "read"} =>
            /\ ask'.is # "none" /\ Who(op[p].row) \subseteq Who(ask') /\ op[p].row.ver <= ask'.ver
            /\ op[p].row.ver = ask'.ver => op[p].row.is = ask'.is /\ Who(op[p].row) = Who(ask')
      <4> SUFFICES ASSUME op[p].act \in {"approved", "read"}
                   PROVE  /\ ask'.is # "none" /\ Who(op[p].row) \subseteq Who(ask') /\ op[p].row.ver <= ask'.ver
                          /\ op[p].row.ver = ask'.ver => op[p].row.is = ask'.is /\ Who(op[p].row) = Who(ask')
        OBVIOUS
      <4>1. /\ ask.is # "none" /\ Who(op[p].row) \subseteq Who(ask) /\ op[p].row.ver <= ask.ver
            /\ op[p].row.ver = ask.ver => op[p].row.is = ask.is /\ Who(op[p].row) = Who(ask)
        BY <1>0, <3>1 DEF CopyOK
      <4>2. /\ ask'.is # "none" /\ Who(ask) \subseteq Who(ask') /\ ask.ver <= ask'.ver
            /\ ask'.ver = ask.ver => ask'.is = ask.is /\ Who(ask') = Who(ask)
        BY <1>0, <4>1 DEF Grows
      <4>3. op[p].row.ver <= ask'.ver /\ (op[p].row.ver = ask'.ver => op[p].row.ver = ask.ver /\ ask'.ver = ask.ver)
        BY <1>0, <4>1, <4>2
      <4> QED
        BY <4>1, <4>2, <4>3
    <3>5. op[p].act = "read" => ask'.is \in CountedStates
      BY <1>0, <3>1 DEF CopyOK, Grows
    <3>6. Wrote(op'[p])
      BY <2>2 DEF Wrote, AtEntry
    <3> QED
      BY <3>1, <3>2, <3>3, <3>4, <3>5, <3>6 DEF CopyOK
  <2> QED
    BY <1>7, <2>1, <2>2, Effects
<1>8. CASE ReadsLatest(p) \/ ReadsHead(p) \/ AdvancesHead(p)
  <2>1. /\ op[p].at \in AtEntry /\ op'[p].at \in AtEntry /\ op'[p].act = op[p].act
        /\ op'[p].who = op[p].who /\ op'[p].row = op[p].row
    BY <1>8, Effects DEF ReadsLatest, ReadsHead, AdvancesHead, Same, AtEntry
  <2> QED
    BY <1>1, <2>1
<1>9. CASE Inserts(p)
  <2>1. CASE op'[p].at \in AtEntry /\ Same(p, {"seen"})
    BY <1>1, <1>9, <2>1 DEF Same, Inserts, AtEntry
  <2>2. CASE op'[p].at = "persist" /\ op'[p].row = ask /\ Same(p, {"row"})
    <3>1. op'[p].act = op[p].act /\ op'[p].who = op[p].who /\ op[p].at = "insert" /\ ask' = ask
      BY <1>9, <2>2 DEF Same, Inserts
    <3> QED
      BY <1>0, <2>2, <3>1 DEF CopyOK, Wrote, AtEntry
  <2>3. Logs(p) \/ Retries(p) \/ GivenUp(p)
    BY <1>9, Effects
  <2>4. Same(p, {}) => Same(p, {"seen"})
    BY DEF Same
  <2> QED
    BY <1>2, <2>1, <2>2, <2>3, <2>4, NoOpTyped DEF Logs, Retries, GivenUp, AtEntry
<1>10. CASE Answers(p) \/ Dies(p) \/ VerifyBegins(p) \/ VerifyWalks(p)
  BY <1>2, <1>10, Effects, NoOpTyped
<1> QED
  BY <1>3, <1>4, <1>5, <1>6, <1>7, <1>8, <1>9, <1>10, OpStep DEF OpMoves, Acting, Asking

--------------------------------------------------------------------------------
(* The account *)

\* Nobody counts without being recorded.
LEMMA RecordedStep ==
    ASSUME EscInv, [EscNext]_escVars, NEW u \in Who(ask') \ failed'
    PROVE  Recorded(u)'
<1>0. /\ AccessTyped /\ AskOK /\ CopiesFit /\ Len(log) \in Nat /\ Len(log') \in Nat /\ Len(log') >= Len(log)
      /\ (\A i \in 1..Len(log) : log'[i] = log[i])
  BY LogKept DEF EscInv, AccessTyped, LogGrows
\* What it takes, of the state after the step.
<1>1. ASSUME NEW i \in 1..Len(log'), log'[i].who = u, log'[i].act \in {"created", "approved"}
      PROVE  Recorded(u)'
  BY <1>1 DEF Recorded
<1>2. ASSUME NEW p \in EscOps, op'[p].who = u, op'[p].act \in {"created", "approved"}, Wrote(op'[p])
      PROVE  Recorded(u)'
  BY <1>2 DEF Recorded
<1>3. ASSUME NEW p \in EscOps, op[p].who = u, op[p].act \in {"created", "approved"}, Persists(p),
    op'[p].at = "append", Same(p, {})
      PROVE  Recorded(u)'
  <2>1. Wrote(op'[p]) /\ op'[p].who = u /\ op'[p].act = op[p].act
    BY <1>3 DEF Wrote, Same, AtEntry
  <2> QED
    BY <1>2, <1>3, <2>1
<1>4. failed \subseteq failed'
  BY DEF EscNext, escVars, Ages, ScopeUpdate, Assign, EscMatterChanges, Denies, Persists, ReadsLatest, Inserts,
      ReadsHead,
         AdvancesHead, Answers, Dies, VerifyBegins, VerifyWalks, Create, Approves, Material
\* Who counted before.
<1>5. CASE u \in Who(ask)
  <2>1. Recorded(u)
    BY <1>4, <1>5 DEF EscInv, Accounted
  <2>2. ASSUME NEW i \in 1..Len(log), log[i].who = u, log[i].act \in {"created", "approved"}
        PROVE  Recorded(u)'
    BY <1>0, <1>1, <2>2
  <2>3. ASSUME NEW p \in EscOps, op[p].who = u, op[p].act \in {"created", "approved"}, Wrote(op[p])
        PROVE  Recorded(u)'
    <3>0. op[p].at \in AtEntry \cup {"persist"} /\ (op[p].at = "persist" => op[p].who \in Who(op[p].row))
      BY <2>3 DEF Wrote, AtEntry
    <3>1. ASSUME op'[p].at \in AtEntry, op'[p].who = u, op'[p].act = op[p].act
          PROVE  Recorded(u)'
      BY <1>2, <2>3, <3>1 DEF Wrote
    <3>2. CASE op'[p] = op[p]
      BY <1>2, <2>3, <3>2
    <3>3. CASE Persists(p)
      BY <1>3, <2>3, <3>0, <3>3, <1>0, Effects DEF Persists
    <3>4. CASE ReadsLatest(p) \/ ReadsHead(p) \/ AdvancesHead(p)
      BY <3>1, <2>3, <3>4, <1>0, Effects DEF Same, AtEntry
    <3>5. CASE Inserts(p)
      <4>1. CASE Logs(p)
        BY <3>1, <2>3, <4>1 DEF Logs, Same, AtEntry
      <4>2. CASE Retries(p)
        <5>1. CASE op'[p].at = "append" /\ Same(p, {})
          BY <3>1, <2>3, <5>1 DEF Same, AtEntry
        <5>2. CASE op'[p].at = "persist" /\ op'[p].row = ask /\ Same(p, {"row"})
          BY <1>2, <1>5, <2>3, <5>2 DEF Wrote, Same
        <5> QED
          BY <4>2, <5>1, <5>2 DEF Retries
      <4>3. CASE GivenUp(p)
        BY <2>3, <4>3 DEF GivenUp
      <4> QED
        BY <3>5, <4>1, <4>2, <4>3, <1>0, Effects
    <3>6. CASE Answers(p)
      <4>1. op[p].seen \in 1..Len(log) /\ log[op[p].seen].act = op[p].act /\ log[op[p].seen].who = op[p].who
        BY <3>6 DEF Answers, EscInv, Entered
      <4> QED
        BY <2>2, <2>3, <4>1
    <3>7. CASE Dies(p)
      BY <2>3, <3>7 DEF Dies
    <3>8. CASE Asking(p) \/ VerifyBegins(p) \/ VerifyWalks(p)
      BY <3>0, <3>8 DEF Asking, Create, Approves, Material, VerifyBegins, VerifyWalks, AtEntry
    <3> QED
      BY <3>2, <3>3, <3>4, <3>5, <3>6, <3>7, <3>8, <1>0, OpStep DEF OpMoves, Acting
  <2> QED
    BY <2>1, <2>2, <2>3 DEF Recorded
\* Who counts from this step on.
<1>6. CASE u \notin Who(ask)
  <2>1. ask \in AskRow /\ AskMoves
    BY <1>0, AskStep DEF AccessTyped
  <2>2. ~(ask' = ask \/ AskAges \/ AskDenied)
    <3>1. u \in Who(ask')
      OBVIOUS
    <3>2. AskAges => Who(ask') = Who(ask)
      BY DEF AskAges, Who
    <3>3. ASSUME AskDenied PROVE ask'.by = ask.by
      <4>1. ask' = [ask EXCEPT !.is = "denied", !.ver = @ + 1] /\ "denied" \in AskStates
        BY <3>3 DEF AskDenied, AskStates
      <4> QED
        BY <2>1, <4>1, StateTyped
    <3>4. AskDenied => Who(ask') = Who(ask)
      BY <3>3 DEF Who
    <3> QED
      BY <1>6, <3>1, <3>2, <3>4
  <2>3. ASSUME NEW p \in EscOps, AskFiled(p) PROVE Recorded(u)'
    <3>1. ask'.by = <<[who |-> op[p].who, old |-> FALSE]>> /\ op[p].act = "created" /\ Persists(p) /\ op'[p] # NoOp
      BY <1>0, <2>3, Writers, Effects, NoOpTyped DEF AskFiled
    <3>2. u = op[p].who
      BY <3>1 DEF Who
    <3> QED
      BY <1>0, <1>3, <3>1, <3>2, Effects
  <2>4. ASSUME NEW p \in EscOps, AskApproved(p) PROVE Recorded(u)'
    <3>1. /\ op[p].act = "approved" /\ Persists(p)
          /\ ask' = Approved(ask, op[p].who) /\ op[p].who \in Users /\ op[p].who \notin Who(ask)
      BY <1>0, <2>4, Writers DEF AskApproved
    <3>2. u = op[p].who /\ ask' # ask
      BY <1>6, <2>1, <2>2, <3>1, WhoApproved
    <3> QED
      BY <1>0, <1>3, <3>1, <3>2, Effects
  <2>5. ASSUME NEW p \in EscOps, AskMet(p) PROVE FALSE
    <3>1. ask'.by = ask.by
      BY <2>1, <2>5, StateTyped DEF AskMet, AskStates
    <3> QED
      BY <1>6, <3>1 DEF Who
  <2> QED
    BY <2>1, <2>2, <2>3, <2>4, <2>5 DEF AskMoves
<1> QED
  BY <1>5, <1>6

\* What a step hands out, and what a verification finds.
LEMMA HandedOut ==
    ASSUME EscInv, [EscNext]_escVars
    PROVE  /\ \A i \in released' \ released : i \in 1..Len(log) /\ log[i].act = "read" /\ ask.is \in CountedStates
           /\ verdicts' \subseteq {"head_missing"}
<1>0. verdicts \subseteq {"head_missing"}
  BY DEF EscInv, Accounted
<1>1. CASE UNCHANGED <<released, verdicts>>
  BY <1>0, <1>1
<1>2. ASSUME NEW p \in EscOps, Answers(p)
      PROVE  /\ \A i \in released' \ released : i \in 1..Len(log) /\ log[i].act = "read" /\ ask.is \in CountedStates
             /\ verdicts' \subseteq {"head_missing"}
  <2>1. /\ op[p].at = "answer" /\ verdicts' = verdicts
        /\ released' = released \/ (op[p].act = "read" /\ released' = released \cup {op[p].seen})
    BY <1>2 DEF Answers
  <2>2. op[p].seen \in 1..Len(log) /\ log[op[p].seen].act = op[p].act
    BY <2>1 DEF EscInv, Entered
  <2>3. op[p].act = "read" => ask.is \in CountedStates
    BY <2>1 DEF EscInv, CopiesFit, CopyOK
  <2> QED
    BY <1>0, <2>1, <2>2, <2>3
<1>3. ASSUME NEW p \in EscOps, VerifyWalks(p)
      PROVE  released' = released /\ verdicts' \subseteq {"head_missing"}
  <2>1. Len(log) \in Nat /\ op[p].pos \in Nat /\ op[p].hd.seq \in Nat /\ op[p].hd.seq <= Len(log)
    BY DEF EscInv, AccessTyped, OpState, HeadRow, Behind
  <2>2. op[p].pos < Len(log) => log[op[p].pos + 1].prev = op[p].pos
    BY <2>1 DEF EscInv, Chained
  <2>3. op[p].pos = Len(log) => Verdict(p) \in {"head_missing", "valid"}
    BY <2>1 DEF Verdict
  <2> QED
    BY <1>0, <1>3, <2>2, <2>3 DEF VerifyWalks
<1> QED
  BY <1>1, <1>2, <1>3 DEF EscNext, escVars, Ages, ScopeUpdate, Assign, EscMatterChanges, Denies, Persists,
      ReadsLatest, Inserts,
      ReadsHead, AdvancesHead, Dies, VerifyBegins, Create, Approves, Material

\* The account is kept.
LEMMA AccountedStep ==
    ASSUME EscInv, [EscNext]_escVars
    PROVE  Accounted'
<1>0. /\ AccessTyped /\ AskOK /\ CopiesFit /\ Len(log) \in Nat /\ Len(log') \in Nat /\ Len(log') >= Len(log)
      /\ (\A i \in 1..Len(log) : log'[i] = log[i]) /\ Grows(ask, ask')
  BY LogKept, AskGrows DEF EscInv, AccessTyped, LogGrows
<1>1. \A u \in Who(ask') \ failed' : Recorded(u)'
  BY RecordedStep
<1>2. ASSUME NEW i \in 1..Len(log'), log'[i].act = "approved" PROVE log'[i].who \in Who(ask')
  <2>1. CASE i \in 1..Len(log)
    BY <1>0, <1>2, <2>1 DEF Grows, EscInv, Accounted
  <2>2. CASE i \notin 1..Len(log)
    <3>1. PICK p \in EscOps : Inserted(p)
      BY <2>2, <1>0, LogStep DEF LogMoves
    <3> DEFINE e == [act |-> op[p].act, who |-> op[p].who, prev |-> op[p].seen]
    <3>2. log' = Append(log, e) /\ op[p].at = "insert" /\ e.act = op[p].act /\ e.who = op[p].who
      BY <3>1 DEF Inserted
    <3> HIDE DEF e
    <3>3. i = Len(log) + 1 /\ log'[i] = e
      BY <2>2, <3>2, <1>0 DEF AccessTyped
    <3>4. op[p].act = "approved"
      BY <1>2, <3>2, <3>3
    <3>5. op[p].who \in Who(ask)
      BY <1>0, <3>2, <3>4 DEF CopiesFit, CopyOK, Wrote, AtEntry
    <3> QED
      BY <1>0, <3>2, <3>3, <3>5 DEF Grows
  <2> QED
    BY <2>1, <2>2
<1>3. ASSUME NEW i \in released' PROVE i \in 1..Len(log') /\ log'[i].act = "read" /\ ask'.is \in CountedStates
  <2>1. i \in 1..Len(log) /\ log[i].act = "read" /\ ask.is \in CountedStates
    BY HandedOut DEF EscInv, Accounted
  <2> QED
    BY <1>0, <2>1 DEF Grows
<1>4. verdicts' \subseteq {"head_missing"}
  BY HandedOut
<1> QED
  BY <1>1, <1>2, <1>3, <1>4 DEF Accounted

--------------------------------------------------------------------------------
(* The invariant, and what follows from it *)

\* The invariant holds at first.
LEMMA EscInvInit == EscInit => EscInv
<1> SUFFICES ASSUME EscInit PROVE EscInv
  OBVIOUS
<1>1. scope = [holders |-> Users,
    need |-> 2] /\ assigned = TRUE /\ ask = NoAsk /\ log = <<>> /\ head = [seq |-> 0, ver |-> 0]
      /\ op = [p \in EscOps |-> NoOp] /\ failed = {} /\ released = {} /\ verdicts = {}
  BY DEF EscInit
<1>2. ValidScope(scope)
  <2>1. Users # {}
    BY Bounds, FS_EmptySet
  <2> QED
    BY <1>1, <2>1, Bounds DEF ValidScope
<1>3. /\ log \in Seq(Entry) /\ Len(log) = 0 /\ head \in HeadRow /\ head.seq = 0 /\ Len(log) <= MaxEntries
      /\ NoOp.seen = 0 /\ NoOp.pos = 0 /\ NoOp.hd.seq = 0
  BY <1>1, Bounds DEF HeadRow, NoOp
<1>4. AccessTyped
  BY <1>1, <1>2, <1>3, NoOpTyped, NoAskTyped DEF AccessTyped, Works
<1>5. Chained /\ Behind /\ Heads /\ Entered
  BY <1>1, <1>3, NoOpTyped DEF Chained, Behind, Heads, Entered
<1>6. AskOK /\ Who(ask) = {}
  BY <1>1, NoAskTyped DEF AskOK, Distinct, Who
<1>7. CopiesFit
  BY <1>1, NoOpTyped DEF CopiesFit, CopyOK
<1>8. Accounted
  BY <1>1, <1>3, <1>6 DEF Accounted
<1> QED
  BY <1>4, <1>5, <1>6, <1>7, <1>8 DEF EscInv

\* The invariant is inductive.
LEMMA EscInvStep == EscInv /\ [EscNext]_escVars => EscInv'
  BY TypedStep, ChainedStep, BehindStep, HeadsStep, EnteredStep, AskOKStep, CopiesStep, AccountedStep DEF EscInv

\* The invariant holds throughout.
LEMMA EscInvAlways == EscSpec => []EscInv
  BY EscInvInit, EscInvStep, PTL DEF EscSpec

\* Approvals of different users: as many users as approvals.
LEMMA Counting ==
    ASSUME AccessTyped, Distinct(ask)
    PROVE  Cardinality(Who(ask)) = Len(ask.by) /\ Len(ask.by) <= Cardinality(Users)
<1> DEFINE f == [i \in 1..Len(ask.by) |-> ask.by[i].who]
<1>1. ask.by \in Seq(Approval) /\ Len(ask.by) \in Nat
  BY DEF AccessTyped, AskRow
<1>2. f \in Bijection(1..Len(ask.by), Who(ask))
  BY DEF Bijection, Injection, Surjection, IsInjective, Distinct, Who
<1>3. Cardinality(Who(ask)) = Len(ask.by)
  BY <1>1, <1>2, FS_CountingElements DEF ExistsBijection
<1>4. Who(ask) \subseteq Users
  <2>1. \A i \in 1..Len(ask.by) : ask.by[i] \in Approval
    BY <1>1
  <2>2. \A i \in 1..Len(ask.by) : ask.by[i].who \in Users
    BY <2>1 DEF Approval
  <2> QED
    BY <2>2 DEF Who
<1> QED
  BY <1>3, <1>4, Bounds, FS_Subset

\* What of the invariant the run checks.
LEMMA EscInvHolds == EscInv => EscTypeOK /\ AccessAccounted
<1> SUFFICES ASSUME EscInv PROVE EscTypeOK /\ AccessAccounted
  OBVIOUS
<1>1. AccessTyped /\ Behind /\ AskOK /\ Accounted /\ Len(log) \in Nat /\ ask \in AskRow /\ head \in HeadRow
  BY DEF EscInv, AccessTyped
<1>2. Cardinality(Who(ask)) = Len(ask.by) /\ Len(ask.by) <= Cardinality(Users)
  BY <1>1, Counting DEF AskOK
<1>3. head.seq \in 0..MaxEntries
  BY <1>1, Bounds DEF AccessTyped, Behind, HeadRow
<1>4. EscTypeOK
  BY <1>1, <1>2, <1>3 DEF EscTypeOK, AccessTyped, AskRow, AskStates
<1>5. AccessAccounted
  BY <1>1, <1>2 DEF AccessAccounted, Accounted, Recorded, AskOK, CountedStates
<1> QED
  BY <1>4, <1>5

\* The head only moves forward and never past the log; no verification finds more than a missing head.
Forward == head'.seq >= head.seq /\ head'.seq <= Len(log') /\ verdicts' \subseteq {"head_missing"}

\* Every step moves the head so, and finds nothing worse.
LEMMA ForwardStep == EscInv /\ [EscNext]_escVars => Forward
<1> SUFFICES ASSUME EscInv, [EscNext]_escVars PROVE Forward
  OBVIOUS
<1>1. EscInv'
  BY EscInvStep
<1>2. head'.seq <= Len(log') /\ verdicts' \subseteq {"head_missing"}
  BY <1>1 DEF EscInv, Behind, Accounted
<1>3. head.seq \in Nat /\ \A p \in EscOps : op[p].seen \in Nat
  BY DEF EscInv, AccessTyped, HeadRow, OpState
<1>4. HeadMoves
  BY LogStep DEF EscInv
<1>5. ASSUME NEW p \in EscOps, Advanced(p) PROVE head'.seq >= head.seq
  BY <1>3, <1>5 DEF EscInv, Heads, Advanced
<1> QED
  BY <1>2, <1>3, <1>4, <1>5 DEF HeadMoves, Forward

(****************************************************************************)
(* Dual control over escrowed keys and its audit log keep their promise for *)
(* any number of users, operations, retries, entries, administrators'       *)
(* changes and failures: every approval that counts is on record, every     *)
(* recorded one counts, whatever was handed out has its entry and its       *)
(* approvers, and the chain verifies while appends race for it.             *)
(****************************************************************************)
THEOREM AccessHolds == EscSpec => EscrowHolds
<1>1. EscSpec => [](EscTypeOK /\ AccessAccounted)
  BY EscInvAlways, EscInvHolds, PTL
<1>2. EscInv /\ [EscNext]_escVars => [Forward]_escVars
  BY ForwardStep
<1>3. EscSpec => LogHolds
  BY EscInvAlways, <1>2, PTL DEF EscSpec, LogHolds, Forward
<1> QED
  BY <1>1, <1>3, PTL DEF EscrowHolds

--------------------------------------------------------------------------------
(****************************************************************************)
(* No rotation of the configuration key loses a secret: KeysUsable holds of *)
(* every number of copies, secrets, rotations and faults.                   *)
(****************************************************************************)

AddAt  == {"adding", "kids", "write", "record"}
SureAt == {"reload", "pass", "row", "retiring", "choose", "recount", "retired"}
LateAt == {"activating", "activate", "reencrypting"} \cup SureAt
Active(c) == job[c].at \notin {"idle", "load"}
PhaseOf(at) == IF at \in AddAt THEN "adding" ELSE IF at \in {"activating", "activate"} THEN "activating"
               ELSE IF at \in {"reencrypting", "reload", "pass", "row"} THEN "reencrypting" ELSE "retiring"

\* What the variables hold; where a job stands tells what it read.
JobState == [at: AddAt \cup LateAt \cup {"idle", "load"}, my: StateRow, snap: SUBSET Kids, add: Kids \cup {0},
             pos: Nat \ {0}, used: SUBSET Kids, whole: BOOLEAN]
Placed(j) ==
    /\ j.at = "recount" => j.my.active \in j.snap
    /\ j.at = "row" => j.pos \in Secrets
    /\ j.at \in {"pass", "row"} => j.my.kid \in Kids
    /\ j.at \in {"retiring", "choose"} => j.pos = 1
    /\ j.at \notin {"idle", "load"} => j.my.phase = PhaseOf(j.at)
TypedStore ==
    /\ ring \in SUBSET Kids /\ ring # {} /\ state \in StateRow
    /\ ringFresh \in SUBSET Copies /\ stFresh \in SUBSET Copies /\ rowFresh \in SUBSET Copies
    /\ made \in Kids /\ rotations \in 0..MaxRotations /\ lock \in Copies \cup {NoCopy}
    /\ unseen \in BOOLEAN /\ forced \in BOOLEAN /\ outlived \in BOOLEAN
TypedCopies ==
    /\ up \in SUBSET Copies /\ loaded \in [Copies -> SUBSET Kids] /\ (\A c \in Copies : loaded[c] # {})
    /\ known \in [Copies -> Kids \cup {0, Unread}]
    /\ beat \in [Copies -> [kids: SUBSET Kids, enc: Kids \cup {Unread}]]
TypedSecrets ==
    /\ slow \in SUBSET Copies /\ env \in [Secrets -> Kids] /\ late \in SUBSET Secrets
    /\ sealed \in [Copies -> [row: Secrets \cup {0}, kid: Kids \cup {0}]]
    /\ \A c \in Copies : sealed[c].row # 0 => c \in up /\ sealed[c].kid \in Kids
TypedJobs ==
    /\ job \in [Copies -> JobState]
    /\ \A c \in Copies : Placed(job[c]) /\ (job[c].at # "idle" => c \in up)
Typed == TypedStore /\ TypedCopies /\ TypedSecrets /\ TypedJobs

\* A version that is still current was read with the row, or the ring, as it is.
Versions ==
    /\ \A c \in stFresh : Active(c) => job[c].my = state
    /\ \A c \in ringFresh : job[c].at \in {"kids", "write", "choose", "recount"} => job[c].snap = ring

--------------------------------------------------------------------------------

\* A nonempty set of numbers has a least,
LEMMA Least ==
    ASSUME NEW S \in SUBSET Nat, S # {} PROVE \E x \in S : \A y \in S : x <= y
  <1> DEFINE R == OpToRel(<, Nat)
  <1>1. IsWellFoundedOn(R, Nat) BY NatLessThanWellFounded
  <1>2. \A x, y \in Nat : x < y => <<x, y>> \in R BY DEF OpToRel
  <1> HIDE DEF R
  <1>3. PICK x \in S : \A y \in S : ~ (<<y, x>> \in R) BY <1>1, WFMin
  <1>4. ASSUME NEW y \in S PROVE x <= y
    <2>1. ~(y < x) BY <1>2, <1>3
    <2> QED BY <2>1
  <1> QED BY <1>4

\* which Min() names,
LEMMA MinIs ==
    ASSUME NEW S \in SUBSET Nat, S # {} PROVE Min(S) \in S /\ \A y \in S : Min(S) <= y
  BY Least DEF Min

\* and one with a bound has a largest, which Max() names.
LEMMA MaxIs ==
    ASSUME NEW n \in Nat, NEW S \in SUBSET (1..n), S # {} PROVE Max(S) \in S /\ \A y \in S : Max(S) >= y
  <1> DEFINE T == {n - x : x \in S}
  <1>1. T \in SUBSET Nat
    <2>1. \A x \in S : n - x \in Nat OBVIOUS
    <2> QED BY <2>1
  <1>2. T # {} OBVIOUS
  <1>3. PICK m \in T : \A y \in T : m <= y BY <1>1, <1>2, Least
  <1>4. PICK x \in S : m = n - x BY <1>3
  <1>5. ASSUME NEW y \in S PROVE x >= y
    <2>1. n - x <= n - y BY <1>3, <1>4
    <2> QED BY <2>1
  <1> QED BY <1>5 DEF Max

--------------------------------------------------------------------------------
\* What a step does to the row, the ring and the jobs.

Fixed      == UNCHANGED <<state, ring, made, rotations>>
Others(c)  == \A d \in Copies \ {c} : job'[d] = job[d]
Row(p, a, k, ks) == state' \in StateRow /\ state'.phase = p /\ state'.active = a /\ state'.kid = k /\ state'.kids = ks

Dropped(c) == Fixed /\ Others(c) /\ job'[c].at \in {"idle", "load"}
PickedUp(c)   == Fixed /\ Others(c) /\ state.phase \in Running /\ job'[c].at = state.phase /\ job'[c].my = state
Went(c, from, to) ==
    Fixed /\ Others(c) /\ job[c].at = from /\ job'[c].at = to /\ job'[c].my = job[c].my /\ job'[c].snap = job[c].snap
Snapped(c) ==
    /\ Fixed /\ Others(c) /\ job'[c].my = job[c].my /\ job'[c].snap = ring
    /\ <<job[c].at, job'[c].at>> \in {<<"adding", "kids">>, <<"retiring", "choose">>}
Adopted(c) ==
    /\ Fixed /\ Others(c) /\ job[c].at = "write" /\ OwnKeys(c) # {}
    /\ job'[c].at = "record" /\ job'[c].my = job[c].my /\ job'[c].add = Max(OwnKeys(c))
Added(c) ==
    /\ UNCHANGED <<state, rotations>> /\ Others(c) /\ job[c].at = "write" /\ OwnKeys(c) = {} /\ job[c].snap = ring
    /\ made + 1 \in Kids /\ made' = made + 1 /\ ring' = ring \cup {made + 1}
    /\ job'[c].at = "record" /\ job'[c].my = job[c].my /\ job'[c].add = made + 1
Removed(c) ==
    /\ UNCHANGED <<state, made, rotations>> /\ Others(c) /\ job[c].at = "recount" /\ job[c].pos \notin Secrets
    /\ Recounted(c) = {} /\ job[c].snap = ring /\ ring' = ring \ Removable(c)
    /\ job'[c].at = "retired" /\ job'[c].my = job[c].my
Rewrote(c)   == UNCHANGED <<ring, made, rotations>> /\ Others(c) /\ Active(c) /\ job[c].my = state
ListedKeys(c)  ==
    /\ Rewrote(c) /\ job[c].at = "kids" /\ state.kids = {} /\ Row("adding", state.active, state.kid, job[c].snap)
    /\ job'[c].at = "write" /\ job'[c].my = state' /\ job'[c].snap = job[c].snap
KeyKept(c) ==
    /\ Rewrote(c) /\ job[c].at = "record" /\ Row("activating", state.active, job[c].add, {}) /\ job'[c].at = "load"
Activated(c) ==
    /\ Rewrote(c) /\ job[c].at = "activate" /\ Row("reencrypting", state.kid, state.kid, state.kids) /\ job'[c].at = "load"
Phased(c)  ==
    /\ Rewrote(c) /\ job'[c].at \in {"idle", "load"}
    /\ \E p \in {"failed", "reencrypting", "retiring", "done"} :
           Row(p, state.active, state.kid, state.kids) /\ (p = "failed" \/ job[c].at \in SureAt)
Asked ==
    /\ UNCHANGED <<ring, made, job>> /\ rotations < MaxRotations /\ rotations' = rotations + 1
    /\ Row("adding", state.active, 0, {})
    /\ outlived' \/ \A c \in Copies : ~Active(c)
Forced ==
    /\ UNCHANGED <<ring, made, rotations, job>> /\ state.phase = "activating" /\ state.kid # 0 /\ forced'
    /\ Row("reencrypting", state.kid, state.kid, state.kids)

Seen == unseen' \/ \A d \in up : beat[d] # NoBeat
\* How a job that goes on with the same copy of the row goes on.
Path(c) ==
    \/ Went(c, "kids", "write") /\ job[c].my.kids # {}
    \/ Went(c, "activating", "activate") /\ EveryoneLoaded(job[c].my.kid) /\ Seen
    \/ /\ Went(c, "reencrypting", "reload") /\ job[c].my.active = job[c].my.kid
       /\ EveryoneEncrypts(job[c].my.kid) /\ Seen
    \/ \E from \in SureAt, to \in SureAt : Went(c, from, to)
MovedOn ==
    \/ Fixed /\ UNCHANGED job
    \/ \E c \in Copies :
          \/ Dropped(c) \/ PickedUp(c) \/ Snapped(c) \/ Path(c) \/ Adopted(c) \/ Added(c) \/ Removed(c)
          \/ ListedKeys(c) \/ KeyKept(c) \/ Activated(c) \/ Phased(c)
    \/ Asked \/ Forced

Turned(c, j) == job' = [job EXCEPT ![c] = j]
\* A job's turn keeps its types, given what it turns to,
LEMMA Turning ==
    ASSUME TypedJobs, NEW c \in Copies, NEW j \in JobState, Placed(j), j.at # "idle" => c \in up,
           Turned(c, j), up' = up
    PROVE  TypedJobs' /\ Others(c) /\ job'[c] = j
  BY DEF TypedJobs, Turned, Others

\* and what is current, given what it read.
LEMMA Standing ==
    ASSUME Versions, NEW c \in Copies, Others(c),
           stFresh \in SUBSET Copies, stFresh' \in SUBSET (stFresh \cup {c}), state' = state \/ stFresh' \subseteq {c},
           c \in stFresh' /\ job'[c].at \notin {"idle", "load"} => job'[c].my = state',
           ringFresh \in SUBSET Copies, ringFresh' \in SUBSET (ringFresh \cup {c}), ring' = ring \/ ringFresh' = {},
           c \in ringFresh' /\ job'[c].at \in {"kids", "write", "choose", "recount"} => job'[c].snap = ring'
    PROVE  Versions'
  BY DEF Versions, Others, Active

Stopped(c) == Turned(c, Idle) /\ UNCHANGED state /\ stFresh' \subseteq stFresh
Saved(c, new, where) ==
    /\ c \in stFresh /\ state' = new /\ stFresh' = {c}
    /\ Turned(c, IF where = "end" THEN Idle ELSE [job[c] EXCEPT !.at = where, !.my = new])

\* A versioned update of the row is written, or the run ends.
LEMMA Saving ==
    ASSUME TypedJobs, NEW c \in Copies, NEW new, NEW where, SaveState(c, new, where)
    PROVE  /\ Saved(c, new, where) \/ Stopped(c)
           /\ lock \in Copies \cup {NoCopy} => lock' \in Copies \cup {NoCopy}
  <1>1. CASE c \in stFresh /\ where = "end"
    BY <1>1 DEF SaveState, Ends, Saved, Turned
  <1>2. CASE c \in stFresh /\ where # "end"
    <2>1. Turned(c, [job[c] EXCEPT !.at = where, !.my = new]) BY <1>2 DEF SaveState, Turned, TypedJobs
    <2> QED BY <1>2, <2>1 DEF SaveState, Saved
  <1>3. CASE c \notin stFresh
    BY <1>3 DEF SaveState, Ends, Stopped, Turned
  <1> QED BY <1>1, <1>2, <1>3

\* Giving up leaves the row what it was.
LEMMA Giving ==
    ASSUME TypedJobs, Versions, NEW c \in Copies, Active(c), GivesUp(c)
    PROVE  Stopped(c) /\ (lock \in Copies \cup {NoCopy} => lock' \in Copies \cup {NoCopy})
  <1>1. CASE SaveState(c, job[c].my, "end") BY <1>1, Saving DEF Saved, Stopped, Versions
  <1>2. CASE Ends(c) /\ UNCHANGED <<state, stFresh>> BY <1>2 DEF Ends, Stopped, Turned
  <1> QED BY <1>1, <1>2 DEF GivesUp

\* A job at rest.
LEMMA IdleTyped == Idle \in JobState /\ Placed(Idle) /\ Idle.at = "idle" /\ Idle.pos = 1
  BY ConfigKeysAssumption DEF Idle, JobState, StateRow, Placed, Kids

\* A run that ends.
LEMMA Stopping ==
    ASSUME Typed, Versions, NEW c \in Copies, Stopped(c), UNCHANGED <<ring, ringFresh, made, rotations, up>>
    PROVE  TypedJobs' /\ Versions' /\ Dropped(c)
  <1>1. TypedJobs' /\ Others(c) /\ job'[c] = Idle BY IdleTyped, Turning DEF Typed, Stopped
  <1>2. Versions' BY <1>1, IdleTyped, Standing DEF Typed, TypedStore, Stopped, Versions
  <1> QED BY <1>1, <1>2, IdleTyped DEF Dropped, Fixed, Stopped

\* The rows a job, or a request, writes.
Like(new, p, a, k, ks) ==
    new \in StateRow /\ new.phase = p /\ new.active = a /\ new.kid = k /\ new.kids = ks
\* A phase,
LEMMA PhaseRow ==
    ASSUME NEW s \in StateRow, NEW p \in {"failed", "done"}
    PROVE  Like([s EXCEPT !.phase = p], p, s.active, s.kid, s.kids)
  BY DEF StateRow, Like
\* what a pass found,
LEMMA PassRow ==
    ASSUME NEW s \in StateRow, NEW p \in {"reencrypting", "retiring"}, NEW u \in SUBSET Kids
    PROVE  Like([s EXCEPT !.usage = u, !.phase = p], p, s.active, s.kid, s.kids)
  BY DEF StateRow, Running, Like
\* the keys of the ring,
LEMMA KidsRow ==
    ASSUME NEW s \in StateRow, NEW ks \in SUBSET Kids
    PROVE  Like([s EXCEPT !.kids = ks], s.phase, s.active, s.kid, ks)
  BY DEF StateRow, Like
\* the new key,
LEMMA KeyRow ==
    ASSUME NEW s \in StateRow, NEW k \in Kids \cup {0}
    PROVE  Like([s EXCEPT !.kid = k, !.kids = {}, !.phase = "activating"], "activating", s.active, k, {})
  BY DEF StateRow, Running, Like
\* the active key,
LEMMA ActiveRow ==
    ASSUME NEW s \in StateRow
    PROVE  Like([s EXCEPT !.active = s.kid, !.phase = "reencrypting"], "reencrypting", s.kid, s.kid, s.kids)
  BY DEF StateRow, Running, Like
\* and the next rotation.
LEMMA AskedRow ==
    ASSUME NEW s \in StateRow
    PROVE  Like([s EXCEPT !.phase = "adding", !.kid = 0, !.kids = {}], "adding", s.active, 0, {})
  BY DEF StateRow, Running, Like

\* A run that writes the row.
LEMMA Marking ==
    ASSUME Typed, Versions, NEW c \in Copies, Active(c), NEW new \in StateRow, NEW where \in {"write", "load", "end"},
           where = "write" => new.phase = "adding" /\ job[c].at = "kids",
           Saved(c, new, where), UNCHANGED <<ring, ringFresh, made, rotations, up>>
    PROVE  /\ TypedJobs' /\ Versions' /\ Rewrote(c) /\ state' = new
           /\ where # "write" => job'[c].at \in {"idle", "load"}
           /\ where = "load" => job'[c].at = "load"
           /\ where = "write" => job'[c].at = "write" /\ job'[c].my = new /\ job'[c].snap = job[c].snap
  <1> DEFINE j == [job[c] EXCEPT !.at = where, !.my = new]
  <1>1. job[c].my = state /\ c \in up BY DEF Saved, Versions, Typed, TypedJobs, Active
  <1>2. CASE where = "end"
    <2>1. TypedJobs' /\ Others(c) /\ job'[c] = Idle BY <1>2, IdleTyped, Turning DEF Typed, Saved
    <2>2. Versions' BY <2>1, IdleTyped, Standing DEF Typed, TypedStore, Saved, Versions
    <2> QED BY <1>1, <1>2, <2>1, <2>2, IdleTyped DEF Rewrote, Saved
  <1>3. CASE where # "end"
    <2>1. /\ j \in JobState /\ j.at = where /\ j.my = new /\ j.snap = job[c].snap
      BY <1>3 DEF Typed, TypedJobs, JobState, AddAt
    <2> HIDE DEF j
    <2>2. Turned(c, j) BY <1>3 DEF Saved, j
    <2>3. TypedJobs' /\ Others(c) /\ job'[c] = j
      BY <1>1, <1>3, <2>1, <2>2, Turning DEF Typed, Placed, PhaseOf, AddAt
    <2>4. Versions' BY <1>3, <2>1, <2>3, Standing DEF Typed, TypedStore, Saved, Versions
    <2> QED BY <1>1, <1>3, <2>1, <2>3, <2>4 DEF Rewrote, Saved
  <1> QED BY <1>2, <1>3

\* A run that goes on with what it read.
LEMMA Going ==
    ASSUME Typed, Versions, NEW c \in Copies, Active(c), NEW j \in JobState, Placed(j), Turned(c, j), Fixed,
           UNCHANGED <<stFresh, up>>, ringFresh' \in SUBSET ringFresh, j.my = job[c].my, j.snap = job[c].snap,
           j.at \in {"kids", "write", "choose", "recount"} => job[c].at \in {"kids", "write", "choose", "recount"}
    PROVE  TypedJobs' /\ Versions' /\ Others(c) /\ job'[c] = j
  <1>1. c \in up BY DEF Typed, TypedJobs, Active
  <1>2. TypedJobs' /\ Others(c) /\ job'[c] = j BY <1>1, Turning DEF Typed
  <1>3. c \in stFresh => j.my = state BY DEF Versions
  <1>4. c \in ringFresh /\ j.at \in {"kids", "write", "choose", "recount"} => j.snap = ring BY DEF Versions
  <1>5. Versions' BY <1>2, <1>3, <1>4, Standing DEF Typed, TypedStore, Fixed
  <1> QED BY <1>2, <1>5

\* From one place to the next.
LEMMA Walking ==
    ASSUME Typed, Versions, NEW c \in Copies, Active(c), NEW where \in AddAt \cup LateAt, Goes(c, where), Fixed,
           UNCHANGED <<stFresh, ringFresh, up>>, PhaseOf(where) = PhaseOf(job[c].at),
           where \in {"kids", "write", "choose", "recount"} => job[c].at \in {"kids", "write", "choose", "recount"},
           where = "recount" => job[c].my.active \in job[c].snap,
           where = "row" => job[c].pos \in Secrets, where \in {"pass", "row"} => job[c].my.kid \in Kids,
           where \notin {"retiring", "choose"}
    PROVE  TypedJobs' /\ Versions' /\ Went(c, job[c].at, where)
  <1> DEFINE j == [job[c] EXCEPT !.at = where]
  <1>1. j \in JobState /\ j.at = where /\ j.my = job[c].my /\ j.snap = job[c].snap /\ j.pos = job[c].pos
    BY DEF Typed, TypedJobs, JobState
  <1>2. Turned(c, j) BY DEF Goes, Turned, Typed, TypedJobs
  <1> HIDE DEF j
  <1>3. Placed(j) BY <1>1 DEF Placed, Typed, TypedJobs, Active
  <1>4. TypedJobs' /\ Versions' /\ Others(c) /\ job'[c] = j BY <1>1, <1>2, <1>3, Going
  <1> QED BY <1>1, <1>4 DEF Went

Faithful == TypedJobs' /\ Versions' /\ MovedOn

\* A job that takes the lock and reads the row is PickedUp, or goes home,
LEMMA StartsFaithful ==
    ASSUME Typed, Versions, NEW c \in Copies, TakesLock(c) \/ LoadsState(c) PROVE Faithful
  <1>1. CASE TakesLock(c)
    <2> DEFINE j == [job[c] EXCEPT !.at = "load"]
    <2>1. j \in JobState /\ j.at = "load" BY DEF Typed, TypedJobs, JobState
    <2>2. Turned(c, j) BY <1>1 DEF TakesLock, Goes, Turned, Typed, TypedJobs
    <2> HIDE DEF j
    <2>3. c \in up /\ up' = up /\ Fixed /\ UNCHANGED <<stFresh, ringFresh>> BY <1>1 DEF TakesLock, store, ciphers, Fixed
    <2>4. TypedJobs' /\ Others(c) /\ job'[c] = j BY <2>1, <2>2, <2>3, Turning DEF Typed, Placed
    <2>5. Versions' BY <2>1, <2>3, <2>4, Standing DEF Typed, TypedStore, Fixed
    <2> QED BY <2>1, <2>3, <2>4, <2>5 DEF Faithful, MovedOn, Dropped
  <1>2. CASE LoadsState(c) /\ state.phase \in Running
    <2> DEFINE j == [Idle EXCEPT !.at = state.phase, !.my = state]
    <2>1. /\ j \in JobState /\ j.at = state.phase /\ j.my = state /\ j.pos = 1
      BY <1>2, IdleTyped DEF JobState, Running, AddAt, LateAt, SureAt, Typed, TypedStore
    <2>2. Turned(c, j) BY <1>2 DEF LoadsState, Turned
    <2> HIDE DEF j
    <2>3. /\ UNCHANGED <<up, ringFresh>> /\ Fixed /\ stFresh' = stFresh \cup {c} /\ job[c].at = "load"
      BY <1>2 DEF LoadsState, ciphers, Fixed, At
    <2>4. Placed(j) BY <1>2, <2>1 DEF Placed, PhaseOf, Running, AddAt
    <2>5. c \in up BY <2>3 DEF Typed, TypedJobs
    <2>6. TypedJobs' /\ Others(c) /\ job'[c] = j BY <2>1, <2>2, <2>3, <2>4, <2>5, Turning DEF Typed
    <2>7. Versions' BY <1>2, <2>1, <2>3, <2>6, Standing DEF Typed, TypedStore, Fixed, Running
    <2> QED BY <1>2, <2>1, <2>3, <2>6, <2>7 DEF Faithful, MovedOn, PickedUp
  <1>3. CASE LoadsState(c) /\ state.phase \notin Running
    <2>1. Stopped(c) /\ UNCHANGED <<ring, ringFresh, made, rotations, up>>
      BY <1>3 DEF LoadsState, Ends, Stopped, Turned, ciphers
    <2> QED BY <2>1, Stopping DEF Faithful, MovedOn
  <1> QED BY <1>1, <1>2, <1>3

\* Shared by the runs that write a phase and end, or go on from a fresh read.
LEMMA Phasing ==
    ASSUME Typed, Versions, NEW c \in Copies, Active(c), NEW p \in {"failed", "reencrypting", "retiring", "done"},
           NEW new, NEW where \in {"load", "end"}, SaveState(c, new, where),
           p = "failed" \/ job[c].at \in SureAt, Like(new, p, job[c].my.active, job[c].my.kid, job[c].my.kids),
           UNCHANGED <<ring, ringFresh, made, rotations, up>>
    PROVE  Faithful
  <1>1. CASE Stopped(c) BY <1>1, Stopping DEF Faithful, MovedOn
  <1>2. CASE Saved(c, new, where)
    <2>1. TypedJobs' /\ Versions' /\ Rewrote(c) /\ state' = new /\ job'[c].at \in {"idle", "load"}
      BY <1>2, Marking DEF Like
    <2>2. Phased(c) BY <2>1 DEF Phased, Row, Rewrote, Like
    <2> QED BY <2>1, <2>2 DEF Faithful, MovedOn
  <1> QED BY <1>1, <1>2, Saving DEF Typed

\* one that reads the ring has it as it is, or goes home,
LEMMA ReadsFaithful ==
    ASSUME Typed, Versions, NEW c \in Copies, ReadsRing(c) PROVE Faithful
  <1>1. Active(c) /\ job[c] \in JobState /\ job[c].my \in StateRow BY DEF ReadsRing, Active, Typed, TypedJobs, JobState
  <1>2. UNCHANGED <<ring, made, rotations, up>> BY DEF ReadsRing, ciphers
  <1>3. CASE /\ job' = [job EXCEPT ![c].snap = ring, ![c].at = IF @ = "adding" THEN "kids" ELSE "choose"]
             /\ ringFresh' = ringFresh \cup {c} /\ UNCHANGED <<state, stFresh>>
    <2> DEFINE j == [job[c] EXCEPT !.snap = ring, !.at = IF @ = "adding" THEN "kids" ELSE "choose"]
    <2>1. /\ j \in JobState /\ j.my = job[c].my /\ j.snap = ring /\ j.pos = job[c].pos
          /\ job[c].at = "adding" => j.at = "kids"
          /\ job[c].at = "retiring" => j.at = "choose"
      BY <1>1 DEF JobState, Typed, TypedStore, AddAt, LateAt, SureAt
    <2>2. Turned(c, j) BY <1>3 DEF Turned, Typed, TypedJobs
    <2> HIDE DEF j
    <2>3. job[c].at \in {"adding", "retiring"} BY DEF ReadsRing
    <2>4. Placed(j)
      BY <2>1, <2>3 DEF Placed, PhaseOf, AddAt, Typed, TypedJobs
    <2>5. TypedJobs' /\ Others(c) /\ job'[c] = j
      BY <1>1, <1>2, <2>1, <2>2, <2>3, <2>4, Turning DEF Typed, TypedJobs
    <2>6. c \in stFresh => job[c].my = state BY <1>1 DEF Versions
    <2>7. Versions' BY <1>2, <1>3, <2>1, <2>5, <2>6, Standing DEF Typed, TypedStore
    <2>8. Fixed /\ job'[c].my = job[c].my /\ job'[c].snap = ring BY <1>2, <1>3, <2>1, <2>5 DEF Fixed
    <2>9. <<job[c].at, job'[c].at>> \in {<<"adding", "kids">>, <<"retiring", "choose">>}
      BY <2>1, <2>3, <2>5
    <2>10. Snapped(c) BY <2>5, <2>8, <2>9 DEF Snapped
    <2> QED BY <2>5, <2>7, <2>10 DEF Faithful, MovedOn
  <1>4. CASE GivesUp(c) /\ UNCHANGED ringFresh
    BY <1>1, <1>2, <1>4, Giving, Stopping DEF Typed, Faithful, MovedOn
  <1>5. CASE SaveState(c, [job[c].my EXCEPT !.phase = "failed"], "end") /\ UNCHANGED ringFresh
    BY <1>1, <1>2, <1>5, PhaseRow, Phasing
  <1> QED BY <1>3, <1>4, <1>5 DEF ReadsRing

\* one that lists the ring's keys writes them to the row it read,
LEMMA RecordsFaithful ==
    ASSUME Typed, Versions, NEW c \in Copies, RecordsKids(c) PROVE Faithful
  <1>1. Active(c) /\ job[c].at = "kids" /\ job[c] \in JobState /\ job[c].my \in StateRow /\ job[c].my.phase = "adding"
    BY DEF RecordsKids, At, Active, Typed, TypedJobs, Placed, PhaseOf, AddAt, JobState
  <1>2. UNCHANGED <<ring, ringFresh, made, rotations, up>> BY DEF RecordsKids, ciphers
  <1>3. CASE job[c].my.kids = {}
    <2> DEFINE new == [job[c].my EXCEPT !.kids = job[c].snap]
    <2>1. job[c].snap \in SUBSET Kids BY <1>1 DEF JobState
    <2>2. Like(new, "adding", job[c].my.active, job[c].my.kid, job[c].snap) BY <1>1, <2>1, KidsRow
    <2>3. SaveState(c, new, "write") BY <1>3 DEF RecordsKids
    <2> HIDE DEF new
    <2>4. CASE Stopped(c) BY <1>2, <2>4, Stopping DEF Faithful, MovedOn
    <2>5. CASE Saved(c, new, "write")
      <3>1. /\ TypedJobs' /\ Versions' /\ Rewrote(c) /\ state' = new
            /\ job'[c].at = "write" /\ job'[c].my = new /\ job'[c].snap = job[c].snap
        BY <1>1, <1>2, <2>2, <2>5, Marking DEF Like
      <3>2. ListedKeys(c) BY <1>1, <1>3, <2>2, <3>1 DEF ListedKeys, Row, Rewrote, Like
      <3> QED BY <3>1, <3>2 DEF Faithful, MovedOn
    <2> QED BY <2>3, <2>4, <2>5, Saving DEF Typed
  <1>4. CASE job[c].my.kids # {}
    <2>1. Goes(c, "write") /\ UNCHANGED <<state, stFresh>> BY <1>4 DEF RecordsKids
    <2>2. TypedJobs' /\ Versions' /\ Went(c, "kids", "write")
      BY <1>1, <1>2, <2>1, Walking DEF Fixed, AddAt, PhaseOf
    <2> QED BY <1>4, <2>2 DEF Faithful, MovedOn, Path
  <1> QED BY <1>3, <1>4

\* one that writes a key adds the next, or takes up its predecessor's,
LEMMA AddsFaithful ==
    ASSUME Typed, Versions, NEW c \in Copies, AddsKey(c) PROVE Faithful
  <1>1. /\ Active(c) /\ job[c].at = "write" /\ job[c] \in JobState /\ job[c].my \in StateRow
        /\ job[c].my.phase = "adding" /\ c \in up
    BY DEF AddsKey, At, Active, Typed, TypedJobs, Placed, PhaseOf, AddAt, JobState
  <1>2. UNCHANGED <<rotations, up>> BY DEF AddsKey, ciphers
  <1> DEFINE j(k) == [job[c] EXCEPT !.add = k, !.at = "record"]
  <1>3. \A k \in Kids : /\ j(k) \in JobState /\ j(k).at = "record" /\ j(k).my = job[c].my
                        /\ j(k).snap = job[c].snap /\ j(k).add = k
    BY <1>1 DEF JobState, AddAt
  <1>4. ASSUME NEW k, job' = [job EXCEPT ![c].add = k, ![c].at = "record"] PROVE Turned(c, j(k))
    BY <1>4 DEF Turned, Typed, TypedJobs
  <1> HIDE DEF j
  <1>5. \A k \in Kids : Placed(j(k)) BY <1>1, <1>3 DEF Placed, PhaseOf, AddAt
  <1>6. CASE OwnKeys(c) # {}
    <2>1. UNCHANGED <<ring, ringFresh, made, state, stFresh>> /\ Turned(c, j(Max(OwnKeys(c))))
      BY <1>4, <1>6 DEF AddsKey
    <2>2. Max(OwnKeys(c)) \in Kids
      <3>1. MaxRotations + 2 \in Nat BY ConfigKeysAssumption
      <3>2. OwnKeys(c) \in SUBSET (1..(MaxRotations + 2)) BY <1>1 DEF OwnKeys, JobState, Kids
      <3>3. Max(OwnKeys(c)) \in OwnKeys(c) BY <1>6, <3>1, <3>2, MaxIs
      <3> QED BY <3>2, <3>3 DEF Kids
    <2>3. TypedJobs' /\ Versions' /\ Others(c) /\ job'[c] = j(Max(OwnKeys(c)))
      BY <1>1, <1>2, <1>3, <1>5, <2>1, <2>2, Going DEF Fixed
    <2>4. Adopted(c) BY <1>1, <1>2, <1>3, <1>6, <2>1, <2>2, <2>3 DEF Adopted, Fixed
    <2> QED BY <2>3, <2>4 DEF Faithful, MovedOn
  <1>7. CASE OwnKeys(c) = {} /\ c \in ringFresh
    <2>1. /\ made + 1 \in Kids /\ made' = made + 1 /\ ring' = job[c].snap \cup {made + 1} /\ ringFresh' = {}
          /\ UNCHANGED <<state, stFresh>> /\ Turned(c, j(made + 1))
      BY <1>4, <1>7 DEF AddsKey
    <2>2. job[c].snap = ring /\ (c \in stFresh => job[c].my = state) BY <1>1, <1>7 DEF Versions
    <2>3. TypedJobs' /\ Others(c) /\ job'[c] = j(made + 1) BY <1>1, <1>2, <1>3, <1>5, <2>1, Turning DEF Typed
    <2>4. Versions' BY <1>3, <2>1, <2>2, <2>3, Standing DEF Typed, TypedStore
    <2>5. Added(c) BY <1>1, <1>2, <1>3, <1>7, <2>1, <2>2, <2>3 DEF Added
    <2> QED BY <2>3, <2>4, <2>5 DEF Faithful, MovedOn
  <1>8. CASE OwnKeys(c) = {} /\ c \notin ringFresh
    <2>1. GivesUp(c) /\ UNCHANGED <<ring, ringFresh, made>> BY <1>8 DEF AddsKey
    <2> QED BY <1>1, <1>2, <2>1, Giving, Stopping DEF Typed, Faithful, MovedOn
  <1> QED BY <1>6, <1>7, <1>8

\* one that names the key, or its activation, writes it to the row it read,
LEMMA KeepsFaithful ==
    ASSUME Typed, Versions, NEW c \in Copies, RecordsKey(c) \/ Activates(c) PROVE Faithful
  <1>1. Active(c) /\ job[c] \in JobState /\ job[c].my \in StateRow
    BY DEF RecordsKey, Activates, At, Active, Typed, TypedJobs, JobState
  <1>2. UNCHANGED <<ring, ringFresh, made, rotations, up>> BY DEF RecordsKey, Activates, ciphers
  <1>3. ASSUME Stopped(c) PROVE Faithful BY <1>2, <1>3, Stopping DEF Faithful, MovedOn
  <1>4. CASE RecordsKey(c)
    <2> DEFINE new == [job[c].my EXCEPT !.kid = job[c].add, !.kids = {}, !.phase = "activating"]
    <2>1. job[c].at = "record" /\ SaveState(c, new, "load") BY <1>4 DEF RecordsKey, At
    <2>2. job[c].add \in Kids \cup {0} BY <1>1 DEF JobState
    <2>3. Like(new, "activating", job[c].my.active, job[c].add, {}) BY <1>1, <2>2, KeyRow
    <2> HIDE DEF new
    <2>4. CASE Saved(c, new, "load")
      <3>1. TypedJobs' /\ Versions' /\ Rewrote(c) /\ state' = new /\ job'[c].at = "load"
        BY <1>1, <1>2, <2>3, <2>4, Marking DEF Like
      <3>2. KeyKept(c) BY <2>1, <2>3, <3>1 DEF KeyKept, Row, Rewrote, Like
      <3> QED BY <3>1, <3>2 DEF Faithful, MovedOn
    <2> QED BY <1>3, <2>1, <2>4, Saving DEF Typed
  <1>5. CASE Activates(c)
    <2> DEFINE new == [job[c].my EXCEPT !.active = job[c].my.kid, !.phase = "reencrypting"]
    <2>1. job[c].at = "activate" /\ SaveState(c, new, "load") BY <1>5 DEF Activates, At
    <2>2. Like(new, "reencrypting", job[c].my.kid, job[c].my.kid, job[c].my.kids) BY <1>1, ActiveRow
    <2> HIDE DEF new
    <2>3. CASE Saved(c, new, "load")
      <3>1. TypedJobs' /\ Versions' /\ Rewrote(c) /\ state' = new /\ job'[c].at = "load"
        BY <1>1, <1>2, <2>2, <2>3, Marking DEF Like
      <3>2. Activated(c) BY <2>1, <2>2, <3>1 DEF Activated, Row, Rewrote, Like
      <3> QED BY <3>1, <3>2 DEF Faithful, MovedOn
    <2> QED BY <1>3, <2>1, <2>3, Saving DEF Typed
  <1> QED BY <1>4, <1>5

\* one that looks at the heartbeats goes on when all of them have the key,
LEMMA LooksFaithful ==
    ASSUME Typed, Versions, NEW c \in Copies, LooksForLoaded(c) \/ LooksForEncrypting(c) \/ Reloads(c) PROVE Faithful
  <1>1. Active(c) /\ job[c] \in JobState /\ job[c].my \in StateRow
    BY DEF LooksForLoaded, LooksForEncrypting, Reloads, At, Active, Typed, TypedJobs, JobState
  <1>2. UNCHANGED <<ring, ringFresh, made, rotations, up>> BY DEF LooksForLoaded, LooksForEncrypting, Reloads, ciphers
  <1>3. ASSUME GivesUp(c) PROVE Faithful BY <1>1, <1>2, <1>3, Giving, Stopping DEF Typed, Faithful, MovedOn
  <1>4. CASE /\ LooksForLoaded(c) /\ Goes(c, "activate") /\ UNCHANGED <<state, stFresh, lock>>
             /\ EveryoneLoaded(job[c].my.kid)
    <2>1. job[c].at = "activating" BY <1>4 DEF LooksForLoaded, At
    <2>2. TypedJobs' /\ Versions' /\ Went(c, "activating", "activate")
      BY <1>1, <1>2, <1>4, <2>1, Walking DEF Fixed, LateAt, AddAt, PhaseOf
    <2>3. Seen BY <1>4 DEF LooksForLoaded, Looked, Seen
    <2> QED BY <1>4, <2>2, <2>3 DEF Faithful, MovedOn, Path
  <1>5. CASE /\ LooksForEncrypting(c) /\ Goes(c, "reload") /\ UNCHANGED <<state, stFresh, lock>>
             /\ job[c].my.active = job[c].my.kid /\ EveryoneEncrypts(job[c].my.kid)
    <2>1. job[c].at = "reencrypting" BY <1>5 DEF LooksForEncrypting, At
    <2>2. TypedJobs' /\ Versions' /\ Went(c, "reencrypting", "reload")
      BY <1>1, <1>2, <1>5, <2>1, Walking DEF Fixed, LateAt, SureAt, AddAt, PhaseOf
    <2>3. Seen BY <1>5 DEF LooksForEncrypting, Looked, Seen
    <2> QED BY <1>5, <2>2, <2>3 DEF Faithful, MovedOn, Path
  <1>6. CASE SaveState(c, [job[c].my EXCEPT !.phase = "failed"], "end") BY <1>1, <1>2, <1>6, PhaseRow, Phasing
  <1>7. CASE Reloads(c) /\ Goes(c, "pass") /\ UNCHANGED <<state, stFresh, lock>> /\ job[c].my.kid \in ring
    <2>1. job[c].at = "reload" BY <1>7 DEF Reloads, At
    <2>2. TypedJobs' /\ Versions' /\ Went(c, "reload", "pass")
      BY <1>1, <1>2, <1>7, <2>1, Walking DEF Fixed, LateAt, SureAt, AddAt, PhaseOf, Typed, TypedStore
    <2> QED BY <2>2 DEF Faithful, MovedOn, Path, SureAt
  <1>8. LooksForLoaded(c) => \/ GivesUp(c)
                             \/ Goes(c, "activate") /\ UNCHANGED <<state, stFresh, lock>> /\ EveryoneLoaded(job[c].my.kid)
    BY DEF LooksForLoaded
  <1>9. LooksForEncrypting(c) => \/ GivesUp(c) \/ SaveState(c, [job[c].my EXCEPT !.phase = "failed"], "end")
                                 \/ /\ Goes(c, "reload") /\ UNCHANGED <<state, stFresh, lock>>
                                    /\ job[c].my.active = job[c].my.kid /\ EveryoneEncrypts(job[c].my.kid)
    BY DEF LooksForEncrypting
  <1>10. Reloads(c) => GivesUp(c) \/ (Goes(c, "pass") /\ UNCHANGED <<state, stFresh, lock>> /\ job[c].my.kid \in ring)
    BY DEF Reloads
  <1> QED BY <1>3, <1>4, <1>5, <1>6, <1>7, <1>8, <1>9, <1>10

\* one that reads, writes or counts a row goes on with the next,
LEMMA PassFaithful ==
    ASSUME Typed, Versions, NEW c \in Copies, ReadsRow(c) \/ WritesRow(c) \/ CountsRow(c) PROVE Faithful
  <1>1. Active(c) /\ job[c] \in JobState /\ job[c].pos \in Secrets /\ c \in up
        /\ (job[c].at \in {"pass", "row"} => job[c].my.kid \in Kids)
    BY DEF ReadsRow, WritesRow, CountsRow, At, Active, Typed, TypedJobs, Placed
  <1>2. UNCHANGED <<ring, ringFresh, made, rotations, up, state, stFresh>>
    BY DEF ReadsRow, WritesRow, CountsRow, ciphers, store
  <1>3. job[c].pos + 1 \in Nat \ {0} /\ (\A r \in Secrets : env[r] \in Kids)
    <2>1. job[c].pos \in Nat BY <1>1 DEF JobState
    <2> QED BY <2>1 DEF Typed, TypedSecrets
  <1>4. ASSUME NEW to \in {"pass", "recount"}, NEW j \in JobState, Turned(c, j), j.at = to, j.my = job[c].my,
               j.snap = job[c].snap, to = "recount" => job[c].at = "recount", to = "pass" => job[c].at \in {"pass", "row"}
        PROVE  Faithful
    <2>1. Placed(j) BY <1>1, <1>4 DEF Placed, PhaseOf, AddAt, Typed, TypedJobs
    <2>2. TypedJobs' /\ Versions' /\ Others(c) /\ job'[c] = j BY <1>1, <1>2, <1>4, <2>1, Going DEF Fixed
    <2>3. \E from \in SureAt, t \in SureAt : Went(c, from, t) BY <1>2, <1>4, <2>2 DEF Went, Fixed, SureAt
    <2> QED BY <2>2, <2>3 DEF Faithful, MovedOn, Path
  <1>5. CASE ReadsRow(c) /\ Goes(c, "row")
    <2>1. job[c].at = "pass" BY <1>5 DEF ReadsRow, At
    <2>2. TypedJobs' /\ Versions' /\ Went(c, "pass", "row")
      BY <1>1, <1>2, <1>5, <2>1, Walking DEF Fixed, LateAt, SureAt, AddAt, PhaseOf
    <2> QED BY <2>2 DEF Faithful, MovedOn, Path, SureAt
  <1>6. CASE (ReadsRow(c) \/ CountsRow(c)) /\ job' = Counts(c, env[job[c].pos])
    <2> DEFINE j == [job[c] EXCEPT !.used = @ \cup {env[job[c].pos]}, !.pos = @ + 1]
    <2>1. env[job[c].pos] \in Kids BY <1>1, <1>3
    <2>2. j \in JobState /\ j.at = job[c].at /\ j.my = job[c].my /\ j.snap = job[c].snap
      BY <1>1, <1>3, <2>1 DEF JobState
    <2>3. Turned(c, j) BY <1>6 DEF Counts, Turned, Typed, TypedJobs
    <2> HIDE DEF j
    <2>4. job[c].at \in {"pass", "recount"} BY <1>6 DEF ReadsRow, CountsRow, At
    <2> QED BY <1>4, <2>2, <2>3, <2>4
  <1>7. CASE WritesRow(c)
    <2>1. job[c].at = "row" BY <1>7 DEF WritesRow, At
    <2>2. CASE job' = [job EXCEPT ![c].used = @ \cup {job[c].my.kid}, ![c].pos = @ + 1, ![c].at = "pass"]
      <3> DEFINE j == [job[c] EXCEPT !.used = @ \cup {job[c].my.kid}, !.pos = @ + 1, !.at = "pass"]
      <3>1. j \in JobState /\ j.at = "pass" /\ j.my = job[c].my /\ j.snap = job[c].snap
        BY <1>1, <1>3, <2>1, <2>2 DEF JobState, LateAt, SureAt
      <3>2. Turned(c, j) BY <2>2 DEF Turned, Typed, TypedJobs
      <3> HIDE DEF j
      <3> QED BY <1>4, <2>1, <3>1, <3>2
    <2>3. CASE job' = [job EXCEPT ![c].used = @ \cup {env[job[c].pos]}, ![c].pos = @ + 1, ![c].at = "pass",
              ![c].whole = FALSE]
      <3> DEFINE j == [job[c] EXCEPT !.used = @ \cup {env[job[c].pos]}, !.pos = @ + 1, !.at = "pass", !.whole = FALSE]
      <3>1. env[job[c].pos] \in Kids BY <1>1, <1>3
      <3>2. j \in JobState /\ j.at = "pass" /\ j.my = job[c].my /\ j.snap = job[c].snap
        BY <1>1, <1>3, <3>1 DEF JobState, LateAt, SureAt
      <3>3. Turned(c, j) BY <2>3 DEF Turned, Typed, TypedJobs
      <3> HIDE DEF j
      <3> QED BY <1>4, <2>1, <3>2, <3>3
    <2> QED BY <1>7, <2>2, <2>3 DEF WritesRow
  <1> QED BY <1>5, <1>6, <1>7 DEF ReadsRow, CountsRow

\* one that ends a pass, retires keys or finishes does it on what it read,
LEMMA RetiresFaithful ==
    ASSUME Typed, Versions, NEW c \in Copies, RecordsPass(c) \/ ChoosesKeys(c) \/ RemovesKeys(c) \/ Finishes(c)
    PROVE  Faithful
  <1>1. Active(c) /\ job[c] \in JobState /\ job[c].my \in StateRow /\ job[c].used \in SUBSET Kids
    BY DEF RecordsPass, ChoosesKeys, RemovesKeys, Finishes, At, Active, Typed, TypedJobs, JobState
  <1>2. UNCHANGED <<made, rotations, up>> BY DEF RecordsPass, ChoosesKeys, RemovesKeys, Finishes, ciphers
  <1>3. ASSUME GivesUp(c), UNCHANGED <<ring, ringFresh>> PROVE Faithful
    BY <1>1, <1>2, <1>3, Giving, Stopping DEF Typed, Faithful, MovedOn
  <1>4. CASE RecordsPass(c)
    <2>1. job[c].at = "pass" /\ UNCHANGED <<ring, ringFresh>> BY <1>4 DEF RecordsPass, At
    <2>2. CASE job[c].whole
      <3>1. SaveState(c, [job[c].my EXCEPT !.usage = job[c].used, !.phase = "retiring"], "load")
        BY <1>4, <2>2 DEF RecordsPass
      <3> QED BY <1>1, <1>2, <2>1, <3>1, PassRow, Phasing DEF SureAt
    <2>3. CASE ~job[c].whole
      <3>1. SaveState(c, [job[c].my EXCEPT !.usage = job[c].used, !.phase = "reencrypting"], "end")
        BY <1>4, <2>3 DEF RecordsPass
      <3> QED BY <1>1, <1>2, <2>1, <3>1, PassRow, Phasing DEF SureAt
    <2> QED BY <2>2, <2>3
  <1>5. CASE ChoosesKeys(c)
    <2>1. job[c].at = "choose" /\ UNCHANGED <<ring, ringFresh>> BY <1>5 DEF ChoosesKeys, At
    <2>2. CASE job[c].my.active \in job[c].snap
      <3> DEFINE to == IF Removable(c) = {} THEN "retired" ELSE "recount"
      <3>1. Goes(c, to) /\ UNCHANGED <<state, stFresh>> BY <1>5, <2>2 DEF ChoosesKeys
      <3>2. to \in {"retired", "recount"} OBVIOUS
      <3> HIDE DEF to
      <3>3. to \in AddAt \cup LateAt BY <3>2 DEF LateAt, SureAt
      <3>4. PhaseOf(to) = PhaseOf(job[c].at) BY <2>1, <3>2 DEF PhaseOf, AddAt
      <3>5. TypedJobs' /\ Versions' /\ Went(c, "choose", to)
        BY <1>1, <1>2, <2>1, <2>2, <3>1, <3>2, <3>3, <3>4, Walking DEF Fixed
      <3> QED BY <3>2, <3>5 DEF Faithful, MovedOn, Path, SureAt
    <2>3. CASE job[c].my.active \notin job[c].snap
      <3>1. GivesUp(c) BY <1>5, <2>3 DEF ChoosesKeys
      <3> QED BY <1>3, <2>1, <3>1
    <2> QED BY <2>2, <2>3
  <1>6. CASE RemovesKeys(c)
    <2>1. job[c].at = "recount" /\ job[c].pos \notin Secrets BY <1>6 DEF RemovesKeys, At
    <2>2. CASE Recounted(c) # {}
      <3>1. /\ SaveState(c, [job[c].my EXCEPT !.usage = job[c].used, !.phase = "reencrypting"], "load")
            /\ UNCHANGED <<ring, ringFresh>>
        BY <1>6, <2>2 DEF RemovesKeys
      <3> QED BY <1>1, <1>2, <2>1, <3>1, PassRow, Phasing DEF SureAt
    <2>3. CASE Recounted(c) = {} /\ c \in ringFresh
      <3> DEFINE j == [job[c] EXCEPT !.at = "retired"]
      <3>1. /\ ring' = job[c].snap \ Removable(c) /\ ringFresh' = {} /\ UNCHANGED <<state, stFresh>>
            /\ Goes(c, "retired")
        BY <1>6, <2>3 DEF RemovesKeys
      <3>2. j \in JobState /\ j.at = "retired" /\ j.my = job[c].my BY <1>1 DEF JobState, LateAt, SureAt
      <3>3. Turned(c, j) BY <3>1 DEF Goes, Turned, Typed, TypedJobs
      <3> HIDE DEF j
      <3>4. Placed(j) /\ c \in up BY <2>1, <3>2 DEF Placed, PhaseOf, AddAt, Typed, TypedJobs
      <3>5. TypedJobs' /\ Others(c) /\ job'[c] = j BY <1>2, <3>2, <3>3, <3>4, Turning DEF Typed
      <3>6. job[c].snap = ring /\ (c \in stFresh => job[c].my = state) BY <1>1, <2>1, <2>3 DEF Versions
      <3>7. Versions' BY <3>1, <3>2, <3>5, <3>6, Standing DEF Typed, TypedStore
      <3>8. Removed(c) BY <1>2, <2>1, <2>3, <3>1, <3>2, <3>5, <3>6 DEF Removed
      <3> QED BY <3>5, <3>7, <3>8 DEF Faithful, MovedOn
    <2>4. CASE Recounted(c) = {} /\ c \notin ringFresh
      <3>1. GivesUp(c) /\ UNCHANGED <<ring, ringFresh>> BY <1>6, <2>4 DEF RemovesKeys
      <3> QED BY <1>3, <3>1
    <2> QED BY <2>2, <2>3, <2>4
  <1>7. CASE Finishes(c)
    <2>1. /\ job[c].at = "retired" /\ UNCHANGED <<ring, ringFresh>>
          /\ SaveState(c, [job[c].my EXCEPT !.phase = "done"], "end")
      BY <1>7 DEF Finishes, At
    <2> QED BY <1>1, <1>2, <2>1, PhaseRow, Phasing DEF SureAt
  <1> QED BY <1>4, <1>5, <1>6, <1>7

\* and no one else touches a job but the copy that dies with it.
LEMMA OutsidersFaithful ==
    ASSUME Typed, Versions,
           \/ \E c \in Copies : \/ LoadKeys(c) \/ LoadActiveKid(c) \/ Beat(c) \/ BeatExpires(c) \/ CopyStarts(c)
                                \/ CopyDies(c) \/ Saves(c) \/ \E r \in Secrets : Seals(c, r)
           \/ RotateRequest \/ ActivateAnyway \/ LockLapses \/ UNCHANGED keyVars
    PROVE  Faithful
  <1>1. ASSUME UNCHANGED <<store, job, made, rotations>>, up \subseteq up' PROVE Faithful
    BY <1>1 DEF Faithful, MovedOn, Fixed, store, Typed, TypedJobs, Versions, Active
  <1>2. ASSUME NEW c \in Copies, LoadKeys(c) \/ LoadActiveKid(c) \/ Beat(c) \/ BeatExpires(c) \/ CopyStarts(c) \/ Saves(c)
                                 \/ \E r \in Secrets : Seals(c, r)
        PROVE  Faithful
    BY <1>1, <1>2 DEF LoadKeys, LoadActiveKid, Beat, BeatExpires, CopyStarts, Saves, Seals, ciphers
  <1>3. ASSUME NEW c \in Copies, CopyDies(c) PROVE Faithful
    <2>1. /\ Turned(c, Idle) /\ up' = up \ {c} /\ stFresh' \subseteq stFresh /\ ringFresh' \subseteq ringFresh /\ Fixed
      BY <1>3 DEF CopyDies, Turned, Fixed
    <2>2. TypedJobs' /\ Others(c) /\ job'[c] = Idle
      BY <2>1, IdleTyped DEF Typed, TypedJobs, Turned, Others
    <2>3. Versions' BY <2>1, <2>2, IdleTyped, Standing DEF Typed, TypedStore, Fixed
    <2> QED BY <2>1, <2>2, <2>3, IdleTyped DEF Faithful, MovedOn, Dropped
  <1>4. CASE RotateRequest
    <2> DEFINE new == [state EXCEPT !.phase = "adding", !.kid = 0, !.kids = {}]
    <2>1. Like(new, "adding", state.active, 0, {}) BY AskedRow DEF Typed, TypedStore
    <2>2. /\ state' = new /\ UNCHANGED <<ring, ringFresh, made, job, up>> /\ stFresh' = {}
          /\ rotations < MaxRotations /\ rotations' = rotations + 1
      BY <1>4 DEF RotateRequest, ciphers
    <2> HIDE DEF new
    <2>3. outlived' \/ \A c \in Copies : ~Active(c) BY <1>4 DEF RotateRequest, Active
    <2>4. Asked BY <2>1, <2>2, <2>3 DEF Asked, Row, Like
    <2>5. TypedJobs' /\ Versions' BY <2>2 DEF Typed, TypedJobs, Versions, Active
    <2> QED BY <2>4, <2>5 DEF Faithful, MovedOn
  <1>5. CASE ActivateAnyway
    <2> DEFINE new == [state EXCEPT !.active = state.kid, !.phase = "reencrypting"]
    <2>1. Like(new, "reencrypting", state.kid, state.kid, state.kids) BY ActiveRow DEF Typed, TypedStore
    <2>2. /\ state' = new /\ UNCHANGED <<ring, ringFresh, made, job, up, rotations>> /\ stFresh' = {} /\ forced'
          /\ state.phase = "activating" /\ state.kid # 0
      BY <1>5 DEF ActivateAnyway, ciphers
    <2> HIDE DEF new
    <2>3. Forced BY <2>1, <2>2 DEF Forced, Row, Like
    <2>4. TypedJobs' /\ Versions' BY <2>2 DEF Typed, TypedJobs, Versions, Active
    <2> QED BY <2>3, <2>4 DEF Faithful, MovedOn
  <1>6. CASE LockLapses BY <1>1, <1>6 DEF LockLapses, ciphers
  <1>7. CASE UNCHANGED keyVars BY <1>1, <1>7 DEF keyVars, ciphers
  <1> QED BY <1>2, <1>3, <1>4, <1>5, <1>6, <1>7

\* So no step moves row, ring and jobs but as MovedOn says.
LEMMA StepFaithful ==
    ASSUME Typed, Versions, [KeyNext]_keyVars PROVE TypedJobs' /\ Versions' /\ MovedOn
  <1>1. ASSUME NEW c \in Copies, JobSteps(c) PROVE Faithful
    BY <1>1, StartsFaithful, ReadsFaithful, RecordsFaithful, AddsFaithful, KeepsFaithful, LooksFaithful, PassFaithful,
       RetiresFaithful DEF JobSteps
  <1> QED BY <1>1, OutsidersFaithful DEF KeyNext, Faithful

--------------------------------------------------------------------------------
\* The types of the rest.

\* The key a copy encrypts with that has the keys L loaded and last read k as the active one,
CurrentOf(k, L) == IF k = Unread THEN Unread ELSE IF k = 0 THEN Min(L) ELSE IF k \in L THEN k ELSE Max(L)
\* case by case,
LEMMA CurrentFacts ==
    ASSUME NEW L \in SUBSET Kids, L # {}, NEW k \in Kids \cup {0, Unread}
    PROVE  /\ Max(L) \in L /\ \A x \in L : x <= Max(L)
           /\ Min(L) \in L /\ \A x \in L : Min(L) <= x
           /\ CurrentOf(k, L) \in Kids \cup {Unread}
           /\ CurrentOf(Unread, L) = Unread
           /\ k # Unread => CurrentOf(k, L) \in L
           /\ CurrentOf(0, L) = Min(L)
           /\ k \in L => CurrentOf(k, L) = k
           /\ k \in Kids \ L => CurrentOf(k, L) = Max(L)
           /\ Unread \notin Kids \cup {0} /\ Kids \subseteq Nat \ {0}
  <1>1. MaxRotations + 2 \in Nat /\ Kids = 1..(MaxRotations + 2) /\ Unread = MaxRotations + 3 /\ MaxRotations \in Nat
    BY ConfigKeysAssumption DEF Kids, Unread
  <1>2. L \in SUBSET (1..(MaxRotations + 2)) BY <1>1
  <1>3. Max(L) \in L /\ (\A x \in L : Max(L) >= x) BY <1>1, <1>2, MaxIs
  <1>4. L \in SUBSET Nat BY <1>1, <1>2
  <1>5. Min(L) \in L /\ (\A x \in L : Min(L) <= x) BY <1>4, MinIs
  <1>6. Unread \notin Kids \cup {0} /\ Kids \subseteq Nat \ {0} BY <1>1
  <1>7. Max(L) \in Nat /\ \A x \in L : x <= Max(L) BY <1>3, <1>4
  <1> QED BY <1>1, <1>2, <1>3, <1>5, <1>6, <1>7 DEF CurrentOf

\* and of the copies as they are.
LEMMA CurrentTyped ==
    ASSUME TypedCopies, NEW c \in Copies
    PROVE  /\ CurrentKid(c) = CurrentOf(known[c], loaded[c]) /\ CurrentKid(c) \in loaded[c] \cup {Unread}
           /\ CurrentKid(c) \in Kids \cup {Unread}
  <1>1. loaded[c] \in SUBSET Kids /\ loaded[c] # {} /\ known[c] \in Kids \cup {0, Unread} BY DEF TypedCopies
  <1>2. CurrentKid(c) = CurrentOf(known[c], loaded[c]) BY DEF CurrentKid, CurrentOf
  <1>3. CurrentOf(known[c], loaded[c]) \in loaded[c] \cup {Unread} BY <1>1, CurrentFacts
  <1> QED BY <1>1, <1>2, <1>3

\* Who has read what the store holds, and the histories, keep their types.
Sets ==
    /\ ringFresh \in SUBSET Copies /\ stFresh \in SUBSET Copies /\ rowFresh \in SUBSET Copies
    /\ lock \in Copies \cup {NoCopy} /\ unseen \in BOOLEAN /\ forced \in BOOLEAN /\ outlived \in BOOLEAN
\* Every action sets them to what they may be.
LEMMA SetsTyped ==
    ASSUME Sets, [KeyNext]_keyVars PROVE Sets'
  <1> USE DEF Sets
  <1>1. ASSUME NEW c \in Copies, LoadKeys(c) PROVE Sets'
    BY <1>1 DEF LoadKeys, store, secrets, ciphers, keyPast
  <1>2. ASSUME NEW c \in Copies, LoadActiveKid(c) PROVE Sets'
    BY <1>2 DEF LoadActiveKid, store, secrets, ciphers, keyPast
  <1>3. ASSUME NEW c \in Copies, Beat(c) PROVE Sets'
    BY <1>3 DEF Beat, Report, store, secrets, ciphers, keyPast
  <1>4. ASSUME NEW c \in Copies, BeatExpires(c) PROVE Sets'
    BY <1>4 DEF BeatExpires, KeyFault, store, secrets, ciphers, keyPast
  <1>5. ASSUME NEW c \in Copies, CopyStarts(c) PROVE Sets'
    BY <1>5 DEF CopyStarts, store, secrets, ciphers, keyPast
  <1>6. ASSUME NEW c \in Copies, CopyDies(c) PROVE Sets'
    BY <1>6 DEF CopyDies, KeyFault, store, secrets, ciphers, keyPast
  <1>7. ASSUME NEW c \in Copies, NEW r \in Secrets, Seals(c, r) PROVE Sets'
    BY <1>7 DEF Seals, CanSeal, store, secrets, ciphers, keyPast
  <1>8. ASSUME NEW c \in Copies, Saves(c) PROVE Sets'
    BY <1>8 DEF Saves, store, secrets, ciphers, keyPast
  <1>9. ASSUME NEW c \in Copies, TakesLock(c) PROVE Sets'
    BY <1>9 DEF TakesLock, Goes, At, store, secrets, ciphers, keyPast
  <1>10. ASSUME NEW c \in Copies, LoadsState(c) PROVE Sets'
    BY <1>10 DEF LoadsState, Ends, At, store, secrets, ciphers, keyPast
  <1>11. ASSUME NEW c \in Copies, ReadsRing(c) PROVE Sets'
    BY <1>11 DEF ReadsRing, SaveState, GivesUp, Ends, At, KeyFault, store, secrets, ciphers, keyPast
  <1>12. ASSUME NEW c \in Copies, RecordsKids(c) PROVE Sets'
    BY <1>12 DEF RecordsKids, SaveState, Ends, Goes, At, store, secrets, ciphers, keyPast
  <1>13. ASSUME NEW c \in Copies, AddsKey(c) PROVE Sets'
    BY <1>13 DEF AddsKey, SaveState, GivesUp, Ends, At, OwnKeys, store, secrets, ciphers, keyPast
  <1>14. ASSUME NEW c \in Copies, RecordsKey(c) PROVE Sets'
    BY <1>14 DEF RecordsKey, SaveState, Ends, At, store, secrets, ciphers, keyPast
  <1>15. ASSUME NEW c \in Copies, LooksForLoaded(c) PROVE Sets'
    BY <1>15 DEF LooksForLoaded, SaveState, GivesUp, Ends, Goes, At, Looked, store, secrets, ciphers, keyPast
  <1>16. ASSUME NEW c \in Copies, Activates(c) PROVE Sets'
    BY <1>16 DEF Activates, SaveState, Ends, At, store, secrets, ciphers, keyPast
  <1>17. ASSUME NEW c \in Copies, LooksForEncrypting(c) PROVE Sets'
    BY <1>17 DEF LooksForEncrypting, SaveState, GivesUp, Ends, Goes, At, Looked, store, secrets, ciphers, keyPast
  <1>18. ASSUME NEW c \in Copies, Reloads(c) PROVE Sets'
    BY <1>18 DEF Reloads, SaveState, GivesUp, Ends, Goes, At, store, secrets, ciphers, keyPast
  <1>19. ASSUME NEW c \in Copies, ReadsRow(c) PROVE Sets'
    BY <1>19 DEF ReadsRow, Goes, At, Counts, store, secrets, ciphers, keyPast
  <1>20. ASSUME NEW c \in Copies, WritesRow(c) PROVE Sets'
    BY <1>20 DEF WritesRow, At, KeyFault, store, secrets, ciphers, keyPast
  <1>21. ASSUME NEW c \in Copies, RecordsPass(c) PROVE Sets'
    BY <1>21 DEF RecordsPass, SaveState, Ends, At, store, secrets, ciphers, keyPast
  <1>22. ASSUME NEW c \in Copies, ChoosesKeys(c) PROVE Sets'
    BY <1>22 DEF ChoosesKeys, SaveState, GivesUp, Ends, Goes, At, Removable, store, secrets, ciphers, keyPast
  <1>23. ASSUME NEW c \in Copies, CountsRow(c) PROVE Sets'
    BY <1>23 DEF CountsRow, At, Counts, store, secrets, ciphers, keyPast
  <1>24. ASSUME NEW c \in Copies, RemovesKeys(c) PROVE Sets'
    BY <1>24 DEF RemovesKeys, SaveState, GivesUp, Ends, Goes, At, Removable, Recounted, store, secrets, ciphers, keyPast
  <1>25. ASSUME NEW c \in Copies, Finishes(c) PROVE Sets'
    BY <1>25 DEF Finishes, SaveState, Ends, At, store, secrets, ciphers, keyPast
  <1>26. CASE RotateRequest
    BY <1>26 DEF RotateRequest, store, secrets, ciphers, keyPast
  <1>27. CASE ActivateAnyway
    BY <1>27 DEF ActivateAnyway, store, secrets, ciphers, keyPast
  <1>28. CASE LockLapses
    BY <1>28 DEF LockLapses, KeyFault, store, secrets, ciphers, keyPast
  <1>29. CASE UNCHANGED keyVars
    BY <1>29 DEF keyVars, store, secrets, ciphers, keyPast
  <1> QED
    BY <1>1, <1>2, <1>3, <1>4, <1>5, <1>6, <1>7, <1>8, <1>9, <1>10, <1>11, <1>12, <1>13, <1>14, <1>15,
       <1>16, <1>17, <1>18, <1>19, <1>20, <1>21, <1>22, <1>23, <1>24, <1>25, <1>26, <1>27, <1>28, <1>29 DEF KeyNext, JobSteps

--------------------------------------------------------------------------------
\* What a step does to the copies' ciphers and heartbeats; all but the first leave the rotation as it is.

Quiet       == UNCHANGED <<loaded, known, beat>> /\ up' \subseteq up
RingRead(c) == c \in up /\ loaded' = [loaded EXCEPT ![c] = ring] /\ UNCHANGED <<known, beat, up, job>>
Told(c)     == c \in up /\ known' = [known EXCEPT ![c] = state.active] /\ UNCHANGED <<loaded, beat, up, job>>
Reported(c) == c \in up /\ beat' = [beat EXCEPT ![c] = Report(c)] /\ UNCHANGED <<loaded, known, up, job>>
LockExpired(c)  == beat' = [beat EXCEPT ![c] = NoBeat] /\ UNCHANGED <<loaded, known, up, job>>
Started(c)  ==
    /\ beat[c] = NoBeat /\ up' = up \cup {c} /\ loaded' = [loaded EXCEPT ![c] = ring]
    /\ known' = [known EXCEPT ![c] = Unread] /\ UNCHANGED <<beat, job>>
Reloaded(c) ==
    /\ c \in up /\ job[c].at = "reload" /\ Others(c) /\ loaded' = [loaded EXCEPT ![c] = ring]
    /\ known' = [known EXCEPT ![c] = state.active] /\ UNCHANGED <<beat, up>>
CiphersMoved ==
    \/ Quiet
    \/ Fixed /\ \E c \in Copies :
           RingRead(c) \/ Told(c) \/ Reported(c) \/ LockExpired(c) \/ Started(c) \/ Reloaded(c)

\* The actions that touch a cipher or a heartbeat do one of these.
LEMMA CiphersMove ==
    ASSUME Typed, Versions, [KeyNext]_keyVars PROVE CiphersMoved
  <1>1. ASSUME NEW c \in Copies, LoadKeys(c) PROVE CiphersMoved
    BY <1>1 DEF LoadKeys, RingRead, Fixed, CiphersMoved, store
  <1>2. ASSUME NEW c \in Copies, LoadActiveKid(c) PROVE CiphersMoved
    BY <1>2 DEF LoadActiveKid, Told, Fixed, CiphersMoved, store
  <1>3. ASSUME NEW c \in Copies, Beat(c) PROVE CiphersMoved
    BY <1>3 DEF Beat, Reported, Fixed, CiphersMoved, store
  <1>4. ASSUME NEW c \in Copies, BeatExpires(c) PROVE CiphersMoved
    BY <1>4 DEF BeatExpires, LockExpired, Fixed, CiphersMoved, store
  <1>5. ASSUME NEW c \in Copies, CopyStarts(c) PROVE CiphersMoved
    BY <1>5 DEF CopyStarts, Started, Fixed, CiphersMoved, store
  <1>6. ASSUME NEW c \in Copies, CopyDies(c) \/ Saves(c) \/ \E r \in Secrets : Seals(c, r) PROVE CiphersMoved
    BY <1>6 DEF CopyDies, Saves, Seals, ciphers, CiphersMoved, Quiet
  <1>7. ASSUME NEW c \in Copies, JobSteps(c), ~Reloads(c) PROVE CiphersMoved
    BY <1>7 DEF JobSteps, TakesLock, LoadsState, ReadsRing, RecordsKids, AddsKey, RecordsKey, LooksForLoaded, Activates,
       LooksForEncrypting, ReadsRow, WritesRow, RecordsPass, ChoosesKeys, CountsRow, RemovesKeys, Finishes, ciphers,
       CiphersMoved, Quiet
  <1>8. ASSUME NEW c \in Copies, Reloads(c) PROVE CiphersMoved
    <2>1. job[c].at = "reload" /\ c \in up /\ Active(c) BY <1>8 DEF Reloads, At, Typed, TypedJobs, Active
    <2>2. Fixed /\ Others(c)
      <3>1. CASE GivesUp(c)
        <4>1. Stopped(c) BY <2>1, <3>1, Giving DEF Typed
        <4> QED BY <1>8, <4>1 DEF Reloads, Stopped, Turned, Others, Fixed
      <3>2. CASE Goes(c, "pass") /\ UNCHANGED <<state, stFresh, lock>> BY <1>8, <3>2 DEF Reloads, Goes, Others, Fixed
      <3> QED BY <1>8, <3>1, <3>2 DEF Reloads
    <2> QED BY <1>8, <2>1, <2>2 DEF Reloads, Reloaded, CiphersMoved
  <1>9. CASE RotateRequest \/ ActivateAnyway \/ LockLapses \/ UNCHANGED keyVars
    BY <1>9 DEF RotateRequest, ActivateAnyway, LockLapses, keyVars, ciphers, CiphersMoved, Quiet
  <1> QED BY <1>1, <1>2, <1>3, <1>4, <1>5, <1>6, <1>7, <1>8, <1>9 DEF KeyNext

\* Ciphers and heartbeats keep their types,
LEMMA CopiesTyped ==
    ASSUME Typed, Versions, [KeyNext]_keyVars PROVE TypedCopies'
  <1>1. TypedCopies /\ ring \in SUBSET Kids /\ ring # {} /\ state.active \in Kids \cup {0} BY DEF Typed, TypedStore, StateRow
  <1>2. NoBeat \in [kids: SUBSET Kids, enc: Kids \cup {Unread}] BY DEF NoBeat
  <1>3. \A c \in Copies : Report(c) \in [kids: SUBSET Kids, enc: Kids \cup {Unread}]
    BY <1>1, CurrentTyped DEF Report, TypedCopies
  <1>4. CASE Quiet BY <1>1, <1>4 DEF Quiet, TypedCopies
  <1>5. ASSUME NEW c \in Copies, RingRead(c) \/ Told(c) \/ Started(c) \/ Reloaded(c) PROVE TypedCopies'
    BY <1>1, <1>5 DEF RingRead, Told, Started, Reloaded, TypedCopies
  <1>6. ASSUME NEW c \in Copies, Reported(c) \/ LockExpired(c) PROVE TypedCopies'
    BY <1>1, <1>2, <1>3, <1>6 DEF Reported, LockExpired, TypedCopies
  <1> QED BY <1>4, <1>5, <1>6, CiphersMove DEF CiphersMoved

\* What a step does to the envelopes and to the requests that save them.
Unsaved     == UNCHANGED <<env, late, sealed, slow>> /\ up \subseteq up'
Sealing(c)  ==
    /\ c \in up /\ CurrentKid(c) # Unread /\ UNCHANGED <<env, late, slow, job, ring, up>>
    /\ \E r \in Secrets : sealed' = [sealed EXCEPT ![c] = [row |-> r, kid |-> CurrentKid(c)]]
Rewriting(c) ==
    /\ job[c].at = "row" /\ env' = [env EXCEPT ![job[c].pos] = job[c].my.kid] /\ late' = late \ {job[c].pos}
    /\ UNCHANGED <<sealed, slow, ring, up>>
Choosing(c) ==
    /\ job[c].at = "choose" /\ slow' = {d \in up : sealed[d].row # 0} /\ UNCHANGED <<env, late, sealed, ring, up>>
\* The actions that touch an envelope or a request do one of these.
LEMMA SecretsMove ==
    ASSUME Typed, [KeyNext]_keyVars
    PROVE  \/ Unsaved
           \/ \E c \in Copies : Sealing(c) \/ Saves(c) \/ Rewriting(c) \/ Choosing(c) \/ CopyDies(c)
  <1>1. ASSUME NEW c \in Copies, NEW r \in Secrets, Seals(c, r) PROVE Sealing(c)
    BY <1>1 DEF Seals, CanSeal, Sealing, store, ciphers
  <1>2. ASSUME NEW c \in Copies, WritesRow(c) PROVE Rewriting(c) \/ Unsaved
    BY <1>2 DEF WritesRow, At, Rewriting, Unsaved, store, ciphers
  <1>3. ASSUME NEW c \in Copies, ChoosesKeys(c) PROVE Choosing(c) \/ Unsaved
    BY <1>3 DEF ChoosesKeys, At, Choosing, Unsaved, ciphers
  <1>4. ASSUME NEW c \in Copies, JobSteps(c), ~WritesRow(c), ~ChoosesKeys(c) PROVE Unsaved
    BY <1>4 DEF JobSteps, TakesLock, LoadsState, ReadsRing, RecordsKids, AddsKey, RecordsKey, LooksForLoaded, Activates,
       LooksForEncrypting, Reloads, ReadsRow, RecordsPass, CountsRow, RemovesKeys, Finishes, secrets, Unsaved, ciphers
  <1>5. ASSUME NEW c \in Copies, LoadKeys(c) \/ LoadActiveKid(c) \/ Beat(c) \/ BeatExpires(c) \/ CopyStarts(c) PROVE Unsaved
    BY <1>5 DEF LoadKeys, LoadActiveKid, Beat, BeatExpires, CopyStarts, secrets, Unsaved, ciphers
  <1>6. CASE RotateRequest \/ ActivateAnyway \/ LockLapses \/ UNCHANGED keyVars
    BY <1>6 DEF RotateRequest, ActivateAnyway, LockLapses, keyVars, secrets, Unsaved, ciphers
  <1> QED BY <1>1, <1>2, <1>3, <1>4, <1>5, <1>6 DEF KeyNext

\* Envelopes and requests keep their types,
LEMMA SecretsTyped ==
    ASSUME Typed, Versions, [KeyNext]_keyVars PROVE TypedSecrets'
  <1>1. CASE Unsaved BY <1>1 DEF Unsaved, Typed, TypedSecrets
  <1>2. ASSUME NEW c \in Copies, Sealing(c) PROVE TypedSecrets'
    <2>1. CurrentKid(c) \in Kids BY <1>2, CurrentTyped DEF Sealing, Typed
    <2> QED BY <1>2, <2>1 DEF Sealing, Typed, TypedSecrets
  <1>3. ASSUME NEW c \in Copies, Saves(c) PROVE TypedSecrets'
    BY <1>3 DEF Saves, ciphers, Typed, TypedSecrets
  <1>4. ASSUME NEW c \in Copies, Rewriting(c) PROVE TypedSecrets'
    <2>1. job[c].pos \in Secrets /\ job[c].my.kid \in Kids BY <1>4 DEF Rewriting, Typed, TypedJobs, Placed
    <2> QED BY <1>4, <2>1 DEF Rewriting, Typed, TypedSecrets
  <1>5. ASSUME NEW c \in Copies, Choosing(c) PROVE TypedSecrets'
    BY <1>5 DEF Choosing, Typed, TypedSecrets, TypedCopies
  <1>6. ASSUME NEW c \in Copies, CopyDies(c) PROVE TypedSecrets'
    BY <1>6 DEF CopyDies, Typed, TypedSecrets
  <1> QED BY <1>1, <1>2, <1>3, <1>4, <1>5, <1>6, SecretsMove

\* row, ring and lock keep theirs,
LEMMA StoreTyped ==
    ASSUME Typed, Versions, [KeyNext]_keyVars PROVE TypedStore'
  <1>1. Sets' BY SetsTyped DEF Sets, Typed, TypedStore
  <1>2. MovedOn BY StepFaithful
  <1>3. ring \in SUBSET Kids /\ ring # {} /\ state \in StateRow /\ made \in Kids BY DEF Typed, TypedStore
  <1> DEFINE T == ring' \in SUBSET Kids /\ ring' # {} /\ state' \in StateRow /\ made' \in Kids
  <1>4. ASSUME Fixed PROVE T BY <1>3, <1>4 DEF Fixed
  <1>5. ASSUME NEW c \in Copies, Added(c) PROVE T BY <1>3, <1>5 DEF Added
  <1>6. ASSUME NEW c \in Copies, Removed(c) PROVE T
    <2>1. job[c].my.active \in ring' BY <1>6 DEF Removed, Removable, Typed, TypedJobs, Placed
    <2> QED BY <1>3, <1>6, <2>1 DEF Removed
  <1>7. ASSUME NEW c \in Copies, ListedKeys(c) \/ KeyKept(c) \/ Activated(c) \/ Phased(c) PROVE T
    BY <1>3, <1>7 DEF ListedKeys, KeyKept, Activated, Phased, Rewrote, Row
  <1>8. ASSUME Asked \/ Forced PROVE T BY <1>3, <1>8 DEF Asked, Forced, Row
  <1>9. T BY <1>2, <1>4, <1>5, <1>6, <1>7, <1>8 DEF MovedOn, Dropped, PickedUp, Snapped, Path, Went, Adopted
  <1>10. rotations' \in 0..MaxRotations
    <2>1. rotations \in 0..MaxRotations /\ MaxRotations \in Nat BY ConfigKeysAssumption DEF Typed, TypedStore
    <2>2. rotations' = rotations \/ Asked
      BY <1>2 DEF MovedOn, Fixed, Dropped, PickedUp, Snapped, Path, Went, Adopted, Added, Removed, ListedKeys, KeyKept,
          Activated,
         Phased, Rewrote, Forced
    <2> QED BY <2>1, <2>2 DEF Asked
  <1> QED BY <1>1, <1>9, <1>10 DEF Sets, TypedStore

\* and so a step of the specification keeps all of them.
LEMMA StepTyped ==
    ASSUME Typed, Versions, [KeyNext]_keyVars PROVE Typed' /\ Versions' /\ MovedOn
  BY StepFaithful, StoreTyped, CopiesTyped, SecretsTyped DEF Typed

\* They hold at the start.
LEMMA InitTyped ==
    ASSUME KeyInit PROVE Typed /\ Versions
  <1>1. 1 \in Kids /\ 0 \notin Secrets /\ MaxRotations \in Nat BY ConfigKeysAssumption DEF Kids, Secrets
  <1>2. state \in StateRow BY IdleTyped DEF KeyInit, JobState
  <1>3. /\ ring = {1} /\ ringFresh = {} /\ stFresh = {} /\ rowFresh = {} /\ made = 1 /\ rotations = 0 /\ lock = NoCopy
        /\ unseen = FALSE /\ forced = FALSE /\ outlived = FALSE
    BY DEF KeyInit
  <1>4. ring \in SUBSET Kids /\ ring # {} /\ made \in Kids /\ rotations \in 0..MaxRotations BY <1>1, <1>3
  <1>5. TypedStore BY <1>2, <1>3, <1>4 DEF TypedStore
  <1>6. TypedCopies BY <1>1 DEF KeyInit, TypedCopies
  <1>7. TypedSecrets BY <1>1 DEF KeyInit, TypedSecrets
  <1>8. TypedJobs BY IdleTyped DEF KeyInit, TypedJobs
  <1>9. Versions BY DEF KeyInit, Versions
  <1> QED BY <1>5, <1>6, <1>7, <1>8, <1>9 DEF Typed

--------------------------------------------------------------------------------
\* The rotation: one key each, recorded before it is used.

\* The newest key is in the ring; the row names it from its record on.
Numbered ==
    /\ ring \subseteq 1..made /\ made \in ring /\ made <= 1 + rotations
    /\ state.phase = "adding" => state.kid = 0
    /\ state.phase \in {"activating", "reencrypting", "retiring"} => state.kid # 0
    /\ state.kid # 0 => state.kid = made /\ made >= 2
    /\ state.active # 0 => state.active \in ring
    /\ state.phase = "retiring" => state.active = state.kid

\* Of the keys of the ring, only the newest can be one that was not recorded before it was written.
Recent(K) ==
    /\ K \subseteq 1..made /\ ring \ K \subseteq {made}
    /\ made \in K => made <= rotations /\ state.kid = 0
    /\ made \notin K => made >= 2
Adding ==
    /\ state.phase = "adding" /\ state.kids = {} =>
          /\ made <= rotations
          /\ \A c \in Copies : job[c].at \in AddAt => /\ job[c].at \in {"adding", "kids"} /\ job[c].my.kids = {}
                                                      /\ job[c].at = "kids" => job[c].snap = ring
    /\ state.phase = "adding" /\ state.kids # {} =>
          Recent(state.kids) /\ \A c \in Copies : job[c].at \in AddAt => job[c].my.kids \in {{}, state.kids}
    /\ \A c \in Copies : job[c].at \in AddAt =>
          /\ job[c].my.kids # {} => Recent(job[c].my.kids)
          /\ job[c].my.kids = {} => job[c].at \in {"adding", "kids"}
          /\ job[c].at \in {"kids", "write"} /\ job[c].my.kids # {} => job[c].snap \ job[c].my.kids \subseteq ring
          /\ job[c].at = "record" => job[c].add = made /\ made \notin job[c].my.kids
    /\ \A c, d \in Copies : job[c].at \in AddAt /\ job[d].at \in AddAt =>
          job[c].my.kids = {} \/ job[d].my.kids = {} \/ job[c].my.kids = job[d].my.kids

\* A job past the record works on the key the row names.
Later ==
    \A c \in Copies : job[c].at \in LateAt =>
        /\ state.kid # 0 /\ job[c].my.kid = state.kid
        /\ job[c].my.active = job[c].my.kid => state.active = state.kid
        /\ job[c].at \in SureAt => job[c].my.active = job[c].my.kid
OfRotation == Numbered /\ Adding /\ Later

\* The newest key is the only one a job can find unrecorded, or add.
LEMMA OwnIsNewest ==
    ASSUME Typed, Numbered, Adding, NEW c \in Copies, job[c].at = "write", OwnKeys(c) # {}
    PROVE  Max(OwnKeys(c)) = made /\ made \notin job[c].my.kids
  <1>1. OwnKeys(c) = {made}
    BY DEF Adding, Recent, OwnKeys, AddAt
  <1>2. made \in Nat BY ConfigKeysAssumption DEF Typed, TypedStore, Kids
  <1>3. Max({made}) = made BY <1>2 DEF Max
  <1> QED BY <1>1, <1>3 DEF OwnKeys

\* A step keeps the newest key in the ring, the row on it, and one key for each rotation.
LEMMA RotationNumbers ==
    ASSUME Typed, OfRotation, MovedOn PROVE Numbered'
  <1>1. /\ Numbered /\ Later /\ Adding /\ made \in Nat \ {0} /\ rotations \in Nat
        /\ state.kid \in Kids \cup {0} /\ Kids \subseteq Nat \ {0} /\ 0 \notin Kids
    BY ConfigKeysAssumption DEF OfRotation, Typed, TypedStore, StateRow, Kids
  <1>2. ASSUME Fixed PROVE Numbered' BY <1>1, <1>2 DEF Fixed, Numbered
  <1>3. ASSUME NEW c \in Copies, Added(c) PROVE Numbered'
    <2>1. job[c].my.kids # {} /\ Recent(job[c].my.kids) /\ made \in job[c].my.kids
      BY <1>1, <1>3 DEF Added, Adding, Numbered, OwnKeys, AddAt
    <2>2. made <= rotations /\ state.kid = 0 BY <2>1 DEF Recent
    <2> QED BY <1>1, <1>3, <2>2 DEF Added, Numbered
  <1>4. ASSUME NEW c \in Copies, Removed(c) PROVE Numbered'
    <2>1. state.kid = made /\ job[c].my.active = made /\ state.active = made
      BY <1>1, <1>4 DEF Removed, Later, Numbered, LateAt, SureAt
    <2> QED BY <1>1, <1>4, <2>1 DEF Removed, Removable, Numbered
  <1>5. ASSUME NEW c \in Copies, ListedKeys(c) PROVE Numbered'
    <2>1. state.phase = "adding" BY <1>5 DEF ListedKeys, Rewrote, Typed, TypedJobs, Placed, PhaseOf, AddAt
    <2> QED BY <1>1, <1>5, <2>1 DEF ListedKeys, Rewrote, Row, Numbered
  <1>6. ASSUME NEW c \in Copies, KeyKept(c) PROVE Numbered'
    <2>1. job[c].add = made /\ made >= 2
      BY <1>1, <1>6 DEF KeyKept, Adding, Recent, AddAt
    <2> QED BY <1>1, <1>6, <2>1 DEF KeyKept, Rewrote, Row, Numbered
  <1>7. ASSUME NEW c \in Copies, Activated(c) PROVE Numbered'
    <2>1. state.kid # 0 BY <1>1, <1>7 DEF Activated, Later, LateAt
    <2> QED BY <1>1, <1>7, <2>1 DEF Activated, Rewrote, Row, Numbered
  <1>8. ASSUME NEW c \in Copies, Phased(c) PROVE Numbered'
    <2>1. job[c].at \in SureAt => state.kid # 0 /\ state.active = state.kid
      BY <1>1 DEF Later, LateAt
    <2> QED BY <1>1, <1>8, <2>1 DEF Phased, Rewrote, Row, Numbered
  <1>9. ASSUME Asked PROVE Numbered' BY <1>1, <1>9 DEF Asked, Row, Numbered
  <1>10. ASSUME Forced PROVE Numbered' BY <1>1, <1>10 DEF Forced, Row, Numbered
  <1> QED BY <1>2, <1>3, <1>4, <1>5, <1>6, <1>7, <1>8, <1>9, <1>10 DEF MovedOn, Dropped, PickedUp, Snapped, Path, Went,
          Adopted

\* What is at work while keys are added, and what is not.
LEMMA AddingApart ==
    ASSUME Typed, Numbered, Later, NEW c \in Copies
    PROVE  /\ job[c].at \in LateAt => state.kid = made /\ state.phase # "adding" /\ made >= 2 /\ Active(c)
           /\ job[c].at \in AddAt => Active(c) /\ job[c].my.phase = "adding" /\ job[c].at \notin LateAt
           /\ Active(c) <=> job[c].at \in AddAt \cup LateAt
           /\ Active(c) => job[c].my.phase = PhaseOf(job[c].at)
  <1>1. job[c].at \in AddAt \cup LateAt \cup {"idle", "load"} BY DEF Typed, TypedJobs, JobState
  <1> QED BY <1>1 DEF Typed, TypedJobs, Placed, PhaseOf, AddAt, LateAt, SureAt, Active, Later, Numbered

\* A step keeps the jobs past the record on the key of the row, unless one outlives its rotation.
LEMMA RotationLater ==
    ASSUME Typed, OfRotation, MovedOn, ~outlived' PROVE Later'
  <1>1. Numbered /\ Later /\ Adding BY DEF OfRotation
  <1>3. ASSUME NEW c \in Copies, Fixed, Others(c), job'[c].at \in LateAt =>
                   /\ job'[c].my = job[c].my /\ job[c].at \in LateAt
                   /\ job'[c].at \in SureAt => job[c].my.active = job[c].my.kid
        PROVE  Later'
    BY <1>1, <1>3 DEF Later, Fixed, Others
  <1>4. CASE Fixed /\ UNCHANGED job BY <1>1, <1>4 DEF Fixed, Later
  <1>5. ASSUME NEW c \in Copies, Dropped(c) PROVE Later'
    BY <1>3, <1>5 DEF Dropped, LateAt, SureAt
  <1>6. ASSUME NEW c \in Copies, PickedUp(c) PROVE Later'
    <2>1. /\ state.phase \in LateAt => state.kid # 0
          /\ state.phase \in SureAt => state.active = state.kid
      BY <1>1, <1>6 DEF PickedUp, Numbered, LateAt, SureAt, Running
    <2> QED BY <1>1, <1>6, <2>1 DEF PickedUp, Later, Fixed, Others
  <1>7. ASSUME NEW c \in Copies, Snapped(c) PROVE Later'
    <2>1. job'[c].at \in LateAt => job[c].at = "retiring" BY <1>7 DEF Snapped, LateAt, SureAt
    <2> QED BY <1>1, <1>3, <1>7, <2>1 DEF Snapped, Later, LateAt, SureAt
  <1>8. ASSUME NEW c \in Copies, Path(c) PROVE Later'
    <2>1. ASSUME Went(c, "kids", "write") PROVE Later' BY <1>3, <2>1 DEF Went, LateAt, SureAt
    <2>2. ASSUME Went(c, "activating", "activate") PROVE Later' BY <1>3, <2>2 DEF Went, LateAt, SureAt
    <2>3. ASSUME Went(c, "reencrypting", "reload"), job[c].my.active = job[c].my.kid PROVE Later'
      BY <1>3, <2>3 DEF Went, LateAt
    <2>4. ASSUME NEW from \in SureAt, NEW to \in SureAt, Went(c, from, to) PROVE Later'
      BY <1>1, <1>3, <2>4 DEF Went, LateAt, Later
    <2> QED BY <1>8, <2>1, <2>2, <2>3, <2>4 DEF Path
  <1>9. ASSUME NEW c \in Copies, Adopted(c) PROVE Later' BY <1>3, <1>9 DEF Adopted, LateAt, SureAt
  <1>10. ASSUME NEW c \in Copies, Added(c) PROVE Later'
    BY <1>1, <1>10 DEF Added, Others, Later, LateAt, SureAt
  <1>11. ASSUME NEW c \in Copies, Removed(c) PROVE Later'
    BY <1>1, <1>11 DEF Removed, Others, Later, LateAt, SureAt
  <1>12. ASSUME NEW c \in Copies, ListedKeys(c) PROVE Later'
    BY <1>1, <1>12 DEF ListedKeys, Rewrote, Row, Others, Later, LateAt, SureAt
  <1>13. ASSUME NEW c \in Copies, KeyKept(c) PROVE Later'
    <2>1. state.phase = "adding" BY <1>13 DEF KeyKept, Rewrote, Typed, TypedJobs, Placed, PhaseOf, AddAt
    <2>2. \A d \in Copies : job[d].at \notin LateAt BY <1>1, <2>1, AddingApart
    <2> QED BY <1>13, <2>2 DEF KeyKept, Rewrote, Others, Later, LateAt, SureAt
  <1>14. ASSUME NEW c \in Copies, Activated(c) PROVE Later'
    BY <1>1, <1>14 DEF Activated, Rewrote, Row, Others, Later, LateAt, SureAt
  <1>15. ASSUME NEW c \in Copies, Phased(c) PROVE Later'
    BY <1>1, <1>15 DEF Phased, Rewrote, Row, Others, Later, LateAt, SureAt
  <1>16. CASE Asked
    <2>1. \A d \in Copies : job[d].at \notin LateAt BY <1>1, <1>16, AddingApart DEF Asked
    <2> QED BY <1>16, <2>1 DEF Asked, Later
  <1>17. CASE Forced BY <1>1, <1>17 DEF Forced, Row, Later
  <1> QED BY <1>4, <1>5, <1>6, <1>7, <1>8, <1>9, <1>10, <1>11, <1>12, <1>13, <1>14, <1>15, <1>16, <1>17 DEF MovedOn

\* The same, part by part, of a step that leaves the place as it is and turns one job.
LEMMA RotationStays ==
    ASSUME Typed, OfRotation, Fixed, NEW c \in Copies, Others(c),
           job'[c].at \in AddAt =>
              \/ /\ job'[c].at = "adding" /\ job'[c].my = state /\ state.phase = "adding"
              \/ /\ job[c].at \in AddAt /\ job'[c].my = job[c].my
                 /\ job'[c].at = "kids" => job[c].at = "adding" /\ job'[c].snap = ring
                 /\ job'[c].at = "write" => job[c].at = "kids" /\ job'[c].snap = job[c].snap /\ job[c].my.kids # {}
                 /\ job'[c].at = "record" => /\ job[c].at = "write" /\ job'[c].add = made
                                             /\ made \notin job[c].my.kids
                 /\ job'[c].at # "adding"
    PROVE  Adding'
  <1>1. Numbered /\ Adding BY DEF OfRotation
  <1>2. UNCHANGED <<state, ring, made, rotations>> BY DEF Fixed
  <1>3. \A K : Recent(K)' <=> Recent(K) BY <1>2 DEF Recent
  <1>4. \A d \in Copies \ {c} : job'[d] = job[d] BY DEF Others
  <1>5. ASSUME state.phase = "adding", state.kids = {}
        PROVE  /\ made <= rotations
               /\ \A d \in Copies : job'[d].at \in AddAt => /\ job'[d].at \in {"adding", "kids"} /\ job'[d].my.kids = {}
                                                            /\ job'[d].at = "kids" => job'[d].snap = ring
    BY <1>1, <1>4, <1>5 DEF Adding, AddAt
  <1>6. ASSUME state.phase = "adding", state.kids # {}
        PROVE  Recent(state.kids) /\ \A d \in Copies : job'[d].at \in AddAt => job'[d].my.kids \in {{}, state.kids}
    BY <1>1, <1>4, <1>6 DEF Adding
  <1>7. ASSUME NEW d \in Copies, job'[d].at \in AddAt
        PROVE  /\ job'[d].my.kids # {} => Recent(job'[d].my.kids)
               /\ job'[d].my.kids = {} => job'[d].at \in {"adding", "kids"}
               /\ job'[d].at \in {"kids", "write"} /\ job'[d].my.kids # {} => job'[d].snap \ job'[d].my.kids \subseteq ring
               /\ job'[d].at = "record" => job'[d].add = made /\ made \notin job'[d].my.kids
    BY <1>1, <1>4, <1>7 DEF Adding, AddAt
  <1>8. ASSUME NEW d \in Copies, NEW e \in Copies, job'[d].at \in AddAt, job'[e].at \in AddAt
        PROVE  job'[d].my.kids = {} \/ job'[e].my.kids = {} \/ job'[d].my.kids = job'[e].my.kids
    BY <1>1, <1>4, <1>8 DEF Adding
  <1> QED BY <1>2, <1>3, <1>5, <1>6, <1>7, <1>8 DEF Adding

\* Of a step that changes the row, and lets no job go on adding but with what it writes.
LEMMA RotationAdds ==
    ASSUME Typed, OfRotation, MovedOn, ~outlived' PROVE Adding'
  <1>1. Numbered /\ Later /\ Adding BY DEF OfRotation
  <1>2. CASE Fixed /\ UNCHANGED job
    <2>1. \A K : Recent(K)' <=> Recent(K) BY <1>2 DEF Fixed, Recent
    <2> QED BY <1>1, <1>2, <2>1 DEF Fixed, Adding
  <1>3. ASSUME NEW c \in Copies, Dropped(c) PROVE Adding' BY <1>3, RotationStays DEF Dropped, AddAt
  <1>4. ASSUME NEW c \in Copies, PickedUp(c) PROVE Adding' BY <1>4, RotationStays DEF PickedUp, AddAt, Running
  <1>5. ASSUME NEW c \in Copies, Snapped(c) PROVE Adding' BY <1>5, RotationStays DEF Snapped, AddAt
  <1>6. ASSUME NEW c \in Copies, Path(c) PROVE Adding'
    <2>1. Fixed /\ Others(c) /\ (job'[c].at \in AddAt => Went(c, "kids", "write") /\ job[c].my.kids # {})
      BY <1>6 DEF Path, Went, AddAt, SureAt
    <2> QED BY <2>1, RotationStays DEF Went, AddAt
  <1>7. ASSUME NEW c \in Copies, Adopted(c) PROVE Adding'
    <2>1. Max(OwnKeys(c)) = made /\ made \notin job[c].my.kids BY <1>1, <1>7, OwnIsNewest DEF Adopted
    <2> QED BY <1>7, <2>1, RotationStays DEF Adopted, AddAt
  <1>8. ASSUME NEW c \in Copies, Added(c) PROVE Adding'
    <2>1. /\ job[c].my.kids # {} /\ Recent(job[c].my.kids) /\ made \in ring /\ ring \subseteq job[c].my.kids
          /\ made \in Nat \ {0} /\ job[c].at \in AddAt
      BY <1>1, <1>8, ConfigKeysAssumption DEF Added, Adding, Numbered, OwnKeys, AddAt, Typed, TypedStore, Kids
    <2>2. state.phase = "adding" => state.kids = job[c].my.kids
      BY <1>1, <1>8, <2>1 DEF Added, Adding
    <2>3. \A d \in Copies : job[d].at \in AddAt /\ job[d].my.kids # {} => job[d].my.kids = job[c].my.kids
      BY <1>1, <2>1 DEF Adding
    <2>4. \A K : K = job[c].my.kids => Recent(K)' /\ made + 1 \notin K
      BY <1>8, <2>1 DEF Added, Recent
    <2>5. \A d \in Copies : job[d].at # "record"
      BY <1>1, <2>1, <2>3 DEF Adding, AddAt
    <2>6. /\ job'[c].my = job[c].my /\ job'[c].at = "record" /\ job'[c].add = made' /\ made' \notin job[c].my.kids
          /\ (\A d \in Copies \ {c} : job'[d] = job[d]) /\ state' = state /\ ring \subseteq ring'
      BY <1>8, <2>4 DEF Added, Others
    <2>7. ~(state.phase = "adding" /\ state.kids = {}) BY <2>1, <2>2
    <2>8. ASSUME state.phase = "adding"
          PROVE  Recent(state.kids)' /\ \A d \in Copies : job'[d].at \in AddAt => job'[d].my.kids \in {{}, state.kids}
      BY <2>2, <2>3, <2>4, <2>6, <2>8
    <2>9. ASSUME NEW d \in Copies, job'[d].at \in AddAt
          PROVE  /\ job'[d].my.kids # {} => Recent(job[d].my.kids)'
                 /\ job'[d].my.kids = {} => job'[d].at \in {"adding", "kids"}
                 /\ job'[d].at \in {"kids", "write"} /\ job'[d].my.kids # {}
                     => job'[d].snap \ job'[d].my.kids \subseteq ring'
                 /\ job'[d].at = "record" => job'[d].add = made' /\ made' \notin job'[d].my.kids
      <3>1. CASE d = c BY <2>1, <2>4, <2>6, <3>1
      <3>2. CASE d # c BY <1>1, <2>3, <2>4, <2>5, <2>6, <2>9, <3>2 DEF Adding
      <3> QED BY <3>1, <3>2
    <2>10. ASSUME NEW d \in Copies, NEW e \in Copies, job'[d].at \in AddAt, job'[e].at \in AddAt
           PROVE  job'[d].my.kids = {} \/ job'[e].my.kids = {} \/ job'[d].my.kids = job'[e].my.kids
      BY <2>1, <2>3, <2>6, <2>10
    <2> QED BY <2>6, <2>7, <2>8, <2>9, <2>10 DEF Adding
  <1>9. ASSUME NEW c \in Copies, Removed(c) PROVE Adding'
    <2>1. /\ state.phase # "adding" /\ ring' \subseteq ring /\ state' = state /\ made' = made /\ rotations' = rotations
          /\ (\A d \in Copies \ {c} : job'[d] = job[d]) /\ job'[c].at \notin AddAt
      BY <1>1, <1>9, AddingApart DEF Removed, Others, AddAt, LateAt, SureAt
    <2>2. made \in ring'
      <3>1. state.kid = made /\ job[c].my.active = made
        BY <1>1, <1>9 DEF Removed, Later, Numbered, LateAt, SureAt
      <3> QED BY <1>1, <1>9, <3>1 DEF Removed, Removable, Numbered
    <2>3. \A K : Recent(K) => Recent(K)' BY <2>1 DEF Recent
    <2>4. \A d \in Copies : job[d].at \in AddAt /\ job[d].my.kids # {} => ring \ job[d].my.kids \subseteq {made}
      BY <1>1 DEF Adding, Recent
    <2>5. ASSUME NEW d \in Copies, job'[d].at \in AddAt
          PROVE  /\ job'[d].my.kids # {} => Recent(job[d].my.kids)'
                 /\ job'[d].my.kids = {} => job'[d].at \in {"adding", "kids"}
                 /\ job'[d].at \in {"kids", "write"} /\ job'[d].my.kids # {}
                     => job'[d].snap \ job'[d].my.kids \subseteq ring'
                 /\ job'[d].at = "record" => job'[d].add = made' /\ made' \notin job'[d].my.kids
      <3>1. d # c /\ job'[d] = job[d] BY <2>1, <2>5
      <3>2. /\ job[d].my.kids # {} => Recent(job[d].my.kids)
            /\ job[d].my.kids = {} => job[d].at \in {"adding", "kids"}
            /\ job[d].at \in {"kids", "write"} /\ job[d].my.kids # {} => job[d].snap \ job[d].my.kids \subseteq ring
            /\ job[d].at = "record" => job[d].add = made /\ made \notin job[d].my.kids
        BY <1>1, <2>5, <3>1 DEF Adding
      <3>3. ASSUME job[d].at \in {"kids", "write"}, job[d].my.kids # {}
            PROVE  job[d].snap \ job[d].my.kids \subseteq ring'
        BY <2>2, <2>4, <2>5, <3>1, <3>2, <3>3
      <3> QED BY <2>1, <2>3, <3>1, <3>2, <3>3
    <2>6. ASSUME NEW d \in Copies, NEW e \in Copies, job'[d].at \in AddAt, job'[e].at \in AddAt
          PROVE  job'[d].my.kids = {} \/ job'[e].my.kids = {} \/ job'[d].my.kids = job'[e].my.kids
      BY <1>1, <2>1, <2>6 DEF Adding
    <2> QED BY <2>1, <2>5, <2>6 DEF Adding
  <1>10. ASSUME NEW c \in Copies, ListedKeys(c) PROVE Adding'
    <2>1. /\ state.phase = "adding" /\ state.kids = {} /\ state.kid = 0 /\ ring # {}
          /\ UNCHANGED <<ring, made, rotations>> /\ (\A d \in Copies \ {c} : job'[d] = job[d])
          /\ job'[c].at = "write" /\ job'[c].my = state' /\ job'[c].snap = job[c].snap
          /\ state'.kids = job[c].snap /\ state'.kid = 0 /\ job[c].at = "kids"
      BY <1>1, <1>10 DEF ListedKeys, Rewrote, Row, Others, Numbered, Typed, TypedStore, TypedJobs, Placed, PhaseOf, AddAt
    <2>2. /\ made <= rotations /\ job[c].snap = ring
          /\ \A d \in Copies : job[d].at \in AddAt => job[d].at \in {"adding", "kids"} /\ job[d].my.kids = {}
      BY <1>1, <2>1 DEF Adding, AddAt
    <2>3. \A K : K = ring => Recent(K)' BY <1>1, <2>1, <2>2 DEF Recent, Numbered
    <2>4. state'.kids = ring /\ job'[c].my.kids = ring /\ job'[c].snap = ring BY <2>1, <2>2
    <2>5. \A d \in Copies \ {c} : job'[d].at \in AddAt => job'[d].at \in {"adding", "kids"} /\ job'[d].my.kids = {}
      BY <2>1, <2>2
    <2>6. Recent(state.kids)' /\ Recent(job[c].my.kids)' BY <2>3, <2>4
    <2> QED BY <2>1, <2>4, <2>5, <2>6 DEF Adding
  <1>11. ASSUME NEW c \in Copies, KeyKept(c) PROVE Adding'
    <2>1. /\ state'.phase = "activating" /\ UNCHANGED <<ring, made, rotations>> /\ job[c].at \in AddAt
          /\ (\A d \in Copies \ {c} : job'[d] = job[d]) /\ job'[c].at \notin AddAt
          /\ job[c].my.kids # {} /\ made \notin job[c].my.kids
      BY <1>1, <1>11 DEF KeyKept, Rewrote, Row, Others, Adding, AddAt
    <2>2. \A K : Recent(K) /\ made \notin K => Recent(K)' BY <2>1 DEF Recent
    <2>3. ASSUME NEW d \in Copies, job'[d].at \in AddAt
          PROVE  /\ job'[d] = job[d] /\ (job[d].my.kids # {} => made \notin job[d].my.kids /\ Recent(job[d].my.kids)')
      <3>1. d # c /\ job'[d] = job[d] /\ job[d].at \in AddAt BY <2>1, <2>3
      <3>2. job[d].my.kids # {} => job[d].my.kids = job[c].my.kids /\ Recent(job[d].my.kids)
        BY <1>1, <2>1, <3>1 DEF Adding
      <3> QED BY <2>1, <2>2, <3>1, <3>2
    <2> QED BY <1>1, <2>1, <2>3 DEF Adding
  <1>12. ASSUME \/ Asked /\ ~outlived'
                \/ Forced
                \/ \E c \in Copies : Activated(c) \/ Phased(c)
         PROVE  Adding'
    <2>1. ASSUME Asked PROVE Adding'
      <3>1. \A d \in Copies : job'[d].at \notin AddAt BY <2>1 DEF Asked, Active, AddAt
      <3>2. made <= rotations'
        <4>1. rotations \in Nat BY ConfigKeysAssumption DEF Typed, TypedStore
        <4> QED BY <1>1, <2>1, <4>1 DEF Asked, Numbered
      <3>3. state'.kids = {} /\ made' = made BY <2>1 DEF Asked, Row
      <3> QED BY <3>1, <3>2, <3>3 DEF Adding
    <2>2. ASSUME ~Asked PROVE Adding'
      <3>1. /\ state'.phase # "adding" /\ state'.kid = state.kid /\ UNCHANGED <<ring, made, rotations>>
            /\ \A d \in Copies : job'[d].at \in AddAt => job'[d] = job[d]
        BY <1>12, <2>2 DEF Forced, Activated, Phased, Rewrote, Row, Others, AddAt
      <3>2. \A K : Recent(K)' <=> Recent(K) BY <3>1 DEF Recent
      <3>3. ASSUME NEW d \in Copies, job'[d].at \in AddAt
            PROVE  job'[d] = job[d] /\ (job[d].my.kids # {} => Recent(job[d].my.kids)')
        BY <1>1, <3>1, <3>2, <3>3 DEF Adding
      <3> QED BY <1>1, <3>1, <3>3 DEF Adding
    <2> QED BY <2>1, <2>2
  <1> QED BY <1>2, <1>3, <1>4, <1>5, <1>6, <1>7, <1>8, <1>9, <1>10, <1>11, <1>12 DEF MovedOn

--------------------------------------------------------------------------------
\* What the copies have loaded, and what they say of it.

\* No copy knows of a key before the ring has it; who has a key has the older ones of the ring too.
Loads ==
    /\ \A d \in Copies : /\ loaded[d] \subseteq 1..made /\ known[d] \in (0..made) \cup {Unread}
                         /\ beat[d].kids \subseteq 1..made /\ beat[d].enc \in (1..made) \cup {Unread}
    /\ \A d \in up : /\ \A x \in loaded[d], k \in ring : k <= x => k \in loaded[d]
                     /\ made \in beat[d].kids => made \in loaded[d]
                     /\ state.active = 0 => loaded[d] \subseteq ring /\ 1 \in loaded[d] /\ known[d] \in {0, Unread}
                     /\ known[d] = made => state.active = made
    /\ state.active = 0 => 1 \in ring

\* A step that leaves ciphers and heartbeats as they are keeps them below the ring,
LEMMA LoadsStay ==
    ASSUME Typed, OfRotation, Loads, Typed', MovedOn, Quiet PROVE Loads'
  <1>1. /\ made \in Nat \ {0} /\ Unread \in Nat \ {0} /\ up' \subseteq up /\ UNCHANGED <<loaded, known, beat>>
        /\ made' # Unread /\ ring \in SUBSET Nat
    BY ConfigKeysAssumption DEF Typed, TypedStore, Kids, Unread, Quiet
  <1>2. ASSUME made' = made, ring' \subseteq ring,
               (state'.active = state.active /\ ring' = ring) \/ (state'.active # 0 /\ state'.active = made)
        PROVE  Loads'
    BY <1>1, <1>2 DEF Loads
  <1>3. CASE Fixed BY <1>2, <1>3 DEF Fixed
  <1>4. ASSUME NEW c \in Copies, Added(c) PROVE Loads'
    <2>1. /\ state' = state /\ made' = made + 1 /\ ring' = ring \cup {made + 1} /\ UNCHANGED <<loaded, known, beat>>
      BY <1>1, <1>4 DEF Added
    <2>2. ASSUME NEW d \in Copies
          PROVE  /\ loaded[d] \subseteq 1..made' /\ known[d] \in (0..made') \cup {Unread} /\ known[d] # made'
                 /\ beat[d].kids \subseteq 1..made' /\ beat[d].enc \in (1..made') \cup {Unread}
                 /\ made' \notin beat[d].kids
      BY <1>1, <2>1 DEF Loads
    <2>3. ASSUME NEW d \in up, NEW x \in loaded[d], NEW k \in ring', k <= x PROVE k \in loaded[d]
      <3>1. d \in Copies BY DEF Typed, TypedCopies
      <3>2. x \in 1..made BY <2>3, <3>1 DEF Loads
      <3>3. k # made + 1 BY <1>1, <2>3, <3>2
      <3> QED BY <2>1, <2>3, <3>3 DEF Loads
    <2>4. \A d \in up : state'.active = 0 => loaded[d] \subseteq ring' /\ 1 \in loaded[d] /\ known[d] \in {0, Unread}
      BY <2>1 DEF Loads
    <2>5. state'.active = 0 => 1 \in ring' BY <2>1 DEF Loads
    <2>6. up' \in SUBSET up /\ up \in SUBSET Copies BY <1>1 DEF Typed, TypedCopies
    <2> QED BY <2>1, <2>2, <2>3, <2>4, <2>5, <2>6 DEF Loads
  <1>5. ASSUME NEW c \in Copies, Removed(c) PROVE Loads'
    <2>1. state'.active = made BY <1>5 DEF Removed, OfRotation, Later, Numbered, LateAt, SureAt
    <2> QED BY <1>1, <1>2, <1>5, <2>1 DEF Removed
  <1>6. ASSUME NEW c \in Copies, Activated(c) PROVE Loads'
    <2>1. state'.active = made BY <1>6 DEF Activated, Rewrote, Row, OfRotation, Later, Numbered, LateAt
    <2> QED BY <1>1, <1>2, <1>6, <2>1 DEF Activated, Rewrote
  <1>7. CASE Forced
    <2>1. state'.active = made BY <1>7 DEF Forced, Row, OfRotation, Numbered
    <2> QED BY <1>1, <1>2, <1>7, <2>1 DEF Forced
  <1>8. ASSUME Asked \/ \E c \in Copies : ListedKeys(c) \/ KeyKept(c) \/ Phased(c) PROVE Loads'
    BY <1>2, <1>8 DEF Asked, ListedKeys, KeyKept, Phased, Rewrote, Row
  <1> QED BY <1>3, <1>4, <1>5, <1>6, <1>7, <1>8 DEF MovedOn, Dropped, PickedUp, Snapped, Path, Went, Adopted

\* and so does one that changes them.
LEMMA LoadsMove ==
    ASSUME Typed, OfRotation, Loads, Typed', MovedOn, CiphersMoved PROVE Loads'
  <1>1. /\ made \in Nat \ {0} /\ Unread \in Nat \ {0} /\ Unread # made /\ made \in ring /\ ring \subseteq 1..made
        /\ state.active \in ring \cup {0} /\ ring \in SUBSET Nat /\ Unread # 0
    BY ConfigKeysAssumption DEF Typed, TypedStore, Kids, Unread, OfRotation, Numbered
  <1>2. CASE Quiet BY <1>2, LoadsStay
  <1>3. ASSUME NEW c \in Copies, Fixed, RingRead(c) \/ Told(c) \/ Started(c) \/ Reloaded(c) PROVE Loads'
    <2>1. UNCHANGED <<state, ring, made, beat>> BY <1>3 DEF Fixed, RingRead, Told, Started, Reloaded
    <2>2. \A d \in Copies \ {c} : loaded'[d] = loaded[d] /\ known'[d] = known[d] /\ (d \in up' => d \in up)
      BY <1>3 DEF RingRead, Told, Started, Reloaded, Typed, TypedCopies
    <2>3. /\ loaded'[c] = ring \/ (loaded'[c] = loaded[c] /\ c \in up)
          /\ known'[c] \in {state.active, Unread} \/ (known'[c] = known[c] /\ c \in up)
      BY <1>3 DEF RingRead, Told, Started, Reloaded, Typed, TypedCopies
    <2>4. loaded'[c] \subseteq 1..made /\ known'[c] \in (0..made) \cup {Unread}
      <3>1. loaded[c] \subseteq 1..made /\ known[c] \in (0..made) \cup {Unread} BY DEF Loads
      <3>2. state.active \in 0..made
        <4>1. state.active \in 1..made \/ state.active = 0 BY <1>1
        <4>2. made \in Nat BY <1>1
        <4> QED BY <4>1, <4>2
      <3>3. loaded'[c] \subseteq 1..made BY <1>1, <2>3, <3>1
      <3> QED BY <2>3, <3>1, <3>2, <3>3
    <2>5. /\ \A x \in loaded'[c], k \in ring : k <= x => k \in loaded'[c]
          /\ made \in beat[c].kids => made \in loaded'[c]
      BY <1>1, <2>3 DEF Loads
    <2>6. /\ state.active = 0 => loaded'[c] \subseteq ring /\ 1 \in loaded'[c] /\ known'[c] \in {0, Unread}
          /\ known'[c] = made => state.active = made
      BY <1>1, <2>3 DEF Loads
    <2>7. ASSUME NEW d \in Copies \ {c}
          PROVE  /\ loaded'[d] \subseteq 1..made /\ known'[d] \in (0..made) \cup {Unread}
                 /\ d \in up' => /\ \A x \in loaded'[d], k \in ring : k <= x => k \in loaded'[d]
                                 /\ made \in beat[d].kids => made \in loaded'[d]
                                 /\ state.active = 0 => /\ loaded'[d] \subseteq ring /\ 1 \in loaded'[d]
                                                        /\ known'[d] \in {0, Unread}
                                 /\ known'[d] = made => state.active = made
      BY <2>2 DEF Loads
    <2>8. \A d \in Copies : beat[d].kids \subseteq 1..made /\ beat[d].enc \in (1..made) \cup {Unread} BY DEF Loads
    <2>9. state.active = 0 => 1 \in ring BY DEF Loads
    <2>10. up' \in SUBSET Copies BY DEF Typed, TypedCopies
    <2> QED BY <2>1, <2>4, <2>5, <2>6, <2>7, <2>8, <2>9, <2>10 DEF Loads
  <1>4. ASSUME NEW c \in Copies, Fixed, Reported(c) \/ LockExpired(c) PROVE Loads'
    <2>1. UNCHANGED <<state, ring, made, loaded, known, up>> BY <1>4 DEF Fixed, Reported, LockExpired
    <2>2. \A d \in Copies \ {c} : beat'[d] = beat[d] BY <1>4 DEF Reported, LockExpired, Typed, TypedCopies
    <2>3. beat'[c] = Report(c) \/ beat'[c] = NoBeat BY <1>4 DEF Reported, LockExpired, Typed, TypedCopies
    <2>4. /\ beat'[c].kids \subseteq 1..made /\ beat'[c].enc \in (1..made) \cup {Unread}
          /\ made \in beat'[c].kids => made \in loaded[c]
      <3>1. CurrentKid(c) \in loaded[c] \cup {Unread}
        BY CurrentTyped DEF Typed, TypedCopies
      <3>2. loaded[c] \subseteq 1..made BY DEF Loads
      <3> QED BY <2>3, <3>1, <3>2 DEF Report, NoBeat
    <2>5. ASSUME NEW d \in Copies
          PROVE  /\ beat'[d].kids \subseteq 1..made /\ beat'[d].enc \in (1..made) \cup {Unread}
                 /\ d \in up /\ made \in beat'[d].kids => made \in loaded[d]
      <3>1. CASE d = c BY <2>4, <3>1
      <3>2. CASE d # c BY <2>2, <3>2 DEF Loads
      <3> QED BY <3>1, <3>2
    <2>6. up \in SUBSET Copies BY DEF Typed, TypedCopies
    <2> QED BY <2>1, <2>5, <2>6 DEF Loads
  <1> QED BY <1>2, <1>3, <1>4 DEF CiphersMoved

--------------------------------------------------------------------------------
\* The key a copy encrypts with.

\* What holds of a copy that has the keys L loaded and last read k as the active one, against the ring R.
Sane(k, L, R) ==
    /\ k \in Kids => k \in L \/ (k \in R /\ \A x \in L : x < k)
    /\ CurrentOf(k, L) \in R \cup {Unread} /\ Max(L) \in R

\* Who encrypts with the newest key has read that it is active, or there is no other.
LEMMA NewestCurrent ==
    ASSUME NEW m \in Kids, NEW R \in SUBSET (1..m), NEW L \in SUBSET (1..m), L # {}, 1..m \subseteq Kids,
           NEW k \in (0..m) \cup {Unread}, Sane(k, L, R), \A x \in L, y \in R : y <= x => y \in L,
           CurrentOf(k, L) = m
    PROVE  m \in L /\ (k = m \/ (k = 0 /\ L = {m} /\ R \subseteq {m}))
  <1>1. k \in Kids \cup {0, Unread} /\ L \in SUBSET Kids /\ Kids \subseteq Nat \ {0}
    <2>1. Kids \subseteq Nat \ {0} BY ConfigKeysAssumption DEF Kids
    <2> QED BY <2>1
  <1>2. k # Unread BY <1>1, CurrentFacts
  <1>3. m \in L BY <1>1, <1>2, CurrentFacts
  <1>4. CASE k = 0
    <2>1. Min(L) = m BY <1>1, <1>4, CurrentFacts
    <2>2. \A x \in L : m <= x BY <1>1, <2>1, CurrentFacts
    <2>3. \A x \in L : x \in Nat /\ x <= m BY <1>1
    <2>4. \A x \in L : x = m BY <1>1, <2>2, <2>3
    <2>5. L = {m} BY <1>3, <2>4
    <2>6. R \subseteq {m}
      <3>1. \A y \in R : y \in Nat /\ y <= m BY <1>1
      <3> QED BY <1>3, <2>5, <3>1
    <2> QED BY <1>3, <1>4, <2>5, <2>6
  <1>5. CASE k \in L BY <1>1, <1>3, <1>5, CurrentFacts
  <1>6. CASE k \in Kids \ L
    <2>1. m < k BY <1>1, <1>3, <1>6 DEF Sane
    <2>2. k \in 0..m /\ m \in Nat BY <1>1, <1>2
    <2> QED BY <2>1, <2>2
  <1> QED BY <1>1, <1>2, <1>4, <1>5, <1>6

\* The ring has reached the copy.
LEMMA SaneRead ==
    ASSUME NEW m \in Kids, NEW R \in SUBSET (1..m), m \in R, NEW L \in SUBSET (1..m), L # {}, 1..m \subseteq Kids,
           NEW k \in (0..m) \cup {Unread}, Sane(k, L, R), \A x \in L, y \in R : y <= x => y \in L
    PROVE  Sane(k, R, R) /\ (CurrentOf(k, L) \in {m, Unread} => CurrentOf(k, R) = CurrentOf(k, L))
  <1>1. k \in Kids \cup {0, Unread} /\ L \in SUBSET Kids /\ R \in SUBSET Kids /\ R # {} /\ Kids \subseteq Nat \ {0}
    <2>1. Kids \subseteq Nat \ {0} BY ConfigKeysAssumption DEF Kids
    <2> QED BY <2>1
  <1>2. k \in Kids => k \in R BY <1>1, CurrentFacts DEF Sane
  <1>3. CurrentOf(k, R) \in R \cup {Unread} /\ Max(R) \in R BY <1>1, CurrentFacts
  <1>4. CASE CurrentOf(k, L) = m
    <2>1. m \in L /\ (k = m \/ (k = 0 /\ L = {m} /\ R \subseteq {m})) BY <1>4, NewestCurrent
    <2>2. CurrentOf(k, R) = m
      <3>1. CASE k = m BY <1>1, <3>1, CurrentFacts
      <3>2. CASE k = 0 /\ R = L BY <1>4, <3>2
      <3> QED BY <2>1, <3>1, <3>2
    <2> QED BY <1>2, <1>3, <1>4, <2>2 DEF Sane
  <1>5. CASE CurrentOf(k, L) = Unread
    <2>1. k = Unread
      <3>1. k # Unread => CurrentOf(k, L) \in Kids BY <1>1, CurrentFacts
      <3> QED BY <1>1, <1>5, <3>1, CurrentFacts
    <2> QED BY <1>1, <1>2, <1>3, <1>5, <2>1, CurrentFacts DEF Sane
  <1> QED BY <1>2, <1>3, <1>4, <1>5 DEF Sane

\* The copy has read which key is active, and, or before, has the ring.
LEMMA SaneTold ==
    ASSUME NEW m \in Kids, NEW R \in SUBSET (1..m), m \in R, NEW L \in SUBSET (1..m), L # {}, 1..m \subseteq Kids,
           NEW a \in R \cup {0, Unread}, a = 0 => L \subseteq R, Max(L) \in R, \A x \in L, y \in R : y <= x => y \in L
    PROVE  Sane(a, L, R) /\ (a \in L => CurrentOf(a, L) = a) /\ (a = Unread => CurrentOf(a, L) = Unread)
  <1>1. a \in Kids \cup {0, Unread} /\ L \in SUBSET Kids /\ R \in SUBSET Kids /\ Kids \subseteq Nat \ {0}
    <2>1. Kids \subseteq Nat \ {0} BY ConfigKeysAssumption DEF Kids
    <2> QED BY <2>1
  <1>2. a \in L => CurrentOf(a, L) = a BY <1>1, CurrentFacts
  <1>3. a = Unread => CurrentOf(a, L) = Unread BY <1>1, CurrentFacts
  <1>4. a = 0 => CurrentOf(a, L) \in R BY <1>1, CurrentFacts
  <1>5. a \in Kids \ L => CurrentOf(a, L) \in R /\ \A x \in L : x < a BY <1>1, CurrentFacts
  <1> QED BY <1>1, <1>2, <1>3, <1>4, <1>5, CurrentFacts DEF Sane

\* From the moment a job has heard that every copy encrypts with the newest key, they do.
Settled(d) == made \in loaded[d] /\ CurrentOf(known[d], loaded[d]) \in {made, Unread}
Sure == (\E c \in Copies : job[c].at \in SureAt) \/ state.phase = "retiring"
Settling ==
    /\ Sure => \A d \in up : Settled(d)
    /\ \A d \in up : Sane(known[d], loaded[d], ring)
    /\ \A d \in up : made >= 2 /\ beat[d].enc = made => state.active = made /\ CurrentOf(known[d], loaded[d]) = made

\* A job becomes sure by hearing it, and a step toward being sure makes no key.
LEMMA SureComes ==
    ASSUME Typed, OfRotation, Loads, Settling, MovedOn, Sure', ~unseen'
    PROVE  made' = made /\ \A d \in up : Settled(d)
  <1>1. Numbered /\ Later /\ Adding BY DEF OfRotation
  <1>2. Sure => \A d \in up : Settled(d) BY DEF Settling
  <1>3. PICK e : (e \in Copies /\ job'[e].at \in SureAt) \/ state'.phase = "retiring" BY DEF Sure
  <1>4. CASE Fixed /\ UNCHANGED job BY <1>2, <1>4 DEF Fixed, Sure
  <1>5. ASSUME NEW c \in Copies, Fixed, Others(c), job'[c].at \in SureAt => job[c].at \in SureAt \/ state.phase = "retiring"
        PROVE  made' = made /\ \A d \in up : Settled(d)
    BY <1>2, <1>5 DEF Fixed, Others, Sure
  <1>6. ASSUME NEW c \in Copies, Dropped(c) \/ PickedUp(c) \/ Snapped(c) \/ Adopted(c)
        PROVE  made' = made /\ \A d \in up : Settled(d)
    BY <1>5, <1>6 DEF Dropped, PickedUp, Snapped, Adopted, SureAt, Running
  <1>7. ASSUME NEW c \in Copies, Path(c) PROVE made' = made /\ \A d \in up : Settled(d)
    <2>1. ASSUME Went(c, "reencrypting", "reload"), EveryoneEncrypts(job[c].my.kid), Seen
          PROVE  made' = made /\ \A d \in up : Settled(d)
      <3>1. job[c].my.kid = made /\ made >= 2 BY <1>1, <2>1 DEF Went, Later, Numbered, LateAt
      <3>2. \A d \in up : d \in Live BY <2>1 DEF Seen, Live, Typed, TypedCopies
      <3>3. \A d \in up : made \in beat[d].kids /\ beat[d].enc = made BY <2>1, <3>1, <3>2 DEF EveryoneEncrypts,
                EveryoneLoaded
      <3>4. \A d \in up : Settled(d) BY <3>1, <3>3 DEF Loads, Settling, Settled
      <3> QED BY <2>1, <3>4 DEF Went, Fixed
    <2>2. ASSUME NEW from, NEW to, Went(c, from, to), to \in SureAt => from \in SureAt
          PROVE  made' = made /\ \A d \in up : Settled(d)
      BY <1>5, <2>2 DEF Went
    <2>3. ASSUME Went(c, "kids", "write") \/ Went(c, "activating", "activate")
          PROVE  made' = made /\ \A d \in up : Settled(d)
      BY <2>2, <2>3 DEF SureAt
    <2> QED BY <1>7, <2>1, <2>2, <2>3 DEF Path
  <1>8. ASSUME NEW c \in Copies, Added(c) PROVE FALSE
    <2>1. state.kid = 0 BY <1>1, <1>8 DEF Added, Adding, Recent, Numbered, OwnKeys, AddAt
    <2>2. e \in Copies => job'[e].at \notin SureAt BY <1>1, <1>3, <1>8, <2>1 DEF Added, Others, Later, LateAt, SureAt
    <2> QED BY <1>1, <1>3, <1>8, <2>1, <2>2 DEF Added, Numbered
  <1>9. ASSUME NEW c \in Copies, Removed(c) PROVE made' = made /\ \A d \in up : Settled(d)
    BY <1>2, <1>9 DEF Removed, Sure, SureAt
  <1>10. ASSUME NEW c \in Copies, ListedKeys(c) \/ KeyKept(c) \/ Activated(c) \/ Phased(c)
         PROVE  made' = made /\ \A d \in up : Settled(d)
    BY <1>2, <1>3, <1>10 DEF ListedKeys, KeyKept, Activated, Phased, Rewrote, Others, Row, Sure, SureAt
  <1>11. ASSUME Asked \/ Forced PROVE made' = made /\ \A d \in up : Settled(d)
    BY <1>2, <1>3, <1>11 DEF Asked, Forced, Row, Sure
  <1> QED BY <1>4, <1>6, <1>7, <1>8, <1>9, <1>10, <1>11 DEF MovedOn

\* The numbers that keys, ciphers and the row range over.
LEMMA Ranges ==
    ASSUME Typed, OfRotation, Loads
    PROVE  /\ made \in Kids /\ ring \in SUBSET (1..made) /\ made \in ring /\ 1..made \subseteq Kids
           /\ made \in Nat \ {0} /\ Kids \subseteq Nat \ {0} /\ Unread \notin Kids \cup {0}
           /\ \A d \in Copies : /\ loaded[d] \in SUBSET (1..made) /\ loaded[d] # {}
                                /\ known[d] \in (0..made) \cup {Unread} /\ known[d] \in Kids \cup {0, Unread}
           /\ \A d \in up : d \in Copies /\ \A x \in loaded[d], y \in ring : y <= x => y \in loaded[d]
           /\ state.active \in ring \cup {0} /\ (state.active = 0 => \A d \in up : loaded[d] \subseteq ring)
  <1>1. MaxRotations \in Nat /\ made \in Kids BY ConfigKeysAssumption DEF Typed, TypedStore
  <1>2. /\ made \in Nat \ {0} /\ Kids \subseteq Nat \ {0} /\ Unread \notin Kids \cup {0} /\ 1..made \subseteq Kids
    BY <1>1 DEF Kids, Unread
  <1> QED BY <1>1, <1>2 DEF Typed, TypedStore, TypedCopies, OfRotation, Numbered, Loads

\* A step that leaves ciphers and heartbeats as they are.
LEMMA SettlingStays ==
    ASSUME Typed, OfRotation, Loads, Settling, MovedOn, ~unseen', Quiet, OfRotation' PROVE Settling'
  <1>1. Numbered /\ Later /\ Adding BY DEF OfRotation
  <1>2. up' \subseteq up /\ UNCHANGED <<loaded, known, beat>> BY DEF Quiet
  <1>3. Sure' => \A d \in up' : Settled(d)' BY <1>2, SureComes DEF Settled
  <1>4. \A d \in up : Sane(known[d], loaded[d], ring') /\ d \in Copies
    <2>1. (\A d \in up : d \in Copies /\ Sane(known[d], loaded[d], ring)) BY Ranges DEF Settling
    <2>2. ASSUME ring \subseteq ring' PROVE \A d \in up : Sane(known[d], loaded[d], ring') BY <2>1, <2>2 DEF Sane
    <2>3. ASSUME NEW c \in Copies, Removed(c), NEW d \in up PROVE Sane(known[d], loaded[d], ring')
      <3>1. Settled(d) /\ made \in ring' /\ ring' \subseteq ring
        <4>1. Sure BY <2>3 DEF Removed, Sure, SureAt
        <4>2. job[c].my.active = made BY <1>1, <2>3 DEF Removed, Later, Numbered, LateAt, SureAt
        <4> QED BY <1>1, <2>3, <4>1, <4>2 DEF Settling, Removed, Removable, Numbered
      <3>2. Max(loaded[d]) = made
        <4>1. loaded[d] \in SUBSET Kids /\ loaded[d] # {} /\ made \in loaded[d] /\ loaded[d] \in SUBSET (1..made)
          BY <2>1, <3>1, Ranges DEF Settled
        <4>2. Max(loaded[d]) \in loaded[d] /\ \A x \in loaded[d] : x <= Max(loaded[d])
          BY <4>1, CurrentFacts DEF Kids
        <4>3. made \in Nat BY Ranges
        <4> QED BY <4>1, <4>2, <4>3
      <3>3. known[d] \in Kids => known[d] \in loaded[d]
        <4>1. /\ known[d] \in Kids => known[d] \in loaded[d] \/ made < known[d]
              /\ known[d] \in Kids => known[d] \in 0..made
          BY <2>1, <2>3, <3>1, Ranges DEF Sane, Settled
        <4>2. made \in Nat BY Ranges
        <4> QED BY <4>1, <4>2
      <3> QED BY <3>1, <3>2, <3>3 DEF Sane, Settled
    <2>4. ring \subseteq ring' \/ \E c \in Copies : Removed(c)
      BY DEF MovedOn, Fixed, Dropped, PickedUp, Snapped, Path, Went, Adopted, Added, ListedKeys, KeyKept, Activated,
          Phased, Rewrote,
         Asked, Forced
    <2> QED BY <2>1, <2>2, <2>3, <2>4
  <1>5. ASSUME NEW d \in up, made' >= 2, beat[d].enc = made'
        PROVE  state'.active = made' /\ CurrentOf(known[d], loaded[d]) = made'
    <2>1. d \in Copies /\ beat[d].enc \in (1..made) \cup {Unread} /\ made \in Nat \ {0} /\ made \in Kids
      BY Ranges DEF Loads
    <2>2. \A c \in Copies : ~Added(c)
      BY <1>5, <2>1, Ranges DEF Added
    <2>3. made' = made /\ (state'.active = state.active \/ state'.active = made)
      <3>1. made' = made /\ (state'.active = state.active \/ (state'.active = state.kid /\ state.kid # 0))
        <4>1. ASSUME NEW c \in Copies, Activated(c) PROVE state.kid # 0 BY <1>1, <4>1 DEF Activated, Later, LateAt
        <4> QED BY <2>2, <4>1 DEF MovedOn, Fixed, Dropped, PickedUp, Snapped, Path, Went, Adopted, Removed, ListedKeys,
                KeyKept,
               Activated, Phased, Rewrote, Asked, Forced, Row
      <3> QED BY <1>1, <3>1 DEF Numbered
    <2> QED BY <1>5, <2>3 DEF Settling
  <1> QED BY <1>2, <1>3, <1>4, <1>5 DEF Settling

\* Who encrypts with the newest key has it.
LEMMA NewestOf ==
    ASSUME Typed, OfRotation, Loads, Settling, NEW d \in up, CurrentOf(known[d], loaded[d]) = made
    PROVE  /\ made \in loaded[d]
           /\ known[d] = made \/ (known[d] = 0 /\ loaded[d] = {made} /\ ring \subseteq {made})
  <1> DEFINE L == loaded[d]
             k == known[d]
  <1>1. /\ made \in Kids /\ ring \in SUBSET (1..made) /\ 1..made \subseteq Kids /\ L \in SUBSET (1..made) /\ L # {}
        /\ k \in (0..made) \cup {Unread} /\ Sane(k, L, ring) /\ (\A x \in L, y \in ring : y <= x => y \in L)
        /\ CurrentOf(k, L) = made
    BY Ranges DEF Settling
  <1>2. made \in L /\ (k = made \/ (k = 0 /\ L = {made} /\ ring \subseteq {made}))
    <2> HIDE DEF k, L
    <2> QED BY <1>1, NewestCurrent
  <1> QED BY <1>2

\* A step that changes them leaves the rotation as it is.
LEMMA SettlingMoves ==
    ASSUME Typed, OfRotation, Loads, Settling, MovedOn, ~unseen', CiphersMoved, OfRotation' PROVE Settling'
  <1>1. /\ made \in Nat \ {0} /\ made \in Kids /\ ring \in SUBSET (1..made) /\ made \in ring /\ Unread # made
        /\ 1..made \subseteq Kids /\ ring # {} /\ Unread # 0 /\ Unread \notin Kids /\ state.active \in ring \cup {0}
    BY Ranges DEF Typed, TypedStore
  <1>2. \A d \in up : /\ d \in Copies /\ loaded[d] \in SUBSET (1..made) /\ loaded[d] # {}
                      /\ known[d] \in (0..made) \cup {Unread} /\ known[d] \in Kids \cup {0, Unread}
                      /\ \A x \in loaded[d], y \in ring : y <= x => y \in loaded[d]
                      /\ Sane(known[d], loaded[d], ring)
    BY Ranges DEF Settling
  <1>3. ASSUME NEW c \in Copies, Fixed, RingRead(c) \/ Told(c) \/ Reported(c) \/ LockExpired(c) \/ Started(c) \/ Reloaded(c)
        PROVE  Settling'
    <2>1. UNCHANGED <<state, ring, made>> BY <1>3 DEF Fixed
    <2>2. Sure' => /\ \A d \in up : Settled(d)
                   /\ state.active = made
      <3>1. ASSUME Sure' PROVE state'.active = made'
        BY <3>1 DEF Sure, OfRotation, Later, Numbered, LateAt
      <3> QED BY <2>1, <3>1, SureComes
    <2>3. \A d \in Copies \ {c} : /\ loaded'[d] = loaded[d] /\ known'[d] = known[d] /\ beat'[d] = beat[d]
                                  /\ d \in up' => d \in up
      BY <1>3 DEF RingRead, Told, Reported, LockExpired, Started, Reloaded, Typed, TypedCopies
    <2> DEFINE L == loaded'[c]
               k == known'[c]
               Fine == /\ (Sure' => made \in L /\ CurrentOf(k, L) \in {made, Unread}) /\ Sane(k, L, ring)
                       /\ made >= 2 /\ beat'[c].enc = made => state.active = made /\ CurrentOf(k, L) = made
    <2>4. ASSUME RingRead(c) PROVE Fine
      <3>1. c \in up /\ L = ring /\ k = known[c] /\ beat' = beat BY <2>4 DEF RingRead, Typed, TypedCopies
      <3>2. /\ Sane(k, ring, ring)
            /\ CurrentOf(k, loaded[c]) \in {made, Unread} => CurrentOf(k, ring) = CurrentOf(k, loaded[c])
        <4>1. /\ loaded[c] \in SUBSET (1..made) /\ loaded[c] # {} /\ k \in (0..made) \cup {Unread}
              /\ Sane(k, loaded[c], ring) /\ \A x \in loaded[c], y \in ring : y <= x => y \in loaded[c]
          BY <1>2, <3>1
        <4>2. /\ made \in Kids /\ ring \in SUBSET (1..made) /\ made \in ring /\ 1..made \subseteq Kids BY <1>1
        <4> HIDE DEF k, L
        <4> QED BY <4>1, <4>2, SaneRead
      <3>3. Sure' => CurrentOf(k, loaded[c]) \in {made, Unread} BY <2>2, <3>1 DEF Settled
      <3>4. made >= 2 /\ beat'[c].enc = made => state.active = made /\ CurrentOf(k, loaded[c]) = made
        BY <3>1 DEF Settling
      <3> QED BY <1>1, <3>1, <3>2, <3>3, <3>4
    <2>5. ASSUME Told(c) PROVE Fine
      <3>1. c \in up /\ L = loaded[c] /\ k = state.active /\ beat' = beat BY <2>5 DEF Told, Typed, TypedCopies
      <3>2. state.active = 0 => loaded[c] \subseteq ring BY <3>1, Ranges
      <3>3. Max(loaded[c]) \in ring BY <1>2, <3>1 DEF Sane
      <3>4. Sane(k, L, ring) /\ (k \in L => CurrentOf(k, L) = k)
        <4>1. /\ k \in ring \cup {0, Unread} /\ L \in SUBSET (1..made) /\ L # {} /\ (k = 0 => L \subseteq ring)
              /\ Max(L) \in ring /\ \A x \in L, y \in ring : y <= x => y \in L
          BY <1>1, <1>2, <3>1, <3>2, <3>3
        <4> HIDE DEF k, L
        <4> QED BY <1>1, <4>1, SaneTold
      <3>5. Sure' => made \in L BY <2>2, <3>1 DEF Settled
      <3>6. made >= 2 /\ beat'[c].enc = made => state.active = made /\ made \in L
        <4>1. made >= 2 /\ beat'[c].enc = made => state.active = made /\ CurrentOf(known[c], loaded[c]) = made
          BY <3>1 DEF Settling
        <4>2. ASSUME CurrentOf(known[c], loaded[c]) = made PROVE made \in loaded[c] BY <3>1, <4>2, NewestOf
        <4> QED BY <3>1, <4>1, <4>2
      <3> QED BY <2>2, <3>1, <3>4, <3>5, <3>6
    <2>6. ASSUME Started(c) \/ Reloaded(c) PROVE Fine
      <3>1. L = ring /\ k \in {state.active, Unread} /\ beat' = beat /\ (Started(c) => beat[c] = NoBeat /\ k = Unread)
            /\ (Reloaded(c) => k = state.active /\ c \in up)
        BY <2>6 DEF Started, Reloaded, Typed, TypedCopies
      <3>2. Max(ring) \in ring BY <1>1, CurrentFacts
      <3>3. Sane(k, L, ring) /\ (k \in L => CurrentOf(k, L) = k) /\ (k = Unread => CurrentOf(k, L) = Unread)
        <4>1. /\ k \in ring \cup {0, Unread} /\ L \in SUBSET (1..made) /\ L # {} /\ (k = 0 => L \subseteq ring)
              /\ Max(L) \in ring /\ \A x \in L, y \in ring : y <= x => y \in L
          BY <1>1, <3>1, <3>2
        <4> HIDE DEF k, L
        <4> QED BY <1>1, <4>1, SaneTold
      <3>4. made >= 2 /\ beat'[c].enc = made => state.active = made /\ k = made
        <4>1. CASE Started(c) BY <1>1, <3>1, <4>1 DEF NoBeat
        <4>2. CASE Reloaded(c) BY <3>1, <4>2 DEF Settling
        <4> QED BY <2>6, <4>1, <4>2
      <3>5. Sure' => k \in {made, Unread} BY <2>2, <3>1
      <3> QED BY <1>1, <3>1, <3>3, <3>4, <3>5
    <2>7. ASSUME Reported(c), c \in up PROVE Fine
      <3>1. L = loaded[c] /\ k = known[c] /\ beat'[c] = Report(c) BY <2>7 DEF Reported, Typed, TypedCopies
      <3>2. beat'[c].enc = CurrentOf(k, L) BY <3>1 DEF Report, CurrentKid, CurrentOf
      <3>3. ASSUME made >= 2, CurrentOf(k, L) = made PROVE state.active = made
        <4>1. k = made \/ (k = 0 /\ L = {made} /\ ring \subseteq {made}) BY <2>7, <3>1, <3>3, NewestOf
        <4>2. k = made => state.active = made BY <2>7, <3>1 DEF Loads
        <4>3. state.active = 0 => 1 \in L BY <2>7, <3>1 DEF Loads
        <4>4. k = 0 /\ L = {made} /\ ring \subseteq {made} => state.active = made
          <5> HIDE DEF k, L
          <5>1. ASSUME L = {made} PROVE 1 \notin L BY <3>3, <5>1, <1>1
          <5>2. ASSUME L = {made}, ring \subseteq {made} PROVE state.active = made BY <1>1, <4>3, <5>1, <5>2
          <5> QED BY <5>2
        <4> QED BY <4>1, <4>2, <4>4
      <3> QED BY <1>2, <2>2, <2>7, <3>1, <3>2, <3>3 DEF Settled
    <2>8. ASSUME LockExpired(c), c \in up PROVE Fine
      <3>1. L = loaded[c] /\ k = known[c] /\ beat'[c] = NoBeat BY <2>8 DEF LockExpired, Typed, TypedCopies
      <3> QED BY <1>1, <1>2, <2>2, <2>8, <3>1 DEF Settled, NoBeat
    <2>9. c \in up' => Fine
      <3>1. (Reported(c) \/ LockExpired(c)) /\ c \in up' => c \in up BY DEF Reported, LockExpired
      <3> QED BY <1>3, <2>4, <2>5, <2>6, <2>7, <2>8, <3>1
    <2>10. ASSUME NEW d \in up'
           PROVE  /\ Sure' => made \in loaded'[d] /\ CurrentOf(known'[d], loaded'[d]) \in {made, Unread}
                  /\ Sane(known'[d], loaded'[d], ring)
                  /\ made >= 2 /\ beat'[d].enc = made => state.active = made /\ CurrentOf(known'[d], loaded'[d]) = made
      <3>1. CASE d = c BY <2>9, <3>1
      <3>2. CASE d # c
        <4>1. d \in Copies \ {c} /\ d \in up
          BY <1>3, <2>3, <3>2 DEF RingRead, Told, Reported, LockExpired, Started, Reloaded, Typed, TypedCopies
        <4> QED BY <2>2, <2>3, <4>1 DEF Settling, Settled
      <3> QED BY <3>1, <3>2
    <2> QED BY <2>1, <2>10 DEF Settling, Settled
  <1>4. CASE Quiet BY <1>4, SettlingStays
  <1> QED BY <1>3, <1>4 DEF CiphersMoved

--------------------------------------------------------------------------------
\* The envelopes: each on a key of the ring, or a request in flight since before the recount saved it.

Envelopes ==
    /\ \A r \in Secrets : env[r] \in ring \/ r \in late
    /\ \A d \in Copies : sealed[d].row # 0 => sealed[d].kid \in ring \/ d \in slow
    /\ \A c \in Copies : job[c].at = "recount" =>
          /\ \A d \in Copies : sealed[d].row # 0 => sealed[d].kid = made \/ d \in slow
          /\ \A r \in Secrets : r < job[c].pos => env[r] \in job[c].used \cup {made} \/ r \in late

\* A recount begins at the first row and goes on row by row.
Counted(c) ==
    \/ job[c].at = "recount" /\ job'[c].pos = job[c].pos /\ job'[c].used = job[c].used
    \/ job[c].at = "choose" /\ job'[c].pos = 1 /\ Choosing(c)
    \/ /\ job[c].at = "recount" /\ job'[c].pos = job[c].pos + 1 /\ job'[c].used = job[c].used \cup {env[job[c].pos]}
       /\ Unsaved /\ ring' = ring
\* A run that saves the row,
LEMMA SaveTurns ==
    ASSUME TypedJobs, NEW c \in Copies, NEW new, NEW where, SaveState(c, new, where)
    PROVE  Others(c) /\ job'[c].at \in {where, "idle"}
  <1>1. CASE Stopped(c) BY <1>1, IdleTyped DEF Stopped, Turned, Others, TypedJobs
  <1>2. CASE Saved(c, new, where)
    <2>1. CASE where = "end" BY <1>2, <2>1, IdleTyped DEF Saved, Turned, Others, TypedJobs
    <2>2. CASE where # "end"
      <3> DEFINE j == [job[c] EXCEPT !.at = where, !.my = new]
      <3>1. j.at = where BY DEF TypedJobs, JobState
      <3>2. Turned(c, j) BY <1>2, <2>2 DEF Saved
      <3> HIDE DEF j
      <3> QED BY <3>1, <3>2 DEF Turned, Others, TypedJobs
    <2> QED BY <2>1, <2>2
  <1> QED BY <1>1, <1>2, Saving
\* gives up,
LEMMA GivingTurns ==
    ASSUME TypedJobs, NEW c \in Copies, GivesUp(c) PROVE Others(c) /\ job'[c].at \in {"end", "idle"}
  <1>1. CASE Ends(c) BY <1>1, IdleTyped DEF Ends, Others, TypedJobs
  <1> QED BY <1>1, SaveTurns DEF GivesUp
\* or goes on turns no other job.
LEMMA GoingTurns ==
    ASSUME TypedJobs, NEW c \in Copies, NEW where, Goes(c, where)
    PROVE  Others(c) /\ job'[c].at = where /\ job'[c].pos = job[c].pos /\ job'[c].used = job[c].used
  <1> DEFINE j == [job[c] EXCEPT !.at = where]
  <1>1. j.at = where /\ j.pos = job[c].pos /\ j.used = job[c].used BY DEF TypedJobs, JobState
  <1>2. Turned(c, j) BY DEF Goes, Turned, TypedJobs
  <1> HIDE DEF j
  <1> QED BY <1>1, <1>2 DEF Turned, Others, TypedJobs

\* Every action that leaves a job in a recount is one of these for it.
LEMMA CountsMove ==
    ASSUME Typed, [KeyNext]_keyVars, NEW c \in Copies, job'[c].at = "recount" PROVE Counted(c)
  <1>1. TypedJobs BY DEF Typed
  <1>2. ASSUME NEW d \in Copies, Others(d), d = c => Counted(c) PROVE Counted(c) BY <1>2 DEF Others, Counted
  <1>3. ASSUME NEW d \in Copies, Others(d), job'[d].at # "recount" PROVE Counted(c) BY <1>2, <1>3
  <1>4. ASSUME UNCHANGED job PROVE Counted(c) BY <1>4 DEF Counted
  <1>5. ASSUME NEW d \in Copies, NEW new, NEW where, SaveState(d, new, where), where # "recount" PROVE Counted(c)
    BY <1>1, <1>3, <1>5, SaveTurns
  <1>6. ASSUME NEW d \in Copies, GivesUp(d) PROVE Counted(c) BY <1>1, <1>3, <1>6, GivingTurns
  <1>7. ASSUME NEW d \in Copies, NEW where, Goes(d, where), where # "recount" PROVE Counted(c)
    BY <1>1, <1>3, <1>7, GoingTurns
  <1>8. ASSUME NEW d \in Copies, Ends(d) PROVE Counted(c)
    <2>1. Others(d) /\ job'[d] = Idle BY <1>8 DEF Ends, Others, Typed, TypedJobs
    <2> QED BY <1>3, <2>1, IdleTyped
  <1>9. ASSUME NEW d \in Copies,
            RecordsKids(d) \/ RecordsKey(d) \/ LooksForLoaded(d) \/ Activates(d) \/ LooksForEncrypting(d)
                                 \/ Reloads(d) \/ RecordsPass(d) \/ Finishes(d) \/ TakesLock(d)
        PROVE  Counted(c)
    BY <1>5, <1>6, <1>7, <1>9 DEF RecordsKids, RecordsKey, LooksForLoaded, Activates, LooksForEncrypting, Reloads,
       RecordsPass, Finishes, TakesLock
  <1>10. ASSUME NEW d \in Copies, LoadsState(d) PROVE Counted(c)
    <2>1. CASE state.phase \in Running
      <3> DEFINE j == [Idle EXCEPT !.at = state.phase, !.my = state]
      <3>1. j.at # "recount" BY <2>1, IdleTyped DEF Running, JobState
      <3>2. Others(d) /\ job'[d] = j BY <1>10, <2>1 DEF LoadsState, Others, Typed, TypedJobs
      <3> HIDE DEF j
      <3> QED BY <1>3, <3>1, <3>2
    <2>2. CASE state.phase \notin Running BY <1>8, <1>10, <2>2 DEF LoadsState
    <2> QED BY <2>1, <2>2
  <1>11. ASSUME NEW d \in Copies, ReadsRing(d) PROVE Counted(c)
    <2>1. CASE job' = [job EXCEPT ![d].snap = ring, ![d].at = IF @ = "adding" THEN "kids" ELSE "choose"]
      <3>1. Others(d) /\ job'[d].at # "recount" BY <2>1 DEF Others, Typed, TypedJobs, JobState
      <3> QED BY <1>3, <3>1
    <2> QED BY <1>5, <1>6, <1>11, <2>1 DEF ReadsRing
  <1>12. ASSUME NEW d \in Copies, AddsKey(d) PROVE Counted(c)
    <2>1. ASSUME NEW k, job' = [job EXCEPT ![d].add = k, ![d].at = "record"] PROVE Counted(c)
      <3>1. Others(d) /\ job'[d].at # "recount" BY <2>1 DEF Others, Typed, TypedJobs, JobState
      <3> QED BY <1>3, <3>1
    <2> QED BY <1>6, <1>12, <2>1 DEF AddsKey
  <1>13. ASSUME NEW d \in Copies, ReadsRow(d) \/ CountsRow(d) PROVE Counted(c)
    <2>1. CASE job' = Counts(d, env[job[d].pos])
      <3>1. Others(d) /\ job'[d].at = job[d].at /\ job'[d].pos = job[d].pos + 1
            /\ job'[d].used = job[d].used \cup {env[job[d].pos]}
        BY <2>1 DEF Counts, Others, Typed, TypedJobs, JobState
      <3>2. Unsaved /\ ring' = ring BY <1>13, <2>1 DEF ReadsRow, CountsRow, Unsaved, secrets, ciphers, store
      <3> QED BY <1>2, <3>1, <3>2 DEF Counted
    <2> QED BY <1>7, <1>13, <2>1 DEF ReadsRow, CountsRow
  <1>14. ASSUME NEW d \in Copies, WritesRow(d) PROVE Counted(c)
    <2>1. Others(d) /\ job'[d].at = "pass" BY <1>14 DEF WritesRow, Others, Typed, TypedJobs, JobState
    <2> QED BY <1>3, <2>1
  <1>15. ASSUME NEW d \in Copies, ChoosesKeys(d) PROVE Counted(c)
    <2>1. CASE Goes(d, "recount") /\ slow' = {e \in up : sealed[e].row # 0}
      <3>1. /\ Others(d) /\ job'[d].pos = 1 /\ job[d].at = "choose"
        BY <1>1, <1>15, <2>1, GoingTurns DEF ChoosesKeys, At, Typed, TypedJobs, Placed
      <3>2. Choosing(d) BY <1>15, <2>1, <3>1 DEF ChoosesKeys, Choosing, ciphers
      <3> QED BY <1>2, <3>1, <3>2 DEF Counted
    <2> QED BY <1>6, <1>7, <1>15, <2>1 DEF ChoosesKeys
  <1>16. ASSUME NEW d \in Copies, RemovesKeys(d) PROVE Counted(c)
    BY <1>5, <1>6, <1>7, <1>16 DEF RemovesKeys
  <1>17. ASSUME NEW d \in Copies, CopyDies(d) PROVE Counted(c)
    <2>1. Others(d) /\ job'[d] = Idle BY <1>17 DEF CopyDies, Others, Typed, TypedJobs
    <2> QED BY <1>3, <2>1, IdleTyped
  <1>18. ASSUME NEW d \in Copies,
             \/ LoadKeys(d) \/ LoadActiveKid(d) \/ Beat(d) \/ BeatExpires(d) \/ CopyStarts(d) \/ Saves(d)
                                  \/ \E r \in Secrets : Seals(d, r)
         PROVE  Counted(c)
    BY <1>4, <1>18 DEF LoadKeys, LoadActiveKid, Beat, BeatExpires, CopyStarts, Saves, Seals
  <1>19. ASSUME RotateRequest \/ ActivateAnyway \/ LockLapses \/ UNCHANGED keyVars PROVE Counted(c)
    BY <1>4, <1>19 DEF RotateRequest, ActivateAnyway, LockLapses, keyVars
  <1> QED BY <1>9, <1>10, <1>11, <1>12, <1>13, <1>14, <1>15, <1>16, <1>17, <1>18, <1>19 DEF KeyNext, JobSteps

\* No step leaves an envelope behind.
Below(c)  == \A r \in Secrets : r < job[c].pos => env[r] \in job[c].used \cup {made} \/ r \in late
Flights   == \A d \in Copies : sealed[d].row # 0 => sealed[d].kid = made \/ d \in slow
\* An envelope, or a request's, is on a key of the ring or of a request the recount could not see.
LEMMA EnvelopesStay ==
    ASSUME Typed, OfRotation, Loads, Settling, Envelopes, MovedOn, [KeyNext]_keyVars
    PROVE  /\ \A r \in Secrets : env'[r] \in ring' \/ r \in late'
           /\ \A d \in Copies : sealed'[d].row # 0 => sealed'[d].kid \in ring' \/ d \in slow'
  <1> DEFINE E == /\ \A r \in Secrets : env'[r] \in ring' \/ r \in late'
                  /\ \A d \in Copies : sealed'[d].row # 0 => sealed'[d].kid \in ring' \/ d \in slow'
  <1>1. Numbered /\ Later /\ made \in ring BY DEF OfRotation, Numbered
  <1>2. CASE Unsaved
    <2>1. CASE ring \subseteq ring' BY <1>2, <2>1 DEF Unsaved, Envelopes
    <2>2. ASSUME NEW c \in Copies, Removed(c) PROVE E
      <3>1. /\ job[c].my.active = made /\ ring' = ring \ Removable(c) /\ Recounted(c) = {} /\ job[c].snap = ring
            /\ job[c].at = "recount"
        BY <1>1, <2>2 DEF Removed, Later, Numbered, LateAt, SureAt
      <3>2. \A x \in ring : x \in job[c].used \cup {made} => x \in ring' BY <3>1 DEF Recounted, Removable
      <3>3. \A r \in Secrets : r < job[c].pos
        <4>1. job[c].pos \in Nat \ {0} /\ job[c].pos \notin Secrets BY <2>2 DEF Removed, Typed, TypedJobs, JobState
        <4> QED BY <4>1, ConfigKeysAssumption DEF Secrets
      <3>4. \A r \in Secrets : env[r] \in ring' \/ r \in late BY <3>1, <3>2, <3>3 DEF Envelopes
      <3>5. \A d \in Copies : sealed[d].row # 0 => sealed[d].kid \in ring' \/ d \in slow BY <1>1, <3>1, <3>2 DEF Envelopes
      <3> QED BY <1>2, <3>4, <3>5 DEF Unsaved
    <2>3. ring \subseteq ring' \/ \E c \in Copies : Removed(c)
      BY DEF MovedOn, Fixed, Dropped, PickedUp, Snapped, Path, Went, Adopted, Added, ListedKeys, KeyKept, Activated,
          Phased, Rewrote,
         Asked, Forced
    <2> QED BY <2>1, <2>2, <2>3
  <1>3. ASSUME NEW c \in Copies, Sealing(c) PROVE E
    <2>1. CurrentKid(c) \in ring
      <3>1. CurrentKid(c) = CurrentOf(known[c], loaded[c]) BY DEF CurrentKid, CurrentOf
      <3> QED BY <1>3, <3>1 DEF Sealing, Settling, Sane
    <2> QED BY <1>3, <2>1 DEF Sealing, Envelopes, Typed, TypedSecrets
  <1>4. ASSUME NEW c \in Copies, Saves(c) PROVE E
    BY <1>4 DEF Saves, store, Envelopes, Typed, TypedSecrets
  <1>5. ASSUME NEW c \in Copies, Rewriting(c) PROVE E
    <2>1. job[c].my.kid = made /\ job[c].pos \in Secrets
      BY <1>1, <1>5 DEF Rewriting, Later, Numbered, LateAt, SureAt, Typed, TypedJobs, Placed
    <2> QED BY <1>1, <1>5, <2>1 DEF Rewriting, Envelopes, Typed, TypedSecrets
  <1>6. ASSUME NEW c \in Copies, Choosing(c) PROVE E BY <1>6 DEF Choosing, Envelopes, Typed, TypedSecrets
  <1>7. ASSUME NEW c \in Copies, CopyDies(c) PROVE E BY <1>7 DEF CopyDies, Envelopes, Typed, TypedSecrets
  <1> QED BY <1>2, <1>3, <1>4, <1>5, <1>6, <1>7, SecretsMove

\* What a recount has counted stays counted,
LEMMA RecountStays ==
    ASSUME Typed, OfRotation, Envelopes, [KeyNext]_keyVars, NEW c \in Copies, job[c].at = "recount", made' = made,
           job'[c].pos = job[c].pos, job'[c].used = job[c].used, \A d \in up : Settled(d)
    PROVE  Flights' /\ Below(c)'
  <1>1. Numbered /\ Later /\ Flights /\ Below(c) BY DEF OfRotation, Envelopes, Flights, Below
  <1>2. CASE Unsaved BY <1>1, <1>2 DEF Unsaved, Flights, Below
  <1>3. ASSUME NEW e \in Copies, Sealing(e) PROVE Flights' /\ Below(c)'
    <2>1. CurrentKid(e) = made
      <3>1. CurrentKid(e) = CurrentOf(known[e], loaded[e]) BY DEF CurrentKid, CurrentOf
      <3> QED BY <1>3, <3>1 DEF Sealing, Settled
    <2> QED BY <1>1, <1>3, <2>1 DEF Sealing, Flights, Below, Typed, TypedSecrets
  <1>4. ASSUME NEW e \in Copies, Saves(e) PROVE Flights' /\ Below(c)'
    BY <1>1, <1>4 DEF Saves, Flights, Below, Typed, TypedSecrets
  <1>5. ASSUME NEW e \in Copies, Rewriting(e) PROVE Flights' /\ Below(c)'
    <2>1. job[e].my.kid = made /\ job[e].pos \in Secrets
      BY <1>1, <1>5 DEF Rewriting, Later, Numbered, LateAt, SureAt, Typed, TypedJobs, Placed
    <2> QED BY <1>1, <1>5, <2>1 DEF Rewriting, Flights, Below, Typed, TypedSecrets
  <1>6. ASSUME NEW e \in Copies, Choosing(e) PROVE Flights' /\ Below(c)'
    BY <1>1, <1>6 DEF Choosing, Flights, Below, Typed, TypedSecrets
  <1>7. ASSUME NEW e \in Copies, CopyDies(e) PROVE Flights' /\ Below(c)'
    BY <1>1, <1>7 DEF CopyDies, Flights, Below, Typed, TypedSecrets
  <1> QED BY <1>2, <1>3, <1>4, <1>5, <1>6, <1>7, SecretsMove

\* so it misses no envelope.
LEMMA EnvelopesKept ==
    ASSUME Typed, OfRotation, Loads, Settling, Envelopes, MovedOn, [KeyNext]_keyVars, ~unseen' PROVE Envelopes'
  <1>1. ASSUME NEW c \in Copies, job'[c].at = "recount" PROVE Flights' /\ Below(c)'
    <2>1. Sure' BY <1>1 DEF Sure, SureAt
    <2>2. made' = made /\ \A d \in up : Settled(d) BY <2>1, SureComes
    <2>3. CASE job[c].at = "recount" /\ job'[c].pos = job[c].pos /\ job'[c].used = job[c].used
      BY <2>2, <2>3, RecountStays
    <2>4. CASE job'[c].pos = 1 /\ Choosing(c)
      <3>1. \A r \in Secrets : ~(r < job'[c].pos) BY <2>4 DEF Secrets
      <3> QED BY <2>4, <3>1 DEF Choosing, Flights, Below, Typed, TypedSecrets
    <2>5. CASE /\ job[c].at = "recount" /\ job'[c].pos = job[c].pos + 1
               /\ job'[c].used = job[c].used \cup {env[job[c].pos]} /\ Unsaved
      <3>1. job[c].pos \in Nat BY DEF Typed, TypedJobs, JobState
      <3>2. \A r \in Secrets : r < job'[c].pos => r < job[c].pos \/ r = job[c].pos
        BY <2>5, <3>1, ConfigKeysAssumption DEF Secrets
      <3>3. Flights /\ Below(c) BY <2>5 DEF Envelopes, Flights, Below
      <3> QED BY <2>2, <2>5, <3>2, <3>3 DEF Unsaved, Flights, Below
    <2> QED BY <1>1, <2>3, <2>4, <2>5, CountsMove DEF Counted
  <1> QED BY <1>1, EnvelopesStay DEF Envelopes, Flights, Below

--------------------------------------------------------------------------------
\* Who encrypts with what: every running copy can read it.

Readable ==
    \A d \in up :
        /\ state.active # 0 => state.active \in loaded[d]
        /\ known[d] \in Kids => known[d] \in loaded[d]
        /\ (\E c \in Copies : job[c].at = "activate") => made \in loaded[d]
        /\ \A c \in up : CurrentOf(known[c], loaded[c]) \in loaded[d] \cup {Unread}

\* A copy that has read the ring writes nothing that one that has not cannot read,
LEMMA ReadRing ==
    ASSUME NEW m \in Kids, NEW R \in SUBSET (1..m), R # {}, NEW L \in SUBSET (1..m), L # {}, NEW M \in SUBSET (1..m),
           1..m \subseteq Kids, NEW k \in L \cup {0, Unread}, Sane(k, L, R), CurrentOf(k, L) \in M \cup {Unread},
           \A x \in M, y \in R : y <= x => y \in M
    PROVE  CurrentOf(k, R) \in M \cup {Unread} /\ (k \in Kids => k \in R)
  <1>1. /\ k \in Kids \cup {0, Unread} /\ L \in SUBSET Kids /\ R \in SUBSET Kids /\ Kids \subseteq Nat \ {0}
        /\ Unread \notin Kids \cup {0}
    <2>1. Kids \subseteq Nat \ {0} /\ Unread \notin Kids \cup {0} BY ConfigKeysAssumption DEF Kids, Unread
    <2> QED BY <2>1
  <1>2. CASE k = Unread BY <1>1, <1>2, CurrentFacts
  <1>3. CASE k \in L
    <2>1. CurrentOf(k, L) = k BY <1>1, <1>3, CurrentFacts
    <2>2. k \in R BY <1>1, <1>3, <2>1 DEF Sane
    <2> QED BY <1>1, <1>3, <2>1, <2>2, CurrentFacts
  <1>4. CASE k = 0
    <2>1. CurrentOf(k, L) = Min(L) /\ Min(L) \in L /\ CurrentOf(k, R) = Min(R) /\ Min(R) \in R BY <1>1, <1>4, CurrentFacts
    <2>2. Min(L) \in R /\ Min(L) \in M BY <1>1, <2>1 DEF Sane
    <2>3. Min(R) <= Min(L) BY <1>1, <2>2, CurrentFacts
    <2> QED BY <1>1, <1>4, <2>1, <2>2, <2>3
  <1> QED BY <1>2, <1>3, <1>4

\* nor one that has read the row, while no key was ever activated.
LEMMA FirstKey ==
    ASSUME NEW m \in Kids, 1..m \subseteq Kids, NEW L \in SUBSET (1..m), 1 \in L PROVE CurrentOf(0, L) = 1
  <1>1. L \in SUBSET Kids /\ Kids \subseteq Nat \ {0}
    <2>1. Kids \subseteq Nat \ {0} BY ConfigKeysAssumption DEF Kids
    <2> QED BY <2>1
  <1>2. CurrentOf(0, L) = Min(L) /\ Min(L) \in L /\ Min(L) <= 1 BY <1>1, CurrentFacts
  <1>3. Min(L) \in Nat \ {0} BY <1>1, <1>2
  <1> QED BY <1>2, <1>3

\* A key is activated when every running copy has it.
LEMMA ActivateComes ==
    ASSUME Typed, OfRotation, Loads, Readable, MovedOn, ~unseen', NEW c \in Copies, job'[c].at = "activate"
    PROVE  made' = made /\ \A d \in up : made \in loaded[d]
  <1>1. Numbered /\ Later /\ Adding BY DEF OfRotation
  <1> DEFINE G == made' = made /\ \A d \in up : made \in loaded[d]
  <1>2. ASSUME job[c].at = "activate", made' = made PROVE G BY <1>2 DEF Readable
  <1>3. ASSUME NEW e \in Copies, Others(e), job'[e].at # "activate", made' = made PROVE G BY <1>2, <1>3 DEF Others
  <1>4. CASE UNCHANGED <<job, made>> BY <1>2, <1>4
  <1>5. ASSUME NEW e \in Copies, Path(e) PROVE G
    <2>1. ASSUME Went(e, "activating", "activate"), EveryoneLoaded(job[e].my.kid), Seen PROVE G
      <3>1. job[e].my.kid = made BY <1>1, <2>1 DEF Went, Later, Numbered, LateAt
      <3>2. \A d \in up : d \in Live BY <2>1 DEF Seen, Live, Typed, TypedCopies
      <3>3. \A d \in up : made \in beat[d].kids BY <2>1, <3>1, <3>2 DEF EveryoneLoaded
      <3> QED BY <2>1, <3>3 DEF Loads, Went, Fixed
    <2>2. ASSUME NEW from, NEW to, Went(e, from, to), to # "activate" PROVE G BY <1>3, <2>2 DEF Went, Fixed
    <2> QED BY <1>5, <2>1, <2>2 DEF Path, SureAt
  <1>6. ASSUME NEW e \in Copies, Added(e) PROVE FALSE
    <2>1. state.kid = 0 BY <1>1, <1>6 DEF Added, Adding, Recent, Numbered, OwnKeys, AddAt
    <2> QED BY <1>1, <1>6, <2>1 DEF Added, Others, Later, LateAt
  <1>7. ASSUME NEW e \in Copies, Dropped(e) \/ PickedUp(e) \/ Snapped(e) \/ Adopted(e) PROVE G
    BY <1>3, <1>7 DEF Dropped, PickedUp, Snapped, Adopted, Fixed, Running
  <1>8. ASSUME NEW e \in Copies, Removed(e) \/ ListedKeys(e) \/ KeyKept(e) \/ Activated(e) \/ Phased(e) PROVE G
    BY <1>3, <1>8 DEF Removed, ListedKeys, KeyKept, Activated, Phased, Rewrote
  <1> QED BY <1>4, <1>5, <1>6, <1>7, <1>8 DEF MovedOn, Fixed, Asked, Forced

\* A step that leaves the ciphers as they are leaves what is written readable,
LEMMA ReadableStays ==
    ASSUME Typed, OfRotation, Loads, Readable, MovedOn, ~unseen', ~forced', Quiet PROVE Readable'
  <1>1. UNCHANGED <<loaded, known>> /\ up' \subseteq up BY DEF Quiet
  <1>2. (\E c \in Copies : job'[c].at = "activate") => made' = made /\ \A d \in up : made \in loaded[d]
    BY ActivateComes
  <1>3. state'.active = state.active \/ \E c \in Copies : Activated(c)
    BY DEF MovedOn, Fixed, Dropped, PickedUp, Snapped, Path, Went, Adopted, Added, Removed, ListedKeys, KeyKept, Phased,
        Rewrote, Asked,
       Forced, Row
  <1>4. ASSUME NEW c \in Copies, Activated(c), NEW d \in up PROVE state'.active \in loaded[d]
    <2>1. state'.active = made BY <1>4 DEF Activated, Row, OfRotation, Later, Numbered, LateAt
    <2> QED BY <1>4, <2>1 DEF Activated, Readable
  <1> QED BY <1>1, <1>2, <1>3, <1>4 DEF Readable

\* and so does one that changes them.
LEMMA ReadableMoves ==
    ASSUME Typed, OfRotation, Loads, Settling, Readable, MovedOn, CiphersMoved, ~unseen', ~forced' PROVE Readable'
  <1>1. /\ made \in Kids /\ ring \in SUBSET (1..made) /\ made \in ring /\ ring # {} /\ 1..made \subseteq Kids
        /\ state.active \in ring \cup {0} /\ Unread \notin Kids \cup {0} /\ 1 \in 1..made /\ 0 \notin Kids
        /\ state.active = 0 => 1 \in ring
    BY Ranges DEF Typed, TypedStore, Loads
  <1>2. \A d \in up : /\ d \in Copies /\ loaded[d] \in SUBSET (1..made) /\ loaded[d] # {}
                      /\ \A x \in loaded[d], y \in ring : y <= x => y \in loaded[d]
                      /\ Sane(known[d], loaded[d], ring) /\ known[d] \in loaded[d] \cup {0, Unread}
    BY Ranges DEF Settling, Readable
  <1>3. (\E c \in Copies : job'[c].at = "activate") => made' = made /\ \A d \in up : made \in loaded[d]
    BY ActivateComes
  <1>4. ASSUME NEW c \in Copies, Fixed, RingRead(c) \/ Told(c) \/ Started(c) \/ Reloaded(c) PROVE Readable'
    <2>1. UNCHANGED <<state, ring, made>> BY <1>4 DEF Fixed
    <2>2. \A d \in Copies \ {c} : loaded'[d] = loaded[d] /\ known'[d] = known[d] /\ (d \in up' => d \in up)
      BY <1>4 DEF RingRead, Told, Started, Reloaded, Typed, TypedCopies
    <2>3. loaded'[c] = ring \/ (loaded'[c] = loaded[c] /\ c \in up)
      BY <1>4 DEF RingRead, Told, Started, Reloaded, Typed, TypedCopies
    <2>4. up' \in SUBSET (up \cup {c})
      BY <1>4 DEF RingRead, Told, Started, Reloaded
    <2> DEFINE L == loaded'[c]
               k == known'[c]
               K == CurrentOf(k, L)
               Fine == (k \in Kids => k \in L) /\ K \in ring \cup {Unread} /\ \A d \in up : K \in loaded[d] \cup {Unread}
    <2>5. ASSUME RingRead(c) PROVE Fine
      <3>1. c \in up /\ L = ring /\ k = known[c] BY <2>5 DEF RingRead, Typed, TypedCopies
      <3>2. K \in ring \cup {Unread}
        <4>1. k \in Kids \cup {0, Unread} /\ ring \in SUBSET Kids BY <1>1, <3>1, Ranges
        <4>2. ASSUME NEW x \in Kids \cup {0, Unread} PROVE CurrentOf(x, ring) \in ring \cup {Unread}
          BY <1>1, <4>1, <4>2, CurrentFacts
        <4> QED BY <3>1, <4>1, <4>2
      <3>3. ASSUME NEW d \in up PROVE K \in loaded[d] \cup {Unread} /\ (k \in Kids => k \in ring)
        <4>1. /\ loaded[c] \in SUBSET (1..made) /\ loaded[c] # {} /\ k \in loaded[c] \cup {0, Unread}
              /\ Sane(k, loaded[c], ring) /\ CurrentOf(k, loaded[c]) \in loaded[d] \cup {Unread}
              /\ loaded[d] \in SUBSET (1..made) /\ \A x \in loaded[d], y \in ring : y <= x => y \in loaded[d]
          BY <1>2, <3>1, <3>3 DEF Readable
        <4> HIDE DEF k
        <4> QED BY <1>1, <3>1, <4>1, ReadRing
      <3> QED BY <3>1, <3>2, <3>3
    <2>6. ASSUME Told(c) \/ Reloaded(c) PROVE Fine
      <3>1. c \in up /\ k = state.active /\ L \in {ring, loaded[c]}
        BY <2>6 DEF Told, Reloaded, Typed, TypedCopies
      <3>2. L \in SUBSET (1..made) /\ L \in SUBSET Kids /\ L # {} BY <1>1, <1>2, <3>1
      <3>3. CASE state.active = 0
        <4>1. 1 \in L /\ k = 0 /\ \A d \in up : 1 \in loaded[d] BY <1>1, <3>1, <3>3 DEF Loads
        <4>2. K = 1
          <5> HIDE DEF k, L
          <5> QED BY <1>1, <3>2, <4>1, FirstKey
        <4> QED BY <1>1, <3>3, <4>1, <4>2
      <3>4. CASE state.active # 0
        <4>1. k \in L /\ k \in ring /\ \A d \in up : k \in loaded[d] BY <1>1, <3>1, <3>4 DEF Readable
        <4>2. K = k
          <5>1. k \in Kids BY <1>1, <4>1
          <5> HIDE DEF k, L
          <5> QED BY <3>2, <4>1, <5>1, CurrentFacts
        <4> QED BY <4>1, <4>2
      <3> QED BY <3>3, <3>4
    <2>7. ASSUME Started(c) PROVE Fine
      <3>1. L = ring /\ k = Unread BY <2>7 DEF Started, Typed, TypedCopies
      <3>2. K = Unread BY <3>1 DEF CurrentOf
      <3> QED BY <1>1, <3>1, <3>2
    <2>8. Fine BY <1>4, <2>5, <2>6, <2>7
    <2>9. ASSUME NEW e \in up', e # c
          PROVE  /\ e \in up /\ known'[e] = known[e] /\ loaded'[e] = loaded[e]
                 /\ CurrentOf(known[e], loaded[e]) \in ring \cup {Unread}
                 /\ \A d \in up : CurrentOf(known[e], loaded[e]) \in loaded[d] \cup {Unread}
      BY <1>2, <2>2, <2>4, <2>9 DEF Sane, Readable
    <2>10. ASSUME NEW d \in up'
           PROVE  /\ state.active # 0 => state.active \in loaded'[d]
                  /\ known'[d] \in Kids => known'[d] \in loaded'[d]
                  /\ (\E a \in Copies : job'[a].at = "activate") => made \in loaded'[d]
                  /\ \A e \in up' : CurrentOf(known'[e], loaded'[e]) \in loaded'[d] \cup {Unread}
      <3>1. CASE d = c
        <4>1. \A e \in up' : CurrentOf(known'[e], loaded'[e]) \in loaded'[c] \cup {Unread} BY <2>3, <2>8, <2>9
        <4> QED BY <1>1, <1>3, <2>3, <2>8, <3>1, <4>1 DEF Readable
      <3>2. CASE d # c
        <4>1. \A e \in up' : CurrentOf(known'[e], loaded'[e]) \in loaded'[d] \cup {Unread} BY <2>8, <2>9, <3>2
        <4> QED BY <1>3, <2>9, <3>2, <4>1 DEF Readable
      <3> QED BY <3>1, <3>2
    <2> QED BY <2>1, <2>10 DEF Readable
  <1>5. ASSUME NEW c \in Copies, Fixed, Reported(c) \/ LockExpired(c) PROVE Readable'
    <2>1. UNCHANGED <<state, loaded, known, up, made>> BY <1>5 DEF Fixed, Reported, LockExpired
    <2> QED BY <1>3, <2>1 DEF Readable
  <1>6. CASE Quiet BY <1>6, ReadableStays
  <1> QED BY <1>4, <1>5, <1>6 DEF CiphersMoved

--------------------------------------------------------------------------------
\* The invariant; each part of it holds as long as what it is stated under.

KeysInv ==
    /\ Typed /\ Versions
    /\ outlived \/ (OfRotation /\ Loads)
    /\ outlived \/ unseen \/ (Settling /\ Envelopes)
    /\ outlived \/ unseen \/ forced \/ Readable

\* What the histories tell is never forgotten.
LEMMA PastStays ==
    ASSUME Typed, [KeyNext]_keyVars
    PROVE  (unseen => unseen') /\ (forced => forced') /\ (outlived => outlived')
  <1>1. CASE UNCHANGED keyPast BY <1>1 DEF keyPast
  <1>2. ASSUME NEW c \in Copies, LooksForLoaded(c) \/ LooksForEncrypting(c)
        PROVE  (unseen => unseen') /\ UNCHANGED <<forced, outlived>>
    BY <1>2 DEF LooksForLoaded, LooksForEncrypting, Looked
  <1>3. ASSUME NEW c \in Copies, JobSteps(c), ~LooksForLoaded(c), ~LooksForEncrypting(c) PROVE UNCHANGED keyPast
    BY <1>3 DEF JobSteps, TakesLock, LoadsState, ReadsRing, RecordsKids, AddsKey, RecordsKey, Activates, Reloads, ReadsRow,
       WritesRow, RecordsPass, ChoosesKeys, CountsRow, RemovesKeys, Finishes
  <1>4. ASSUME NEW c \in Copies,
            \/ LoadKeys(c) \/ LoadActiveKid(c) \/ Beat(c) \/ BeatExpires(c) \/ CopyStarts(c) \/ CopyDies(c)
                                 \/ Saves(c) \/ \E r \in Secrets : Seals(c, r)
        PROVE  UNCHANGED keyPast
    BY <1>4 DEF LoadKeys, LoadActiveKid, Beat, BeatExpires, CopyStarts, CopyDies, Saves, Seals
  <1>5. CASE LockLapses \/ UNCHANGED keyVars BY <1>1, <1>5 DEF LockLapses, keyVars
  <1>6. CASE RotateRequest BY <1>6 DEF RotateRequest
  <1>7. CASE ActivateAnyway BY <1>7 DEF ActivateAnyway
  <1> QED BY <1>1, <1>2, <1>3, <1>4, <1>5, <1>6, <1>7 DEF KeyNext

\* The invariant holds at the start,
LEMMA KeysInit ==
    ASSUME KeyInit PROVE KeysInv
  <1>1. Typed /\ Versions BY InitTyped
  <1>2. /\ ring = {1} /\ made = 1 /\ rotations = 0 /\ state.phase = "none" /\ state.active = 0 /\ state.kid = 0
        /\ \A c \in Copies : job[c].at = "idle"
    BY DEF KeyInit, Idle
  <1>3. OfRotation BY <1>2 DEF OfRotation, Numbered, Adding, Later, AddAt, LateAt, SureAt
  <1>4. \A c \in Copies : loaded[c] = {1} /\ known[c] = 0 /\ beat[c].kids = {1} /\ beat[c].enc = 1 BY DEF KeyInit
  <1>5. up = Copies /\ env = [r \in Secrets |-> 1] /\ \A c \in Copies : sealed[c].row = 0 BY DEF KeyInit
  <1>6. Loads BY <1>2, <1>4, <1>5 DEF Loads
  <1>7. Max({1}) = 1 /\ CurrentOf(0, {1}) = 1 /\ 0 \notin Kids
    <2>1. {1} \in SUBSET Kids /\ {1} # {} /\ 0 \notin Kids BY ConfigKeysAssumption DEF Kids
    <2> QED BY <2>1, CurrentFacts
  <1>8. ASSUME NEW c \in Copies PROVE CurrentOf(known[c], loaded[c]) = 1 /\ Max(loaded[c]) = 1 /\ known[c] \notin Kids
    <2>1. loaded[c] = {1} /\ known[c] = 0 BY <1>4
    <2> QED BY <1>7, <2>1
  <1>9. Settling
    <2>1. ~Sure BY <1>2 DEF Sure, SureAt
    <2>2. \A d \in up : Sane(known[d], loaded[d], ring) BY <1>2, <1>5, <1>8 DEF Sane
    <2> QED BY <1>2, <2>1, <2>2 DEF Settling
  <1>10. Envelopes BY <1>2, <1>5 DEF Envelopes
  <1>11. Readable
    <2>1. \A d \in up : d \in Copies /\ 1 \in loaded[d] BY <1>4, <1>5
    <2>2. \A c \in Copies : job[c].at # "activate" BY <1>2
    <2> QED BY <1>2, <1>8, <2>1, <2>2 DEF Readable
  <1> QED BY <1>1, <1>3, <1>6, <1>9, <1>10, <1>11 DEF KeysInv

\* every step keeps it,
LEMMA KeysStep ==
    ASSUME KeysInv, [KeyNext]_keyVars PROVE KeysInv'
  <1>1. Typed /\ Versions BY DEF KeysInv
  <1>2. Typed' /\ Versions' /\ MovedOn /\ CiphersMoved BY <1>1, StepTyped, CiphersMove
  <1>3. (unseen => unseen') /\ (forced => forced') /\ (outlived => outlived') BY <1>1, PastStays
  <1>4. ASSUME ~outlived' PROVE OfRotation /\ Loads /\ OfRotation' /\ Loads'
    <2>1. OfRotation /\ Loads BY <1>3, <1>4 DEF KeysInv
    <2>2. OfRotation' BY <1>1, <1>2, <1>4, <2>1, RotationNumbers, RotationAdds, RotationLater DEF OfRotation
    <2>3. Loads' BY <1>1, <1>2, <2>1, LoadsMove
    <2> QED BY <2>1, <2>2, <2>3
  <1>5. ASSUME ~outlived', ~unseen' PROVE Settling /\ Settling' /\ Envelopes'
    <2>1. Settling /\ Envelopes BY <1>3, <1>5 DEF KeysInv
    <2>2. Settling' BY <1>1, <1>2, <1>4, <1>5, <2>1, SettlingMoves
    <2>3. Envelopes' BY <1>1, <1>2, <1>4, <1>5, <2>1, EnvelopesKept
    <2> QED BY <2>1, <2>2, <2>3
  <1>6. ASSUME ~outlived', ~unseen', ~forced' PROVE Readable'
    <2>1. Readable BY <1>3, <1>6 DEF KeysInv
    <2> QED BY <1>1, <1>2, <1>4, <1>5, <1>6, <2>1, ReadableMoves
  <1> QED BY <1>2, <1>4, <1>5, <1>6 DEF KeysInv

\* and it is what the rotation promises.
LEMMA KeysGood ==
    ASSUME KeysInv PROVE KeysUsable
  <1>1. Typed BY DEF KeysInv
  <1>2. KeyTypeOK
    <2>1. \A c \in Copies : job[c].my \in StateRow /\ job[c].snap \subseteq Kids BY <1>1 DEF Typed, TypedJobs, JobState
    <2> QED BY <1>1, <2>1 DEF KeyTypeOK, Typed, TypedStore, TypedCopies, TypedSecrets
  <1>3. NoOrphanedEnvelope BY DEF KeysInv, Envelopes, NoOrphanedEnvelope
  <1>4. WrittenIsReadable
    <2>1. \A c \in Copies : CurrentKid(c) = CurrentOf(known[c], loaded[c]) BY DEF CurrentKid, CurrentOf
    <2>2. up \in SUBSET Copies BY <1>1 DEF Typed, TypedCopies
    <2> QED BY <2>1, <2>2 DEF KeysInv, Readable, WrittenIsReadable
  <1>5. OneKeyEach BY DEF KeysInv, OfRotation, Numbered, OneKeyEach
  <1> QED BY <1>2, <1>3, <1>4, <1>5 DEF KeysUsable

\* Whatever copies stop and start, locks lapse, heartbeats are lost and requests save late: every
\* envelope can be opened, by every copy, and no rotation makes two keys (ConfigKeyRotationJob,
\* ConfigCipher), but for what KeysUsable names.
THEOREM KeysStayUsable == KeySpec => []KeysUsable
  <1>1. KeysInv => KeysUsable BY KeysGood
  <1>2. KeyInit => KeysInv BY KeysInit
  <1>3. KeysInv /\ [KeyNext]_keyVars => KeysInv' BY KeysStep
  <1> QED BY <1>1, <1>2, <1>3, PTL DEF KeySpec

--------------------------------------------------------------------------------
(****************************************************************************)
(* The key vault of one mailbox, at any number of devices, replicas, keys   *)
(* and master keys. All that is in the vault is of one master key           *)
(* (OneMaster) and the owner has a way in (Unlockable). The generation ties *)
(* what devices and the job have to the vault: a device that unlocked the   *)
(* vault of the present generation has its master key (DevFits), a key      *)
(* wrapped for an enrollment in this mailbox and generation is wrapped      *)
(* under it (EnrFits), and a run of the job that is about to save the vault *)
(* it read is at that generation (DrvFits). A re-key raises the generation, *)
(* so what was wrapped before it fits vacuously and is refused where it     *)
(* arrives. A run publishes only a key it has put into the vault, and       *)
(* nothing but a re-key takes a key out: what is published is held          *)
(* (AllHeld).                                                               *)
(****************************************************************************)

\* Where a device and a run of the job may be.
DeviceStages == {"idle", "unlocked", "new", "enroll", "wrap", "unwrap", "rekey", "rekeying", "sign", "attach"}
\* The stages of a device that has unlocked the vault it read.
Unlocked == DeviceStages \ {"idle", "new", "enroll"}
DrvStages == {"idle", "advance", "material", "check", "refuse", "vault", "publish", "mark"}
VaultRows == [there : BOOLEAN, gen : Nat, wraps : SUBSET ((Methods \cup {"escrow"}) \X Nat), keys : SUBSET (Nat \X Nat)]
KeyEntries(U) == [k : Nat, use : U, live : BOOLEAN]
BoxRows == [uid : {1, 2}, keys : SUBSET KeyEntries({"encrypt", "sign"}), zero : SUBSET KeyEntries({"zero"})]
Enrollments == [st : {"none", "pending", "issued", "failed"}, key : Nat, master : Nat, gen : Nat, box : {0, 1, 2},
                digest : BOOLEAN, replied : BOOLEAN, ordered : BOOLEAN, inst : BOOLEAN]
DevTasks == [at : DeviceStages, gen : Nat, master : Nat, held : SUBSET Nat, pubs : SUBSET Nat, vault : BOOLEAN, box :
    BOOLEAN]
DrvTasks == [at : DrvStages, vault : BOOLEAN, enr : Enrollments]
\* The types of the vault, the mailbox, the enrollment and what devices and the job are doing.
KvTypeOK ==
    /\ vault \in VaultRows /\ box \in BoxRows /\ enr \in Enrollments
    /\ dev \in [Devices -> DevTasks] /\ drv \in [Drivers -> DrvTasks]
    /\ keysMade \in Nat /\ mastersMade \in Nat /\ dropped \subseteq Nat /\ trips \in Nat

\* Everything in the vault is of one master key.
OneMaster(v) == \A m, n \in Masters(v) : m = n
\* Once something is in it, the owner has a way in.
Unlockable(v) == v.wraps # {} \/ v.keys # {} => Unlocks(v.wraps) # {}
\* What a device goes by is of its generation: as long as that is the vault's, the master key it has is the vault's.
DevFits(q, v) ==
    /\ q.gen <= v.gen /\ (q.vault => q.gen = v.gen)
    /\ q.at \in Unlocked /\ q.gen = v.gen => q.master \in Masters(v)
\* A key was wrapped in the mailbox, and in the generation, it names.
EnrFits(e, v, u) ==
    /\ e.box <= u
    /\ e.box = u => e.gen <= v.gen /\ (e.gen = v.gen => e.master \in Masters(v))
\* A job that saves the vault it read is at the generation of its key; one that publishes a key has put it there.
DrvFits(x, v, u, lost) ==
    /\ EnrFits(x.enr, v, u)
    /\ x.at = "vault" /\ x.vault => x.enr.box = u /\ x.enr.gen = v.gen
    /\ x.at = "publish" /\ x.enr.box = u => x.enr.key \in Sealed(v.keys) \cup lost
\* What is published is held.
AllHeld(b, v, lost) == KeysOf(b.keys \cup b.zero) \subseteq Sealed(v.keys) \cup lost
\* Of each use one key at most is not revoked.
OneLive(S) == \A x, y \in S : x.live /\ y.live /\ x.use = y.use => x = y
BoxHolds(b) == OneLive(b.keys) /\ OneLive(b.zero)

KvInv ==
    /\ KvTypeOK /\ OneMaster(vault) /\ Unlockable(vault)
    /\ \A d \in Devices : DevFits(dev[d], vault)
    /\ EnrFits(enr, vault, box.uid)
    /\ \A r \in Drivers : DrvFits(drv[r], vault, box.uid, dropped)
    /\ AllHeld(box, vault, dropped) /\ BoxHolds(box)

\* What is at rest has its type.
LEMMA RestTypes ==
    /\ EmptyVault \in VaultRows /\ NoEnrollment \in Enrollments /\ NoDev \in DevTasks /\ NoDrv \in DrvTasks
    /\ NewBox(1) \in BoxRows /\ NewBox(2) \in BoxRows
  BY DEF EmptyVault, VaultRows, NoEnrollment, Enrollments, NoDev, DevTasks, DeviceStages, NoDrv, DrvTasks, DrvStages,
     NewBox, BoxRows

\* A device or a job at rest fits any vault.
LEMMA RestFits ==
    ASSUME NEW v \in VaultRows, NEW u \in {1, 2}, NEW lost
    PROVE  DevFits(NoDev, v) /\ EnrFits(NoEnrollment, v, u) /\ DrvFits(NoDrv, v, u, lost)
  <1>1. v.gen \in Nat
    BY DEF VaultRows
  <1>2. EnrFits(NoEnrollment, v, u)
    BY DEF EnrFits, NoEnrollment
  <1>3. NoDrv.enr = NoEnrollment /\ NoDrv.at = "idle"
    BY DEF NoDrv
  <1>4. DevFits(NoDev, v)
    BY <1>1 DEF DevFits, NoDev, Unlocked
  <1> QED
    BY <1>2, <1>3, <1>4 DEF DrvFits

\* A vault that is not set up fits.
LEMMA KvStarts == KvInit => KvInv
  <1> SUFFICES ASSUME KvInit PROVE KvInv
    OBVIOUS
  <1>1. KvTypeOK
    BY RestTypes DEF KvInit, KvTypeOK
  <1>2. vault.wraps = {} /\ vault.keys = {} /\ box.keys = {} /\ box.zero = {} /\ box.uid = 1
    BY DEF KvInit, EmptyVault, NewBox
  <1>3. OneMaster(vault) /\ Unlockable(vault) /\ BoxHolds(box) /\ AllHeld(box, vault, dropped)
    BY <1>2 DEF OneMaster, Masters, Unlockable, BoxHolds, OneLive, AllHeld, KeysOf
  <1>4. \A d \in Devices : DevFits(dev[d], vault)
    BY <1>1, RestFits DEF KvInit, KvTypeOK
  <1>5. EnrFits(enr, vault, box.uid) /\ \A r \in Drivers : DrvFits(drv[r], vault, box.uid, dropped)
    BY <1>1, <1>2, RestFits DEF KvInit, KvTypeOK
  <1> QED
    BY <1>1, <1>3, <1>4, <1>5 DEF KvInv

\* Steps that leave the vault and the mailbox alone.
LEMMA LeavesAlone ==
    ASSUME KvInv, KvTypeOK', UNCHANGED <<vault, box, dropped>>,
           \A d \in Devices : DevFits(dev'[d], vault),
           EnrFits(enr', vault, box.uid),
           \A r \in Drivers : DrvFits(drv'[r], vault, box.uid, dropped)
    PROVE  KvInv'
  BY DEF KvInv

\* One device moves.
LEMMA DevMoves ==
    ASSUME KvInv, NEW d \in Devices, NEW q \in DevTasks, dev' = [dev EXCEPT ![d] = q], DevFits(q, vault),
           enr' \in Enrollments, EnrFits(enr', vault, box.uid),
           keysMade' \in Nat, mastersMade' \in Nat, UNCHANGED <<vault, box, drv, dropped, trips>>
    PROVE  KvInv'
  <1>1. KvTypeOK'
    BY DEF KvInv, KvTypeOK
  <1>2. \A c \in Devices : dev'[c] = IF c = d THEN q ELSE dev[c]
    BY DEF KvInv, KvTypeOK
  <1>3. \A c \in Devices : DevFits(dev'[c], vault)
    BY <1>2 DEF KvInv
  <1>4. \A r \in Drivers : DrvFits(drv'[r], vault, box.uid, dropped)
    BY DEF KvInv
  <1> QED
    BY <1>1, <1>3, <1>4, LeavesAlone

\* One run of the job moves.
LEMMA DrvMoves ==
    ASSUME KvInv, NEW r \in Drivers, NEW x \in DrvTasks, drv' = [drv EXCEPT ![r] = x], DrvFits(x, vault, box.uid, dropped),
           enr' \in Enrollments, EnrFits(enr', vault, box.uid),
           trips' \in Nat, UNCHANGED <<vault, box, dev, dropped, keysMade, mastersMade>>
    PROVE  KvInv'
  <1>1. KvTypeOK'
    BY DEF KvInv, KvTypeOK
  <1>2. \A c \in Drivers : drv'[c] = IF c = r THEN x ELSE drv[c]
    BY DEF KvInv, KvTypeOK
  <1>3. \A c \in Drivers : DrvFits(drv'[c], vault, box.uid, dropped)
    BY <1>2 DEF KvInv
  <1>4. \A d \in Devices : DevFits(dev'[d], vault)
    BY DEF KvInv
  <1> QED
    BY <1>1, <1>3, <1>4, LeavesAlone

\* What is known of the parts.
LEMMA VaultParts ==
    ASSUME KvInv
    PROVE  /\ vault \in VaultRows /\ vault.gen \in Nat /\ box \in BoxRows /\ box.uid \in {1, 2}
           /\ enr \in Enrollments /\ EnrFits(enr, vault, box.uid)
           /\ keysMade \in Nat /\ mastersMade \in Nat /\ trips \in Nat
           /\ \A d \in Devices : dev[d] \in DevTasks /\ DevFits(dev[d], vault)
           /\ \A r \in Drivers : drv[r] \in DrvTasks /\ DrvFits(drv[r], vault, box.uid,
               dropped) /\ drv[r].enr \in Enrollments
  BY DEF KvInv, KvTypeOK, VaultRows, BoxRows, DrvTasks

\* The master keys of a vault are numbers.
LEMMA MastersAreNat ==
    ASSUME NEW v \in VaultRows
    PROVE  /\ Masters(v) \subseteq Nat /\ Sealed(v.keys) \subseteq Nat
           /\ Masters(v) = {} <=> v.wraps = {} /\ v.keys = {}
  <1>1. v.wraps \subseteq (Methods \cup {"escrow"}) \X Nat /\ v.keys \subseteq Nat \X Nat
    BY DEF VaultRows
  <1> QED
    BY <1>1 DEF Masters, Sealed

\* A device that ends keeps the invariant.
LEMMA DevEndsKeeps ==
    ASSUME KvInv, NEW d \in Devices, DevEnds(d), UNCHANGED <<vault, box, enr, dropped, trips, keysMade, mastersMade>>
    PROVE  KvInv'
  BY DevMoves, VaultParts, RestTypes, RestFits DEF DevEnds

\* get() keeps it: the device has the master key of the generation it read, or one nobody has used.
LEMMA GetKeeps ==
    ASSUME KvInv, NEW d \in Devices, Get(d)
    PROVE  KvInv'
  <1> DEFINE q == [NoDev EXCEPT !.at = IF SetUp THEN "unlocked" ELSE "new", !.gen = vault.gen, !.held = Sealed(vault.keys),
                                !.pubs = KeysOf(box.keys), !.master = IF SetUp THEN CHOOSE m \in Masters(vault) : TRUE
                                    ELSE mastersMade']
  <1>1. /\ mastersMade' \in Nat /\ dev' = [dev EXCEPT ![d] = q]
        /\ UNCHANGED <<vault, box, enr, drv, keysMade, dropped, trips>>
    BY VaultParts DEF Get
  <1>2. SetUp => (CHOOSE m \in Masters(vault) : TRUE) \in Masters(vault)
    BY VaultParts, MastersAreNat DEF SetUp
  <1>3. Sealed(vault.keys) \subseteq Nat /\ Masters(vault) \subseteq Nat
    BY VaultParts, MastersAreNat
  <1>4. KeysOf(box.keys) \subseteq Nat
    BY VaultParts DEF KeysOf, BoxRows, KeyEntries
  <1>5. /\ q \in DevTasks /\ q.gen = vault.gen /\ ~q.vault
        /\ (q.at = "unlocked" => q.master \in Masters(vault)) /\ q.at \in {"unlocked", "new"}
    BY <1>1, <1>2, <1>3, <1>4, VaultParts DEF NoDev, DevTasks, DeviceStages
  <1> HIDE DEF q
  <1>6. DevFits(q, vault)
    BY <1>5, VaultParts DEF DevFits, Unlocked
  <1> QED
    BY <1>1, <1>5, <1>6, VaultParts, DevMoves

\* A request's read of the rows keeps it: assertMasterKeyGeneration() lets only the vault's own generation through.
LEMMA RequestKeeps ==
    ASSUME KvInv, NEW d \in Devices, NEW at \in {"enroll", "wrap", "unwrap", "rekey", "sign"}, Request(d, at)
    PROVE  KvInv'
  <1>1. CASE dev' = [dev EXCEPT ![d] = NoDev]
    BY <1>1, DevMoves, VaultParts, RestTypes, RestFits DEF Request
  <1>2. CASE GenerationMatches(d) /\ dev' = [dev EXCEPT ![d].at = at, ![d].vault = TRUE, ![d].box = TRUE]
    <2> DEFINE q == [dev[d] EXCEPT !.at = at, !.vault = TRUE, !.box = TRUE]
    <2>1. dev' = [dev EXCEPT ![d] = q]
      BY <1>2
    <2>2. dev[d] \in DevTasks /\ DevFits(dev[d], vault)
      BY VaultParts
    <2>3. q \in DevTasks /\ q.at = at /\ q.gen = dev[d].gen /\ q.master = dev[d].master
      BY <2>2 DEF DevTasks, DeviceStages
    <2>4. dev[d].gen = vault.gen /\ (at = "enroll" \/ dev[d].at = "unlocked")
      BY <1>2 DEF GenerationMatches, Request
    <2> HIDE DEF q
    <2>5. DevFits(q, vault)
      BY <2>2, <2>3, <2>4, VaultParts DEF DevFits, Unlocked, DeviceStages
    <2> QED
      BY <2>1, <2>3, <2>5, DevMoves, VaultParts DEF Request
  <1> QED
    BY <1>1, <1>2 DEF Request

\* rekey() looking for enrollments in flight keeps it.
LEMMA RekeyCheckedKeeps ==
    ASSUME KvInv, NEW d \in Devices, RekeyChecked(d)
    PROVE  KvInv'
  <1>1. CASE dev' = [dev EXCEPT ![d] = NoDev]
    BY <1>1, DevMoves, VaultParts, RestTypes, RestFits DEF RekeyChecked
  <1>2. CASE dev' = [dev EXCEPT ![d].at = "rekeying"]
    <2> DEFINE q == [dev[d] EXCEPT !.at = "rekeying"]
    <2>1. dev' = [dev EXCEPT ![d] = q]
      BY <1>2
    <2>2. dev[d] \in DevTasks /\ DevFits(dev[d], vault) /\ dev[d].at = "rekey"
      BY VaultParts DEF RekeyChecked
    <2>3. /\ q \in DevTasks /\ q.at = "rekeying" /\ q.gen = dev[d].gen /\ q.master = dev[d].master
          /\ q.vault = dev[d].vault
      BY <2>2 DEF DevTasks, DeviceStages
    <2> HIDE DEF q
    <2>5. DevFits(q, vault)
      BY <2>2, <2>3 DEF DevFits, Unlocked, DeviceStages
    <2> QED
      BY <2>1, <2>3, <2>5, DevMoves, VaultParts DEF RekeyChecked
  <1> QED
    BY <1>1, <1>2 DEF RekeyChecked

\* startSignEnrollment() ordering the certificate keeps it: nothing is wrapped yet.
LEMMA StartKeeps ==
    ASSUME KvInv, NEW d \in Devices, StartEnrollment(d)
    PROVE  KvInv'
  <1>1. CASE UNCHANGED <<enr, keysMade>> /\ dev' = [dev EXCEPT ![d] = NoDev]
    BY <1>1, DevMoves, VaultParts, RestTypes, RestFits DEF StartEnrollment
  <1>2. CASE NewKey /\ enr' = [NoEnrollment EXCEPT !.st = "pending",
            !.key = keysMade'] /\ dev' = [dev EXCEPT ![d].at = "attach"]
    <2> DEFINE q == [dev[d] EXCEPT !.at = "attach"]
    <2>1. dev' = [dev EXCEPT ![d] = q]
      BY <1>2
    <2>2. dev[d] \in DevTasks /\ DevFits(dev[d], vault) /\ dev[d].at = "sign" /\ keysMade' \in Nat
      BY <1>2, VaultParts DEF StartEnrollment, NewKey
    <2>3. q \in DevTasks /\ q.at = "attach" /\ q.gen = dev[d].gen /\ q.master = dev[d].master /\ q.vault = dev[d].vault
      BY <2>2 DEF DevTasks, DeviceStages
    <2>4. enr' \in Enrollments /\ EnrFits(enr', vault, box.uid)
      <3>1. enr' \in Enrollments /\ enr'.box = 0
        BY <1>2, <2>2 DEF NoEnrollment, Enrollments
      <3> QED
        BY <3>1, VaultParts DEF EnrFits
    <2> HIDE DEF q
    <2>5. DevFits(q, vault)
      BY <2>2, <2>3 DEF DevFits, Unlocked, DeviceStages
    <2> QED
      BY <2>1, <2>2, <2>3, <2>4, <2>5, DevMoves, VaultParts DEF StartEnrollment
  <1> QED
    BY <1>1, <1>2 DEF StartEnrollment

\* The wrapped key keeps it: it names the mailbox and the generation of the device that wrapped it.
LEMMA AttachKeeps ==
    ASSUME KvInv, NEW d \in Devices, AttachWrappedKey(d)
    PROVE  KvInv'
  <1>1. /\ dev[d] \in DevTasks /\ DevFits(dev[d], vault) /\ dev[d].at = "attach" /\ enr \in Enrollments
        /\ box.uid \in {1, 2}
    BY VaultParts DEF AttachWrappedKey
  <1>2. dev[d].gen \in Nat /\ dev[d].master \in Nat
    BY <1>1 DEF DevTasks
  <1>3. /\ enr' \in Enrollments /\ enr'.box = box.uid /\ enr'.gen = dev[d].gen /\ enr'.master = dev[d].master
    BY <1>1, <1>2 DEF AttachWrappedKey, Enrollments
  <1>4. EnrFits(enr', vault, box.uid)
    BY <1>1, <1>3 DEF DevFits, EnrFits, Unlocked, DeviceStages
  <1> QED
    BY <1>3, <1>4, DevMoves, VaultParts, RestTypes, RestFits DEF AttachWrappedKey, DevEnds

\* An enrollment's state may change; what it was wrapped for does not.
LEMMA SameWrap ==
    ASSUME NEW e, NEW f, NEW v, NEW u, EnrFits(e, v, u), f.box = e.box, f.gen = e.gen, f.master = e.master
    PROVE  EnrFits(f, v, u)
  BY DEF EnrFits

\* An enrollment that failed fits as it did.
LEMMA FailedFits ==
    ASSUME NEW e \in Enrollments
    PROVE  Failed(e) \in Enrollments /\ Failed(e).box = e.box /\ Failed(e).gen = e.gen /\ Failed(e).master = e.master
  BY DEF Failed, Enrollments

\* A cancelled enrollment keeps it.
LEMMA CancelKeeps ==
    ASSUME KvInv, NEW d \in Devices, CancelEnrollment(d)
    PROVE  KvInv'
  <1>1. enr' \in Enrollments /\ EnrFits(enr', vault, box.uid)
    BY VaultParts, FailedFits, SameWrap DEF CancelEnrollment
  <1> QED
    BY <1>1, DevMoves, VaultParts, RestTypes, RestFits DEF CancelEnrollment, DevEnds

\* A step of the provider on the enrollment alone.
LEMMA EnrMoves ==
    ASSUME KvInv, NEW e \in Enrollments, enr' = e, e.box = enr.box, e.gen = enr.gen, e.master = enr.master,
           UNCHANGED <<vault, box, dev, drv, keysMade, mastersMade, dropped, trips>>
    PROVE  KvInv'
  <1>1. EnrFits(enr', vault, box.uid)
    BY VaultParts, SameWrap
  <1>2. KvTypeOK'
    BY DEF KvInv, KvTypeOK
  <1>3. /\ \A d \in Devices : DevFits(dev'[d], vault)
        /\ \A r \in Drivers : DrvFits(drv'[r], vault, box.uid, dropped)
    BY DEF KvInv
  <1> QED
    BY <1>1, <1>2, <1>3, LeavesAlone

\* recordChallengeToken() keeps it.
LEMMA TokenKeeps ==
    ASSUME KvInv, RecordChallengeToken
    PROVE  KvInv'
  <1> DEFINE e == [enr EXCEPT !.digest = TRUE]
  <1>1. e \in Enrollments /\ e.box = enr.box /\ e.gen = enr.gen /\ e.master = enr.master
    BY VaultParts DEF Enrollments
  <1> HIDE DEF e
  <1>2. enr' = e /\ UNCHANGED <<vault, box, dev, drv, keysMade, mastersMade, dropped, trips>>
    BY DEF RecordChallengeToken, e
  <1> QED
    BY <1>1, <1>2, EnrMoves

\* uploadCertificate() keeps it.
LEMMA UploadKeeps ==
    ASSUME KvInv, UploadCertificate
    PROVE  KvInv'
  <1> DEFINE e == [enr EXCEPT !.st = "issued"]
  <1>1. e \in Enrollments /\ e.box = enr.box /\ e.gen = enr.gen /\ e.master = enr.master
    BY VaultParts DEF Enrollments
  <1> HIDE DEF e
  <1>2. enr' = e /\ UNCHANGED <<vault, box, dev, drv, keysMade, mastersMade, dropped, trips>>
    BY DEF UploadCertificate, e
  <1> QED
    BY <1>1, <1>2, EnrMoves

\* The listing of enrollments keeps it.
LEMMA ListKeeps ==
    ASSUME KvInv, NEW r \in Drivers, ListPending(r)
    PROVE  KvInv'
  <1> DEFINE x == [NoDrv EXCEPT !.at = IF enr.st = "pending" THEN "advance" ELSE "material", !.enr = enr]
  <1>1. x \in DrvTasks /\ x.enr = enr /\ x.at \in {"advance", "material"}
    BY VaultParts, RestTypes DEF NoDrv, DrvTasks, DrvStages
  <1> HIDE DEF x
  <1>2. DrvFits(x, vault, box.uid, dropped)
    BY <1>1, VaultParts DEF DrvFits
  <1>3. drv' = [drv EXCEPT ![r] = x]
    BY DEF ListPending, x
  <1> QED
    BY <1>1, <1>2, <1>3, DrvMoves, VaultParts DEF ListPending

\* advance() keeps it: the key and what it is wrapped for stay.
LEMMA AdvanceKeeps ==
    ASSUME KvInv, NEW r \in Drivers, Advance(r)
    PROVE  KvInv'
  <1> DEFINE x == [drv[r] EXCEPT !.at = "material"]
  <1>1. drv[r] \in DrvTasks /\ DrvFits(drv[r], vault, box.uid, dropped)
    BY VaultParts
  <1>2. x \in DrvTasks /\ x.enr = drv[r].enr /\ x.at = "material"
    BY <1>1 DEF DrvTasks, DrvStages
  <1> HIDE DEF x
  <1>3. DrvFits(x, vault, box.uid, dropped)
    BY <1>1, <1>2 DEF DrvFits
  <1>4. drv' = [drv EXCEPT ![r] = x] /\ trips' \in Nat /\ UNCHANGED <<vault, box, dev, keysMade, mastersMade, dropped>>
    BY VaultParts DEF Advance, x, Trip
  <1>5. /\ enr' = enr \/ (\E s \in {"issued", "failed"} : enr' = [enr EXCEPT !.st = s])
           \/ enr' = [enr EXCEPT !.replied = TRUE] \/ enr' = [enr EXCEPT !.ordered = TRUE]
    BY DEF Advance
  <1>6. enr' \in Enrollments /\ enr'.box = enr.box /\ enr'.gen = enr.gen /\ enr'.master = enr.master
    BY <1>5, VaultParts DEF Enrollments
  <1>7. EnrFits(enr', vault, box.uid)
    BY <1>6, VaultParts, SameWrap
  <1> QED
    BY <1>2, <1>3, <1>4, <1>6, <1>7, DrvMoves

\* A run of the job that ends keeps it.
LEMMA DrvEndsKeeps ==
    ASSUME KvInv, NEW r \in Drivers, drv' = [drv EXCEPT ![r] = NoDrv], enr' \in Enrollments, EnrFits(enr', vault, box.uid),
           trips' \in Nat, UNCHANGED <<vault, box, dev, dropped, keysMade, mastersMade>>
    PROVE  KvInv'
  BY DrvMoves, VaultParts, RestTypes, RestFits

\* getIssuedMaterial() keeps it.
LEMMA MaterialKeeps ==
    ASSUME KvInv, NEW r \in Drivers, GetMaterial(r)
    PROVE  KvInv'
  <1>1. CASE drv' = [drv EXCEPT ![r] = NoDrv]
    BY <1>1, DrvEndsKeeps, VaultParts DEF GetMaterial
  <1>2. CASE drv' = [drv EXCEPT ![r] = [NoDrv EXCEPT !.at = "check", !.enr = enr]]
    <2> DEFINE x == [NoDrv EXCEPT !.at = "check", !.enr = enr]
    <2>1. x \in DrvTasks /\ x.enr = enr /\ x.at = "check"
      BY VaultParts, RestTypes DEF NoDrv, DrvTasks, DrvStages
    <2> HIDE DEF x
    <2>2. DrvFits(x, vault, box.uid, dropped)
      BY <2>1, VaultParts DEF DrvFits
    <2>3. drv' = [drv EXCEPT ![r] = x]
      BY <1>2 DEF x
    <2> QED
      BY <2>1, <2>2, <2>3, DrvMoves, VaultParts DEF GetMaterial
  <1> QED
    BY <1>1, <1>2 DEF GetMaterial

\* installCertificate() checking mailbox, generation and keys keeps it: it goes on to the vault only with a key of its
\* generation, and past it only with a key the vault has.
LEMMA CheckKeeps ==
    ASSUME KvInv, NEW r \in Drivers, Check(r)
    PROVE  KvInv'
  <1> DEFINE e == drv[r].enr
             at == IF Refused(e) THEN "refuse" ELSE IF HasKey(e.key) /\ Published(e.key) THEN "mark"
                   ELSE IF HasKey(e.key) THEN "publish" ELSE "vault"
             x == [drv[r] EXCEPT !.at = at, !.vault = TRUE]
  <1>1. drv[r] \in DrvTasks /\ DrvFits(drv[r], vault, box.uid, dropped)
    BY VaultParts
  <1>2. at \in DrvStages /\ (at = "vault" => ~Refused(e) /\ ~HasKey(e.key)) /\ (at = "publish" => HasKey(e.key))
    BY DEF DrvStages
  <1>3. drv' = [drv EXCEPT ![r] = x]
    BY DEF Check, Halves
  <1> HIDE DEF at
  <1>4. x \in DrvTasks /\ x.enr = e /\ x.at = at
    BY <1>1, <1>2 DEF DrvTasks
  <1>5. DrvFits(x, vault, box.uid, dropped)
    BY <1>1, <1>2, <1>4 DEF DrvFits, Refused, HasKey
  <1> HIDE DEF x
  <1> QED
    BY <1>3, <1>4, <1>5, DrvMoves, VaultParts DEF Check

\* markInstalled() and a refusal keep it.
LEMMA MarkKeeps ==
    ASSUME KvInv, NEW r \in Drivers, Mark(r)
    PROVE  KvInv'
  <1>1. enr' = [enr EXCEPT !.inst = TRUE] \/ enr' = Failed(enr)
    BY DEF Mark
  <1>2. enr' \in Enrollments /\ enr'.box = enr.box /\ enr'.gen = enr.gen /\ enr'.master = enr.master
    BY <1>1, FailedFits, VaultParts DEF Enrollments
  <1>3. EnrFits(enr', vault, box.uid)
    BY <1>2, VaultParts, SameWrap
  <1> QED
    BY <1>2, <1>3, DrvEndsKeeps, VaultParts DEF Mark

\* A crash of a replica keeps it.
LEMMA DiesKeeps ==
    ASSUME KvInv, NEW r \in Drivers, DriverDies(r)
    PROVE  KvInv'
  <1>1. drv' = [drv EXCEPT ![r] = NoDrv] /\ UNCHANGED <<vault, box, enr, dev, dropped, keysMade, mastersMade>>
    BY DEF DriverDies
  <1>2. trips' \in Nat
    BY VaultParts DEF DriverDies, Trip
  <1>3. enr' \in Enrollments /\ EnrFits(enr', vault, box.uid)
    BY <1>1, VaultParts
  <1> QED
    BY <1>1, <1>2, <1>3, DrvEndsKeeps

--------------------------------------------------------------------------------
\* A save of the vault by a device: the other devices' and the jobs' reads of it are out of date.
\* A device whose reads are out of date has the type.
LEMMA OutdatedTask ==
    ASSUME NEW q \in DevTasks
    PROVE  /\ [q EXCEPT !.vault = FALSE] \in DevTasks /\ [q EXCEPT !.box = FALSE] \in DevTasks
           /\ [q EXCEPT !.vault = FALSE, !.box = FALSE] \in DevTasks
  BY DEF DevTasks

\* So has a run of the job.
LEMMA OutdatedRun ==
    ASSUME NEW x \in DrvTasks
    PROVE  [x EXCEPT !.vault = FALSE] \in DrvTasks
  BY DEF DrvTasks

\* What a save leaves of the others: they are where they were, with less that is up to date.
BehindTask(q, o) == q \in DevTasks /\ q.at = o.at /\ q.gen = o.gen /\ q.master = o.master /\ (q.vault => o.vault)
BehindRun(x, o) == x \in DrvTasks /\ x.at = o.at /\ x.enr = o.enr /\ (x.vault => o.vault)

\* What a save of the vault leaves of the devices.
LEMMA VaultSavedBy ==
    ASSUME KvTypeOK, NEW d \in Devices, dev' = DevSaves(d, TRUE, FALSE)
    PROVE  /\ dev' \in [Devices -> DevTasks] /\ dev'[d] = NoDev
           /\ \A c \in Devices \ {d} : BehindTask(dev'[c], dev[c]) /\ ~dev'[c].vault
  <1> DEFINE n(c) == [dev[c] EXCEPT !.vault = FALSE]
  <1>1. \A c \in Devices : dev[c] \in DevTasks
    BY DEF KvTypeOK
  <1>2. \A c \in Devices : [dev[c] EXCEPT !.vault = @ /\ ~TRUE, !.box = @ /\ ~FALSE] = n(c)
    BY <1>1 DEF DevTasks
  <1>3. \A c \in Devices : /\ n(c) \in DevTasks /\ ~n(c).vault /\ n(c).at = dev[c].at
                            /\ n(c).gen = dev[c].gen /\ n(c).master = dev[c].master
    BY <1>1, OutdatedTask DEF DevTasks
  <1>4. dev' = [c \in Devices |-> IF c = d THEN NoDev ELSE n(c)]
    BY <1>2 DEF DevSaves
  <1> HIDE DEF n
  <1> QED
    BY <1>3, <1>4, RestTypes DEF BehindTask

\* What a save of both rows leaves of them.
LEMMA BothSavedBy ==
    ASSUME KvTypeOK, NEW d \in Devices, dev' = DevSaves(d, TRUE, TRUE)
    PROVE  /\ dev' \in [Devices -> DevTasks] /\ dev'[d] = NoDev
           /\ \A c \in Devices \ {d} : BehindTask(dev'[c], dev[c]) /\ ~dev'[c].vault
  <1> DEFINE n(c) == [dev[c] EXCEPT !.vault = FALSE, !.box = FALSE]
  <1>1. \A c \in Devices : dev[c] \in DevTasks
    BY DEF KvTypeOK
  <1>2. \A c \in Devices : [dev[c] EXCEPT !.vault = @ /\ ~TRUE, !.box = @ /\ ~TRUE] = n(c)
    BY <1>1 DEF DevTasks
  <1>3. \A c \in Devices : /\ n(c) \in DevTasks /\ ~n(c).vault /\ n(c).at = dev[c].at
                            /\ n(c).gen = dev[c].gen /\ n(c).master = dev[c].master
    BY <1>1, OutdatedTask DEF DevTasks
  <1>4. dev' = [c \in Devices |-> IF c = d THEN NoDev ELSE n(c)]
    BY <1>2 DEF DevSaves
  <1> HIDE DEF n
  <1> QED
    BY <1>3, <1>4, RestTypes DEF BehindTask

\* What a save of the mailbox leaves of them.
LEMMA BoxSavedBy ==
    ASSUME KvTypeOK, NEW d \in Devices, dev' = DevSaves(d, FALSE, TRUE)
    PROVE  /\ dev' \in [Devices -> DevTasks] /\ dev'[d] = NoDev
           /\ \A c \in Devices \ {d} : BehindTask(dev'[c], dev[c])
  <1> DEFINE n(c) == [dev[c] EXCEPT !.box = FALSE]
  <1>1. \A c \in Devices : dev[c] \in DevTasks
    BY DEF KvTypeOK
  <1>2. \A c \in Devices : [dev[c] EXCEPT !.vault = @ /\ ~FALSE, !.box = @ /\ ~TRUE] = n(c)
    BY <1>1 DEF DevTasks
  <1>3. \A c \in Devices : /\ n(c) \in DevTasks /\ n(c).vault = dev[c].vault /\ n(c).at = dev[c].at
                            /\ n(c).gen = dev[c].gen /\ n(c).master = dev[c].master
    BY <1>1, OutdatedTask DEF DevTasks
  <1>4. dev' = [c \in Devices |-> IF c = d THEN NoDev ELSE n(c)]
    BY <1>2 DEF DevSaves
  <1> HIDE DEF n
  <1> QED
    BY <1>3, <1>4, RestTypes DEF BehindTask

\* What a save of the vault leaves of the runs of the job.
LEMMA RunsOutdated ==
    ASSUME KvTypeOK
    PROVE  /\ DrvOutdated(TRUE) \in [Drivers -> DrvTasks]
           /\ \A r \in Drivers : BehindRun(DrvOutdated(TRUE)[r], drv[r]) /\ ~DrvOutdated(TRUE)[r].vault
  <1> DEFINE n(r) == [drv[r] EXCEPT !.vault = FALSE]
  <1>1. \A r \in Drivers : drv[r] \in DrvTasks
    BY DEF KvTypeOK
  <1>2. \A r \in Drivers : [drv[r] EXCEPT !.vault = @ /\ ~TRUE] = n(r)
    BY <1>1 DEF DrvTasks
  <1>3. \A r \in Drivers : n(r) \in DrvTasks /\ ~n(r).vault /\ n(r).at = drv[r].at /\ n(r).enr = drv[r].enr
    BY <1>1, OutdatedRun DEF DrvTasks
  <1>4. DrvOutdated(TRUE) = [r \in Drivers |-> n(r)]
    BY <1>2 DEF DrvOutdated
  <1> HIDE DEF n
  <1> QED
    BY <1>3, <1>4 DEF BehindRun

\* Whoever is behind fits as before, in a vault of the same generation and master key that keeps its keys ...
LEMMA StillFits ==
    ASSUME NEW v, NEW w, w.gen = v.gen, Masters(v) \subseteq Masters(w), NEW u, NEW lost, NEW lost1,
           Sealed(v.keys) \cup lost \subseteq Sealed(w.keys) \cup lost1
    PROVE  /\ \A q, o : DevFits(o, v) /\ BehindTask(q, o) => DevFits(q, w)
           /\ \A e : EnrFits(e, v, u) => EnrFits(e, w, u)
           /\ \A x, o : DrvFits(o, v, u, lost) /\ BehindRun(x, o) => DrvFits(x, w, u, lost1)
  <1>1. \A e : EnrFits(e, v, u) => EnrFits(e, w, u)
    BY DEF EnrFits
  <1>2. \A q, o : DevFits(o, v) /\ BehindTask(q, o) => DevFits(q, w)
    BY DEF DevFits, BehindTask
  <1>3. \A x, o : DrvFits(o, v, u, lost) /\ BehindRun(x, o) => DrvFits(x, w, u, lost1)
    BY <1>1 DEF DrvFits, BehindRun
  <1> QED
    BY <1>1, <1>2, <1>3

\* ... and in one of a later generation, whatever its master key, since its reads of the vault are out of date.
LEMMA LeftBehind ==
    ASSUME NEW v \in VaultRows, NEW w \in VaultRows, w.gen = v.gen + 1, NEW u, NEW lost, NEW lost1,
           Sealed(v.keys) \cup lost \subseteq Sealed(w.keys) \cup lost1
    PROVE  /\ \A q \in DevTasks, o \in DevTasks : DevFits(o, v) /\ BehindTask(q, o) /\ ~q.vault => DevFits(q, w)
           /\ \A e \in Enrollments : EnrFits(e, v, u) => EnrFits(e, w, u)
           /\ \A x \in DrvTasks, o \in DrvTasks : DrvFits(o, v, u, lost) /\ BehindRun(x, o) /\ ~x.vault => DrvFits(x, w,
               u, lost1)
  <1>0. v.gen \in Nat
    BY DEF VaultRows
  <1>1. \A e \in Enrollments : EnrFits(e, v, u) => EnrFits(e, w, u)
    BY <1>0 DEF EnrFits, Enrollments
  <1>2. \A q \in DevTasks, o \in DevTasks : DevFits(o, v) /\ BehindTask(q, o) /\ ~q.vault => DevFits(q, w)
    BY <1>0 DEF DevFits, BehindTask, DevTasks
  <1>a. \A x \in DrvTasks : x.enr \in Enrollments
    BY DEF DrvTasks
  <1>3. \A x \in DrvTasks, o \in DrvTasks : DrvFits(o, v, u, lost) /\ BehindRun(x, o) /\ ~x.vault => DrvFits(x, w, u, lost1)
    BY <1>1, <1>a DEF DrvFits, BehindRun
  <1> QED
    BY <1>1, <1>2, <1>3

\* A step that saves the vault within its generation, or the mailbox, or both.
LEMMA SavesKeep ==
    ASSUME KvInv, vault' \in VaultRows, box' \in BoxRows, vault'.gen = vault.gen, box'.uid = box.uid,
           OneMaster(vault'), Unlockable(vault'), Masters(vault) \subseteq Masters(vault'),
               Sealed(vault.keys) \subseteq Sealed(vault'.keys),
           keysMade' \in Nat, UNCHANGED <<enr, mastersMade, dropped, trips>>,
           dev' \in [Devices -> DevTasks], \A c \in Devices : dev'[c] = NoDev \/ BehindTask(dev'[c], dev[c]),
           drv' \in [Drivers -> DrvTasks],
           \A r \in Drivers : BehindRun(drv'[r], drv[r]) \/ DrvFits(drv'[r], vault', box.uid, dropped),
           AllHeld(box', vault', dropped), BoxHolds(box')
    PROVE  KvInv'
  <1>1. KvTypeOK'
    BY DEF KvInv, KvTypeOK
  <1>2. \A c \in Devices : DevFits(dev'[c], vault')
    BY StillFits, RestFits, VaultParts
  <1>3. EnrFits(enr', vault', box'.uid)
    BY StillFits, VaultParts
  <1>4. \A r \in Drivers : DrvFits(drv'[r], vault', box'.uid, dropped')
    BY StillFits, VaultParts
  <1> QED
    BY <1>1, <1>2, <1>3, <1>4 DEF KvInv

\* recordExport() keeps it.
LEMMA ExportKeeps ==
    ASSUME KvInv, NEW d \in Devices, RecordExport(d)
    PROVE  KvInv'
  <1>1. dev' \in [Devices -> DevTasks] /\ \A c \in Devices : dev'[c] = NoDev \/ BehindTask(dev'[c], dev[c])
    BY BoxSavedBy DEF RecordExport, KvInv
  <1>2. \A c \in Devices : DevFits(dev'[c], vault)
    BY <1>1, StillFits, RestFits, VaultParts
  <1>3. KvTypeOK'
    BY <1>1 DEF RecordExport, KvInv, KvTypeOK
  <1> QED
    BY <1>2, <1>3, LeavesAlone DEF RecordExport, KvInv

\* A key is put among the others of its use.
LEMMA Superseding ==
    ASSUME NEW U, NEW S \in SUBSET KeyEntries(U), NEW k \in Nat, NEW use \in U, OneLive(S)
    PROVE  /\ Supersede(S, k, use) \in SUBSET KeyEntries(U) /\ OneLive(Supersede(S, k, use))
           /\ KeysOf(Supersede(S, k, use)) = KeysOf(S) \cup {k}
  <1> DEFINE n(x) == [x EXCEPT !.live = @ /\ x.use # use]
             new == [k |-> k, use |-> use, live |-> TRUE]
             others == {y \in S : y.k # k}
  <1>1. \A x \in S : n(x) \in KeyEntries(U) /\ n(x).k = x.k /\ n(x).use = x.use
    BY DEF KeyEntries
  <1>2. \A x \in S : n(x).live => x.use # use /\ x.live /\ n(x) = x
    BY DEF KeyEntries
  <1>3. Supersede(S, k, use) = {n(x) : x \in others} \cup {new}
    BY DEF Supersede
  <1>4. new \in KeyEntries(U) /\ new.k = k /\ new.use = use
    BY DEF KeyEntries
  <1> HIDE DEF n, new
  <1>5. Supersede(S, k, use) \in SUBSET KeyEntries(U)
    BY <1>1, <1>3, <1>4
  <1>6. OneLive(Supersede(S, k, use))
    BY <1>1, <1>2, <1>3, <1>4 DEF OneLive
  <1>7. KeysOf(Supersede(S, k, use)) = KeysOf(S) \cup {k}
    BY <1>1, <1>3, <1>4 DEF KeysOf
  <1> QED
    BY <1>5, <1>6, <1>7

\* The keys of two sets of entries.
LEMMA KeysOfBoth ==
    ASSUME NEW S, NEW T
    PROVE  KeysOf(S \cup T) = KeysOf(S) \cup KeysOf(T)
  BY DEF KeysOf

\* A vault that gets one more key, or one more way in, under its own master key, or its first.
LEMMA OneMoreKey ==
    ASSUME NEW v \in VaultRows, NEW w, NEW m \in Nat, OneMaster(v), Unlockable(v),
           m \in Masters(v) \/ (v.wraps = {} /\ v.keys = {}),
           v.wraps \subseteq w.wraps, v.keys \subseteq w.keys,
           \A p \in w.wraps \ v.wraps : p[2] = m, \A p \in w.keys \ v.keys : p[2] = m,
           v.wraps = {} => Unlocks(w.wraps) # {}
    PROVE  OneMaster(w) /\ Unlockable(w) /\ Masters(v) \subseteq Masters(w) /\ Sealed(v.keys) \subseteq Sealed(w.keys)
  <1>1. Masters(v) \subseteq Masters(w) /\ Sealed(v.keys) \subseteq Sealed(w.keys)
    BY DEF Masters, Sealed
  <1>2. \A n \in Masters(w) : n \in Masters(v) \/ n = m
    BY DEF Masters
  <1>3. m \in Masters(v) \/ Masters(v) = {}
    BY MastersAreNat
  <1>4. OneMaster(w)
    BY <1>2, <1>3 DEF OneMaster
  <1>5. Unlockable(w)
    BY DEF Unlockable, Unlocks
  <1> QED
    BY <1>1, <1>4, <1>5

\* enrollKey() keeps it: in a vault that is set up the key is wrapped under the vault's master key, and in one that is not
\* it comes with the first wraps.
LEMMA EnrollKeeps ==
    ASSUME KvInv, NEW d \in Devices, NEW use \in {"encrypt", "zero"}, Enroll(d, use)
    PROVE  KvInv'
  <1> DEFINE m == dev[d].master
  <1>1. CASE DevEnds(d) /\ UNCHANGED <<box, vault, keysMade>>
    BY <1>1, DevEndsKeeps DEF Enroll
  <1>2. CASE /\ WrapsAccepted(d) /\ NewKey /\ drv' = DrvOutdated(TRUE) /\ dev' = DevSaves(d, TRUE, TRUE)
             /\ box' = IF use = "zero" THEN [box EXCEPT !.zero = Supersede(@, keysMade', use)]
                 ELSE [box EXCEPT !.keys = Supersede(@, keysMade', use)]
             /\ \E me \in Methods : vault' =
                 [vault EXCEPT !.there = TRUE, !.keys = @ \cup {<<keysMade', m>>}, !.wraps = IF SetUp THEN @ ELSE {<<me,
                     m>>}]
    <2>1. /\ vault \in VaultRows /\ box \in BoxRows /\ keysMade' \in Nat /\ m \in Nat
          /\ OneMaster(vault) /\ Unlockable(vault) /\ AllHeld(box, vault, dropped) /\ BoxHolds(box)
      BY <1>2, VaultParts DEF NewKey, DevTasks, KvInv
    <2>2. PICK me \in Methods : vault' =
                 [vault EXCEPT !.there = TRUE, !.keys = @ \cup {<<keysMade', m>>}, !.wraps = IF SetUp THEN @ ELSE {<<me,
                     m>>}]
      BY <1>2
    <2>3. /\ vault' \in VaultRows /\ vault'.gen = vault.gen /\ vault'.keys = vault.keys \cup {<<keysMade', m>>}
          /\ vault'.wraps = IF SetUp THEN vault.wraps ELSE {<<me, m>>}
      <3> DEFINE W == IF SetUp THEN vault.wraps ELSE {<<me, m>>}
                 K == vault.keys \cup {<<keysMade', m>>}
      <3>1. W \in SUBSET ((Methods \cup {"escrow"}) \X Nat)
        BY <2>1 DEF VaultRows
      <3>2. K \in SUBSET (Nat \X Nat)
        BY <2>1 DEF VaultRows
      <3> HIDE DEF W, K
      <3>3. vault' = [vault EXCEPT !.there = TRUE, !.keys = K, !.wraps = W]
        BY <2>2 DEF W, K
      <3>4. vault' \in VaultRows /\ vault'.gen = vault.gen /\ vault'.keys = K /\ vault'.wraps = W
        BY <2>1, <3>1, <3>2, <3>3 DEF VaultRows
      <3> QED
        BY <3>4 DEF W, K
    <2>4. m \in Masters(vault) \/ ~SetUp
      BY <1>2 DEF WrapsAccepted
    <2>5. /\ me # "escrow" /\ <<me, m>>[1] = me /\ <<me, m>>[2] = m /\ <<keysMade', m>>[2] = m
          /\ <<keysMade', m>>[1] = keysMade'
      BY VaultAssumption
    <2>6. Unlocks({<<me, m>>}) # {}
      BY <2>5 DEF Unlocks
    <2>7. Unlocks(vault.wraps) \subseteq vault.wraps /\ (SetUp => Unlocks(vault.wraps) # {})
      BY <2>1 DEF Unlocks, Unlockable, SetUp
    <2>8. /\ OneMaster(vault') /\ Unlockable(vault') /\ Masters(vault) \subseteq Masters(vault')
          /\ Sealed(vault.keys) \subseteq Sealed(vault'.keys)
      <3>1. vault.wraps \subseteq vault'.wraps /\ vault.keys \subseteq vault'.keys
        BY <2>3 DEF SetUp
      <3>2. (\A p \in vault'.wraps \ vault.wraps : p[2] = m) /\ (\A p \in vault'.keys \ vault.keys : p[2] = m)
        BY <2>3, <2>5
      <3>3. vault.wraps = {} => Unlocks(vault'.wraps) # {}
        BY <2>3, <2>6, <2>7
      <3>4. m \in Masters(vault) \/ (vault.wraps = {} /\ vault.keys = {})
        BY <2>4 DEF SetUp
      <3> QED
        BY <2>1, <3>1, <3>2, <3>3, <3>4, OneMoreKey
    <2>9. Sealed(vault'.keys) = Sealed(vault.keys) \cup {keysMade'}
      BY <2>3, <2>5 DEF Sealed
    <2>10. /\ box' \in BoxRows /\ box'.uid = box.uid /\ BoxHolds(box')
           /\ KeysOf(box'.keys \cup box'.zero) = KeysOf(box.keys \cup box.zero) \cup {keysMade'}
      <3>0. /\ box.keys \in SUBSET KeyEntries({"encrypt", "sign"})
            /\ box.zero \in SUBSET KeyEntries({"zero"}) /\ OneLive(box.keys) /\ OneLive(box.zero)
        BY <2>1 DEF BoxRows, BoxHolds
      <3>1. CASE use = "zero"
        <4> DEFINE n == Supersede(box.zero, keysMade', "zero")
        <4>1. n \in SUBSET KeyEntries({"zero"}) /\ OneLive(n) /\ KeysOf(n) = KeysOf(box.zero) \cup {keysMade'}
          <5>1. "zero" \in {"zero"}
            OBVIOUS
          <5> QED
            BY <2>1, <3>0, <5>1, Superseding
        <4>2. box' = [box EXCEPT !.zero = n]
          BY <1>2, <3>1
        <4> HIDE DEF n
        <4>3. box' \in BoxRows /\ box'.uid = box.uid /\ box'.keys = box.keys /\ box'.zero = n
          BY <2>1, <4>1, <4>2 DEF BoxRows
        <4>4. BoxHolds(box')
          BY <3>0, <4>1, <4>3 DEF BoxHolds
        <4>5. KeysOf(box'.keys \cup box'.zero) = KeysOf(box'.keys) \cup KeysOf(box'.zero)
          BY KeysOfBoth
        <4>6. KeysOf(box.keys \cup box.zero) = KeysOf(box.keys) \cup KeysOf(box.zero)
          BY KeysOfBoth
        <4>7. KeysOf(box'.keys \cup box'.zero) = KeysOf(box.keys \cup box.zero) \cup {keysMade'}
          BY <4>1, <4>3, <4>5, <4>6
        <4> QED
          BY <4>3, <4>4, <4>7
      <3>2. CASE use = "encrypt"
        <4> DEFINE n == Supersede(box.keys, keysMade', use)
        <4>1. /\ n \in SUBSET KeyEntries({"encrypt", "sign"}) /\ OneLive(n)
              /\ KeysOf(n) = KeysOf(box.keys) \cup {keysMade'}
          <5>1. use \in {"encrypt", "sign"}
            BY <3>2
          <5> QED
            BY <2>1, <3>0, <5>1, Superseding
        <4>2. box' = [box EXCEPT !.keys = n]
          BY <1>2, <3>2
        <4> HIDE DEF n
        <4>3. box' \in BoxRows /\ box'.uid = box.uid /\ box'.zero = box.zero /\ box'.keys = n
          BY <2>1, <4>1, <4>2 DEF BoxRows
        <4>4. BoxHolds(box')
          BY <3>0, <4>1, <4>3 DEF BoxHolds
        <4>5. KeysOf(box'.keys \cup box'.zero) = KeysOf(box'.keys) \cup KeysOf(box'.zero)
          BY KeysOfBoth
        <4>6. KeysOf(box.keys \cup box.zero) = KeysOf(box.keys) \cup KeysOf(box.zero)
          BY KeysOfBoth
        <4>7. KeysOf(box'.keys \cup box'.zero) = KeysOf(box.keys \cup box.zero) \cup {keysMade'}
          BY <4>1, <4>3, <4>5, <4>6
        <4> QED
          BY <4>3, <4>4, <4>7
      <3> QED
        BY <3>1, <3>2
    <2>11. AllHeld(box', vault', dropped)
      BY <2>1, <2>9, <2>10 DEF AllHeld
    <2>12. dev' \in [Devices -> DevTasks] /\ \A c \in Devices : dev'[c] = NoDev \/ BehindTask(dev'[c], dev[c])
      BY <1>2, BothSavedBy DEF KvInv
    <2>13. drv' \in [Drivers -> DrvTasks] /\ \A r \in Drivers : BehindRun(drv'[r], drv[r])
      BY <1>2, RunsOutdated DEF KvInv
    <2>14. UNCHANGED <<enr, mastersMade, dropped, trips>>
      BY DEF Enroll
    <2> QED
      BY <2>1, <2>3, <2>8, <2>10, <2>11, <2>12, <2>13, <2>14, SavesKeep
  <1> QED
    BY <1>1, <1>2 DEF Enroll

\* addMasterKeyWrap() keeps it.
LEMMA AddWrapKeeps ==
    ASSUME KvInv, NEW d \in Devices, NEW me \in Methods \cup {"escrow"}, AddWrap(d, me)
    PROVE  KvInv'
  <1> DEFINE m == dev[d].master
  <1>1. CASE DevEnds(d) /\ UNCHANGED vault
    BY <1>1, DevEndsKeeps DEF AddWrap
  <1>2. CASE /\ dev[d].vault /\ vault' = [vault EXCEPT !.wraps = @ \cup {<<me, m>>}]
             /\ dev' = DevSaves(d, TRUE, FALSE) /\ drv' = DrvOutdated(TRUE)
    <2>1. /\ vault \in VaultRows /\ box \in BoxRows /\ keysMade \in Nat /\ m \in Nat
          /\ OneMaster(vault) /\ Unlockable(vault) /\ AllHeld(box, vault, dropped) /\ BoxHolds(box)
          /\ UNCHANGED <<box, enr, keysMade, mastersMade, dropped, trips>>
      BY VaultParts DEF DevTasks, KvInv, AddWrap
    <2>2. m \in Masters(vault)
      BY <1>2, VaultParts DEF DevFits, Unlocked, DeviceStages, AddWrap
    <2>3. /\ vault' \in VaultRows /\ vault'.gen = vault.gen /\ vault'.keys = vault.keys
          /\ vault'.wraps = vault.wraps \cup {<<me, m>>}
      BY <1>2, <2>1 DEF VaultRows
    <2>4. Unlocks(vault.wraps) # {} /\ Unlocks(vault.wraps) \subseteq vault.wraps
      BY <2>1, <2>2, MastersAreNat DEF Unlockable, Unlocks
    <2>5. \A p \in vault'.wraps \ vault.wraps : p[2] = m
      BY <2>3
    <2>6. /\ OneMaster(vault') /\ Unlockable(vault') /\ Masters(vault) \subseteq Masters(vault')
          /\ Sealed(vault.keys) \subseteq Sealed(vault'.keys)
      BY <2>1, <2>2, <2>3, <2>4, <2>5, OneMoreKey
    <2>7. dev' \in [Devices -> DevTasks] /\ \A c \in Devices : dev'[c] = NoDev \/ BehindTask(dev'[c], dev[c])
      BY <1>2, VaultSavedBy DEF KvInv
    <2>8. drv' \in [Drivers -> DrvTasks] /\ \A r \in Drivers : BehindRun(drv'[r], drv[r])
      BY <1>2, RunsOutdated DEF KvInv
    <2>9. AllHeld(box', vault', dropped) /\ BoxHolds(box')
      BY <2>1, <2>6 DEF AllHeld
    <2> QED
      BY <2>1, <2>3, <2>6, <2>7, <2>8, <2>9, SavesKeep
  <1> QED
    BY <1>1, <1>2 DEF AddWrap

\* removeMasterKeyWrap() keeps it: a way in stays.
LEMMA RemoveWrapKeeps ==
    ASSUME KvInv, NEW d \in Devices, NEW me \in Methods \cup {"escrow"}, RemoveWrap(d, me)
    PROVE  KvInv'
  <1> DEFINE rest == {w \in vault.wraps : w[1] # me}
  <1>1. CASE DevEnds(d) /\ UNCHANGED vault
    BY <1>1, DevEndsKeeps DEF RemoveWrap
  <1>2. CASE /\ Unlocks(rest) # {} /\ vault' = [vault EXCEPT !.wraps = rest]
             /\ dev' = DevSaves(d, TRUE, FALSE) /\ drv' = DrvOutdated(TRUE)
    <2>1. /\ vault \in VaultRows /\ box \in BoxRows /\ keysMade \in Nat
          /\ OneMaster(vault) /\ AllHeld(box, vault, dropped) /\ BoxHolds(box)
          /\ UNCHANGED <<box, enr, keysMade, mastersMade, dropped, trips>>
      BY VaultParts DEF KvInv, RemoveWrap
    <2>2. rest \subseteq vault.wraps
      OBVIOUS
    <2> HIDE DEF rest
    <2>3. vault' \in VaultRows /\ vault'.gen = vault.gen /\ vault'.keys = vault.keys /\ vault'.wraps = rest
      BY <1>2, <2>1, <2>2 DEF VaultRows
    <2>4. PICK w \in rest : TRUE
      BY <1>2 DEF Unlocks
    <2>5. w[2] \in Masters(vault) /\ w[2] \in Masters(vault') /\ Masters(vault') \subseteq Masters(vault)
      BY <2>2, <2>3, <2>4 DEF Masters
    <2>6. OneMaster(vault') /\ Masters(vault) \subseteq Masters(vault')
      BY <2>1, <2>5 DEF OneMaster
    <2>7. Unlockable(vault') /\ Sealed(vault.keys) \subseteq Sealed(vault'.keys)
      BY <1>2, <2>3 DEF Unlockable
    <2>8. dev' \in [Devices -> DevTasks] /\ \A c \in Devices : dev'[c] = NoDev \/ BehindTask(dev'[c], dev[c])
      BY <1>2, VaultSavedBy DEF KvInv
    <2>9. drv' \in [Drivers -> DrvTasks] /\ \A r \in Drivers : BehindRun(drv'[r], drv[r])
      BY <1>2, RunsOutdated DEF KvInv
    <2>10. AllHeld(box', vault', dropped) /\ BoxHolds(box')
      BY <2>1, <2>3 DEF AllHeld
    <2> QED
      BY <2>1, <2>3, <2>6, <2>7, <2>8, <2>9, <2>10, SavesKeep
  <1> QED
    BY <1>1, <1>2 DEF RemoveWrap

\* The job putting the key into the vault keeps it: the vault it read is of the key's generation.
LEMMA InstallKeeps ==
    ASSUME KvInv, NEW r \in Drivers, InstallKey(r)
    PROVE  KvInv'
  <1> DEFINE e == drv[r].enr
  <1>1. CASE drv' = [drv EXCEPT ![r] = NoDrv] /\ UNCHANGED <<vault, dev>>
    BY <1>1, DrvEndsKeeps, VaultParts DEF InstallKey
  <1>2. CASE /\ drv[r].vault /\ vault' = [vault EXCEPT !.there = TRUE, !.keys = @ \cup {<<e.key, e.master>>}]
             /\ drv' = [DrvOutdated(TRUE) EXCEPT ![r].at = "publish"]
             /\ dev' = [d \in Devices |-> [dev[d] EXCEPT !.vault = FALSE]]
    <2>1. /\ vault \in VaultRows /\ box \in BoxRows /\ keysMade \in Nat /\ e \in Enrollments /\ drv[r] \in DrvTasks
          /\ OneMaster(vault) /\ Unlockable(vault) /\ AllHeld(box, vault, dropped) /\ BoxHolds(box)
          /\ UNCHANGED <<box, enr, keysMade, mastersMade, dropped, trips>>
      BY VaultParts DEF KvInv, InstallKey
    <2>2. e.master \in Masters(vault) /\ e.key \in Nat /\ e.master \in Nat /\ EnrFits(e, vault, box.uid)
      BY <1>2, <2>1, VaultParts DEF DrvFits, EnrFits, Enrollments, InstallKey
    <2>3. /\ vault' \in VaultRows /\ vault'.gen = vault.gen /\ vault'.wraps = vault.wraps
          /\ vault'.keys = vault.keys \cup {<<e.key, e.master>>}
      <3> DEFINE K == vault.keys \cup {<<e.key, e.master>>}
      <3>1. K \in SUBSET (Nat \X Nat)
        BY <2>1, <2>2 DEF VaultRows
      <3> HIDE DEF K
      <3>2. vault' = [vault EXCEPT !.there = TRUE, !.keys = K]
        BY <1>2 DEF K
      <3>3. vault' \in VaultRows /\ vault'.gen = vault.gen /\ vault'.keys = K /\ vault'.wraps = vault.wraps
        BY <2>1, <3>1, <3>2 DEF VaultRows
      <3> QED
        BY <3>3 DEF K
    <2>4. Unlocks(vault.wraps) # {} /\ Unlocks(vault.wraps) \subseteq vault.wraps
      BY <2>1, <2>2, MastersAreNat DEF Unlockable, Unlocks
    <2>5. \A p \in vault'.keys \ vault.keys : p[2] = e.master
      BY <2>3
    <2>6. /\ OneMaster(vault') /\ Unlockable(vault') /\ Masters(vault) \subseteq Masters(vault')
          /\ Sealed(vault.keys) \subseteq Sealed(vault'.keys)
      BY <2>1, <2>2, <2>3, <2>4, <2>5, OneMoreKey
    <2>7. e.key \in Sealed(vault'.keys)
      BY <2>3 DEF Sealed
    <2>8. dev' \in [Devices -> DevTasks] /\ \A c \in Devices : dev'[c] = NoDev \/ BehindTask(dev'[c], dev[c])
      <3>1. \A d \in Devices : dev[d] \in DevTasks
        BY VaultParts
      <3>2. \A d \in Devices : /\ [dev[d] EXCEPT !.vault = FALSE] \in DevTasks
                               /\ BehindTask([dev[d] EXCEPT !.vault = FALSE], dev[d])
        BY <3>1, OutdatedTask DEF BehindTask, DevTasks
      <3> QED
        BY <1>2, <3>2
    <2> DEFINE O == DrvOutdated(TRUE)
               x == [O[r] EXCEPT !.at = "publish"]
    <2>9. O \in [Drivers -> DrvTasks] /\ \A p \in Drivers : BehindRun(O[p], drv[p])
      BY RunsOutdated DEF KvInv
    <2> HIDE DEF O
    <2>10. x \in DrvTasks /\ x.at = "publish" /\ x.enr = e
      BY <2>9 DEF BehindRun, DrvTasks, DrvStages
    <2>11. drv' = [O EXCEPT ![r] = x]
      BY <1>2 DEF O
    <2> HIDE DEF x
    <2>12. EnrFits(e, vault', box.uid)
      BY <2>2, <2>3, <2>6 DEF EnrFits
    <2>13. DrvFits(x, vault', box.uid, dropped)
      BY <2>7, <2>10, <2>12 DEF DrvFits
    <2>14. drv' \in [Drivers -> DrvTasks] /\ \A p \in Drivers : BehindRun(drv'[p], drv[p]) \/ DrvFits(drv'[p], vault',
               box.uid, dropped)
      BY <2>9, <2>10, <2>11, <2>13
    <2>15. AllHeld(box', vault', dropped) /\ BoxHolds(box')
      BY <2>1, <2>6 DEF AllHeld
    <2> QED
      BY <2>1, <2>3, <2>6, <2>8, <2>14, <2>15, SavesKeep
  <1> QED
    BY <1>1, <1>2 DEF InstallKey, Halves

\* The job publishing the key keeps it: the vault has it.
LEMMA PublishKeeps ==
    ASSUME KvInv, NEW r \in Drivers, PublishKey(r)
    PROVE  KvInv'
  <1> DEFINE e == drv[r].enr
  <1>1. CASE drv' = [drv EXCEPT ![r] = NoDrv] /\ UNCHANGED <<box, dev>>
    BY <1>1, DrvEndsKeeps, VaultParts DEF PublishKey
  <1>2. CASE /\ e.box = box.uid /\ box' = [box EXCEPT !.keys = Supersede(@, e.key, "sign")]
             /\ dev' = [d \in Devices |-> [dev[d] EXCEPT !.box = FALSE]] /\ drv' = [drv EXCEPT ![r].at = "mark"]
    <2>1. /\ vault \in VaultRows /\ box \in BoxRows /\ keysMade \in Nat /\ e \in Enrollments /\ drv[r] \in DrvTasks
          /\ OneMaster(vault) /\ Unlockable(vault) /\ AllHeld(box, vault, dropped) /\ BoxHolds(box)
          /\ UNCHANGED <<vault, enr, keysMade, mastersMade, dropped, trips>> /\ DrvFits(drv[r], vault, box.uid, dropped)
      BY VaultParts DEF KvInv, PublishKey
    <2>2. e.key \in Sealed(vault.keys) \cup dropped /\ e.key \in Nat
      BY <1>2, <2>1 DEF DrvFits, Enrollments, PublishKey
    <2> DEFINE n == Supersede(box.keys, e.key, "sign")
    <2>3. /\ box.keys \in SUBSET KeyEntries({"encrypt", "sign"}) /\ OneLive(box.keys) /\ OneLive(box.zero)
      BY <2>1 DEF BoxRows, BoxHolds
    <2>4. n \in SUBSET KeyEntries({"encrypt", "sign"}) /\ OneLive(n) /\ KeysOf(n) = KeysOf(box.keys) \cup {e.key}
      <3>1. "sign" \in {"encrypt", "sign"}
        OBVIOUS
      <3> QED
        BY <2>2, <2>3, <3>1, Superseding
    <2> HIDE DEF n
    <2>5. box' = [box EXCEPT !.keys = n]
      BY <1>2 DEF n
    <2>6. box' \in BoxRows /\ box'.uid = box.uid /\ box'.zero = box.zero /\ box'.keys = n
      BY <2>1, <2>4, <2>5 DEF BoxRows
    <2>7. BoxHolds(box') /\ AllHeld(box', vault', dropped)
      <3>1. BoxHolds(box')
        BY <2>3, <2>4, <2>6 DEF BoxHolds
      <3>2. KeysOf(box'.keys \cup box'.zero) = KeysOf(box'.keys) \cup KeysOf(box'.zero)
        BY KeysOfBoth
      <3>3. KeysOf(box.keys \cup box.zero) = KeysOf(box.keys) \cup KeysOf(box.zero)
        BY KeysOfBoth
      <3>4. AllHeld(box', vault', dropped)
        BY <2>1, <2>2, <2>4, <2>6, <3>2, <3>3 DEF AllHeld
      <3> QED
        BY <3>1, <3>4
    <2>8. dev' \in [Devices -> DevTasks] /\ \A c \in Devices : dev'[c] = NoDev \/ BehindTask(dev'[c], dev[c])
      <3>1. \A d \in Devices : dev[d] \in DevTasks
        BY VaultParts
      <3>2. \A d \in Devices : /\ [dev[d] EXCEPT !.box = FALSE] \in DevTasks
                               /\ BehindTask([dev[d] EXCEPT !.box = FALSE], dev[d])
        BY <3>1, OutdatedTask DEF BehindTask, DevTasks
      <3> QED
        BY <1>2, <3>2
    <2> DEFINE x == [drv[r] EXCEPT !.at = "mark"]
    <2>9. x \in DrvTasks /\ x.at = "mark" /\ x.enr = e
      BY <2>1 DEF DrvTasks, DrvStages
    <2>10. drv' = [drv EXCEPT ![r] = x]
      BY <1>2
    <2> HIDE DEF x
    <2>11. DrvFits(x, vault', box.uid, dropped)
      BY <2>1, <2>9 DEF DrvFits
    <2>12. drv' \in [Drivers -> DrvTasks] /\ \A p \in Drivers : BehindRun(drv'[p], drv[p]) \/ DrvFits(drv'[p], vault',
               box.uid, dropped)
      <3>1. \A p \in Drivers : drv[p] \in DrvTasks
        BY VaultParts
      <3>2. drv' \in [Drivers -> DrvTasks] /\ \A p \in Drivers : drv'[p] = IF p = r THEN x ELSE drv[p]
        BY <2>9, <2>10, <3>1 DEF KvInv, KvTypeOK
      <3> QED
        BY <2>11, <3>1, <3>2 DEF BehindRun
    <2> QED
      BY <2>1, <2>6, <2>7, <2>8, <2>12, SavesKeep
  <1> QED
    BY <1>1, <1>2 DEF PublishKey, Halves

\* A vault under a new master key, of a later generation: whoever read the old one is behind.
LEMMA RekeyKeeps ==
    ASSUME KvInv, NEW d \in Devices, NEW W \in SUBSET (Methods \cup {"escrow"}), Rekey(d, W)
    PROVE  KvInv'
  <1>1. CASE DevEnds(d) /\ UNCHANGED <<vault, box, mastersMade, dropped>>
    BY <1>1, DevEndsKeeps DEF Rekey
  <1>2. CASE /\ mastersMade' = mastersMade + 1
             /\ vault' = [there |-> TRUE, gen |-> vault.gen + 1, wraps |-> W \X {mastersMade'},
                 keys |-> dev[d].held \X {mastersMade'}]
             /\ \E gone \in {0} \cup dev[d].pubs :
                 box' = [box EXCEPT !.keys = {[x EXCEPT !.live = @ /\ x.k # gone] : x \in {y \in @ : y.k \in dev[d].pubs}}]
             /\ dropped' = dropped \cup (Sealed(vault.keys) \ dev[d].held)
             /\ dev' = DevSaves(d, TRUE, TRUE) /\ drv' = DrvOutdated(TRUE)
    <2> DEFINE held == dev[d].held
               m == mastersMade'
    <2>1. /\ vault \in VaultRows /\ vault.gen \in Nat /\ box \in BoxRows /\ box.uid \in {1, 2}
          /\ keysMade \in Nat /\ m \in Nat
          /\ held \subseteq Nat /\ UNCHANGED <<enr, keysMade, trips>> /\ W \ {"escrow"} # {}
          /\ AllHeld(box, vault, dropped) /\ BoxHolds(box) /\ Sealed(vault.keys) \subseteq Nat /\ dropped \subseteq Nat
      BY <1>2, VaultParts, MastersAreNat DEF KvInv, KvTypeOK, Rekey, DevTasks
    <2>2. vault' \in VaultRows /\ vault'.gen = vault.gen + 1 /\ vault'.wraps = W \X {m} /\ vault'.keys = held \X {m}
      BY <1>2, <2>1 DEF VaultRows
    <2>3. Sealed(vault'.keys) = held
      <3>1. \A k \in held : <<k, m>> \in vault'.keys /\ <<k, m>>[1] = k
        BY <2>2
      <3>2. \A p \in vault'.keys : p[1] \in held
        BY <2>2
      <3> QED
        BY <3>1, <3>2 DEF Sealed
    <2>4. \A n \in Masters(vault') : n = m
      BY <2>2 DEF Masters
    <2>5. OneMaster(vault')
      BY <2>4 DEF OneMaster
    <2>6. Unlocks(vault'.wraps) # {}
      <3>1. PICK w \in W : w # "escrow"
        BY <2>1
      <3>2. <<w, m>> \in vault'.wraps /\ <<w, m>>[1] = w
        BY <2>2, <3>1
      <3> QED
        BY <3>1, <3>2 DEF Unlocks
    <2>7. Sealed(vault.keys) \cup dropped \subseteq Sealed(vault'.keys) \cup dropped'
      BY <1>2, <2>3
    <2>8. PICK gone : box' = [box EXCEPT !.keys = {[x EXCEPT !.live = @ /\ x.k # gone] : x \in {y \in box.keys :
              y.k \in dev[d].pubs}}]
      BY <1>2
    <2> DEFINE n(x) == [x EXCEPT !.live = @ /\ x.k # gone]
               S == {n(x) : x \in {y \in box.keys : y.k \in dev[d].pubs}}
    <2>9. /\ box.keys \in SUBSET KeyEntries({"encrypt", "sign"}) /\ OneLive(box.keys) /\ OneLive(box.zero)
      BY <2>1 DEF BoxRows, BoxHolds
    <2>10. \A x \in box.keys : /\ n(x) \in KeyEntries({"encrypt", "sign"}) /\ n(x).k = x.k /\ n(x).use = x.use
                               /\ (n(x).live => x.live /\ n(x) = x)
      BY <2>9 DEF KeyEntries
    <2>11. S \subseteq KeyEntries({"encrypt", "sign"}) /\ OneLive(S) /\ KeysOf(S) \subseteq KeysOf(box.keys)
      <3> HIDE DEF n
      <3> QED
        BY <2>9, <2>10 DEF OneLive, KeysOf
    <2>12. box' = [box EXCEPT !.keys = S]
      BY <2>8
    <2> HIDE DEF S
    <2>13. box' \in BoxRows /\ box'.uid = box.uid /\ box'.zero = box.zero /\ box'.keys = S
      BY <2>1, <2>11, <2>12 DEF BoxRows
    <2>14. BoxHolds(box') /\ AllHeld(box', vault', dropped')
      <3>1. BoxHolds(box')
        BY <2>9, <2>11, <2>13 DEF BoxHolds
      <3>2. KeysOf(box'.keys \cup box'.zero) = KeysOf(box'.keys) \cup KeysOf(box'.zero)
        BY KeysOfBoth
      <3>3. KeysOf(box.keys \cup box.zero) = KeysOf(box.keys) \cup KeysOf(box.zero)
        BY KeysOfBoth
      <3>4. AllHeld(box', vault', dropped')
        BY <2>1, <2>7, <2>11, <2>13, <3>2, <3>3 DEF AllHeld
      <3> QED
        BY <3>1, <3>4
    <2>15. dev' \in [Devices -> DevTasks] /\ dev'[d] = NoDev /\ \A c \in Devices \ {d} : BehindTask(dev'[c],
               dev[c]) /\ ~dev'[c].vault
      BY <1>2, BothSavedBy DEF KvInv
    <2>16. drv' \in [Drivers -> DrvTasks] /\ \A r \in Drivers : BehindRun(drv'[r], drv[r]) /\ ~drv'[r].vault
      BY <1>2, RunsOutdated DEF KvInv
    <2>17. KvTypeOK'
      BY <1>2, <2>1, <2>2, <2>13, <2>15, <2>16 DEF KvInv, KvTypeOK
    <2>18. \A c \in Devices : DevFits(dev'[c], vault')
      <3>1. DevFits(NoDev, vault')
        BY <2>1, <2>2, RestFits
      <3>2. \A c \in Devices \ {d} : DevFits(dev'[c], vault')
        BY <2>1, <2>2, <2>7, <2>15, VaultParts, LeftBehind DEF BehindTask
      <3> QED
        BY <2>15, <3>1, <3>2
    <2>19. EnrFits(enr', vault', box'.uid)
      BY <2>1, <2>2, <2>7, <2>13, VaultParts, LeftBehind
    <2>20. \A r \in Drivers : DrvFits(drv'[r], vault', box'.uid, dropped')
      BY <2>1, <2>2, <2>7, <2>13, <2>16, VaultParts, LeftBehind DEF BehindRun
    <2> QED
      BY <2>5, <2>6, <2>14, <2>17, <2>18, <2>19, <2>20 DEF KvInv, Unlockable
  <1> QED
    BY <1>1, <1>2 DEF Rekey

\* A new mailbox at the address: nobody's key was wrapped in it.
LEMMA RecreateKeeps ==
    ASSUME KvInv, Recreate
    PROVE  KvInv'
  <1>1. /\ box.uid = 1 /\ box' = NewBox(2) /\ vault' = EmptyVault /\ dev' = [d \in Devices |-> NoDev]
        /\ drv' = DrvOutdated(TRUE)
        /\ UNCHANGED <<enr, keysMade, mastersMade, dropped>> /\ trips' \in Nat
    BY VaultParts DEF Recreate, Trip
  <1>2. /\ box'.uid = 2 /\ box'.keys = {} /\ box'.zero = {} /\ vault'.gen = 0 /\ vault'.wraps = {} /\ vault'.keys = {}
    BY <1>1 DEF NewBox, EmptyVault
  <1>3. drv' \in [Drivers -> DrvTasks] /\ \A r \in Drivers : BehindRun(drv'[r], drv[r]) /\ ~drv'[r].vault
    BY <1>1, RunsOutdated DEF KvInv
  <1>4. KvTypeOK'
    BY <1>1, <1>3, RestTypes DEF KvInv, KvTypeOK
  <1>5. OneMaster(vault') /\ Unlockable(vault') /\ AllHeld(box', vault', dropped') /\ BoxHolds(box')
    BY <1>2 DEF OneMaster, Masters, Unlockable, AllHeld, KeysOf, BoxHolds, OneLive
  <1>6. \A d \in Devices : DevFits(dev'[d], vault')
    BY <1>1, RestFits, RestTypes
  <1>7. \A e \in Enrollments : EnrFits(e, vault, box.uid) => EnrFits(e, vault', box'.uid) /\ e.box # box'.uid
    <2>1. \A e \in Enrollments : e.box <= 1 => e.box # 2 /\ e.box <= 2
      BY DEF Enrollments
    <2> QED
      BY <1>1, <1>2, <2>1 DEF EnrFits
  <1>8. EnrFits(enr', vault', box'.uid)
    BY <1>1, <1>7, VaultParts
  <1>9. \A r \in Drivers : DrvFits(drv'[r], vault', box'.uid, dropped')
    BY <1>3, <1>7, VaultParts DEF DrvFits, BehindRun
  <1> QED
    BY <1>4, <1>5, <1>6, <1>8, <1>9 DEF KvInv

\* Every step keeps it.
LEMMA KvStep == KvInv /\ [KvNext]_kvVars => KvInv'
  <1> SUFFICES ASSUME KvInv, [KvNext]_kvVars PROVE KvInv'
    OBVIOUS
  <1>1. CASE UNCHANGED kvVars
    <2>1. KvTypeOK' /\ UNCHANGED <<vault, box, dropped, dev, drv, enr>>
      BY <1>1 DEF kvVars, KvInv, KvTypeOK
    <2> QED
      BY <2>1, LeavesAlone DEF KvInv
  <1>2. CASE \E d \in Devices :
            \/ Get(d) \/ RecordExport(d) \/ RekeyChecked(d) \/ StartEnrollment(d) \/ AttachWrappedKey(d) \/ CancelEnrollment(d)
    BY <1>2, GetKeeps, ExportKeeps, RekeyCheckedKeeps, StartKeeps, AttachKeeps, CancelKeeps
  <1>3. CASE \E d \in Devices : \E at \in {"enroll", "wrap", "unwrap", "rekey", "sign"} : Request(d, at)
    BY <1>3, RequestKeeps
  <1>4. CASE \E d \in Devices : \E use \in {"encrypt", "zero"} : Enroll(d, use)
    BY <1>4, EnrollKeeps
  <1>5. CASE \E d \in Devices : \E m \in Methods \cup {"escrow"} : AddWrap(d, m) \/ RemoveWrap(d, m)
    BY <1>5, AddWrapKeeps, RemoveWrapKeeps
  <1>6. CASE \E d \in Devices : \E W \in SUBSET (Methods \cup {"escrow"}) : Rekey(d, W)
    BY <1>6, RekeyKeeps
  <1>7. CASE Recreate \/ RecordChallengeToken \/ UploadCertificate
    BY <1>7, RecreateKeeps, TokenKeeps, UploadKeeps
  <1>8. CASE \E r \in Drivers : ListPending(r) \/ Advance(r) \/ GetMaterial(r) \/ Check(r)
    BY <1>8, ListKeeps, AdvanceKeeps, MaterialKeeps, CheckKeeps
  <1>9. CASE \E r \in Drivers : InstallKey(r) \/ PublishKey(r) \/ Mark(r) \/ DriverDies(r)
    BY <1>9, InstallKeeps, PublishKeeps, MarkKeeps, DiesKeeps
  <1> QED
    BY <1>1, <1>2, <1>3, <1>4, <1>5, <1>6, <1>7, <1>8, <1>9 DEF KvNext

\* The invariant holds of every reachable state of the vault.
THEOREM VaultInductive == KvSpec => []KvInv
  <1> QED
    BY KvStarts, KvStep, PTL DEF KvSpec

\* The owner can open the vault, and whatever is published or encrypted to, whatever devices and the job do at the same
\* time (VaultHolds: BaseKeyVaultRoute, AcmeEnrollmentDriverJob).
THEOREM VaultStaysOpen == KvSpec => []VaultHolds
  <1>1. KvInv => VaultHolds
    <2> SUFFICES ASSUME KvInv PROVE VaultHolds
      OBVIOUS
    <2>1. Cardinality(Masters(vault)) <= 1
      <3>1. CASE Masters(vault) = {}
        BY <3>1, FS_EmptySet
      <3>2. CASE Masters(vault) # {}
        <4>1. PICK m \in Masters(vault) : TRUE
          BY <3>2
        <4>2. Masters(vault) = {m}
          BY <4>1 DEF KvInv, OneMaster
        <4>3. Cardinality({m}) = 1
          BY FS_Singleton
        <4> QED
          BY <4>2, <4>3
      <3> QED
        BY <3>1, <3>2
    <2>2. VaultOpens
      BY <2>1 DEF VaultOpens, KvInv, Unlockable
    <2>3. \A x \in box.keys, y \in box.zero : x.use # y.use
      BY VaultParts DEF BoxRows, KeyEntries
    <2>4. PublishedIsHeld
      BY <2>3 DEF PublishedIsHeld, KvInv, AllHeld, BoxHolds, OneLive
    <2> QED
      BY <2>2, <2>4 DEF VaultHolds
  <1> QED
    BY <1>1, VaultInductive, PTL

--------------------------------------------------------------------------------
(****************************************************************************)
(* The zero-access keys of a shared mailbox, at any number of members,      *)
(* scopes and keys. Every key that was enrolled has a number and the scope  *)
(* the mailbox was in (KeysNumbered). What a manager's request has read is  *)
(* what is stored as long as nobody saved the row since: the mailbox's      *)
(* before the certificate was issued (BoxFits), the vault's before the save *)
(* (WrapsFit). So a key is enrolled into the scope the mailbox is assigned  *)
(* to at that moment, and a save takes away no wrap it did not read.        *)
(****************************************************************************)

\* The shared mailbox by itself.
ShSpec == ShInit /\ [][ShNext]_shVars
\* A wrap: a member, the certificate it is for, the key.
WrapTriples == People \X Nat \X Nat
ShBoxes == [keys : Nat, scope : Scopes \cup {NoScope}]
ShReqs == [at : {"idle", "persist", "find", "save"}, box : ShBoxes, gives : SUBSET WrapTriples, gone : SUBSET People,
           read : SUBSET WrapTriples, esc : SUBSET (Scopes \X Nat), mbox : BOOLEAN, vault : BOOLEAN]
\* The types of the shared mailbox.
ShTypeOK ==
    /\ cert \in [People -> Nat] /\ shBox \in ShBoxes /\ wraps \subseteq WrapTriples /\ escWraps \subseteq Scopes \X Nat
    /\ inScope \in Seq(Scopes \cup {NoScope}) /\ shReq \in [People -> ShReqs]
\* A key, and its scope, for each that was enrolled.
KeysNumbered == shBox.keys = Len(inScope)
\* What a request read still is, as long as nobody saved the row.
BoxFits == \A u \in People : shReq[u].at = "persist" /\ shReq[u].mbox => shReq[u].box = shBox
WrapsFit == \A u \in People : shReq[u].at = "save" /\ shReq[u].vault
    => shReq[u].read = wraps /\ escWraps \subseteq shReq[u].esc
ShInv == ShTypeOK /\ KeysNumbered /\ BoxFits /\ WrapsFit /\ EscrowFollows

\* A manager without a request has the type.
LEMMA NoShReqType == NoShReq \in ShReqs /\ NoShReq.at = "idle"
  BY DEF NoShReq, ShReqs, ShBoxes

\* A mailbox without keys fits.
LEMMA ShStarts == ShInit => ShInv
  <1> SUFFICES ASSUME ShInit PROVE ShInv
    OBVIOUS
  <1>1. ShTypeOK
    BY NoShReqType DEF ShInit, ShTypeOK, ShBoxes
  <1>2. Len(inScope) = 0
    BY DEF ShInit
  <1>3. KeysNumbered /\ EscrowFollows
    BY <1>2 DEF ShInit, KeysNumbered, EscrowFollows
  <1>4. BoxFits /\ WrapsFit
    BY NoShReqType DEF ShInit, BoxFits, WrapsFit
  <1> QED
    BY <1>1, <1>3, <1>4 DEF ShInv

\* A request begins, or goes on to its save; nothing is written.
LEMMA ReqMoves ==
    ASSUME ShInv, NEW u \in People, NEW q \in ShReqs, shReq' = [shReq EXCEPT ![u] = q],
           UNCHANGED <<cert, shBox, wraps, escWraps, inScope>>,
           q.at = "persist" => q.box = shBox,
           q.at = "save" => q.read = wraps /\ escWraps \subseteq q.esc
    PROVE  ShInv'
  <1>1. ShTypeOK'
    BY DEF ShInv, ShTypeOK
  <1>2. \A p \in People : shReq'[p] = IF p = u THEN q ELSE shReq[p]
    BY DEF ShInv, ShTypeOK
  <1>3. BoxFits'
    BY <1>2 DEF ShInv, BoxFits
  <1>4. WrapsFit'
    BY <1>2 DEF ShInv, WrapsFit
  <1>5. KeysNumbered' /\ EscrowFollows'
    BY DEF ShInv, KeysNumbered, EscrowFollows
  <1> QED
    BY <1>1, <1>3, <1>4, <1>5 DEF ShInv

\* A request that begins reads the mailbox.
LEMMA AsksMoves ==
    ASSUME ShInv, NEW u \in People, NEW at \in {"persist", "find"}, NEW q \in ShReqs, Asks(u, at, q),
           UNCHANGED <<cert, shBox, wraps, escWraps, inScope>>
    PROVE  ShInv'
  <1> DEFINE n == [q EXCEPT !.at = at, !.box = shBox]
  <1>1. n \in ShReqs /\ n.box = shBox /\ n.at # "save"
    BY DEF ShReqs, ShInv, ShTypeOK
  <1>2. shReq' = [shReq EXCEPT ![u] = n]
    BY DEF Asks
  <1> HIDE DEF n
  <1> QED
    BY <1>1, <1>2, ReqMoves

\* A request that ends is at rest.
LEMMA EndsMoves ==
    ASSUME ShInv, NEW u \in People, ShEnds(u), UNCHANGED <<cert, shBox, wraps, escWraps, inScope>>
    PROVE  ShInv'
  BY ReqMoves, NoShReqType DEF ShEnds

\* enrollSharedZeroAccessKey() reading members, mailbox and scope keeps the invariant.
LEMMA EnrollSharedKeeps ==
    ASSUME ShInv, NEW u \in People, NEW U \in SUBSET People, EnrollShared(u, U)
    PROVE  ShInv'
  <1>1. WrapsFor(U, shBox.keys + 1) \subseteq WrapTriples
    BY DEF WrapsFor, WrapTriples, ShInv, ShTypeOK, ShBoxes
  <1>2. [NoShReq EXCEPT !.gives = WrapsFor(U, shBox.keys + 1), !.mbox = TRUE] \in ShReqs
    BY <1>1, NoShReqType DEF ShReqs
  <1> QED
    BY <1>2, AsksMoves DEF EnrollShared

\* putMemberKeyWraps() checking its wraps keeps it.
LEMMA PutKeeps ==
    ASSUME ShInv, NEW u \in People, NEW U \in SUBSET People, NEW k \in 1..shBox.keys, PutMemberKeyWraps(u, U, k)
    PROVE  ShInv'
  <1>1. WrapsFor(U, k) \subseteq WrapTriples
    BY DEF WrapsFor, WrapTriples, ShInv, ShTypeOK, ShBoxes
  <1>2. [NoShReq EXCEPT !.gives = WrapsFor(U, k)] \in ShReqs
    BY <1>1, NoShReqType DEF ShReqs
  <1> QED
    BY <1>2, AsksMoves DEF PutMemberKeyWraps

\* removeMemberKeyWraps() checking that the member left keeps it.
LEMMA RemoveKeeps ==
    ASSUME ShInv, NEW u \in People, NEW v \in People, RemoveMemberKeyWraps(u, v)
    PROVE  ShInv'
  <1>1. [NoShReq EXCEPT !.gone = {v}] \in ShReqs
    BY NoShReqType DEF ShReqs
  <1> QED
    BY <1>1, AsksMoves DEF RemoveMemberKeyWraps

\* putZeroAccessEscrowWraps() checking its wraps keeps it.
LEMMA PutEscrowKeeps ==
    ASSUME ShInv, NEW u \in People, PutEscrowWraps(u)
    PROVE  ShInv'
  <1> DEFINE mine == {k \in 1..shBox.keys : <<u, cert[u], k>> \in wraps}
  <1>1. shBox.scope \in Scopes /\ mine \subseteq Nat
    BY DEF PutEscrowWraps, ShInv, ShTypeOK, ShBoxes
  <1>2. [NoShReq EXCEPT !.esc = {shBox.scope} \X mine] \in ShReqs
    BY <1>1, NoShReqType DEF ShReqs
  <1> QED
    BY <1>2, AsksMoves DEF PutEscrowWraps

\* findKeyVault() keeps it: the wraps the request goes by are the ones stored.
LEMMA FindKeeps ==
    ASSUME ShInv, NEW u \in People, FindKeyVault(u)
    PROVE  ShInv'
  <1> DEFINE q == [shReq[u] EXCEPT !.at = "save", !.read = wraps, !.esc = @ \cup escWraps, !.vault = TRUE]
  <1>1. shReq[u] \in ShReqs
    BY DEF ShInv, ShTypeOK
  <1>2. q \in ShReqs /\ q.at = "save" /\ q.read = wraps /\ escWraps \subseteq q.esc
    BY <1>1 DEF ShReqs, ShInv, ShTypeOK
  <1>3. shReq' = [shReq EXCEPT ![u] = q]
    BY DEF FindKeyVault
  <1> HIDE DEF q
  <1> QED
    BY <1>2, <1>3, ReqMoves DEF FindKeyVault

\* A request with a read out of date is a request still.
LEMMA OutdatedType ==
    ASSUME NEW r \in ShReqs
    PROVE  /\ [r EXCEPT !.vault = FALSE] \in ShReqs /\ [r EXCEPT !.mbox = FALSE] \in ShReqs
           /\ [r EXCEPT !.vault = FALSE, !.mbox = FALSE] \in ShReqs
  BY DEF ShReqs

\* A save of the vault outdates what the others read of it.
LEMMA VaultSaved ==
    ASSUME ShTypeOK, NEW u \in People, shReq' = ShSaves(u, TRUE, FALSE)
    PROVE  /\ shReq' \in [People -> ShReqs] /\ shReq'[u] = NoShReq
           /\ \A p \in People \ {u} : /\ ~shReq'[p].vault /\ shReq'[p].at = shReq[p].at /\ shReq'[p].box = shReq[p].box
                                      /\ shReq'[p].mbox => shReq[p].mbox
  <1> DEFINE n(p) == [shReq[p] EXCEPT !.vault = FALSE]
  <1>1. \A p \in People : shReq[p] \in ShReqs
    BY DEF ShTypeOK
  <1>3. \A p \in People : [shReq[p] EXCEPT !.vault = @ /\ ~TRUE, !.mbox = @ /\ ~FALSE] = n(p)
    BY <1>1 DEF ShReqs
  <1>4. \A p \in People : n(p) \in ShReqs
    BY <1>1, OutdatedType
  <1>5. shReq' = [p \in People |-> IF p = u THEN NoShReq ELSE n(p)]
    BY <1>3 DEF ShSaves
  <1>6. \A p \in People : ~n(p).vault /\ n(p).at = shReq[p].at /\ n(p).box = shReq[p].box /\ n(p).mbox = shReq[p].mbox
    BY <1>1 DEF ShReqs
  <1> HIDE DEF n
  <1> QED
    BY <1>4, <1>5, <1>6, NoShReqType

\* A save of both rows outdates whatever the others read.
LEMMA BothSaved ==
    ASSUME ShTypeOK, NEW u \in People, shReq' = ShSaves(u, TRUE, TRUE)
    PROVE  /\ shReq' \in [People -> ShReqs] /\ shReq'[u] = NoShReq
           /\ \A p \in People \ {u} : ~shReq'[p].vault /\ ~shReq'[p].mbox
  <1> DEFINE n(p) == [shReq[p] EXCEPT !.vault = FALSE, !.mbox = FALSE]
  <1>1. \A p \in People : shReq[p] \in ShReqs
    BY DEF ShTypeOK
  <1>2. \A p \in People : [shReq[p] EXCEPT !.vault = @ /\ ~TRUE, !.mbox = @ /\ ~TRUE] = n(p)
    BY <1>1 DEF ShReqs
  <1>3. \A p \in People : n(p) \in ShReqs /\ ~n(p).vault /\ ~n(p).mbox
    BY <1>1, OutdatedType DEF ShReqs
  <1>4. shReq' = [p \in People |-> IF p = u THEN NoShReq ELSE n(p)]
    BY <1>2 DEF ShSaves
  <1> HIDE DEF n
  <1> QED
    BY <1>3, <1>4, NoShReqType

\* persistSharedEnrollment() keeps it: of a mailbox that has changed nothing is saved, and otherwise the new key's
\* escrow wrap is of the scope the mailbox is in.
LEMMA PersistKeeps ==
    ASSUME ShInv, NEW u \in People, PersistSharedEnrollment(u)
    PROVE  ShInv'
  <1> DEFINE q == shReq[u]
  <1>1. CASE ShEnds(u) /\ UNCHANGED <<shBox, wraps, escWraps, inScope>>
    BY <1>1, EndsMoves DEF PersistSharedEnrollment
  <1>2. CASE /\ BoxUnchanged(u) /\ shBox' = [shBox EXCEPT !.keys = q.box.keys + 1] /\ wraps' = wraps \cup q.gives
             /\ escWraps' = escWraps \cup {<<s, q.box.keys + 1>> : s \in {q.box.scope} \ {NoScope}}
             /\ inScope' = Append(inScope, shBox.scope) /\ shReq' = ShSaves(u, TRUE, TRUE)
    <2>1. q \in ShReqs /\ shBox \in ShBoxes /\ q.box = shBox /\ cert' = cert
      BY <1>2 DEF ShInv, ShTypeOK, BoxFits, BoxUnchanged, PersistSharedEnrollment
    <2>2. shBox.keys \in Nat /\ shBox.scope \in Scopes \cup {NoScope} /\ q.gives \subseteq WrapTriples
      BY <2>1 DEF ShReqs, ShBoxes
    <2>3. /\ shBox' \in ShBoxes /\ shBox'.keys = shBox.keys + 1
          /\ escWraps' = escWraps \cup {<<s, shBox.keys + 1>> : s \in {shBox.scope} \ {NoScope}}
      BY <1>2, <2>1, <2>2 DEF ShBoxes
    <2>4. /\ shReq' \in [People -> ShReqs] /\ shReq'[u] = NoShReq
          /\ \A p \in People \ {u} : ~shReq'[p].vault /\ ~shReq'[p].mbox
      BY <1>2, BothSaved DEF ShInv
    <2>5. inScope \in Seq(Scopes \cup {NoScope}) /\ Len(inScope) \in Nat
      BY DEF ShInv, ShTypeOK
    <2>6. /\ inScope' \in Seq(Scopes \cup {NoScope}) /\ Len(inScope') = Len(inScope) + 1
          /\ \A k \in 1..Len(inScope) : inScope'[k] = inScope[k]
          /\ inScope'[Len(inScope) + 1] = shBox.scope
      BY <1>2, <2>2, <2>5
    <2>t. escWraps' \subseteq Scopes \X Nat
      BY <2>2, <2>3, SharedAssumption DEF ShInv, ShTypeOK
    <2>7. ShTypeOK'
      BY <1>2, <2>1, <2>2, <2>t, <2>3, <2>4, <2>6 DEF ShInv, ShTypeOK
    <2>8. KeysNumbered'
      BY <2>3, <2>6 DEF ShInv, KeysNumbered
    <2>9. BoxFits' /\ WrapsFit'
      BY <2>4, NoShReqType DEF BoxFits, WrapsFit
    <2>10. ASSUME NEW k \in 1..Len(inScope'), inScope'[k] # NoScope PROVE <<inScope'[k], k>> \in escWraps'
      <3>1. CASE k \in 1..Len(inScope)
        BY <3>1, <2>3, <2>6, <2>10 DEF ShInv, EscrowFollows
      <3>2. CASE k = Len(inScope) + 1
        <4>1. shBox.keys + 1 = k
          BY <3>2 DEF ShInv, KeysNumbered
        <4> QED
          BY <4>1, <3>2, <2>3, <2>6, <2>10
      <3> QED
        BY <3>1, <3>2, <2>5, <2>6
    <2> QED
      BY <2>7, <2>8, <2>9, <2>10 DEF ShInv, EscrowFollows
  <1> QED
    BY <1>1, <1>2 DEF PersistSharedEnrollment

\* The save of the wraps keeps it: what was stored is among what was read, for the escrow scopes too.
LEMMA SaveKeeps ==
    ASSUME ShInv, NEW u \in People, SaveWraps(u)
    PROVE  /\ ShInv'
           /\ \A w \in wraps \ wraps' : \/ \E n \in wraps' : n[1] = w[1] /\ n[3] = w[3]
                                        \/ shReq[u].at = "save" /\ w[1] \in shReq[u].gone
  <1> DEFINE q == shReq[u]
             kept == {w \in q.read : w[1] \notin q.gone /\ ~\E g \in q.gives : g[1] = w[1] /\ g[3] = w[3]}
  <1>1. CASE ShEnds(u) /\ UNCHANGED <<wraps, escWraps>>
    BY <1>1, EndsMoves DEF SaveWraps
  <1>2. CASE VaultUnchanged(u) /\ wraps' = kept \cup q.gives /\ escWraps' = q.esc /\ shReq' = ShSaves(u, TRUE, FALSE)
    <2>1. /\ q \in ShReqs /\ q.at = "save" /\ q.read = wraps /\ escWraps \subseteq q.esc
          /\ UNCHANGED <<cert, shBox, inScope>>
      BY <1>2 DEF ShInv, ShTypeOK, WrapsFit, VaultUnchanged, SaveWraps
    <2>2. q.gives \subseteq WrapTriples /\ q.esc \subseteq Scopes \X Nat /\ q.read \subseteq WrapTriples
      BY <2>1 DEF ShReqs
    <2>4. /\ shReq' \in [People -> ShReqs] /\ shReq'[u] = NoShReq
          /\ \A p \in People \ {u} : /\ ~shReq'[p].vault /\ shReq'[p].at = shReq[p].at /\ shReq'[p].box = shReq[p].box
                                     /\ shReq'[p].mbox => shReq[p].mbox
      BY <1>2, VaultSaved DEF ShInv
    <2>5. ShTypeOK'
      BY <1>2, <2>1, <2>2, <2>4 DEF ShInv, ShTypeOK
    <2>6. KeysNumbered' /\ EscrowFollows'
      BY <1>2, <2>1 DEF ShInv, KeysNumbered, EscrowFollows
    <2>7. BoxFits' /\ WrapsFit'
      BY <2>1, <2>4, NoShReqType DEF ShInv, BoxFits, WrapsFit
    <2>8. ShInv'
      BY <2>5, <2>6, <2>7 DEF ShInv
    <2>9. ASSUME NEW w \in wraps \ wraps', w[1] \notin q.gone PROVE \E n \in wraps' : n[1] = w[1] /\ n[3] = w[3]
      BY <1>2, <2>1, <2>9
    <2> QED
      BY <2>1, <2>8, <2>9
  <1> QED
    BY <1>1, <1>2 DEF SaveWraps

\* A member's new certificate keeps it.
LEMMA ReplaceKeeps ==
    ASSUME ShInv, NEW u \in People, ReplaceOwnKey(u)
    PROVE  ShInv'
  <1>1. cert' \in [People -> Nat]
    BY DEF ReplaceOwnKey, ShInv, ShTypeOK
  <1> QED
    BY <1>1 DEF ReplaceOwnKey, ShInv, ShTypeOK, KeysNumbered, BoxFits, WrapsFit, EscrowFollows

\* A change of access keeps it.
LEMMA AccessKeeps ==
    ASSUME ShInv, NEW u \in People, NEW a \in {"none", "read", "full"}, ChangeAccess(u, a)
    PROVE  ShInv'
  BY DEF ChangeAccess, ShInv, ShTypeOK, KeysNumbered, BoxFits, WrapsFit, EscrowFollows

\* A new assignment keeps it: it makes every read of the mailbox out of date.
LEMMA AssignKeeps ==
    ASSUME ShInv, NEW s \in Scopes \cup {NoScope}, AssignScope(s)
    PROVE  ShInv'
  <1>0. \A p \in People : shReq[p] \in ShReqs
    BY DEF ShInv, ShTypeOK
  <1> DEFINE n(p) == [shReq[p] EXCEPT !.mbox = FALSE]
  <1>1. \A p \in People : /\ n(p) \in ShReqs /\ ~n(p).mbox /\ n(p).at = shReq[p].at /\ n(p).vault = shReq[p].vault
                          /\ n(p).read = shReq[p].read /\ n(p).esc = shReq[p].esc
    BY <1>0, OutdatedType DEF ShReqs
  <1>a. shReq' = [p \in People |-> n(p)]
    BY DEF AssignScope
  <1> HIDE DEF n
  <1>2. /\ shReq' \in [People -> ShReqs]
        /\ \A p \in People : /\ ~shReq'[p].mbox /\ shReq'[p].at = shReq[p].at /\ shReq'[p].vault = shReq[p].vault
                             /\ shReq'[p].read = shReq[p].read /\ shReq'[p].esc = shReq[p].esc
    BY <1>1, <1>a
  <1>3. shBox' \in ShBoxes /\ shBox'.keys = shBox.keys
    BY DEF AssignScope, ShInv, ShTypeOK, ShBoxes
  <1>4. ShTypeOK' /\ KeysNumbered' /\ EscrowFollows'
    BY <1>2, <1>3 DEF AssignScope, ShInv, ShTypeOK, KeysNumbered, EscrowFollows
  <1>5. BoxFits' /\ WrapsFit'
    BY <1>2 DEF AssignScope, ShInv, BoxFits, WrapsFit
  <1> QED
    BY <1>4, <1>5 DEF ShInv

\* Only a save of wraps takes one away.
LEMMA ShStep ==
    ASSUME ShInv, [ShNext]_shVars
    PROVE  /\ ShInv'
           /\ \A w \in wraps \ wraps' : \/ \E n \in wraps' : n[1] = w[1] /\ n[3] = w[3]
                                        \/ \E u \in People : shReq[u].at = "save" /\ w[1] \in shReq[u].gone
  <1>1. CASE UNCHANGED shVars
    BY <1>1 DEF shVars, ShInv, ShTypeOK, KeysNumbered, BoxFits, WrapsFit, EscrowFollows
  <1>2. ASSUME NEW u \in People, PersistSharedEnrollment(u) PROVE wraps \subseteq wraps'
    BY <1>2 DEF PersistSharedEnrollment, ShEnds
  <1>3. CASE \E u \in People : SaveWraps(u)
    BY <1>3, SaveKeeps
  <1>4. CASE \E u \in People : PersistSharedEnrollment(u)
    BY <1>4, <1>2, PersistKeeps
  <1>5. CASE \E u \in People : PutEscrowWraps(u) \/ FindKeyVault(u) \/ ReplaceOwnKey(u)
    BY <1>5, PutEscrowKeeps, FindKeeps, ReplaceKeeps DEF PutEscrowWraps, FindKeyVault, ReplaceOwnKey
  <1>6. CASE \E u \in People : \E U \in SUBSET People : EnrollShared(u, U) \/ \E k \in 1..shBox.keys :
            PutMemberKeyWraps(u, U, k)
    BY <1>6, EnrollSharedKeeps, PutKeeps DEF EnrollShared, PutMemberKeyWraps
  <1>7. CASE \E u \in People : \E v \in People : RemoveMemberKeyWraps(u, v)
    BY <1>7, RemoveKeeps DEF RemoveMemberKeyWraps
  <1>8. CASE \E u \in People : \E a \in {"none", "read", "full"} : ChangeAccess(u, a)
    BY <1>8, AccessKeeps DEF ChangeAccess
  <1>9. CASE \E s \in Scopes \cup {NoScope} : AssignScope(s)
    BY <1>9, AssignKeeps DEF AssignScope
  <1> QED
    BY <1>1, <1>3, <1>4, <1>5, <1>6, <1>7, <1>8, <1>9 DEF ShNext

\* The invariant holds of every reachable state of a shared mailbox.
THEOREM SharedInductive == ShSpec => []ShInv
  <1>1. ShInit => ShInv
    BY ShStarts
  <1>2. ShInv /\ [ShNext]_shVars => ShInv'
    BY ShStep
  <1> QED
    BY <1>1, <1>2, PTL DEF ShSpec

\* Every key stays with the members it was wrapped to, and with the holders of the scope it was enrolled in, whatever
\* managers do at the same time (SharedKeysHold: persistSharedEnrollment, putMemberKeyWraps, removeMemberKeyWraps).
THEOREM SharedKeysKept == ShSpec => SharedKeysHold
  <1>1. ShInv => EscrowFollows
    BY DEF ShInv
  <1>2. ShInv /\ [ShNext]_shVars =>
        [\A w \in wraps \ wraps' : \/ \E n \in wraps' : n[1] = w[1] /\ n[3] = w[3]
                                   \/ \E u \in People : shReq[u].at = "save" /\ w[1] \in shReq[u].gone]_shVars
    BY ShStep
  <1> QED
    BY <1>1, <1>2, SharedInductive, PTL DEF ShSpec, SharedKeysHold, WrapsKept

--------------------------------------------------------------------------------
(****************************************************************************)
(* The keys held for one correspondent, at any number of keys, writers and  *)
(* responses. A key lies in the slot of its kind, and a conflict is about a *)
(* slot that has a key (InSlots) and is open (Open). A writer that is about *)
(* to save has read a row that is the contact's if the versions agree       *)
(* (ReadFits): so what it saves is what becomes of the contact as it is,    *)
(* however late it comes, and each merge by itself keeps what it must       *)
(* (Keeps).                                                                 *)
(****************************************************************************)

\* The contact by itself.
CkSpec == CkInit /\ [][CkNext]_ckvars
\* The rows of the contact.
KeyOrNone == Keys \cup {NoKey}
Contacts == [there : BOOLEAN, pin : [Slots -> KeyOrNone], sev : [Keys -> Nat], prev : SUBSET Keys, rej : SUBSET Keys,
             confl : [Slots -> KeyOrNone], seen : Nat, rev : Nat]
\* A key lies in the slot of its kind; a conflict is with a pinned key, and is open.
InSlots(c) == \A s \in Slots : /\ c.pin[s] # NoKey => SlotOf[c.pin[s]] = s
                               /\ c.confl[s] # NoKey => SlotOf[c.confl[s]] = s /\ c.pin[s] # NoKey
Open(c) == \A s \in Slots : c.confl[s] # NoKey => c.confl[s] \notin c.rej \cup c.prev \cup {c.pin[s]}
ContactFits(c) == c \in Contacts /\ InSlots(c) /\ Open(c)
\* What a writer was asked, and what it read.
ReqOK(q) == /\ DOMAIN q = DOMAIN NoWriter
            /\ q.op = "header" => \E r \in Responses : q.resp = {r}
            /\ q.op = "trust" => q.arg \in Keys
            /\ q.op \in {"accept", "reject"} => /\ q.slot \in Slots
                                                /\ q.arg = NoKey \/ (q.op = "accept" /\ q.arg \in Keys /\ SlotOf[q.arg] = q.slot)
ReadFits(q, c) == q.pc = "write" => /\ q.was.rev \in Nat /\ q.was.rev <= c.rev
                                    /\ q.was.rev = c.rev => q.was = c
\* What holds of every reachable state.
CkInv == /\ ContactFits(contact) /\ DOMAIN writer = CkWriters /\ writer = [w \in CkWriters |-> writer[w]]
         /\ \A w \in CkWriters : ReqOK(writer[w]) /\ ReadFits(writer[w], contact)

\* What may become of a contact's row: nothing a conflict, a replacement or a revocation left there is lost.
Replaced(sev, old, new) == CanReplaceAutomatically(sev, old, new)
Keeps(c, n) ==
    /\ \A s \in Slots : c.pin[s] \notin {NoKey, n.pin[s]} => c.pin[s] \in n.prev /\ CanReplaceAutomatically(n.sev,
        c.pin[s], n.pin[s])
    /\ \A k \in Keys : n.sev[k] >= c.sev[k]
    /\ n.seen >= c.seen

\* A mailbox without the contact fits.
LEMMA NoContactFits == ContactFits(NoContact) /\ NoContact.rev = 0
  BY DEF ContactFits, NoContact, Contacts, KeyOrNone, InSlots, Open

\* A listed revocation never weakens one (escalated severity).
LEMMA EscalatedType ==
    ASSUME NEW c \in Contacts, NEW r
    PROVE  Escalated(c, r) \in [Keys -> Nat] /\ \A k \in Keys : Escalated(c, r)[k] >= c.sev[k]
  <1>1. \A k \in Keys : c.sev[k] \in Nat
    BY DEF Contacts
  <1>2. \A k \in Keys : Severity(r, k) \in Nat
    BY DEF Severity
  <1>3. \A a, b \in Nat : Most(a, b) \in Nat /\ Most(a, b) >= a /\ Most(a, b) >= b
    BY DEF Most
  <1>4. \A k \in Keys : Escalated(c, r)[k] = IF k \in HeldKeys(c) THEN Most(c.sev[k], Severity(r, k)) ELSE c.sev[k]
    BY DEF Escalated
  <1>5. \A k \in Keys : Escalated(c, r)[k] \in Nat /\ Escalated(c, r)[k] >= c.sev[k]
    <2> TAKE k \in Keys
    <2>1. c.sev[k] \in Nat /\ Severity(r, k) \in Nat /\ c.sev[k] >= c.sev[k]
      BY <1>1, <1>2
    <2>2. Most(c.sev[k], Severity(r, k)) \in Nat /\ Most(c.sev[k], Severity(r, k)) >= c.sev[k]
      BY <2>1, <1>3
    <2> QED
      BY <2>1, <2>2, <1>4
  <1> QED
    BY <1>5 DEF Escalated

\* A slot keeps its key, gets its first, is handed to a successor its key vouches for, or has a conflict.
LEMMA SlotCases ==
    ASSUME NEW c, ContactFits(c), NEW r \in Responses, NEW sev \in [Keys -> Nat], NEW s \in Slots
    PROVE  LET f == ForSlot(c, r, sev, s) IN
           \/ f = [pin |-> c.pin[s], out |-> {}, confl |-> c.confl[s]]
           \/ \E key \in Keys : SlotOf[key] = s /\ c.pin[s] = NoKey /\ f = [pin |-> key, out |-> {}, confl |-> c.confl[s]]
           \/ \E key \in Keys : /\ SlotOf[key] = s /\ c.pin[s] # NoKey /\ key # c.pin[s] /\ key \notin c.prev
                                /\ CanReplaceAutomatically(sev, c.pin[s], key)
                                /\ f = [pin |-> key, out |-> {c.pin[s]}, confl |-> NoKey]
           \/ \E key \in Keys : /\ SlotOf[key] = s /\ c.pin[s] # NoKey /\ key # c.pin[s] /\ key \notin c.prev /\ key \notin c.rej
                                /\ f = [pin |-> c.pin[s], out |-> {}, confl |-> key]
  <1> DEFINE old == c.pin[s]
             new == Listed(r, s) \ (c.prev \cup {old})
             key == CHOOSE k \in new : TRUE
             same == [pin |-> old, out |-> {}, confl |-> c.confl[s]]
  <1>0. ForSlot(c, r, sev, s) =
         CASE new = {} -> same
           [] new # {} /\ old = NoKey -> IF ValidKey(key) THEN [same EXCEPT !.pin = key] ELSE same
           [] new # {} /\ old # NoKey /\ CanReplaceAutomatically(sev, old, key) -> [pin |-> key, out |-> {old},
               confl |-> NoKey]
           [] new # {} /\ old # NoKey /\ ~CanReplaceAutomatically(sev, old, key) ->
                  IF key \in c.rej THEN same ELSE [same EXCEPT !.confl = key]
    BY DEF ForSlot
  <1>1. new # {} => key \in Keys /\ SlotOf[key] = s /\ key # old /\ key \notin c.prev
    BY ContactKeysAssumption DEF Listed
  <1> HIDE DEF key, new
  <1>2. [same EXCEPT !.pin = key] = [pin |-> key, out |-> {}, confl |-> c.confl[s]]
    OBVIOUS
  <1>3. [same EXCEPT !.confl = key] = [pin |-> old, out |-> {}, confl |-> key]
    OBVIOUS
  <1>4. CASE new = {}
    BY <1>0, <1>4
  <1>5. CASE new # {} /\ old = NoKey
    BY <1>0, <1>1, <1>2, <1>5
  <1>6. CASE new # {} /\ old # NoKey /\ CanReplaceAutomatically(sev, old, key)
    BY <1>0, <1>1, <1>6
  <1>7. CASE new # {} /\ old # NoKey /\ ~CanReplaceAutomatically(sev, old, key)
    BY <1>0, <1>1, <1>3, <1>7
  <1> QED
    BY <1>4, <1>5, <1>6, <1>7

\* applyDiscoveredKeys() loses nothing, and leaves only open conflicts.
LEMMA AppliedKeeps ==
    ASSUME NEW c, ContactFits(c), NEW r \in Responses
    PROVE  ContactFits(Applied(c, r)) /\ Applied(c, r).there /\ Keeps(c, Applied(c, r)) /\ Applied(c, r).rev = c.rev
  <1> DEFINE sev == Escalated(c, r)
             f(s) == ForSlot(c, r, sev, s)
             N == Applied(c, r)
             outs == UNION {f(s).out : s \in Slots}
  <1>1. c \in Contacts /\ InSlots(c) /\ Open(c) /\ sev \in [Keys -> Nat] /\ \A k \in Keys : sev[k] >= c.sev[k]
    BY EscalatedType DEF ContactFits
  <1>2. N = [c EXCEPT !.there = TRUE, !.sev = sev, !.pin = [s \in Slots |-> f(s).pin], !.prev = @ \cup outs,
                      !.confl = [s \in Slots |-> f(s).confl], !.seen = Most(@, r.seen)]
    <2>1. \A s \in Slots : [t \in Slots |-> ForSlot(c, r, sev, t)][s] = f(s)
      OBVIOUS
    <2> QED
      BY <2>1 DEF Applied
  <1> HIDE DEF sev
  <1>3. ASSUME NEW s \in Slots
        PROVE  /\ f(s).pin \in KeyOrNone /\ f(s).confl \in KeyOrNone /\ f(s).out \subseteq Keys /\ f(s).out \subseteq {c.pin[s]}
               /\ f(s).pin # NoKey => SlotOf[f(s).pin] = s
               /\ f(s).confl # NoKey => /\ SlotOf[f(s).confl] = s /\ f(s).pin # NoKey
                                        /\ f(s).confl \notin c.rej \cup c.prev \cup {f(s).pin} /\ f(s).out = {}
               /\ c.pin[s] \notin {NoKey, f(s).pin} => c.pin[s] \in f(s).out /\ CanReplaceAutomatically(sev, c.pin[s],
                   f(s).pin)
    <2> HIDE DEF f
    <2>1. \/ f(s) = [pin |-> c.pin[s], out |-> {}, confl |-> c.confl[s]]
          \/ \E key \in Keys : SlotOf[key] = s /\ c.pin[s] = NoKey /\ f(s) = [pin |-> key, out |-> {}, confl |-> c.confl[s]]
          \/ \E key \in Keys : /\ SlotOf[key] = s /\ c.pin[s] # NoKey /\ key # c.pin[s] /\ key \notin c.prev
                               /\ CanReplaceAutomatically(sev, c.pin[s], key)
                               /\ f(s) = [pin |-> key, out |-> {c.pin[s]}, confl |-> NoKey]
          \/ \E key \in Keys : /\ SlotOf[key] = s /\ c.pin[s] # NoKey /\ key # c.pin[s] /\ key \notin c.prev /\ key \notin c.rej
                               /\ f(s) = [pin |-> c.pin[s], out |-> {}, confl |-> key]
      BY <1>1, SlotCases DEF f
    <2>2. c.pin[s] \in KeyOrNone /\ c.confl[s] \in KeyOrNone
      BY <1>1 DEF Contacts
    <2>3. /\ c.pin[s] # NoKey => SlotOf[c.pin[s]] = s
          /\ c.confl[s] # NoKey
              => SlotOf[c.confl[s]] = s /\ c.pin[s] # NoKey /\ c.confl[s] \notin c.rej \cup c.prev \cup {c.pin[s]}
      BY <1>1 DEF InSlots, Open
    <2> QED
      BY <2>1, <2>2, <2>3, ContactKeysAssumption DEF KeyOrNone
  <1> HIDE DEF f
  <1>4. outs \subseteq Keys /\ \A s \in Slots : f(s).out \subseteq outs
    BY <1>3
  <1>5. c.seen \in Nat /\ r.seen \in Nat /\ c.prev \subseteq Keys
    BY <1>1, ContactKeysAssumption DEF Contacts
  <1>6. Most(c.seen, r.seen) \in Nat /\ Most(c.seen, r.seen) >= c.seen
    BY <1>5 DEF Most
  <1>7. [s \in Slots |-> f(s).pin] \in [Slots -> KeyOrNone] /\ [s \in Slots |-> f(s).confl] \in [Slots -> KeyOrNone]
    BY <1>3
  <1>8. /\ N \in Contacts /\ N.there /\ N.sev = sev /\ N.pin = [s \in Slots |-> f(s).pin] /\ N.prev = c.prev \cup outs
        /\ N.confl = [s \in Slots |-> f(s).confl] /\ N.seen = Most(c.seen, r.seen) /\ N.rej = c.rej /\ N.rev = c.rev
    BY <1>1, <1>2, <1>4, <1>5, <1>6, <1>7 DEF Contacts
  <1> HIDE DEF N
  <1>9. \A s \in Slots : N.pin[s] = f(s).pin /\ N.confl[s] = f(s).confl
    BY <1>8
  <1>10. InSlots(N)
    BY <1>3, <1>9 DEF InSlots
  <1>11. ASSUME NEW s \in Slots, N.confl[s] # NoKey PROVE N.confl[s] \notin outs
    <2>1. \A t \in Slots : t # s => N.confl[s] \notin f(t).out
      <3> TAKE t \in Slots
      <3>1. SlotOf[N.confl[s]] = s
        BY <1>3, <1>9, <1>11
      <3>2. \A k \in f(t).out : k # NoKey /\ SlotOf[k] = t
        BY <1>1, <1>3, ContactKeysAssumption DEF InSlots
      <3> QED
        BY <3>1, <3>2
    <2>2. N.confl[s] \notin f(s).out
      BY <1>3, <1>9, <1>11
    <2> QED
      BY <2>1, <2>2
  <1>12. Open(N)
    BY <1>3, <1>8, <1>9, <1>11 DEF Open
  <1>13. Keeps(c, N)
    <2>1. \A s \in Slots : c.pin[s] \notin {NoKey, N.pin[s]} => c.pin[s] \in N.prev /\ CanReplaceAutomatically(N.sev,
              c.pin[s], N.pin[s])
      BY <1>3, <1>4, <1>8, <1>9
    <2> QED
      BY <2>1, <1>1, <1>6, <1>8 DEF Keeps
  <1> QED
    BY <1>8, <1>10, <1>12, <1>13 DEF N, ContactFits

\* A key is a key.
LEMMA KeyIsNot == \A k \in Keys : k # NoKey /\ SlotOf[k] \in Slots
  BY ContactKeysAssumption

\* trust() on an empty slot loses nothing.
LEMMA TrustedKeeps ==
    ASSUME NEW c, ContactFits(c), NEW k \in Keys, c.pin[SlotOf[k]] = NoKey
    PROVE  ContactFits(Trusted(c, k)) /\ Keeps(c, Trusted(c, k)) /\ Trusted(c, k).rev = c.rev
  <1> DEFINE N == Trusted(c, k)
  <1>1. c \in Contacts /\ InSlots(c) /\ Open(c) /\ k # NoKey /\ SlotOf[k] \in Slots
    BY KeyIsNot DEF ContactFits
  <1>2. c.pin \in [Slots -> KeyOrNone] /\ c.sev \in [Keys -> Nat] /\ c.seen \in Nat
    BY <1>1 DEF Contacts
  <1>3. /\ N \in Contacts /\ N.sev = c.sev /\ N.prev = c.prev /\ N.rej = c.rej /\ N.confl = c.confl
        /\ N.seen = c.seen /\ N.rev = c.rev
        /\ N.pin = [c.pin EXCEPT ![SlotOf[k]] = k]
    <2>1. [c.pin EXCEPT ![SlotOf[k]] = k] \in [Slots -> KeyOrNone]
      BY <1>2 DEF KeyOrNone
    <2>2. N = [c EXCEPT !.there = TRUE, !.pin = [c.pin EXCEPT ![SlotOf[k]] = k]]
      BY <1>1 DEF Trusted, Contacts
    <2> QED
      BY <1>1, <2>1, <2>2 DEF Contacts
  <1> HIDE DEF N
  <1>4. \A s \in Slots : N.pin[s] = IF s = SlotOf[k] THEN k ELSE c.pin[s]
    BY <1>2, <1>3
  <1>5. InSlots(N) /\ Open(N)
    BY <1>1, <1>3, <1>4 DEF InSlots, Open
  <1>6. Keeps(c, N)
    BY <1>2, <1>3, <1>4 DEF Keeps
  <1> QED
    BY <1>3, <1>5, <1>6 DEF N, ContactFits

\* A rejection loses nothing.
LEMMA RejectedKeeps ==
    ASSUME NEW c, ContactFits(c), NEW s \in Slots, c.confl[s] # NoKey
    PROVE  ContactFits(Rejected(c, s)) /\ Keeps(c, Rejected(c, s)) /\ Rejected(c, s).rev = c.rev
  <1> DEFINE N == Rejected(c, s)
  <1>1. c \in Contacts /\ InSlots(c) /\ Open(c)
    BY DEF ContactFits
  <1>2. /\ c.confl \in [Slots -> KeyOrNone] /\ c.sev \in [Keys -> Nat] /\ c.seen \in Nat
        /\ c.confl[s] \in Keys /\ c.rej \subseteq Keys
    BY <1>1 DEF Contacts, KeyOrNone
  <1>3. /\ N \in Contacts /\ N.sev = c.sev /\ N.prev = c.prev /\ N.rej = c.rej \cup {c.confl[s]}
        /\ N.pin = c.pin /\ N.seen = c.seen
        /\ N.rev = c.rev /\ N.confl = [c.confl EXCEPT ![s] = NoKey]
    <2>1. [c.confl EXCEPT ![s] = NoKey] \in [Slots -> KeyOrNone]
      BY <1>2 DEF KeyOrNone
    <2>2. N = [c EXCEPT !.confl = [c.confl EXCEPT ![s] = NoKey], !.rej = @ \cup {c.confl[s]}]
      BY <1>1 DEF Rejected, Contacts
    <2>3. c.rej \cup {c.confl[s]} \in SUBSET Keys
      BY <1>2
    <2> HIDE DEF N
    <2> QED
      BY <1>1, <2>1, <2>2, <2>3 DEF Contacts
  <1> HIDE DEF N
  <1>4. \A t \in Slots : N.confl[t] = IF t = s THEN NoKey ELSE c.confl[t]
    BY <1>2, <1>3
  <1>5. InSlots(N) /\ Open(N)
    BY <1>1, <1>3, <1>4 DEF InSlots, Open
  <1>6. Keeps(c, N)
    BY <1>2, <1>3 DEF Keeps
  <1> QED
    BY <1>3, <1>5, <1>6 DEF N, ContactFits

\* An acceptance puts the replaced key among the previous ones and touches no other slot.
LEMMA AcceptedKeeps ==
    ASSUME NEW c, ContactFits(c), NEW s \in Slots, NEW k \in Keys, SlotOf[k] = s, c.pin[s] \notin {NoKey, k}
    PROVE  LET N == Accepted(c, s, k) IN
           /\ ContactFits(N) /\ N.rev = c.rev /\ N.seen = c.seen /\ c.pin[s] \in N.prev /\ N.pin[s] = k
           /\ \A t \in Slots \ {s} : N.pin[t] = c.pin[t]
           /\ \A j \in Keys : N.sev[j] = IF j = k THEN 0 ELSE c.sev[j]
  <1> DEFINE N == Accepted(c, s, k)
  <1>1. c \in Contacts /\ InSlots(c) /\ Open(c) /\ k # NoKey
    BY KeyIsNot DEF ContactFits
  <1>2. /\ c.pin \in [Slots -> KeyOrNone] /\ c.confl \in [Slots -> KeyOrNone] /\ c.sev \in [Keys -> Nat]
        /\ c.seen \in Nat
        /\ c.pin[s] \in Keys /\ c.prev \subseteq Keys /\ c.rej \subseteq Keys
    BY <1>1 DEF Contacts, KeyOrNone
  <1>3. /\ N \in Contacts /\ N.sev = [c.sev EXCEPT ![k] = 0] /\ N.prev = (c.prev \ {k}) \cup {c.pin[s]}
        /\ N.rej = c.rej \ {k}
        /\ N.pin = [c.pin EXCEPT ![s] = k] /\ N.seen = c.seen /\ N.rev = c.rev
        /\ N.confl = [c.confl EXCEPT ![s] = NoKey]
    <2>1. [c.confl EXCEPT ![s] = NoKey] \in [Slots -> KeyOrNone] /\ [c.pin EXCEPT ![s] = k] \in [Slots -> KeyOrNone]
      BY <1>2 DEF KeyOrNone
    <2>2. [c.sev EXCEPT ![k] = 0] \in [Keys -> Nat]
      BY <1>2
    <2>3. N = [c EXCEPT !.pin = [c.pin EXCEPT ![s] = k], !.confl = [c.confl EXCEPT ![s] = NoKey],
                        !.prev = (c.prev \ {k}) \cup {c.pin[s]}, !.rej = c.rej \ {k}, !.sev = [c.sev EXCEPT ![k] = 0]]
      BY <1>1 DEF Accepted, Contacts
    <2> QED
      <3>1. (c.prev \ {k}) \cup {c.pin[s]} \in SUBSET Keys /\ c.rej \ {k} \in SUBSET Keys
        BY <1>2
      <3> HIDE DEF N
      <3> QED
        BY <1>1, <2>1, <2>2, <2>3, <3>1 DEF Contacts
  <1> HIDE DEF N
  <1>4. \A t \in Slots : /\ N.confl[t] = IF t = s THEN NoKey ELSE c.confl[t]
                         /\ N.pin[t] = IF t = s THEN k ELSE c.pin[t]
    BY <1>2, <1>3
  <1>5. InSlots(N)
    BY <1>1, <1>4 DEF InSlots
  <1>6. Open(N)
    BY <1>1, <1>3, <1>4 DEF Open, InSlots
  <1>7. \A j \in Keys : N.sev[j] = IF j = k THEN 0 ELSE c.sev[j]
    BY <1>2, <1>3
  <1> QED
    BY <1>2, <1>3, <1>4, <1>5, <1>6, <1>7 DEF N, ContactFits

--------------------------------------------------------------------------------
\* What a writer saves became of the row as it is: then the invariant holds on, and nothing the row held is lost
\* but by the user's decision.
StepKeeps ==
    contact.there /\ contact'.there =>
          /\ \A s \in Slots : contact.pin[s] \notin {NoKey, contact'.pin[s]} =>
                /\ contact.pin[s] \in contact'.prev
                /\ CanReplaceAutomatically(contact'.sev, contact.pin[s], contact'.pin[s]) \/ Deciding(s)
          /\ \A k \in HeldKeys(contact) : contact'.sev[k] >= contact.sev[k] \/ (\E s \in Slots :
              Deciding(s) /\ contact'.pin[s] = k)
          /\ contact'.seen >= contact.seen
          /\ ConflictIsOpen'

\* A writer at rest, and one asking discovery, fit.
LEMMA RestWrites == ReqOK(NoWriter) /\ ReadFits(NoWriter, contact) /\ ReqOK(Refresh) /\ ReadFits(Refresh, contact)
  BY DEF ReqOK, ReadFits, NoWriter, Refresh

\* What a contact holds are keys.
LEMMA HeldAreKeys ==
    ASSUME NEW c \in Contacts
    PROVE  HeldKeys(c) \subseteq Keys
  BY DEF HeldKeys, Contacts, KeyOrNone

\* The row stays as it is.
LEMMA RowStays ==
    ASSUME ContactFits(contact), UNCHANGED contact
    PROVE  StepKeeps
  <1>1. contact \in Contacts /\ Open(contact)
    BY DEF ContactFits
  <1>2. contact.seen \in Nat /\ \A k \in HeldKeys(contact) : contact.sev[k] \in Nat
    BY <1>1, HeldAreKeys DEF Contacts
  <1>3. ConflictIsOpen'
    BY <1>1 DEF ConflictIsOpen, Open
  <1> QED
    BY <1>2, <1>3 DEF StepKeeps

\* The initial state fits.
LEMMA CkStarts == CkInit => CkInv
  <1> SUFFICES ASSUME CkInit PROVE CkInv
    OBVIOUS
  <1>1. \A w \in CkWriters : writer[w] = NoWriter
    BY DEF CkInit
  <1> QED
    BY <1>1, NoContactFits, RestWrites DEF CkInit, CkInv

\* One writer moves and the row stays.
LEMMA WriterMoves ==
    ASSUME CkInv, UNCHANGED contact, NEW w \in CkWriters, NEW q, writer' = [writer EXCEPT ![w] = q], ReqOK(q),
           q.pc = "write" => q.was = contact
    PROVE  CkInv' /\ StepKeeps
  <1>1. contact.rev \in Nat
    BY DEF CkInv, ContactFits, Contacts
  <1>2. \A v \in CkWriters : writer'[v] = IF v = w THEN q ELSE writer[v]
    BY DEF CkInv
  <1>3. ReadFits(q, contact)
    BY <1>1 DEF ReadFits
  <1>4. DOMAIN writer' = CkWriters /\ writer' = [v \in CkWriters |-> writer'[v]]
    BY DEF CkInv
  <1>5. \A v \in CkWriters : ReqOK(writer'[v]) /\ ReadFits(writer'[v], contact')
    BY <1>2, <1>3 DEF CkInv, ReadFits
  <1> QED
    BY <1>4, <1>5, RowStays DEF CkInv, ContactFits, InSlots, Open

\* A writer that ends keeps it.
LEMMA EndsKeeps ==
    ASSUME CkInv, UNCHANGED contact, NEW w \in CkWriters, CkEnds(w)
    PROVE  CkInv' /\ StepKeeps
  BY WriterMoves, RestWrites DEF CkEnds, NoWriter

\* A writer that begins keeps it.
LEMMA StartsKeeps ==
    ASSUME CkInv, UNCHANGED contact, NEW w \in CkWriters, NEW q, StartsWrite(w, q), ReqOK([q EXCEPT !.pc = "read"]),
           [q EXCEPT !.pc = "read"].pc = "read"
    PROVE  CkInv' /\ StepKeeps
  BY WriterMoves DEF StartsWrite

\* A save of what the row as it is becomes.
LEMMA RowMoves ==
    ASSUME CkInv, NEW w \in CkWriters, NEW row, ContactFits(row), contact' = [row EXCEPT !.rev = contact.rev + 1],
           NEW next, next \in {NoWriter, Refresh}, writer' = [writer EXCEPT ![w] = next]
    PROVE  CkInv' /\ contact'.rev = contact.rev + 1 /\ ConflictIsOpen'
           /\ contact'.pin = row.pin /\ contact'.prev = row.prev /\ contact'.sev = row.sev /\ contact'.seen = row.seen
  <1>1. row \in Contacts /\ contact.rev \in Nat
    BY DEF CkInv, ContactFits, Contacts
  <1>2. /\ contact' \in Contacts /\ contact'.rev = contact.rev + 1 /\ contact'.pin = row.pin /\ contact'.prev = row.prev
        /\ contact'.sev = row.sev /\ contact'.seen = row.seen /\ contact'.confl = row.confl /\ contact'.rej = row.rej
    BY <1>1 DEF Contacts
  <1>3. ContactFits(contact')
    BY <1>2 DEF ContactFits, InSlots, Open
  <1>4. ConflictIsOpen'
    BY <1>3 DEF ContactFits, ConflictIsOpen, Open
  <1>5. \A v \in CkWriters : writer'[v] = IF v = w THEN next ELSE writer[v]
    BY DEF CkInv
  <1>6. DOMAIN writer' = CkWriters /\ writer' = [v \in CkWriters |-> writer'[v]]
    BY DEF CkInv
  <1>7. next.pc # "write" /\ ReqOK(next)
    <2>1. NoWriter.pc # "write" /\ Refresh.pc # "write"
      BY DEF NoWriter, Refresh
    <2> QED
      BY <2>1, RestWrites
  <1>8. \A v \in CkWriters : ReqOK(writer'[v]) /\ ReadFits(writer'[v], contact')
    <2> TAKE v \in CkWriters
    <2>1. CASE v = w
      BY <2>1, <1>5, <1>7 DEF ReadFits
    <2>2. CASE v # w
      <3>1. writer'[v] = writer[v] /\ ReqOK(writer[v]) /\ ReadFits(writer[v], contact)
        BY <2>2, <1>5 DEF CkInv
      <3> QED
        BY <3>1, <1>1, <1>2 DEF ReadFits
    <2> QED
      BY <2>1, <2>2
  <1> QED
    BY <1>2, <1>3, <1>4, <1>6, <1>8 DEF CkInv

\* The merge of a header, a lookup, a trust or a rejection: its row keeps what the row it read held.
LEMMA MergeKeeps ==
    ASSUME CkInv, NEW w \in CkWriters, writer[w].pc = "write", NEW row, NEW next, next \in {NoWriter, Refresh},
        Writes(w, row, next),
           Unchanged(w) => ContactFits(row) /\ Keeps(contact, row)
    PROVE  CkInv' /\ StepKeeps
  <1>1. CASE Unchanged(w)
    <2>1. /\ CkInv' /\ ConflictIsOpen'
          /\ contact'.pin = row.pin /\ contact'.prev = row.prev /\ contact'.sev = row.sev /\ contact'.seen = row.seen
      BY <1>1, RowMoves DEF Writes
    <2>2. HeldKeys(contact) \subseteq Keys
      BY HeldAreKeys DEF CkInv, ContactFits
    <2> QED
      BY <1>1, <2>1, <2>2 DEF Keeps, StepKeeps
  <1>2. CASE ~Unchanged(w)
    <2>1. UNCHANGED contact /\ \/ writer' = [writer EXCEPT ![w] = ReadsAgain(w)]
                               \/ writer' = [writer EXCEPT ![w] = NoWriter]
      <3>1. /\ UNCHANGED contact
            /\ writer' = [writer EXCEPT ![w] = IF writer[w].tries < MaxKeyAttempts THEN ReadsAgain(w) ELSE NoWriter]
        BY <1>2 DEF Writes
      <3>2. CASE writer[w].tries < MaxKeyAttempts
        BY <3>1, <3>2
      <3>3. CASE ~(writer[w].tries < MaxKeyAttempts)
        BY <3>1, <3>3
      <3> QED
        BY <3>1, <3>2, <3>3
    <2>2. CASE writer' = [writer EXCEPT ![w] = NoWriter]
      BY <2>1, <2>2, EndsKeeps DEF CkEnds
    <2>3. CASE writer' = [writer EXCEPT ![w] = ReadsAgain(w)]
      <3> DEFINE q == [writer[w] EXCEPT !.pc = "read", !.tries = writer[w].tries + 1]
      <3>1. /\ q.pc = "read" /\ q.op = writer[w].op /\ q.resp = writer[w].resp /\ q.arg = writer[w].arg
            /\ q.slot = writer[w].slot /\ DOMAIN q = DOMAIN NoWriter
        <4>1. ReqOK(writer[w])
          BY DEF CkInv
        <4> HIDE DEF q
        <4>2. q = [writer[w] EXCEPT !.pc = "read", !.tries = writer[w].tries + 1]
          BY DEF q
        <4> QED
          BY <4>1, <4>2 DEF ReqOK, NoWriter
      <3>2. writer' = [writer EXCEPT ![w] = q]
        BY <2>3 DEF ReadsAgain
      <3> HIDE DEF q
      <3>3. ReqOK(q)
        BY <3>1 DEF CkInv, ReqOK
      <3> QED
        BY <2>1, <3>1, <3>2, <3>3, WriterMoves
    <2> QED
      BY <2>1, <2>2, <2>3
  <1> QED
    BY <1>1, <1>2

--------------------------------------------------------------------------------
\* Each action keeps the invariant, and what the row holds.

\* A key header arriving keeps the invariant.
LEMMA HeaderArrivesKeeps ==
    ASSUME CkInv, NEW w \in CkWriters, HeaderArrives(w)
    PROVE  CkInv' /\ StepKeeps
  <1>1. PICK r \in Responses : StartsWrite(w, [NoWriter EXCEPT !.op = "header", !.resp = {r}])
    BY DEF HeaderArrives
  <1> DEFINE q == [NoWriter EXCEPT !.op = "header", !.resp = {r}]
  <1>2. ReqOK([q EXCEPT !.pc = "read"]) /\ [q EXCEPT !.pc = "read"].pc = "read"
    BY DEF ReqOK, NoWriter
  <1>3. UNCHANGED contact
    BY DEF HeaderArrives
  <1> HIDE DEF q
  <1> QED
    BY <1>1, <1>2, <1>3, StartsKeeps DEF q

\* GET keys/lookup keeps it.
LEMMA LookupAskedKeeps ==
    ASSUME CkInv, NEW w \in CkWriters, LookupAsked(w)
    PROVE  CkInv' /\ StepKeeps
  <1> DEFINE q == [NoWriter EXCEPT !.op = "lookup"]
  <1>1. StartsWrite(w, q) /\ UNCHANGED contact
    BY DEF LookupAsked
  <1>2. ReqOK([q EXCEPT !.pc = "read"]) /\ [q EXCEPT !.pc = "read"].pc = "read"
    BY DEF ReqOK, NoWriter
  <1> HIDE DEF q
  <1> QED
    BY <1>1, <1>2, StartsKeeps

\* POST keys/trust keeps it.
LEMMA TrustAskedKeeps ==
    ASSUME CkInv, NEW w \in CkWriters, TrustAsked(w)
    PROVE  CkInv' /\ StepKeeps
  <1>1. PICK k \in Keys : StartsWrite(w, [NoWriter EXCEPT !.op = "trust", !.arg = k])
    BY DEF TrustAsked
  <1> DEFINE q == [NoWriter EXCEPT !.op = "trust", !.arg = k]
  <1>2. ReqOK([q EXCEPT !.pc = "read"]) /\ [q EXCEPT !.pc = "read"].pc = "read"
    BY DEF ReqOK, NoWriter
  <1>3. UNCHANGED contact /\ StartsWrite(w, q)
    BY <1>1 DEF TrustAsked
  <1> HIDE DEF q
  <1> QED
    BY <1>2, <1>3, StartsKeeps

\* POST keys/resolve keeps it: what is asked about is a key of the slot.
LEMMA ResolveAskedKeeps ==
    ASSUME CkInv, NEW w \in CkWriters, ResolveAsked(w)
    PROVE  CkInv' /\ StepKeeps
  <1>0. PICK s \in Slots : \E answer \in {"accept", "reject"}, k \in {NoKey} \cup {j \in Keys :
            SlotOf[j] = s /\ ValidKey(j)} :
          /\ answer = "reject" => k = NoKey
          /\ StartsWrite(w, [NoWriter EXCEPT !.op = answer, !.slot = s, !.arg = k, !.expected = contact.pin[s]])
    BY DEF ResolveAsked
  <1>1. PICK answer \in {"accept", "reject"}, k \in {NoKey} \cup {j \in Keys : SlotOf[j] = s /\ ValidKey(j)} :
          /\ answer = "reject" => k = NoKey
          /\ StartsWrite(w, [NoWriter EXCEPT !.op = answer, !.slot = s, !.arg = k, !.expected = contact.pin[s]])
    BY <1>0
  <1> DEFINE q == [NoWriter EXCEPT !.op = answer, !.slot = s, !.arg = k, !.expected = contact.pin[s]]
  <1>2. /\ [q EXCEPT !.pc = "read"].op = answer /\ [q EXCEPT !.pc = "read"].slot = s /\ [q EXCEPT !.pc = "read"].arg = k
        /\ [q EXCEPT !.pc = "read"].pc = "read" /\ DOMAIN [q EXCEPT !.pc = "read"] = DOMAIN NoWriter
    BY DEF NoWriter
  <1>3. UNCHANGED contact /\ StartsWrite(w, q)
    BY <1>1 DEF ResolveAsked
  <1> HIDE DEF q
  <1>4. ReqOK([q EXCEPT !.pc = "read"])
    BY <1>1, <1>2 DEF ReqOK
  <1> QED
    BY <1>2, <1>3, <1>4, StartsKeeps

\* findContact() keeps it.
LEMMA ReadContactKeeps ==
    ASSUME CkInv, NEW w \in CkWriters, ReadContact(w)
    PROVE  CkInv' /\ StepKeeps
  <1> DEFINE q == [writer[w] EXCEPT !.pc = "write", !.was = contact]
  <1>1. UNCHANGED contact /\ writer' = [writer EXCEPT ![w] = q] /\ ReqOK(writer[w])
    BY DEF ReadContact, CkInv
  <1>2. /\ q.pc = "write" /\ q.was = contact /\ q.op = writer[w].op /\ q.resp = writer[w].resp /\ q.arg = writer[w].arg
        /\ q.slot = writer[w].slot /\ DOMAIN q = DOMAIN NoWriter
    BY <1>1 DEF ReqOK, NoWriter
  <1> HIDE DEF q
  <1>3. ReqOK(q)
    BY <1>1, <1>2 DEF ReqOK
  <1> QED
    BY <1>1, <1>2, <1>3, WriterMoves

\* A row that has not changed since it was read is the row that was read.
LEMMA UnchangedRow == ASSUME CkInv, NEW w \in CkWriters, writer[w].pc = "write", Unchanged(w)
                      PROVE  writer[w].was = contact /\ ContactFits(contact)
  BY DEF CkInv, ReadFits, Unchanged

\* processInboundRapidMxKeyHeader() keeps it.
LEMMA MergeHeaderKeeps ==
    ASSUME CkInv, NEW w \in CkWriters, MergeHeader(w)
    PROVE  CkInv' /\ StepKeeps
  <1> DEFINE c == writer[w].was
             r == CHOOSE x \in writer[w].resp : TRUE
             new == Applied(c, r)
             next == IF \E s \in Slots : new.confl[s] \notin {NoKey, c.confl[s]} THEN Refresh ELSE NoWriter
  <1>1. /\ writer[w].pc = "write" /\ writer[w].op = "header"
        /\ Writes(w, new, next) \/ (CkEnds(w) /\ UNCHANGED contact)
    BY DEF MergeHeader
  <1>2. r \in Responses
    BY <1>1 DEF CkInv, ReqOK
  <1> HIDE DEF r
  <1>3. Unchanged(w) => ContactFits(new) /\ Keeps(contact, new)
    BY <1>1, <1>2, UnchangedRow, AppliedKeeps
  <1>4. next \in {NoWriter, Refresh}
    OBVIOUS
  <1> HIDE DEF c, new, next
  <1> QED
    BY <1>1, <1>3, <1>4, MergeKeeps, EndsKeeps

\* discoverAndMergeKeys() keeps it.
LEMMA MergeDiscoveredKeeps ==
    ASSUME CkInv, NEW w \in CkWriters, MergeDiscovered(w)
    PROVE  CkInv' /\ StepKeeps
  <1>1. CASE \E r \in Responses : Writes(w, Applied(writer[w].was, r), NoWriter)
    <2>1. PICK r \in Responses : Writes(w, Applied(writer[w].was, r), NoWriter)
      BY <1>1
    <2>2. writer[w].pc = "write"
      BY DEF MergeDiscovered
    <2>3. Unchanged(w) => ContactFits(Applied(writer[w].was, r)) /\ Keeps(contact, Applied(writer[w].was, r))
      BY <2>2, UnchangedRow, AppliedKeeps
    <2> QED
      BY <2>1, <2>2, <2>3, MergeKeeps
  <1>2. CASE CkEnds(w) /\ UNCHANGED contact
    BY <1>2, EndsKeeps
  <1> QED
    BY <1>1, <1>2 DEF MergeDiscovered

\* trust() keeps it.
LEMMA MergeTrustKeeps ==
    ASSUME CkInv, NEW w \in CkWriters, MergeTrust(w)
    PROVE  CkInv' /\ StepKeeps
  <1> DEFINE c == writer[w].was
             k == writer[w].arg
  <1>1. writer[w].pc = "write" /\ k \in Keys
    BY DEF MergeTrust, CkInv, ReqOK
  <1>2. CASE c.pin[SlotOf[k]] = NoKey /\ Writes(w, Trusted(c, k), NoWriter)
    <2>1. Unchanged(w) => ContactFits(Trusted(c, k)) /\ Keeps(contact, Trusted(c, k))
      BY <1>1, <1>2, UnchangedRow, TrustedKeeps
    <2> HIDE DEF c, k
    <2> QED
      BY <1>1, <1>2, <2>1, MergeKeeps
  <1>3. CASE CkEnds(w) /\ UNCHANGED contact
    BY <1>3, EndsKeeps
  <1> QED
    BY <1>2, <1>3 DEF MergeTrust

\* An accept written: one key's place is taken, and it is the one the user was looking at.
\* An accept that is saved: the key that gives way is the one the user was looking at.
LEMMA AcceptKeeps ==
    ASSUME CkInv, NEW w \in CkWriters, writer[w].pc = "write", writer[w].op = "accept", AsSeen(writer[w].was, w),
           NEW k \in Keys, SlotOf[k] = writer[w].slot, k # writer[w].was.pin[writer[w].slot], Unchanged(w),
           Writes(w, Accepted(writer[w].was, writer[w].slot, k), NoWriter)
    PROVE  CkInv' /\ StepKeeps
  <1> DEFINE s == writer[w].slot
             N == Accepted(contact, s, k)
  <1>1. writer[w].was = contact /\ ContactFits(contact) /\ s \in Slots
    BY UnchangedRow DEF CkInv, ReqOK
  <1>2. contact.pin[s] \notin {NoKey, k} /\ writer[w].expected = contact.pin[s]
    BY <1>1 DEF AsSeen
  <1>3. /\ ContactFits(N) /\ N.rev = contact.rev /\ N.seen = contact.seen /\ contact.pin[s] \in N.prev /\ N.pin[s] = k
        /\ \A t \in Slots \ {s} : N.pin[t] = contact.pin[t]
        /\ \A j \in Keys : N.sev[j] = IF j = k THEN 0 ELSE contact.sev[j]
    BY <1>1, <1>2, AcceptedKeeps
  <1>4. contact' = [N EXCEPT !.rev = contact.rev + 1] /\ writer' = [writer EXCEPT ![w] = NoWriter]
    BY <1>1 DEF Writes
  <1> HIDE DEF N
  <1>5. /\ CkInv' /\ ConflictIsOpen'
        /\ contact'.pin = N.pin /\ contact'.prev = N.prev /\ contact'.sev = N.sev /\ contact'.seen = N.seen
    BY <1>3, <1>4, RowMoves
  <1>6. writer'[w] = NoWriter
    BY <1>4 DEF CkInv
  <1>7. Deciding(s)
    BY <1>2, <1>6 DEF Deciding
  <1>8. contact.seen \in Nat /\ HeldKeys(contact) \subseteq Keys /\ contact.sev \in [Keys -> Nat]
    BY <1>1, HeldAreKeys DEF ContactFits, Contacts
  <1>9. \A t \in Slots : contact.pin[t] \notin {NoKey, contact'.pin[t]} => t = s
    BY <1>3, <1>5
  <1>10. \A j \in HeldKeys(contact) : contact'.sev[j] >= contact.sev[j] \/ (\E t \in Slots :
             Deciding(t) /\ contact'.pin[t] = j)
    <2> TAKE j \in HeldKeys(contact)
    <2>1. CASE j = k
      BY <1>1, <1>3, <1>5, <1>7, <2>1
    <2>2. CASE j # k
      BY <1>3, <1>5, <1>8, <2>2
    <2> QED
      BY <2>1, <2>2
  <1>11. \A t \in Slots : contact.pin[t] \notin {NoKey, contact'.pin[t]} => contact.pin[t] \in contact'.prev /\ Deciding(t)
    BY <1>3, <1>5, <1>7, <1>9
  <1> QED
    BY <1>3, <1>5, <1>8, <1>10, <1>11 DEF StepKeeps

\* resolve() keeps it: an answer about a key that is not pinned any more is refused.
LEMMA MergeResolveKeeps ==
    ASSUME CkInv, NEW w \in CkWriters, MergeResolve(w)
    PROVE  CkInv' /\ StepKeeps
  <1> DEFINE c == writer[w].was
             s == writer[w].slot
             k == IF writer[w].arg = NoKey THEN c.confl[s] ELSE writer[w].arg
  <1>1. writer[w].pc = "write" /\ writer[w].op \in {"accept", "reject"}
    BY DEF MergeResolve
  <1>2. /\ s \in Slots
        /\ writer[w].arg = NoKey \/ (writer[w].op = "accept" /\ writer[w].arg \in Keys /\ SlotOf[writer[w].arg] = s)
    BY <1>1 DEF CkInv, ReqOK
  <1>3. Unchanged(w) => c = contact /\ ContactFits(c)
    BY <1>1, UnchangedRow
  <1>4. CASE CkEnds(w) /\ UNCHANGED contact
    BY <1>4, EndsKeeps
  <1>5. CASE /\ AsSeen(c, w) /\ k \notin {NoKey, c.pin[s]} /\ writer[w].op = "accept"
             /\ Writes(w, Accepted(c, s, k), NoWriter)
    <2>1. CASE Unchanged(w)
      <3>1. k \in Keys /\ SlotOf[k] = s
        BY <1>2, <1>3, <1>5, <2>1, KeyIsNot DEF ContactFits, InSlots, Contacts, KeyOrNone
      <3> QED
        BY <1>1, <1>5, <2>1, <3>1, AcceptKeeps
    <2>2. CASE ~Unchanged(w)
      <3> HIDE DEF c, s, k
      <3> QED
        BY <1>1, <1>5, <2>2, MergeKeeps
    <2> QED
      BY <2>1, <2>2
  <1>6. CASE k \notin {NoKey, c.pin[s]} /\ writer[w].op = "reject" /\ Writes(w, Rejected(c, s), NoWriter)
    <2>1. c.confl[s] # NoKey
      BY <1>2, <1>6
    <2>2. Unchanged(w) => ContactFits(Rejected(c, s)) /\ Keeps(contact, Rejected(c, s))
      BY <1>2, <1>3, <2>1, RejectedKeeps
    <2> HIDE DEF c, s, k
    <2> QED
      BY <1>1, <1>6, <2>2, MergeKeeps
  <1> QED
    BY <1>1, <1>4, <1>5, <1>6 DEF MergeResolve

\* A key that expires keeps it.
LEMMA KeyExpiresKeeps ==
    ASSUME CkInv, NEW k \in Keys, KeyExpires(k)
    PROVE  CkInv' /\ StepKeeps
  <1>1. UNCHANGED <<contact, writer>>
    BY DEF KeyExpires
  <1>2. CkInv'
    BY <1>1 DEF CkInv, ContactFits, InSlots, Open, ReqOK, ReadFits
  <1> QED
    BY <1>1, <1>2, RowStays DEF CkInv

\* The deletion of the contact keeps it.
LEMMA ContactDeletedKeeps ==
    ASSUME CkInv, ContactDeleted
    PROVE  CkInv' /\ StepKeeps
  <1>1. contact' = [NoContact EXCEPT !.rev = contact.rev + 1] /\ UNCHANGED writer /\ contact.rev \in Nat
    BY DEF ContactDeleted, CkInv, ContactFits, Contacts
  <1>2. NoContact \in Contacts /\ InSlots(NoContact) /\ Open(NoContact) /\ NoContact.there = FALSE
    BY NoContactFits DEF ContactFits, NoContact
  <1>3. /\ contact' \in Contacts /\ contact'.rev = contact.rev + 1 /\ contact'.there = FALSE
        /\ contact'.pin = NoContact.pin
        /\ contact'.confl = NoContact.confl /\ contact'.rej = NoContact.rej /\ contact'.prev = NoContact.prev
    BY <1>1, <1>2 DEF Contacts
  <1>4. ContactFits(contact')
    BY <1>2, <1>3 DEF ContactFits, InSlots, Open
  <1>5. \A v \in CkWriters : ReqOK(writer'[v]) /\ ReadFits(writer'[v], contact')
    BY <1>1, <1>3 DEF CkInv, ReadFits
  <1>6. CkInv'
    BY <1>1, <1>4, <1>5 DEF CkInv
  <1> QED
    BY <1>3, <1>6 DEF StepKeeps

\* Every step keeps it, and what the contact holds.
LEMMA CkStep == CkInv /\ [CkNext]_ckvars => CkInv' /\ [StepKeeps]_ckvars
  <1> SUFFICES ASSUME CkInv, [CkNext]_ckvars PROVE CkInv' /\ [StepKeeps]_ckvars
    OBVIOUS
  <1>1. CASE UNCHANGED ckvars
    <2>1. CkInv'
      BY <1>1 DEF ckvars, CkInv, ContactFits, InSlots, Open, ReqOK, ReadFits
    <2> QED
      BY <1>1, <2>1
  <1>2. ASSUME NEW w \in CkWriters,
               \/ HeaderArrives(w) \/ LookupAsked(w) \/ TrustAsked(w) \/ ResolveAsked(w) \/ ReadContact(w)
               \/ MergeHeader(w) \/ MergeDiscovered(w) \/ MergeTrust(w) \/ MergeResolve(w)
        PROVE  CkInv' /\ StepKeeps
    BY <1>2, HeaderArrivesKeeps, LookupAskedKeeps, TrustAskedKeeps, ResolveAskedKeeps, ReadContactKeeps,
       MergeHeaderKeeps,
       MergeDiscoveredKeeps, MergeTrustKeeps, MergeResolveKeeps
  <1> QED
    BY <1>1, <1>2, KeyExpiresKeeps, ContactDeletedKeeps DEF CkNext

\* The invariant holds of every reachable state of the contact's keys.
THEOREM KeyringInductive == CkSpec => []CkInv
  <1>1. CkInit => CkInv
    BY CkStarts
  <1>2. CkInv /\ [CkNext]_ckvars => CkInv'
    BY CkStep
  <1> QED
    BY <1>1, <1>2, PTL DEF CkSpec

\* While the contact stands no pinned key is lost or replaced without a successor it vouches for or the decision of the
\* user who saw it, whatever headers, lookups and requests cross (KeyringKept: writeContactKeys, applyDiscoveredKeys).
THEOREM KeyringStaysKept == CkSpec => KeyringKept
  <1>1. CkInit => CkInv
    BY CkStarts
  <1>2. CkInv /\ [CkNext]_ckvars => CkInv'
    BY CkStep
  <1>3. CkInv /\ [CkNext]_ckvars =>
        [ contact.there /\ contact'.there =>
          /\ \A s \in Slots : contact.pin[s] \notin {NoKey, contact'.pin[s]} =>
                /\ contact.pin[s] \in contact'.prev
                /\ CanReplaceAutomatically(contact'.sev, contact.pin[s], contact'.pin[s]) \/ Deciding(s)
          /\ \A k \in HeldKeys(contact) : contact'.sev[k] >= contact.sev[k] \/ (\E s \in Slots :
              Deciding(s) /\ contact'.pin[s] = k)
          /\ contact'.seen >= contact.seen
          /\ ConflictIsOpen' ]_ckvars
    BY CkStep DEF StepKeeps
  <1> QED
    BY <1>1, <1>2, <1>3, PTL DEF CkSpec, KeyringKept

================================================================================
