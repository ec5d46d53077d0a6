------------------------------ MODULE Plugins ------------------------------
(***************************************************************************)
(* The plugin table and the requests that change it (BasePluginRoute).     *)
(* Every change is planned on a snapshot, written row by row under version *)
(* checks, looked at again, and undone newest first when another change    *)
(* made it wrong (applyChange).  An uploaded pack lives in the blob store  *)
(* under the hash of its bytes, here the pair of its name and version.     *)
(***************************************************************************)
EXTENDS Naturals, Sequences, FiniteSets, FiniteSetsExt, SequencesExt

CONSTANTS Packages, PkgVersions,
          Needs,          \* [of, at, dep, range]: version `at` of `of` requires `dep` in `range`
          Overlaps,       \* pairs of packages whose UI apps mount at overlapping paths
          PlRequests, MaxPlRequests, MaxPlFaults

VARIABLES prow,           \* the row of each package
          preq,           \* the requests being served
          packs,          \* the uploaded packs in the blob store
          plcount,        \* [begun, faults]
          leaned,         \* ghost: requests whose unfinished change another request judged by
          plghost         \* ghost: [built, crossed], see Leaning and Crossing

plvars == <<prow, preq, packs, plcount, leaned, plghost>>

NoRow == [st |-> "absent", ver |-> 0, pack |-> FALSE, rev |-> 0]
NoReq == [pc |-> "idle", kind |-> "add", name |-> CHOOSE p \in Packages : TRUE, ver |-> 0, on |-> FALSE,
          row |-> NoRow, todo |-> <<>>, undo |-> <<>>, names |-> {}, had |-> {}, ok |-> TRUE, drop |-> {}]

Installed(row) == row.st \in {"off", "on"}
Key(p, row) == <<p, row.ver>>

-----------------------------------------------------------------------------
(* Requirements, mounts and plans.                                         *)

Unmet(rows, names) ==
    {n \in Needs : /\ rows[n.of].st = "on" /\ rows[n.of].ver = n.at
                   /\ n.of \in names \/ n.dep \in names
                   /\ ~(rows[n.dep].st = "on" /\ rows[n.dep].ver \in n.range)}

MountConflicts(rows, names) ==
    {o \in Overlaps : o \cap names # {} /\ \A p \in o : rows[p].st = "on"}

Problems(rows, names) == <<Unmet(rows, names), MountConflicts(rows, names)>>
Worse(now, before) == now[1] \ before[1] # {} \/ now[2] \ before[2] # {}

Dependents(rows, p) ==
    {n.of : n \in {m \in Needs : m.dep = p /\ m.of # p /\ rows[m.of].st = "on" /\ rows[m.of].ver = m.at}}

\* The plan of a change: its writes, requirements before the plugin that has them.
RECURSIVE Visit(_, _, _, _, _)
Visit(rows, plan, name, ver, path) ==
    FoldSet(LAMBDA n, acc :
        LET row == rows[n.dep]
            v == IF Installed(row) THEN row.ver ELSE IF n.range = {} THEN 0 ELSE Max(n.range)
            deeper == Visit(rows, [acc EXCEPT !.planned[n.dep] = v], n.dep, v, path \cup {n.dep})
        IN  CASE n.dep \in path -> [acc EXCEPT !.ok = FALSE]
              [] acc.planned[n.dep] # 0 -> [acc EXCEPT !.ok = @ /\ acc.planned[n.dep] \in n.range]
              [] v \notin n.range -> [acc EXCEPT !.ok = FALSE]
              [] row.st = "on" -> acc
              [] OTHER -> [deeper EXCEPT !.writes = Append(@,
                    [name |-> n.dep, how |-> IF Installed(row) THEN "set" ELSE "install",
                     row |-> [row EXCEPT !.st = "on", !.ver = v, !.pack = Installed(row) /\ @]])],
        plan, {n \in Needs : n.of = name /\ n.at = ver})

Plan(rows, name, ver) ==
    LET first == [planned |-> [p \in Packages |-> IF p = name THEN ver ELSE 0], writes |-> <<>>,
                  ok |-> \A n \in Needs : n.dep = name /\ rows[n.of].st = "on" /\ rows[n.of].ver = n.at
                                             /\ n.of # name => ver \in n.range]
        plan == Visit(rows, first, name, ver, {name})
        changed == {name} \cup {plan.writes[i].name : i \in DOMAIN plan.writes}
        after == [p \in Packages |-> IF p \in changed THEN [rows[p] EXCEPT !.st = "on"] ELSE rows[p]]
    IN  [ok |-> plan.ok /\ MountConflicts(after, changed) = {}, writes |-> plan.writes, names |-> changed]

-----------------------------------------------------------------------------
PlInit == /\ prow = [p \in Packages |-> NoRow]
          /\ preq = [r \in PlRequests |-> NoReq]
          /\ packs = {}
          /\ plcount = [begun |-> 0, faults |-> 0]
          /\ leaned = {}
          /\ plghost = [built |-> FALSE, crossed |-> FALSE]

Pending(r) == preq[r].undo # <<>>
InFlight(r) == preq[r].pc # "idle"

\* Judging by rows another request wrote and may still take back.
Unsettled(r) == {q \in PlRequests \ {r} : Pending(q)}
Leaning(r) == leaned' = leaned \cup Unsettled(r)

\* update() and remove() read their row first; an upload stores its pack before the row names it.
Begin(r) ==
    /\ preq[r].pc = "idle" /\ plcount.begun < MaxPlRequests
    /\ \E kind \in {"add", "upload", "update", "remove"}, p \in Packages, v \in PkgVersions, on \in BOOLEAN :
        /\ kind \in {"update", "remove"} => Installed(prow[p])
        /\ kind # "update" => on
        /\ kind = "remove" => v = prow[p].ver
        /\ preq' = [preq EXCEPT ![r] = [NoReq EXCEPT !.pc = "plan", !.kind = kind, !.name = p, !.ver = v,
                                                     !.on = on, !.row = prow[p], !.names = {p}]]
    /\ plcount' = [plcount EXCEPT !.begun = @ + 1]
    /\ plghost' = [plghost EXCEPT !.crossed = @ \/ \E q \in PlRequests :
                        preq[q].pc = "drop" /\ \E k \in preq[q].drop : k[1] = preq'[r].name]
    /\ Leaning(r) /\ UNCHANGED <<prow, packs>>

\* A request's own write, and its decision: whether it goes ahead, which rows it touches, what it writes.
Own(q, st, pack) == [name |-> q.name, how |-> IF Installed(q.row) THEN "set" ELSE "install",
                     row |-> [q.row EXCEPT !.st = st, !.ver = q.ver, !.pack = pack]]
Alone(q, ok, st, pack) == [ok |-> ok, names |-> {q.name}, writes |-> <<Own(q, st, pack)>>]
WithPlan(q, pack) ==
    LET plan == Plan(prow, q.name, q.ver)
    IN  [ok |-> plan.ok, names |-> plan.names, writes |-> Append(plan.writes, Own(q, "on", pack))]

AddPlugin(q) == [WithPlan(q, FALSE) EXCEPT !.ok = @ /\ ~Installed(prow[q.name])]

UploadPlugin(q) ==
    LET after == [prow EXCEPT ![q.name].st = IF Installed(q.row) THEN @ ELSE "on", ![q.name].ver = q.ver]
    IN  Alone(q, ~Worse(Problems(after, {q.name}), Problems(prow, {q.name})),
              IF Installed(q.row) THEN q.row.st ELSE "on", TRUE)

\* An update that names a version names another one than the row has, and takes it from the registry.
UpdatePlugin(q) ==
    LET pack == q.row.pack /\ q.ver = q.row.ver
    IN  CASE ~q.on -> Alone(q, q.row.st = "on" => Dependents(prow, q.name) = {}, "off", pack)
          [] q.on /\ q.ver = q.row.ver /\ q.row.st = "on" -> Alone(q, TRUE, "on", pack)
          [] OTHER -> WithPlan(q, pack)

RemovePlugin(q) == Alone(q, Dependents(prow, q.name) = {}, "removed", q.row.pack)

Decision(q) == CASE q.kind = "add" -> AddPlugin(q)
                 [] q.kind = "upload" -> UploadPlugin(q)
                 [] q.kind = "update" -> UpdatePlugin(q)
                 [] q.kind = "remove" -> RemovePlugin(q)

Decide(r) ==
    /\ preq[r].pc = "plan"
    \* an upload and an add have read nothing before this snapshot
    /\ preq[r].kind \in {"add", "upload"} => preq[r].row = prow[preq[r].name]
    /\ LET q == preq[r]
           d == Decision(q)
       IN  IF d.ok
           THEN /\ preq' = [preq EXCEPT ![r] = [q EXCEPT !.pc = "write", !.todo = d.writes, !.names = d.names,
                                !.had = Problems(prow, d.names),
                                !.drop = IF q.row.pack /\ (q.kind = "remove" \/ q.ver # q.row.ver)
                                         THEN {Key(q.name, q.row)} ELSE {}]]
                /\ packs' = IF q.kind = "upload" THEN packs \cup {<<q.name, q.ver>>} ELSE packs
           ELSE preq' = [preq EXCEPT ![r] = NoReq] /\ UNCHANGED packs
    /\ Leaning(r) /\ UNCHANGED <<prow, plcount, plghost>>

PlWritten(p, row) == prow' = [prow EXCEPT ![p] = [row EXCEPT !.rev = prow[p].rev + 1]]
Fails(r) == preq' = [preq EXCEPT ![r].pc = "undo", ![r].ok = FALSE]

\* One row's write: an install takes over an absent or removed row, anything else is version-checked.
Write(r) ==
    /\ preq[r].pc = "write" /\ preq[r].todo # <<>>
    /\ LET w == Head(preq[r].todo)
           current == IF w.how = "install" THEN ~Installed(prow[w.name]) ELSE prow[w.name].rev = w.row.rev
       IN  IF current
           THEN /\ PlWritten(w.name, w.row)
                /\ preq' = [preq EXCEPT ![r].todo = Tail(@), ![r].undo = Append(@, [name |-> w.name,
                                row |-> prow[w.name], rev |-> prow[w.name].rev + 1])]
           ELSE Fails(r) /\ UNCHANGED prow
    /\ UNCHANGED <<packs, plcount, leaned, plghost>>

WriteFails(r) ==
    /\ preq[r].pc = "write" /\ plcount.faults < MaxPlFaults
    /\ Fails(r) /\ plcount' = [plcount EXCEPT !.faults = @ + 1]
    /\ UNCHANGED <<prow, packs, leaned, plghost>>

Refused_Never(r) == FALSE

\* The look afterwards: only a problem the snapshot did not have refuses the change.
Refused(r) == Worse(Problems(prow, preq[r].names), preq[r].had)

Ends(r, drop) ==
    /\ leaned' = (leaned \cup Unsettled(r)) \ {r}
    /\ preq' = [preq EXCEPT ![r] = IF drop = {} THEN NoReq
                                   ELSE [NoReq EXCEPT !.pc = "scan", !.drop = drop]]

Recheck(r) ==
    /\ preq[r].pc = "write" /\ preq[r].todo = <<>>
    /\ IF Refused(r) THEN Fails(r) /\ UNCHANGED leaned ELSE Ends(r, preq[r].drop)
    /\ UNCHANGED <<prow, packs, plcount, plghost>>

\* Each undo step is version-checked too: one that lost to a later write is only logged.
Undo(r) ==
    /\ preq[r].pc = "undo" /\ preq[r].undo # <<>>
    /\ LET u == Last(preq[r].undo)
       IN  IF prow[u.name].rev = u.rev THEN PlWritten(u.name, u.row) ELSE UNCHANGED prow
    /\ preq' = [preq EXCEPT ![r].undo = Front(@)]
    /\ plghost' = [plghost EXCEPT !.built = @ \/ r \in leaned]
    /\ UNCHANGED <<packs, plcount, leaned>>

Undone(r) ==
    /\ preq[r].pc = "undo" /\ preq[r].undo = <<>>
    /\ Ends(r, IF preq[r].kind = "upload" THEN {<<preq[r].name, preq[r].ver>>} ELSE {})
    /\ UNCHANGED <<prow, packs, plcount, plghost>>

\* Another request at work on the package whose pack is being dropped.
Crossing(r) == \E q \in PlRequests \ {r}, k \in preq[r].drop : InFlight(q) /\ k[1] \in preq[q].names
Crossed(r) == plghost' = [plghost EXCEPT !.crossed = @ \/ Crossing(r)]

\* dropUnreferencedBlob: the rows are read, then the pack is deleted.
Unreferenced(r) == {k \in preq[r].drop : ~\E p \in Packages : Installed(prow[p]) /\ prow[p].pack /\ Key(p, prow[p]) = k}

Scan(r) ==
    /\ preq[r].pc = "scan"
    /\ preq' = [preq EXCEPT ![r] = IF Unreferenced(r) = {} THEN NoReq ELSE [@ EXCEPT !.pc = "drop"]]
    /\ Crossed(r) /\ UNCHANGED <<prow, packs, plcount, leaned>>

Drop(r) ==
    /\ preq[r].pc = "drop"
    /\ packs' = packs \ preq[r].drop
    /\ preq' = [preq EXCEPT ![r] = NoReq]
    /\ Crossed(r) /\ UNCHANGED <<prow, plcount, leaned>>

PlNext == \E r \in PlRequests :
    \/ Begin(r) \/ Decide(r) \/ Write(r) \/ WriteFails(r) \/ Recheck(r)
    \/ Undo(r) \/ Undone(r) \/ Scan(r) \/ Drop(r)

PlSpec == PlInit /\ [][PlNext]_plvars

-----------------------------------------------------------------------------
(* Properties.                                                             *)

\* Once no change is half-way, every enabled plugin has what it requires and no two
\* enabled plugins overlap: each change looks again after it wrote and takes itself back,
\* so of two changes that cross at least the later one sees the other (applyChange).  Not
\* promised once a change was judged by another's that was then undone.
PlansHold ==
    (\A r \in PlRequests : ~Pending(r)) /\ ~plghost.built
        => Problems(prow, Packages) = <<{}, {}>>

\* A row that names an uploaded pack has it in the blob store: stored before the row is
\* written, dropped only when no row names it (dropUnreferencedBlob), unless another
\* request was at work on the same package while the pack was dropped.
PackKept ==
    plghost.crossed \/ \A p \in Packages :
        Installed(prow[p]) /\ prow[p].pack => Key(p, prow[p]) \in packs

\* The installation's plugins fit together, and each has the pack its row names (BasePluginRoute).
PluginsHold == PlansHold /\ PackKept

-----------------------------------------------------------------------------
(***************************************************************************)
(* The run that encrypts plugin secrets saved in plaintext                 *)
(* (PluginSecretEncryptor) beside the saves of the plugin route, which     *)
(* seal a secret only from the first completed run on.  Pods of an older   *)
(* release would hand a plugin the envelope itself, so the first run waits *)
(* for them to be gone.                                                    *)
(***************************************************************************)

CONSTANTS SecretRows, Copies, Savers, MaxSaves, MaxTries

VARIABLES srow,        \* each row: [held: none | plain | sealed, gone: removed, rev]
          encryptedAt, \* ConfigKeyState.pluginSecrets.encryptedAt is set
          oldPods,     \* a pod of the older release still runs
          keyLock,     \* the copies that believe they hold the key lock
          enc,         \* the encryption runs
          save,        \* the route's saves
          saves,       \* how many saves began
          psghost      \* ghost: [read, late, gaveUp], see SecretsSealed

psvars == <<srow, encryptedAt, oldPods, keyLock, enc, save, saves, psghost>>

NoPass == [pc |-> "idle", done |-> FALSE, pass |-> 1, rows |-> [p \in {} |-> 0], tries |-> 0, remaining |-> FALSE]
NoSave == [pc |-> "idle", row |-> CHOOSE p \in SecretRows : TRUE, was |-> "none", rev |-> 0, new |-> "none"]

PsInit == /\ srow \in [SecretRows -> [held : {"none", "plain"}, gone : BOOLEAN, rev : {0}]]
          /\ encryptedAt = FALSE /\ oldPods \in BOOLEAN /\ keyLock = {}
          /\ enc = [e \in Copies |-> NoPass]
          /\ save = [s \in Savers |-> NoSave] /\ saves = 0
          /\ psghost = [read |-> FALSE, late |-> FALSE, gaveUp |-> FALSE]

\* update(), upload() and installRow(): the row is read, ...
SaveBegins(s) ==
    /\ save[s].pc = "idle" /\ saves < MaxSaves
    /\ \E p \in SecretRows : ~srow[p].gone /\ save' = [save EXCEPT ![s] =
            [pc |-> "seal", row |-> p, was |-> srow[p].held, rev |-> srow[p].rev, new |-> "none"]]
    /\ saves' = saves + 1
    /\ UNCHANGED <<srow, encryptedAt, oldPods, keyLock, enc, psghost>>

\* ... its secret sealed if the key state says so now (a sealed one is kept as it is), ...
SaveSeals(s) ==
    /\ save[s].pc = "seal"
    /\ \E new \in {"none", "plain"} :
         save' = [save EXCEPT ![s].pc = "write", ![s].new =
            IF new = "none" THEN "none" ELSE IF encryptedAt \/ save[s].was = "sealed" THEN "sealed" ELSE "plain"]
    /\ UNCHANGED <<srow, encryptedAt, oldPods, keyLock, enc, saves, psghost>>

\* A value in plaintext written when the pass that follows the record has read the rows.
Late(rows) == psghost' = [psghost EXCEPT !.late = @ \/ (psghost.read /\ \E p \in SecretRows :
                                rows[p].held = "plain" /\ rows[p] # srow[p])]

\* ... and the row written at the version it was read, and written back if the change is undone.
SaveWrites(s) ==
    /\ save[s].pc = "write"
    /\ LET q == save[s]
       IN  IF srow[q.row].rev = q.rev
           THEN /\ srow' = [srow EXCEPT ![q.row].held = q.new, ![q.row].rev = @ + 1]
                /\ \/ save' = [save EXCEPT ![s] = NoSave]
                   \/ save' = [save EXCEPT ![s].pc = "undo", ![s].rev = @ + 1]
           ELSE save' = [save EXCEPT ![s] = NoSave] /\ UNCHANGED srow
    /\ Late(srow')
    /\ UNCHANGED <<encryptedAt, oldPods, keyLock, enc, saves>>

SaveUndone(s) ==
    /\ save[s].pc = "undo"
    /\ LET q == save[s]
       IN  IF srow[q.row].rev = q.rev
           THEN srow' = [srow EXCEPT ![q.row].held = q.was, ![q.row].rev = @ + 1]
           ELSE UNCHANGED srow
    /\ save' = [save EXCEPT ![s] = NoSave]
    /\ Late(srow')
    /\ UNCHANGED <<encryptedAt, oldPods, keyLock, enc, saves>>

PodsGone == /\ oldPods /\ oldPods' = FALSE
            /\ UNCHANGED <<srow, encryptedAt, keyLock, enc, save, saves, psghost>>

\* Only the first run asks about the rollout: later releases understand envelopes.
MayStart == encryptedAt \/ ~oldPods

\* attempt(): the state, the rollout, then the lock (which lapses under a run that outlasts it).
Attempt(e) ==
    /\ enc[e].pc = "idle" /\ MayStart /\ keyLock = {}
    /\ keyLock' = {e}
    /\ enc' = [enc EXCEPT ![e] = [NoPass EXCEPT !.pc = "list", !.done = encryptedAt]]
    /\ UNCHANGED <<srow, encryptedAt, oldPods, save, saves, psghost>>

LockLapses(e) == /\ e \in keyLock /\ keyLock' = keyLock \ {e}
                 /\ UNCHANGED <<srow, encryptedAt, oldPods, enc, save, saves, psghost>>

Holding(rows) == {p \in DOMAIN rows : rows[p].held = "plain"}
Plain(rows) == [p \in Holding(rows) |-> rows[p]]

\* encryptRows(): every row is read at once.
List(e) ==
    /\ enc[e].pc = "list"
    /\ enc' = [enc EXCEPT ![e].pc = "rows", ![e].rows = Plain(srow)]
    /\ psghost' = [psghost EXCEPT !.read = @ \/ encryptedAt]
    /\ UNCHANGED <<srow, encryptedAt, oldPods, keyLock, save, saves>>

\* encryptRow(): version-checked; a row that moved on is read again, MaxTries times at most.
EncryptRow(e) ==
    /\ enc[e].pc = "rows"
    /\ \E p \in DOMAIN enc[e].rows :
        LET left == [q \in DOMAIN enc[e].rows \ {p} |-> enc[e].rows[q]]
        IN  IF srow[p].rev = enc[e].rows[p].rev
            THEN /\ srow' = [srow EXCEPT ![p].held = IF srow[p].gone THEN "none" ELSE "sealed", ![p].rev = @ + 1]
                 /\ enc' = [enc EXCEPT ![e].rows = left, ![e].tries = 0]
                 /\ UNCHANGED psghost
            ELSE /\ UNCHANGED srow
                 /\ IF enc[e].tries + 1 < MaxTries
                    THEN /\ enc' = [enc EXCEPT ![e].tries = @ + 1,
                                ![e].rows = IF srow[p].held = "plain" THEN [@ EXCEPT ![p] = srow[p]] ELSE left]
                         /\ UNCHANGED psghost
                    ELSE /\ enc' = [enc EXCEPT ![e].tries = 0, ![e].rows = left, ![e].remaining = TRUE]
                         /\ psghost' = [psghost EXCEPT !.gaveUp = TRUE]
    /\ UNCHANGED <<encryptedAt, oldPods, keyLock, save, saves>>

Again_Never(e) == FALSE

\* The first run that leaves nothing records itself, then passes over the rows once more.
Again(e) == enc[e].pass = 1 /\ ~enc[e].done /\ ~enc[e].remaining

PassEnds(e) ==
    /\ enc[e].pc = "rows" /\ DOMAIN enc[e].rows = {}
    /\ encryptedAt' = (encryptedAt \/ (enc[e].pass = 1 /\ ~enc[e].done /\ ~enc[e].remaining))
    /\ IF Again(e)
       THEN enc' = [enc EXCEPT ![e].pc = "list", ![e].pass = 2] /\ UNCHANGED keyLock
       ELSE enc' = [enc EXCEPT ![e] = NoPass] /\ keyLock' = keyLock \ {e}
    /\ UNCHANGED <<srow, oldPods, save, saves, psghost>>

PsNext == \/ \E s \in Savers : SaveBegins(s) \/ SaveSeals(s) \/ SaveWrites(s) \/ SaveUndone(s)
          \/ PodsGone
          \/ \E e \in Copies : Attempt(e) \/ LockLapses(e) \/ List(e) \/ EncryptRow(e) \/ PassEnds(e)

PsSpec == PsInit /\ [][PsNext]_psvars

-----------------------------------------------------------------------------
(* Properties.                                                             *)

\* No envelope is on a row while a pod of the older release may read it, and once the
\* first run is recorded and over, no installed plugin's secret is left in plaintext by a
\* save that crossed it - the second pass is for those - unless it was written after that pass
\* read the rows, or the pass gave a row up after its last try (both wait for the next start).
SecretsSealed ==
    /\ oldPods => \A p \in SecretRows : srow[p].held # "sealed"
    /\ encryptedAt /\ (\A e \in Copies : enc[e].pc = "idle") /\ (\A s \in Savers : save[s].pc = "idle")
         /\ ~psghost.late /\ ~psghost.gaveUp
         => \A p \in SecretRows : srow[p].held # "plain"
=============================================================================
