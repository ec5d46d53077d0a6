-------------------------------- MODULE KeyVault -------------------------------
(****************************************************************************)
(* The key vault of one mailbox and its published keys: the owner's devices *)
(* set it up, enroll keys, add and remove unlock methods and rotate the     *)
(* master key, while signing certificates are ordered from a certificate    *)
(* authority and installed by AcmeEnrollmentDriverJob on several replicas.  *)
(* Keys and master keys are numbered in the order they were made; devices   *)
(* send the expectedMasterKeyGeneration they read, as current clients do.   *)
(****************************************************************************)
EXTENDS Naturals, FiniteSets, Sequences

CONSTANTS
    Devices, Drivers,      \* the owner's devices; replicas running the job
    Methods,               \* unlock methods besides escrow
    MaxKeys, MaxMasters,   \* bounds: keys and master keys made
    MaxTrips               \* bound: crashes of a replica, failed orders and re-creations of the mailbox

ASSUME VaultAssumption == MaxKeys \in Nat /\ MaxMasters \in Nat /\ MaxTrips \in Nat /\ "escrow" \notin Methods

VARIABLES
    vault,     \* the KeyVault row: generation, master key wraps <<method, master>>, private keys <<key, master>>
    box,       \* the mailbox: which one it is, keys and zeroAccessKeys
    enr,       \* the enrollment in the provider's store
    dev, drv,  \* what each device and each run of the job is doing, and whether what it read still is the latest
    keysMade, mastersMade,
    dropped,   \* private keys a re-key made from an older copy left out
    trips

kvVars == <<vault, box, enr, dev, drv, keysMade, mastersMade, dropped, trips>>

EmptyVault == [there |-> FALSE, gen |-> 0, wraps |-> {}, keys |-> {}]
NewBox(u) == [uid |-> u, keys |-> {}, zero |-> {}]
NoEnrollment == [st |-> "none", key |-> 0, master |-> 0, gen |-> 0, box |-> 0, digest |-> FALSE, replied |-> FALSE, ordered |-> FALSE, inst |-> FALSE]
NoDev == [at |-> "idle", gen |-> 0, master |-> 0, held |-> {}, pubs |-> {}, vault |-> FALSE, box |-> FALSE]
NoDrv == [at |-> "idle", vault |-> FALSE, enr |-> NoEnrollment]
KvInit ==
    /\ vault = EmptyVault /\ box = NewBox(1) /\ enr = NoEnrollment
    /\ dev = [d \in Devices |-> NoDev] /\ drv = [r \in Drivers |-> NoDrv]
    /\ keysMade = 0 /\ mastersMade = 0 /\ dropped = {} /\ trips = 0

Trip == trips < MaxTrips /\ trips' = trips + 1
KeysOf(S) == {x.k : x \in S}
Sealed(S) == {p[1] : p \in S}
Masters(v) == {p[2] : p \in v.wraps} \cup {p[2] : p \in v.keys}
NewKey == keysMade < MaxKeys /\ keysMade' = keysMade + 1

\* Every save carries the version that was read, so it makes the other reads of that row out of date.
DevSaves(d, v, b) == [c \in Devices |-> IF c = d THEN NoDev ELSE [dev[c] EXCEPT !.vault = @ /\ ~v, !.box = @ /\ ~b]]
DrvOutdated(v) == [r \in Drivers |-> [drv[r] EXCEPT !.vault = @ /\ ~v]]
DevEnds(d) == dev' = [dev EXCEPT ![d] = NoDev] /\ UNCHANGED drv

--------------------------------------------------------------------------------
(* BaseKeyVaultRoute                                                        *)
\* get(): the device unlocks what it reads, or makes a master key for a vault that is not set up.
SetUp == vault.wraps # {} \/ vault.keys # {}
Get(d) ==
    /\ dev[d].at = "idle"
    /\ IF SetUp THEN UNCHANGED mastersMade ELSE mastersMade < MaxMasters /\ mastersMade' = mastersMade + 1
    /\ dev' = [dev EXCEPT ![d] = [NoDev EXCEPT !.at = IF SetUp THEN "unlocked" ELSE "new", !.gen = vault.gen, !.held = Sealed(vault.keys), !.pubs = KeysOf(box.keys),
                                  !.master = IF SetUp THEN CHOOSE m \in Masters(vault) : TRUE ELSE mastersMade']]
    /\ UNCHANGED <<vault, box, enr, drv, keysMade, dropped, trips>>
\* assertMasterKeyGeneration()
GenerationMatches_Unchecked(d) == TRUE
GenerationMatches(d) == dev[d].gen = vault.gen
\* A request begins: it reads the mailbox and, but for an enrollment, the vault, which must be of the device's generation.
Request(d, at) ==
    /\ dev[d].at = "unlocked" \/ (dev[d].at = "new" /\ at = "enroll")
    /\ IF GenerationMatches(d)
       THEN dev' = [dev EXCEPT ![d].at = at, ![d].vault = TRUE, ![d].box = TRUE] ELSE dev' = [dev EXCEPT ![d] = NoDev]
    /\ UNCHANGED <<vault, box, enr, drv, keysMade, mastersMade, dropped, trips>>
\* supersedeKeys()
Supersede(S, k, use) ==
    {[x EXCEPT !.live = @ /\ x.use # use] : x \in {y \in S : y.k # k}} \cup {[k |-> k, use |-> use, live |-> TRUE]}
\* assertMasterKeyWrapsAccepted(): the first enrollment brings the wraps, later ones none.
WrapsAccepted(d) == dev[d].master \notin Masters(vault) => ~SetUp
\* enrollKey(), persistEnrollment(): one transaction over both rows.
Enroll(d, use) ==
    /\ dev[d].at = "enroll"
    /\ IF WrapsAccepted(d) /\ GenerationMatches(d) /\ dev[d].box
       THEN /\ NewKey /\ drv' = DrvOutdated(TRUE) /\ dev' = DevSaves(d, TRUE, TRUE)
            /\ box' = IF use = "zero" THEN [box EXCEPT !.zero = Supersede(@, keysMade', use)] ELSE [box EXCEPT !.keys = Supersede(@, keysMade', use)]
            /\ \E m \in Methods : vault' =
                [vault EXCEPT !.there = TRUE, !.keys = @ \cup {<<keysMade', dev[d].master>>},
                              !.wraps = IF SetUp THEN @ ELSE {<<m, dev[d].master>>}]
       ELSE DevEnds(d) /\ UNCHANGED <<box, vault, keysMade>>
    /\ UNCHANGED <<enr, mastersMade, dropped, trips>>
\* addMasterKeyWrap(), of an assigned escrow scope too.
AddWrap(d, m) ==
    /\ dev[d].at = "wrap"
    /\ IF dev[d].vault THEN /\ vault' = [vault EXCEPT !.wraps = @ \cup {<<m, dev[d].master>>}]
                            /\ dev' = DevSaves(d, TRUE, FALSE) /\ drv' = DrvOutdated(TRUE)
       ELSE DevEnds(d) /\ UNCHANGED vault
    /\ UNCHANGED <<box, enr, keysMade, mastersMade, dropped, trips>>
\* removeMasterKeyWrap(): never the last one the owner can unlock with.
Unlocks(W) == {w \in W : w[1] # "escrow"}
RemoveWrap(d, m) ==
    LET rest == {w \in vault.wraps : w[1] # m} IN
    /\ dev[d].at = "unwrap" /\ m # "escrow"
    /\ IF dev[d].vault /\ rest # vault.wraps /\ Unlocks(rest) # {}
       THEN vault' = [vault EXCEPT !.wraps = rest] /\ dev' = DevSaves(d, TRUE, FALSE) /\ drv' = DrvOutdated(TRUE)
       ELSE DevEnds(d) /\ UNCHANGED vault
    /\ UNCHANGED <<box, enr, keysMade, mastersMade, dropped, trips>>
\* recordExport() marks the mailbox, and so is a writer of its row.
RecordExport(d) ==
    /\ dev[d].at = "unlocked" /\ box.zero # {} /\ \E c \in Devices \ {d} : dev[c].box
    /\ dev' = DevSaves(d, FALSE, TRUE)
    /\ UNCHANGED <<vault, box, enr, drv, keysMade, mastersMade, dropped, trips>>

\* rekey(): what the device read and unlocked, under a new master key; not while a signing enrollment holds a key.
Outstanding(e) == e.st = "pending" \/ (e.st = "issued" /\ ~e.inst)
InFlight == Outstanding(enr) /\ enr.master # 0 /\ enr.box = box.uid
RekeyChecked(d) ==
    /\ dev[d].at = "rekey" /\ (IF InFlight THEN dev' = [dev EXCEPT ![d] = NoDev] ELSE dev' = [dev EXCEPT ![d].at = "rekeying"])
    /\ UNCHANGED <<vault, box, enr, drv, keysMade, mastersMade, dropped, trips>>
EscrowCarriedOver(W) == "escrow" \in {w[1] : w \in vault.wraps} => "escrow" \in W
Rekey(d, W) ==
    /\ dev[d].at = "rekeying" /\ EscrowCarriedOver(W) /\ W \ {"escrow"} # {}
    /\ IF dev[d].vault /\ dev[d].box
       THEN /\ mastersMade < MaxMasters /\ mastersMade' = mastersMade + 1
            /\ vault' = [there |-> TRUE, gen |-> vault.gen + 1, wraps |-> W \X {mastersMade'}, keys |-> dev[d].held \X {mastersMade'}]
            /\ \E gone \in {0} \cup dev[d].pubs :   \* perhaps revoked as compromised
                box' = [box EXCEPT !.keys = {[x EXCEPT !.live = @ /\ x.k # gone] : x \in {y \in @ : y.k \in dev[d].pubs}}]
            /\ dropped' = dropped \cup (Sealed(vault.keys) \ dev[d].held)
            /\ dev' = DevSaves(d, TRUE, TRUE) /\ drv' = DrvOutdated(TRUE)
       ELSE DevEnds(d) /\ UNCHANGED <<vault, box, mastersMade, dropped>>
    /\ UNCHANGED <<enr, keysMade, trips>>

\* startSignEnrollment(): the order, then the wrapped key with the mailbox and generation it was sealed for.
StartEnrollment(d) ==
    /\ dev[d].at = "sign"
    /\ IF enr.st = "none" THEN /\ NewKey /\ enr' = [NoEnrollment EXCEPT !.st = "pending", !.key = keysMade'] /\ dev' = [dev EXCEPT ![d].at = "attach"]
       ELSE UNCHANGED <<enr, keysMade>> /\ dev' = [dev EXCEPT ![d] = NoDev]
    /\ UNCHANGED <<vault, box, drv, mastersMade, dropped, trips>>
AttachWrappedKey(d) ==
    /\ dev[d].at = "attach" /\ enr' = [enr EXCEPT !.master = dev[d].master, !.gen = dev[d].gen, !.box = box.uid] /\ DevEnds(d)
    /\ UNCHANGED <<vault, box, keysMade, mastersMade, dropped, trips>>
\* cancelSignEnrollment(), cancelEnrollment(), rejectEnrollment(), markFailed()
Failed(e) == IF Outstanding(e) THEN [e EXCEPT !.st = "failed"] ELSE e
CancelEnrollment(d) ==
    /\ dev[d].at = "unlocked" /\ Outstanding(enr) /\ enr' = Failed(enr) /\ DevEnds(d)
    /\ UNCHANGED <<vault, box, keysMade, mastersMade, dropped, trips>>
\* The mailbox is erased and its address given to a new one.
Recreate ==
    /\ box.uid = 1 /\ vault.there /\ Trip /\ box' = NewBox(2) /\ vault' = EmptyVault
    /\ dev' = [d \in Devices |-> NoDev] /\ drv' = DrvOutdated(TRUE) /\ UNCHANGED <<enr, keysMade, mastersMade, dropped>>

--------------------------------------------------------------------------------
(* Rfc8823AcmeSigningCertificateEnrollment, Manual... and the job           *)
\* recordChallengeToken(): replaced until the reply is sent.
RecordChallengeToken ==
    /\ enr.st = "pending" /\ ~enr.replied /\ ~enr.digest /\ enr' = [enr EXCEPT !.digest = TRUE]
    /\ UNCHANGED <<vault, box, dev, drv, keysMade, mastersMade, dropped, trips>>
\* uploadCertificate() of the manual provider: an administrator brings the certificate.
UploadCertificate ==
    /\ enr.st = "pending" /\ enr.master # 0 /\ enr' = [enr EXCEPT !.st = "issued"]
    /\ UNCHANGED <<vault, box, dev, drv, keysMade, mastersMade, dropped, trips>>
\* driveEnrollments(), checkNow(): what is listed as pending or issued.
ListPending(r) ==
    /\ drv[r].at = "idle" /\ Outstanding(enr)
    /\ drv' = [drv EXCEPT ![r] = [NoDrv EXCEPT !.at = IF enr.st = "pending" THEN "advance" ELSE "material", !.enr = enr]]
    /\ UNCHANGED <<vault, box, enr, dev, keysMade, mastersMade, dropped, trips>>
\* advance(): expired, waiting for the challenge, reply and completeChallenge(), finalizeOrder(), the certificate, or an invalid order.
Advance(r) ==
    LET e == drv[r].enr IN
    /\ drv[r].at = "advance" /\ drv' = [drv EXCEPT ![r].at = "material"]
    /\ \/ ~e.ordered /\ Trip /\ enr' = [enr EXCEPT !.st = "failed"]
       \/ ~e.digest /\ UNCHANGED <<enr, trips>>
       \/ e.digest /\ ~e.replied /\ enr' = [enr EXCEPT !.replied = TRUE] /\ UNCHANGED trips
       \/ e.replied /\ ~e.ordered /\ enr' = [enr EXCEPT !.ordered = TRUE] /\ UNCHANGED trips
       \/ e.replied /\ e.ordered /\ enr' = [enr EXCEPT !.st = "issued"] /\ UNCHANGED trips
       \/ e.replied /\ Trip /\ enr' = [enr EXCEPT !.st = "failed"]
    /\ UNCHANGED <<vault, box, dev, keysMade, mastersMade, dropped>>
\* getIssuedMaterial(), then the checks of installCertificate().
HasKey(k) == k \in Sealed(vault.keys)
Published(k) == k \in KeysOf(box.keys)
Refused(e) == e.box # box.uid \/ (~HasKey(e.key) /\ e.gen # vault.gen)
GetMaterial(r) ==
    /\ drv[r].at = "material"
    /\ drv' = [drv EXCEPT ![r] = IF enr.st = "issued" /\ enr.master # 0 THEN [NoDrv EXCEPT !.at = "check", !.enr = enr] ELSE NoDrv]
    /\ UNCHANGED <<vault, box, enr, dev, keysMade, mastersMade, dropped, trips>>
\* The private key is saved before the certificate is published.
Halves == <<"vault", "publish">>
Check(r) ==
    LET e == drv[r].enr IN
    /\ drv[r].at = "check"
    /\ drv' = [drv EXCEPT ![r].at = IF Refused(e) THEN "refuse" ELSE IF HasKey(e.key) /\ Published(e.key) THEN "mark"
                                    ELSE IF HasKey(e.key) THEN "publish" ELSE Halves[1], ![r].vault = TRUE]
    /\ UNCHANGED <<vault, box, enr, dev, keysMade, mastersMade, dropped, trips>>
InstallKey(r) ==
    LET e == drv[r].enr IN
    /\ drv[r].at = "vault"
    /\ IF drv[r].vault
       THEN /\ vault' = [vault EXCEPT !.there = TRUE, !.keys = @ \cup {<<e.key, e.master>>}]
            /\ drv' = [DrvOutdated(TRUE) EXCEPT ![r].at = IF Halves[2] = "vault" THEN "mark" ELSE "publish"]
            /\ dev' = [d \in Devices |-> [dev[d] EXCEPT !.vault = FALSE]]
       ELSE drv' = [drv EXCEPT ![r] = NoDrv] /\ UNCHANGED <<vault, dev>>
    /\ UNCHANGED <<box, enr, keysMade, mastersMade, dropped, trips>>
\* The mailbox's row is read again for its update; a row that is gone fails it.
PublishKey(r) ==
    LET e == drv[r].enr IN
    /\ drv[r].at = "publish"
    /\ IF e.box = box.uid
       THEN /\ box' = [box EXCEPT !.keys = Supersede(@, e.key, "sign")] /\ dev' = [d \in Devices |-> [dev[d] EXCEPT !.box = FALSE]]
            /\ drv' = [drv EXCEPT ![r].at = IF Halves[2] = "publish" THEN "mark" ELSE "vault"]
       ELSE drv' = [drv EXCEPT ![r] = NoDrv] /\ UNCHANGED <<box, dev>>
    /\ UNCHANGED <<vault, enr, keysMade, mastersMade, dropped, trips>>
\* markInstalled(); a refused one is cancelled.
Mark(r) ==
    /\ drv[r].at \in {"mark", "refuse"} /\ drv' = [drv EXCEPT ![r] = NoDrv]
    /\ enr' = IF drv[r].at = "mark" THEN [enr EXCEPT !.inst = TRUE] ELSE Failed(enr)
    /\ UNCHANGED <<vault, box, dev, keysMade, mastersMade, dropped, trips>>
DriverDies(r) ==
    /\ drv[r].at # "idle" /\ Trip /\ drv' = [drv EXCEPT ![r] = NoDrv]
    /\ UNCHANGED <<vault, box, enr, dev, keysMade, mastersMade, dropped>>

KvNext ==
    \/ \E d \in Devices :
        \/ Get(d) \/ RecordExport(d) \/ RekeyChecked(d) \/ StartEnrollment(d) \/ AttachWrappedKey(d) \/ CancelEnrollment(d)
        \/ \E at \in {"enroll", "wrap", "unwrap", "rekey", "sign"} : Request(d, at)
        \/ \E use \in {"encrypt", "zero"} : Enroll(d, use)
        \/ \E m \in Methods \cup {"escrow"} : AddWrap(d, m) \/ RemoveWrap(d, m)
        \/ \E W \in SUBSET (Methods \cup {"escrow"}) : Rekey(d, W)
    \/ Recreate \/ RecordChallengeToken \/ UploadCertificate
    \/ \E r \in Drivers :
        ListPending(r) \/ Advance(r) \/ GetMaterial(r) \/ Check(r) \/ InstallKey(r) \/ PublishKey(r) \/ Mark(r) \/ DriverDies(r)
KvSpec == KvInit /\ [][KvNext]_kvVars

--------------------------------------------------------------------------------
\* The vault opens: whatever devices and the job put into it at the same time, all of it is of one master key, which the
\* owner can unlock.
VaultOpens == Cardinality(Masters(vault)) <= 1 /\ (vault.keys # {} => Unlocks(vault.wraps) # {})
\* Nothing is published, or encrypted to, whose private key the owner does not hold, but for keys that a re-key made
\* from an older copy of the vault left out; and each use has one key at most that is not revoked.
PublishedIsHeld ==
    /\ KeysOf(box.keys \cup box.zero) \subseteq Sealed(vault.keys) \cup dropped
    /\ \A x, y \in box.keys \cup box.zero : x.live /\ y.live /\ x.use = y.use => x = y

\* Whatever is published or encrypted to can be opened by the owner (BaseKeyVaultRoute, AcmeEnrollmentDriverJob).
VaultHolds == VaultOpens /\ PublishedIsHeld

--------------------------------------------------------------------------------
(****************************************************************************)
(* The zero-access keys of a mailbox without an owner: managers enroll      *)
(* them, wrap them to the members' own certificates and to the escrow scope *)
(* the mailbox is assigned to, and take away the wraps of members who left, *)
(* while access, certificates and assignment change. Keys are numbered.     *)
(****************************************************************************)

CONSTANTS
    People,                   \* users who may be members; each has a certificate of their own
    Scopes, NoScope,          \* escrow scopes
    MaxShared, MaxWraps,      \* MAX_ENROLLED_KEYS, MAX_MEMBER_KEY_WRAPS_TOTAL
    MaxMoves                  \* bound: changes of access, certificates and assignment

ASSUME SharedAssumption == NoScope \notin Scopes /\ MaxShared \in Nat /\ MaxWraps \in Nat /\ MaxMoves \in Nat

VARIABLES
    access,    \* what the mailbox's access list gives each user: none, read or full
    cert,      \* which certificate of their own each user has
    shBox,     \* the mailbox: how many zeroAccessKeys (the last one is active), escrowScopeId
    wraps,     \* memberKeyWraps: <<user, certificate, key>>
    escWraps,  \* zeroAccessEscrowWraps: <<scope, key>>
    inScope,   \* the scope the mailbox was in when each key was enrolled
    shReq,     \* each manager's request, with what it read and whether that still is the latest
    moves

shVars == <<access, cert, shBox, wraps, escWraps, inScope, shReq, moves>>
NoShReq == [at |-> "idle", box |-> [keys |-> 0, scope |-> NoScope], gives |-> {}, gone |-> {}, read |-> {}, esc |-> {}, mbox |-> FALSE, vault |-> FALSE]
ShInit ==
    /\ \E m \in People : access \in {f \in [People -> {"none", "read", "full"}] : f[m] = "full"}
    /\ cert = [u \in People |-> 1] /\ shBox = [keys |-> 0, scope |-> NoScope]
    /\ wraps = {} /\ escWraps = {} /\ inScope = <<>> /\ shReq = [u \in People |-> NoShReq] /\ moves = 0

\* zeroAccessMembers(), requireMailboxManager()
Members == {u \in People : access[u] # "none"}
Manager(u) == access[u] = "full"
Asks(u, at, q) == shReq[u].at = "idle" /\ Manager(u) /\ shReq' = [shReq EXCEPT ![u] = [q EXCEPT !.at = at, !.box = shBox]]
\* A save by version: the other requests' reads of the rows are out of date.
ShSaves(u, v, b) == [q \in People |-> IF q = u THEN NoShReq ELSE [shReq[q] EXCEPT !.vault = @ /\ ~v, !.mbox = @ /\ ~b]]
ShEnds(u) == shReq' = [shReq EXCEPT ![u] = NoShReq]
\* validateMemberWraps(): wraps for members, to the certificates they have.
WrapsFor(U, k) == {<<u, cert[u], k>> : u \in U}
\* assertMemberWrapBounds()
Fits(W) == Cardinality(W) <= MaxWraps

\* enrollSharedZeroAccessKey(): members, mailbox and scope are read, then the certificate is issued; the manager's own
\* wrap is required.
EnrollShared(u, U) ==
    /\ u \in U /\ U \subseteq Members /\ shBox.keys < MaxShared
    /\ Asks(u, "persist", [NoShReq EXCEPT !.gives = WrapsFor(U, shBox.keys + 1), !.mbox = TRUE])
    /\ UNCHANGED <<access, cert, shBox, wraps, escWraps, inScope, moves>>
\* persistSharedEnrollment(): the mailbox as it was read first and the vault as it is now, in one transaction.
BoxUnchanged(u) == shReq[u].mbox
PersistSharedEnrollment(u) ==
    LET q == shReq[u] IN
    /\ q.at = "persist"
    /\ IF BoxUnchanged(u) /\ Fits(wraps \cup q.gives)
       THEN /\ shBox' = [shBox EXCEPT !.keys = q.box.keys + 1] /\ wraps' = wraps \cup q.gives
            /\ escWraps' = escWraps \cup {<<s, q.box.keys + 1>> : s \in {q.box.scope} \ {NoScope}}
            /\ inScope' = Append(inScope, shBox.scope) /\ shReq' = ShSaves(u, TRUE, TRUE)
       ELSE ShEnds(u) /\ UNCHANGED <<shBox, wraps, escWraps, inScope>>
    /\ UNCHANGED <<access, cert, moves>>

\* putMemberKeyWraps(): of keys the manager opens, checked against what was read first.
PutMemberKeyWraps(u, U, k) ==
    /\ U # {} /\ U \subseteq Members /\ <<u, cert[u], k>> \in wraps
    /\ Asks(u, "find", [NoShReq EXCEPT !.gives = WrapsFor(U, k)])
    /\ UNCHANGED <<access, cert, shBox, wraps, escWraps, inScope, moves>>
\* removeMemberKeyWraps(): of somebody who is not a member any more.
RemoveMemberKeyWraps(u, v) ==
    /\ v \notin Members /\ Asks(u, "find", [NoShReq EXCEPT !.gone = {v}])
    /\ UNCHANGED <<access, cert, shBox, wraps, escWraps, inScope, moves>>
\* putZeroAccessEscrowWraps(): of the mailbox's keys the manager opens, for the scope it is assigned to.
PutEscrowWraps(u) ==
    LET mine == {k \in 1..shBox.keys : <<u, cert[u], k>> \in wraps} IN
    /\ shBox.scope # NoScope /\ mine # {} /\ Asks(u, "find", [NoShReq EXCEPT !.esc = {shBox.scope} \X mine])
    /\ UNCHANGED <<access, cert, shBox, wraps, escWraps, inScope, moves>>
\* findKeyVault(), findOrCreateKeyVault(): the vault is read after the checks.
FindKeyVault(u) ==
    /\ shReq[u].at = "find" /\ shReq' = [shReq EXCEPT ![u].at = "save", ![u].read = wraps, ![u].esc = @ \cup escWraps, ![u].vault = TRUE]
    /\ UNCHANGED <<access, cert, shBox, wraps, escWraps, inScope, moves>>
\* keyVaultRepo.update() with the version that was read; a wrap of the same member and key is replaced.
VaultUnchanged_Unchecked(u) == TRUE
VaultUnchanged(u) == shReq[u].vault
SaveWraps(u) ==
    LET q == shReq[u]
        kept == {w \in q.read : w[1] \notin q.gone /\ ~\E g \in q.gives : g[1] = w[1] /\ g[3] = w[3]} IN
    /\ q.at = "save"
    /\ IF VaultUnchanged(u) /\ Fits(kept \cup q.gives)
       THEN wraps' = kept \cup q.gives /\ escWraps' = q.esc /\ shReq' = ShSaves(u, TRUE, FALSE)
       ELSE ShEnds(u) /\ UNCHANGED <<wraps, escWraps>>
    /\ UNCHANGED <<access, cert, shBox, inScope, moves>>

\* Access is given and taken, a user's own key is replaced, and the mailbox is assigned to another scope.
Moved == moves < MaxMoves /\ moves' = moves + 1
ChangeAccess(u, a) ==
    /\ Moved /\ a # access[u] /\ access' = [access EXCEPT ![u] = a]
    /\ UNCHANGED <<cert, shBox, wraps, escWraps, inScope, shReq>>
ReplaceOwnKey(u) ==
    /\ Moved /\ cert' = [cert EXCEPT ![u] = @ + 1]
    /\ UNCHANGED <<access, shBox, wraps, escWraps, inScope, shReq>>
AssignScope(s) ==
    /\ Moved /\ s # shBox.scope /\ shBox' = [shBox EXCEPT !.scope = s] /\ shReq' = [q \in People |-> [shReq[q] EXCEPT !.mbox = FALSE]]
    /\ UNCHANGED <<access, cert, wraps, escWraps, inScope>>

ShNext ==
    \/ \E u \in People :
        \/ PersistSharedEnrollment(u) \/ PutEscrowWraps(u) \/ FindKeyVault(u) \/ SaveWraps(u) \/ ReplaceOwnKey(u)
        \/ \E U \in SUBSET People : EnrollShared(u, U) \/ \E k \in 1..shBox.keys : PutMemberKeyWraps(u, U, k)
        \/ \E v \in People : RemoveMemberKeyWraps(u, v)
        \/ \E a \in {"none", "read", "full"} : ChangeAccess(u, a)
    \/ \E s \in Scopes \cup {NoScope} : AssignScope(s)

--------------------------------------------------------------------------------
\* A wrap somebody was given stays until it is replaced by one of the same member and key, or until a manager removes that
\* member's wraps: of two managers at work on one vault neither undoes the other's.
WrapsKept ==
    [][\A w \in wraps \ wraps' :
        \/ \E n \in wraps' : n[1] = w[1] /\ n[3] = w[3]
        \/ \E u \in People : shReq[u].at = "save" /\ w[1] \in shReq[u].gone]_shVars
\* Every key that was enrolled while the mailbox was in an escrow scope can be opened by that scope's holders, even when the
\* assignment changed while the key was being issued.
EscrowFollows == \A k \in 1..Len(inScope) : inScope[k] # NoScope => <<inScope[k], k>> \in escWraps

\* A shared mailbox's keys stay with the members and the escrow holders they were given to (BaseKeyVaultRoute).
SharedKeysHold == []EscrowFollows /\ WrapsKept
================================================================================
