------------------------------- MODULE ConfigKeys -------------------------------
(****************************************************************************)
(* Rotation of the configuration encryption key: the key ring in its store, *)
(* the ConfigKeyState row, the ConfigCipher and the heartbeat of each server *)
(* copy, ConfigKeyRotationJob on every copy under a lock that can lapse,    *)
(* and requests that seal a secret and save it some round trips later.      *)
(*                                                                          *)
(* A key is the number of its creation: the oldest is the smallest.         *)
(* Sets of copies stand for versions: who is in stFresh (ringFresh,         *)
(* rowFresh) has read the version the row (ring, envelope's row) has now.   *)
(****************************************************************************)
EXTENDS Naturals, FiniteSets, FiniteSetsExt

CONSTANTS
    Copies,        \* server copies
    NoCopy,        \* nobody
    NSecrets,      \* rows that hold an envelope
    MaxRotations,  \* bound: rotations asked for
    MaxSaves,      \* bound: secrets sealed by requests
    MaxKeyFaults   \* bound: crashes, lapsed locks, lost heartbeats, stores that cannot be read

ASSUME ConfigKeysAssumption ==
    /\ NoCopy \notin Copies
    /\ {NSecrets, MaxRotations, MaxSaves, MaxKeyFaults} \subseteq Nat

VARIABLES
    ring, ringFresh,   \* the stored key ring
    state, stFresh,    \* the ConfigKeyState row
    env, rowFresh,     \* the key of each row's envelope
    up,                \* the copies that run
    loaded, known,     \* ConfigCipher of each copy: its keys, activeKid as last read
    beat,              \* the heartbeats: the keys loaded and the key encrypting, or NoBeat
    lock,              \* who has the rotation lock
    job,               \* ConfigKeyRotationJob of each copy
    sealed,            \* a request of each copy between encrypt() and update(): row and key
    slow,              \* history: the requests in flight when a recount began
    late,              \* history: the rows such a request has saved
    unseen,            \* history: a running copy had no heartbeat when the job looked
    forced,            \* history: a key was activated by hand
    outlived,          \* history: a rotation was asked for while a job was still at work on another
    made, rotations, saves, keyFaults

store    == <<ring, ringFresh, state, stFresh>>
secrets  == <<env, rowFresh, sealed, slow, late, saves>>
ciphers  == <<up, loaded, known, beat>>
keyPast  == <<unseen, forced, outlived>>
keyVars  == <<store, secrets, ciphers, lock, job, keyPast, made, rotations, keyFaults>>

Secrets == 1..NSecrets
Kids    == 1..(MaxRotations + 2)
Unread  == MaxRotations + 3     \* activeKid of a copy that has not read the row yet
NoBeat  == [kids |-> {}, enc |-> Unread]
Running == {"adding", "activating", "reencrypting", "retiring"}

StateRow == [phase: Running \cup {"none", "done", "failed"}, active: Kids \cup {0},
             kid: Kids \cup {0}, kids: SUBSET Kids, usage: SUBSET Kids]
Idle == [at |-> "idle", my |-> [phase |-> "none", active |-> 0, kid |-> 0, kids |-> {}, usage |-> {}],
         snap |-> {}, add |-> 0, pos |-> 1, used |-> {}, whole |-> TRUE]

KeyInit ==
    /\ ring = {1} /\ ringFresh = {} /\ state = Idle.my /\ stFresh = {}
    /\ env = [r \in Secrets |-> 1] /\ rowFresh = {}
    /\ up = Copies /\ loaded = [c \in Copies |-> {1}] /\ known = [c \in Copies |-> 0]
    /\ beat = [c \in Copies |-> [kids |-> {1}, enc |-> 1]]
    /\ lock = NoCopy /\ job = [c \in Copies |-> Idle]
    /\ sealed = [c \in Copies |-> [row |-> 0, kid |-> 0]] /\ slow = {} /\ late = {}
    /\ unseen = FALSE /\ forced = FALSE /\ outlived = FALSE
    /\ made = 1 /\ rotations = 0 /\ saves = 0 /\ keyFaults = 0

KeyFault == keyFaults < MaxKeyFaults /\ keyFaults' = keyFaults + 1

--------------------------------------------------------------------------------
(* ConfigCipher and ConfigKeyHeartbeat *)

\* activeKey(): the active key if loaded, the oldest while none was ever activated, the newest
\* for an active key this copy has not loaded, none before the row was read.
CurrentKid(c) ==
    IF known[c] = Unread THEN Unread
    ELSE IF known[c] = 0 THEN Min(loaded[c])
    ELSE IF known[c] \in loaded[c] THEN known[c] ELSE Max(loaded[c])

\* loadKeys(): the mounted ring has reached this copy.
LoadKeys(c) ==
    /\ c \in up /\ loaded[c] # ring /\ loaded' = [loaded EXCEPT ![c] = ring]
    /\ UNCHANGED <<store, secrets, up, known, beat, lock, job, keyPast, made, rotations, keyFaults>>

\* loadActiveKid()
LoadActiveKid(c) ==
    /\ c \in up /\ known[c] # state.active /\ known' = [known EXCEPT ![c] = state.active]
    /\ UNCHANGED <<store, secrets, up, loaded, beat, lock, job, keyPast, made, rotations, keyFaults>>

\* beat(), by the timer, by onChange() and after a notice.
Report(c) == [kids |-> loaded[c], enc |-> CurrentKid(c)]
Beat(c) ==
    /\ c \in up /\ beat[c] # Report(c) /\ beat' = [beat EXCEPT ![c] = Report(c)]
    /\ UNCHANGED <<store, secrets, up, loaded, known, lock, job, keyPast, made, rotations, keyFaults>>

\* A heartbeat outlives its copy by its TTL; that of a running copy lapses when it cannot be written.
BeatExpires(c) ==
    /\ beat[c] # NoBeat /\ beat' = [beat EXCEPT ![c] = NoBeat]
    /\ IF c \in up THEN KeyFault ELSE UNCHANGED keyFaults
    /\ UNCHANGED <<store, secrets, up, loaded, known, lock, job, keyPast, made, rotations>>

\* init(): a new process reads the ring; the active kid and the first heartbeat come later.
CopyStarts(c) ==
    /\ c \notin up /\ beat[c] = NoBeat /\ up' = up \cup {c}
    /\ loaded' = [loaded EXCEPT ![c] = ring] /\ known' = [known EXCEPT ![c] = Unread]
    /\ UNCHANGED <<store, secrets, beat, lock, job, keyPast, made, rotations, keyFaults>>

CopyDies(c) ==
    /\ c \in up /\ KeyFault /\ up' = up \ {c}
    /\ job' = [job EXCEPT ![c] = Idle] /\ sealed' = [sealed EXCEPT ![c] = [row |-> 0, kid |-> 0]]
    /\ slow' = slow \ {c} /\ stFresh' = stFresh \ {c} /\ ringFresh' = ringFresh \ {c}
    /\ rowFresh' = rowFresh \ {c}
    /\ UNCHANGED <<ring, state, env, late, saves, loaded, known, beat, lock, keyPast, made, rotations>>

--------------------------------------------------------------------------------
(* Requests that save a secret (BaseIntegrationsRoute.change()) *)

\* encrypt() refuses until the active kid was read once.
CanSeal(c) == CurrentKid(c) # Unread
\* plan(): sealed once, whatever the write has to retry.
Seals(c, r) ==
    /\ c \in up /\ sealed[c].row = 0 /\ saves < MaxSaves /\ saves' = saves + 1
    /\ CanSeal(c)
    /\ sealed' = [sealed EXCEPT ![c] = [row |-> r, kid |-> CurrentKid(c)]]
    /\ UNCHANGED <<store, env, rowFresh, slow, late, ciphers, lock, job, keyPast, made, rotations, keyFaults>>

\* save(): applied again to the newer row when another write came first.
Saves(c) ==
    /\ sealed[c].row # 0
    /\ env' = [env EXCEPT ![sealed[c].row] = sealed[c].kid]
    /\ rowFresh' = {d \in rowFresh : job[d].pos # sealed[c].row}
    /\ late' = IF c \in slow THEN late \cup {sealed[c].row} ELSE late \ {sealed[c].row}
    /\ slow' = slow \ {c} /\ sealed' = [sealed EXCEPT ![c] = [row |-> 0, kid |-> 0]]
    /\ UNCHANGED <<store, saves, ciphers, lock, job, keyPast, made, rotations, keyFaults>>

--------------------------------------------------------------------------------
(* BaseConfigKeyRoute *)

\* POST /rotate: one rotation at a time.
RotateRequest ==
    /\ state.phase \notin Running /\ rotations < MaxRotations /\ rotations' = rotations + 1
    /\ state' = [state EXCEPT !.phase = "adding", !.kid = 0, !.kids = {}] /\ stFresh' = {}
    /\ outlived' = (outlived \/ \E c \in Copies : job[c].at \notin {"idle", "load"})
    /\ UNCHANGED <<ring, ringFresh, secrets, ciphers, lock, job, unseen, forced, made, keyFaults>>

\* POST /activate: "Activate anyway".
ActivateAnyway ==
    /\ state.phase = "activating" /\ state.kid # 0
    /\ state' = [state EXCEPT !.active = state.kid, !.phase = "reencrypting"] /\ stFresh' = {}
    /\ forced' = TRUE
    /\ UNCHANGED <<ring, ringFresh, secrets, ciphers, lock, job, unseen, outlived, made, rotations, keyFaults>>

--------------------------------------------------------------------------------
(* ConfigKeyRotationJob *)

At(c, where) == job[c].at = where
Goes(c, where) == job' = [job EXCEPT ![c].at = where]
Ends(c) ==
    /\ job' = [job EXCEPT ![c] = Idle]
    /\ lock' = IF lock = c THEN NoCopy ELSE lock

\* saveState(): a versioned update; who lost the race is done for this run.
SaveState(c, new, where) ==
    IF c \in stFresh
    THEN /\ state' = new /\ stFresh' = {c}
         /\ IF where = "end" THEN Ends(c)
            ELSE job' = [job EXCEPT ![c].at = where, ![c].my = new] /\ UNCHANGED lock
    ELSE Ends(c) /\ UNCHANGED <<state, stFresh>>

\* recordError() and setWaiting(): shown on the row, unless it already says so; retried on the next run.
GivesUp(c) ==
    \/ SaveState(c, job[c].my, "end")
    \/ Ends(c) /\ UNCHANGED <<state, stFresh>>

\* run(): loadState() and acquireLock()
TakesLock(c) ==
    /\ c \in up /\ At(c, "idle") /\ state.phase \in Running
    /\ lock = NoCopy /\ lock' = c /\ Goes(c, "load")
    /\ UNCHANGED <<store, secrets, ciphers, keyPast, made, rotations, keyFaults>>

\* LOCK_TTL_MS has passed: a holder that died, or one that is still at work.
LockLapses ==
    /\ lock # NoCopy /\ lock' = NoCopy
    /\ IF lock \in up /\ ~At(lock, "idle") THEN KeyFault ELSE UNCHANGED keyFaults
    /\ UNCHANGED <<store, secrets, ciphers, job, keyPast, made, rotations>>

\* advanceRotation(): each step starts from a fresh read.
LoadsState(c) ==
    /\ At(c, "load")
    /\ IF state.phase \in Running
       THEN /\ job' = [job EXCEPT ![c] = [Idle EXCEPT !.at = state.phase, !.my = state]]
            /\ stFresh' = stFresh \cup {c} /\ UNCHANGED lock
       ELSE Ends(c) /\ UNCHANGED stFresh
    /\ UNCHANGED <<ring, ringFresh, state, secrets, ciphers, keyPast, made, rotations, keyFaults>>

\* readRing(): the store answers, cannot be read (retried), or holds no parsable ring (failed).
ReadsRing(c) ==
    /\ job[c].at \in {"adding", "retiring"}
    /\ \/ /\ job' = [job EXCEPT ![c].snap = ring, ![c].at = IF @ = "adding" THEN "kids" ELSE "choose"]
          /\ ringFresh' = ringFresh \cup {c} /\ UNCHANGED <<state, stFresh, lock, keyFaults>>
       \/ KeyFault /\ GivesUp(c) /\ UNCHANGED ringFresh
       \/ KeyFault /\ SaveState(c, [job[c].my EXCEPT !.phase = "failed"], "end") /\ UNCHANGED ringFresh
    /\ UNCHANGED <<ring, secrets, ciphers, keyPast, made, rotations>>

\* stepAdding(): the keys of the ring are recorded before a new one is written.
RecordsKids(c) ==
    /\ At(c, "kids")
    /\ IF job[c].my.kids = {}
       THEN SaveState(c, [job[c].my EXCEPT !.kids = job[c].snap], "write")
       ELSE Goes(c, "write") /\ UNCHANGED <<state, stFresh, lock>>
    /\ UNCHANGED <<ring, ringFresh, secrets, ciphers, keyPast, made, rotations, keyFaults>>

\* A key that was not in the ring then was added by a copy that stopped before recording it.
OwnKeys(c) == job[c].snap \ job[c].my.kids
\* writeRing(), refused when the ring is another than the one read.
AddsKey(c) ==
    /\ At(c, "write")
    /\ IF OwnKeys(c) # {}
       THEN /\ job' = [job EXCEPT ![c].add = Max(OwnKeys(c)), ![c].at = "record"]
            /\ UNCHANGED <<ring, ringFresh, made, state, stFresh, lock>>
       ELSE IF c \in ringFresh
       THEN /\ made + 1 \in Kids /\ made' = made + 1
            /\ ring' = job[c].snap \cup {made + 1} /\ ringFresh' = {}
            /\ job' = [job EXCEPT ![c].add = made + 1, ![c].at = "record"]
            /\ UNCHANGED <<state, stFresh, lock>>
       ELSE GivesUp(c) /\ UNCHANGED <<ring, ringFresh, made>>
    /\ UNCHANGED <<secrets, ciphers, keyPast, rotations, keyFaults>>

RecordsKey(c) ==
    /\ At(c, "record")
    /\ SaveState(c, [job[c].my EXCEPT !.kid = job[c].add, !.kids = {}, !.phase = "activating"], "load")
    /\ UNCHANGED <<ring, ringFresh, secrets, ciphers, keyPast, made, rotations, keyFaults>>

\* liveCopies(): no report is not a yes.
Live == {c \in Copies : beat[c] # NoBeat}
Looked == unseen' = (unseen \/ \E c \in up : beat[c] = NoBeat)

\* stepActivating(): every live copy has loaded the key.
EveryoneLoaded(kid) == Live # {} /\ \A d \in Live : kid \in beat[d].kids
LooksForLoaded(c) ==
    /\ At(c, "activating") /\ Looked
    /\ IF job[c].my.kid # 0 /\ EveryoneLoaded(job[c].my.kid)
       THEN Goes(c, "activate") /\ UNCHANGED <<state, stFresh, lock>>
       ELSE GivesUp(c)
    /\ UNCHANGED <<ring, ringFresh, secrets, ciphers, forced, outlived, made, rotations, keyFaults>>

Activates(c) ==
    /\ At(c, "activate")
    /\ SaveState(c, [job[c].my EXCEPT !.active = job[c].my.kid, !.phase = "reencrypting"], "load")
    /\ UNCHANGED <<ring, ringFresh, secrets, ciphers, keyPast, made, rotations, keyFaults>>

\* stepReencrypting(): every live copy encrypts with the new key, then this one's cipher reloads.
EveryoneEncrypts(kid) == EveryoneLoaded(kid) /\ \A d \in Live : beat[d].enc = kid
LooksForEncrypting(c) ==
    /\ At(c, "reencrypting") /\ Looked
    /\ IF job[c].my.active = job[c].my.kid /\ EveryoneEncrypts(job[c].my.kid)
       THEN Goes(c, "reload") /\ UNCHANGED <<state, stFresh, lock>>
       ELSE IF job[c].my.active # job[c].my.kid
       THEN SaveState(c, [job[c].my EXCEPT !.phase = "failed"], "end")
       ELSE GivesUp(c)
    /\ UNCHANGED <<ring, ringFresh, secrets, ciphers, forced, outlived, made, rotations, keyFaults>>

Reloads(c) ==
    /\ At(c, "reload")
    /\ loaded' = [loaded EXCEPT ![c] = ring] /\ known' = [known EXCEPT ![c] = state.active]
    /\ IF state.active = job[c].my.kid /\ job[c].my.kid \in ring
       THEN Goes(c, "pass") /\ UNCHANGED <<state, stFresh, lock>>
       ELSE GivesUp(c)
    /\ UNCHANGED <<ring, ringFresh, secrets, up, beat, keyPast, made, rotations, keyFaults>>

\* reencryptAll() and countEnvelopes(): row after row, by uid.
Counts(c, kid) == [job EXCEPT ![c].used = @ \cup {kid}, ![c].pos = @ + 1]
ReadsRow(c) ==
    /\ At(c, "pass") /\ job[c].pos \in Secrets
    /\ LET kid == env[job[c].pos] IN
       IF kid # job[c].my.kid /\ kid \in loaded[c] /\ CurrentKid(c) = job[c].my.kid
       THEN Goes(c, "row") /\ rowFresh' = rowFresh \cup {c}
       ELSE job' = Counts(c, kid) /\ UNCHANGED rowFresh   \* on the target, or unreadable
    /\ UNCHANGED <<store, env, sealed, slow, late, saves, ciphers, lock, keyPast, made, rotations, keyFaults>>

\* reencryptRow(): one version-checked update; a row changed meanwhile is left for the next run
\* (what an incomplete pass counts is replaced before anything reads it).
WritesRow(c) ==
    /\ At(c, "row")
    /\ \/ /\ c \in rowFresh
          /\ env' = [env EXCEPT ![job[c].pos] = job[c].my.kid]
          /\ late' = late \ {job[c].pos}
          /\ job' = [job EXCEPT ![c].used = @ \cup {job[c].my.kid}, ![c].pos = @ + 1, ![c].at = "pass"]
          /\ rowFresh' = {d \in rowFresh : job[d].pos # job[c].pos} /\ UNCHANGED keyFaults
       \/ /\ c \in rowFresh => KeyFault
          /\ c \notin rowFresh => UNCHANGED keyFaults
          /\ job' = [job EXCEPT ![c].used = @ \cup {env[job[c].pos]}, ![c].pos = @ + 1,
                                ![c].at = "pass", ![c].whole = FALSE]
          /\ rowFresh' = rowFresh \ {c} /\ UNCHANGED <<env, late>>
    /\ UNCHANGED <<store, sealed, slow, saves, ciphers, lock, keyPast, made, rotations>>

\* The pass's result; a complete one goes on to retire.
RecordsPass(c) ==
    /\ At(c, "pass") /\ job[c].pos \notin Secrets
    /\ LET next == IF job[c].whole THEN "retiring" ELSE "reencrypting" IN
       SaveState(c, [job[c].my EXCEPT !.usage = job[c].used, !.phase = next],
                 IF job[c].whole THEN "load" ELSE "end")
    /\ UNCHANGED <<ring, ringFresh, secrets, ciphers, keyPast, made, rotations, keyFaults>>

\* stepRetiring(): what the pass found on no envelope, never the active key.
Removable(c) == job[c].snap \ ({job[c].my.active} \cup job[c].my.usage)
ChoosesKeys(c) ==
    /\ At(c, "choose")
    /\ IF job[c].my.active \notin job[c].snap
       THEN GivesUp(c) /\ UNCHANGED slow
       ELSE /\ Goes(c, IF Removable(c) = {} THEN "retired" ELSE "recount")
            /\ slow' = {d \in up : sealed[d].row # 0} /\ UNCHANGED <<state, stFresh, lock>>
    /\ UNCHANGED <<ring, ringFresh, env, rowFresh, sealed, late, saves, ciphers, keyPast, made, rotations, keyFaults>>

CountsRow(c) ==
    /\ At(c, "recount") /\ job[c].pos \in Secrets
    /\ job' = Counts(c, env[job[c].pos])
    /\ UNCHANGED <<store, secrets, ciphers, lock, keyPast, made, rotations, keyFaults>>

\* A key an envelope still uses sends the rotation back; otherwise the ring is written without them.
Recounted_Ignored(c) == {}
Recounted(c) == Removable(c) \cap job[c].used
RemovesKeys(c) ==
    /\ At(c, "recount") /\ job[c].pos \notin Secrets
    /\ IF Recounted(c) # {}
       THEN /\ SaveState(c, [job[c].my EXCEPT !.usage = job[c].used, !.phase = "reencrypting"], "load")
            /\ UNCHANGED <<ring, ringFresh>>
       ELSE IF c \in ringFresh
       THEN /\ ring' = job[c].snap \ Removable(c) /\ ringFresh' = {}
            /\ Goes(c, "retired") /\ UNCHANGED <<state, stFresh, lock>>
       ELSE GivesUp(c) /\ UNCHANGED <<ring, ringFresh>>
    /\ UNCHANGED <<secrets, ciphers, keyPast, made, rotations, keyFaults>>

Finishes(c) ==
    /\ At(c, "retired")
    /\ SaveState(c, [job[c].my EXCEPT !.phase = "done"], "end")
    /\ UNCHANGED <<ring, ringFresh, secrets, ciphers, keyPast, made, rotations, keyFaults>>

--------------------------------------------------------------------------------
JobSteps(c) ==
    \/ TakesLock(c) \/ LoadsState(c) \/ ReadsRing(c) \/ RecordsKids(c) \/ AddsKey(c) \/ RecordsKey(c)
    \/ LooksForLoaded(c) \/ Activates(c) \/ LooksForEncrypting(c) \/ Reloads(c) \/ ReadsRow(c)
    \/ WritesRow(c) \/ RecordsPass(c) \/ ChoosesKeys(c) \/ CountsRow(c) \/ RemovesKeys(c) \/ Finishes(c)

KeyNext ==
    \/ \E c \in Copies :
        \/ LoadKeys(c) \/ LoadActiveKid(c) \/ Beat(c) \/ BeatExpires(c) \/ CopyStarts(c) \/ CopyDies(c)
        \/ \E r \in Secrets : Seals(c, r)
        \/ Saves(c) \/ JobSteps(c)
    \/ RotateRequest \/ ActivateAnyway \/ LockLapses

KeySpec == KeyInit /\ [][KeyNext]_keyVars

--------------------------------------------------------------------------------
\* Type correctness.
KeyTypeOK ==
    /\ ring \subseteq Kids /\ ring # {} /\ state \in StateRow
    /\ {ringFresh, stFresh, rowFresh, up, slow} \subseteq SUBSET Copies
    /\ env \in [Secrets -> Kids] /\ late \subseteq Secrets
    /\ loaded \in [Copies -> SUBSET Kids] /\ known \in [Copies -> Kids \cup {0, Unread}]
    /\ beat \in [Copies -> [kids: SUBSET Kids, enc: Kids \cup {Unread}]]
    /\ lock \in Copies \cup {NoCopy} /\ sealed \in [Copies -> [row: Secrets \cup {0}, kid: Kids \cup {0}]]
    /\ \A c \in Copies : job[c].my \in StateRow /\ job[c].snap \subseteq Kids

\* No envelope is left on a key that is gone (step 4, "as soon as a complete pass left no envelope
\* on a key"), whatever copies crash and locks lapse: unless a request that was in flight when the
\* recount began saved it, the job looked while a running copy had no heartbeat, or a job whose
\* lock had lapsed went on with a rotation that was over.
NoOrphanedEnvelope == unseen \/ outlived \/ \A r \in Secrets : env[r] \in ring \/ r \in late

\* No copy writes what another cannot read (ConfigKeyHeartbeat): what any running copy encrypts
\* with, every running copy has loaded, unless the key was activated by hand or the job could not
\* see a copy.
WrittenIsReadable ==
    unseen \/ forced \/ outlived \/ \A c, d \in up : CurrentKid(c) = Unread \/ CurrentKid(c) \in loaded[d]

\* A rotation adds at most one key, however often a copy stops between ring and row: the key in
\* the ring that was not recorded is taken up (stepAdding). Unless a job whose lock had lapsed went
\* on with a rotation that was over: it retires the next rotation's key before that is recorded,
\* and another is added. The versioned row does not guard the ring.
OneKeyEach == outlived \/ made <= 1 + rotations

\* What the rotation promises, together: every envelope can be opened, by every copy, and no key is made twice.
KeysUsable == KeyTypeOK /\ NoOrphanedEnvelope /\ WrittenIsReadable /\ OneKeyEach
================================================================================
